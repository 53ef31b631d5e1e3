-------------------------- MODULE AdcModuleProofs --------------------------
(***************************************************************************)
(* What holds of AdcModule for every number of buttons, FIFO capacity,     *)
(* number of loads and set of failing calls.                               *)
(***************************************************************************)
EXTENDS AdcModule, StatusProofs, TLAPS

USE NumButtonsAssumption, AdcAssumption

-----------------------------------------------------------------------------
(* Operators                                                               *)

\* Filling in one level or the event keeps a record a record.
LEMMA RecordUpdate ==
  ASSUME NEW r \in Record, NEW b \in Button, NEW l \in Level, NEW e \in Event
  PROVE  /\ [r EXCEPT !.button_status[b] = l] \in Record
         /\ [r EXCEPT !.event_type = e] \in Record
  BY DEF Record

\* The FIFO takes a record whole or not at all, and never exceeds its size.
LEMMA RtfPutBounded ==
  ASSUME TypeOK, NEW rec \in Record
  PROVE  RtfPut(rec) \in Seq(Record) /\ Len(RtfPut(rec)) <= FIFO_SIZE
  BY DEF TypeOK, RtfPut

LEMMA ButtonFacts ==
  /\ 0 \in Button /\ LastButton \in Button
  /\ \A b \in Button : b \in Nat /\ b <= LastButton /\ (b < LastButton => b + 1 \in Button)
  /\ Button \subseteq EoiBits
  BY DEF Button, LastButton, EoiBits

-----------------------------------------------------------------------------
(* Type correctness                                                        *)

LEMMA NoStatusIsRecord == NoStatus \in Record
<1>1. 0 = BtnEvent(0, 0) BY DEF BtnEvent
<1>2. 0 \in Event BY <1>1, ButtonFacts, EventOfEdge DEF Level
<1> QED BY <1>2 DEF NoStatus, Record, Level

LEMMA TypeInit == Init => TypeOK
<1> SUFFICES ASSUME Init PROVE TypeOK
  OBVIOUS
<1>1. loads \in 0..MaxLoads
  BY DEF Init
<1>2. GPIOBIntType2 \in [Button -> Level] /\ unreported \in [Button -> SUBSET Level]
  BY DEF Init, Level, FALLING
<1>3. fifo \in Seq(Record) /\ Len(fifo) <= FIFO_SIZE
  BY DEF Init
<1>4. hb \in Button /\ st \in Record
  BY ButtonFacts, NoStatusIsRecord DEF Init
<1> QED BY <1>1, <1>2, <1>3, <1>4 DEF Init, TypeOK, ModSteps, HandSteps

LEMMA TypeStep == TypeOK /\ [Next]_vars => TypeOK'
<1> SUFFICES ASSUME TypeOK, [Next]_vars PROVE TypeOK'
  OBVIOUS
<1> USE DEF TypeOK, gpioVars, regVars, modVars, handVars, histVars
<1>1. CASE UNCHANGED vars
  BY <1>1 DEF vars
<1>2. ASSUME NEW b \in Button, PinEdge(b) PROVE TypeOK'
  <2>1. 1 - pin[b] \in Level BY DEF Level
  <2> QED BY <1>2, <2>1 DEF PinEdge
<1>3. CASE FifoRead
  BY <1>3 DEF FifoRead
<1>4. CASE Insmod
  BY <1>4 DEF Insmod, ModStep, ModSteps
<1>5. CASE Load
  <2>1. CASE SetupPort BY <2>1 DEF SetupPort, ModStep, ModSteps
  <2>2. CASE EnableEdges BY <2>2 DEF EnableEdges, ModStep, ModSteps
  <2>3. CASE ArmFalling BY <2>3 DEF ArmFalling, ModStep, ModSteps, FALLING, Level
  <2>4. CASE CheckAdc BY <2>4 DEF CheckAdc, ModStep, ModSteps
  <2>5. CASE RequestIrq BY <2>5 DEF RequestIrq, ModStep, ModSteps
  <2>6. CASE EnableIrq BY <2>6 DEF EnableIrq, ModStep, ModSteps
  <2>7. CASE CreateFifo BY <2>7 DEF CreateFifo, ModStep, ModSteps
  <2> QED BY <1>5, <2>1, <2>2, <2>3, <2>4, <2>5, <2>6, <2>7 DEF Load
<1>6. CASE Unload
  <2>1. CASE DisableIrq BY <2>1 DEF DisableIrq, ModStep, ModSteps
  <2>2. CASE ReleaseIrq BY <2>2 DEF ReleaseIrq, ModStep, ModSteps
  <2>3. CASE DestroyFifo
    <3>1. <<>> \in Seq(Record) /\ Len(<<>>) <= FIFO_SIZE OBVIOUS
    <3> QED BY <2>3, <3>1 DEF DestroyFifo, ModStep, ModSteps
  <2> QED BY <1>6, <2>1, <2>2, <2>3 DEF Unload
<1>7. CASE Handler
  <2> USE DEF HandSteps
  <2>1. CASE Enter BY <2>1 DEF Enter
  <2>2. CASE Oops BY <2>2 DEF Oops
  <2>3. CASE Sample
    <3>1. pin[hb] \in Level OBVIOUS
    <3>2. st.event_type \in Event BY DEF Record
    <3>3. st' \in Record BY <2>3, <3>1, <3>2, RecordUpdate DEF Sample, PortBit
    <3>4. hb' \in Button BY <2>3, ButtonFacts DEF Sample
    <3> QED BY <2>3, <3>3, <3>4 DEF Sample
  <2>4. CASE Test BY <2>4, ButtonFacts DEF Test
  <2>5. CASE Toggle
    <3>1. Named(hb) \in Event BY EventOfEdge DEF Named
    <3>2. st.button_status[hb] \in Level BY DEF Record
    <3>3. st' \in Record BY <2>5, <3>1, <3>2, RecordUpdate DEF Toggle
    <3>4. GPIOBIntType2' \in [Button -> Level] BY <2>5 DEF Toggle, Rearmed, Level
    <3> QED BY <2>5, <3>3, <3>4 DEF Toggle
  <2>6. CASE Put BY <2>6, RtfPutBounded DEF Put
  <2>7. CASE EndOfInterrupt BY <2>7 DEF EndOfInterrupt
  <2>8. CASE Leave BY <2>8, ButtonFacts, NoStatusIsRecord DEF Leave
  <2> QED BY <1>7, <2>1, <2>2, <2>3, <2>4, <2>5, <2>6, <2>7, <2>8 DEF Handler
<1> QED BY <1>1, <1>2, <1>3, <1>4, <1>5, <1>6, <1>7 DEF Next

\* Every variable keeps its type and RT-FIFO 0 never exceeds its capacity.
THEOREM TypeCorrect == Spec => []TypeOK
  BY TypeInit, TypeStep, PTL DEF Spec

-----------------------------------------------------------------------------
(* The inductive invariant, part by part                                   *)

LEMMA InvInit == Init => IInv
<1> SUFFICES ASSUME Init PROVE IInv
  OBVIOUS
<1>1. TypeOK BY TypeInit
<1>2. Stages BY DEF Init, Stages
<1>3. Backed BY DEF Init, Backed
<1>4. Found BY DEF Init, Found
<1>5. Sampled BY DEF Init, Sampled
<1>6. FirstLoad BY DEF Init, FirstLoad
<1>7. Spaced BY DEF Init, Spaced, InPhase, FALLING, RISING
<1>8. Passed BY DEF Init, Passed
<1> QED BY <1>1, <1>2, <1>3, <1>4, <1>5, <1>6, <1>7, <1>8 DEF IInv

\* init_module and cleanup_module set up and take down in step with mod.
LEMMA StagesStep == IInv /\ [Next]_vars => Stages'
<1> SUFFICES ASSUME IInv, [Next]_vars PROVE Stages'
  OBVIOUS
<1> USE DEF IInv, TypeOK, Stages, gpioVars, regVars, modVars, handVars, histVars
<1>1. CASE UNCHANGED vars BY <1>1 DEF vars
<1>2. ASSUME NEW b \in Button, PinEdge(b) PROVE Stages' BY <1>2 DEF PinEdge
<1>3. CASE FifoRead BY <1>3 DEF FifoRead
<1>4. CASE Insmod BY <1>4 DEF Insmod, ModStep
<1>5. CASE Load
  BY <1>5 DEF Load, SetupPort, EnableEdges, ArmFalling, CheckAdc, RequestIrq,
              EnableIrq, CreateFifo, ModStep
<1>6. CASE Unload
  BY <1>6 DEF Unload, DisableIrq, ReleaseIrq, DestroyFifo, ModStep
<1>7. CASE Handler
  BY <1>7 DEF Handler, Enter, Oops, Sample, Test, Toggle, Put, EndOfInterrupt, Leave
<1> QED BY <1>1, <1>2, <1>3, <1>4, <1>5, <1>6, <1>7 DEF Next

\* A latched button owes a report unless it has just been reported.
LEMMA BackedStep == IInv /\ [Next]_vars => Backed'
<1> SUFFICES ASSUME IInv, [Next]_vars PROVE Backed'
  OBVIOUS
<1> USE DEF IInv, TypeOK, Backed, gpioVars, regVars, modVars, handVars, histVars
<1>1. CASE UNCHANGED vars BY <1>1 DEF vars
<1>2. ASSUME NEW b \in Button, PinEdge(b) PROVE Backed'
  <2>1. CASE edgeMode BY <1>2, <2>1 DEF PinEdge
  <2>2. CASE ~edgeMode BY <1>2, <2>2 DEF PinEdge
  <2> QED BY <2>1, <2>2
<1>3. CASE FifoRead BY <1>3 DEF FifoRead
<1>4. CASE Insmod BY <1>4 DEF Insmod, ModStep
<1>5. CASE Load
  BY <1>5 DEF Load, SetupPort, EnableEdges, ArmFalling, CheckAdc, RequestIrq,
              EnableIrq, CreateFifo, ModStep
<1>6. CASE Unload BY <1>6 DEF Unload, DisableIrq, ReleaseIrq, DestroyFifo, ModStep
<1>7. CASE Handler
  <2>1. CASE Enter BY <2>1 DEF Enter
  <2>2. CASE Oops BY <2>2 DEF Oops
  <2>3. CASE Sample BY <2>3 DEF Sample
  <2>4. CASE Test BY <2>4 DEF Test
  <2>5. CASE Toggle BY <2>5 DEF Toggle, Found
  <2>6. CASE Put BY <2>6 DEF Put
  <2>7. CASE EndOfInterrupt
    <3>1. IntStsB' = {} BY <2>7, ButtonFacts DEF EndOfInterrupt
    <3> QED BY <2>7, <3>1 DEF EndOfInterrupt
  <2>8. CASE Leave BY <2>8 DEF Leave
  <2> QED BY <1>7, <2>1, <2>2, <2>3, <2>4, <2>5, <2>6, <2>7, <2>8 DEF Handler
<1> QED BY <1>1, <1>2, <1>3, <1>4, <1>5, <1>6, <1>7 DEF Next

\* A latched button lies ahead of the test, and stays latched until the
\* acknowledgement, whatever the pins do meanwhile.
LEMMA FoundStep == IInv /\ [Next]_vars => Found'
<1> SUFFICES ASSUME IInv, [Next]_vars PROVE Found'
  OBVIOUS
<1> USE ButtonFacts
    DEF IInv, TypeOK, Found, gpioVars, regVars, modVars, handVars, histVars
<1>1. CASE UNCHANGED vars BY <1>1 DEF vars
<1>2. ASSUME NEW b \in Button, PinEdge(b) PROVE Found' BY <1>2 DEF PinEdge
<1>3. CASE FifoRead BY <1>3 DEF FifoRead
<1>4. CASE Insmod BY <1>4 DEF Insmod, ModStep
<1>5. CASE Load
  BY <1>5 DEF Load, SetupPort, EnableEdges, ArmFalling, CheckAdc, RequestIrq,
              EnableIrq, CreateFifo, ModStep
<1>6. CASE Unload BY <1>6 DEF Unload, DisableIrq, ReleaseIrq, DestroyFifo, ModStep
<1>7. CASE Handler
  <2>1. CASE Enter BY <2>1 DEF Enter
  <2>2. CASE Oops BY <2>2 DEF Oops
  <2>3. CASE Sample
    <3>1. \A b \in IntStsB : b >= 0 OBVIOUS
    <3> QED BY <2>3, <3>1 DEF Sample
  <2>4. CASE Test
    <3>1. PICK b \in IntStsB : b >= hb BY <2>4 DEF Test
    <3>2. CASE b = hb BY <2>4, <3>2 DEF Test, Pending
    <3>3. CASE b # hb
      <4>1. hb \in Nat /\ b \in Nat /\ LastButton \in Nat /\ b <= LastButton
        OBVIOUS
      <4>2. b >= hb + 1 /\ hb < LastButton BY <3>1, <3>3, <4>1
      <4> QED BY <2>4, <4>2 DEF Test, Pending
    <3> QED BY <3>2, <3>3
  <2>5. CASE Toggle BY <2>5 DEF Toggle
  <2>6. CASE Put BY <2>6 DEF Put
  <2>7. CASE EndOfInterrupt BY <2>7 DEF EndOfInterrupt
  <2>8. CASE Leave BY <2>8 DEF Leave
  <2> QED BY <1>7, <2>1, <2>2, <2>3, <2>4, <2>5, <2>6, <2>7, <2>8 DEF Handler
<1> QED BY <1>1, <1>2, <1>3, <1>4, <1>5, <1>6, <1>7 DEF Next

\* What the test has passed by is latched only if its pin moved meanwhile.
LEMMA PassedStep == IInv /\ [Next]_vars => Passed'
<1> SUFFICES ASSUME IInv, [Next]_vars PROVE Passed'
  OBVIOUS
<1> USE ButtonFacts
    DEF IInv, TypeOK, Passed, gpioVars, regVars, modVars, handVars, histVars
<1>1. CASE UNCHANGED vars BY <1>1 DEF vars
<1>2. ASSUME NEW b \in Button, PinEdge(b) PROVE Passed' BY <1>2 DEF PinEdge
<1>3. CASE FifoRead BY <1>3 DEF FifoRead
<1>4. CASE Insmod BY <1>4 DEF Insmod, ModStep
<1>5. CASE Load
  BY <1>5 DEF Load, SetupPort, EnableEdges, ArmFalling, CheckAdc, RequestIrq,
              EnableIrq, CreateFifo, ModStep
<1>6. CASE Unload BY <1>6 DEF Unload, DisableIrq, ReleaseIrq, DestroyFifo, ModStep
<1>7. CASE Handler
  <2>1. CASE Enter BY <2>1 DEF Enter
  <2>2. CASE Oops BY <2>2 DEF Oops
  <2>3. CASE Sample
    <3>1. \A b \in IntStsB : ~(b < 0) OBVIOUS
    <3> QED BY <2>3, <3>1 DEF Sample
  <2>4. CASE Test
    <3>1. CASE Pending(hb) \/ ~(hb < LastButton) BY <2>4, <3>1 DEF Test
    <3>2. CASE ~Pending(hb) /\ hb < LastButton
      <4>1. hb' = hb + 1 /\ UNCHANGED <<IntStsB, moved>> /\ hpc = "test"
        BY <2>4, <3>2 DEF Test
      <4>2. ASSUME NEW b \in IntStsB, b < hb + 1 PROVE b < hb
        <5>1. hb \in Nat /\ b \in Nat /\ b # hb BY <3>2 DEF Pending
        <5> QED BY <4>2, <5>1
      <4> QED BY <4>1, <4>2
    <3> QED BY <3>1, <3>2
  <2>5. CASE Toggle BY <2>5 DEF Toggle
  <2>6. CASE Put BY <2>6 DEF Put
  <2>7. CASE EndOfInterrupt BY <2>7 DEF EndOfInterrupt
  <2>8. CASE Leave BY <2>8 DEF Leave
  <2> QED BY <1>7, <2>1, <2>2, <2>3, <2>4, <2>5, <2>6, <2>7, <2>8 DEF Handler
<1> QED BY <1>1, <1>2, <1>3, <1>4, <1>5, <1>6, <1>7 DEF Next

\* A level read stays right until its pin moves, and then moved has the pin.
LEMMA SampledStep == IInv /\ [Next]_vars => Sampled'
<1> SUFFICES ASSUME IInv, [Next]_vars PROVE Sampled'
  OBVIOUS
<1> USE DEF IInv, TypeOK, Sampled, gpioVars, regVars, modVars, handVars, histVars
<1>1. CASE UNCHANGED vars BY <1>1 DEF vars
<1>2. ASSUME NEW b \in Button, PinEdge(b) PROVE Sampled' BY <1>2 DEF PinEdge
<1>3. CASE FifoRead BY <1>3 DEF FifoRead
<1>4. CASE Insmod BY <1>4 DEF Insmod, ModStep
<1>5. CASE Load
  BY <1>5 DEF Load, SetupPort, EnableEdges, ArmFalling, CheckAdc, RequestIrq,
              EnableIrq, CreateFifo, ModStep
<1>6. CASE Unload
  BY <1>6 DEF Unload, DisableIrq, ReleaseIrq, DestroyFifo, ModStep
<1>7. CASE Handler
  <2>1. CASE Enter
    <3>1. \A b \in Button : ~(b < 0) BY DEF Button
    <3>2. hb' = 0 BY <2>1 DEF Enter, Found
    <3> QED BY <2>1, <3>1, <3>2 DEF Enter
  <2>2. CASE Oops BY <2>2 DEF Oops
  <2>3. CASE Sample
    <3> DEFINE bs == st.button_status
    <3>1. bs \in [Button -> Level] BY DEF Record
    <3>2. st'.button_status = [bs EXCEPT ![hb] = pin[hb]]
      BY <2>3 DEF Sample, PortBit, Record
    <3>3. \A b \in Button : b <= hb => b \in moved \/ st'.button_status[b] = pin[b]
      <4> SUFFICES ASSUME NEW b \in Button, b <= hb, b \notin moved
                   PROVE  st'.button_status[b] = pin[b]
        OBVIOUS
      <4>1. CASE b = hb BY <3>1, <3>2, <4>1
      <4>2. CASE b # hb
        <5>1. b < hb BY <4>2, ButtonFacts
        <5> QED BY <2>3, <3>1, <3>2, <4>2, <5>1 DEF Sample
      <4> QED BY <4>1, <4>2
    <3>4. pin' = pin /\ moved' = moved BY <2>3 DEF Sample
    <3>5. CASE hb < LastButton
      <4>1. hpc' = "sample" /\ hb' = hb + 1 BY <2>3, <3>5 DEF Sample
      <4>2. \A b \in Button : b < hb + 1 => b <= hb BY DEF Button
      <4> HIDE DEF bs
      <4> QED BY <3>3, <3>4, <4>1, <4>2
    <3>6. CASE ~(hb < LastButton)
      <4>1. hpc' = "test" BY <2>3, <3>6 DEF Sample
      <4>2. hb = LastButton BY <3>6, ButtonFacts
      <4>3. \A b \in Button : b <= hb BY <4>2, ButtonFacts, Zenon
      <4> QED BY <3>3, <3>4, <4>1, <4>3
    <3> QED BY <3>5, <3>6
  <2>4. CASE Test BY <2>4 DEF Test
  <2>5. CASE Toggle
    <3>1. st'.button_status = st.button_status BY <2>5 DEF Toggle, Record
    <3> QED BY <2>5, <3>1 DEF Toggle
  <2>6. CASE Put BY <2>6 DEF Put
  <2>7. CASE EndOfInterrupt BY <2>7 DEF EndOfInterrupt
  <2>8. CASE Leave BY <2>8 DEF Leave
  <2> QED BY <1>7, <2>1, <2>2, <2>3, <2>4, <2>5, <2>6, <2>7, <2>8 DEF Handler
<1> QED BY <1>1, <1>2, <1>3, <1>4, <1>5, <1>6, <1>7 DEF Next

\* On the first load the register writes of init_module come in an order that
\* lets nothing be latched in a direction that is changed afterwards.
LEMMA FirstLoadStep == IInv /\ [Next]_vars => FirstLoad'
<1> SUFFICES ASSUME IInv, [Next]_vars PROVE FirstLoad'
  OBVIOUS
<1> USE DEF IInv, TypeOK, FirstLoad, gpioVars, regVars, modVars, handVars, histVars
<1>1. CASE UNCHANGED vars BY <1>1 DEF vars
<1>2. ASSUME NEW b \in Button, PinEdge(b) PROVE FirstLoad'
  <2>1. CASE edgeMode BY <1>2, <2>1 DEF PinEdge
  <2>2. CASE ~edgeMode BY <1>2, <2>2 DEF PinEdge
  <2> QED BY <2>1, <2>2
<1>3. CASE FifoRead BY <1>3 DEF FifoRead
<1>4. CASE Insmod BY <1>4 DEF Insmod, ModStep, Backed
<1>5. CASE Load
  <2>1. CASE SetupPort BY <2>1 DEF SetupPort, ModStep
  <2>2. CASE EnableEdges BY <2>2 DEF EnableEdges, ModStep
  <2>3. CASE ArmFalling BY <2>3 DEF ArmFalling, ModStep
  <2>4. CASE CheckAdc BY <2>4 DEF CheckAdc, ModStep
  <2>5. CASE RequestIrq BY <2>5 DEF RequestIrq, ModStep
  <2>6. CASE EnableIrq BY <2>6 DEF EnableIrq, ModStep
  <2>7. CASE CreateFifo BY <2>7 DEF CreateFifo, ModStep
  <2> QED BY <1>5, <2>1, <2>2, <2>3, <2>4, <2>5, <2>6, <2>7 DEF Load
<1>6. CASE Unload
  BY <1>6 DEF Unload, DisableIrq, ReleaseIrq, DestroyFifo, ModStep
<1>7. CASE Handler
  <2>1. CASE Enter BY <2>1 DEF Enter
  <2>2. CASE Oops BY <2>2 DEF Oops
  <2>3. CASE Sample BY <2>3 DEF Sample
  <2>4. CASE Test BY <2>4 DEF Test
  <2>5. CASE Toggle
    <3>1. attached BY <2>5 DEF Toggle, Stages
    <3>2. loads <= 1 => loads = 1 /\ mod \notin {"mapped", "cleared", "enabled"}
      BY <3>1
    <3>3. \A c \in Button \ {hb} : /\ GPIOBIntType2'[c] = GPIOBIntType2[c]
                                   /\ unreported'[c] = unreported[c]
      BY <2>5 DEF Toggle, Rearmed
    <3> QED BY <2>5, <3>1, <3>2, <3>3 DEF Toggle
  <2>6. CASE Put BY <2>6 DEF Put
  <2>7. CASE EndOfInterrupt
    <3>1. IntStsB' = {} BY <2>7, ButtonFacts DEF EndOfInterrupt
    <3> QED BY <2>7, <3>1 DEF EndOfInterrupt
  <2>8. CASE Leave BY <2>8 DEF Leave
  <2> QED BY <1>7, <2>1, <2>2, <2>3, <2>4, <2>5, <2>6, <2>7, <2>8 DEF Handler
<1> QED BY <1>1, <1>2, <1>3, <1>4, <1>5, <1>6, <1>7 DEF Next

\* If each edge finds the system at rest, one button is latched at a time, and
\* the handler leaves it in phase.
LEMMA SpacedStep == IInv /\ [Next]_vars => Spaced'
<1> SUFFICES ASSUME IInv, [Next]_vars PROVE Spaced'
  OBVIOUS
<1> USE DEF IInv, TypeOK, Spaced, gpioVars, regVars, modVars, handVars, histVars
<1>1. CASE UNCHANGED vars BY <1>1 DEF vars, OnlyLatched, InPhase
<1>2. ASSUME NEW b \in Button, PinEdge(b) PROVE Spaced'
  <2>1. CASE ~edgeMode
    <3>1. hpc = "idle" /\ IntStsB = {} /\ unreported = [c \in Button |-> {}]
      BY <2>1 DEF Backed
    <3>2. \A c \in Button : InPhase(c)'
      BY <1>2, <2>1, <3>1 DEF PinEdge, InPhase, FALLING, RISING
    <3>3. UNCHANGED <<hpc, fifo, loads, edgeMode, GPIOBIntType2>> /\ IntStsB' = {}
      BY <1>2, <2>1, <3>1 DEF PinEdge
    <3>4. crowded' = crowded BY <1>2, <2>1 DEF PinEdge
    <3>5. hpc' = "idle" /\ moved' = {} BY <1>2, <3>1 DEF PinEdge
    <3>6. ~edgeMode' => GPIOBIntType2' = [c \in Button |-> FALLING] BY <3>3
    <3> HIDE DEF IInv, TypeOK
    <3> QED BY <3>2, <3>3, <3>4, <3>5, <3>6
  <2>2. CASE edgeMode /\ (crowded \/ ~Quiet \/ loads > 1)
    <3>1. edgeMode' /\ loads' = loads /\ loads \in Nat BY <1>2, <2>2 DEF PinEdge
    <3>2. crowded' \/ ~(loads <= 1)
      <4>1. crowded' = (crowded \/ (edgeMode /\ ~Quiet)) BY <1>2 DEF PinEdge
      <4>2. loads > 1 => ~(loads <= 1) BY <3>1
      <4> QED BY <2>2, <4>1, <4>2, Zenon
    <3>3. hpc' = "idle" => moved' = {} BY <1>2 DEF PinEdge
    <3> HIDE DEF IInv, TypeOK
    <3> QED BY <3>1, <3>2, <3>3
  <2>3. CASE edgeMode /\ ~crowded /\ Quiet /\ loads <= 1
    <3>1. \A c \in Button : InPhase(c) BY <2>3 DEF Quiet, OnlyLatched
    <3>2. \A c \in Button \ {b} : InPhase(c)' BY <1>2, <2>3, <3>1 DEF PinEdge, InPhase
    <3>3. CASE GPIOBIntType2[b] = 1 - pin[b]
      <4>1. IntStsB' = {b} /\ pin'[b] = GPIOBIntType2[b] /\ fifo' = <<>>
        BY <1>2, <2>3, <3>3 DEF PinEdge, Quiet
      <4>2. OnlyLatched(b)' BY <1>2, <3>2, <4>1 DEF PinEdge, OnlyLatched
      <4> QED BY <1>2, <2>3, <4>2 DEF PinEdge, Quiet
    <3>4. CASE GPIOBIntType2[b] # 1 - pin[b]
      <4>1. GPIOBIntType2[b] = FALLING /\ 1 - pin[b] = RISING
        BY <3>1, <3>4 DEF InPhase, Level, FALLING, RISING
      <4>2. unreported'[b] = {RISING} BY <1>2, <2>3, <3>1, <4>1 DEF PinEdge, InPhase
      <4>3. InPhase(b)' BY <1>2, <4>1, <4>2 DEF PinEdge, InPhase
      <4>4. IntStsB' = {} BY <1>2, <2>3, <3>4 DEF PinEdge, Quiet
      <4> QED BY <1>2, <2>3, <3>2, <4>3, <4>4 DEF PinEdge, Quiet
    <3> QED BY <3>3, <3>4
  <2> QED BY <2>1, <2>2, <2>3
<1>3. CASE FifoRead
  <2>1. \A b \in Button : InPhase(b)' <=> InPhase(b) BY <1>3 DEF FifoRead, InPhase
  <2>2. \A b \in Button : ~OnlyLatched(b) BY <1>3 DEF FifoRead, OnlyLatched
  <2> QED BY <1>3, <2>1, <2>2 DEF FifoRead
<1>4. CASE Insmod
  <2>1. loads' = loads + 1 BY <1>4 DEF Insmod, ModStep
  <2> QED BY <1>4, <2>1 DEF Insmod, ModStep, OnlyLatched, InPhase
<1>5. CASE Load
  <2>1. CASE SetupPort
    <3>1. loads <= 1 => GPIOBIntType2 = [b \in Button |-> FALLING]
      BY <2>1 DEF SetupPort, ModStep, FirstLoad
    <3>2. loads <= 1 => \A b \in Button : InPhase(b)'
      BY <2>1, <3>1 DEF SetupPort, ModStep, InPhase, FALLING, RISING
    <3> QED BY <2>1, <3>2 DEF SetupPort, ModStep
  <2>2. CASE EnableEdges BY <2>2 DEF EnableEdges, ModStep, OnlyLatched, InPhase
  <2>3. CASE ArmFalling
    <3>1. loads <= 1 => GPIOBIntType2' = GPIOBIntType2
      BY <2>3 DEF ArmFalling, ModStep, FirstLoad
    <3> QED BY <2>3, <3>1 DEF ArmFalling, ModStep, OnlyLatched, InPhase
  <2>4. CASE CheckAdc BY <2>4 DEF CheckAdc, ModStep, OnlyLatched, InPhase
  <2>5. CASE RequestIrq BY <2>5 DEF RequestIrq, ModStep, OnlyLatched, InPhase
  <2>6. CASE EnableIrq BY <2>6 DEF EnableIrq, ModStep, OnlyLatched, InPhase
  <2>7. CASE CreateFifo BY <2>7 DEF CreateFifo, ModStep, OnlyLatched, InPhase
  <2> QED BY <1>5, <2>1, <2>2, <2>3, <2>4, <2>5, <2>6, <2>7 DEF Load
<1>6. CASE Unload
  BY <1>6 DEF Unload, DisableIrq, ReleaseIrq, DestroyFifo, ModStep, OnlyLatched, InPhase
<1>7. CASE Handler
  <2>1. CASE Enter BY <2>1 DEF Enter, OnlyLatched, InPhase
  <2>2. CASE Oops BY <2>2 DEF Oops, OnlyLatched, InPhase
  <2>3. CASE Sample BY <2>3 DEF Sample, OnlyLatched, InPhase
  <2>4. CASE Test
    <3>1. hpc' # "eoi"
      <4>1. PICK b \in IntStsB : b >= hb BY <2>4 DEF Test, Found
      <4>2. hb \in Nat /\ b \in Nat /\ LastButton \in Nat /\ b <= LastButton
        BY <4>1, ButtonFacts
      <4> QED BY <2>4, <4>1, <4>2 DEF Test, Pending
    <3> QED BY <2>4, <3>1 DEF Test, OnlyLatched, InPhase
  <2>5. CASE Toggle
    <3>1. edgeMode BY <2>5 DEF Toggle, Found, Backed
    <3>2. ~crowded /\ loads <= 1 => OnlyLatched(hb)
      BY <2>5 DEF Toggle, Found, OnlyLatched
    <3>3. ASSUME ~crowded, loads <= 1, NEW c \in Button, c = hb PROVE InPhase(c)'
      BY <2>5, <3>2, <3>3 DEF Toggle, Rearmed, OnlyLatched, InPhase, Level, FALLING, RISING
    <3>4. ASSUME ~crowded, loads <= 1, NEW c \in Button, c # hb PROVE InPhase(c)'
      BY <2>5, <3>2, <3>4 DEF Toggle, Rearmed, OnlyLatched, InPhase
    <3>5. ~crowded /\ loads <= 1 => fifo = <<>> /\ pin[hb] = GPIOBIntType2[hb]
      BY <3>2 DEF OnlyLatched
    <3>6. st'.event_type = BtnEvent(hb, GPIOBIntType2[hb])
      BY <2>5 DEF Toggle, Named, Record
    <3>7. /\ hpc' = "put" /\ edgeMode' = edgeMode
          /\ UNCHANGED <<crowded, loads, moved, fifo, pin, hb>>
      BY <2>5 DEF Toggle
    <3>8. ~crowded /\ loads <= 1 => moved = {} OBVIOUS
    <3> HIDE DEF IInv, TypeOK
    <3>9. \A c \in Button : ~crowded /\ loads <= 1 => InPhase(c)' BY <3>3, <3>4
    <3> QED BY <3>1, <3>5, <3>6, <3>7, <3>8, <3>9
  <2>6. CASE Put BY <2>6 DEF Put, InPhase
  <2>7. CASE EndOfInterrupt
    <3>1. IntStsB' = {} BY <2>7, ButtonFacts DEF EndOfInterrupt
    <3> QED BY <2>7, <3>1 DEF EndOfInterrupt, InPhase
  <2>8. CASE Leave BY <2>8 DEF Leave, InPhase
  <2> QED BY <1>7, <2>1, <2>2, <2>3, <2>4, <2>5, <2>6, <2>7, <2>8 DEF Handler
<1> QED BY <1>1, <1>2, <1>3, <1>4, <1>5, <1>6, <1>7 DEF Next

LEMMA InvStep == IInv /\ [Next]_vars => IInv'
<1> SUFFICES ASSUME IInv, [Next]_vars PROVE IInv'
  OBVIOUS
<1>1. TypeOK' BY TypeStep DEF IInv
<1> QED BY <1>1, StagesStep, BackedStep, FoundStep, PassedStep, SampledStep,
       FirstLoadStep, SpacedStep DEF IInv

\* The inductive invariant holds throughout.
THEOREM Invariance == Spec => []IInv
  BY InvInit, InvStep, PTL DEF Spec

-----------------------------------------------------------------------------
(* The properties                                                          *)

\* No edge is reported twice, however often the module is loaded.
THEOREM EdgesReportedOnce == Spec => []NoEdgeTwice
<1>1. IInv => NoEdgeTwice BY DEF IInv, Backed, Found, NoEdgeTwice
<1> QED BY <1>1, Invariance, PTL

\* The acknowledgement drops no interrupt that a lower-numbered one did not take
\* the place of, but for pins that moved while the handler ran (adc.c:86-153).
THEOREM DroppedOnlyByLower == Spec => []DropsOnlyHigher
<1>1. IInv => DropsOnlyHigher
  <2> SUFFICES ASSUME IInv, hpc = "eoi", NEW b \in IntStsB \ {hb}, b \notin moved
               PROVE  b > hb
    BY DEF DropsOnlyHigher
  <2>1. b \in Nat /\ hb \in Nat BY ButtonFacts DEF IInv, TypeOK
  <2>2. ~(b < hb) BY DEF IInv, Passed
  <2> QED BY <2>1, <2>2
<1> QED BY <1>1, Invariance, PTL

\* The button levels in a record are those of the pins that stood still.
THEOREM SnapshotsFaithful == Spec => []SnapshotFaithful
<1>1. IInv => SnapshotFaithful BY DEF IInv, Sampled, SnapshotFaithful
<1> QED BY <1>1, Invariance, PTL

\* Edges that come one after the other are all reported, in records of one instant
\* that find room, whatever the number of buttons and the size of the FIFO.
THEOREM SpacedEdges == Spec => []SpacedEdgesReported
<1>1. ASSUME IInv, ~crowded, loads <= 1, hpc = "put"
      PROVE  /\ Len(fifo) < FIFO_SIZE
             /\ st.button_status = pin
             /\ st.event_type = BtnEvent(hb, pin[hb])
  <2>1. /\ moved = {} /\ fifo = <<>> /\ st.event_type = BtnEvent(hb, pin[hb])
    BY <1>1 DEF IInv, Spaced
  <2>2. \A b \in Button : st.button_status[b] = pin[b]
    BY <1>1, <2>1 DEF IInv, Sampled
  <2>3. st.button_status \in [Button -> Level] /\ pin \in [Button -> Level]
    BY <1>1 DEF IInv, TypeOK, Record
  <2>4. st.button_status = pin BY <2>2, <2>3
  <2> QED BY <2>1, <2>4
<1>2. ASSUME IInv, ~crowded, loads <= 1, Quiet, NEW b \in Button
      PROVE  \/ unreported[b] = {}
             \/ unreported[b] = {RISING} /\ GPIOBIntType2[b] = FALLING
  BY <1>2 DEF IInv, Spaced, Quiet, OnlyLatched, InPhase
<1>3. IInv => SpacedEdgesReported BY <1>1, <1>2 DEF SpacedEdgesReported
<1> QED BY <1>3, Invariance, PTL

\* An rtf_put meets a missing FIFO only between the unmasking of the line and
\* rtf_create, or in a handler that was left behind.
THEOREM PutsFindFifo == Spec => []PutFindsFifo
<1>1. IInv => PutFindsFifo BY DEF IInv, TypeOK, Stages, PutFindsFifo
<1> QED BY <1>1, Invariance, PTL

\* The handler acknowledges nothing without having reported something.
THEOREM NoServiceEmpty == Spec => NoEmptyService
<1>1. ASSUME IInv, [Next]_vars, hpc = "test" PROVE hpc' # "eoi"
  <2>1. PICK b \in IntStsB : b >= hb BY <1>1 DEF IInv, Found
  <2>2. b \in Button /\ hb \in Button BY <1>1, <2>1 DEF IInv, TypeOK
  <2>3. CASE Test
    <3>1. CASE Pending(hb) BY <2>3, <3>1 DEF Test
    <3>2. CASE ~Pending(hb)
      <4>1. hb \in Nat /\ b \in Nat /\ LastButton \in Nat /\ b <= LastButton
        BY <2>2, ButtonFacts
      <4>2. b # hb BY <2>1, <3>2 DEF Pending
      <4>3. hb < LastButton BY <2>1, <4>1, <4>2
      <4> QED BY <1>1, <2>3, <3>2, <4>3 DEF Test
    <3> QED BY <3>1, <3>2
  <2>4. CASE ~Test
    BY <1>1, <2>4 DEF Next, vars, regVars, handVars, PinEdge, FifoRead, Insmod, Load,
       SetupPort, EnableEdges, ArmFalling, CheckAdc, RequestIrq, EnableIrq,
       CreateFifo, Unload, DisableIrq, ReleaseIrq, DestroyFifo, ModStep, Handler,
       Enter, Oops, Sample, Toggle, Put, EndOfInterrupt, Leave
  <2> QED BY <2>3, <2>4
<1> QED BY <1>1, Invariance, PTL DEF Spec, NoEmptyService

\* The only step from "toggle" to "put" is Toggle.
LEMMA ToggleStep ==
  ASSUME [Next]_vars, hpc = "toggle", hpc' = "put"
  PROVE  Toggle
  BY DEF Next, vars, regVars, handVars, PinEdge, FifoRead, Insmod, Load, SetupPort,
     EnableEdges, ArmFalling, CheckAdc, RequestIrq, EnableIrq, CreateFifo, Unload,
     DisableIrq, ReleaseIrq, DestroyFifo, ModStep, Handler, Enter, Oops, Sample,
     Test, Put, EndOfInterrupt, Leave

\* On the first load a record names a direction the button really moved in.
THEOREM RealEdgesReported == Spec => ReportsARealEdge
<1>1. ASSUME IInv, [Next]_vars, hpc = "toggle", hpc' = "put", loads <= 1
      PROVE  \E dir \in unreported[hb] : st'.event_type = BtnEvent(hb, dir)
  <2>1. Toggle BY <1>1, ToggleStep
  <2>2. st'.event_type = BtnEvent(hb, GPIOBIntType2[hb])
    BY <1>1, <2>1 DEF Toggle, Named, IInv, TypeOK, Record
  <2>3. GPIOBIntType2[hb] \in unreported[hb] BY <1>1 DEF IInv, Found, FirstLoad
  <2> QED BY <2>2, <2>3
<1> QED BY <1>1, Invariance, PTL DEF Spec, ReportsARealEdge

-----------------------------------------------------------------------------
(* Leaving nothing behind                                                  *)

\* A module that is not loaded has left nothing behind, but for the handler of one
\* whose rtf_create failed, which stays for good.
THEOREM ExitsClean == Spec => []CleanExit
<1>1. IInv => CleanExit BY DEF IInv, Stages, CleanExit
<1> QED BY <1>1, Invariance, PTL

-----------------------------------------------------------------------------
(* Refinement: a module that is loaded once implements ButtonQueue         *)

LEMMA RecordHasEvent == \A r \in Record : r.event_type \in Event
  BY DEF Record

\* The buttons with an edge in the armed direction since their last record.
Owed == {b \in Button : GPIOBIntType2[b] \in unreported[b]}

\* ButtonQueue, through its refinement mapping.
LEMMA Mapping ==
  /\ Queue!vars = <<GPIOBIntType2, Owed, fifoUp, Types(Queued)>>
  /\ Queue!Button = Button
  /\ \A b \in Button : Queue!Events!Edge(b) <=>
       Owed' = Owed \union {b} /\ GPIOBIntType2' = GPIOBIntType2
  /\ \A b \in Button : Queue!Events!Report(b) <=>
       /\ b \in Owed /\ Owed' = Owed \ {b}
       /\ GPIOBIntType2' = [GPIOBIntType2 EXCEPT ![b] = 1 - @]
  BY DEF Queue!vars, Owed, Queue!Button, Button, Queue!Events!Edge, Queue!Events!Report

LEMMA RefinementInit == Init => Queue!Init
<1> SUFFICES ASSUME Init PROVE Queue!Init
  OBVIOUS
<1>1. Owed = {} BY DEF Init, Owed
<1>2. Queue!Events!Init
  BY <1>1 DEF Init, Owed, Queue!Events!Init, FALLING, Queue!Events!FALLING, Button,
              Queue!Events!Button
<1>3. Queued = <<>> BY DEF Init, Queued
<1> QED BY <1>2, <1>3, TypesOfEmpty DEF Init, Queue!Init

\* A step that leaves the armed directions, the edges and the FIFO alone stutters.
LEMMA RefinementStutter ==
  ASSUME GPIOBIntType2' = GPIOBIntType2, unreported' = unreported,
         fifoUp' = fifoUp, Queued' = Queued
  PROVE  UNCHANGED Queue!vars
<1>1. Owed' = Owed BY DEF Owed
<1>2. Types(Queued)' = Types(Queued) BY DEF Types
<1> QED BY <1>1, <1>2, Mapping DEF Queue!vars, Owed

\* An edge of b is an edge of b if it is in the armed direction, or a stutter.
LEMMA RefinementEdge ==
  ASSUME TypeOK, NEW b \in Button, PinEdge(b)
  PROVE  Queue!Edge(b) \/ UNCHANGED Queue!vars
<1>1. GPIOBIntType2' = GPIOBIntType2 /\ fifoUp' = fifoUp BY DEF PinEdge, modVars
<1>2. Queued' = Queued BY DEF PinEdge, modVars, handVars, Queued, RtfPut
<1>3. CASE ~edgeMode
  <2>1. unreported' = unreported BY <1>3 DEF PinEdge
  <2> QED BY <1>1, <1>2, <2>1, RefinementStutter
<1>4. CASE edgeMode
  <2>1. unreported' = [unreported EXCEPT ![b] = @ \union {1 - pin[b]}]
    BY <1>4 DEF PinEdge
  <2>2. \A c \in Button \ {b} : unreported'[c] = unreported[c]
    BY <2>1 DEF TypeOK
  <2>3. unreported'[b] = unreported[b] \union {1 - pin[b]}
    BY <2>1 DEF TypeOK
  <2>4. Owed' = Owed \union {b} \/ Owed' = Owed
    <3>1. CASE GPIOBIntType2[b] = 1 - pin[b] BY <1>1, <2>2, <2>3, <3>1 DEF Owed
    <3>2. CASE GPIOBIntType2[b] # 1 - pin[b] BY <1>1, <2>2, <2>3, <3>2 DEF Owed
    <3> QED BY <3>1, <3>2
  <2>5. Types(Queued)' = Types(Queued) BY <1>2 DEF Types
  <2>6. CASE Owed' = Owed \union {b}
    <3>1. Queue!Events!Edge(b) BY <1>1, <2>6, Mapping
    <3> QED BY <1>1, <2>5, <3>1 DEF Queue!Edge
  <2>7. CASE Owed' = Owed BY <1>1, <2>5, <2>7 DEF Queue!vars, Owed
  <2> QED BY <2>4, <2>6, <2>7
<1> QED BY <1>3, <1>4

\* What rtf_put does to the events in the FIFO.
LEMMA TypesOfPut ==
  ASSUME TypeOK, NEW r \in Record
  PROVE  Types(RtfPut(r)) = IF fifoUp /\ Len(Types(fifo)) < FIFO_SIZE
                            THEN Append(Types(fifo), r.event_type) ELSE Types(fifo)
<1>1. fifo \in Seq(Record) BY DEF TypeOK
<1>2. Len(Types(fifo)) = Len(fifo) BY <1>1, RecordHasEvent, TypesFacts
<1>3. Types(Append(fifo, r)) = Append(Types(fifo), r.event_type) 
  BY <1>1, RecordHasEvent, TypesOfAppend
<1> QED BY <1>2, <1>3 DEF RtfPut

\* Rearming the button that is put into a record is a report of that button, and
\* the record is as good as in the FIFO.
LEMMA RefinementReport ==
  ASSUME IInv, loads <= 1, Toggle, NEW b \in Button, b = hb
  PROVE  Queue!Report(b)
<1>1. TypeOK /\ TypeOK' BY TypeStep DEF IInv, Next, Handler
<1>2. GPIOBIntType2[b] \in unreported[b] BY DEF Toggle, IInv, TypeOK, Found, FirstLoad
<1>3. b \in Owed BY <1>2 DEF Owed
<1>4. /\ unreported' = [unreported EXCEPT ![b] = {}]
      /\ GPIOBIntType2' = [GPIOBIntType2 EXCEPT ![b] = 1 - @]
  BY DEF Toggle, Rearmed
<1>5. Owed' = Owed \ {b} BY <1>1, <1>4 DEF Owed, TypeOK
<1>6. Queue!Events!Report(b) BY <1>3, <1>4, <1>5, Mapping
<1>7. Queued = fifo BY DEF Toggle, Queued
<1>8. Queued' = RtfPut(st') /\ fifoUp' = fifoUp
  BY DEF Toggle, Queued, RtfPut, modVars
<1>9. st' \in Record /\ st'.event_type = BtnEvent(b, GPIOBIntType2[b])
  BY <1>1 DEF Toggle, Named, TypeOK, Record
<1>10. PICK r \in Record : r = st' BY <1>9
<1>11. Types(Queued)' = Types(RtfPut(r)) BY <1>8, <1>10 DEF Types
<1>12. Types(Queued)' = IF fifoUp /\ Len(Types(Queued)) < FIFO_SIZE
         THEN Append(Types(Queued), BtnEvent(b, GPIOBIntType2[b])) ELSE Types(Queued)
  BY <1>1, <1>7, <1>9, <1>10, <1>11, TypesOfPut
<1> QED BY <1>6, <1>8, <1>12 DEF Queue!Report, Queue!BtnEvent, BtnEvent

\* Outside the handler what is in the FIFO is what is queued.
LEMMA RefinementRead ==
  ASSUME TypeOK, FifoRead
  PROVE  Queue!Read
<1>1. /\ fifo \in Seq(Record) /\ fifo # <<>> /\ Queued = fifo
      /\ Queued' = Tail(fifo)
  BY DEF TypeOK, FifoRead, Queued, handVars
<1>2. Types(Queued) # <<>> /\ Types(Queued)' = Tail(Types(Queued))
  <2>1. Types(Queued)' = Types(Tail(fifo)) BY <1>1 DEF Types
  <2> QED BY <1>1, <2>1, RecordHasEvent, TypesOfTail
<1>3. UNCHANGED <<GPIOBIntType2, Owed, fifoUp>>
  BY DEF FifoRead, gpioVars, histVars, modVars, Owed
<1> QED BY <1>2, <1>3 DEF Queue!Read, Owed

LEMMA RefinementDestroy ==
  ASSUME IInv, DestroyFifo
  PROVE  Queue!Destroy
<1>1. /\ fifoUp /\ ~fifoUp' /\ fifoUp' \in BOOLEAN
  BY DEF DestroyFifo, ModStep, IInv, Stages
<1>2. Queued = fifo /\ Queued' = fifo' /\ fifo' \in {<<>>, fifo}
  BY DEF DestroyFifo, ModStep, Queued, handVars
<1>3. Types(Queued)' \in {<<>>, Types(Queued)}
  <2>1. Types(Queued)' = Types(fifo') BY <1>2 DEF Types
  <2> QED BY <1>2, <2>1, TypesOfEmpty
<1>4. UNCHANGED <<GPIOBIntType2, Owed>> BY DEF DestroyFifo, regVars, Owed
<1> QED BY <1>1, <1>3, <1>4 DEF Queue!Destroy, Owed

LEMMA RefinementStep ==
  ASSUME MaxLoads = 1, IInv, [Next]_vars
  PROVE  [Queue!Next]_Queue!vars
<1> USE DEF gpioVars, regVars, modVars, handVars, histVars
<1>0. loads <= 1 BY DEF IInv, TypeOK
<1>a. ASSUME hpc = "idle", UNCHANGED <<handVars, fifo>> PROVE Queued' = Queued
  BY <1>a DEF Queued
<1>1. CASE UNCHANGED vars
  <2>1. Queued' = Queued BY <1>1 DEF vars, Queued, RtfPut
  <2> QED BY <1>1, <2>1, RefinementStutter DEF vars
<1>2. ASSUME NEW b \in Button, PinEdge(b) PROVE [Queue!Next]_Queue!vars
  <2>1. Queue!Edge(b) \/ UNCHANGED Queue!vars BY <1>2, RefinementEdge DEF IInv
  <2>2. b \in Queue!Button BY Mapping
  <2> QED BY <2>1, <2>2 DEF Queue!Next
<1>3. CASE FifoRead BY <1>3, RefinementRead DEF IInv, Queue!Next
<1>4. CASE Insmod
  <2>1. hpc = "idle" /\ UNCHANGED <<handVars, fifo>> BY <1>4 DEF Insmod, ModStep
  <2> QED BY <1>4, <1>a, <2>1, RefinementStutter DEF Insmod
<1>5. CASE Load
  <2>0. Queued' = Queued
    BY <1>5, <1>a DEF Load, SetupPort, EnableEdges, ArmFalling, CheckAdc, RequestIrq,
                      EnableIrq, CreateFifo, ModStep
  <2>1. CASE SetupPort
    \* Nothing has happened yet: the port is not in edge mode.
    <3>1. unreported = [b \in Button |-> {}]
      BY <1>0, <2>1 DEF SetupPort, ModStep, IInv, TypeOK, FirstLoad, Backed
    <3> QED BY <2>0, <2>1, <3>1, RefinementStutter DEF SetupPort
  <2>2. CASE ArmFalling
    <3>1. GPIOBIntType2 = [b \in Button |-> FALLING]
      BY <1>0, <2>2 DEF ArmFalling, ModStep, IInv, TypeOK, FirstLoad
    <3> QED BY <2>0, <2>2, <3>1, RefinementStutter DEF ArmFalling
  <2>3. CASE EnableEdges \/ CheckAdc \/ RequestIrq \/ EnableIrq
    BY <2>0, <2>3, RefinementStutter DEF EnableEdges, CheckAdc, RequestIrq, EnableIrq
  <2>4. CASE CreateFifo
    <3>1. GPIOBIntType2' = GPIOBIntType2 /\ unreported' = unreported
      BY <2>4 DEF CreateFifo
    <3>2. CASE fifoUp' = fifoUp BY <2>0, <3>1, <3>2, RefinementStutter
    <3>3. CASE fifoUp' # fifoUp
      <4>1. ~fifoUp /\ fifoUp' = TRUE
        BY <2>4, <3>3 DEF CreateFifo, ModStep, IInv, Stages
      <4>2. Owed' = Owed BY <3>1 DEF Owed
      <4>3. Types(Queued)' = Types(Queued) BY <2>0 DEF Types
      <4>4. Queue!Create BY <3>1, <4>1, <4>2, <4>3 DEF Queue!Create, Owed
      <4> QED BY <4>4 DEF Queue!Next
    <3> QED BY <3>2, <3>3
  <2> QED BY <1>5, <2>1, <2>2, <2>3, <2>4 DEF Load
<1>6. CASE Unload
  <2>1. CASE DisableIrq \/ ReleaseIrq
    <3>1. hpc = "idle" /\ UNCHANGED <<handVars, fifo>>
      BY <2>1 DEF DisableIrq, ReleaseIrq, ModStep
    <3> QED BY <1>a, <2>1, <3>1, RefinementStutter DEF DisableIrq, ReleaseIrq
  <2>2. CASE DestroyFifo BY <2>2, RefinementDestroy DEF Queue!Next
  <2> QED BY <1>6, <2>1, <2>2 DEF Unload
<1>7. CASE Handler
  <2>1. CASE Toggle
    <3>1. PICK b \in Button : b = hb BY DEF IInv, TypeOK
    <3>2. Queue!Report(b) BY <1>0, <2>1, <3>1, RefinementReport
    <3>3. b \in Queue!Button BY Mapping
    <3> QED BY <3>2, <3>3 DEF Queue!Next
  <2>2. CASE Put
    \* The record was queued when it was made.
    <3>1. Queued' = Queued BY <2>2 DEF Put, Queued
    <3> QED BY <2>2, <3>1, RefinementStutter DEF Put
  <2>3. CASE Enter \/ Oops \/ Sample \/ Test \/ EndOfInterrupt \/ Leave
    <3>1. /\ GPIOBIntType2' = GPIOBIntType2 /\ unreported' = unreported
          /\ fifoUp' = fifoUp /\ fifo' = fifo /\ hpc # "put" /\ hpc' # "put"
      BY <2>3 DEF Enter, Oops, Sample, Test, EndOfInterrupt, Leave
    <3>2. Queued' = Queued BY <3>1 DEF Queued
    <3> QED BY <3>1, <3>2, RefinementStutter
  <2> QED BY <1>7, <2>1, <2>2, <2>3 DEF Handler
<1> QED BY <1>1, <1>2, <1>3, <1>4, <1>5, <1>6, <1>7 DEF Next

\* A module that is loaded once implements the queue of reports: those of a button
\* alternate, falling first, each backed by an edge of its own, and userspace finds
\* them in the FIFO in order and once (adc.c:86-105, 217, 229).
THEOREM RefinesButtonQueue ==
  ASSUME MaxLoads = 1
  PROVE  Spec => ImplementsButtonQueue
<1>1. IInv /\ [Next]_vars => [Queue!Next]_Queue!vars BY RefinementStep
<1> QED BY <1>1, RefinementInit, Invariance, PTL
        DEF Spec, ImplementsButtonQueue, Queue!Spec
=============================================================================
