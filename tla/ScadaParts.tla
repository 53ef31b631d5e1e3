----------------------------- MODULE ScadaParts -----------------------------
(***************************************************************************)
(* What was proved of the parts holds in the whole: the theorems of        *)
(* PollCycleProofs and HistorianLogProofs, instantiated as Scada           *)
(* instantiates their modules, the FIFO of ButtonQueue, which the kernel   *)
(* module implements, and the type invariant of Scada.                     *)
(***************************************************************************)
EXTENDS ScadaProofs

PollProofs == INSTANCE PollCycleProofs WITH MaxLost <- 0, MaxDup <- 0, MaxBehind <- 1
LogProofs  == INSTANCE HistorianLogProofs WITH
                Process <- Historian, Viewer <- {}, IdOf <- [c \in Historian |-> 0]

LEMMA PollAssumed == PollProofs!PollAssumption
  BY ScadaAssumption DEF PollProofs!PollAssumption

LEMMA LogAssumed == LogProofs!LogAssumption
  BY ScadaAssumption DEF LogProofs!LogAssumption

-----------------------------------------------------------------------------
(* The instances in Scada are those of the modules of proofs.              *)

LEMMA SamePollState ==
  /\ Poll!Init <=> PollProofs!Init
  /\ Poll!TypeOK <=> PollProofs!TypeOK
  /\ Poll!Conserved <=> PollProofs!Conserved
  /\ UNCHANGED Poll!vars <=> UNCHANGED PollProofs!vars
<1>1. Poll!Init <=> PollProofs!Init
  BY DEF Poll!Init, PollProofs!Init, Poll!Zero, PollProofs!Zero
<1>2. Poll!TypeOK <=> PollProofs!TypeOK BY DEF Poll!TypeOK, PollProofs!TypeOK
<1>3. Poll!Conserved <=> PollProofs!Conserved
  BY DEF Poll!Conserved, PollProofs!Conserved, Poll!Circulating,
         PollProofs!Circulating, Poll!Alive, PollProofs!Alive
<1>4. UNCHANGED Poll!vars <=> UNCHANGED PollProofs!vars
  BY DEF Poll!vars, PollProofs!vars, Poll!rtuVars, PollProofs!rtuVars,
         Poll!netVars, PollProofs!netVars
<1> QED BY <1>1, <1>2, <1>3, <1>4

LEMMA SamePollNext == Poll!Next <=> PollProofs!Next
  BY DEF Poll!rtuVars, PollProofs!rtuVars, Poll!netVars, PollProofs!netVars,
     Poll!Goto, PollProofs!Goto, Poll!More, PollProofs!More, Poll!Less, PollProofs!Less,
     Poll!Next, PollProofs!Next, Poll!HistorianStep, PollProofs!HistorianStep,
     Poll!RtuStep, PollProofs!RtuStep, Poll!Start, PollProofs!Start,
     Poll!Handshake, PollProofs!Handshake, Poll!Receive, PollProofs!Receive,
     Poll!Log, PollProofs!Log, Poll!Quit, PollProofs!Quit,
     Poll!RtuReceive, PollProofs!RtuReceive,
     Poll!RtuReceiveFails, PollProofs!RtuReceiveFails, Poll!Lose, PollProofs!Lose,
     Poll!Refuse, PollProofs!Refuse, Poll!Duplicate, PollProofs!Duplicate,
     Poll!RtuStart, PollProofs!RtuStart, Poll!RtuReply, PollProofs!RtuReply,
     Poll!RtuPeriod, PollProofs!RtuPeriod, Poll!Tick, PollProofs!Tick,
     Poll!RtuExit, PollProofs!RtuExit

LEMMA SameLine == LogProofs!Line = Log!Line /\ Log!NoLine \in Log!Line
  BY ScadaAssumption DEF LogProofs!Line, Log!Line, Log!NoLine

LEMMA SameLog ==
  /\ Log!Init <=> LogProofs!Init
  /\ Log!TypeOK <=> LogProofs!TypeOK
  /\ Log!TypeOK' <=> LogProofs!TypeOK'
<1>1. Log!Init <=> LogProofs!Init
  BY DEF Log!Init, LogProofs!Init, Log!NoLine, LogProofs!NoLine
<1>2. Log!TypeOK <=> LogProofs!TypeOK
  BY DEF Log!TypeOK, LogProofs!TypeOK, Log!Line, LogProofs!Line
<1>3. Log!TypeOK' <=> LogProofs!TypeOK'
  BY DEF Log!TypeOK, LogProofs!TypeOK, Log!Line, LogProofs!Line
<1> QED BY <1>1, <1>2, <1>3

\* What the polling and quitting do to the logs is a step of a main thread.
LEMMA SameMainStep ==
  ASSUME NEW c \in Historian,
         Log!Take(c, buf1) \/ Log!Open(c) \/ Log!Write(c) \/ Log!Quit(c) \/ Log!Fail(c)
  PROVE  LogProofs!MainStep(c)
<1> USE DEF Log!mainVars, LogProofs!mainVars, Log!viewVars, LogProofs!viewVars,
            Log!Goto, LogProofs!Goto, Log!Appended, LogProofs!Appended,
            Log!Holds, LogProofs!Holds
<1>1. CASE Log!Take(c, buf1)
  <2>1. LogProofs!Take(c, buf1) BY <1>1 DEF Log!Take, LogProofs!Take
  <2> QED BY <2>1, SameLine DEF LogProofs!MainStep, buf1
<1>2. CASE Log!Open(c) BY <1>2 DEF Log!Open, LogProofs!Open, LogProofs!MainStep
<1>3. CASE Log!Write(c) BY <1>3 DEF Log!Write, LogProofs!Write, LogProofs!MainStep
<1>4. CASE Log!Quit(c) BY <1>4 DEF Log!Quit, LogProofs!Quit, LogProofs!MainStep
<1>5. CASE Log!Fail(c) BY <1>5 DEF Log!Fail, LogProofs!Fail, LogProofs!MainStep
<1> QED BY <1>1, <1>2, <1>3, <1>4, <1>5

-----------------------------------------------------------------------------
(* Polling                                                                 *)

\* Each step of the whole is a step of the polling, or leaves it alone.
LEMMA PollStep == [Next]_vars => [Poll!Next]_Poll!vars
<1> SUFFICES ASSUME [Next]_vars PROVE [Poll!Next]_Poll!vars
  OBVIOUS
<1>0. ASSUME UNCHANGED pollVars PROVE UNCHANGED Poll!vars
  BY <1>0 DEF pollVars, Poll!vars, Poll!rtuVars, Poll!netVars
<1>1. CASE UNCHANGED vars BY <1>0, <1>1 DEF vars
<1>2. ASSUME NEW b \in Button, Edge(b) \/ Report(b) PROVE UNCHANGED pollVars
  BY <1>2 DEF Edge, Report
<1>3. CASE Read \/ PrintEvents BY <1>0, <1>3 DEF Read, PrintEvents
<1>4. CASE RtuStart \/ RtuExit BY <1>4 DEF RtuStart, RtuExit, Poll!Next
<1>5. CASE Polling BY <1>5 DEF Polling, Poll!Next, Poll!HistorianStep
<1>6. ASSUME NEW c \in Historian, Receive(c) \/ EventLog(c) \/ Quit(c)
      PROVE  [Poll!Next]_Poll!vars
  <2>1. \/ Poll!Receive(c) \/ Poll!Log(c) \/ Poll!Quit(c)
        \/ UNCHANGED pollVars
    BY <1>6 DEF Receive, EventLog, Quit
  <2> QED BY <1>0, <2>1 DEF Poll!Next, Poll!HistorianStep
<1> QED BY <1>0, <1>1, <1>2, <1>3, <1>4, <1>5, <1>6 DEF Next

\* The whole implements the polling: what PollCycle promises does not depend on
\* the reader thread, the kernel module or the logs (rtu.c:106-113: two threads).
THEOREM ScadaPolls == Spec => Poll!Spec
<1>1. Init => Poll!Init BY DEF Init
<1> QED BY <1>1, PollStep, PTL DEF Spec, Poll!Spec

LEMMA SamePollSpec == Poll!Spec => PollProofs!Spec
<1>1. [Poll!Next]_Poll!vars => [PollProofs!Next]_PollProofs!vars
  BY SamePollState, SamePollNext
<1>2. Poll!Init => PollProofs!Init BY SamePollState
<1> QED BY <1>1, <1>2, PTL DEF Poll!Spec, PollProofs!Spec

\* The turns of the polling are conserved in the whole too: a historian that runs
\* has one turn under way, but for the requests that no RTU program was there for
\* or that one took with it (historian.c:88-98, rtu.c:71-74).
THEOREM ScadaConservesTurns == Spec => []Poll!Conserved
<1>1. PollProofs!Spec => []PollProofs!Conserved
  BY PollAssumed, PollProofs!TurnsConserved
<1>2. PollProofs!Conserved => Poll!Conserved BY SamePollState
<1> QED BY <1>1, <1>2, ScadaPolls, SamePollSpec, PTL

\* In the whole too, a historian that lost a datagram to a missing RTU program, or
\* with one that exited, waits until it quits (historian.c:93, rtu.c:49, 71-74).
THEOREM ScadaStarvedWaits == Spec => Poll!StarvedWaits
<1>1. PollProofs!Spec => PollProofs!StarvedWaits
  BY PollAssumed, PollProofs!TheStarvedWait
<1>2. [\A c \in Historian : PollProofs!Alive(c) /\ lost[c] > dup[c] =>
         hist[c] = "wait" /\ hist'[c] \in {"wait", "quit"}]_PollProofs!vars
      => [\A c \in Historian : Poll!Alive(c) /\ lost[c] > dup[c] =>
            hist[c] = "wait" /\ hist'[c] \in {"wait", "quit"}]_Poll!vars
  BY SamePollState DEF PollProofs!Alive, Poll!Alive
<1> QED BY <1>1, <1>2, ScadaPolls, SamePollSpec, PTL
        DEF Poll!StarvedWaits, PollProofs!StarvedWaits

\* What a historian of the whole logs is an answer the RTU sent after being asked
\* (historian.c:88-98, rtu.c:71-74).
THEOREM ScadaPollsAreFresh == Spec => Poll!ImplementsFreshPoll
<1>1. PollProofs!Spec => PollProofs!ImplementsFreshPoll
  BY PollAssumed, PollProofs!RefinesFreshPoll
<1>2. PollProofs!ImplementsFreshPoll => Poll!ImplementsFreshPoll
  <2>1. PollProofs!Fresh!Init => Poll!Fresh!Init
    BY DEF PollProofs!Fresh!Init, Poll!Fresh!Init
  <2>2. [PollProofs!Fresh!Next]_PollProofs!Fresh!vars => [Poll!Fresh!Next]_Poll!Fresh!vars
    BY DEF PollProofs!Fresh!Next, Poll!Fresh!Next, PollProofs!Fresh!vars, Poll!Fresh!vars,
           PollProofs!Fresh!Open, Poll!Fresh!Open, PollProofs!Fresh!Serve, Poll!Fresh!Serve,
           PollProofs!Fresh!Lose, Poll!Fresh!Lose, PollProofs!Fresh!Finish,
           Poll!Fresh!Finish, PollProofs!Fresh!Taint, Poll!Fresh!Taint,
           PollProofs!Fresh!Leave, Poll!Fresh!Leave
  <2> QED BY <2>1, <2>2, PTL
          DEF Poll!ImplementsFreshPoll, PollProofs!ImplementsFreshPoll,
              Poll!Fresh!Spec, PollProofs!Fresh!Spec
<1> QED BY <1>1, <1>2, ScadaPolls, SamePollSpec, PTL

-----------------------------------------------------------------------------
(* RT-FIFO 0                                                               *)

LEMMA QueueMapping ==
  /\ Queue!vars = <<next, owed, TRUE, Types(fifo)>>
  /\ Queue!Button = Button
  /\ \A b \in Button : /\ Buttons!Edge(b) => Queue!Events!Edge(b)
                       /\ Buttons!Report(b) => Queue!Events!Report(b)
  BY DEF Queue!vars, Queue!Button, Button, Buttons!Edge, Queue!Events!Edge,
         Buttons!Report, Queue!Events!Report

LEMMA StampedHasEvent == \A r \in Stamped : r.event_type \in Event
  BY DEF Stamped

LEMMA QueueInit == Init => Queue!Init
<1> SUFFICES ASSUME Init PROVE Queue!Init
  OBVIOUS
<1>1. Queue!Events!Init
  BY DEF Init, Buttons!Init, Queue!Events!Init, Buttons!FALLING, Queue!Events!FALLING,
         Buttons!Button, Queue!Events!Button
<1>2. Types(fifo) = <<>> BY TypesOfEmpty DEF Init
<1> QED BY <1>1, <1>2 DEF Queue!Init

LEMMA QueueStutter ==
  ASSUME UNCHANGED <<next, owed, fifo>>
  PROVE  UNCHANGED Queue!vars
<1>1. Types(fifo)' = Types(fifo) BY DEF Types
<1> QED BY <1>1 DEF Queue!vars

\* A report is put in the FIFO exactly if the queue has room for it.
LEMMA QueueReport ==
  ASSUME OwnTypeOK, OwnTypeOK', NEW b \in Button, Report(b)
  PROVE  Queue!Report(b)
<1> DEFINE type == BtnEvent(b, next[b])
<1>1. Queue!Events!Report(b) BY QueueMapping DEF Report
<1>2. fifo \in Seq(Stamped) /\ Len(Types(fifo)) = Len(fifo)
  BY StampedHasEvent, TypesFacts DEF OwnTypeOK
<1>3. CASE Len(fifo) < FIFO_SIZE
  <2>1. PICK n \in Nat : n = Len(reported) + 1 BY DEF OwnTypeOK
  <2>2. PICK rec : rec = [event_type |-> type, event_tv |-> n] OBVIOUS
  <2>3. fifo' = Append(fifo, rec) /\ reported' = Append(reported, rec)
    BY <1>3, <2>1, <2>2 DEF Report, Room
  <2>4. rec \in Stamped
    <3>1. /\ Len(reported') = n /\ reported'[n] = rec /\ n >= 1
          /\ reported' \in Seq(Stamped)
      BY <2>1, <2>3 DEF OwnTypeOK
    <3>2. n \in 1..Len(reported') BY <2>1, <3>1
    <3> QED BY <3>1, <3>2
  <2>5. rec.event_type = type BY <2>2
  <2> HIDE DEF type
  <2>6. Types(Append(fifo, rec)) = Append(Types(fifo), type)
    BY <1>2, <2>4, <2>5, StampedHasEvent, TypesOfAppend
  <2>7. Types(fifo)' = Append(Types(fifo), type) BY <2>3, <2>6 DEF Types
  <2> QED BY <1>1, <1>2, <1>3, <2>7 DEF Queue!Report, Queue!BtnEvent, BtnEvent, type
<1>4. CASE ~(Len(fifo) < FIFO_SIZE)
  <2>1. fifo' = fifo BY <1>4 DEF Report, Room
  <2>2. Types(fifo)' = Types(fifo) BY <2>1 DEF Types
  <2> QED BY <1>1, <1>2, <1>4, <2>2 DEF Queue!Report
<1> QED BY <1>3, <1>4

LEMMA QueueRead ==
  ASSUME OwnTypeOK, Read
  PROVE  Queue!Read
<1>1. fifo \in Seq(Stamped) /\ fifo # <<>> /\ fifo' = Tail(fifo)
  BY DEF OwnTypeOK, Read, Taken
<1>2. Types(fifo) # <<>> /\ Types(Tail(fifo)) = Tail(Types(fifo))
  BY <1>1, StampedHasEvent, TypesOfTail
<1>3. Types(fifo)' = Tail(Types(fifo)) BY <1>1, <1>2 DEF Types
<1> QED BY <1>2, <1>3 DEF Queue!Read, Read, moduleVars

LEMMA QueueStep ==
  ASSUME OwnTypeOK, OwnTypeOK', [Next]_vars
  PROVE  [Queue!Next]_Queue!vars
<1> USE DEF rtuVars, moduleVars
<1>1. CASE UNCHANGED vars BY <1>1, QueueStutter DEF vars
<1>2. ASSUME NEW b \in Button, Edge(b) \/ Report(b) PROVE [Queue!Next]_Queue!vars
  <2>1. CASE Edge(b)
    <3>1. Queue!Events!Edge(b) BY <2>1, QueueMapping DEF Edge
    <3>2. Types(fifo)' = Types(fifo) BY <2>1 DEF Edge, Types
    <3>3. Queue!Edge(b) BY <3>1, <3>2 DEF Queue!Edge
    <3> QED BY <3>3, QueueMapping DEF Queue!Next
  <2>2. CASE Report(b) BY <2>2, QueueReport, QueueMapping DEF Queue!Next
  <2> QED BY <1>2, <2>1, <2>2
<1>3. CASE Read BY <1>3, QueueRead DEF Queue!Next
<1>4. CASE PrintEvents \/ RtuStart \/ RtuExit \/ Polling
  BY <1>4, QueueStutter DEF PrintEvents, RtuStart, RtuExit, Polling
<1>5. ASSUME NEW c \in Historian, Receive(c) \/ EventLog(c) \/ Quit(c)
      PROVE  UNCHANGED Queue!vars
  BY <1>5, QueueStutter DEF Receive, EventLog, Quit
<1> QED BY <1>1, <1>2, <1>3, <1>4, <1>5 DEF Next

\* What the whole does with RT-FIFO 0 is what the kernel module implements: the
\* records of a button in turn, each once and in order, taken from the front
\* (adc.c:105, rtu.c:48).
THEOREM ScadaUsesButtonQueue == Spec => ImplementsButtonQueue
<1>1. Places => OwnTypeOK BY DEF Places
<1>2. SInv => Places BY DEF SInv
<1>3. OwnTypeOK /\ OwnTypeOK' /\ [Next]_vars => [Queue!Next]_Queue!vars BY QueueStep
<1> QED BY <1>1, <1>2, <1>3, QueueInit, ScadaInvariance, PTL
        DEF Spec, ImplementsButtonQueue, Queue!Spec

-----------------------------------------------------------------------------
(* Logging                                                                 *)

\* Each step of the whole is a step of the logging, or leaves it alone.
LEMMA LogStep ==
  ASSUME [Next]_vars
  PROVE  UNCHANGED logVars \/ \E c \in Historian : LogProofs!MainStep(c)
<1>1. CASE UNCHANGED vars BY <1>1 DEF vars
<1>2. ASSUME NEW b \in Button, Edge(b) \/ Report(b) PROVE UNCHANGED logVars
  BY <1>2 DEF Edge, Report
<1>3. CASE Read \/ PrintEvents \/ RtuStart \/ RtuExit \/ Polling
  BY <1>3 DEF Read, PrintEvents, RtuStart, RtuExit, Polling
<1>4. ASSUME NEW c \in Historian, Receive(c) \/ EventLog(c) \/ Quit(c)
      PROVE  LogProofs!MainStep(c)
  BY <1>4, SameMainStep DEF Receive, EventLog, Quit
<1> QED BY <1>1, <1>2, <1>3, <1>4 DEF Next

LEMMA LogTypeStep ==
  ASSUME Log!TypeOK, [Next]_vars
  PROVE  Log!TypeOK'
<1>1. CASE UNCHANGED logVars BY <1>1 DEF logVars, Log!TypeOK
<1>2. ASSUME NEW c \in Historian, LogProofs!MainStep(c) PROVE Log!TypeOK'
  BY <1>2, LogAssumed, SameLog, LogProofs!MainTypeStep
<1> QED BY <1>1, <1>2, LogStep

-----------------------------------------------------------------------------
(* The type invariant of the whole                                         *)

\* The two parts that share a historian move it together.
LEMMA AgreeStep ==
  ASSUME Poll!TypeOK, Log!TypeOK, [Next]_vars, NEW c \in Historian, Agree(c)
  PROVE  Agree(c)'
<1>0. /\ hist \in [Historian -> {"off", "handshake", "wait", "log", "quit"}]
      /\ main \in [Historian -> {"poll", "open", "write", "exit"}]
  BY DEF Poll!TypeOK, Log!TypeOK
<1> USE <1>0 DEF Agree, Poll!Goto
<1>1. CASE UNCHANGED <<hist, main>> BY <1>1
<1>2. CASE UNCHANGED vars BY <1>1, <1>2 DEF vars, pollVars, logVars
<1>3. ASSUME NEW b \in Button, Edge(b) \/ Report(b) PROVE Agree(c)'
  BY <1>1, <1>3 DEF Edge, Report, pollVars, logVars
<1>4. CASE Read \/ PrintEvents BY <1>1, <1>4 DEF Read, PrintEvents, pollVars, logVars
<1>5. CASE RtuStart \/ RtuExit
  BY <1>1, <1>5 DEF RtuStart, RtuExit, Poll!RtuStart, Poll!RtuExit, logVars
<1>6. CASE Polling
  <2>1. UNCHANGED main BY <1>6 DEF Polling, logVars
  <2>2. ASSUME NEW d \in Historian, Poll!Start(d) \/ Poll!Handshake(d) PROVE Agree(c)'
    BY <2>1, <2>2 DEF Poll!Start, Poll!Handshake
  <2>3. ASSUME NEW d \in Historian, Poll!RtuReceive(d) \/ Poll!Refuse(d)
        PROVE  UNCHANGED hist
    BY <2>3 DEF Poll!RtuReceive, Poll!Refuse
  <2>4. CASE Poll!RtuStep \/ Poll!Tick
    BY <1>1, <2>1, <2>4 DEF Poll!RtuStep, Poll!RtuReply, Poll!RtuPeriod, Poll!Tick
  <2> QED BY <1>1, <1>6, <2>1, <2>2, <2>3, <2>4 DEF Polling
<1>7. ASSUME NEW d \in Historian, Receive(d) PROVE Agree(c)'
  BY <1>7 DEF Receive, Poll!Receive, Log!Take
<1>8. ASSUME NEW d \in Historian, EventLog(d) PROVE Agree(c)'
  <2>1. CASE Log!Open(d) /\ main'[d] = "poll" /\ Poll!Log(d)
    BY <2>1 DEF Log!Open, Poll!Log
  <2>2. CASE Log!Open(d) /\ main'[d] # "poll" /\ UNCHANGED pollVars
    BY <2>2 DEF Log!Open, pollVars
  <2>3. CASE Log!Write(d) /\ Poll!Log(d)
    BY <2>3 DEF Log!Write, Poll!Log
  <2> QED BY <1>8, <2>1, <2>2, <2>3 DEF EventLog
<1>9. ASSUME NEW d \in Historian, Quit(d) PROVE Agree(c)'
  BY <1>9 DEF Quit, Poll!Quit, Log!Quit, Log!Fail
<1> QED BY <1>2, <1>3, <1>4, <1>5, <1>6, <1>7, <1>8, <1>9 DEF Next

LEMMA TypeStep ==
  ASSUME TypeOK, Places, [Next]_vars
  PROVE  TypeOK'
<1>1. Poll!TypeOK'
  <2>1. [PollProofs!Next]_PollProofs!vars
    BY PollStep, SamePollState, SamePollNext
  <2>2. PollProofs!TypeOK BY SamePollState DEF TypeOK
  <2>3. PollProofs!TypeOK' BY <2>1, <2>2, PollAssumed, PollProofs!PollTypeStep
  <2> QED BY <2>3 DEF PollProofs!TypeOK, Poll!TypeOK
<1>2. Log!TypeOK' BY LogTypeStep DEF TypeOK
<1>3. \A c \in Historian : Agree(c)' BY AgreeStep DEF TypeOK
<1>4. OwnTypeOK' /\ Buttons!TypeOK' BY PlacesStep DEF Places
<1> QED BY <1>1, <1>2, <1>3, <1>4 DEF TypeOK

LEMMA TypeInit ==
  ASSUME Init PROVE TypeOK
<1>1. Poll!TypeOK BY PollAssumed, SamePollState, PollProofs!PollTypeInit DEF Init
<1>2. Log!TypeOK
  BY LogAssumed, SameLog, LogProofs!LogInit DEF Init, LogProofs!HInv
<1>3. \A c \in Historian : Agree(c) BY DEF Init, Poll!Init, Log!Init, Agree
<1> QED BY <1>1, <1>2, <1>3, PlacesInit DEF TypeOK, Places

\* Every variable of the whole keeps its type, and the main loop of a historian
\* (historian.c:82-101) is at one place, whichever part is asked.
THEOREM ScadaTypeCorrect == Spec => []TypeOK
<1>1. Init => TypeOK BY TypeInit
<1>2. TypeOK /\ Places /\ [Next]_vars => TypeOK' BY TypeStep
<1>3. SInv => Places BY DEF SInv
<1> QED BY <1>1, <1>2, <1>3, ScadaInvariance, PTL DEF Spec

\* The logs only grow in the whole too (historian.c:129).
THEOREM ScadaLogsGrow == Spec => Log!LogsGrow
<1> DEFINE Grow == \A id \in 0..2 : \A i \in 1..Len(log[id]) :
                     i <= Len(log'[id]) /\ log'[id][i] = log[id][i]
<1>1. ASSUME Log!TypeOK, [Next]_vars PROVE [Grow]_Log!vars
  <2>1. CASE UNCHANGED logVars
    BY <2>1 DEF logVars, Log!vars, Log!mainVars, Log!viewVars
  <2>2. ASSUME NEW c \in Historian, LogProofs!MainStep(c) PROVE Grow
    <3>1. LogProofs!Grow BY <1>1, <2>2, LogAssumed, SameLog, LogProofs!MainGrowStep
    <3> QED BY <3>1 DEF LogProofs!Grow
  <2> QED BY <1>1, <2>1, <2>2, LogStep
<1>2. TypeOK => Log!TypeOK BY DEF TypeOK
<1> HIDE DEF Grow
<1>3. [Grow]_Log!vars <=> [\A id \in 0..2 : \A i \in 1..Len(log[id]) :
                             i <= Len(log'[id]) /\ log'[id][i] = log[id][i]]_Log!vars
  BY DEF Grow
<1> QED BY <1>1, <1>2, <1>3, ScadaTypeCorrect, PTL DEF Spec, Log!LogsGrow
=============================================================================
