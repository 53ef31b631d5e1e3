----------------------------- MODULE AdcModule -----------------------------
(***************************************************************************)
(* rtu/kernel/adc.c: the kernel module that turns edges on the push        *)
(* buttons into status records in RT-FIFO 0.                               *)
(*                                                                         *)
(* Three parties run here.  The pins of GPIO port B move whenever they     *)
(* like, also between two register accesses of the code (external).        *)
(* insmod and rmmod run init_module and cleanup_module.  The interrupt     *)
(* handler preempts them: the EP9301 has one CPU, so while the handler     *)
(* runs only the pins move.                                                *)
(***************************************************************************)
EXTENDS Status, Sequences

CONSTANTS
  FIFO_SIZE,    \* capacity of RT-FIFO 0 in records; rtf_create asks for one
  MaxLoads,     \* bound: how often the module is loaded
  FailPoints    \* the calls of init_module that may fail

ASSUME AdcAssumption ==
  /\ FIFO_SIZE \in Nat \ {0}
  /\ MaxLoads \in Nat \ {0}
  /\ FailPoints \subseteq {"ioremap", "adc", "rt_request_irq", "rtf_create"}
  /\ NUM_BUTTONS <= 5          \* the bits the handler acknowledges

VARIABLES
  pin,           \* external: pin[b], the level of button b
  IntStsB,       \* external: the buttons whose edge interrupt is latched
  edgeMode,      \* GPIOBIntEn and GPIOBIntType1 are programmed
  GPIOBIntType2, \* per button: 1 armed for rising, 0 for falling edges
  attached,      \* rt_request_irq has installed button_handler
  enabled,       \* line hw_irq is unmasked
  mod,           \* where init_module or cleanup_module stands
  loads,         \* number of insmods so far
  orphaned,      \* history: rtf_create has failed, with the handler attached
  hpc, hb, st,   \* the handler: next step, button looked at, status_t st
  fifoUp, fifo,  \* external: the module has RT-FIFO 0 open, the records in it
  unreported,    \* history: directions of the edges of b since its last report
  moved,         \* history: pins that moved since the handler was entered
  crowded        \* history: an edge came before all was done with the one before

gpioVars == <<pin, IntStsB, edgeMode, GPIOBIntType2>>
modVars  == <<mod, loads, attached, fifoUp, orphaned>>
regVars  == <<IntStsB, edgeMode, GPIOBIntType2, unreported>>
handVars == <<hpc, hb, st>>
histVars == <<unreported, moved, crowded>>
vars == <<gpioVars, modVars, enabled, handVars, fifo, histVars>>

ModSteps  == {"unloaded", "mapped", "cleared", "enabled", "armed", "adc_ok",
              "requested", "live", "loaded", "disabled", "released"}
HandSteps == {"idle", "sample", "test", "toggle", "put", "eoi", "enable", "oops"}

NoStatus == [button_status |-> [b \in Button |-> 0], event_type |-> 0]

TypeOK ==
  /\ pin \in [Button -> Level]
  /\ IntStsB \in SUBSET Button
  /\ edgeMode \in BOOLEAN
  /\ GPIOBIntType2 \in [Button -> Level]
  /\ attached \in BOOLEAN /\ enabled \in BOOLEAN /\ fifoUp \in BOOLEAN
  /\ mod \in ModSteps /\ loads \in 0..MaxLoads /\ orphaned \in BOOLEAN
  /\ hpc \in HandSteps /\ hb \in Button /\ st \in Record
  /\ fifo \in Seq(Record) /\ Len(fifo) <= FIFO_SIZE
  /\ unreported \in [Button -> SUBSET Level]
  /\ moved \in SUBSET Button /\ crowded \in BOOLEAN

\* Power-on: the GPIO registers have their reset values, the pins any level.
Init ==
  /\ pin \in [Button -> Level]
  /\ IntStsB = {} /\ edgeMode = FALSE
  /\ GPIOBIntType2 = [b \in Button |-> FALLING]
  /\ attached = FALSE /\ enabled = FALSE /\ fifoUp = FALSE
  /\ mod = "unloaded" /\ loads = 0 /\ orphaned = FALSE
  /\ hpc = "idle" /\ hb = 0 /\ st = NoStatus
  /\ fifo = <<>>
  /\ unreported = [b \in Button |-> {}]
  /\ moved = {} /\ crowded = FALSE

-----------------------------------------------------------------------------
(* External: the port and the FIFO, as the code uses them.                 *)

\* The module is at work and everything that happened so far has been dealt
\* with, up to the reader: the next edge has the system to itself.
Quiet == mod = "loaded" /\ hpc = "idle" /\ IntStsB = {} /\ fifo = <<>>

\* Pin b changes level.  Once the port is in edge mode the controller latches
\* an edge whose direction is the one armed at that moment.
PinEdge(b) ==
  LET dir == 1 - pin[b] IN
  /\ pin' = [pin EXCEPT ![b] = dir]
  /\ IntStsB' = IF edgeMode /\ GPIOBIntType2[b] = dir
                THEN IntStsB \union {b} ELSE IntStsB
  /\ unreported' = IF edgeMode THEN [unreported EXCEPT ![b] = @ \union {dir}]
                               ELSE unreported
  /\ moved' = IF hpc = "idle" THEN moved ELSE moved \union {b}
  /\ crowded' = (crowded \/ (edgeMode /\ ~Quiet))
  /\ UNCHANGED <<edgeMode, GPIOBIntType2, modVars, enabled, handVars, fifo>>

\* The RTU program takes a record; it cannot run while the handler does.
FifoRead ==
  /\ hpc = "idle" /\ fifo # <<>>
  /\ fifo' = Tail(fifo)
  /\ UNCHANGED <<gpioVars, modVars, enabled, handVars, histVars>>

\* rtf_put writes what fits: whole records, since all transfers are whole
\* records.  A full or missing FIFO takes nothing.
RtfPut(rec) == IF fifoUp /\ Len(fifo) < FIFO_SIZE THEN Append(fifo, rec) ELSE fifo

-----------------------------------------------------------------------------
(* init_module                                                             *)

\* One step of init_module or cleanup_module, never while the handler runs.
ModStep(from, to) ==
  /\ hpc = "idle" /\ mod = from /\ mod' = to
  /\ orphaned' = (orphaned \/ (from = "live" /\ to = "unloaded"))
  /\ UNCHANGED <<pin, handVars, moved, crowded>>

MayFail(call) == call \in FailPoints

\* Lines 161-175: map the registers, return -1 if that fails.
Insmod ==
  /\ loads < MaxLoads
  /\ loads' = loads + 1
  /\ \/ ModStep("unloaded", "mapped")
     \/ MayFail("ioremap") /\ ModStep("unloaded", "unloaded")
  /\ UNCHANGED <<regVars, attached, fifoUp, enabled, fifo>>

\* Lines 177-179: the end-of-interrupt write drops what is latched.  The masks
\* of the two writes before it are logical ors, so they only touch bit 0 of the
\* direction and data registers; the other bits keep their reset values.
SetupPort ==
  /\ ModStep("mapped", "cleared")
  /\ IntStsB' = {}
  /\ unreported' = [b \in Button |-> {}]
  /\ UNCHANGED <<edgeMode, GPIOBIntType2, loads, attached, fifoUp, enabled, fifo>>

\* Lines 180-181: enable the interrupts of the buttons and make them edge
\* sensitive.
EnableEdges ==
  /\ ModStep("cleared", "enabled")
  /\ edgeMode' = TRUE
  /\ UNCHANGED <<IntStsB, GPIOBIntType2, loads, attached, fifoUp, enabled, fifo, unreported>>

\* Lines 182-183: *GPIOBIntType2 &= ~0x07.
ArmFalling ==
  /\ ModStep("enabled", "armed")
  /\ GPIOBIntType2' = [b \in Button |-> FALLING]
  /\ UNCHANGED <<IntStsB, edgeMode, loads, attached, fifoUp, enabled, fifo, unreported>>

\* Lines 185-199: the ADC must be mapped and installed.
CheckAdc ==
  /\ \/ ModStep("armed", "adc_ok")
     \/ MayFail("adc") /\ ModStep("armed", "unloaded")
  /\ UNCHANGED <<regVars, loads, attached, fifoUp, enabled, fifo>>

\* Lines 209-213.  A line that still has a handler cannot be requested.
RequestIrq ==
  /\ \/ ~attached /\ ModStep("adc_ok", "requested") /\ attached' = TRUE
     \/ /\ attached \/ MayFail("rt_request_irq")
        /\ ModStep("adc_ok", "unloaded") /\ UNCHANGED attached
  /\ UNCHANGED <<regVars, loads, fifoUp, enabled, fifo>>

\* Line 215: from here on the handler can run.
EnableIrq ==
  /\ ModStep("requested", "live")
  /\ enabled' = TRUE
  /\ UNCHANGED <<regVars, loads, attached, fifoUp, fifo>>

\* Lines 217-223.  On failure the handler stays attached.
CreateFifo ==
  /\ \/ ModStep("live", "loaded") /\ fifoUp' = TRUE
     \/ MayFail("rtf_create") /\ ModStep("live", "unloaded") /\ UNCHANGED fifoUp
  /\ UNCHANGED <<regVars, loads, attached, enabled, fifo>>

-----------------------------------------------------------------------------
(* cleanup_module                                                          *)

\* A bug the properties must notice: the line stays unmasked.
DisableIrqForgotten ==
  ModStep("loaded", "disabled") /\ UNCHANGED <<regVars, loads, attached, fifoUp, enabled, fifo>>

\* A bug the properties must notice: the FIFO goes before the handler does.
DestroyFifoFirst ==
  /\ ModStep("loaded", "disabled")
  /\ fifoUp' = FALSE /\ fifo' = <<>>
  /\ UNCHANGED <<regVars, loads, attached, enabled>>

DisableIrq ==
  /\ ModStep("loaded", "disabled")
  /\ enabled' = FALSE
  /\ UNCHANGED <<regVars, loads, attached, fifoUp, fifo>>

\* A bug the properties must notice: the handler stays attached.
ReleaseIrqForgotten ==
  /\ ModStep("disabled", "released")
  /\ UNCHANGED <<regVars, loads, attached, fifoUp, enabled, fifo>>

ReleaseIrq ==
  /\ ModStep("disabled", "released")
  /\ attached' = FALSE
  /\ UNCHANGED <<regVars, loads, fifoUp, enabled, fifo>>

\* What is still in the FIFO survives if the RTU program has it open.
DestroyFifo ==
  /\ ModStep("released", "unloaded")
  /\ fifoUp' = FALSE /\ fifo' \in {<<>>, fifo}
  /\ UNCHANGED <<regVars, loads, attached, enabled>>

-----------------------------------------------------------------------------
(* button_handler                                                          *)

\* Line 45.  The line is masked until Leave; st is whatever the stack holds, and
\* every field of it that is read later is written first.
Enter ==
  /\ hpc = "idle" /\ attached /\ enabled /\ IntStsB # {}
  /\ enabled' = FALSE
  /\ hpc' = "sample"
  /\ UNCHANGED <<gpioVars, modVars, hb, st, fifo, histVars>>

\* Undefined: the handler of a load that failed is still attached and its code
\* is gone.  Either the memory still holds it and Enter goes ahead, or the
\* kernel stops here.
Oops ==
  /\ hpc = "idle" /\ attached /\ enabled /\ IntStsB # {}
  /\ mod \notin {"requested", "live", "loaded", "disabled"}
  /\ hpc' = "oops"
  /\ UNCHANGED <<gpioVars, modVars, enabled, hb, st, fifo, histVars>>

\* A bug the properties must notice: one button too many.
OneTooMany == NUM_BUTTONS

LastButton == NUM_BUTTONS - 1

\* A bug the properties must notice: the mask was pasted and not changed.
PortBitPasted(b) == pin[0]

\* *PBDR & 1 << b
PortBit(b) == pin[b]

\* A bug the properties must notice: the last test looks at button 0 again.
PendingPasted(b) == (IF b = LastButton THEN 0 ELSE b) \in IntStsB

\* A bug the properties must notice: the links of the chain in reverse order.
PendingLast(b) == b \in IntStsB /\ \A c \in IntStsB : c <= b

\* *IntStsB & (1 << b)
Pending(b) == b \in IntStsB

\* Lines 83-85: one read of PBDR per button.
Sample ==
  /\ hpc = "sample"
  /\ st' = [st EXCEPT !.button_status[hb] = PortBit(hb)]
  /\ IF hb < LastButton THEN hb' = hb + 1 /\ UNCHANGED hpc
                          ELSE hb' = 0 /\ hpc' = "test"
  /\ UNCHANGED <<gpioVars, modVars, enabled, fifo, histVars>>

\* Lines 86, 108, 130: if / else if over the buttons, IntStsB read each time.
Test ==
  /\ hpc = "test"
  /\ IF Pending(hb) THEN hpc' = "toggle" /\ UNCHANGED hb
     ELSE IF hb < LastButton THEN hb' = hb + 1 /\ UNCHANGED hpc
     ELSE hpc' = "eoi" /\ UNCHANGED hb
  /\ UNCHANGED <<gpioVars, modVars, enabled, st, fifo, histVars>>

\* Bugs the properties must notice: the branches swapped, and the masks of the
\* commented-out loop (adc.c:68, 77), which rearm every button at once.
NamedSwapped(b) == BtnEvent(b, 1 - GPIOBIntType2[b])
RearmedAll(b)   == [c \in Button |-> 1 - GPIOBIntType2[b]]

\* Lines 88-98 (110-120, 132-142): the armed direction names the event, and
\* the opposite one is armed.
Named(b)   == BtnEvent(b, GPIOBIntType2[b])
Rearmed(b) == [GPIOBIntType2 EXCEPT ![b] = 1 - @]

Toggle ==
  /\ hpc = "toggle"
  /\ st' = [st EXCEPT !.event_type = Named(hb)]
  /\ GPIOBIntType2' = Rearmed(hb)
  /\ hpc' = "put"
  /\ unreported' = [unreported EXCEPT ![hb] = {}]
  /\ UNCHANGED <<pin, IntStsB, edgeMode, modVars, enabled, hb, fifo, moved, crowded>>

\* Lines 101-105 (123-127, 145-149): the result of rtf_put is not looked at.
Put ==
  /\ hpc = "put"
  /\ fifo' = RtfPut(st)
  /\ hpc' = "eoi"
  /\ UNCHANGED <<gpioVars, modVars, enabled, hb, st, histVars>>

\* Bugs the properties must notice: no acknowledgement, or button 0's only.
EoiNone  == {}
EoiFirst == {0}

\* Line 153: *GPIOBEOI |= 0x1F clears bits 0 to 4, whichever was handled.
EoiBits == 0..4

EndOfInterrupt ==
  /\ hpc = "eoi"
  /\ IntStsB' = IntStsB \ EoiBits
  /\ hpc' = "enable"
  /\ UNCHANGED <<pin, edgeMode, GPIOBIntType2, modVars, enabled, hb, st, fifo, histVars>>

\* A bug the properties must notice: the line stays masked.
LeaveMasked ==
  /\ hpc = "enable"
  /\ hpc' = "idle" /\ hb' = 0 /\ st' = NoStatus /\ moved' = {}
  /\ UNCHANGED <<gpioVars, modVars, enabled, fifo, unreported, crowded>>

\* Line 156.
Leave ==
  /\ hpc = "enable"
  /\ enabled' = TRUE
  /\ hpc' = "idle" /\ hb' = 0 /\ st' = NoStatus /\ moved' = {}
  /\ UNCHANGED <<gpioVars, modVars, fifo, unreported, crowded>>

-----------------------------------------------------------------------------
Load    == SetupPort \/ EnableEdges \/ ArmFalling \/ CheckAdc \/ RequestIrq
             \/ EnableIrq \/ CreateFifo
Unload  == DisableIrq \/ ReleaseIrq \/ DestroyFifo
Handler == Enter \/ Oops \/ Sample \/ Test \/ Toggle \/ Put \/ EndOfInterrupt \/ Leave

Next == (\E b \in Button : PinEdge(b)) \/ FifoRead \/ Insmod \/ Load \/ Unload \/ Handler

Spec == Init /\ [][Next]_vars

\* The hardware delivers a pending interrupt and the handler runs to its end.
FairSpec == Spec /\ WF_vars(Handler)
-----------------------------------------------------------------------------
(* Properties                                                              *)

\* A record names a button and a direction in which that button really moved
\* since its previous record (adc.c:86-98).  While nothing is reloaded; the
\* order of the register writes in init_module can break it afterwards.
ReportsARealEdge ==
  [][hpc = "toggle" /\ hpc' = "put" /\ loads <= 1
       => \E dir \in unreported[hb] : st'.event_type = BtnEvent(hb, dir)]_vars

\* Also across reloads: no edge is reported twice, since the button moved at
\* least once between two of its records (adc.c:86-98, 153).
NoEdgeTwice == hpc = "toggle" => unreported[hb] # {}

\* The handler never acknowledges interrupts without having reported one: the
\* if / else if chain (adc.c:86, 108, 130) finds what raised the interrupt.
NoEmptyService == [][hpc = "test" => hpc' # "eoi"]_vars

\* Whose interrupts the handler drops: line 153 acknowledges all of them, but a
\* button that was latched when the handler was entered only loses its interrupt
\* to a lower-numbered one (adc.c:86, 108, 130); any other one that is dropped
\* moved while the handler ran.
DropsOnlyHigher ==
  hpc = "eoi" => \A b \in IntStsB \ {hb} : b > hb \/ b \in moved

\* The button levels in a record (adc.c:83-85) are those on the pins when it is
\* put, for the pins that did not move while the handler ran.
SnapshotFaithful ==
  hpc = "put" => \A b \in Button \ moved : st.button_status[b] = pin[b]

\* When an rtf_put (adc.c:105) may meet a missing FIFO: only between the
\* unmasking of the line and rtf_create (adc.c:215, 217), or in the handler that
\* a failed rtf_create left behind.  The order of cleanup_module adds no case.
PutFindsFifo == hpc = "put" => fifoUp \/ mod = "live" \/ orphaned

\* The edges of one after the other are all reported (docs/project.pdf, page 9):
\* as long as each edge comes when what the edges before it caused has been dealt
\* with, every press has its record, every release after a reported press too,
\* and each record finds room in the FIFO, has the levels of all buttons at one
\* instant, and names the event that left its button at the level it shows
\* (adc.c:83-105, 153, 217).
SpacedEdgesReported ==
  ~crowded /\ loads <= 1 =>
    /\ hpc = "put" => /\ Len(fifo) < FIFO_SIZE
                      /\ st.button_status = pin
                      /\ st.event_type = BtnEvent(hb, pin[hb])
    /\ Quiet => \A b \in Button : unreported[b] = {}
         \/ (unreported[b] = {RISING} /\ GPIOBIntType2[b] = FALLING)

\* What is left of a module that is not loaded (adc.c:159-231).  No FIFO, and no
\* handler and no unmasked line either, whether it was removed or any call of
\* init_module before rtf_create failed.  A failed rtf_create (adc.c:217) leaves
\* the handler attached, and then the line is taken for good: no later
\* init_module gets past line 209, so none can unload the handler again.
CleanExit ==
  /\ mod = "unloaded" => ~fifoUp
  /\ mod = "unloaded" /\ ~orphaned => ~attached /\ ~enabled
  /\ orphaned => attached /\ mod \notin {"requested", "live", "loaded", "disabled", "released"}

\* A latched interrupt is acknowledged, as long as the handler is attached.
Acknowledged ==
  (IntStsB # {} /\ mod = "loaded") ~> (IntStsB = {} \/ mod # "loaded")

\* Which presses are lost among several: a button latched while the handler is
\* not running gets its record, unless a lower-numbered one is latched before
\* its turn (adc.c:86, 108, 130), whose record then takes its place.
ReportedUnlessLower ==
  \A b \in Button :
    (b \in IntStsB /\ hpc = "idle" /\ mod = "loaded")
      ~> (hpc = "put" /\ hb <= b) \/ mod # "loaded"

\* Edges may get lost, but not all of them: while the module stays loaded, a
\* pin that keeps moving keeps the handler reporting.
KeepsReporting ==
  (<>[](mod = "loaded") /\ \E b \in Button : []<><<PinEdge(b)>>_vars)
    => []<><<Toggle>>_vars

\* The module implements ButtonQueue (adc.c:88-105, 217, 229): what userspace finds
\* in the FIFO are the reports of a button in turn, each once and in order, but
\* for those that met no room.  The next report of a button is in the armed
\* direction, and is owed once an edge in it happened; a record that is about to
\* be put counts as put, since the handler is not interrupted.
Queued == IF hpc = "put" THEN RtfPut(st) ELSE fifo

Queue == INSTANCE ButtonQueue WITH
  next <- GPIOBIntType2,
  owed <- {b \in Button : GPIOBIntType2[b] \in unreported[b]},
  up <- fifoUp,
  fifo <- Types(Queued)

ImplementsButtonQueue == Queue!Spec

-----------------------------------------------------------------------------
(* What the comments of adc.c and the README say, and the code does not do. *)

\* adc.c:179 "make sure interrupt is cleared": what was latched for the
\* module's predecessor is not reported by this one, so that the direction in
\* a record is one the button moved in, after a reload as well.
RealEdgeAfterReload ==
  [][hpc = "toggle" /\ hpc' = "put"
       => \E dir \in unreported[hb] : st'.event_type = BtnEvent(hb, dir)]_vars

\* docs/project.pdf, page 9: events further apart than some minimum are logged.
\* A press of a button at a moment when all is quiet, and the module is on its
\* first load, is latched.  It is not after a button was released before the
\* handler had turned to releases: it then waits for another release.
QuietPressLatched ==
  [][\A b \in Button :
       Quiet /\ loads = 1 /\ pin[b] = 1 /\ pin'[b] = 0 => b \in IntStsB']_vars

-----------------------------------------------------------------------------
(* The inductive invariant behind the safety properties, in named parts.   *)

\* Where init_module and cleanup_module stand against what they have set up.
Stages ==
  /\ fifoUp <=> mod \in {"loaded", "disabled", "released"}
  /\ mod \in {"requested", "live", "loaded", "disabled"} => attached
  /\ hpc \notin {"idle", "oops"} => attached /\ ~enabled
  /\ mod \in {"disabled", "released"} => hpc = "idle" /\ ~enabled
  /\ ~orphaned => /\ attached => mod \in {"requested", "live", "loaded", "disabled"}
                  /\ enabled => mod \in {"live", "loaded"}
                  /\ hpc # "idle" => mod \in {"live", "loaded"}
  /\ orphaned => attached /\ mod \notin {"requested", "live", "loaded", "disabled", "released"}

\* Nothing is latched before the port is in edge mode, and a latched edge has
\* not been reported, unless the handler is just about to acknowledge it.
Backed ==
  /\ ~edgeMode => hpc = "idle" /\ IntStsB = {} /\ unreported = [b \in Button |-> {}]
  /\ \A b \in IntStsB : unreported[b] # {} \/ (hb = b /\ hpc \in {"put", "eoi"})

\* The if / else if chain will find a latched button.
Found ==
  /\ hpc = "idle" => hb = 0
  /\ hpc = "sample" => IntStsB # {}
  /\ hpc = "test" => \E b \in IntStsB : b >= hb
  /\ hpc = "toggle" => hb \in IntStsB

\* A latched button the chain has passed was latched after it had looked there.
Passed ==
  hpc \in {"test", "toggle", "put", "eoi"} => \A b \in IntStsB : b < hb => b \in moved

\* The levels sampled so far are those of the pins that stood still.
Sampled ==
  LET good(b) == b \in moved \/ st.button_status[b] = pin[b] IN
  /\ hpc = "sample" => \A b \in Button : b < hb => good(b)
  /\ hpc \in {"test", "toggle", "put"} => \A b \in Button : good(b)

\* On the first load the directions are falling until the handler first runs,
\* and a latched button has moved in the direction armed for it.
FirstLoad ==
  /\ loads = 0 => mod = "unloaded" /\ ~attached /\ ~edgeMode
  /\ loads = 1 /\ mod \in {"mapped", "cleared", "enabled", "armed", "adc_ok"} => ~attached
  /\ loads = 1 /\ mod \in {"mapped", "cleared"} => ~edgeMode
  /\ loads = 0 \/ (loads = 1 /\ mod \in {"mapped", "cleared", "enabled"})
       => GPIOBIntType2 = [b \in Button |-> FALLING]
  /\ loads <= 1 => \A b \in IntStsB :
       GPIOBIntType2[b] \in unreported[b] \/ (hb = b /\ hpc \in {"put", "eoi"})

\* The direction armed for b is the one of its next edge, or of the one after
\* that if b has not been reported yet, and nothing else is owed.
InPhase(b) ==
  \/ unreported[b] = {} /\ (GPIOBIntType2[b] = RISING => pin[b] = 0)
  \/ unreported[b] = {RISING} /\ GPIOBIntType2[b] = FALLING

\* One edge at a time: at most one button is latched, the FIFO is empty until
\* it is put, all others are in phase, and no pin moves while the handler runs.
OnlyLatched(b) ==
  /\ IntStsB = {b} /\ pin[b] = GPIOBIntType2[b] /\ fifo = <<>>
  /\ \A c \in Button \ {b} : InPhase(c)

Spaced ==
  /\ ~edgeMode => GPIOBIntType2 = [b \in Button |-> FALLING]
  /\ hpc = "idle" => moved = {}
  /\ ~crowded /\ loads <= 1 =>
       /\ moved = {}
       /\ hpc \in {"put", "eoi", "enable"} => \A b \in Button : InPhase(b)
       /\ hpc = "put" => fifo = <<>> /\ st.event_type = BtnEvent(hb, pin[hb])
       /\ hpc = "enable" => IntStsB = {}
       /\ hpc \notin {"put", "eoi", "enable"} =>
            \/ IntStsB = {} /\ \A b \in Button : InPhase(b)
            \/ \E b \in Button : OnlyLatched(b)

IInv == TypeOK /\ Stages /\ Backed /\ Found /\ Passed /\ Sampled /\ FirstLoad /\ Spaced
=============================================================================
