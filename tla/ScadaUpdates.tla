---------------------------- MODULE ScadaUpdates ----------------------------
(***************************************************************************)
(* Scada with a history of the updates a historian got after the RTU       *)
(* program had read an event: whether what was reported reaches the log.   *)
(* Each step is a step of Scada; the history only watches.                 *)
(***************************************************************************)
EXTENDS Scada

VARIABLES
  asked,    \* history: those whose latest request went out with an event read
  updates   \* history: updates[c], answers to such requests that c has logged

uvars == <<vars, asked, updates>>

UInit ==
  /\ Init
  /\ asked = {} /\ updates = [c \in Historian |-> 0]

\* c sends a request (historian.c:88).
Asks(c) == hist[c] = "handshake" /\ hist'[c] = "wait"

\* c writes the line of an answer into a log (historian.c:145-150).
Logs(c) == main[c] = "write" /\ main'[c] # "write" /\ log' # log

\* The reader thread holds an event, or has printed it and holds it still: events
\* is what rtu.c:48 reads into, and stays until the next event or the program's end.
EventRead == rtu # "down" /\ events # NoEvents

UNext ==
  /\ Next
  /\ asked' = {c \in Historian : IF Asks(c) THEN EventRead ELSE c \in asked}
  /\ updates' = [c \in Historian |->
                   IF Logs(c) /\ c \in asked THEN updates[c] + 1 ELSE updates[c]]

USpec == UInit /\ [][UNext]_uvars

\* README.md:28: "button press events from the RTU should show up in the Historian
\* log".  A historian that asked when the RTU program had read an event,
\* and logged the answer, and did so a second time, has an event of the kernel
\* module in a log, whichever, and maybe among lines of other contents.  It has
\* not: rtu.c:48 reads into events, and rtu.c:74 sends buf1.
ReportsReachLog ==
  \A c \in Historian : updates[c] >= 2 =>
    \E id \in 0..2 : \E l \in Records(log[id]), r \in Records(reported) :
      l.time = r.event_tv
=============================================================================
