---------------------------- MODULE ButtonQueue ----------------------------
(***************************************************************************)
(* What userspace can rely on at RT-FIFO 0: it holds the reports of        *)
(* ButtonEvents in the order in which they are made, each once, but for    *)
(* those that find it full or missing.  The kernel module implements this  *)
(* and Scada is built on it.                                               *)
(***************************************************************************)
EXTENDS Status, Sequences

CONSTANT FIFO_SIZE   \* capacity of the FIFO in records

VARIABLES
  next, owed,   \* of ButtonEvents
  up,           \* there is a FIFO
  fifo          \* the events in it

Events == INSTANCE ButtonEvents

vars == <<next, owed, up, fifo>>

Init == Events!Init /\ up \in BOOLEAN /\ fifo = <<>>

Edge(b) == Events!Edge(b) /\ UNCHANGED <<up, fifo>>

Report(b) ==
  /\ Events!Report(b)
  /\ fifo' = IF up /\ Len(fifo) < FIFO_SIZE
             THEN Append(fifo, BtnEvent(b, next[b])) ELSE fifo
  /\ UNCHANGED up

Read == fifo # <<>> /\ fifo' = Tail(fifo) /\ UNCHANGED <<next, owed, up>>

Create == ~up /\ up' = TRUE /\ UNCHANGED <<next, owed, fifo>>

\* What is in the FIFO may outlast the one who created it.
Destroy == up /\ up' = FALSE /\ fifo' \in {<<>>, fifo} /\ UNCHANGED <<next, owed>>

Next == (\E b \in Button : Edge(b) \/ Report(b)) \/ Read \/ Create \/ Destroy

Spec == Init /\ [][Next]_vars
=============================================================================
