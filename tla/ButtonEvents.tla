---------------------------- MODULE ButtonEvents ----------------------------
(***************************************************************************)
(* What the button interrupt promises, without registers or interrupts:    *)
(* for each button the reports alternate, falling edge first, and each     *)
(* report is backed by an edge in its direction that happened after the    *)
(* previous report of that button.  Edges may go unreported.               *)
(***************************************************************************)
EXTENDS Status

VARIABLES
  next,    \* next[b]: the direction the next report of b will have
  owed     \* the buttons with an edge in that direction since their last report

vars == <<next, owed>>

TypeOK == next \in [Button -> Level] /\ owed \in SUBSET Button

Init == next = [b \in Button |-> FALLING] /\ owed = {}

Edge(b) == owed' = owed \union {b} /\ UNCHANGED next

Report(b) ==
  /\ b \in owed
  /\ owed' = owed \ {b}
  /\ next' = [next EXCEPT ![b] = 1 - @]

Next == \E b \in Button : Edge(b) \/ Report(b)

Spec == Init /\ [][Next]_vars
=============================================================================
