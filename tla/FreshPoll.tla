----------------------------- MODULE FreshPoll -----------------------------
(***************************************************************************)
(* What a historian may expect of polling an RTU: a poll is opened, the    *)
(* RTU takes a snapshot of its status while the poll is open, and only     *)
(* with such a snapshot is the poll finished.  A snapshot may get lost,    *)
(* a historian may leave for good, and one that has been sent a datagram   *)
(* twice may from then on finish with an old snapshot.                     *)
(***************************************************************************)
CONSTANT Historian

VARIABLES
  open,     \* the historians with a poll under way
  served,   \* those of them for which a snapshot of this poll is on its way
  tainted,  \* the historians that may have been sent an answer twice
  gone      \* the historians that have left

vars == <<open, served, tainted, gone>>

Init == open = {} /\ served = {} /\ tainted = {} /\ gone = {}

Open(c) ==
  /\ c \notin open \union gone
  /\ open' = open \union {c} /\ UNCHANGED <<served, tainted, gone>>

Serve(c) ==
  /\ c \in open
  /\ served' = served \union {c} /\ UNCHANGED <<open, tainted, gone>>

Lose(c) == served' = served \ {c} /\ UNCHANGED <<open, tainted, gone>>

Finish(c) ==
  /\ c \in served \/ (c \in open /\ c \in tainted)
  /\ open' = open \ {c} /\ served' = served \ {c} /\ UNCHANGED <<tainted, gone>>

Taint(c) == tainted' = tainted \union {c} /\ UNCHANGED <<open, served, gone>>

Leave(c) ==
  /\ gone' = gone \union {c}
  /\ open' = open \ {c} /\ served' = served \ {c} /\ UNCHANGED tainted

Next ==
  \E c \in Historian :
    Open(c) \/ Serve(c) \/ Lose(c) \/ Finish(c) \/ Taint(c) \/ Leave(c)

Spec == Init /\ [][Next]_vars
=============================================================================
