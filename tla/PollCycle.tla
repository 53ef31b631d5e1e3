----------------------------- MODULE PollCycle -----------------------------
(***************************************************************************)
(* The exchange between historians and one RTU: the main loop of           *)
(* historian/historian.c (send HANDSHAKE, wait for the answer, log it)     *)
(* against the sender thread of rtu/user/rtu.c (receive, answer, wait for  *)
(* the next 10 ms period), over UDP.                                       *)
(*                                                                         *)
(* Every request is the string HANDSHAKE and every answer the contents of  *)
(* buf1: datagrams carry nothing that tells one poll from another, so the  *)
(* network is counts of datagrams.  Only a history distinguishes answers   *)
(* sent since the receiver's latest request from older ones.               *)
(***************************************************************************)
EXTENDS Naturals

CONSTANTS
  Historian,    \* historian processes that are given this RTU's address
  Nobody,       \* what from holds before it is first written
  MaxLost,      \* bound: datagrams lost per historian
  MaxDup,       \* bound: datagrams per historian sent twice
  MaxStarts,    \* bound: how often the RTU program is started
  MaxBehind     \* bound: periods the sender can be behind

ASSUME PollAssumption ==
  /\ Nobody \notin Historian
  /\ MaxLost \in Nat /\ MaxDup \in Nat /\ MaxStarts \in Nat /\ MaxBehind \in Nat \ {0}

VARIABLES
  hist,     \* hist[c]: where historian c stands in its loop
  rtu,      \* where the sender thread stands; "down": no RTU program runs
  from,     \* the address the last request came from, or Nobody
  behind,   \* periods that began and that rt_task_wait_period has not taken
  starts,   \* number of starts of the RTU program
  req,      \* external: req[c], requests of c on their way
  fresh,    \* external: fresh[c], answers to c sent since its latest request
  stale,    \* external: stale[c], older answers to c
  lost, dup \* history: datagrams of c lost, and sent twice

rtuVars == <<rtu, from, behind, starts>>
netVars == <<req, fresh, stale>>
vars == <<hist, rtuVars, netVars, lost, dup>>

TypeOK ==
  /\ hist \in [Historian -> {"off", "handshake", "wait", "log", "quit"}]
  /\ rtu \in {"down", "recv", "reply", "period"}
  /\ from \in Historian \union {Nobody} /\ (rtu = "reply" => from # Nobody)
  /\ behind \in 0..MaxBehind /\ starts \in 0..MaxStarts
  /\ req \in [Historian -> Nat]
  /\ fresh \in [Historian -> Nat] /\ stale \in [Historian -> Nat]
  /\ lost \in [Historian -> Nat] /\ dup \in [Historian -> 0..MaxDup]

Zero == [c \in Historian |-> 0]

Init ==
  /\ hist = [c \in Historian |-> "off"]
  /\ rtu = "down" /\ from = Nobody /\ behind = 0 /\ starts = 0
  /\ req = Zero /\ fresh = Zero /\ stale = Zero
  /\ lost = Zero /\ dup = Zero

More(f, c) == [f EXCEPT ![c] = @ + 1]
Less(f, c) == [f EXCEPT ![c] = @ - 1]

-----------------------------------------------------------------------------
(* historian.c, main                                                       *)

Alive(c) == hist[c] \in {"handshake", "wait", "log"}

Goto(c, to) == hist' = [hist EXCEPT ![c] = to]

\* Lines 58-80: the program is started and makes its socket.
Start(c) ==
  /\ hist[c] = "off"
  /\ Goto(c, "handshake")
  /\ UNCHANGED <<rtuVars, netVars, lost, dup>>

\* A bug the properties must notice: two requests for one answer.
HandshakeTwice(c) ==
  /\ hist[c] = "handshake"
  /\ Goto(c, "wait")
  /\ req' = [req EXCEPT ![c] = @ + 2]
  /\ stale' = [stale EXCEPT ![c] = @ + fresh[c]]
  /\ fresh' = [fresh EXCEPT ![c] = 0]
  /\ UNCHANGED <<rtuVars, lost, dup>>

\* Lines 86-90.  Answers still on their way belong to earlier requests now.
Handshake(c) ==
  /\ hist[c] = "handshake"
  /\ Goto(c, "wait")
  /\ req' = More(req, c)
  /\ stale' = [stale EXCEPT ![c] = @ + fresh[c]]
  /\ fresh' = [fresh EXCEPT ![c] = 0]
  /\ UNCHANGED <<rtuVars, lost, dup>>

\* A bug the properties must notice: giving up on an answer and asking again,
\* without telling the two answers apart.
ReceiveOrGiveUp(c) ==
  /\ hist[c] = "wait"
  /\ \/ fresh[c] > 0 /\ fresh' = Less(fresh, c) /\ UNCHANGED stale
     \/ stale[c] > 0 /\ stale' = Less(stale, c) /\ UNCHANGED fresh
     \/ UNCHANGED <<fresh, stale>>
  /\ Goto(c, "log")
  /\ UNCHANGED <<rtuVars, req, lost, dup>>

\* Line 93: the first answer to arrive ends the wait; there is no timeout.
Receive(c) ==
  /\ hist[c] = "wait"
  /\ \/ fresh[c] > 0 /\ fresh' = Less(fresh, c) /\ UNCHANGED stale
     \/ stale[c] > 0 /\ stale' = Less(stale, c) /\ UNCHANGED fresh
  /\ Goto(c, "log")
  /\ UNCHANGED <<rtuVars, req, lost, dup>>

\* Lines 98-100: event_log, whose result is not looked at, and sleep(0).
Log(c) ==
  /\ hist[c] = "log"
  /\ Goto(c, "handshake")
  /\ UNCHANGED <<rtuVars, netVars, lost, dup>>

\* Line 42, the command q, whose thread runs before the set-up does, or one of
\* the exits of main (lines 62, 67, 73, 89, 95): the process is gone, and what is
\* on its way to it has no receiver any more.
Quit(c) ==
  /\ hist[c] # "quit"
  /\ Goto(c, "quit")
  /\ fresh' = [fresh EXCEPT ![c] = 0] /\ stale' = [stale EXCEPT ![c] = 0]
  /\ UNCHANGED <<rtuVars, req, lost, dup>>

-----------------------------------------------------------------------------
(* rtu.c, sendToHistorian                                                  *)

\* Lines 90-115 and 63-65: the socket is bound, the period starts.
RtuStart ==
  /\ rtu = "down" /\ starts < MaxStarts
  /\ rtu' = "recv" /\ from' = Nobody /\ behind' = 0 /\ starts' = starts + 1
  /\ UNCHANGED <<hist, netVars, lost, dup>>

\* A bug the properties must notice: the first sender is answered for ever.
RtuReceiveFirst(c) ==
  /\ rtu = "recv" /\ req[c] > 0
  /\ rtu' = "reply" /\ from' = IF from = Nobody THEN c ELSE from
  /\ req' = Less(req, c)
  /\ UNCHANGED <<hist, behind, starts, fresh, stale, lost, dup>>

\* Lines 69-72.
RtuReceive(c) ==
  /\ rtu = "recv" /\ req[c] > 0
  /\ rtu' = "reply" /\ from' = c
  /\ req' = Less(req, c)
  /\ UNCHANGED <<hist, behind, starts, fresh, stale, lost, dup>>

\* Lines 71-74: recvfrom fails on a damaged request and leaves from as it was.
\* The result is not looked at: whoever asked last gets a second answer, nobody
\* if from was never written.
RtuReceiveFails(c) ==
  /\ rtu = "recv" /\ req[c] > 0 /\ lost[c] < MaxLost
  /\ req' = Less(req, c) /\ lost' = More(lost, c)
  /\ IF from # Nobody THEN dup[from] < MaxDup /\ dup' = More(dup, from) /\ rtu' = "reply"
                       ELSE UNCHANGED dup /\ rtu' = "period"
  /\ UNCHANGED <<hist, from, behind, starts, fresh, stale>>

\* Line 74: buf1 goes to where the request came from.
RtuReply ==
  /\ rtu = "reply"
  /\ rtu' = "period"
  /\ fresh' = IF hist[from] = "quit" THEN fresh ELSE More(fresh, from)
  /\ UNCHANGED <<hist, from, behind, starts, req, stale, lost, dup>>

\* A bug the properties must notice: a period is taken before it begins.
RtuPeriodEarly ==
  /\ rtu = "period"
  /\ rtu' = "recv" /\ behind' = behind - 1
  /\ UNCHANGED <<hist, from, starts, netVars, lost, dup>>

\* Line 75: rt_task_wait_period returns at once while periods are due.
RtuPeriod ==
  /\ rtu = "period" /\ behind > 0
  /\ rtu' = "recv" /\ behind' = behind - 1
  /\ UNCHANGED <<hist, from, starts, netVars, lost, dup>>

\* 10 ms pass, whatever the sender is doing.
Tick ==
  /\ rtu # "down" /\ behind < MaxBehind
  /\ behind' = behind + 1
  /\ UNCHANGED <<hist, rtu, from, starts, netVars, lost, dup>>

\* The whole program exits, for instance through err() in the reader thread
\* (lines 48-50), and a request it has taken stays unanswered.
RtuExit ==
  /\ rtu # "down"
  /\ rtu' = "down"
  /\ lost' = IF rtu = "reply" THEN More(lost, from) ELSE lost
  /\ UNCHANGED <<hist, from, behind, starts, netVars, dup>>

-----------------------------------------------------------------------------
(* External: UDP                                                           *)

\* A datagram disappears.
Lose(c) ==
  /\ lost[c] < MaxLost
  /\ \/ req[c] > 0 /\ req' = Less(req, c) /\ UNCHANGED <<fresh, stale>>
     \/ fresh[c] > 0 /\ fresh' = Less(fresh, c) /\ UNCHANGED <<req, stale>>
     \/ stale[c] > 0 /\ stale' = Less(stale, c) /\ UNCHANGED <<req, fresh>>
  /\ lost' = More(lost, c)
  /\ UNCHANGED <<hist, rtuVars, dup>>

\* A request arrives where no RTU program has the port open.
Refuse(c) ==
  /\ rtu = "down" /\ req[c] > 0
  /\ req' = Less(req, c)
  /\ lost' = More(lost, c)
  /\ UNCHANGED <<hist, rtuVars, fresh, stale, dup>>

\* The network delivers a datagram twice.
Duplicate(c) ==
  /\ dup[c] < MaxDup
  /\ \/ req[c] > 0 /\ req' = More(req, c) /\ UNCHANGED <<fresh, stale>>
     \/ fresh[c] > 0 /\ fresh' = More(fresh, c) /\ UNCHANGED <<req, stale>>
     \/ stale[c] > 0 /\ stale' = More(stale, c) /\ UNCHANGED <<req, fresh>>
  /\ dup' = More(dup, c)
  /\ UNCHANGED <<hist, rtuVars, lost>>

-----------------------------------------------------------------------------
HistorianStep(c) == Handshake(c) \/ Receive(c) \/ Log(c)
RtuStep == RtuReply \/ RtuPeriod

Next ==
  \/ \E c \in Historian :
       \/ Start(c) \/ HistorianStep(c) \/ Quit(c)
       \/ RtuReceive(c) \/ RtuReceiveFails(c) \/ Lose(c) \/ Refuse(c) \/ Duplicate(c)
  \/ RtuStart \/ RtuStep \/ Tick \/ RtuExit

Spec == Init /\ [][Next]_vars

\* Both programs run when they can, time passes, and the socket of the RTU is
\* a queue: a request that has arrived has only finitely many before it.
FairSpec ==
  /\ Spec
  /\ WF_vars(RtuStep) /\ WF_vars(Tick)
  /\ \A c \in Historian : WF_vars(HistorianStep(c)) /\ SF_vars(RtuReceive(c))
-----------------------------------------------------------------------------
(* Properties                                                              *)

\* What goes round between c and the RTU: datagrams, the request the sender
\* thread holds, or the turn of the historian itself.
Circulating(c) ==
  req[c] + fresh[c] + stale[c]
    + (IF rtu = "reply" /\ from = c THEN 1 ELSE 0)
    + (IF hist[c] \in {"handshake", "log"} THEN 1 ELSE 0)

\* Neither program creates or swallows a turn (historian.c:88-98, rtu.c:71-74):
\* one goes round, more only by what was sent twice, fewer only by what was lost
\* or what an RTU program took with it.  A failed recvfrom (rtu.c:71) takes the
\* turn from one historian and gives it to another.
Conserved == \A c \in Historian : Alive(c) => Circulating(c) + lost[c] = 1 + dup[c]

\* Answers that are older than the receiver's latest request (historian.c:93
\* takes whatever arrives) come from a second sending only, one each at most.
StaleBounded == \A c \in Historian : stale[c] <= dup[c]

\* A historian that lost more than was sent it twice is waiting, whatever other
\* historians and the RTU program do, and does not leave the wait but to quit:
\* nothing brings its turn back before another second sending (historian.c:93
\* has no timeout, rtu.c:69-75 only answers).
StarvedWaits ==
  [][\A c \in Historian : Alive(c) /\ lost[c] > dup[c] =>
       hist[c] = "wait" /\ hist'[c] \in {"wait", "quit"}]_vars

\* While an RTU program runs, a historian that runs logs again and again
\* (historian.c:82-101), whatever other historians do and however much was
\* duplicated, unless more of its datagrams were lost than duplicated: then it
\* waits for ever.
PollsOn ==
  \A c \in Historian :
    <>[](Alive(c) /\ lost[c] <= dup[c]) /\ <>[](rtu # "down")
      => []<><<Log(c)>>_vars

\* What a historian logs is a snapshot the RTU took after that historian asked
\* for it (historian.c:88-98, rtu.c:71-74), until one of its datagrams has been
\* sent twice.
Fresh == INSTANCE FreshPoll WITH
  open <- {c \in Historian : hist[c] = "wait"},
  served <- {c \in Historian : hist[c] = "wait" /\ fresh[c] > 0},
  tainted <- {c \in Historian : dup[c] > 0},
  gone <- {c \in Historian : hist[c] = "quit"}

ImplementsFreshPoll == Fresh!Spec

-----------------------------------------------------------------------------
(* What the project's requirements say, and the code does not do.          *)

\* docs/project.pdf, page 8, E: with or without events, the status of an RTU is
\* reported and logged again and again, as long as both programs run.
LogsPeriodically ==
  \A c \in Historian :
    <>[]Alive(c) /\ <>[](rtu # "down") => []<><<Log(c)>>_vars

-----------------------------------------------------------------------------
(* The inductive invariant behind the safety properties: a historian that  *)
(* was not started yet has nothing on its way.                             *)
Untouched ==
  /\ \A c \in Historian : hist[c] = "off" =>
       Circulating(c) = 0 /\ lost[c] = 0 /\ dup[c] = 0
  /\ from # Nobody => hist[from] # "off"

PInv == TypeOK /\ Untouched /\ Conserved /\ StaleBounded
=============================================================================
