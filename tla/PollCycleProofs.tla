-------------------------- MODULE PollCycleProofs --------------------------
(***************************************************************************)
(* What holds of PollCycle for any set of historians, any number of lost   *)
(* and doubled datagrams and any number of RTU restarts.                   *)
(***************************************************************************)
EXTENDS PollCycle, TLAPS

USE PollAssumption

-----------------------------------------------------------------------------
(* Operators                                                               *)

\* Counting up and down touches one historian's count.
LEMMA MoreLess ==
  ASSUME NEW f \in [Historian -> Nat], NEW c \in Historian
  PROVE  /\ More(f, c) \in [Historian -> Nat]
         /\ f[c] > 0 => Less(f, c) \in [Historian -> Nat]
         /\ More(f, c)[c] = f[c] + 1 /\ Less(f, c)[c] = f[c] - 1
         /\ \A d \in Historian \ {c} : More(f, c)[d] = f[d] /\ Less(f, c)[d] = f[d]
  BY DEF More, Less

LEMMA BoundedMore ==
  ASSUME NEW max \in Nat, NEW f \in [Historian -> 0..max], NEW c \in Historian, f[c] < max
  PROVE  More(f, c) \in [Historian -> 0..max]
<1>1. f[c] + 1 \in 0..max OBVIOUS
<1> QED BY <1>1 DEF More

-----------------------------------------------------------------------------
(* Type correctness                                                        *)

LEMMA PollTypeInit == Init => TypeOK
  BY DEF Init, TypeOK, Zero

LEMMA PollTypeStep == TypeOK /\ [Next]_vars => TypeOK'
<1> SUFFICES ASSUME TypeOK, [Next]_vars PROVE TypeOK'
  OBVIOUS
<1> USE MoreLess DEF TypeOK, rtuVars, netVars, Goto
<1>1. CASE UNCHANGED vars BY <1>1 DEF vars
<1>2. ASSUME NEW c \in Historian,
             \/ Start(c) \/ HistorianStep(c) \/ Quit(c)
             \/ RtuReceive(c) \/ RtuReceiveFails(c)
             \/ Lose(c) \/ Refuse(c) \/ Duplicate(c)
      PROVE  TypeOK'
  <2>1. CASE Start(c) BY <2>1 DEF Start
  <2>2. CASE Handshake(c)
    <3>1. req' \in [Historian -> Nat] BY <2>2 DEF Handshake
    <3>2. fresh[c] \in Nat /\ stale[c] \in Nat OBVIOUS
    <3> HIDE MoreLess
    <3>3. stale' \in [Historian -> Nat] /\ fresh' \in [Historian -> Nat]
      <4>1. stale[c] + fresh[c] \in Nat BY <3>2
      <4> QED BY <2>2, <4>1 DEF Handshake
    <3> QED BY <2>2, <3>1, <3>3 DEF Handshake
  <2>3. CASE Receive(c) BY <2>3 DEF Receive
  <2>4. CASE Log(c) BY <2>4 DEF Log
  <2>5. CASE Quit(c) BY <2>5 DEF Quit
  <2>6. CASE RtuReceive(c)
    <3>1. from' = c /\ c # Nobody /\ req' \in [Historian -> Nat]
      BY <2>6 DEF RtuReceive
    <3>2. rtu' = "reply" /\ UNCHANGED <<hist, behind, starts, fresh, stale, lost, dup>>
      BY <2>6 DEF RtuReceive
    <3> HIDE MoreLess
    <3> QED BY <3>1, <3>2
  <2>7. CASE Lose(c)
    <3>1. req' \in [Historian -> Nat]
      <4>1. req' = req \/ (req[c] > 0 /\ req' = Less(req, c)) BY <2>7 DEF Lose
      <4> QED BY <4>1
    <3>2. fresh' \in [Historian -> Nat]
      <4>1. fresh' = fresh \/ (fresh[c] > 0 /\ fresh' = Less(fresh, c)) BY <2>7 DEF Lose
      <4> QED BY <4>1
    <3>3. stale' \in [Historian -> Nat]
      <4>1. stale' = stale \/ (stale[c] > 0 /\ stale' = Less(stale, c)) BY <2>7 DEF Lose
      <4> QED BY <4>1
    <3>4. lost' \in [Historian -> Nat] BY <2>7 DEF Lose
    <3> HIDE MoreLess
    <3>5. UNCHANGED <<hist, rtu, from, behind, starts, dup>> BY <2>7 DEF Lose
    <3> QED BY <3>1, <3>2, <3>3, <3>4, <3>5
  <2>8. CASE Refuse(c) BY <2>8 DEF Refuse
  <2>9. CASE Duplicate(c)
    <3>1. req' \in [Historian -> Nat]
      <4>1. req' = req \/ (req[c] > 0 /\ req' = More(req, c)) BY <2>9 DEF Duplicate
      <4> QED BY <4>1
    <3>2. fresh' \in [Historian -> Nat]
      <4>1. fresh' = fresh \/ (fresh[c] > 0 /\ fresh' = More(fresh, c)) BY <2>9 DEF Duplicate
      <4> QED BY <4>1
    <3>3. stale' \in [Historian -> Nat]
      <4>1. stale' = stale \/ (stale[c] > 0 /\ stale' = More(stale, c)) BY <2>9 DEF Duplicate
      <4> QED BY <4>1
    <3> HIDE MoreLess
    <3>4. dup' \in [Historian -> 0..MaxDup] BY <2>9, BoundedMore DEF Duplicate
    <3>5. UNCHANGED <<hist, rtu, from, behind, starts, lost>> BY <2>9 DEF Duplicate
    <3> QED BY <3>1, <3>2, <3>3, <3>4, <3>5
  <2>10. CASE RtuReceiveFails(c)
    <3>1. req' \in [Historian -> Nat] BY <2>10 DEF RtuReceiveFails
    <3>2. lost' \in [Historian -> Nat] BY <2>10 DEF RtuReceiveFails
    <3> HIDE MoreLess
    <3>3. rtu' \in {"reply", "period"} /\ (rtu' = "reply" => from # Nobody)
      BY <2>10 DEF RtuReceiveFails
    <3>4. dup' \in [Historian -> 0..MaxDup]
      <4>1. CASE from = Nobody BY <2>10, <4>1 DEF RtuReceiveFails
      <4>2. CASE from # Nobody
        <5>1. PICK d \in Historian : d = from BY <4>2
        <5>2. dup[d] < MaxDup /\ dup' = More(dup, d)
          BY <2>10, <4>2, <5>1 DEF RtuReceiveFails
        <5> QED BY <5>2, BoundedMore
      <4> QED BY <4>1, <4>2
    <3>5. UNCHANGED <<hist, from, behind, starts, fresh, stale>>
      BY <2>10 DEF RtuReceiveFails
    <3> QED BY <3>1, <3>2, <3>3, <3>4, <3>5
  <2> QED BY <1>2, <2>1, <2>2, <2>3, <2>4, <2>5, <2>6, <2>7, <2>8, <2>9, <2>10
          DEF HistorianStep
<1>3. CASE RtuStart BY <1>3 DEF RtuStart
<1>4. CASE RtuReply BY <1>4 DEF RtuReply
<1>5. CASE RtuPeriod BY <1>5 DEF RtuPeriod
<1>6. CASE Tick BY <1>6 DEF Tick
<1>7. CASE RtuExit BY <1>7 DEF RtuExit
<1> QED BY <1>1, <1>2, <1>3, <1>4, <1>5, <1>6, <1>7 DEF Next, RtuStep

\* Every variable keeps its type.
THEOREM PollTypeCorrect == Spec => []TypeOK
  BY PollTypeInit, PollTypeStep, PTL DEF Spec

-----------------------------------------------------------------------------
(* One step seen by one historian                                          *)

\* What the properties say about one historian.
Balanced(d) ==
  /\ hist[d] = "off" => Circulating(d) = 0 /\ lost[d] = 0 /\ dup[d] = 0
  /\ Alive(d) => Circulating(d) + lost[d] = 1 + dup[d]
  /\ stale[d] <= dup[d]

LEMMA BalancedStep ==
  ASSUME TypeOK, [Next]_vars, from # Nobody => hist[from] # "off",
         NEW d \in Historian, Balanced(d)
  PROVE  Balanced(d)'
<1> USE DEF TypeOK, Balanced, Circulating, Alive, rtuVars, netVars, Goto, More, Less
<1>1. CASE UNCHANGED vars BY <1>1 DEF vars
<1>2. ASSUME NEW c \in Historian,
             \/ Start(c) \/ HistorianStep(c) \/ Quit(c)
             \/ RtuReceive(c) \/ RtuReceiveFails(c)
             \/ Lose(c) \/ Refuse(c) \/ Duplicate(c)
      PROVE  Balanced(d)'
  <2>1. CASE Start(c) BY <2>1 DEF Start
  <2>2. CASE Handshake(c)
    <3>1. CASE c = d BY <2>2, <3>1 DEF Handshake
    <3>2. CASE c # d BY <2>2, <3>2 DEF Handshake
    <3> QED BY <3>1, <3>2
  <2>3. CASE Receive(c)
    <3>1. CASE c = d BY <2>3, <3>1 DEF Receive
    <3>2. CASE c # d BY <2>3, <3>2 DEF Receive
    <3> QED BY <3>1, <3>2
  <2>4. CASE Log(c) BY <2>4 DEF Log
  <2>5. CASE Quit(c)
    <3>1. CASE c = d BY <2>5, <3>1 DEF Quit
    <3>2. CASE c # d BY <2>5, <3>2 DEF Quit
    <3> QED BY <3>1, <3>2
  <2>6. CASE RtuReceive(c)
    <3>1. CASE c = d
      <4>1. req' = [req EXCEPT ![d] = @ - 1] /\ req[d] > 0
        BY <2>6, <3>1 DEF RtuReceive
      <4>2. req'[d] = req[d] - 1 BY <4>1
      <4> QED BY <2>6, <3>1, <4>1, <4>2 DEF RtuReceive
    <3>2. CASE c # d BY <2>6, <3>2 DEF RtuReceive
    <3> QED BY <3>1, <3>2
  <2>7. CASE Lose(c)
    <3>1. CASE c = d BY <2>7, <3>1 DEF Lose
    <3>2. CASE c # d BY <2>7, <3>2 DEF Lose
    <3> QED BY <3>1, <3>2
  <2>8. CASE Refuse(c)
    <3>1. CASE c = d
      <4>1. req' = [req EXCEPT ![d] = @ - 1] /\ req[d] > 0
        BY <2>8, <3>1 DEF Refuse
      <4>2. req'[d] = req[d] - 1 BY <4>1
      <4> QED BY <2>8, <3>1, <4>1, <4>2 DEF Refuse
    <3>2. CASE c # d BY <2>8, <3>2 DEF Refuse
    <3> QED BY <3>1, <3>2
  <2>9. CASE Duplicate(c) BY <2>9 DEF Duplicate
  <2>10. CASE RtuReceiveFails(c)
    <3> DEFINE one == IF c = d THEN 1 ELSE 0
               two == IF from = d THEN 1 ELSE 0
    <3>1. /\ req'[d] = req[d] - one /\ lost'[d] = lost[d] + one
          /\ rtu = "recv" /\ UNCHANGED <<hist, from, fresh, stale>>
      BY <2>10 DEF RtuReceiveFails
    <3>2. dup'[d] = dup[d] + two /\ rtu' = IF from = Nobody THEN "period" ELSE "reply"
      BY <2>10 DEF RtuReceiveFails
    <3>3. /\ req[d] \in Nat /\ fresh[d] \in Nat /\ stale[d] \in Nat
          /\ lost[d] \in Nat /\ dup[d] \in Nat /\ one \in {0, 1} /\ two \in {0, 1}
      OBVIOUS
    <3>4. Circulating(d)' = Circulating(d) - one + two
      BY <3>1, <3>2, <3>3
    <3>5. hist[d] = "off" => one = 0 /\ two = 0
      <4>1. hist[d] = "off" => req[d] = 0 BY <3>3
      <4>2. req[c] > 0 BY <2>10 DEF RtuReceiveFails
      <4> QED BY <4>1, <4>2
    <3>6. Circulating(d) \in Nat BY <3>3
    <3> HIDE DEF one, two, TypeOK, More, Less, Circulating
    <3> QED BY <3>1, <3>2, <3>3, <3>4, <3>5, <3>6
  <2> QED BY <1>2, <2>1, <2>2, <2>3, <2>4, <2>5, <2>6, <2>7, <2>8, <2>9, <2>10
          DEF HistorianStep
<1>3. CASE RtuStart BY <1>3 DEF RtuStart
<1>4. CASE RtuReply BY <1>4 DEF RtuReply
<1>5. CASE RtuPeriod BY <1>5 DEF RtuPeriod
<1>6. CASE Tick BY <1>6 DEF Tick
<1>7. CASE RtuExit BY <1>7 DEF RtuExit
<1> QED BY <1>1, <1>2, <1>3, <1>4, <1>5, <1>6, <1>7 DEF Next, RtuStep

\* The sender thread only knows addresses of historians that have been started.
LEMMA HeardStep ==
  ASSUME TypeOK, [Next]_vars, from # Nobody => hist[from] # "off",
         \A d \in Historian : Balanced(d)
  PROVE  from' # Nobody => hist'[from'] # "off"
<1> USE DEF TypeOK, rtuVars, netVars, Goto
<1>1. CASE UNCHANGED vars BY <1>1 DEF vars
<1>2. ASSUME NEW c \in Historian,
             \/ Start(c) \/ HistorianStep(c) \/ Quit(c)
             \/ RtuReceiveFails(c) \/ Lose(c) \/ Refuse(c) \/ Duplicate(c)
      PROVE  from' # Nobody => hist'[from'] # "off"
  BY <1>2 DEF Start, HistorianStep, Handshake, Receive, Log, Quit, RtuReceiveFails,
              Lose, Refuse, Duplicate
<1>3. ASSUME NEW c \in Historian, RtuReceive(c)
      PROVE  from' # Nobody => hist'[from'] # "off"
  <2>1. hist[c] # "off" BY <1>3 DEF RtuReceive, Balanced, Circulating
  <2> QED BY <1>3, <2>1 DEF RtuReceive
<1>4. CASE RtuStart BY <1>4 DEF RtuStart
<1>5. CASE RtuReply \/ RtuPeriod \/ Tick \/ RtuExit
  BY <1>5 DEF RtuReply, RtuPeriod, Tick, RtuExit
<1> QED BY <1>1, <1>2, <1>3, <1>4, <1>5 DEF Next, RtuStep

\* The invariant is inductive and holds throughout.
THEOREM PollInvariance == Spec => []PInv
<1>1. Init => PInv
  <2> SUFFICES ASSUME Init PROVE PInv
    OBVIOUS
  <2>1. TypeOK BY PollTypeInit
  <2>2. Untouched /\ Conserved /\ StaleBounded
    BY DEF Init, Zero, Untouched, Conserved, StaleBounded, Circulating, Alive
  <2> QED BY <2>1, <2>2 DEF PInv
<1>2. PInv /\ [Next]_vars => PInv'
  <2> SUFFICES ASSUME PInv, [Next]_vars PROVE PInv'
    OBVIOUS
  <2>1. TypeOK /\ TypeOK' BY PollTypeStep DEF PInv
  <2>2. \A d \in Historian : Balanced(d)
    BY DEF PInv, Balanced, Untouched, Conserved, StaleBounded
  <2>3. from # Nobody => hist[from] # "off" BY DEF PInv, Untouched
  <2>4. \A d \in Historian : Balanced(d)' BY <2>1, <2>2, <2>3, BalancedStep
  <2>5. from' # Nobody => hist'[from'] # "off" BY <2>1, <2>2, <2>3, HeardStep
  <2>6. Untouched' /\ Conserved' /\ StaleBounded'
    BY <2>4, <2>5 DEF Balanced, Untouched, Conserved, StaleBounded
  <2> QED BY <2>1, <2>6 DEF PInv
<1> QED BY <1>1, <1>2, PTL DEF Spec

\* The programs neither create nor swallow a turn of the polling.
THEOREM TurnsConserved == Spec => []Conserved
<1>1. PInv => Conserved BY DEF PInv
<1> QED BY <1>1, PollInvariance, PTL

\* There are never more outdated answers than datagrams sent twice.
THEOREM StaleAnswersBounded == Spec => []StaleBounded
<1>1. PInv => StaleBounded BY DEF PInv
<1> QED BY <1>1, PollInvariance, PTL

-----------------------------------------------------------------------------
(* Losing more than was sent twice                                         *)

\* The turn of a historian that lost more than was sent it twice is nowhere.
LEMMA StarvedHasNoTurn ==
  ASSUME PInv, NEW c \in Historian, Alive(c), lost[c] > dup[c]
  PROVE  hist[c] = "wait" /\ fresh[c] = 0 /\ stale[c] = 0
<1> DEFINE held == IF rtu = "reply" /\ from = c THEN 1 ELSE 0
           turn == IF hist[c] \in {"handshake", "log"} THEN 1 ELSE 0
<1>1. Circulating(c) + lost[c] = 1 + dup[c] BY DEF PInv, Conserved
<1>2. Circulating(c) = req[c] + fresh[c] + stale[c] + held + turn BY DEF Circulating
<1>3. /\ req[c] \in Nat /\ fresh[c] \in Nat /\ stale[c] \in Nat
      /\ lost[c] \in Nat /\ dup[c] \in Nat
  BY DEF PInv, TypeOK
<1>4. held \in Nat /\ turn \in Nat OBVIOUS
<1>5. turn = 0 => hist[c] = "wait" BY DEF Alive
<1> HIDE DEF held, turn
<1>6. fresh[c] = 0 /\ stale[c] = 0 /\ turn = 0 BY <1>1, <1>2, <1>3, <1>4
<1> QED BY <1>5, <1>6

\* A wait ends with an answer that has arrived, or with the historian.
LEMMA WaitEnds ==
  ASSUME TypeOK, [Next]_vars, NEW c \in Historian, hist[c] = "wait",
         fresh[c] = 0, stale[c] = 0
  PROVE  hist'[c] \in {"wait", "quit"}
<1> USE DEF TypeOK, rtuVars, netVars, Goto
<1>1. CASE UNCHANGED vars BY <1>1 DEF vars
<1>2. ASSUME NEW d \in Historian,
             \/ Start(d) \/ HistorianStep(d) \/ Quit(d)
             \/ RtuReceive(d) \/ RtuReceiveFails(d)
             \/ Lose(d) \/ Refuse(d) \/ Duplicate(d)
      PROVE  hist'[c] \in {"wait", "quit"}
  BY <1>2 DEF Start, HistorianStep, Handshake, Receive, Log, Quit, RtuReceive,
              RtuReceiveFails, Lose, Refuse, Duplicate
<1>3. CASE RtuStart \/ RtuStep \/ Tick \/ RtuExit
  BY <1>3 DEF RtuStart, RtuStep, RtuReply, RtuPeriod, Tick, RtuExit
<1> QED BY <1>1, <1>2, <1>3 DEF Next

\* Who lost more than was sent twice waits, and goes on waiting or quits.
THEOREM TheStarvedWait == Spec => StarvedWaits
<1> DEFINE Stays == \A c \in Historian : Alive(c) /\ lost[c] > dup[c] =>
                      hist[c] = "wait" /\ hist'[c] \in {"wait", "quit"}
<1>1. PInv /\ [Next]_vars => Stays
  <2>1. PInv => TypeOK BY DEF PInv
  <2> QED BY <2>1, StarvedHasNoTurn, WaitEnds
<1> QED BY <1>1, PollInvariance, PTL DEF Spec, StarvedWaits

-----------------------------------------------------------------------------
(* Refinement: what is logged was asked for, unless sent twice             *)

Waiting == {c \in Historian : hist[c] = "wait"}
Served  == {c \in Historian : hist[c] = "wait" /\ fresh[c] > 0}
Tainted == {c \in Historian : dup[c] > 0}
Gone    == {c \in Historian : hist[c] = "quit"}

\* If nothing was sent twice, no answer is outdated, and none is on its way to a
\* historian that does not wait for one.
LEMMA AnswersWanted ==
  ASSUME PInv, NEW c \in Historian, dup[c] = 0
  PROVE  stale[c] = 0 /\ (Alive(c) /\ hist[c] # "wait" => fresh[c] = 0)
<1>2. stale[c] = 0 BY DEF PInv, TypeOK, StaleBounded
<1>3. ASSUME Alive(c), hist[c] # "wait" PROVE fresh[c] = 0
  <2> DEFINE held == IF rtu = "reply" /\ from = c THEN 1 ELSE 0
  <2>1. Circulating(c) + lost[c] = 1 BY <1>3 DEF PInv, TypeOK, Conserved
  <2>2. Circulating(c) = req[c] + fresh[c] + stale[c] + held + 1
    BY <1>3 DEF Circulating, Alive
  <2>3. held \in Nat OBVIOUS
  <2>4. req[c] \in Nat /\ fresh[c] \in Nat /\ stale[c] \in Nat /\ lost[c] \in Nat
    BY DEF PInv, TypeOK
  <2> HIDE DEF held
  <2> QED BY <2>1, <2>2, <2>3, <2>4
<1> QED BY <1>2, <1>3

\* A step that changes none of the sets stutters.
LEMMA FreshStutter ==
  ASSUME Waiting' = Waiting, Served' = Served, Tainted' = Tainted, Gone' = Gone
  PROVE  UNCHANGED Fresh!vars
  BY DEF Fresh!vars, Waiting, Served, Tainted, Gone

LEMMA FreshStep ==
  ASSUME PInv, [Next]_vars
  PROVE  [Fresh!Next]_Fresh!vars
<1> USE DEF PInv, TypeOK, rtuVars, netVars, Goto, More, Less
<1>1. CASE UNCHANGED vars BY <1>1, FreshStutter DEF vars, Waiting, Served, Tainted, Gone
<1>2. ASSUME NEW c \in Historian,
             \/ Start(c) \/ HistorianStep(c) \/ Quit(c)
             \/ RtuReceive(c) \/ RtuReceiveFails(c)
             \/ Lose(c) \/ Refuse(c) \/ Duplicate(c)
      PROVE  [Fresh!Next]_Fresh!vars
  <2>1. CASE Start(c) BY <2>1, FreshStutter DEF Start, Waiting, Served, Tainted, Gone
  <2>2. CASE Handshake(c)
    <3>1. Waiting' = Waiting \union {c} BY <2>2 DEF Handshake, Waiting
    <3>2. Served' = Served BY <2>2 DEF Handshake, Served
    <3>3. c \notin Waiting \union Gone /\ Gone' = Gone /\ Tainted' = Tainted
      BY <2>2 DEF Handshake, Waiting, Tainted, Gone
    <3>4. Fresh!Open(c) BY <3>1, <3>2, <3>3 DEF Fresh!Open, Waiting, Served, Tainted, Gone
    <3> QED BY <3>4 DEF Fresh!Next
  <2>3. CASE Receive(c)
    <3>1. dup[c] = 0 => stale[c] = 0 BY AnswersWanted
    <3>2. c \in Served \/ (c \in Waiting /\ c \in Tainted)
      BY <2>3, <3>1 DEF Receive, Served, Waiting, Tainted
    <3>3. Waiting' = Waiting \ {c} BY <2>3 DEF Receive, Waiting
    <3>4. Served' = Served \ {c} BY <2>3 DEF Receive, Served
    <3>5. Gone' = Gone /\ Tainted' = Tainted BY <2>3 DEF Receive, Tainted, Gone
    <3>6. Fresh!Finish(c)
      BY <3>2, <3>3, <3>4, <3>5 DEF Fresh!Finish, Waiting, Served, Tainted, Gone
    <3> QED BY <3>6 DEF Fresh!Next
  <2>4. CASE Log(c) BY <2>4, FreshStutter DEF Log, Waiting, Served, Tainted, Gone
  <2>5. CASE Quit(c)
    <3>1. Waiting' = Waiting \ {c} BY <2>5 DEF Quit, Waiting
    <3>2. Served' = Served \ {c} BY <2>5 DEF Quit, Served
    <3>3. Gone' = Gone \union {c} /\ Tainted' = Tainted BY <2>5 DEF Quit, Tainted, Gone
    <3>4. Fresh!Leave(c) BY <3>1, <3>2, <3>3 DEF Fresh!Leave, Waiting, Served, Tainted, Gone
    <3> QED BY <3>4 DEF Fresh!Next
  <2>6. CASE RtuReceive(c)
    BY <2>6, FreshStutter DEF RtuReceive, Waiting, Served, Tainted, Gone
  <2>7. CASE Lose(c)
    <3>1. Waiting' = Waiting /\ Gone' = Gone /\ Tainted' = Tainted BY <2>7 DEF Lose, Waiting, Tainted, Gone
    <3>2. Served' = Served \/ Served' = Served \ {c} BY <2>7 DEF Lose, Served
    <3>3. CASE Served' = Served BY <3>1, <3>3, FreshStutter
    <3>4. CASE Served' = Served \ {c}
      <4>1. Fresh!Lose(c) BY <3>1, <3>4 DEF Fresh!Lose, Waiting, Served, Tainted, Gone
      <4> QED BY <4>1 DEF Fresh!Next
    <3> QED BY <3>2, <3>3, <3>4
  <2>8. CASE Refuse(c) BY <2>8, FreshStutter DEF Refuse, Waiting, Served, Tainted, Gone
  <2>9. CASE Duplicate(c)
    <3>1. /\ Waiting' = Waiting /\ Served' = Served /\ Gone' = Gone
          /\ Tainted' = Tainted \union {c}
      BY <2>9 DEF Duplicate, Waiting, Served, Tainted, Gone
    <3>2. Fresh!Taint(c) BY <3>1 DEF Fresh!Taint, Waiting, Served, Tainted, Gone
    <3> QED BY <3>2 DEF Fresh!Next
  <2>10. CASE RtuReceiveFails(c)
    <3>1. Waiting' = Waiting /\ Served' = Served /\ Gone' = Gone
      BY <2>10 DEF RtuReceiveFails, Waiting, Served, Gone
    <3>2. CASE from # Nobody
      <4>1. PICK e \in Historian : e = from BY <3>2
      <4>2. Tainted' = Tainted \union {e}
        BY <2>10, <3>2, <4>1 DEF RtuReceiveFails, Tainted
      <4>3. Fresh!Taint(e)
        BY <3>1, <4>2 DEF Fresh!Taint, Waiting, Served, Tainted, Gone
      <4> QED BY <4>3 DEF Fresh!Next
    <3>3. CASE from = Nobody
      <4>1. Tainted' = Tainted BY <2>10, <3>3 DEF RtuReceiveFails, Tainted
      <4> QED BY <3>1, <4>1, FreshStutter
    <3> QED BY <3>2, <3>3
  <2> QED BY <1>2, <2>1, <2>2, <2>3, <2>4, <2>5, <2>6, <2>7, <2>8, <2>9, <2>10
          DEF HistorianStep
<1>3. CASE RtuReply
  <2>1. PICK c \in Historian : c = from BY <1>3 DEF RtuReply
  <2>2. Waiting' = Waiting /\ Gone' = Gone /\ Tainted' = Tainted BY <1>3 DEF RtuReply, Waiting, Tainted, Gone
  <2>3. CASE c \in Waiting
    <3>1. Served' = Served \union {c}
      BY <1>3, <2>1, <2>3 DEF RtuReply, Waiting, Served
    <3>2. Fresh!Serve(c) BY <2>2, <2>3, <3>1 DEF Fresh!Serve, Waiting, Served, Tainted, Gone
    <3> QED BY <3>2 DEF Fresh!Next
  <2>4. CASE c \notin Waiting
    <3>1. Served' = Served BY <1>3, <2>1, <2>4 DEF RtuReply, Waiting, Served
    <3> QED BY <2>2, <3>1, FreshStutter
  <2> QED BY <2>3, <2>4
<1>4. CASE RtuStart \/ RtuPeriod \/ Tick \/ RtuExit
  BY <1>4, FreshStutter DEF RtuStart, RtuPeriod, Tick, RtuExit, Waiting, Served, Tainted, Gone
<1> QED BY <1>1, <1>2, <1>3, <1>4 DEF Next, RtuStep

\* Polling implements FreshPoll: every answer a historian logs is a snapshot
\* that was taken after it had asked, until it has been sent something twice.
THEOREM RefinesFreshPoll == Spec => ImplementsFreshPoll
<1>1. Init => Fresh!Init BY DEF Init, Zero, Fresh!Init
<1>2. PInv /\ [Next]_vars => [Fresh!Next]_Fresh!vars BY FreshStep
<1> QED BY <1>1, <1>2, PollInvariance, PTL DEF Spec, ImplementsFreshPoll, Fresh!Spec
=============================================================================
