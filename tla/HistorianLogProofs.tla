------------------------- MODULE HistorianLogProofs -------------------------
(***************************************************************************)
(* What holds of HistorianLog for any number of historian processes and    *)
(* viewers, any rtu_ids in the answers and any number of answers.          *)
(***************************************************************************)
EXTENDS HistorianLog, FiniteSetTheorems, SequenceTheorems, TLAPS

USE LogAssumption

-----------------------------------------------------------------------------
(* Operators on logs                                                       *)

LEMMA LinesOfAppend ==
  ASSUME NEW s \in Seq(Line), NEW l \in Line
  PROVE  Append(s, l) \in Seq(Line) /\ Lines(Append(s, l)) = Lines(s) \union {l}
<1>1. Append(s, l) \in Seq(Line) /\ Len(Append(s, l)) = Len(s) + 1 OBVIOUS
<1>2. \A i \in 1..Len(s) : Append(s, l)[i] = s[i] OBVIOUS
<1>3. Append(s, l)[Len(s) + 1] = l OBVIOUS
<1>4. 1..(Len(s) + 1) = (1..Len(s)) \union {Len(s) + 1}
  <2>1. Len(s) \in Nat OBVIOUS
  <2> QED BY <2>1
<1> QED BY <1>1, <1>2, <1>3, <1>4 DEF Lines

LEMMA LinesOfConcat ==
  ASSUME NEW s \in Seq(Line), NEW t \in Seq(Line)
  PROVE  s \o t \in Seq(Line) /\ Lines(s \o t) = Lines(s) \union Lines(t)
<1>1. s \o t \in Seq(Line) /\ Len(s \o t) = Len(s) + Len(t) OBVIOUS
<1>2. \A i \in 1..Len(s) : (s \o t)[i] = s[i] /\ i \in 1..Len(s \o t) OBVIOUS
<1>3. \A i \in 1..Len(t) : (s \o t)[Len(s) + i] = t[i] /\ Len(s) + i \in 1..Len(s \o t)
  OBVIOUS
<1>4. \A k \in 1..Len(s \o t) : k \in 1..Len(s) \/ \E i \in 1..Len(t) : k = Len(s) + i
  <2> SUFFICES ASSUME NEW k \in 1..Len(s \o t), k \notin 1..Len(s)
               PROVE  k - Len(s) \in 1..Len(t) /\ k = Len(s) + (k - Len(s))
    OBVIOUS
  <2>1. Len(s) \in Nat /\ Len(t) \in Nat OBVIOUS
  <2>2. k \in Int /\ 1 <= k /\ k <= Len(s) + Len(t) BY <1>1, <2>1
  <2>3. ~(k <= Len(s)) BY <2>1, <2>2
  <2>4. k - Len(s) \in Int /\ 1 <= k - Len(s) /\ k - Len(s) <= Len(t)
    BY <2>1, <2>2, <2>3
  <2> QED BY <2>1, <2>2, <2>4
<1>5. \A k \in 1..Len(s \o t) : (s \o t)[k] \in Lines(s) \union Lines(t)
  BY <1>2, <1>3, <1>4 DEF Lines
<1>6. Lines(s) \subseteq Lines(s \o t) BY <1>2 DEF Lines
<1>7. Lines(t) \subseteq Lines(s \o t)
  <2> SUFFICES ASSUME NEW i \in 1..Len(t) PROVE t[i] \in Lines(s \o t)
    BY DEF Lines
  <2> DEFINE k == Len(s) + i
  <2>1. (s \o t)[k] = t[i] /\ k \in 1..Len(s \o t) BY <1>3
  <2> HIDE DEF k
  <2> QED BY <2>1 DEF Lines
<1>8. Lines(s \o t) \subseteq Lines(s) \union Lines(t)
  <2> SUFFICES ASSUME NEW k \in 1..Len(s \o t)
               PROVE  (s \o t)[k] \in Lines(s) \union Lines(t)
    BY Zenon DEF Lines
  <2> QED BY <1>5
<1> QED BY <1>1, <1>6, <1>7, <1>8

\* Two logs with no line in common, each line once, make one of the same kind.
LEMMA OnceConcat ==
  ASSUME NEW s \in Seq(Line), NEW t \in Seq(Line), Once(s), Once(t),
         Lines(s) \cap Lines(t) = {}
  PROVE  Once(s \o t)
<1> SUFFICES ASSUME NEW i \in 1..Len(s \o t), NEW j \in 1..Len(s \o t),
                    (s \o t)[i] = (s \o t)[j]
             PROVE  i = j
  BY DEF Once
<1>1. Len(s) \in Nat /\ Len(t) \in Nat /\ Len(s \o t) = Len(s) + Len(t) OBVIOUS
<1>2. \A k \in 1..Len(s) : (s \o t)[k] = s[k] OBVIOUS
<1>3. \A k \in 1..Len(s \o t) : k \notin 1..Len(s) =>
        (s \o t)[k] = t[k - Len(s)] /\ k - Len(s) \in 1..Len(t)
  BY <1>1
<1>4. CASE i \in 1..Len(s) /\ j \in 1..Len(s) BY <1>2, <1>4 DEF Once
<1>5. CASE i \notin 1..Len(s) /\ j \notin 1..Len(s)
  <2>1. i - Len(s) = j - Len(s) BY <1>3, <1>5 DEF Once
  <2> QED BY <1>1, <2>1
<1>8. \A k \in 1..Len(s), l \in 1..Len(t) : s[k] # t[l]
  <2>1. \A k \in 1..Len(s) : s[k] \in Lines(s) BY DEF Lines
  <2>2. \A l \in 1..Len(t) : t[l] \in Lines(t) BY DEF Lines
  <2> QED BY <2>1, <2>2
<1>6. CASE i \in 1..Len(s) /\ j \notin 1..Len(s) BY <1>2, <1>3, <1>6, <1>8
<1>7. CASE i \notin 1..Len(s) /\ j \in 1..Len(s) BY <1>2, <1>3, <1>7, <1>8
<1> QED BY <1>4, <1>5, <1>6, <1>7

\* sort loses no line and makes none up.
LEMMA SortedFacts ==
  ASSUME NEW s \in Seq(Line), NEW t \in Sorted(s)
  PROVE  t \in Seq(Line) /\ Lines(t) = Lines(s) /\ (Once(s) => Once(t))
<1>1. PICK f \in Permutation(Len(s)) : t = [i \in 1..Len(s) |-> s[f[i]]]
  BY DEF Sorted
<1>2. /\ f \in [1..Len(s) -> 1..Len(s)]
      /\ \A k \in 1..Len(s) : \E i \in 1..Len(s) :
           f[i] = k /\ \A j \in 1..Len(s) : f[j] = k => j = i
  BY DEF Permutation
<1>3. Len(s) \in Nat /\ \A i \in 1..Len(s) : s[i] \in Line OBVIOUS
<1>4. t \in [1..Len(s) -> Line] BY <1>1, <1>2, <1>3
<1>5. t \in Seq(Line) /\ Len(t) = Len(s)
  <2>1. t \in Seq(Line) BY <1>3, <1>4, SeqDef
  <2>2. DOMAIN t = 1..Len(t) /\ Len(t) \in Nat BY <2>1, LenProperties
  <2>3. DOMAIN t = 1..Len(s) BY <1>4
  <2>5. \A m, n \in Nat : 1..m = 1..n => m = n
    <3> SUFFICES ASSUME NEW m \in Nat, NEW n \in Nat, 1..m = 1..n, m < n
                 PROVE  FALSE
      BY SMT
    <3>1. n \in 1..n /\ n \notin 1..m OBVIOUS
    <3> QED BY <3>1
  <2>4. Len(t) = Len(s) BY <1>3, <2>2, <2>3, <2>5
  <2> QED BY <2>1, <2>4
<1>6. Lines(t) = Lines(s) BY <1>1, <1>2, <1>5 DEF Lines
<1>7. Once(s) => Once(t)
  <2> SUFFICES ASSUME Once(s), NEW i \in 1..Len(s), NEW j \in 1..Len(s), t[i] = t[j]
               PROVE  i = j
    BY <1>5 DEF Once
  <2>1. s[f[i]] = s[f[j]] /\ f[i] \in 1..Len(s) /\ f[j] \in 1..Len(s)
    BY <1>1, <1>2
  <2>2. f[i] = f[j] BY <2>1 DEF Once
  <2> QED BY <1>2, <2>1, <2>2
<1> QED BY <1>5, <1>6, <1>7

LEMMA WrittenOverFacts ==
  ASSUME NEW file \in Seq(Line), NEW s \in Seq(Line)
  PROVE  /\ WrittenOver(file, s) \in Seq(Line)
         /\ file = <<>> => WrittenOver(file, s) = s
<1>1. CASE Len(file) <= Len(s) BY <1>1 DEF WrittenOver
<1>2. CASE ~(Len(file) <= Len(s))
  <2>1. SubSeq(file, Len(s) + 1, Len(file)) \in Seq(Line)
    <3>1. Len(s) \in Nat /\ Len(file) \in Nat OBVIOUS
    <3> QED BY <3>1
  <2>2. file # <<>> BY <1>2
  <2> QED BY <1>2, <2>1, <2>2 DEF WrittenOver
<1> QED BY <1>1, <1>2

LEMMA IntervalSize ==
  ASSUME NEW k \in Nat PROVE IsFiniteSet(1..k) /\ Cardinality(1..k) = k
<1>1. 1 \in Int /\ k \in Int OBVIOUS
<1>2. IsFiniteSet(1..k) /\ Cardinality(1..k) = IF 1 > k THEN 0 ELSE k-1+1
  BY <1>1, FS_Interval, Zenon
<1> QED BY <1>2

\* As many lines as answers at most, if each line has a time of its own.
LEMMA Pigeonhole ==
  ASSUME NEW s \in Seq(Line), NEW n \in Nat,
         \A i \in 1..Len(s) : s[i].time \in 1..n,
         \A i, j \in 1..Len(s) : s[i].time = s[j].time => i = j
  PROVE  Len(s) <= n
<1> DEFINE f == [i \in 1..Len(s) |-> s[i].time]
<1>1. Len(s) \in Nat OBVIOUS
<1>2. f \in Injection(1..Len(s), 1..n) BY DEF Injection, IsInjective
<1>3. IsFiniteSet(1..n) /\ Cardinality(1..n) = n BY IntervalSize
<1>4. IsFiniteSet(1..Len(s)) /\ Cardinality(1..Len(s)) = Len(s) BY <1>1, IntervalSize
<1>5. Cardinality(1..Len(s)) <= Cardinality(1..n)
  <2> HIDE DEF f
  <2> QED BY <1>2, <1>3, FS_Injection
<1> QED BY <1>3, <1>4, <1>5
-----------------------------------------------------------------------------
(* The logs                                                                *)

\* What Write and Quit do to the logs.
Put(p) == log' = [log EXCEPT ![event[p].rtu_id] = Appended(@, event[p])]

LEMMA PutFacts ==
  ASSUME TypeOK, NEW p \in Process, Put(p), NEW d \in 0..2, d = event[p].rtu_id
  PROVE  /\ log' \in [0..2 -> Seq(Line)]
         /\ Len(log'[d]) = Len(log[d]) + 1 /\ log'[d][Len(log[d]) + 1] = event[p]
         /\ \A i \in 1..Len(log[d]) : log'[d][i] = log[d][i]
         /\ \A id \in (0..2) \ {d} : log'[id] = log[id]
<1>1. event[p] \in Line /\ log[d] \in Seq(Line) BY DEF TypeOK
<1>2. log'[d] = Append(log[d], event[p]) /\ \A id \in (0..2) \ {d} : log'[id] = log[id]
  BY DEF Put, TypeOK, Appended
<1>3. log' \in [0..2 -> Seq(Line)]
  <2>1. Append(log[d], event[p]) \in Seq(Line) BY <1>1
  <2> QED BY <2>1 DEF Put, TypeOK, Appended
<1>4. /\ Len(Append(log[d], event[p])) = Len(log[d]) + 1
      /\ Append(log[d], event[p])[Len(log[d]) + 1] = event[p]
      /\ \A i \in 1..Len(log[d]) : Append(log[d], event[p])[i] = log[d][i]
  BY <1>1
<1> QED BY <1>2, <1>3, <1>4

\* Each line stays where it is.
Grow ==
  \A id \in 0..2 : \A i \in 1..Len(log[id]) :
    i <= Len(log'[id]) /\ log'[id][i] = log[id][i]

\* Only Write, and Quit in the middle of a line, change a log.
LEMMA OnlyPut ==
  ASSUME [Next]_vars
  PROVE  \/ log' = log
         \/ \E p \in Process :
              /\ main[p] = "write" /\ main' \in {[main EXCEPT ![p] = "poll"],
                                                 [main EXCEPT ![p] = "exit"]}
              /\ Put(p) /\ UNCHANGED <<view, event, received, missed, empty, got, base, alone>>
              /\ command' = command \/ Goto(p, "prompt", "closed")
<1> USE DEF mainVars, viewVars
<1>1. CASE UNCHANGED vars BY <1>1 DEF vars
<1>2. ASSUME NEW p \in Process,
             EventLog(p) \/ LogView(p) \/ Quit(p) \/ EndOfInput(p)
      PROVE  \/ log' = log
             \/ /\ main[p] = "write" /\ main' \in {[main EXCEPT ![p] = "poll"],
                                                   [main EXCEPT ![p] = "exit"]}
                /\ Put(p) /\ UNCHANGED <<view, event, received, missed, empty, got, base, alone>>
                /\ command' = command \/ Goto(p, "prompt", "closed")
  <2>1. CASE Write(p) BY <2>1 DEF Write, Put
  <2>2. CASE Quit(p) BY <2>2 DEF Quit, Put
  <2>3. CASE EventLog(p) /\ ~Write(p)
    BY <2>3 DEF EventLog, Receive, Take, Open, Fail
  <2>4. CASE LogView(p) \/ EndOfInput(p)
    BY <2>4 DEF LogView, View, Truncate, Cat1, Cat2, Sort, Show, EndOfInput
  <2> QED BY <1>2, <2>1, <2>2, <2>3, <2>4
<1> QED BY <1>1, <1>2, Zenon DEF Next

LEMMA PutGrows ==
  ASSUME TypeOK, log' = log \/ \E p \in Process : Put(p)
  PROVE  Grow
<1>1. CASE log' = log
  <2>1. \A id \in 0..2 : Len(log[id]) \in Nat BY DEF TypeOK
  <2> QED BY <1>1, <2>1 DEF Grow
<1>2. ASSUME NEW p \in Process, Put(p) PROVE Grow
  <2>1. PICK d \in 0..2 : d = event[p].rtu_id BY DEF TypeOK, Line
  <2>2. \A id \in 0..2 : Len(log[id]) \in Nat BY DEF TypeOK
  <2>3. /\ Len(log'[d]) = Len(log[d]) + 1
        /\ \A i \in 1..Len(log[d]) : log'[d][i] = log[d][i]
        /\ \A id \in (0..2) \ {d} : log'[id] = log[id]
    BY <1>2, <2>1, PutFacts
  <2>4. ASSUME NEW id \in 0..2, NEW i \in 1..Len(log[id])
        PROVE  i <= Len(log'[id]) /\ log'[id][i] = log[id][i]
    <3>1. CASE id = d BY <2>2, <2>3, <3>1
    <3>2. CASE id # d BY <2>2, <2>3, <3>2
    <3> QED BY <3>1, <3>2
  <2> QED BY <2>4 DEF Grow
<1> QED BY <1>1, <1>2

LEMMA GrowStep ==
  ASSUME TypeOK, [Next]_vars
  PROVE  Grow
BY OnlyPut, PutGrows

LEMMA GrowLines ==
  ASSUME TypeOK, [Next]_vars
  PROVE  \A id \in 0..2 : Lines(log[id]) \subseteq Lines(log'[id])
<1>1. Grow BY GrowStep
<1>2. \A id \in 0..2 : Len(log[id]) \in Nat BY DEF TypeOK
<1>3. \A id \in 0..2 : Len(log'[id]) \in Nat
  <2>1. CASE log' = log BY <2>1 DEF TypeOK
  <2>2. ASSUME NEW p \in Process, Put(p) PROVE \A id \in 0..2 : Len(log'[id]) \in Nat
    <3>1. PICK d \in 0..2 : d = event[p].rtu_id BY DEF TypeOK, Line
    <3>2. log' \in [0..2 -> Seq(Line)] BY <2>2, <3>1, PutFacts
    <3> QED BY <3>2
  <2> QED BY <2>1, <2>2, OnlyPut
<1>4. ASSUME NEW id \in 0..2, NEW i \in 1..Len(log[id])
      PROVE  i \in 1..Len(log'[id]) /\ log'[id][i] = log[id][i]
  <2>1. Len(log[id]) \in Nat /\ Len(log'[id]) \in Nat BY <1>2, <1>3
  <2>2. i <= Len(log'[id]) /\ log'[id][i] = log[id][i] BY <1>1, Zenon DEF Grow
  <2> QED BY <2>1, <2>2
<1> QED BY <1>4 DEF Lines
-----------------------------------------------------------------------------
(* Unique                                                                  *)

\* What is not logging leaves the logs and the held answers alone.
LEMMA UniqueKept ==
  ASSUME TypeOK, Unique, UNCHANGED <<log, event, received>>,
         \A p \in Process : Holds(p)' => Holds(p)
  PROVE  Unique'
  BY DEF Unique, Holds

\* An answer moves from its holder to the end of a log.
LEMMA UniquePut ==
  ASSUME TypeOK, Unique, NEW p \in Process, main[p] = "write", Put(p),
         main' \in {[main EXCEPT ![p] = "poll"], [main EXCEPT ![p] = "exit"]},
         UNCHANGED <<event, received>>
  PROVE  Unique'
<1>1. PICK d \in 0..2 : d = event[p].rtu_id BY DEF TypeOK, Line
<1>u. \A id, jd \in 0..2 : \A i \in 1..Len(log[id]), j \in 1..Len(log[jd]) :
        log[id][i].time = log[jd][j].time => id = jd /\ i = j
  BY Zenon DEF Unique
<1> DEFINE n == Len(log[d]) + 1
<1>2. /\ Len(log'[d]) = n /\ log'[d][n] = event[p] /\ n \in Nat
      /\ \A i \in 1..n : i # n => i \in 1..Len(log[d]) /\ log'[d][i] = log[d][i]
      /\ \A id \in (0..2) \ {d} : log'[id] = log[id]
  <2>1. Len(log[d]) \in Nat BY DEF TypeOK
  <2>2. \A i \in 1..n : i # n => i \in 1..Len(log[d]) BY <2>1
  <2>3. /\ Len(log'[d]) = n /\ log'[d][n] = event[p]
        /\ \A i \in 1..Len(log[d]) : log'[d][i] = log[d][i]
        /\ \A id \in (0..2) \ {d} : log'[id] = log[id]
    BY <1>1, PutFacts
  <2>4. n \in Nat BY <2>1
  <2> HIDE DEF n
  <2> QED BY <2>2, <2>3, <2>4
<1>3. ~Holds(p)' /\ Holds(p) /\ \A q \in Process \ {p} : Holds(q)' <=> Holds(q)
  BY DEF Holds, TypeOK
<1> HIDE DEF n
<1>4. ASSUME NEW id \in 0..2, NEW i \in 1..Len(log'[id])
      PROVE  \/ id = d /\ i = n /\ log'[id][i] = event[p]
             \/ ~(id = d /\ i = n) /\ i \in 1..Len(log[id]) /\ log'[id][i] = log[id][i]
  BY <1>2
<1>5. \A id \in 0..2 : \A i \in 1..Len(log[id]) : log[id][i].time # event[p].time
  BY <1>3 DEF Unique
<1>6. ASSUME NEW id \in 0..2, NEW jd \in 0..2,
             NEW i \in 1..Len(log'[id]), NEW j \in 1..Len(log'[jd]),
             log'[id][i].time = log'[jd][j].time
      PROVE  id = jd /\ i = j
  <2> DEFINE l == log'[id][i]
             m == log'[jd][j]
  <2>1. \/ id = d /\ i = n /\ l = event[p]
        \/ ~(id = d /\ i = n) /\ i \in 1..Len(log[id]) /\ l = log[id][i]
    BY <1>4
  <2>2. \/ jd = d /\ j = n /\ m = event[p]
        \/ ~(jd = d /\ j = n) /\ j \in 1..Len(log[jd]) /\ m = log[jd][j]
    BY <1>4
  <2>3. l.time = m.time BY <1>6
  <2> HIDE DEF l, m
  <2>4. CASE ~(id = d /\ i = n) /\ ~(jd = d /\ j = n)
    <3>1. log[id][i].time = log[jd][j].time BY <2>1, <2>2, <2>3, <2>4
    <3>2. i \in 1..Len(log[id]) /\ j \in 1..Len(log[jd]) BY <2>1, <2>2, <2>4
    <3>3. \A x \in 1..Len(log[id]), y \in 1..Len(log[jd]) :
            log[id][x].time = log[jd][y].time => id = jd /\ x = y
      BY <1>u, Zenon
    <3> QED BY <3>1, <3>2, <3>3, Zenon
  <2>5. CASE id = d /\ i = n BY <1>5, <2>1, <2>2, <2>3, <2>5
  <2>6. CASE jd = d /\ j = n BY <1>5, <2>1, <2>2, <2>3, <2>6
  <2> QED BY <2>4, <2>5, <2>6
<1>7. ASSUME NEW id \in 0..2, NEW i \in 1..Len(log'[id])
      PROVE  log'[id][i].rtu_id = id /\ log'[id][i].time \in 1..received'
  <2> DEFINE l == log'[id][i]
  <2>1. \/ id = d /\ i = n /\ l = event[p]
        \/ ~(id = d /\ i = n) /\ i \in 1..Len(log[id]) /\ l = log[id][i]
    BY <1>4
  <2>2. event[p].time \in 1..received BY <1>3 DEF Unique
  <2>3. \A k \in 1..Len(log[id]) : log[id][k].rtu_id = id /\ log[id][k].time \in 1..received
    BY DEF Unique
  <2> HIDE DEF l
  <2>4. l.rtu_id = id /\ l.time \in 1..received BY <1>1, <2>1, <2>2, <2>3
  <2> QED BY <2>4 DEF l
<1>8. ASSUME NEW q \in Process, Holds(q)'
      PROVE  /\ event'[q].time \in 1..received'
             /\ \A id \in 0..2 : \A i \in 1..Len(log'[id]) :
                  log'[id][i].time # event'[q].time
             /\ \A r \in Process \ {q} : Holds(r)' => event'[r].time # event'[q].time
  <2>1. q # p /\ Holds(q) BY <1>3, <1>8
  <2>2. event[p].time # event[q].time BY <1>3, <2>1 DEF Unique
  <2>3. /\ event[q].time \in 1..received
        /\ \A id \in 0..2 : \A i \in 1..Len(log[id]) : log[id][i].time # event[q].time
        /\ \A r \in Process \ {q} : Holds(r) => event[r].time # event[q].time
    BY <2>1 DEF Unique
  <2>4. ASSUME NEW id \in 0..2, NEW i \in 1..Len(log'[id])
        PROVE  log'[id][i].time # event[q].time
    <3>1. CASE log'[id][i] = event[p] BY <2>2, <3>1
    <3>2. CASE i \in 1..Len(log[id]) /\ log'[id][i] = log[id][i] BY <2>3, <3>2
    <3> QED BY <1>4, <3>1, <3>2
  <2>5. ASSUME NEW r \in Process \ {q}, Holds(r)'
        PROVE  event[r].time # event[q].time
    BY <1>3, <2>3, <2>5
  <2> QED BY <2>3, <2>4, <2>5
<1> QED BY <1>6, <1>7, <1>8 DEF Unique

\* An answer that comes has a time that no line has yet.
LEMMA UniqueTake ==
  ASSUME TypeOK, Unique, NEW p \in Process, Receive(p)
  PROVE  Unique'
<1>1. PICK line \in Answer(p) : Take(p, line) BY DEF Receive
<1>2. line.time = received + 1 BY DEF Answer
<1>3. /\ received' = received + 1 /\ received \in Nat /\ log' = log
      /\ event' = [event EXCEPT ![p] = line] /\ main' = [main EXCEPT ![p] = "open"]
  BY <1>1 DEF Take, TypeOK
<1>4. /\ event'[p].time = received + 1
      /\ \A q \in Process \ {p} : event'[q] = event[q] /\ (Holds(q)' <=> Holds(q))
  BY <1>2, <1>3 DEF TypeOK, Holds
<1>5. \A t \in 1..received : t \in 1..received' /\ t # received + 1
  BY <1>3
<1>6. received + 1 \in 1..received' BY <1>3
<1>7. ASSUME NEW q \in Process, Holds(q)'
      PROVE  /\ event'[q].time \in 1..received'
             /\ \A id \in 0..2 : \A i \in 1..Len(log'[id]) :
                  log'[id][i].time # event'[q].time
             /\ \A r \in Process \ {q} : Holds(r)' => event'[r].time # event'[q].time
  <2>1. /\ \A id \in 0..2 : \A i \in 1..Len(log[id]) : log[id][i].time \in 1..received
        /\ \A r \in Process : Holds(r) => event[r].time \in 1..received
    BY DEF Unique
  <2>2. CASE q = p
    <3>1. \A r \in Process \ {q} : Holds(r)' => event'[r].time # event'[q].time
      BY <1>4, <1>5, <2>1, <2>2
    <3>2. event'[q].time \in 1..received' BY <1>4, <1>6, <2>2
    <3>3. ASSUME NEW id \in 0..2, NEW i \in 1..Len(log'[id])
          PROVE  log'[id][i].time # event'[q].time
      <4>1. log'[id][i].time \in 1..received BY <1>3, <2>1
      <4> QED BY <1>4, <1>5, <2>2, <4>1
    <3> QED BY <3>1, <3>2, <3>3
  <2>3. CASE q # p
    <3>1. Holds(q) /\ event'[q] = event[q] BY <1>4, <1>7, <2>3
    <3>2. /\ event[q].time \in 1..received
          /\ \A id \in 0..2 : \A i \in 1..Len(log[id]) : log[id][i].time # event[q].time
          /\ \A r \in Process \ {q} : Holds(r) => event[r].time # event[q].time
      BY <3>1 DEF Unique
    <3>3. ASSUME NEW r \in Process \ {q}, Holds(r)'
          PROVE  event'[r].time # event[q].time
      <4>1. CASE r = p BY <1>4, <1>5, <3>2, <4>1
      <4>2. CASE r # p BY <1>4, <3>2, <3>3, <4>2
      <4> QED BY <4>1, <4>2
    <3> QED BY <1>3, <1>5, <3>1, <3>2, <3>3
  <2> QED BY <2>2, <2>3
<1>8. /\ \A id, jd \in 0..2 : \A i \in 1..Len(log[id]), j \in 1..Len(log[jd]) :
           log[id][i].time = log[jd][j].time => id = jd /\ i = j
      /\ \A id \in 0..2 : \A i \in 1..Len(log[id]) :
           log[id][i].rtu_id = id /\ log[id][i].time \in 1..received'
  BY <1>5 DEF Unique
<1> QED BY <1>3, <1>7, <1>8 DEF Unique

LEMMA UniqueStep ==
  ASSUME TypeOK, Unique, [Next]_vars
  PROVE  Unique'
<1> USE DEF mainVars, viewVars
<1>1. CASE UNCHANGED vars BY <1>1, UniqueKept DEF vars, Holds
<1>2. ASSUME NEW p \in Process,
             EventLog(p) \/ LogView(p) \/ Quit(p) \/ EndOfInput(p)
      PROVE  Unique'
  <2>1. CASE Receive(p) BY <2>1, UniqueTake
  <2>2. CASE Open(p) BY <2>2, UniqueKept DEF Open, Holds, TypeOK
  <2>3. CASE Write(p) BY <2>3, UniquePut DEF Write, Put
  <2>4. CASE Fail(p) BY <2>4, UniqueKept DEF Fail, Holds, TypeOK
  <2>5. CASE Quit(p)
    <3>1. CASE log' = log BY <2>5, <3>1, UniqueKept DEF Quit, Holds, TypeOK
    <3>2. CASE main[p] = "write" /\ Put(p) BY <2>5, <3>2, UniquePut DEF Quit
    <3> QED BY <2>5, <3>1, <3>2 DEF Quit, Put
  <2>6. CASE LogView(p) \/ EndOfInput(p)
    <3>1. UNCHANGED <<log, event, received, main>>
      BY <2>6 DEF LogView, View, Truncate, Cat1, Cat2, Sort, Show, EndOfInput
    <3> QED BY <3>1, UniqueKept DEF Holds
  <2> QED BY <1>2, <2>1, <2>2, <2>3, <2>4, <2>5, <2>6 DEF EventLog
<1> QED BY <1>1, <1>2 DEF Next
-----------------------------------------------------------------------------
(* AnswersAccounted                                                        *)

\* What is put into a log leaves the hands of p, and so does what is missed.
LEMMA LoggedAfterPut ==
  ASSUME TypeOK, NEW p \in Process, Put(p)
  PROVE  Logged' = Logged \union {event[p].time}
<1>1. PICK d \in 0..2 : d = event[p].rtu_id BY DEF TypeOK, Line
<1>2. log[d] \in Seq(Line) /\ event[p] \in Line BY DEF TypeOK
<1>3. log'[d] = Append(log[d], event[p]) /\ \A id \in (0..2) \ {d} : log'[id] = log[id]
  BY <1>1 DEF Put, TypeOK, Appended
<1>4. Lines(Append(log[d], event[p])) = Lines(log[d]) \union {event[p]}
  BY <1>2, LinesOfAppend
<1>5. Lines(log'[d]) = Lines(log[d]) \union {event[p]} BY <1>3, <1>4
<1>6. \A id \in (0..2) \ {d} : Lines(log'[id]) = Lines(log[id]) BY <1>3
<1>7. Logged' = UNION {{l.time : l \in Lines(log'[id])} : id \in 0..2}
  BY DEF Logged, Lines
<1> QED BY <1>5, <1>6, <1>7 DEF Logged

LEMMA HeldAfterLeaving ==
  ASSUME Unique, NEW p \in Process, Holds(p), ~Holds(p)', event' = event,
         \A q \in Process \ {p} : Holds(q)' <=> Holds(q)
  PROVE  Held' = Held \ {event[p].time}
<1>1. \A q \in Process \ {p} : Holds(q) => event[p].time # event[q].time
  BY DEF Unique
<1>2. Held' = {event[q].time : q \in {r \in Process \ {p} : Holds(r)}}
  BY DEF Held
<1>3. Held = {event[q].time : q \in {r \in Process \ {p} : Holds(r)}} \union {event[p].time}
  BY DEF Held
<1> QED BY <1>1, <1>2, <1>3

\* No answer is both held and logged.
LEMMA HeldNotLogged ==
  ASSUME Unique, NEW p \in Process, Holds(p)
  PROVE  event[p].time \in Held /\ event[p].time \notin Logged
<1>1. \A id \in 0..2 : \A i \in 1..Len(log[id]) : log[id][i].time # event[p].time
  BY DEF Unique
<1>2. event[p].time \notin Logged BY <1>1 DEF Logged, Lines
<1> QED BY <1>2 DEF Held

\* An answer goes from its holder to a log, or it is missed.
LEMMA AccountedLeaving ==
  ASSUME TypeOK, Unique, AnswersAccounted, NEW p \in Process, Holds(p), ~Holds(p)',
         \A q \in Process \ {p} : Holds(q)' <=> Holds(q),
         UNCHANGED <<event, received>>,
         \/ Put(p) /\ missed' = missed
         \/ log' = log /\ missed' = missed \union {event[p].time}
  PROVE  AnswersAccounted'
<1> DEFINE t == event[p].time
<1>1. Held' = Held \ {t} BY HeldAfterLeaving
<1>2. t \in Held /\ t \notin Logged BY HeldNotLogged
<1>3. \/ Logged' = Logged \union {t} /\ missed' = missed
      \/ Logged' = Logged /\ missed' = missed \union {t}
  <2>1. CASE Put(p) /\ missed' = missed BY <2>1, LoggedAfterPut
  <2>2. CASE log' = log /\ missed' = missed \union {t} BY <2>2 DEF Logged, Lines
  <2> QED BY <2>1, <2>2
<1>4. received' = received OBVIOUS
<1> HIDE DEF t
<1> QED BY <1>1, <1>2, <1>3, <1>4 DEF AnswersAccounted

LEMMA AccountedKept ==
  ASSUME AnswersAccounted, UNCHANGED <<log, event, received, missed>>,
         \A p \in Process : Holds(p)' <=> Holds(p)
  PROVE  AnswersAccounted'
<1>1. Held' = Held BY DEF Held
<1>2. Logged' = Logged BY DEF Logged, Lines
<1> QED BY <1>1, <1>2 DEF AnswersAccounted

LEMMA AccountedTake ==
  ASSUME TypeOK, AnswersAccounted, NEW p \in Process, Receive(p)
  PROVE  AnswersAccounted'
<1>1. PICK line \in Answer(p) : Take(p, line) BY DEF Receive
<1>2. line.time = received + 1 BY DEF Answer
<1>3. /\ main[p] = "poll" /\ received' = received + 1 /\ received \in Nat
      /\ log' = log /\ missed' = missed
      /\ event' = [event EXCEPT ![p] = line] /\ main' = [main EXCEPT ![p] = "open"]
  BY <1>1 DEF Take, TypeOK
<1>4. /\ event'[p].time = received + 1 /\ Holds(p)' /\ ~Holds(p)
      /\ \A q \in Process \ {p} : event'[q] = event[q] /\ (Holds(q)' <=> Holds(q))
  BY <1>2, <1>3 DEF TypeOK, Holds
<1>5. Held' = Held \union {received + 1} BY <1>4 DEF Held
<1>6. Logged' = Logged BY <1>3 DEF Logged, Lines
<1>7. 1..received' = (1..received) \union {received + 1} /\ received + 1 \notin 1..received
  BY <1>3
<1> QED BY <1>3, <1>5, <1>6, <1>7 DEF AnswersAccounted

LEMMA AccountedStep ==
  ASSUME TypeOK, Unique, AnswersAccounted, [Next]_vars
  PROVE  AnswersAccounted'
<1> USE DEF mainVars, viewVars
<1>1. CASE UNCHANGED vars BY <1>1, AccountedKept DEF vars, Holds
<1>2. ASSUME NEW p \in Process,
             EventLog(p) \/ LogView(p) \/ Quit(p) \/ EndOfInput(p)
      PROVE  AnswersAccounted'
  <2>1. CASE Receive(p) BY <2>1, AccountedTake
  <2>2. CASE Open(p)
    <3>1. CASE main' = [main EXCEPT ![p] = "write"]
      <4>1. UNCHANGED <<log, event, received>> /\ main[p] = "open" BY <2>2 DEF Open
      <4>2. \A q \in Process : Holds(q)' <=> Holds(q) BY <3>1, <4>1 DEF Holds, TypeOK
      <4>3. missed' = missed BY <2>2, <3>1 DEF Open, TypeOK
      <4> QED BY <4>1, <4>2, <4>3, AccountedKept
    <3>2. CASE /\ main' = [main EXCEPT ![p] = "poll"]
               /\ missed' = missed \union {event[p].time}
      BY <2>2, <3>2, AccountedLeaving DEF Open, Holds, TypeOK
    <3> QED BY <2>2, <3>1, <3>2 DEF Open
  <2>3. CASE Write(p) BY <2>3, AccountedLeaving DEF Write, Put, Holds, TypeOK
  <2>4. CASE Fail(p) BY <2>4, AccountedKept DEF Fail, Holds, TypeOK
  <2>5. CASE Quit(p)
    <3>1. /\ main' = [main EXCEPT ![p] = "exit"] /\ UNCHANGED <<event, received>>
          /\ \/ main[p] = "write" /\ Put(p) /\ missed' = missed
             \/ /\ missed' = IF Holds(p) THEN missed \union {event[p].time} ELSE missed
                /\ log' = log
      BY <2>5 DEF Quit, Put
    <3>2. ~Holds(p)' /\ \A q \in Process \ {p} : Holds(q)' <=> Holds(q)
      BY <3>1 DEF Holds, TypeOK
    <3>3. CASE Holds(p)
      <4>1. \/ Put(p) /\ missed' = missed
            \/ log' = log /\ missed' = missed \union {event[p].time}
        BY <3>1, <3>3
      <4> QED BY <3>1, <3>2, <3>3, <4>1, AccountedLeaving
    <3>4. CASE ~Holds(p)
      <4>1. log' = log /\ missed' = missed BY <3>1, <3>4 DEF Holds
      <4> QED BY <3>1, <3>2, <3>4, <4>1, AccountedKept
    <3> QED BY <3>3, <3>4
  <2>6. CASE LogView(p) \/ EndOfInput(p)
    <3>1. UNCHANGED <<log, event, received, missed, main>>
      BY <2>6 DEF LogView, View, Truncate, Cat1, Cat2, Sort, Show, EndOfInput
    <3> QED BY <3>1, AccountedKept DEF Holds
  <2> QED BY <1>2, <2>1, <2>2, <2>3, <2>4, <2>5, <2>6 DEF EventLog
<1> QED BY <1>1, <1>2 DEF Next
-----------------------------------------------------------------------------
(* Sequenced                                                               *)

LEMMA SequencedKept ==
  ASSUME Sequenced, UNCHANGED <<log, event>>, \A p \in Process : Holds(p)' => Holds(p)
  PROVE  Sequenced'
  BY DEF Sequenced, LoggedInOrder, InTurn, Sole, Holds

\* What comes now is later than all that was logged.
LEMMA SequencedTake ==
  ASSUME TypeOK, Unique, Sequenced, NEW p \in Process, Receive(p)
  PROVE  Sequenced'
<1>1. PICK line \in Answer(p) : Take(p, line) BY DEF Receive
<1>2. line.time = received + 1 /\ line.rtu_id = IdOf[p] BY DEF Answer
<1>3. /\ received \in Nat /\ log' = log
      /\ event' = [event EXCEPT ![p] = line] /\ main' = [main EXCEPT ![p] = "open"]
  BY <1>1 DEF Take, TypeOK
<1>4. /\ event'[p].time = received + 1 /\ event'[p].rtu_id = IdOf[p]
      /\ \A q \in Process \ {p} : event'[q] = event[q] /\ (Holds(q)' <=> Holds(q))
  BY <1>2, <1>3 DEF TypeOK, Holds
<1>5. \A id \in 0..2 : \A i \in 1..Len(log[id]) : log[id][i].time < received + 1
  <2>1. \A id \in 0..2 : \A i \in 1..Len(log[id]) : log[id][i].time \in 1..received
    BY DEF Unique
  <2>2. \A t \in 1..received : t < received + 1 BY <1>3
  <2> QED BY <2>1, <2>2
<1>6. LoggedInOrder' BY <1>3 DEF Sequenced, LoggedInOrder, Sole
<1>7. InTurn(p)'
  <2>1. IdOf[p] \in 0..2 BY DEF LogAssumption
  <2> QED BY <1>3, <1>4, <1>5, <2>1 DEF InTurn
<1>8. ASSUME NEW q \in Process, q # p PROVE InTurn(q)'
  BY <1>3, <1>4, <1>8 DEF Sequenced, InTurn, Sole
<1> QED BY <1>6, <1>7, <1>8 DEF Sequenced

\* The line that is written comes after all of its log, and nobody else's turn
\* is in that log.
LEMMA SequencedPut ==
  ASSUME TypeOK, Sequenced, NEW p \in Process, main[p] = "write", Put(p),
         main' \in {[main EXCEPT ![p] = "poll"], [main EXCEPT ![p] = "exit"]},
         UNCHANGED event
  PROVE  Sequenced'
<1>1. PICK d \in 0..2 : d = event[p].rtu_id BY DEF TypeOK, Line
<1> DEFINE n == Len(log[d]) + 1
<1>2. /\ Len(log'[d]) = n /\ log'[d][n] = event[p]
      /\ \A i \in 1..Len(log[d]) : log'[d][i] = log[d][i]
      /\ \A id \in (0..2) \ {d} : log'[id] = log[id]
  BY <1>1, PutFacts
<1>3. Len(log[d]) \in Nat BY DEF TypeOK
<1>4. ~Holds(p)' /\ Holds(p) /\ \A q \in Process \ {p} : Holds(q)' <=> Holds(q)
  BY DEF Holds, TypeOK
<1>5. d = IdOf[p] /\ (Sole(d) => \A i \in 1..Len(log[d]) : log[d][i].time < event[p].time)
  BY <1>1, <1>4 DEF Sequenced, InTurn
<1>6. ASSUME NEW id \in 0..2, Sole(id),
             NEW i \in 1..Len(log'[id]), NEW j \in 1..Len(log'[id]), i < j
      PROVE  log'[id][i].time < log'[id][j].time
  <2>1. \A k, m \in 1..Len(log[id]) : k < m => log[id][k].time < log[id][m].time
    BY <1>6 DEF Sequenced, LoggedInOrder
  <2>2. CASE id # d BY <1>2, <1>6, <2>1, <2>2
  <2>3. CASE id = d
    <3>1. i \in 1..n /\ j \in 1..n BY <1>2, <2>3
    <3>2. i \in 1..Len(log[d]) BY <1>3, <1>6, <3>1
    <3>3. CASE j = n BY <1>2, <1>5, <1>6, <2>3, <3>2, <3>3
    <3>4. CASE j # n
      <4>1. j \in 1..Len(log[d]) BY <1>3, <3>1, <3>4
      <4> QED BY <1>2, <1>6, <2>1, <2>3, <3>2, <4>1
    <3> QED BY <3>3, <3>4
  <2> QED BY <2>2, <2>3
<1>7. ASSUME NEW q \in Process PROVE InTurn(q)'
  <2>1. CASE ~Holds(q)' BY <2>1 DEF InTurn
  <2>2. CASE Holds(q)'
    <3>1. q # p /\ Holds(q) /\ InTurn(q) /\ IdOf[q] \in 0..2
      BY <1>4, <2>2 DEF Sequenced, LogAssumption
    <3>2. Sole(IdOf[q]) => IdOf[q] # d BY <1>5, <3>1 DEF Sole
    <3>3. Sole(IdOf[q]) => log'[IdOf[q]] = log[IdOf[q]] BY <1>2, <3>1, <3>2
    <3>4. Sole(IdOf[q])' <=> Sole(IdOf[q]) BY DEF Sole
    <3> QED BY <3>1, <3>3, <3>4 DEF InTurn
  <2> QED BY <2>1, <2>2
<1> QED BY <1>6, <1>7 DEF Sequenced, LoggedInOrder, Sole

LEMMA SequencedStep ==
  ASSUME TypeOK, Unique, Sequenced, [Next]_vars
  PROVE  Sequenced'
<1> USE DEF mainVars, viewVars
<1>1. CASE UNCHANGED vars BY <1>1, SequencedKept DEF vars, Holds
<1>2. ASSUME NEW p \in Process,
             EventLog(p) \/ LogView(p) \/ Quit(p) \/ EndOfInput(p)
      PROVE  Sequenced'
  <2>1. CASE Receive(p) BY <2>1, SequencedTake
  <2>2. CASE Open(p) BY <2>2, SequencedKept DEF Open, Holds, TypeOK
  <2>3. CASE Write(p) BY <2>3, SequencedPut DEF Write, Put
  <2>4. CASE Fail(p) BY <2>4, SequencedKept DEF Fail, Holds, TypeOK
  <2>5. CASE Quit(p)
    <3>1. CASE log' = log BY <2>5, <3>1, SequencedKept DEF Quit, Holds, TypeOK
    <3>2. CASE main[p] = "write" /\ Put(p) BY <2>5, <3>2, SequencedPut DEF Quit
    <3> QED BY <2>5, <3>1, <3>2 DEF Quit, Put
  <2>6. CASE LogView(p) \/ EndOfInput(p)
    <3>1. UNCHANGED <<log, event, main>>
      BY <2>6 DEF LogView, View, Truncate, Cat1, Cat2, Sort, Show, EndOfInput
    <3> QED BY <3>1, SequencedKept DEF Holds
  <2> QED BY <1>2, <2>1, <2>2, <2>3, <2>4, <2>5, <2>6 DEF EventLog
<1> QED BY <1>1, <1>2 DEF Next
-----------------------------------------------------------------------------
(* Reading                                                                 *)

\* A log has each of its lines once, and the lines of base it has to have.
LEMMA LogFacts ==
  ASSUME TypeOK, Unique, NEW id \in 0..2
  PROVE  /\ log[id] \in Seq(Line) /\ Once(log[id])
         /\ \A l \in Lines(log[id]) : l.rtu_id = id
         /\ \A p \in Process : base[p] \subseteq UNION {Lines(log[jd]) : jd \in 0..2}
              => OfId(p, id) \subseteq Lines(log[id])
<1>1. log[id] \in Seq(Line) BY DEF TypeOK
<1>2. Once(log[id]) BY DEF Once, Unique
<1>3. \A jd \in 0..2 : \A l \in Lines(log[jd]) : l.rtu_id = jd BY DEF Unique, Lines
<1>4. ASSUME NEW p \in Process, base[p] \subseteq UNION {Lines(log[jd]) : jd \in 0..2}
      PROVE  OfId(p, id) \subseteq Lines(log[id])
  BY <1>3, <1>4 DEF OfId
<1> QED BY <1>1, <1>2, <1>3, <1>4

\* The logs may grow: what a command has read stays right.
LEMMA ReadKept ==
  ASSUME NEW q \in Process, ReadBy(q),
         \A id \in 0..2 : Lines(log[id]) \subseteq Lines(log'[id]),
         base'[q] = base[q], got'[q] = got[q],
         \/ command'[q] = command[q]
         \/ command[q] = "prompt" /\ command'[q] = "closed"
         \/ command[q] = "sort" /\ command'[q] = "show"
  PROVE  ReadBy(q)'
<1>1. UNION {Lines(log[id]) : id \in 0..2} \subseteq UNION {Lines(log'[id]) : id \in 0..2}
  OBVIOUS
<1>2. Lines(got[q])' = Lines(got[q]) BY DEF Lines
<1>3. Once(got[q])' = Once(got[q]) BY DEF Once
<1>4. \A id \in {1, 2} : OfId(q, id)' = OfId(q, id) BY DEF OfId
<1>5. base[q]' \subseteq UNION {Lines(log'[id]) : id \in 0..2} BY <1>1 DEF ReadBy
<1>6. Lines(log[1]) \subseteq Lines(log'[1]) /\ Lines(log[2]) \subseteq Lines(log'[2])
  OBVIOUS
<1> QED BY <1>2, <1>3, <1>4, <1>5, <1>6 DEF ReadBy

LEMMA ReadStep ==
  ASSUME TypeOK, Unique, Reading, NEW p \in Process,
         View(p) \/ Cat1(p) \/ Cat2(p) \/ Show(p)
  PROVE  ReadBy(p)'
<1>0. ReadBy(p) /\ log' = log
  BY DEF Reading, View, Cat1, Cat2, Show
<1>a. \A id \in 0..2 : Once(log[id]) /\ \A l \in Lines(log[id]) : l.rtu_id = id
  BY LogFacts
<1>b. \A id \in 0..2 : OfId(p, id) \subseteq Lines(log[id])
  BY <1>0, LogFacts DEF ReadBy
<1> USE DEF mainVars, TypeOK
<1>1. CASE View(p)
  <2>1. /\ got'[p] = <<>> /\ base'[p] = UNION {Lines(log[id]) : id \in 0..2}
        /\ command'[p] = "cat1" /\ p \in Viewer
    BY <1>1 DEF View, Goto
  <2> QED BY <1>0, <2>1 DEF ReadBy
<1>2. CASE Cat1(p)
  <2>1. got[p] = <<>> /\ log[1] \in Seq(Line) BY <1>0, <1>2 DEF Cat1, Goto, ReadBy
  <2>2. got'[p] = log[1] BY <1>2, <2>1 DEF Cat1, WithFirst
  <2>3. base'[p] = base[p] /\ command'[p] = "cat2" /\ p \in Viewer
    BY <1>0, <1>2 DEF Cat1, Goto, ReadBy
  <2>4. Once(log[1]) /\ OfId(p, 1) \subseteq Lines(log[1])
    BY <1>a, <1>b
  <2> HIDE DEF TypeOK
  <2> QED BY <1>0, <2>2, <2>3, <2>4 DEF ReadBy, OfId
<1>3. CASE Cat2(p)
  <2>1. got[p] \in Seq(Line) /\ log[2] \in Seq(Line) OBVIOUS
  <2>2. got'[p] = got[p] \o log[2] /\ command[p] = "cat2" /\ command'[p] = "sort"
    BY <1>3 DEF Cat2, Goto, WithSecond
  <2>3. base'[p] = base[p] /\ p \in Viewer BY <1>0, <1>3 DEF Cat2, Goto, ReadBy
  <2>4. Once(log[2]) /\ OfId(p, 2) \subseteq Lines(log[2])
    BY <1>a, <1>b
  <2>5. /\ Once(got[p]) /\ OfId(p, 1) \subseteq Lines(got[p])
        /\ Lines(got[p]) \subseteq Lines(log[1])
    BY <1>0, <2>2 DEF ReadBy
  <2>6. Lines(log[1]) \cap Lines(log[2]) = {}
    <3> HIDE DEF TypeOK
    <3>1. \A l \in Lines(log[1]) : l.rtu_id = 1 BY <1>a
    <3>2. \A l \in Lines(log[2]) : l.rtu_id = 2 BY <1>a
    <3> QED
      <4> SUFFICES ASSUME NEW l \in Lines(log[1]), l \in Lines(log[2]) PROVE FALSE
        OBVIOUS
      <4> QED BY <3>1, <3>2
  <2> HIDE DEF TypeOK
  <2>7. Once(got[p] \o log[2]) BY <2>1, <2>4, <2>5, <2>6, OnceConcat
  <2>8. Lines(got[p] \o log[2]) = Lines(got[p]) \union Lines(log[2])
    BY <2>1, LinesOfConcat
  <2>9. OfId(p, 1)' = OfId(p, 1) /\ OfId(p, 2)' = OfId(p, 2) BY <2>3 DEF OfId
  <2>10. Once(got[p])' /\ Lines(got[p])' = Lines(got[p]) \union Lines(log[2])
    BY <2>2, <2>7, <2>8
  <2>11. base[p]' \subseteq UNION {Lines(log[id])' : id \in 0..2}
    BY <1>0, <2>3 DEF ReadBy
  <2> QED BY <1>0, <2>2, <2>3, <2>4, <2>5, <2>9, <2>10, <2>11 DEF ReadBy
<1>4. CASE Show(p)
  <2>1. got'[p] = <<>> /\ base'[p] = {} /\ command'[p] = "prompt"
    BY <1>4 DEF Show, Goto
  <2> QED BY <2>1 DEF ReadBy
<1> QED BY <1>1, <1>2, <1>3, <1>4

LEMMA ReadingStep ==
  ASSUME TypeOK, Unique, Reading, [Next]_vars
  PROVE  Reading'
<1> SUFFICES ASSUME NEW q \in Process PROVE ReadBy(q)'
  BY DEF Reading
<1>0. ReadBy(q) /\ \A id \in 0..2 : Lines(log[id]) \subseteq Lines(log'[id])
  BY GrowLines DEF Reading
<1> USE DEF mainVars, viewVars
<1>1. CASE UNCHANGED vars BY <1>0, <1>1, ReadKept DEF vars
<1>2. ASSUME NEW p \in Process,
             EventLog(p) \/ LogView(p) \/ Quit(p) \/ EndOfInput(p)
      PROVE  ReadBy(q)'
  <2>1. CASE p = q /\ (View(p) \/ Cat1(p) \/ Cat2(p) \/ Show(p))
    BY <2>1, ReadStep
  <2>2. CASE p # q /\ (View(p) \/ Cat1(p) \/ Cat2(p) \/ Show(p))
    <3>1. base'[q] = base[q] /\ got'[q] = got[q] /\ command'[q] = command[q]
      BY <2>2 DEF View, Cat1, Cat2, Show, Goto, TypeOK
    <3> QED BY <1>0, <3>1, ReadKept
  <2>3. CASE EventLog(p) \/ Quit(p) \/ EndOfInput(p) \/ Truncate(p) \/ Sort(p)
    <3>1. base' = base /\ got' = got
      BY <2>3 DEF EventLog, Receive, Take, Open, Write, Fail, Quit, EndOfInput,
                  Truncate, Sort
    <3>2. \/ command'[q] = command[q]
          \/ command[q] = "prompt" /\ command'[q] = "closed"
          \/ command[q] = "sort" /\ command'[q] = "show"
      BY <2>3 DEF EventLog, Receive, Take, Open, Write, Fail, Quit, EndOfInput,
                  Truncate, Sort, Goto, TypeOK
    <3> QED BY <1>0, <3>1, <3>2, ReadKept
  <2> QED BY <1>2, <2>1, <2>2, <2>3 DEF LogView
<1> QED BY <1>1, <1>2 DEF Next
-----------------------------------------------------------------------------
(* TypeOK                                                                  *)

\* Lines of the logs, each once, are as many as the answers at most.
LEMMA ReadLength ==
  ASSUME TypeOK, Unique, NEW s \in Seq(Line), Once(s),
         Lines(s) \subseteq Lines(log[1]) \union Lines(log[2])
  PROVE  Len(s) <= received
<1>1. received \in Nat BY DEF TypeOK
<1>2. ASSUME NEW i \in 1..Len(s)
      PROVE  \E id \in 0..2 : \E k \in 1..Len(log[id]) : s[i] = log[id][k]
  <2>1. s[i] \in Lines(s) BY DEF Lines
  <2>2. PICK id \in {1, 2} : s[i] \in Lines(log[id]) BY <2>1
  <2>3. \E k \in 1..Len(log[id]) : s[i] = log[id][k] BY <2>2 DEF Lines
  <2> QED BY <2>3
<1>3. ASSUME NEW i \in 1..Len(s) PROVE s[i].time \in 1..received
  <2>1. PICK id \in 0..2 : \E k \in 1..Len(log[id]) : s[i] = log[id][k] BY <1>2
  <2>2. PICK k \in 1..Len(log[id]) : s[i] = log[id][k] BY <2>1
  <2>3. \A d \in 0..2 : \A x \in 1..Len(log[d]) : log[d][x].time \in 1..received
    BY Zenon DEF Unique
  <2> QED BY <2>2, <2>3, Zenon
<1>4. ASSUME NEW i \in 1..Len(s), NEW j \in 1..Len(s), s[i].time = s[j].time
      PROVE  i = j
  <2>1. PICK id \in 0..2 : \E k \in 1..Len(log[id]) : s[i] = log[id][k] BY <1>2
  <2>2. PICK k \in 1..Len(log[id]) : s[i] = log[id][k] BY <2>1
  <2>3. PICK jd \in 0..2 : \E m \in 1..Len(log[jd]) : s[j] = log[jd][m] BY <1>2
  <2>4. PICK m \in 1..Len(log[jd]) : s[j] = log[jd][m] BY <2>3
  <2>5. id = jd /\ k = m
    <3> DEFINE l == log[id][k]
               o == log[jd][m]
    <3>1. l.time = o.time
      <4>1. s[i] = l /\ s[j] = o BY <2>2, <2>4
      <4> HIDE DEF l, o
      <4> QED BY <1>4, <4>1
    <3>2. \A c, d \in 0..2 : \A x \in 1..Len(log[c]), y \in 1..Len(log[d]) :
            log[c][x].time = log[d][y].time => c = d /\ x = y
      BY Zenon DEF Unique
    <3> QED BY <3>1, <3>2, Zenon
  <2>6. s[i] = s[j] BY <2>2, <2>4, <2>5
  <2> QED BY <2>6 DEF Once
<1> QED BY <1>1, <1>3, <1>4, Pigeonhole

\* A step of the main thread of p, or the command q, whatever the answers say.
MainStep(p) ==
  (\E line \in Line : Take(p, line)) \/ Open(p) \/ Write(p) \/ Quit(p) \/ Fail(p)

LEMMA MainGrowStep ==
  ASSUME TypeOK, NEW p \in Process, MainStep(p)
  PROVE  Grow
<1>1. log' = log \/ Put(p) BY DEF MainStep, Take, Open, Write, Quit, Fail, Put
<1> QED BY <1>1, PutGrows

LEMMA MainTypeStep ==
  ASSUME TypeOK, NEW p \in Process, MainStep(p)
  PROVE  TypeOK'
<1> USE DEF mainVars, viewVars
<1>1. ASSUME NEW line \in Line, Take(p, line) PROVE TypeOK'
  <2>1. received + 1 \in 0..MaxEvents /\ received \in Nat
    BY <1>1 DEF Take, TypeOK
  <2>2. ASSUME NEW q \in Process PROVE Len(got[q]) <= received + 1
    <3>1. Len(got[q]) \in Nat /\ Len(got[q]) <= received BY DEF TypeOK
    <3> QED BY <2>1, <3>1
  <2> QED BY <1>1, <2>1, <2>2 DEF Take, TypeOK
<1>t. event[p].time \in 0..MaxEvents BY DEF TypeOK, Line
<1>2. CASE Open(p) BY <1>2, <1>t DEF Open, TypeOK
<1>3. ASSUME Put(p), UNCHANGED <<view, event, received, missed, empty, got, base, alone>>,
             main' \in {[main EXCEPT ![p] = "poll"], [main EXCEPT ![p] = "exit"]},
             command' = command \/ Goto(p, "prompt", "closed")
      PROVE  TypeOK'
  <2>1. PICK d \in 0..2 : d = event[p].rtu_id BY DEF TypeOK, Line
  <2>2. log' \in [0..2 -> Seq(Line)] BY <1>3, <2>1, PutFacts
  <2>3. main' \in [Process -> {"poll", "open", "write", "exit"}] BY <1>3 DEF TypeOK
  <2>4. command' \in [Process -> {"prompt", "cat1", "cat2", "sort", "show", "closed"}]
    BY <1>3 DEF TypeOK, Goto
  <2> QED BY <1>3, <2>2, <2>3, <2>4 DEF TypeOK
<1>4. CASE Write(p) BY <1>3, <1>4 DEF Write, Put
<1>5. CASE Quit(p)
  <2>1. CASE log' = log BY <1>5, <1>t, <2>1 DEF Quit, Goto, TypeOK
  <2> QED BY <1>3, <1>5, <2>1 DEF Quit, Put
<1>6. CASE Fail(p)
  <2>1. /\ main' = [main EXCEPT ![p] = "exit"]
        /\ command' = [command EXCEPT ![p] = IF @ = "prompt" THEN "closed" ELSE @]
        /\ UNCHANGED <<log, view, event, received, missed, empty, got, base, alone>>
    BY <1>6 DEF Fail
  <2> QED BY <2>1 DEF TypeOK
<1> QED BY <1>1, <1>2, <1>4, <1>5, <1>6 DEF MainStep

LEMMA TypeStep ==
  ASSUME TypeOK, Unique, Reading, [Next]_vars
  PROVE  TypeOK'
<1> USE DEF mainVars, viewVars
<1>1. CASE UNCHANGED vars BY <1>1 DEF vars, TypeOK
<1>2. ASSUME NEW p \in Process,
             EventLog(p) \/ LogView(p) \/ Quit(p) \/ EndOfInput(p)
      PROVE  TypeOK'
  <2>1. CASE EventLog(p) \/ Quit(p)
    <3>1. ASSUME NEW line \in Answer(p), Take(p, line) PROVE line \in Line
      <4>1. received + 1 \in 0..MaxEvents BY <3>1 DEF Take, TypeOK
      <4> QED BY <4>1 DEF Answer, Line
    <3>2. MainStep(p) BY <2>1, <3>1 DEF EventLog, Receive, MainStep
    <3> QED BY <3>2, MainTypeStep
  <2>2. CASE EndOfInput(p) BY <2>2 DEF EndOfInput, Goto, TypeOK
  <2>3. CASE View(p)
    <3>1. <<>> \in Seq(Line) /\ Len(<<>>) = 0 OBVIOUS
    <3>2. UNION {Lines(log[id]) : id \in 0..2} \subseteq Line
      BY DEF TypeOK, Lines
    <3>3. (IF Merging = {} THEN {p} ELSE {}) \subseteq Viewer BY <2>3 DEF View
    <3>4. /\ p \in Viewer /\ got' = [got EXCEPT ![p] = <<>>] /\ empty' = empty \ {p}
          /\ base' = [base EXCEPT ![p] = UNION {Lines(log[id]) : id \in 0..2}]
          /\ alone' \subseteq Viewer /\ UNCHANGED <<log, view, main, event, received, missed>>
          /\ command' = [command EXCEPT ![p] = "cat1"]
      BY <2>3, <3>3 DEF View, Goto
    <3>5. \A q \in Process : Len(got'[q]) <= received
      BY <3>1, <3>4 DEF TypeOK
    <3>6. got' \in [Process -> Seq(Line)] /\ base' \in [Process -> SUBSET Line]
      BY <3>1, <3>2, <3>4 DEF TypeOK
    <3> QED BY <3>4, <3>5, <3>6 DEF TypeOK
  <2>4. CASE Truncate(p)
    <3>1. <<>> \in Seq(Line) OBVIOUS
    <3>2. p \in Viewer BY <2>4 DEF Truncate, Reading, ReadBy
    <3> QED BY <2>4, <3>1, <3>2 DEF Truncate, TypeOK
  <2>5. CASE Cat1(p) \/ Cat2(p)
    <3>1. ReadBy(p)' BY <2>5, ReadStep
    <3>2. /\ \E s \in Seq(Line) : got' = [got EXCEPT ![p] = s]
          /\ \E to \in {"cat2", "sort"} : command' = [command EXCEPT ![p] = to]
          /\ UNCHANGED <<log, view, main, event, received, missed, empty, base, alone>>
      <4>1. got[p] \in Seq(Line) /\ log[1] \in Seq(Line) /\ log[2] \in Seq(Line)
        BY DEF TypeOK
      <4>2. got[p] \o log[1] \in Seq(Line) /\ got[p] \o log[2] \in Seq(Line)
        BY <4>1, LinesOfConcat
      <4> QED BY <2>5, <4>2 DEF Cat1, Cat2, WithFirst, WithSecond, Goto
    <3>3. PICK s \in Seq(Line) : got' = [got EXCEPT ![p] = s] BY <3>2
    <3>4. got'[p] = s /\ command'[p] \in {"cat2", "sort"} BY <3>2, <3>3 DEF TypeOK
    <3>5. Lines(got[p])' = Lines(s) /\ Once(got[p])' = Once(s)
          /\ Lines(log[1])' = Lines(log[1]) /\ Lines(log[2])' = Lines(log[2])
      BY <3>2, <3>4 DEF Lines, Once
    <3>6. Once(s) /\ Lines(s) \subseteq Lines(log[1]) \union Lines(log[2])
      BY <3>1, <3>4, <3>5 DEF ReadBy
    <3>7. Len(s) <= received BY <3>6, ReadLength
    <3>8. \A q \in Process : Len(got'[q]) <= received BY <3>3, <3>7 DEF TypeOK
    <3>9. got' \in [Process -> Seq(Line)] BY <3>3 DEF TypeOK
    <3>10. command' \in [Process -> {"prompt", "cat1", "cat2", "sort", "show", "closed"}]
      BY <3>2 DEF TypeOK
    <3> QED BY <3>2, <3>8, <3>9, <3>10 DEF TypeOK
  <2>6. CASE Sort(p)
    <3>1. PICK s \in Sorted(got[p]) : view' = WrittenOver(view, s) BY <2>6 DEF Sort
    <3>2. view \in Seq(Line) /\ got[p] \in Seq(Line) BY DEF TypeOK
    <3>3. view' \in Seq(Line) BY <3>1, <3>2, SortedFacts, WrittenOverFacts
    <3> QED BY <2>6, <3>3 DEF Sort, Goto, TypeOK
  <2>7. CASE Show(p)
    <3>1. <<>> \in Seq(Line) /\ Len(<<>>) = 0 OBVIOUS
    <3>2. \A q \in Process : Len(got'[q]) <= received
      BY <2>7, <3>1 DEF Show, TypeOK
    <3>3. got' \in [Process -> Seq(Line)] BY <2>7, <3>1 DEF Show, TypeOK
    <3> QED BY <2>7, <3>2, <3>3 DEF Show, Goto, TypeOK
  <2> QED BY <1>2, <2>1, <2>2, <2>3, <2>4, <2>5, <2>6, <2>7 DEF LogView
<1> QED BY <1>1, <1>2 DEF Next

-----------------------------------------------------------------------------
(* Alone                                                                   *)

\* What a step of another process than the one alone, or of its main thread,
\* leaves as it was.
AloneKept(q) ==
  /\ command'[q] = command[q] /\ (q \in empty' <=> q \in empty)
  /\ got'[q] = got[q] /\ view' = view /\ Merging' \subseteq Merging

LEMMA AloneStep ==
  ASSUME TypeOK, Reading, Alone, [Next]_vars
  PROVE  Alone'
<1> USE DEF mainVars, viewVars
<1> SUFFICES ASSUME NEW q \in alone'
             PROVE  (/\ alone = {q} /\ Merging \subseteq {q}
                     /\ command[q] \notin {"prompt", "closed"}
                     /\ q \in empty /\ q \in Merging => view = <<>>
                     /\ command[q] = "show" => Once(view) /\ Lines(view) = Lines(got[q]))'
  BY DEF Alone
<1>0. alone \subseteq Process /\ Viewer \subseteq Process BY DEF TypeOK
<1>k. ASSUME q \in alone, alone' = alone, AloneKept(q)
      PROVE  (/\ alone = {q} /\ Merging \subseteq {q}
              /\ command[q] \notin {"prompt", "closed"}
              /\ q \in empty /\ q \in Merging => view = <<>>
              /\ command[q] = "show" => Once(view) /\ Lines(view) = Lines(got[q]))'
  <2>1. /\ alone = {q} /\ Merging \subseteq {q} /\ command[q] \notin {"prompt", "closed"}
        /\ q \in empty /\ q \in Merging => view = <<>>
        /\ command[q] = "show" => Once(view) /\ Lines(view) = Lines(got[q])
    BY <1>k DEF Alone
  <2>2. Lines(view)' = Lines(view) /\ Lines(got[q])' = Lines(got[q]) /\ Once(view)' = Once(view)
    BY <1>k DEF AloneKept, Lines, Once
  <2> QED BY <1>k, <2>1, <2>2 DEF AloneKept
<1>1. CASE UNCHANGED vars
  <2>1. AloneKept(q) BY <1>1 DEF vars, AloneKept, Merging
  <2> QED BY <1>1, <1>k, <2>1 DEF vars
<1>2. ASSUME NEW p \in Process,
             EventLog(p) \/ LogView(p) \/ Quit(p) \/ EndOfInput(p)
      PROVE  (/\ alone = {q} /\ Merging \subseteq {q}
              /\ command[q] \notin {"prompt", "closed"}
              /\ q \in empty /\ q \in Merging => view = <<>>
              /\ command[q] = "show" => Once(view) /\ Lines(view) = Lines(got[q]))'
  <2> DEFINE Goal == (/\ alone = {q} /\ Merging \subseteq {q}
                      /\ command[q] \notin {"prompt", "closed"}
                      /\ q \in empty /\ q \in Merging => view = <<>>
                      /\ command[q] = "show" => Once(view) /\ Lines(view) = Lines(got[q]))'
  <2>1. CASE EventLog(p) \/ Quit(p) \/ EndOfInput(p)
    <3>1. UNCHANGED <<view, empty, got, base, alone>>
      BY <2>1 DEF EventLog, Receive, Take, Open, Write, Fail, Quit, EndOfInput
    <3>2. \/ command' = command
          \/ command[p] = "prompt" /\ command' = [command EXCEPT ![p] = "closed"]
      BY <2>1 DEF EventLog, Receive, Take, Open, Write, Fail, Quit, EndOfInput, Goto,
                  TypeOK
    <3>3. q \in alone /\ q \in Process /\ command[q] \notin {"prompt", "closed"}
      BY <1>0, <3>1 DEF Alone
    <3>4. command'[q] = command[q] BY <3>2, <3>3 DEF TypeOK
    <3>5. Merging' \subseteq Merging BY <3>2 DEF Merging, TypeOK
    <3> QED BY <1>k, <3>1, <3>3, <3>4, <3>5 DEF AloneKept
  <2>2. CASE View(p)
    <3>1. /\ alone' = IF Merging = {} THEN {p} ELSE {}
          /\ command' = [command EXCEPT ![p] = "cat1"] /\ empty' = empty \ {p}
      BY <2>2 DEF View, Goto
    <3>2. q = p /\ Merging = {} /\ alone' = {q} BY <3>1
    <3>3. command'[q] = "cat1" /\ q \notin empty' BY <3>1, <3>2 DEF TypeOK
    <3>4. Merging' \subseteq {q} BY <3>1, <3>2 DEF Merging, TypeOK
    <3> QED BY <3>2, <3>3, <3>4
  <2>3. CASE Truncate(p) \/ Cat1(p) \/ Cat2(p) \/ Sort(p)
    <3>1. alone' = alone /\ q \in alone /\ p \in Merging
      BY <2>3 DEF Truncate, Cat1, Cat2, Sort, Goto, Merging
    <3>2. /\ alone = {q} /\ p = q /\ q \in Process
          /\ q \in empty /\ q \in Merging => view = <<>>
      BY <1>0, <3>1 DEF Alone
    <3>3. Merging' \subseteq {q}
      <4>1. command' = command \/ \E to \in {"cat2", "sort", "show"} :
              command' = [command EXCEPT ![p] = to]
        BY <2>3 DEF Truncate, Cat1, Cat2, Sort, Goto
      <4>2. Merging \subseteq {q} BY <3>1 DEF Alone
      <4> QED BY <3>2, <4>1, <4>2 DEF Merging, TypeOK
    <3>4. CASE Truncate(p)
      <4>1. /\ command'[q] \in {"cat1", "cat2", "sort"} /\ view' = <<>>
        BY <3>2, <3>4 DEF Truncate
      <4> QED BY <3>1, <3>2, <3>3, <4>1
    <3>5. CASE Cat1(p) \/ Cat2(p)
      <4>1. command'[q] \in {"cat2", "sort"} /\ view' = view /\ empty' = empty
        BY <3>2, <3>5 DEF Cat1, Cat2, Goto, TypeOK
      <4> QED BY <3>1, <3>2, <3>3, <4>1
    <3>6. CASE Sort(p)
      <4>1. command'[q] = "show" /\ view = <<>> /\ got' = got
        BY <3>1, <3>2, <3>6 DEF Sort, Goto, TypeOK
      <4>2. PICK s \in Sorted(got[q]) : view' = WrittenOver(view, s)
        BY <3>2, <3>6 DEF Sort
      <4>3. got[q] \in Seq(Line) /\ view \in Seq(Line) BY <3>2 DEF TypeOK
      <4>4. s \in Seq(Line) /\ Lines(s) = Lines(got[q]) /\ (Once(got[q]) => Once(s))
        BY <4>2, <4>3, SortedFacts
      <4>5. view' = s BY <4>1, <4>2, <4>3, <4>4, WrittenOverFacts
      <4>6. Once(got[q]) BY <3>2, <3>6 DEF Sort, Goto, Reading, ReadBy
      <4>7. Once(view)' /\ Lines(view)' = Lines(s) /\ Lines(got[q])' = Lines(got[q])
        BY <4>1, <4>4, <4>5, <4>6 DEF Once, Lines
      <4>8. q \notin Merging' BY <4>1 DEF Merging
      <4> QED BY <3>1, <3>2, <3>3, <4>1, <4>4, <4>7, <4>8
    <3> QED BY <2>3, <3>4, <3>5, <3>6
  <2>4. CASE Show(p)
    <3>1. /\ alone' = alone \ {p} /\ command' = [command EXCEPT ![p] = "prompt"]
          /\ got' = [got EXCEPT ![p] = <<>>] /\ empty' = empty \ {p} /\ view' = view
      BY <2>4 DEF Show, Goto
    <3>2. q \in alone /\ q # p /\ q \in Process BY <1>0, <3>1
    <3>3. alone = {q} BY <3>2 DEF Alone
    <3>4. alone' = alone BY <3>1, <3>2, <3>3
    <3>5. Merging' \subseteq Merging BY <3>1 DEF Merging, TypeOK
    <3>6. AloneKept(q) BY <3>1, <3>2, <3>5 DEF AloneKept, TypeOK
    <3> QED BY <1>k, <3>2, <3>4, <3>6
  <2> QED BY <1>2, <2>1, <2>2, <2>3, <2>4 DEF LogView
<1> QED BY <1>1, <1>2 DEF Next

-----------------------------------------------------------------------------
(* The theorems                                                            *)

LEMMA LogInit ==
  ASSUME Init PROVE HInv
<1>1. <<>> \in Seq(Line) /\ Len(<<>>) = 0 OBVIOUS
<1>2. NoLine \in Line BY DEF NoLine, Line, LogAssumption
<1>3. TypeOK BY <1>1, <1>2 DEF Init, TypeOK, LogAssumption
<1>4. \A id \in 0..2 : 1..Len(log[id]) = {} BY <1>1 DEF Init
<1>5. Unique BY <1>4 DEF Init, Unique, Holds
<1>6. Reading BY DEF Init, Reading, ReadBy
<1>7. Alone BY DEF Init, Alone
<1>8. Sequenced BY <1>4 DEF Init, Sequenced, LoggedInOrder, InTurn, Holds
<1>9. AnswersAccounted
  <2>1. Logged = {} BY <1>4 DEF Logged, Lines
  <2>2. Held = {} BY DEF Init, Held, Holds
  <2> QED BY <2>1, <2>2 DEF Init, AnswersAccounted
<1> QED BY <1>3, <1>5, <1>6, <1>7, <1>8, <1>9 DEF HInv

LEMMA LogStep ==
  ASSUME HInv, [Next]_vars PROVE HInv'
BY TypeStep, UniqueStep, AccountedStep, SequencedStep, ReadingStep, AloneStep DEF HInv

\* The inductive invariant holds of every behaviour: each answer is held by one
\* main thread or stands once in the log of its rtu_id, and each view has read
\* what it must (historian.c:114, 122-153).
THEOREM LogInvariance == Spec => []HInv
<1>1. Init => HInv BY LogInit
<1>2. HInv /\ [Next]_vars => HInv' BY LogStep
<1> QED BY <1>1, <1>2, PTL DEF Spec

\* The variables keep their types, and no view reads more than was received.
THEOREM LogTypeCorrect == Spec => []TypeOK
<1>1. HInv => TypeOK BY DEF HInv
<1> QED BY <1>1, LogInvariance, PTL

\* A line that is logged stays where it is (historian.c:129): no process, view
\* or exit in the middle of a line takes it away.
THEOREM LogsOnlyGrow == Spec => LogsGrow
<1>1. TypeOK /\ [Next]_vars => [Grow]_vars BY GrowStep
<1>2. [Grow]_vars <=> [\A id \in 0..2 : \A i \in 1..Len(log[id]) :
                         i <= Len(log'[id]) /\ log'[id][i] = log[id][i]]_vars
  BY DEF Grow
<1> QED BY <1>1, <1>2, LogTypeCorrect, PTL DEF Spec, LogsGrow

\* No answer vanishes but by a log that cannot be opened or a process that ends
\* in the middle of a line (historian.c:41-43, 98, 129-132).
THEOREM NoAnswerVanishes == Spec => []AnswersAccounted
<1>1. HInv => AnswersAccounted BY DEF HInv
<1> QED BY <1>1, LogInvariance, PTL

\* If only one process receives the rtu_id of a log, the log has the answers in
\* the order in which they came (historian.c:98, 129), whoever quits or views.
THEOREM LinesInOrder == Spec => []LoggedInOrder
<1>1. HInv => LoggedInOrder BY DEF HInv, Sequenced
<1> QED BY <1>1, LogInvariance, PTL

\* Whoever types l while no other view is going on is shown every line of RTU 1
\* and RTU 2 that was logged by then (historian.c:113-117).
THEOREM ViewsAreComplete == Spec => []ViewComplete
<1>1. HInv => ViewComplete
  <2> SUFFICES ASSUME HInv, NEW p \in Viewer, Shows(p)
               PROVE  {l \in base[p] : l.rtu_id \in {1, 2}} \subseteq Lines(view)
    BY DEF ViewComplete
  <2>1. p \in Process /\ ReadBy(p) /\ Lines(view) = Lines(got[p])
    BY DEF HInv, Reading, Alone, Shows
  <2> QED BY <2>1 DEF ReadBy, OfId, Shows
<1> QED BY <1>1, LogInvariance, PTL

\* What such a view shows has been logged, and it shows no line twice
\* (historian.c:113-117).
THEOREM ViewsAreSound == Spec => []ViewSound
<1>1. HInv => ViewSound
  <2> SUFFICES ASSUME HInv, NEW p \in Viewer, Shows(p)
               PROVE  /\ Lines(view) \subseteq Lines(log[1]) \union Lines(log[2])
                      /\ \A i, j \in 1..Len(view) : view[i] = view[j] => i = j
    BY DEF ViewSound
  <2>1. p \in Process /\ ReadBy(p) /\ Lines(view) = Lines(got[p]) /\ Once(view)
    BY DEF HInv, Reading, Alone, Shows
  <2> QED BY <2>1 DEF ReadBy, Once, Shows
<1> QED BY <1>1, LogInvariance, PTL
=============================================================================
