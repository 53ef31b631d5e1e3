---------------------------- MODULE ScadaProofs ----------------------------
(***************************************************************************)
(* What holds of Scada for any number of buttons, historians, reports and  *)
(* restarts, and any size of the FIFO.                                     *)
(***************************************************************************)
EXTENDS Scada, StatusProofs, TLAPS

USE ScadaAssumption, NumButtonsAssumption

\* Scada and its instance of ButtonEvents have the same vocabulary of Status.
LEMMA SameStatus ==
  Buttons!Button = Button /\ Buttons!Level = Level /\ Buttons!FALLING = 0
BY DEF Buttons!Button, Button, Buttons!Level, Level, Buttons!FALLING

-----------------------------------------------------------------------------
(* Operators on sequences of records                                       *)

LEMMA RecordsOfAppend ==
  ASSUME NEW s \in Seq(Stamped), NEW r \in Stamped
  PROVE  /\ Append(s, r) \in Seq(Stamped) /\ Len(Append(s, r)) = Len(s) + 1
         /\ \A i \in 1..Len(s) : Append(s, r)[i] = s[i]
         /\ Append(s, r)[Len(s) + 1] = r
         /\ Records(Append(s, r)) = Records(s) \union {r}
<1>1. Append(s, r) \in Seq(Stamped) /\ Len(Append(s, r)) = Len(s) + 1 OBVIOUS
<1>2. \A i \in 1..Len(s) : Append(s, r)[i] = s[i] OBVIOUS
<1>3. Append(s, r)[Len(s) + 1] = r OBVIOUS
<1>4. 1..(Len(s) + 1) = (1..Len(s)) \union {Len(s) + 1}
  <2>1. Len(s) \in Nat OBVIOUS
  <2> QED BY <2>1
<1> QED BY <1>1, <1>2, <1>3, <1>4 DEF Records

\* A record that comes later than all others keeps the order.
LEMMA IncreasingAppend ==
  ASSUME NEW s \in Seq(Stamped), NEW r \in Stamped, Increasing(s),
         Earlier(Records(s), {r})
  PROVE  Increasing(Append(s, r))
<1>1. Len(s) \in Nat OBVIOUS
<1>2. \A i \in 1..Len(s) : s[i].event_tv < r.event_tv BY DEF Earlier, Records
<1> SUFFICES ASSUME NEW i \in 1..(Len(s) + 1), NEW j \in 1..(Len(s) + 1), i < j
             PROVE  Append(s, r)[i].event_tv < Append(s, r)[j].event_tv
  BY RecordsOfAppend DEF Increasing
<1>3. i \in 1..Len(s) /\ Append(s, r)[i] = s[i] BY <1>1, RecordsOfAppend
<1>4. CASE j \in 1..Len(s) BY <1>3, <1>4, RecordsOfAppend DEF Increasing
<1>5. CASE j = Len(s) + 1 BY <1>2, <1>3, <1>5, RecordsOfAppend
<1> QED BY <1>1, <1>4, <1>5

\* The first record of an ordered sequence and the others.
LEMMA RecordsOfTail ==
  ASSUME NEW s \in Seq(Stamped), s # <<>>, Increasing(s)
  PROVE  /\ Head(s) \in Stamped /\ Tail(s) \in Seq(Stamped)
         /\ Len(Tail(s)) = Len(s) - 1
         /\ Records(s) = Records(Tail(s)) \union {Head(s)}
         /\ Increasing(Tail(s)) /\ Earlier({Head(s)}, Records(Tail(s)))
<1>1. /\ Len(s) \in Nat \ {0} /\ Head(s) \in Stamped /\ Tail(s) \in Seq(Stamped)
      /\ Len(Tail(s)) = Len(s) - 1 /\ Head(s) = s[1]
      /\ \A i \in 1..Len(Tail(s)) : Tail(s)[i] = s[i + 1]
  OBVIOUS
<1>2. \A i \in 1..Len(Tail(s)) : i + 1 \in 1..Len(s) /\ 1 < i + 1 BY <1>1
<1>3. \A i \in 1..Len(s) : i = 1 \/ (i - 1 \in 1..Len(Tail(s)) /\ s[i] = Tail(s)[i - 1])
  <2> SUFFICES ASSUME NEW i \in 1..Len(s), i # 1
               PROVE  i - 1 \in 1..Len(Tail(s)) /\ s[i] = Tail(s)[i - 1]
    OBVIOUS
  <2>1. i - 1 \in 1..Len(Tail(s)) /\ (i - 1) + 1 = i BY <1>1
  <2> QED BY <1>1, <2>1
<1>4. Records(s) = Records(Tail(s)) \union {Head(s)}
  <2>1. 1 \in 1..Len(s) BY <1>1
  <2>2. Head(s) \in Records(s) BY <1>1, <2>1 DEF Records
  <2>3. ASSUME NEW i \in 1..Len(Tail(s)) PROVE Tail(s)[i] \in Records(s)
    <3> DEFINE k == i + 1
    <3>1. k \in 1..Len(s) /\ Tail(s)[i] = s[k] BY <1>1, <1>2
    <3> HIDE DEF k
    <3> QED BY <3>1 DEF Records
  <2>4. ASSUME NEW i \in 1..Len(s) PROVE s[i] \in Records(Tail(s)) \union {Head(s)}
    <3> DEFINE k == i - 1
    <3>1. i = 1 \/ (k \in 1..Len(Tail(s)) /\ s[i] = Tail(s)[k]) BY <1>3
    <3> HIDE DEF k
    <3> QED BY <1>1, <3>1 DEF Records
  <2>5. Records(Tail(s)) \subseteq Records(s) BY <2>3 DEF Records
  <2>6. Records(s) \subseteq Records(Tail(s)) \union {Head(s)}
    <3> SUFFICES ASSUME NEW i \in 1..Len(s)
                 PROVE  s[i] \in Records(Tail(s)) \union {Head(s)}
      BY Zenon DEF Records
    <3> QED BY <2>4
  <2> QED BY <2>2, <2>5, <2>6
<1>5. Increasing(Tail(s))
  <2> SUFFICES ASSUME NEW i \in 1..Len(Tail(s)), NEW j \in 1..Len(Tail(s)), i < j
               PROVE  Tail(s)[i].event_tv < Tail(s)[j].event_tv
    BY DEF Increasing
  <2>1. i + 1 \in 1..Len(s) /\ j + 1 \in 1..Len(s) /\ i + 1 < j + 1 BY <1>1
  <2>2. s[i + 1].event_tv < s[j + 1].event_tv BY <2>1 DEF Increasing
  <2> QED BY <1>1, <2>2
<1>6. Earlier({Head(s)}, Records(Tail(s)))
  <2> SUFFICES ASSUME NEW i \in 1..Len(Tail(s))
               PROVE  Head(s).event_tv < Tail(s)[i].event_tv
    BY DEF Earlier, Records
  <2>1. 1 \in 1..Len(s) /\ i + 1 \in 1..Len(s) /\ 1 < i + 1 BY <1>1
  <2>2. s[1].event_tv < s[i + 1].event_tv BY <2>1 DEF Increasing
  <2> QED BY <1>1, <2>2
<1> QED BY <1>1, <1>4, <1>5, <1>6

-----------------------------------------------------------------------------
(* The steps                                                               *)

\* What only the historians, the sender thread and the buttons change.
LEMMA KeptStep ==
  ASSUME Places, UNCHANGED <<fifo, reader, events, terminal, reported, gone>>,
         Buttons!TypeOK', EmptyHanded'
  PROVE  Places'
<1>1. /\ InHand' = InHand /\ Records(fifo)' = Records(fifo)
      /\ Records(reported)' = Records(reported) /\ Records(terminal)' = Records(terminal)
      /\ Increasing(fifo)' = Increasing(fifo) /\ Increasing(terminal)' = Increasing(terminal)
  BY DEF InHand, Records, Increasing
<1>2. Ordered' BY <1>1 DEF Places, Ordered, Earlier
<1>3. Accounted' BY <1>1 DEF Places, Accounted
<1>4. OwnTypeOK' BY DEF Places, OwnTypeOK
<1> QED BY <1>2, <1>3, <1>4 DEF Places

LEMMA ReportStep ==
  ASSUME Places, NEW b \in Button, Report(b)
  PROVE  Places'
<1> DEFINE n   == Len(reported) + 1
           rec == [event_type |-> BtnEvent(b, next[b]), event_tv |-> n]
<1>1. /\ n \in 1..MaxReports /\ n \in Nat /\ Len(reported) \in Nat
      /\ reported' = Append(reported, rec) /\ Buttons!Report(b)
      /\ UNCHANGED <<reader, events, terminal>>
      /\ IF Room THEN fifo' = Append(fifo, rec) /\ UNCHANGED gone
                 ELSE gone' = gone \union {n} /\ UNCHANGED fifo
  <2>1. Len(reported) \in Nat BY DEF Places, OwnTypeOK
  <2> QED BY <2>1 DEF Report, readerVars
<1>2. next[b] \in Level /\ Buttons!TypeOK'
  <2>1. next \in [Button -> Level] /\ owed \in SUBSET Button
    BY SameStatus DEF Places, Buttons!TypeOK
  <2>2. owed' = owed \ {b} /\ next' = [next EXCEPT ![b] = 1 - @]
    BY <1>1 DEF Buttons!Report
  <2>3. next[b] \in Level /\ 1 - next[b] \in Level BY <2>1 DEF Level
  <2>4. next' \in [Button -> Level] BY <2>1, <2>2, <2>3
  <2>5. owed' \in SUBSET Button BY <2>1, <2>2
  <2> QED BY <2>3, <2>4, <2>5, SameStatus DEF Buttons!TypeOK
<1>3. rec \in Stamped BY <1>1, <1>2 DEF Stamped, Event
<1>e. EmptyHanded'
  <2>1. rtu' = rtu /\ reader' = reader BY DEF Report, pollVars, readerVars
  <2> QED BY <2>1 DEF Places, EmptyHanded
<1> HIDE DEF n, rec
<1>4. rec.event_tv = n BY DEF rec
<1>5. n = Len(reported) + 1 BY DEF n
<1> USE DEF Places, OwnTypeOK
<1>6. /\ reported' \in Seq(Stamped) /\ Len(reported') = n /\ reported'[n] = rec
      /\ \A i \in 1..Len(reported) : reported'[i] = reported[i]
      /\ Records(reported)' = Records(reported) \union {rec}
  <2>1. Records(reported)' = Records(reported') BY DEF Records
  <2> QED BY <1>1, <1>3, <1>5, <2>1, RecordsOfAppend
<1>7. \A i \in 1..n : i # n => i \in 1..Len(reported) BY <1>1, <1>5
<1>8. \A r \in Records(reported) : r.event_tv < n
  BY <1>1, <1>5 DEF Accounted, Records
<1>9. gone' \subseteq 1..Len(reported')
  <2>1. 1..Len(reported) \subseteq 1..n /\ n \in 1..n BY <1>1, <1>5
  <2> QED BY <1>1, <1>6, <2>1
<1>10. CASE Room
  <2>1. fifo' = Append(fifo, rec) /\ gone' = gone BY <1>1, <1>10
  <2>2. /\ fifo' \in Seq(Stamped) /\ Len(fifo') <= FIFO_SIZE
        /\ Records(fifo)' = Records(fifo) \union {rec}
    <3>1. Records(fifo)' = Records(fifo') BY DEF Records
    <3>2. Len(fifo) \in Nat /\ Len(fifo) < FIFO_SIZE BY <1>10 DEF Room
    <3> QED BY <1>3, <2>1, <3>1, <3>2, RecordsOfAppend
  <2>3. Earlier(Records(terminal) \union InHand \union Records(fifo), {rec})
    BY <1>4, <1>8 DEF Accounted, Earlier
  <2>4. Increasing(fifo)'
    <3>1. Increasing(fifo)' = Increasing(fifo') BY DEF Increasing
    <3>2. Earlier(Records(fifo), {rec}) BY <2>3 DEF Earlier
    <3> QED BY <1>3, <2>1, <3>1, <3>2, IncreasingAppend DEF Ordered
  <2>5. Records(terminal)' = Records(terminal) /\ InHand' = InHand
        /\ Increasing(terminal)' = Increasing(terminal)
    BY <1>1 DEF Records, InHand, Increasing
  <2>6. Ordered'
    BY <2>2, <2>3, <2>4, <2>5 DEF Ordered, Earlier
  <2>7. Accounted'
    <3>1. \A i \in 1..Len(reported') : reported'[i].event_tv = i
      BY <1>4, <1>6, <1>7 DEF Accounted
    <3>2. \A i \in 1..Len(reported') : i \in gone' \/ reported'[i] \in
            Records(terminal)' \union InHand' \union Records(fifo)'
      BY <1>6, <1>7, <2>1, <2>2, <2>5 DEF Accounted
    <3>3. Records(terminal)' \union InHand' \union Records(fifo)' \subseteq Records(reported)'
      BY <1>6, <2>2, <2>5 DEF Accounted
    <3> QED BY <3>1, <3>2, <3>3 DEF Accounted
  <2>8. OwnTypeOK' BY <1>1, <1>6, <1>9, <2>2
  <2> QED BY <1>2, <1>e, <2>6, <2>7, <2>8
<1>11. CASE ~Room
  <2>1. fifo' = fifo /\ gone' = gone \union {n} BY <1>1, <1>11
  <2>2. /\ Records(terminal)' = Records(terminal) /\ InHand' = InHand
        /\ Records(fifo)' = Records(fifo) /\ Increasing(fifo)' = Increasing(fifo)
        /\ Increasing(terminal)' = Increasing(terminal)
    BY <1>1, <2>1 DEF Records, InHand, Increasing
  <2>3. Ordered' BY <2>2 DEF Ordered, Earlier
  <2>4. Accounted'
    <3>1. \A i \in 1..Len(reported') : reported'[i].event_tv = i
      BY <1>4, <1>6, <1>7 DEF Accounted
    <3>2. \A i \in 1..Len(reported') : i \in gone' \/ reported'[i] \in
            Records(terminal)' \union InHand' \union Records(fifo)'
      BY <1>6, <1>7, <2>1, <2>2 DEF Accounted
    <3>3. Records(terminal)' \union InHand' \union Records(fifo)' \subseteq Records(reported)'
      BY <1>6, <2>2 DEF Accounted
    <3> QED BY <3>1, <3>2, <3>3 DEF Accounted
  <2>5. OwnTypeOK' BY <1>1, <1>6, <1>9, <2>1
  <2> QED BY <1>2, <1>e, <2>3, <2>4, <2>5
<1> QED BY <1>10, <1>11

LEMMA ReadStep ==
  ASSUME Places, Read
  PROVE  Places'
<1> USE DEF Places, OwnTypeOK
<1>1. /\ reader = "read" /\ reader' = "print" /\ fifo # <<>>
      /\ events' = Head(fifo) /\ fifo' = Tail(fifo)
      /\ UNCHANGED <<next, owed, reported, terminal, gone>>
  BY DEF Read, Taken, moduleVars
<1>2. /\ Head(fifo) \in Stamped /\ Tail(fifo) \in Seq(Stamped)
      /\ Len(Tail(fifo)) = Len(fifo) - 1
      /\ Records(fifo) = Records(Tail(fifo)) \union {Head(fifo)}
      /\ Increasing(Tail(fifo)) /\ Earlier({Head(fifo)}, Records(Tail(fifo)))
  BY <1>1, RecordsOfTail DEF Ordered
<1>3. /\ InHand = {} /\ InHand' = {Head(fifo)} /\ Records(fifo)' = Records(Tail(fifo))
      /\ Increasing(fifo)' = Increasing(Tail(fifo))
      /\ Records(terminal)' = Records(terminal) /\ Records(reported)' = Records(reported)
      /\ Increasing(terminal)' = Increasing(terminal)
  BY <1>1 DEF InHand, Records, Increasing
<1>4. Ordered' BY <1>2, <1>3 DEF Ordered, Earlier
<1>5. Accounted'
  <2>1. Records(terminal)' \union InHand' \union Records(fifo)'
          = Records(terminal) \union InHand \union Records(fifo)
    BY <1>2, <1>3
  <2> QED BY <1>1, <1>3, <2>1 DEF Accounted
<1>6. OwnTypeOK'
  <2>1. Len(Tail(fifo)) <= FIFO_SIZE
    <3>1. Len(fifo) \in Nat OBVIOUS
    <3> QED BY <1>2, <3>1
  <2>2. Head(fifo) # NoEvents
    <3>1. Head(fifo).event_tv # NoEvents.event_tv BY <1>2 DEF Stamped, NoEvents
    <3> QED BY <3>1
  <2> QED BY <1>1, <1>2, <2>1, <2>2
<1>7. Buttons!TypeOK' BY <1>1 DEF Buttons!TypeOK
<1>8. EmptyHanded' BY DEF Read, pollVars, EmptyHanded
<1> QED BY <1>4, <1>5, <1>6, <1>7, <1>8

LEMMA PrintStep ==
  ASSUME Places, PrintEvents
  PROVE  Places'
<1> USE DEF Places, OwnTypeOK
<1>1. /\ reader = "print" /\ reader' = "read" /\ terminal' = Append(terminal, events)
      /\ UNCHANGED <<next, owed, reported, events, fifo, gone>>
  BY DEF PrintEvents, AfterPrint, moduleVars
<1>2. events \in Stamped BY <1>1
<1>3. /\ terminal' \in Seq(Stamped)
      /\ Records(terminal)' = Records(terminal) \union {events}
  <2>1. Records(terminal)' = Records(terminal') BY DEF Records
  <2> QED BY <1>1, <1>2, <2>1, RecordsOfAppend
<1>4. /\ InHand = {events} /\ InHand' = {} /\ Records(fifo)' = Records(fifo)
      /\ Increasing(fifo)' = Increasing(fifo) /\ Records(reported)' = Records(reported)
  BY <1>1 DEF InHand, Records, Increasing
<1>5. Increasing(terminal)'
  <2>1. Increasing(terminal)' = Increasing(terminal') BY DEF Increasing
  <2>2. Earlier(Records(terminal), {events}) BY <1>4 DEF Ordered, Earlier
  <2> QED BY <1>1, <1>2, <2>1, <2>2, IncreasingAppend DEF Ordered
<1>6. Ordered' BY <1>3, <1>4, <1>5 DEF Ordered, Earlier
<1>7. Accounted'
  <2>1. Records(terminal)' \union InHand' \union Records(fifo)'
          = Records(terminal) \union InHand \union Records(fifo)
    BY <1>3, <1>4
  <2> QED BY <1>1, <1>4, <2>1 DEF Accounted
<1>8. OwnTypeOK' BY <1>1, <1>3
<1>9. Buttons!TypeOK' BY <1>1 DEF Buttons!TypeOK
<1>10. EmptyHanded' BY <1>1 DEF EmptyHanded
<1> QED BY <1>6, <1>7, <1>8, <1>9, <1>10

\* A program that starts or ends lets go of the record in the reader's hands.
LEMMA RestartStep ==
  ASSUME Places, RtuStart \/ RtuExit
  PROVE  Places'
<1> USE DEF Places, OwnTypeOK
<1>1. /\ reader' = "read" /\ events' = NoEvents
      /\ UNCHANGED <<next, owed, reported, terminal, fifo>>
      /\ gone' = IF reader = "print" THEN gone \union {events.event_tv} ELSE gone
  BY DEF RtuStart, RtuExit, moduleVars, Poll!RtuStart, EmptyHanded
<1>2. /\ InHand' = {} /\ Records(fifo)' = Records(fifo)
      /\ Increasing(fifo)' = Increasing(fifo) /\ Records(reported)' = Records(reported)
      /\ Records(terminal)' = Records(terminal)
      /\ Increasing(terminal)' = Increasing(terminal)
  BY <1>1 DEF InHand, Records, Increasing
<1>3. Ordered' BY <1>2 DEF Ordered, Earlier
<1>4. Accounted'
  <2>1. \A i \in 1..Len(reported) :
          i \in gone' \/ reported[i] \in Records(terminal) \union Records(fifo)
    BY <1>1 DEF Accounted, InHand
  <2> QED BY <1>1, <1>2, <2>1 DEF Accounted
<1>5. gone' \subseteq 1..Len(reported)
  <2>1. CASE reader = "print"
    <3>1. PICK i \in 1..Len(reported) : events = reported[i]
      BY <2>1 DEF Accounted, InHand, Records
    <3> QED BY <1>1, <3>1 DEF Accounted
  <2> QED BY <1>1, <2>1
<1>6. OwnTypeOK' BY <1>1, <1>5
<1>7. Buttons!TypeOK' BY <1>1 DEF Buttons!TypeOK
<1>8. EmptyHanded' BY <1>1 DEF EmptyHanded
<1> QED BY <1>3, <1>4, <1>6, <1>7, <1>8

LEMMA PlacesStep ==
  ASSUME Places, [Next]_vars
  PROVE  Places'
<1>1. CASE UNCHANGED vars
  <2>1. /\ UNCHANGED <<fifo, reader, events, terminal, reported, gone>>
        /\ UNCHANGED <<next, owed, rtu>>
    BY <1>1 DEF vars, rtuVars, moduleVars, readerVars, pollVars
  <2> QED BY <2>1, KeptStep DEF Places, Buttons!TypeOK, EmptyHanded
<1>2. ASSUME NEW b \in Button, Edge(b) PROVE Places'
  <2>1. /\ UNCHANGED <<fifo, reader, events, terminal, reported, gone, rtu>>
        /\ Buttons!Edge(b)
    BY <1>2 DEF Edge, readerVars, pollVars
  <2>2. Buttons!TypeOK' BY <2>1, SameStatus DEF Places, Buttons!TypeOK, Buttons!Edge
  <2> QED BY <2>1, <2>2, KeptStep DEF Places, EmptyHanded
<1>3. ASSUME UNCHANGED rtuVars, rtu' = "down" => rtu = "down" PROVE Places'
  <2>1. /\ UNCHANGED <<fifo, reader, events, terminal, reported, gone>>
        /\ UNCHANGED <<next, owed>>
    BY <1>3 DEF rtuVars, moduleVars, readerVars
  <2> QED BY <1>3, <2>1, KeptStep DEF Places, Buttons!TypeOK, EmptyHanded
<1>4. CASE Polling
  <2>1. rtu' = "down" => rtu = "down"
    BY <1>4 DEF Polling, Poll!Start, Poll!Handshake, Poll!RtuReceive, Poll!Refuse,
                Poll!RtuStep, Poll!RtuReply, Poll!RtuPeriod, Poll!Tick, Poll!rtuVars
  <2> QED BY <1>3, <1>4, <2>1 DEF Polling
<1>5. ASSUME NEW c \in Historian, Receive(c) \/ EventLog(c) \/ Quit(c) PROVE Places'
  <2>1. UNCHANGED rtuVars /\ rtu' = rtu
    BY <1>5 DEF Receive, EventLog, Quit, Poll!Receive, Poll!Log, Poll!Quit,
                Poll!rtuVars, pollVars
  <2> QED BY <1>3, <2>1
<1> QED BY <1>1, <1>2, <1>4, <1>5, ReportStep, ReadStep, PrintStep, RestartStep
        DEF Next

LEMMA PlacesInit == ASSUME Init PROVE Places
<1>1. <<>> \in Seq(Stamped) /\ Len(<<>>) = 0 /\ 1..0 = {} OBVIOUS
<1>2. Records(<<>>) = {} /\ Increasing(<<>>) BY <1>1 DEF Records, Increasing
<1>3. OwnTypeOK BY <1>1 DEF Init, OwnTypeOK
<1>4. Buttons!TypeOK BY SameStatus DEF Init, Buttons!Init, Buttons!TypeOK, Level
<1>5. Accounted /\ Ordered
  BY <1>1, <1>2 DEF Init, Accounted, Ordered, InHand, Earlier
<1>6. EmptyHanded BY DEF Init, EmptyHanded
<1> QED BY <1>3, <1>4, <1>5, <1>6 DEF Places

-----------------------------------------------------------------------------
(* Alternation                                                             *)

LEMMA AlternatingReport ==
  ASSUME Places, Alternating, NEW c \in Button, Report(c)
  PROVE  Alternating'
<1>4. PICK n \in Nat : n = Len(reported) + 1 BY DEF Places, OwnTypeOK
<1>1. /\ n \in 1..MaxReports /\ n \in Nat /\ Len(reported) \in Nat
      /\ reported' = Append(reported, [event_type |-> BtnEvent(c, next[c]), event_tv |-> n])
      /\ next' = [next EXCEPT ![c] = 1 - @]
  <2>1. Len(reported) \in Nat BY DEF Places, OwnTypeOK
  <2> QED BY <1>4, <2>1 DEF Report, Buttons!Report
<1>2. /\ next \in [Button -> Level] /\ next[c] \in Level
      /\ next'[c] = 1 - next[c] /\ \A b \in Button \ {c} : next'[b] = next[b]
  BY <1>1, SameStatus DEF Places, Buttons!TypeOK
<1>3. /\ Len(reported') = n /\ reported'[n].event_type = BtnEvent(c, next[c])
      /\ \A i \in 1..Len(reported) : reported'[i] = reported[i]
  <2> DEFINE rec == [event_type |-> BtnEvent(c, next[c]), event_tv |-> n]
  <2>1. rec \in Stamped BY <1>1, <1>2 DEF Stamped, Event
  <2>2. rec.event_type = BtnEvent(c, next[c]) OBVIOUS
  <2>3. reported \in Seq(Stamped) /\ reported' = Append(reported, rec)
    BY <1>1 DEF Places, OwnTypeOK
  <2> HIDE DEF rec
  <2> QED BY <1>4, <2>1, <2>2, <2>3, RecordsOfAppend
<1>5. \A i \in 1..n : i # n => i \in 1..Len(reported) BY <1>1, <1>4
<1>6. \A i \in 1..Len(reported), j \in 1..Len(reported) : \A k \in i..j :
        k \in 1..Len(reported) /\ k \in i..n
  BY <1>1, <1>4
<1> SUFFICES ASSUME NEW b \in Button, NEW dir \in Level, NEW i \in 1..n,
                    reported'[i].event_type = BtnEvent(b, dir)
             PROVE  /\ \A j \in 1..n :
                         i < j /\ reported'[j].event_type = BtnEvent(b, dir)
                           => ReportedBetween(i, j, BtnEvent(b, 1 - dir))'
                    /\ next'[b] = dir => ReportedBetween(i, n, BtnEvent(b, 1 - dir))'
  BY <1>3 DEF Alternating
<1>7. ASSUME NEW j \in 1..n, i < j, reported'[j].event_type = BtnEvent(b, dir)
      PROVE  ReportedBetween(i, j, BtnEvent(b, 1 - dir))'
  <2>1. i \in 1..Len(reported) /\ reported[i].event_type = BtnEvent(b, dir)
    <3>1. i # n BY <1>1, <1>7
    <3> QED BY <1>3, <1>5, <3>1
  <2>2. CASE j = n
    <3>1. b = c /\ dir = next[c] BY <1>2, <1>3, <1>7, <2>2, EventNamesEdge
    <3>2. ReportedBetween(i, Len(reported), BtnEvent(b, 1 - dir))
      BY <2>1, <3>1 DEF Alternating
    <3>3. PICK k \in i..Len(reported) : reported[k].event_type = BtnEvent(b, 1 - dir)
      BY <3>2 DEF ReportedBetween
    <3>4. k \in i..j /\ k \in 1..Len(reported) BY <1>1, <1>4, <2>1, <2>2
    <3> QED BY <1>3, <3>3, <3>4 DEF ReportedBetween
  <2>3. CASE j # n
    <3>1. j \in 1..Len(reported) /\ reported[j].event_type = BtnEvent(b, dir)
      BY <1>3, <1>5, <1>7, <2>3
    <3>2. ReportedBetween(i, j, BtnEvent(b, 1 - dir))
      BY <1>7, <2>1, <3>1 DEF Alternating
    <3>3. PICK k \in i..j : reported[k].event_type = BtnEvent(b, 1 - dir)
      BY <3>2 DEF ReportedBetween
    <3>4. k \in 1..Len(reported) BY <1>6, <2>1, <3>1
    <3> QED BY <1>3, <3>3, <3>4 DEF ReportedBetween
  <2> QED BY <2>2, <2>3
<1>8. ASSUME next'[b] = dir
      PROVE  ReportedBetween(i, n, BtnEvent(b, 1 - dir))'
  <2>1. CASE b = c
    <3>1. dir = 1 - next[c] /\ next[c] = 1 - dir BY <1>2, <1>8, <2>1 DEF Level
    <3>2. n \in i..n /\ reported'[n].event_type = BtnEvent(b, 1 - dir)
      BY <1>1, <1>3, <2>1, <3>1
    <3> QED BY <3>2 DEF ReportedBetween
  <2>2. CASE b # c
    <3>1. i # n BY <1>2, <1>3, <2>2, EventNamesEdge
    <3>2. i \in 1..Len(reported) /\ reported[i].event_type = BtnEvent(b, dir)
      BY <1>3, <1>5, <3>1
    <3>3. next[b] = dir BY <1>2, <1>8, <2>2
    <3>4. ReportedBetween(i, Len(reported), BtnEvent(b, 1 - dir))
      BY <3>2, <3>3 DEF Alternating
    <3>5. PICK k \in i..Len(reported) : reported[k].event_type = BtnEvent(b, 1 - dir)
      BY <3>4 DEF ReportedBetween
    <3>6. k \in 1..Len(reported) /\ k \in i..n BY <1>1, <1>4, <3>2
    <3> QED BY <1>3, <3>5, <3>6 DEF ReportedBetween
  <2> QED BY <2>1, <2>2
<1> QED BY <1>7, <1>8

LEMMA ScadaStep ==
  ASSUME SInv, [Next]_vars
  PROVE  SInv'
<1>1. Places' BY PlacesStep DEF SInv
<1>2. ASSUME UNCHANGED <<next, reported>> PROVE Alternating'
  BY <1>2 DEF SInv, Alternating, ReportedBetween
<1>3. \/ UNCHANGED <<next, reported>>
      \/ \E b \in Button : Report(b)
  <2>1. CASE UNCHANGED vars BY <2>1 DEF vars, rtuVars, moduleVars
  <2>2. ASSUME NEW b \in Button, Edge(b) PROVE UNCHANGED <<next, reported>>
    BY <2>2 DEF Edge, Buttons!Edge
  <2>3. CASE Read \/ PrintEvents \/ RtuStart \/ RtuExit \/ Polling
    BY <2>3 DEF Read, PrintEvents, RtuStart, RtuExit, Polling, rtuVars, moduleVars
  <2>4. ASSUME NEW c \in Historian, Receive(c) \/ EventLog(c) \/ Quit(c)
        PROVE  UNCHANGED <<next, reported>>
    BY <2>4 DEF Receive, EventLog, Quit, rtuVars, moduleVars
  <2> QED BY <2>1, <2>2, <2>3, <2>4 DEF Next
<1> QED BY <1>1, <1>2, <1>3, AlternatingReport DEF SInv

LEMMA ScadaInit == ASSUME Init PROVE SInv
<1>1. 1..Len(reported) = {} BY DEF Init
<1> QED BY <1>1, PlacesInit DEF SInv, Alternating

-----------------------------------------------------------------------------
(* The theorems                                                            *)

\* Every report has one place: dropped, printed, in the reader's hands or in the
\* FIFO, and these are in the order of the reports (rtu.c:47-57, adc.c:105).
THEOREM ScadaInvariance == Spec => []SInv
<1> QED BY ScadaInit, ScadaStep, PTL DEF Spec

\* The terminal of the RTU has the events in the sequence in which they occurred
\* (rtu.c:47-57), across restarts of the program and with any FIFO.
THEOREM PrintsInOrder == Spec => []PrintedInOrder
<1>1. SInv => PrintedInOrder
  BY DEF SInv, Places, Accounted, Ordered, PrintedInOrder, Increasing
<1> QED BY <1>1, ScadaInvariance, PTL

\* What comes before a printed report has been printed or is gone.
LEMMA BeforePrinted ==
  ASSUME Places, NEW r \in Records(terminal)
  PROVE  /\ r.event_tv \in 1..Len(reported) /\ reported[r.event_tv] = r
         /\ \A n \in 1..r.event_tv : n \in gone \/ reported[n] \in Records(terminal)
<1>1. PICK k \in 1..Len(reported) : r = reported[k]
  BY DEF Places, Accounted, Records
<1>2. r.event_tv = k /\ Len(reported) \in Nat
  BY <1>1 DEF Places, Accounted, OwnTypeOK
<1>3. ASSUME NEW n \in 1..r.event_tv
      PROVE  n \in gone \/ reported[n] \in Records(terminal)
  <2>1. n \in 1..Len(reported) /\ n <= r.event_tv BY <1>2
  <2>2. reported[n].event_tv = n BY <2>1 DEF Places, Accounted
  <2>3. reported[n] \notin InHand \union Records(fifo)
    <3> SUFFICES ASSUME reported[n] \in InHand \union Records(fifo) PROVE FALSE
      OBVIOUS
    <3>1. r.event_tv < n BY <2>2 DEF Places, Ordered, Earlier
    <3> QED BY <1>2, <2>1, <3>1
  <2> QED BY <2>1, <2>3 DEF Places, Accounted
<1> QED BY <1>1, <1>2, <1>3

\* Nothing is missing between two of them but what was dropped (adc.c:105) or
\* lost with the program (rtu.c:49).
THEOREM NothingIsSkipped == Spec => []NothingSkipped
<1>1. SInv => NothingSkipped
  <2> SUFFICES ASSUME Places, NEW r \in Records(terminal), NEW n \in 1..(r.event_tv - 1)
               PROVE  n \in gone \/ reported[n] \in Records(terminal)
    BY DEF NothingSkipped, SInv
  <2>1. r.event_tv \in Nat BY BeforePrinted
  <2>2. n \in 1..r.event_tv BY <2>1
  <2> QED BY <2>2, BeforePrinted
<1> QED BY <1>1, ScadaInvariance, PTL

\* Who reads the terminal sees press and release of a button in turn, but for
\* what was dropped or lost (adc.c:88-105, rtu.c:49).
THEOREM PrintsAlternate == Spec => []AlternatesUnlessGone
<1>1. SInv => AlternatesUnlessGone
  <2> SUFFICES ASSUME SInv, NEW b \in Button, NEW dir \in Level,
                      NEW i \in 1..Len(terminal), NEW j \in 1..Len(terminal), i < j,
                      terminal[i].event_type = BtnEvent(b, dir),
                      terminal[j].event_type = BtnEvent(b, dir)
               PROVE  \E n \in terminal[i].event_tv .. terminal[j].event_tv :
                        /\ reported[n].event_type = BtnEvent(b, 1 - dir)
                        /\ n \in gone \/ reported[n] \in Records(terminal)
    BY DEF AlternatesUnlessGone
  <2> DEFINE r == terminal[i]
             s == terminal[j]
  <2>1. r \in Records(terminal) /\ s \in Records(terminal) BY DEF Records
  <2>2. r.event_tv < s.event_tv BY DEF SInv, Places, Ordered, Increasing
  <2>3. r.event_type = BtnEvent(b, dir) /\ s.event_type = BtnEvent(b, dir) OBVIOUS
  <2> HIDE DEF r, s
  <2>4. /\ r.event_tv \in 1..Len(reported) /\ reported[r.event_tv] = r
        /\ s.event_tv \in 1..Len(reported) /\ reported[s.event_tv] = s
    BY <2>1, BeforePrinted DEF SInv
  <2>5. ReportedBetween(r.event_tv, s.event_tv, BtnEvent(b, 1 - dir))
    BY <2>2, <2>3, <2>4 DEF SInv, Alternating
  <2>6. PICK n \in r.event_tv .. s.event_tv : reported[n].event_type = BtnEvent(b, 1 - dir)
    BY <2>5 DEF ReportedBetween
  <2>7. n \in 1..s.event_tv BY <2>4
  <2>8. n \in gone \/ reported[n] \in Records(terminal)
    BY <2>1, <2>7, BeforePrinted DEF SInv
  <2> QED BY <2>6, <2>8 DEF r, s
<1> QED BY <1>1, ScadaInvariance, PTL
=============================================================================
