---------------------------- MODULE StatusProofs ----------------------------
(***************************************************************************)
(* Lemmas about the vocabulary of status.h.                                *)
(***************************************************************************)
EXTENDS Status, SequenceTheorems, TLAPS

\* The event number of an edge of a button is a member of the enumeration.
LEMMA EventOfEdge ==
  ASSUME NEW b \in Button, NEW dir \in Level
  PROVE  BtnEvent(b, dir) \in Event
  BY DEF Event

\* Two edges with the same event number are the same edge: the enumeration of
\* status.h keeps buttons and directions apart.
LEMMA EventNamesEdge ==
  ASSUME NEW b \in Button, NEW c \in Button, NEW d \in Level, NEW e \in Level,
         BtnEvent(b, d) = BtnEvent(c, e)
  PROVE  b = c /\ d = e
  BY DEF BtnEvent, Button, Level

-----------------------------------------------------------------------------
(* The events of a sequence of records                                     *)

\* The events in a FIFO are those of its records, whatever else these are.
LEMMA TypesFacts ==
  ASSUME NEW R, \A x \in R : x.event_type \in Event, NEW s \in Seq(R)
  PROVE  /\ Types(s) \in Seq(Event) /\ Len(Types(s)) = Len(s)
         /\ \A i \in 1..Len(s) : Types(s)[i] = s[i].event_type
<1>1. Len(s) \in Nat /\ \A i \in 1..Len(s) : s[i].event_type \in Event
  <2>1. \A i \in 1..Len(s) : s[i] \in R OBVIOUS
  <2> QED BY <2>1
<1>2. Types(s) \in [1..Len(s) -> Event] BY <1>1 DEF Types
<1>3. Types(s) \in Seq(Event) BY <1>1, <1>2, SeqDef
<1>4. Len(Types(s)) = Len(s)
  <2>1. DOMAIN Types(s) = 1..Len(s) BY DEF Types
  <2>2. DOMAIN Types(s) = 1..Len(Types(s)) /\ Len(Types(s)) \in Nat
    BY <1>3, LenProperties
  <2>3. ASSUME NEW m \in Nat, NEW n \in Nat, 1..m = 1..n, m < n PROVE FALSE
    <3>1. n \in 1..n /\ n \notin 1..m BY <2>3
    <3> QED BY <2>3, <3>1
  <2> HIDE DEF Types
  <2> QED BY <1>1, <2>1, <2>2, <2>3
<1> QED BY <1>3, <1>4 DEF Types

LEMMA TypesOfEmpty == Types(<<>>) = <<>>
<1>1. <<>> \in Seq({}) /\ Len(<<>>) = 0 OBVIOUS
<1>2. Types(<<>>) \in Seq(Event) /\ Len(Types(<<>>)) = 0 BY <1>1, TypesFacts
<1> HIDE DEF Types
<1> QED BY <1>2

LEMMA TypesOfAppend ==
  ASSUME NEW R, \A x \in R : x.event_type \in Event, NEW s \in Seq(R), NEW r \in R
  PROVE  Types(Append(s, r)) = Append(Types(s), r.event_type)
<1> DEFINE long == Append(s, r)
           more == Append(Types(s), r.event_type)
<1>1. /\ long \in Seq(R) /\ Len(long) = Len(s) + 1 /\ Len(s) \in Nat
      /\ long[Len(s) + 1] = r /\ \A i \in 1..Len(s) : long[i] = s[i]
  OBVIOUS
<1>2. Types(long) \in Seq(Event) /\ Len(Types(long)) = Len(s) + 1
      /\ \A i \in 1..Len(long) : Types(long)[i] = long[i].event_type
  BY <1>1, TypesFacts
<1>3. /\ more \in Seq(Event) /\ Len(more) = Len(s) + 1
      /\ more[Len(s) + 1] = r.event_type /\ \A i \in 1..Len(s) : more[i] = s[i].event_type
  <2>1. r.event_type \in Event OBVIOUS
  <2>2. Types(s) \in Seq(Event) /\ Len(Types(s)) = Len(s)
        /\ \A i \in 1..Len(s) : Types(s)[i] = s[i].event_type
    BY TypesFacts
  <2> HIDE DEF Types
  <2> QED BY <2>1, <2>2
<1>4. ASSUME NEW i \in 1..Len(s) + 1 PROVE Types(long)[i] = more[i]
  <2> HIDE DEF long, more
  <2>1. CASE i = Len(s) + 1 BY <1>1, <1>2, <1>3, <2>1
  <2>2. CASE i # Len(s) + 1
    <3>1. i \in 1..Len(s) /\ i \in 1..Len(long) BY <1>1, <2>2
    <3> QED BY <1>1, <1>2, <1>3, <3>1
  <2> QED BY <2>1, <2>2
<1> HIDE DEF long, more
<1> QED BY <1>2, <1>3, <1>4, SeqEqual DEF long, more

LEMMA TypesOfTail ==
  ASSUME NEW R, \A x \in R : x.event_type \in Event, NEW s \in Seq(R), s # <<>>
  PROVE  Types(s) # <<>> /\ Types(Tail(s)) = Tail(Types(s))
<1>1. /\ Tail(s) \in Seq(R) /\ Len(Tail(s)) = Len(s) - 1 /\ Len(s) \in Nat \ {0}
      /\ \A i \in 1..Len(s) - 1 : Tail(s)[i] = s[i + 1]
  OBVIOUS
<1>2. /\ Types(s) \in Seq(Event) /\ Len(Types(s)) = Len(s)
      /\ \A i \in 1..Len(s) : Types(s)[i] = s[i].event_type
  BY TypesFacts
<1>3. /\ Types(Tail(s)) \in Seq(Event) /\ Len(Types(Tail(s))) = Len(s) - 1
      /\ \A i \in 1..Len(s) - 1 : Types(Tail(s))[i] = Tail(s)[i].event_type
  BY <1>1, TypesFacts
<1>4. Types(s) # <<>> BY <1>1, <1>2
<1> HIDE DEF Types
<1>5. /\ Tail(Types(s)) \in Seq(Event) /\ Len(Tail(Types(s))) = Len(s) - 1
      /\ \A i \in 1..Len(s) - 1 : Tail(Types(s))[i] = Types(s)[i + 1]
  BY <1>1, <1>2, <1>4
<1>6. ASSUME NEW i \in 1..Len(s) - 1 PROVE Types(Tail(s))[i] = Tail(Types(s))[i]
  <2>1. i + 1 \in 1..Len(s) BY <1>1
  <2> QED BY <1>1, <1>2, <1>3, <1>5, <2>1
<1> QED BY <1>3, <1>4, <1>5, <1>6, SeqEqual
=============================================================================
