------------------------------- MODULE Scada -------------------------------
(***************************************************************************)
(* The project end to end: reports of the kernel module, as ButtonEvents   *)
(* promises them, go through RT-FIFO 0, as ButtonQueue has it (AdcModule   *)
(* implements both), to the reader thread of rtu/user/rtu.c, which prints  *)
(* them; historians poll the sender thread of the same program             *)
(* (PollCycle), whose answer is buf1, and log what comes (HistorianLog,    *)
(* without the command l).                                                 *)
(***************************************************************************)
EXTENDS Status, Sequences

CONSTANTS
  FIFO_SIZE,    \* capacity of RT-FIFO 0 in records
  MaxReports,   \* bound: reports of the kernel module
  Historian, Nobody, MaxStarts, MaxEvents   \* of PollCycle and HistorianLog

ASSUME ScadaAssumption ==
  /\ FIFO_SIZE \in Nat \ {0} /\ MaxReports \in Nat
  /\ Nobody \notin Historian /\ MaxStarts \in Nat /\ MaxEvents \in Nat

VARIABLES
  next, owed,   \* of ButtonEvents
  fifo,         \* external: the records in RT-FIFO 0
  reader,       \* where the reader thread stands
  events,       \* the record it has read
  terminal,     \* the records printed so far, by whichever RTU program
  reported,     \* history: the reports of the kernel module
  gone,         \* history: numbers of the reports that were dropped or lost
  hist, rtu, from, behind, starts, req, fresh, stale, lost, dup,  \* of PollCycle
  log, view, main, event, command, empty, got, base, alone, received, missed

Buttons == INSTANCE ButtonEvents
Poll    == INSTANCE PollCycle WITH MaxLost <- 0, MaxDup <- 0, MaxBehind <- 1
Log     == INSTANCE HistorianLog WITH
             Process <- Historian, Viewer <- {}, IdOf <- [c \in Historian |-> 0]

moduleVars == <<next, owed, reported>>
readerVars == <<reader, events, terminal>>
rtuVars    == <<moduleVars, readerVars, fifo, gone>>
pollVars   == <<hist, rtu, from, behind, starts, req, fresh, stale, lost, dup>>
logVars    == <<log, view, main, event, command, empty, got, base, alone, received, missed>>
vars == <<rtuVars, pollVars, logVars>>

\* The part of a record that is followed here.  Its time stamp is the number of
\* the report: do_gettimeofday is called once for each.
Stamped == [event_type : Event, event_tv : 1..MaxReports]

\* events and buf1 are globals (lines 24 and 42): zero until they are written,
\* which buf1 never is.
NoEvents == [event_type |-> 0, event_tv |-> 0]
buf1     == Log!NoLine

OwnTypeOK ==
  /\ fifo \in Seq(Stamped) /\ Len(fifo) <= FIFO_SIZE
  /\ reader \in {"read", "print"}
  /\ events \in Stamped \union {NoEvents} /\ (reader = "print" => events # NoEvents)
  /\ terminal \in Seq(Stamped) /\ reported \in Seq(Stamped)
  /\ gone \subseteq 1..Len(reported)

\* PollCycle and HistorianLog agree on where a historian stands.
Agree(c) ==
  /\ hist[c] = "log" <=> main[c] \in {"open", "write"}
  /\ hist[c] = "quit" <=> main[c] = "exit"

TypeOK ==
  /\ OwnTypeOK /\ Buttons!TypeOK /\ Poll!TypeOK /\ Log!TypeOK
  /\ \A c \in Historian : Agree(c)

Init ==
  /\ Buttons!Init /\ Poll!Init /\ Log!Init
  /\ fifo = <<>> /\ reader = "read" /\ events = NoEvents /\ terminal = <<>>
  /\ reported = <<>> /\ gone = {}

-----------------------------------------------------------------------------
(* The kernel module                                                       *)

Edge(b) ==
  /\ Buttons!Edge(b)
  /\ UNCHANGED <<fifo, readerVars, reported, gone, pollVars, logVars>>

\* A bug the properties must notice: rtf_put takes more than the FIFO holds.
RoomAlways == Len(fifo) <= FIFO_SIZE

\* adc.c:217: the FIFO has FIFO_SIZE bytes, and rtf_put writes what fits.
Room == Len(fifo) < FIFO_SIZE

\* adc.c:88-105.
Report(b) ==
  LET n   == Len(reported) + 1
      rec == [event_type |-> BtnEvent(b, next[b]), event_tv |-> n]
  IN  /\ n <= MaxReports /\ Buttons!Report(b)
      /\ reported' = Append(reported, rec)
      /\ IF Room THEN fifo' = Append(fifo, rec) /\ UNCHANGED gone
                 ELSE gone' = gone \union {n} /\ UNCHANGED fifo
      /\ UNCHANGED <<readerVars, pollVars, logVars>>

-----------------------------------------------------------------------------
(* rtu.c, readFromKernel                                                   *)

\* A bug the properties must notice: the record stays in the FIFO.
Peeked == fifo

\* What a read leaves in the FIFO.
Taken == Tail(fifo)

\* Line 48: blocks while the FIFO is empty.
Read ==
  /\ rtu # "down" /\ reader = "read" /\ fifo # <<>>
  /\ events' = Head(fifo) /\ fifo' = Taken
  /\ reader' = "print"
  /\ UNCHANGED <<moduleVars, terminal, gone, pollVars, logVars>>

\* A bug the properties must notice: one record is read, and no more.
LeaveLoop == "left"

\* Line 47: while (1).
AfterPrint == "read"

\* Lines 51-57, and back to the read.
PrintEvents ==
  /\ rtu # "down" /\ reader = "print"
  /\ terminal' = Append(terminal, events)
  /\ reader' = AfterPrint
  /\ UNCHANGED <<moduleVars, events, fifo, gone, pollVars, logVars>>

\* A bug the properties must notice: opening the FIFO empties it.
RtuStartEmpty ==
  /\ Poll!RtuStart
  /\ reader' = "read" /\ events' = NoEvents /\ fifo' = <<>>
  /\ UNCHANGED <<moduleVars, terminal, gone, logVars>>

\* Lines 81-118: both threads start, events is zero.  The FIFO belongs to the
\* kernel module, and what is in it stays there.
RtuStart ==
  /\ Poll!RtuStart
  /\ reader' = "read" /\ events' = NoEvents
  /\ UNCHANGED <<moduleVars, terminal, fifo, gone, logVars>>

\* The program ends with both threads and the record in the reader's hands.
RtuExit ==
  /\ Poll!RtuExit
  /\ reader' = "read" /\ events' = NoEvents
  /\ gone' = IF reader = "print" THEN gone \union {events.event_tv} ELSE gone
  /\ UNCHANGED <<moduleVars, terminal, fifo, logVars>>

-----------------------------------------------------------------------------
(* rtu.c, sendToHistorian, and historian.c.  The network loses nothing but *)
(* requests that no RTU program is there for, and delivers nothing twice.  *)

\* The steps of the polling that touch neither records nor logs.
Polling ==
  /\ \/ \E c \in Historian :
          Poll!Start(c) \/ Poll!Handshake(c) \/ Poll!RtuReceive(c) \/ Poll!Refuse(c)
     \/ Poll!RtuStep \/ Poll!Tick
  /\ UNCHANGED <<rtuVars, logVars>>

\* historian.c:93-98: the answer is buf1 (rtu.c:74).
Receive(c) == Poll!Receive(c) /\ Log!Take(c, buf1) /\ UNCHANGED rtuVars

\* historian.c:125-152: the log is opened; main goes on when that failed or when
\* the line is written.
EventLog(c) ==
  /\ \/ Log!Open(c) /\ IF main'[c] = "poll" THEN Poll!Log(c) ELSE UNCHANGED pollVars
     \/ Log!Write(c) /\ Poll!Log(c)
  /\ UNCHANGED rtuVars

\* historian.c:39-43 and 88-95: the command q, or a call that fails.
Quit(c) == Poll!Quit(c) /\ (Log!Quit(c) \/ Log!Fail(c)) /\ UNCHANGED rtuVars

-----------------------------------------------------------------------------
Next ==
  \/ \E b \in Button : Edge(b) \/ Report(b)
  \/ Read \/ PrintEvents \/ RtuStart \/ RtuExit \/ Polling
  \/ \E c \in Historian : Receive(c) \/ EventLog(c) \/ Quit(c)

Spec == Init /\ [][Next]_vars

\* The reader thread runs when it can.
FairSpec == Spec /\ WF_vars(Read \/ PrintEvents)
-----------------------------------------------------------------------------
(* Properties                                                              *)

Records(s) == {s[i] : i \in 1..Len(s)}
InHand     == IF reader = "print" THEN {events} ELSE {}

\* All events are logged in the sequence in which they occurred
\* (docs/project.pdf, page 6), as far as the RTU's terminal goes: each record
\* there is one of the kernel module's, later than those above it, across
\* restarts of the RTU program (rtu.c:47-57).
PrintedInOrder ==
  /\ Records(terminal) \subseteq Records(reported)
  /\ \A i, j \in 1..Len(terminal) : i < j => terminal[i].event_tv < terminal[j].event_tv

\* No event is missing between two that are there (docs/project.pdf, page 10),
\* unless the FIFO was full (adc.c:105) or the RTU program ended with the record
\* in its hands (rtu.c:49): nothing waits behind what came later.
NothingSkipped ==
  \A r \in Records(terminal) : \A n \in 1..(r.event_tv - 1) :
    n \in gone \/ reported[n] \in Records(terminal)

\* Between two reports of the same edge of a button, the terminal has the
\* opposite one, or that report was dropped (adc.c:88-105): who reads the terminal
\* knows the levels of the buttons but for those.
AlternatesUnlessGone ==
  \A b \in Button, dir \in Level : \A i, j \in 1..Len(terminal) :
    /\ i < j
    /\ terminal[i].event_type = BtnEvent(b, dir)
    /\ terminal[j].event_type = BtnEvent(b, dir)
    => \E n \in terminal[i].event_tv .. terminal[j].event_tv :
         /\ reported[n].event_type = BtnEvent(b, 1 - dir)
         /\ n \in gone \/ reported[n] \in Records(terminal)

\* While an RTU program runs, a report that was not dropped is printed
\* (rtu.c:47-57), however the polling of the other thread goes.
ReportedPrinted ==
  \A n \in 1..MaxReports :
    n <= Len(reported) /\ rtu # "down"
      ~> rtu = "down" \/ n \in gone \/ \E r \in Records(terminal) : r.event_tv = n

\* The FIFO is the one of ButtonQueue, which AdcModule implements: the reader
\* thread takes reports out one at a time and from the front, across restarts of
\* the RTU program, and only the kernel module puts any in (adc.c:105, rtu.c:48).
Queue == INSTANCE ButtonQueue WITH up <- TRUE, fifo <- Types(fifo)

ImplementsButtonQueue == Queue!Spec

-----------------------------------------------------------------------------
(* The inductive invariant behind the order of the terminal.               *)

Increasing(s) == \A i, j \in 1..Len(s) : i < j => s[i].event_tv < s[j].event_tv

Earlier(A, B) == \A r \in A : \A s \in B : r.event_tv < s.event_tv

\* A report has its place as its number, and is in one of four places.
Accounted ==
  /\ \A n \in 1..Len(reported) : reported[n].event_tv = n
  /\ \A n \in 1..Len(reported) :
       n \in gone \/ reported[n] \in Records(terminal) \union InHand \union Records(fifo)
  /\ Records(terminal) \union InHand \union Records(fifo) \subseteq Records(reported)

Ordered ==
  /\ Increasing(terminal) /\ Increasing(fifo)
  /\ Earlier(Records(terminal), InHand \union Records(fifo))
  /\ Earlier(InHand, Records(fifo))

\* No thread survives its program.
EmptyHanded == rtu = "down" => reader = "read"

Places == OwnTypeOK /\ Buttons!TypeOK /\ Accounted /\ Ordered /\ EmptyHanded

\* The reports of a button alternate, and next is what the latest one is not.
ReportedBetween(i, j, type) == \E n \in i..j : reported[n].event_type = type

Alternating ==
  \A b \in Button, dir \in Level : \A i \in 1..Len(reported) :
    reported[i].event_type = BtnEvent(b, dir) =>
      /\ \A j \in 1..Len(reported) :
           i < j /\ reported[j].event_type = BtnEvent(b, dir)
             => ReportedBetween(i, j, BtnEvent(b, 1 - dir))
      /\ next[b] = dir => ReportedBetween(i, Len(reported), BtnEvent(b, 1 - dir))

SInv == Places /\ Alternating
=============================================================================
