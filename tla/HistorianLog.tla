---------------------------- MODULE HistorianLog ----------------------------
(***************************************************************************)
(* historian/historian.c: event_log and log_view.  Historian processes,    *)
(* one for each RTU, run in one directory: each appends to the log named   *)
(* by the rtu_id of what it received, and the command l has child          *)
(* processes merge the logs into event_log.txt and show it, while the main *)
(* threads go on logging.                                                  *)
(***************************************************************************)
EXTENDS Naturals, Sequences

CONSTANTS
  Process,    \* historian processes in this directory
  Viewer,     \* those at whose terminal l is typed
  IdOf,       \* IdOf[p]: the rtu_id in the answers p receives
  MaxEvents   \* bound: answers received by all of them

ASSUME LogAssumption ==
  /\ Viewer \subseteq Process
  /\ IdOf \in [Process -> 0..2]
  /\ MaxEvents \in Nat

VARIABLES
  log,      \* log[id]: the lines of rtu_<id>_log.txt
  view,     \* the lines of event_log.txt
  main,     \* where the main thread of p stands
  event,    \* the answer the main thread of p holds
  command,  \* where the command thread of p stands
  empty,    \* the processes whose sort has emptied event_log.txt
  got,      \* got[p]: what cat has read so far
  base,     \* history: base[p], the lines that were logged when l was typed
  alone,    \* history: those that since l was typed were alone in viewing
  received, \* number of answers so far
  missed    \* history: the answers that were received and are written nowhere

mainVars == <<main, event, received, missed>>
viewVars == <<command, empty, got, base, alone>>
vars == <<log, view, mainVars, viewVars>>

\* A line of a log.  Its number stands for the time stamp: answers are
\* numbered as they come, and all other fields follow from these.
Line == [rtu_id : 0..2, time : 0..MaxEvents, btn0 : {0, 1}]

\* Line 84: bzero of the event before each poll.
NoLine == [rtu_id |-> 0, time |-> 0, btn0 |-> 0]

Lines(s) == {s[i] : i \in 1..Len(s)}

TypeOK ==
  /\ log \in [0..2 -> Seq(Line)] /\ view \in Seq(Line)
  /\ main \in [Process -> {"poll", "open", "write", "exit"}]
  /\ command \in [Process -> {"prompt", "cat1", "cat2", "sort", "show", "closed"}]
  /\ event \in [Process -> Line]
  /\ got \in [Process -> Seq(Line)]
  /\ \A p \in Process : Len(got[p]) <= received
  /\ base \in [Process -> SUBSET Line]
  /\ empty \subseteq Viewer /\ alone \subseteq Viewer
  /\ received \in 0..MaxEvents /\ missed \subseteq 0..MaxEvents

Init ==
  /\ log = [id \in 0..2 |-> <<>>] /\ view = <<>>
  /\ main = [p \in Process |-> "poll"]
  /\ event = [p \in Process |-> NoLine]
  /\ command = [p \in Process |-> "prompt"]
  /\ empty = {}
  /\ got = [p \in Process |-> <<>>]
  /\ base = [p \in Process |-> {}] /\ alone = {}
  /\ received = 0 /\ missed = {}

-----------------------------------------------------------------------------
(* The main thread: event_log                                              *)

\* An answer is in the hands of the main thread of p.
Holds(p) == main[p] \in {"open", "write"}

\* Lines 93-98: an answer is there, event_log is called.
Take(p, line) ==
  /\ main[p] = "poll" /\ received < MaxEvents
  /\ received' = received + 1
  /\ event' = [event EXCEPT ![p] = line]
  /\ main' = [main EXCEPT ![p] = "open"]
  /\ UNCHANGED <<log, view, missed, viewVars>>

\* The answers that may come.
Answer(p) == [rtu_id : {IdOf[p]}, time : {received + 1}, btn0 : {0, 1}]

Receive(p) == \E line \in Answer(p) : Take(p, line)

\* Lines 128-132: fopen may fail, and main does not look at the result.
Open(p) ==
  /\ main[p] = "open"
  /\ \/ main' = [main EXCEPT ![p] = "write"] /\ UNCHANGED missed
     \/ /\ main' = [main EXCEPT ![p] = "poll"]
        /\ missed' = missed \union {event[p].time}
  /\ UNCHANGED <<log, view, event, received, viewVars>>

\* A bug the properties must notice: the file is opened for writing afresh.
Rewritten(s, line) == <<line>>

\* A bug the properties must notice: the line goes to the start of the file.
Prepended(s, line) == <<line>> \o s

\* fopen with "a+" (line 129): what is written goes to the end of the file.
Appended(s, line) == Append(s, line)

\* Lines 134-150: the line is formatted and buffered; fclose writes it at once.
Write(p) ==
  /\ main[p] = "write"
  /\ log' = [log EXCEPT ![event[p].rtu_id] = Appended(@, event[p])]
  /\ main' = [main EXCEPT ![p] = "poll"]
  /\ UNCHANGED <<view, event, received, missed, viewVars>>

\* Lines 88-95 and 180-186: sendto or recvfrom fails and error() ends the process
\* with both threads.  The children of the first pipeline go on without it.
Fail(p) ==
  /\ main[p] = "poll"
  /\ main' = [main EXCEPT ![p] = "exit"]
  /\ command' = [command EXCEPT ![p] = IF @ = "prompt" THEN "closed" ELSE @]
  /\ UNCHANGED <<log, view, event, received, missed, empty, got, base, alone>>

-----------------------------------------------------------------------------
(* The command thread                                                      *)

\* The processes with a child that may still write event_log.txt.
Merging == {p \in Process : command[p] \in {"cat1", "cat2", "sort"}}

Goto(p, from, to) == command[p] = from /\ command' = [command EXCEPT ![p] = to]

\* Lines 31-43: q ends the process.  exit() writes out what the main thread
\* has buffered, which may be nothing yet.
Quit(p) ==
  /\ Goto(p, "prompt", "closed") /\ main[p] # "exit"
  /\ main' = [main EXCEPT ![p] = "exit"]
  /\ \/ main[p] = "write"
        /\ log' = [log EXCEPT ![event[p].rtu_id] = Appended(@, event[p])]
        /\ UNCHANGED missed
     \/ /\ missed' = IF Holds(p) THEN missed \union {event[p].time} ELSE missed
        /\ UNCHANGED log
  /\ UNCHANGED <<view, event, received, empty, got, base, alone>>

\* Line 31: at the end of the input the thread ends; the main thread goes on.
EndOfInput(p) ==
  /\ Goto(p, "prompt", "closed")
  /\ UNCHANGED <<log, view, mainVars, empty, got, base, alone>>

\* Lines 113-116: l starts the first pipeline.
View(p) ==
  /\ p \in Viewer /\ Goto(p, "prompt", "cat1")
  /\ got' = [got EXCEPT ![p] = <<>>]
  /\ empty' = empty \ {p}
  /\ base' = [base EXCEPT ![p] = UNION {Lines(log[id]) : id \in 0..2}]
  /\ alone' = IF Merging = {} THEN {p} ELSE {}
  /\ UNCHANGED <<log, view, mainVars>>

\* The redirection empties event_log.txt at some time before sort writes.
Truncate(p) ==
  /\ command[p] \in {"cat1", "cat2", "sort"} /\ p \notin empty
  /\ view' = <<>> /\ empty' = empty \union {p}
  /\ UNCHANGED <<log, mainVars, command, got, base, alone>>

\* A bug the properties must notice: the first log is read again.
FirstAgain(s) == s \o log[1] \o log[1]

\* A bug the properties must notice: only the second log is sorted.
SecondOnly(s) == log[2]

\* A bug the properties must notice: cat *_log.txt, which is event_log.txt too.
EveryLog(s) == s \o log[2] \o view

\* cat rtu_1_log.txt rtu_2_log.txt: one file after the other.
WithFirst(s)  == s \o log[1]
WithSecond(s) == s \o log[2]

Cat1(p) ==
  /\ Goto(p, "cat1", "cat2")
  /\ got' = [got EXCEPT ![p] = WithFirst(@)]
  /\ UNCHANGED <<log, view, mainVars, empty, base, alone>>

Cat2(p) ==
  /\ Goto(p, "cat2", "sort")
  /\ got' = [got EXCEPT ![p] = WithSecond(@)]
  /\ UNCHANGED <<log, view, mainVars, empty, base, alone>>

\* sort -t'|' -k3 -n: a line is rtu_id|time|btn0|..., so its third field is the
\* level of button 0; lines that agree there are ordered as text.
Before(l, m) ==
  \/ l.btn0 < m.btn0
  \/ l.btn0 = m.btn0 /\ l.rtu_id < m.rtu_id
  \/ l.btn0 = m.btn0 /\ l.rtu_id = m.rtu_id /\ l.time < m.time

Permutation(n) ==
  {f \in [1..n -> 1..n] : \A k \in 1..n : \E i \in 1..n :
     f[i] = k /\ \A j \in 1..n : f[j] = k => j = i}

Sorted(s) ==
  LET shuffled(f) == [i \in 1..Len(s) |-> s[f[i]]]
      inOrder(t)  == \A i, j \in 1..Len(s) : i < j => ~Before(t[j], t[i])
  IN  {t \in {shuffled(f) : f \in Permutation(Len(s))} : inOrder(t)}

\* sort writes from the start of the file it has open: if another process has
\* put more there meanwhile, its end remains.
WrittenOver(file, s) ==
  IF Len(file) <= Len(s) THEN s ELSE s \o SubSeq(file, Len(s) + 1, Len(file))

Sort(p) ==
  /\ Goto(p, "sort", "show") /\ p \in empty
  /\ \E s \in Sorted(got[p]) : view' = WrittenOver(view, s)
  /\ UNCHANGED <<log, mainVars, empty, got, base, alone>>

\* Line 117: cat event_log.txt, and back to the prompt.
Show(p) ==
  /\ Goto(p, "show", "prompt") /\ main[p] # "exit"
  /\ got' = [got EXCEPT ![p] = <<>>]
  /\ empty' = empty \ {p}
  /\ base' = [base EXCEPT ![p] = {}]
  /\ alone' = alone \ {p}
  /\ UNCHANGED <<log, view, mainVars>>

-----------------------------------------------------------------------------
EventLog(p) == Receive(p) \/ Open(p) \/ Write(p) \/ Fail(p)
LogView(p)  == View(p) \/ Truncate(p) \/ Cat1(p) \/ Cat2(p) \/ Sort(p) \/ Show(p)

Next == \E p \in Process : EventLog(p) \/ LogView(p) \/ Quit(p) \/ EndOfInput(p)

Spec == Init /\ [][Next]_vars

-----------------------------------------------------------------------------
(* Properties *)

\* What has been logged stays, and new lines come after it, whoever logs, shows
\* the logs or quits in the middle of a line (fopen with "a+", line 129).
LogsGrow ==
  [][\A id \in 0..2 : \A i \in 1..Len(log[id]) :
       i <= Len(log'[id]) /\ log'[id][i] = log[id][i]]_vars

\* All events are logged in the sequence in which they occurred (docs/project.pdf,
\* page 6), as far as event_log goes: if one process only receives the rtu_id of a
\* log, its lines are in the order in which the answers came (historian.c:98).
Sole(id) == \A p, q \in Process : IdOf[p] = id /\ IdOf[q] = id => p = q

LoggedInOrder ==
  \A id \in 0..2 : Sole(id) =>
    \A i, j \in 1..Len(log[id]) : i < j => log[id][i].time < log[id][j].time

\* What becomes of an answer (historian.c:97-100, 125-152, 41-43): it is held by
\* the main thread of the process that received it, or in a log, and in neither
\* only if its log could not be opened or its process ended before writing it out.
Held   == {event[p].time : p \in {q \in Process : Holds(q)}}
Logged == UNION {{l.time : l \in Lines(log[id])} : id \in 0..2}

AnswersAccounted ==
  /\ 1..received = Logged \union Held \union missed
  /\ missed \intersect (Logged \union Held) = {}

\* The process p is about to show a file that only its own command has written.
Shows(p) == command[p] = "show" /\ p \in alone

\* Every line of RTU 1 or 2 that was in a log when l was typed is shown, also
\* when the logs grow meanwhile and other views, or a process that ended in the
\* middle of one, have left anything in event_log.txt (line 114).
ViewComplete ==
  \A p \in Viewer : Shows(p) =>
    {l \in base[p] : l.rtu_id \in {1, 2}} \subseteq Lines(view)

\* What is shown has been logged, and no line is shown twice (line 114).
ViewSound ==
  \A p \in Viewer : Shows(p) =>
    /\ Lines(view) \subseteq Lines(log[1]) \union Lines(log[2])
    /\ \A i, j \in 1..Len(view) : view[i] = view[j] => i = j

\* The merged log is in the order of time, as the third field of the lines in
\* historian/tests is the time.  It is not: the third field of a line that
\* event_log writes (line 133) is the level of button 0.
ViewByTime ==
  \A p \in Viewer : Shows(p) =>
    \A i, j \in 1..Len(view) : i < j => view[i].time < view[j].time

\* The log can be viewed using l (README.md:28): what was logged is shown.  It
\* is not when nobody has filled in the rtu_id, which is then 0.
EverythingLoggedShown ==
  \A p \in Viewer : Shows(p) => base[p] \subseteq Lines(view)

-----------------------------------------------------------------------------
(* The inductive invariant behind the safety properties, in named parts.   *)

\* Every answer that is held or logged has a time of its own, and each log has
\* the lines of its RTU.
Unique ==
  /\ \A id, jd \in 0..2 : \A i \in 1..Len(log[id]), j \in 1..Len(log[jd]) :
       log[id][i].time = log[jd][j].time => id = jd /\ i = j
  /\ \A id \in 0..2 : \A i \in 1..Len(log[id]) :
       log[id][i].rtu_id = id /\ log[id][i].time \in 1..received
  /\ \A p \in Process : Holds(p) =>
       /\ event[p].time \in 1..received
       /\ \A id \in 0..2 : \A i \in 1..Len(log[id]) : log[id][i].time # event[p].time
       /\ \A q \in Process \ {p} : Holds(q) => event[q].time # event[p].time

\* What p holds is later than all of its log, if nobody else writes there.
InTurn(p) ==
  Holds(p) =>
    /\ event[p].rtu_id = IdOf[p]
    /\ Sole(IdOf[p]) => \A i \in 1..Len(log[IdOf[p]]) : log[IdOf[p]][i].time < event[p].time

Sequenced == LoggedInOrder /\ \A p \in Process : InTurn(p)

\* What the children of a view have read: each line once, all that base asks for.
Once(s) == \A i, j \in 1..Len(s) : s[i] = s[j] => i = j

OfId(p, id) == {l \in base[p] : l.rtu_id = id}

ReadBy(p) ==
  /\ base[p] \subseteq UNION {Lines(log[id]) : id \in 0..2}
  /\ command[p] \in {"cat1", "cat2", "sort", "show"} => p \in Viewer
  /\ command[p] \in {"prompt", "closed", "cat1"} => got[p] = <<>>
  /\ command[p] = "cat2" =>
       Once(got[p]) /\ OfId(p, 1) \subseteq Lines(got[p])
         /\ Lines(got[p]) \subseteq Lines(log[1])
  /\ command[p] \in {"sort", "show"} =>
       Once(got[p]) /\ OfId(p, 1) \union OfId(p, 2) \subseteq Lines(got[p])
         /\ Lines(got[p]) \subseteq Lines(log[1]) \union Lines(log[2])

Reading == \A p \in Process : ReadBy(p)

\* A view that is alone finds event_log.txt empty, and leaves in it what it read.
Alone ==
  \A p \in alone :
    /\ alone = {p} /\ Merging \subseteq {p} /\ command[p] \notin {"prompt", "closed"}
    /\ p \in empty /\ p \in Merging => view = <<>>
    /\ command[p] = "show" => Once(view) /\ Lines(view) = Lines(got[p])

HInv == TypeOK /\ Unique /\ AnswersAccounted /\ Sequenced /\ Reading /\ Alone
=============================================================================
