# Verification of ece4220_scada

TLA+ models of the SCADA project in this repository: a remote terminal unit
(RTU, a TS-7250 board with push buttons) whose button events a historian on
another machine is to collect and log. The models are checked with TLC on small
instances and, for every value of the constants, with the TLA+ proof system.

## The system

| Part | Source | State | Operations |
| --- | --- | --- | --- |
| Kernel module | `rtu/kernel/adc.c` | GPIO port B registers (levels, interrupt status, armed direction), interrupt line 59, RT-FIFO 0 | `init_module`, `cleanup_module`, `button_handler` |
| Status record | `include/status.h` | - | the `status_t` that kernel module, RTU program and historian exchange, `enum rtu_event` |
| RTU program, reader thread | `rtu/user/rtu.c` `readFromKernel` | `events` | read a record from the FIFO, print it; `err()` ends the program |
| RTU program, sender thread | `rtu/user/rtu.c` `sendToHistorian` | `buf1`, `buf2`, `from`, the 10 ms period | receive a request, answer with `buf1`, wait for the period |
| Historian, main loop | `historian/historian.c` `main` | `event` | send HANDSHAKE, wait for an answer, `event_log` |
| Historian, log | `event_log`, `event_to_string`, `adc_to_volts` | `rtu_<id>_log.txt` | append one line per answer |
| Historian, commands | `command_receive`, `log_view` | `event_log.txt` | `l` merges and shows the logs, `q` exits |

The handler runs in interrupt context and hands records to the reader thread
through the FIFO. The reader prints them. Independently, the historian polls
the sender thread over UDP, one request at a time, and logs every answer. A
thread of the historian takes commands from the terminal meanwhile.

What is hard here:

* **Hardware concurrency.** Pins move between any two register accesses of the
  handler and of `init_module`; the handler flips the direction it listens for
  in software and acknowledges every button at once.
* **Start and stop.** `init_module` unmasks the interrupt before the FIFO
  exists, can fail in four places and does not undo what it did; a reload finds
  the registers as the previous load left them.
* **Overflow.** The FIFO holds one record; the result of `rtf_put` is ignored.
* **UDP.** Requests and answers can be lost, duplicated and reordered; nothing
  in a datagram tells one poll from another, and no wait has a timeout.
* **Files.** The log view runs `cat` and `sort` while logs are appended to.
* **Payload.** `buf1` is never written, and `rtu_id` never filled in.

What makes each part correct:

* Kernel module: a record names a button and a direction it really moved in; no
  edge is reported twice; nothing is acknowledged without a record; the levels in
  a record are true; a module that is not loaded leaves nothing
  behind (but for the handler of one whose `rtf_create` failed); latched
  interrupts do get handled, and edges that keep their distance all get a record.
* Polling: an answer per request and no more; an answer is newer than its
  request; polling goes on as long as the network permits, for each historian.
* Log: a line, once written, stays where it is; an answer gets its line unless the log
  cannot be opened or the process ends; a view shows every line logged
  before it, once, and by time (it does not sort by time).
* The whole: the RTU's terminal shows the events in the order in which they
  occurred, with no gaps but those of a full FIFO or a program that ended; an
  event of a button reaches the log (it does not).

What the system is meant to do is in `docs/project.pdf`, the assignment: events
logged in the sequence in which they occurred (page 6), every change of a switch
logged with time stamp and RTU number (page 8), updates without events too (page
8, E), and two events distinguished if they are some minimum time apart (page 9).

`PROJECT.json` lists the hazards at their lines with the properties about them.

## Modules

| Module | Models | Checked with | Proved in |
| --- | --- | --- | --- |
| `Status` | `status.h`: buttons, edges, the fields of a record that are filled in | | `StatusProofs` (lemmas) |
| `ButtonEvents` | what the interrupt promises, abstractly | | |
| `ButtonQueue` | what userspace can rely on at RT-FIFO 0, abstractly; built on `ButtonEvents` | | |
| `AdcModule` | `adc.c` | `MCAdcModule` | `AdcModuleProofs` |
| `FreshPoll` | what polling promises, abstractly | | |
| `PollCycle` | `sendToHistorian`, the historian's `main`, UDP | `MCPollCycle` | `PollCycleProofs` |
| `HistorianLog` | `event_log`, `command_receive`, `log_view` | `MCHistorianLog` | `HistorianLogProofs` |
| `Scada` | all parts together, with the FIFO and the reader thread | `MCScada` | `ScadaProofs`, `ScadaParts` |
| `ScadaUpdates` | `Scada` with a history of the updates of a historian | `MCScadaUpdates` | |

`Scada` composes `ButtonEvents`, `PollCycle` and `HistorianLog`. Kernel module and RTU
program meet at `ButtonQueue`: the FIFO holds the reports of `ButtonEvents` in the order
in which they are made, each once, but for those that find it full or missing.
`AdcModule` implements it, with a record counted as put from the moment it is made
(`Queued`), since nothing interrupts the handler between the two; and what `Scada`
does with its FIFO is a behaviour of it too.

### AdcModule

The variables `IntStsB` and `GPIOBIntType2` are the registers of the same names,
restricted to the buttons' bits; `pin` is what a read of `PBDR` gives; `edgeMode`
stands for `GPIOBIntEn` and `GPIOBIntType1`, which are only ever set. `mod` is the place of
`init_module` or `cleanup_module`, with one action for each group of lines that
another party can tell apart, in the code's order: `Insmod`, `SetupPort`,
`EnableEdges`, `ArmFalling`, `CheckAdc`, `RequestIrq`, `EnableIrq`, `CreateFifo`;
`DisableIrq`, `ReleaseIrq`, `DestroyFifo`. `EnableEdges` does lines 180 and 181 at once:
no handler can run between them, since the line is not requested yet, and the
level-sensitive interrupts a first load enables there are not latched. `hpc` is the place of the handler:
`Enter`, `Sample` (one read of the port per button), `Test` (one link of the
if / else if chain), `Toggle`, `Put`, `EndOfInterrupt`, `Leave`. The three copies of
the code for the three buttons are one action with the button in `hb`.

External: `PinEdge` (the pins and the edge detection of the EP9301), `FifoRead`
and `RtfPut` (RTAI). The EP9301 has one CPU: while the handler runs nothing but
the pins moves. A handler whose module failed to load is code that was freed;
calling it is undefined, so that either `Enter` or `Oops` happens.
Debouncing (line 183) filters edges before they count as such. The line voltage
is the constant 555, the time stamp the instant of `Put`; `rtu_id` and `led_status`
hold whatever the stack held and are read by nobody.

`unreported` is history: the directions of the edges of a button since its last
record. `moved` is history: the pins that moved since the handler was entered.
`orphaned` is history: `rtf_create` has failed, at the one point where a failing
`init_module` leaves a handler attached. `CleanExit` says what that leaves behind, which
is also that no later load gets the line, and that nothing else leaves anything.
`PutFindsFifo` names the two places where a record meets no FIFO: between lines 215 and
217, and in a handler left behind.
`crowded` is history: some edge came before everything the edges before it had
caused was dealt with, up to the reader taking the record (`Quiet`). Which events
may get lost is then said from both ends: if nothing is `crowded`, every press is
reported, in a record with the levels of one instant (`SpacedEdgesReported`); and among buttons latched together the lowest
wins (`ReportedUnlessLower`). `DropsOnlyHigher` says whose interrupts go unreported
when the handler acknowledges all of them: those of higher buttons, and those of pins
in `moved`, which came too late for the chain.

### PollCycle

`hist[c]` is the place of historian process `c` in its loop, `rtu` the place of the
sender thread. All requests are the same bytes, and so are all answers, so the
network is counts: `req[c]`, and the answers to `c`, which history splits into
`fresh[c]` (sent since the latest request of `c`) and `stale[c]` (older). Taking a
datagram from a count rather than a queue is what reordering and delay allow.
`from` is the program's one address variable, `Nobody` until it is first
written. A request on which `recvfrom` fails (`RtuReceiveFails`) is lost, and the
previous client answered again, since the code does not look at the result. It always
takes a request: the socket blocks, and the failures that would leave the queue alone
(a bad socket or buffer) do not arise from this code.
`behind` counts the 10 ms periods that have begun and that `rt_task_wait_period`
has not taken yet. `lost` and `dup` are history and bound the faults. `StarvedWaits` says what a lost datagram costs: a historian that lost more than was
sent it twice is waiting, and only quitting ends that. Several
historians may poll one RTU: the RTU answers whoever asks. A historian that is
started again is another member of `Historian`, since it has a new port.
The RTU program may exit and be started again. What an answer contains is
`Scada`'s. `FreshPoll`'s `tainted` are the historians one of whose datagrams was sent
twice, for which it promises nothing.

### HistorianLog

Several historian processes, one for each RTU, run in one directory; a process
started again is another member of `Process`. `main[p]` is the place of the main
thread: `Receive` (an answer comes, `Take`), `Open` (which may fail), `Write` (the line is buffered until
`fclose` or `exit` puts it at the end of the file), `Fail` (`error()`). `command[p]` is the
place of the command thread and of the children `system` starts for it: `View`,
then the pipeline `Cat1`, `Cat2`, `Sort` with the shell's `Truncate` anywhere before
`Sort` writes, then `Show`. `Quit` and `Fail` end both threads; children go on. Two
views at once write the same `event_log.txt`, each from the start of the file:
`WrittenOver` leaves the end of what the other has put there.
`log[id]` and `view` are the files, a line being the fields the properties tell
apart; the number of an answer stands for its time stamp. `base[p]` is history:
what was logged when `l` was typed. `alone` is history: the views no other one has
overlapped. `missed` is history: the answers that are written nowhere, since `fopen`
failed or the process ended with them; `AnswersAccounted` says that every other one is
held or in a log. `Sole(id)` says that one process writes the
log of RTU `id`; the lines there are then in the order of the answers
(`LoggedInOrder`), which they need not be if two write it. `IdOf` says what the RTU of a process fills in as `rtu_id`: 1 and 2 is
what `log_view` is written for, 0 is what the RTU program really sends.

### Scada

Conjunction of steps: `Receive` is a step of `PollCycle` and of `HistorianLog`, with the
contents of `buf1` (zero, as nothing writes it) as the answer; `EventLog` joins the
file operations to the log step of the polling; `Quit` ends both. `Report` joins the
report of `ButtonEvents` to the put into the FIFO, which drops the record when the
FIFO is full. `Read` and `PrintEvents` are the reader thread; `RtuExit` and `RtuStart` join
those of `PollCycle` to the end and start of that thread, with the FIFO living on in
the kernel. `reported` and `gone` are history: what the kernel module reported, and
which of that was dropped or lost with a program. The number of a report stands
for its time stamp. The network loses and duplicates nothing here (`PollCycle` is
about that), and nobody types `l` (`HistorianLog` is).

### ScadaUpdates

`Scada` with two history variables that only watch its steps: `asked`, the historians
whose latest request went out when the reader thread had read an event, and `updates`,
the answers to such requests that each has logged. A report counts as having reached
the log if any line of any log has its time stamp, whatever else is logged, since the
status is to be logged without events too.

## Runs

| Run | Question | Instance |
| --- | --- | --- |
| `adc_handler` | What may a record say, which edges are reported, does the module implement `ButtonQueue`, whose interrupts are dropped, does reporting go on? | 2 buttons, 1 load, every call may fail, `FairSpec` |
| `adc_reload` | Is an edge ever reported twice, what does a module that is not loaded leave behind, when does a put meet no FIFO? The inductive invariant `IInv` | 2 buttons, 2 loads, every call may fail |
| `poll_safe` | Turns conserved, outdated answers bounded, does polling implement `FreshPoll`, what becomes of a historian that lost a datagram? | 2 historians, each 1 loss and 2 duplicates, 2 RTU starts |
| `poll_live` | Does every historian go on logging? | 2 historians, 1 loss and 1 duplicate each, 2 starts, `FairSpec` |
| `log_view` | Is a line ever lost or overwritten, does an answer vanish, are the lines of a log in order, what does a view show? The invariant `HInv` | 2 processes, RTUs 1 and 2, both view, 2 answers |
| `scada_safe` | What does the RTU's terminal show of what the buttons did, and is the FIFO that of `ButtonQueue`? The invariant `SInv` | 2 buttons, 3 reports, 2 RTU starts, 1 historian, 1 answer, `FairSpec` |

Two buttons are enough for every order of two edges around each register access
and for both outcomes of the chain (found at the first link, found later); three
give the same kinds of step at more than eighty times the states, and the theorems hold for
any number up to the five the acknowledgement covers. One load shows the code on
fresh registers; two are needed to meet the registers of a predecessor and a
handler left by it. FIFO size 1 is the code's own; with size 2, where order in the
FIFO shows, `ImplementsButtonQueue` holds as well, at three million states. Two historians are the fewest
that can be confused with each other; one loss and one duplicate are enough to
lose a turn and to make up for it. In `poll_*` the system may stop (all historians
gone and no RTU start left), as in `log_*` once every process has exited, and in
`scada_*` once the reports are used up, so deadlock is not checked there; it is in
`adc_*`. In `log_view` two answers make two lines in one log or one in each; `LogsGrow`,
`ViewComplete` and `ViewSound` also hold with three answers, at eight million states.
In `scada_safe` three reports are the fewest with a report dropped between two of the
same direction of a button; four hold as well, at 1.2 million states.

### What the code does not do

These runs find a document or comment contradicted (`findings` in `PROJECT.json`):

| Run | Says | Does |
| --- | --- | --- |
| `adc_phase` | project.pdf, page 9: events some minimum time apart are both logged | a press and release faster than the handler leave it waiting for a release; the next press, however long after, is not latched |
| `adc_cleared` | adc.c:179 make sure interrupt is cleared | on a reload an edge latched before line 182 is reported in the wrong direction |
| `poll_stall` | project.pdf, page 8, E: the status is logged again and again, events or not | one lost datagram, and the historian waits for ever |
| `log_time` | sample log: the third field, by which `log_view` sorts, is the time | in the lines of `event_log` the third field is the level of button 0 |
| `log_ids` | README: the log can be viewed using `l`; status.h:24 `rtu_id` is filled in by userspace | nobody fills it in; lines go to `rtu_0_log.txt`, which is not shown |
| `scada_log` | README: button press events should show up in the Historian log | `buf1` is sent, which nobody writes: after two updates asked for when the RTU program had read the event, no line of the log is about it |

`scada_log` is a run of one button, one report, one start of the RTU program and two
answers. If the answer were made from `events` instead of `buf1` (and the RTU program did
not exit), the same run would find no violation, so it is `buf1` that it finds.

Three comments of `init_module` say what one line does, and need no run to refute:
line 182, "rising edge sensitive", arms falling edges; line 177, "Set buttons as
input", and line 178 write a logical or, which is 1, and so touch bit 0 only.

## Fairness

`AdcModule!FairSpec` assumes weak fairness of the handler as a whole: an interrupt
that is pending and unmasked is delivered, and a handler that runs gets to its
end, since nothing preempts it. Nothing is assumed of pins, reader, insmod, rmmod.

`Scada!FairSpec` assumes weak fairness of the reader thread alone: it runs when it
has something to do. Nothing is assumed of the sender thread, whose blocking calls
hold up nobody but itself.

`PollCycle!FairSpec` assumes weak fairness of the steps of both programs (they are
threads the scheduler runs when they can) and of time, and strong fairness of
taking a request of each historian: the receive buffer of the socket is a queue,
so a request that waits is taken after finitely many others, although the sender
is busy in between. Datagrams that are not lost arrive, which is the weak
fairness of `Receive`. Nothing is assumed of starts, exits and faults.

## Proofs

`AdcModuleProofs` proves, for every number of buttons up to five, FIFO size, number
of loads and set of failing calls:

* `TypeCorrect`, and `Invariance`: the inductive invariant `IInv` always holds;
* `EdgesReportedOnce`, `SnapshotsFaithful`, `PutsFindFifo`, `NoServiceEmpty`;
* `DroppedOnlyByLower`: the handler drops the interrupts of higher buttons only;
* `SpacedEdges`, whose property speaks of the first load;
* `RealEdgesReported`, whose property speaks of the first load;
* `ExitsClean`, whatever calls fail: what a module that is not loaded leaves behind;
* `RefinesButtonQueue`, assuming one load: the module implements `ButtonQueue`.

None of the properties is inductive. `NoEdgeTwice` needs to know that every latched
button has an edge that was not reported (`Backed`), which the handler breaks
between record and acknowledgement for the one button it deals with, and that
the chain only stops at a latched button (`Found`). `SnapshotFaithful` needs the
prefix of levels read so far (`Sampled`), `DropsOnlyHigher` that a latched button the
chain has passed moved after it had looked there (`Passed`). `RealEdgesReported` needs that on the first
load nothing is latched before the directions are set (`FirstLoad`), which is
exactly what a reload breaks. `SpacedEdges` needs `Spaced`: as long as edges come one
at a time, at most one button is latched, the FIFO is empty until it is put, and
every other button is `InPhase`, waiting for the edge its pin will have next or, if
its first edge was a release, for the one after; no pin moves while the handler runs, so
that what `Sampled` says of the levels is true of all of them. `ExitsClean` and
`PutsFindFifo` need `Stages`, which ties handler, line and FIFO to the place of `init_module`
and `cleanup_module`, or to a handler left behind (`orphaned`). The refinement rests on
`IInv`: that a report is owed when it is made is `Found` and `FirstLoad`, that a FIFO is
only created where there is none is `Stages`. What it needs about the events in a FIFO
(`Types` of a sequence after a put and a read) is proved once in `StatusProofs`. It
assumes one load because on the second one the directions still armed may report an
edge that did not happen (`adc_cleared`). The assumption that there
are at most five buttons is needed: the handler acknowledges bits 0 to 4.

`PollCycleProofs` proves, for any set of historians and any numbers of losses,
duplicates and restarts, `PollTypeCorrect`, `PollInvariance`, `TurnsConserved`,
`StaleAnswersBounded`, `TheStarvedWait` and `RefinesFreshPoll`. The inductive invariant `PInv` says for each
historian that what goes round between it and the RTU (datagrams, the request
the sender holds, its own turn) is one, plus duplicates, minus losses. Outdated
answers are bounded because at the moment of a request the turn is the
historian's own, so whatever else goes round is a duplicate. A historian that lost
more than was duplicated has no turn left anywhere, so it can only be waiting.

`HistorianLogProofs` proves, for any number of processes and viewers, any `rtu_id`s and
any number of answers, `LogTypeCorrect`, `LogInvariance`, `LogsOnlyGrow`, `NoAnswerVanishes`,
`LinesInOrder`, `ViewsAreComplete` and `ViewsAreSound`. The invariant `HInv` follows a line from its arrival: it is held by
one main thread or stands once in the log of its RTU (`Unique`), or is `missed`
(`AnswersAccounted`); what the only writer
of a log holds is later than what is there (`InTurn`, part of `Sequenced`); the children of a
view have each line once, and all that the view has to show (`Reading`: this is where
it matters that logs only grow between the two reads of `cat`); and a view no other
has overlapped finds `event_log.txt` empty when it sorts, and what it read in it
afterwards (`Alone`). That what `sort` writes has the lines of what it read is a lemma
about permutations; that no view reads more lines than there were answers, which
keeps the state finite, one about injections (`Pigeonhole`).

`ScadaProofs` proves, for any number of buttons, historians, reports and restarts and
any size of the FIFO, `ScadaInvariance`, `PrintsInOrder`, `NothingIsSkipped` and `PrintsAlternate`.
The invariant `SInv` says that each report is in one of four places, dropped or lost,
printed, in the reader's hands, in the FIFO (`Accounted`), that the last three are in
the order of the reports (`Ordered`), and that the reports themselves alternate
(`Alternating`), which needs that `next` is what the latest report of a button is not.

`ScadaParts` carries what was proved of the parts over to the whole. It instantiates
`PollCycleProofs` and `HistorianLogProofs` as `Scada` instantiates their modules, proves
the assumptions of those modules for the constants they get there, and shows that each
step of `Scada` is a step of the part or leaves it alone. So the whole polls as
`PollCycle` does (`ScadaPolls`), its turns are conserved (`ScadaConservesTurns`), a historian
of it that lost a datagram waits (`ScadaStarvedWaits`), the others log answers to their
latest request only (`ScadaPollsAreFresh`), and logged lines stay (`ScadaLogsGrow`).
`ScadaTypeCorrect` adds to the types of the parts that polling and logging agree on where
a historian stands (`Agree`), which is what keeps their joint steps joint.
`ScadaUsesButtonQueue` closes the chain from the other end: with `RefinesButtonQueue`,
the records the reader thread takes are those the kernel module puts.

Only model-checked: the liveness properties `Acknowledged`, `ReportedUnlessLower`,
`KeepsReporting`, `PollsOn` and `ReportedPrinted`, since liveness under fairness is outside
what the prover handles. What `Scada` leaves out of the network (loss and duplication) is
proved of `PollCycle` alone, and what it leaves out of the log view of `HistorianLog`.

## Plan

All modules of the plan are written, checked and proved about. In the order in
which they were built, the most important behaviour first:

1. `Status`, `ButtonEvents`, `ButtonQueue`, `AdcModule` and its proofs.
2. `FreshPoll`, `PollCycle` and its proofs.
3. `HistorianLog` and its proofs.
4. `Scada`, which composes them, and its proofs; `ScadaUpdates`.

What would come next: a lossy network in `Scada`, where `ScadaPolls` would carry over as it
is, and the payload of several RTUs that fill in `buf1` and `rtu_id`, once the code does.

## Not modelled

The ADC (checked for presence, never read), time stamps' values, the wording of
what the reader prints, the text of log lines (`event_to_string`, `adc_to_volts`), the
layout of `status_t` on the two machines, host name lookup, the Makefiles. LED
commands exist in a comment of `command_receive` only, and the line events only in
`enum rtu_event`: no code produces them.

The project's own code is six hundred lines in four files, all of which the
models cover but for comments, includes, declarations and formatting. The other
five thousand files of the repository are headers of RTAI and of Linux for many
architectures (`include/linux24`, `include/realtime`), copied there for the kernel
module's build. They are third-party, and most are never included; what the
program uses of them (`rtf_put`, `rt_request_irq`, `rt_task_wait_period`, module loading)
is modelled as it is used. So the lines modelled are a tiny share of the lines in the
repository, and more cannot be modelled faithfully.

Hazards without a property: the masks of adc.c:177 are constants, and nothing
reads what they set; the burst after idle time (rtu.c:75) happens in `PollCycle`, but
the rate the documents speak of (an update every second) is not what the 10 ms
period is about; an event type out of range
(historian.c:169) is never sent by the programs of this repository.
