# suaegi: models, checks and proofs

suaegi is a Rust rewrite of a desktop application that runs AI coding agents in
parallel: every agent is a program in a pseudo-terminal, hosted in the
application or in a daemon beside it, and an orchestration layer lets agents,
tasks and machines exchange mail. This directory holds TLA+ models of the parts
of it that are concurrent, that fail half-way or that must survive a crash, the
TLC configurations that check them, and theorems that TLAPS has checked. The
definitions are translated from the source; `PROJECT.json` maps each of them to
the lines it stands for.

To run a check: `tlc -config SessionView_all.cfg MCSessionView`. To check a
proof: `tlapm SessionViewProofs.tla`.

## 1. The system

Paths are relative to `src/crates/`.

| Part | Source | State it keeps | Operations | Model |
|---|---|---|---|---|
| PTY session | `suaegi-term/src/pty.rs` | child handle, `Lifecycle {reaping, reaped, exit_code}`, two mutexes | spawn, try_wait, wait, kill, Drop | `PtyLifecycle` |
| Terminal session | `suaegi-term/src/session.rs` | grid, generation, input and reply queues, reader and writer threads | input, resize, snapshot, kill, Drop | grid, generation and resize in `SessionView`; queues planned |
| PTY daemon, sessions | `suaegi-term/src/daemon/server.rs`, `client.rs` | numbered history, subscribers with bounded queues, exit code | CreateOrAttach, Subscribe, publish, Kill | `DaemonStream` |
| PTY daemon, launch | the same files | launch lock, socket, process and identity files | ensure_daemon, restart, Shutdown, cleanup | `DaemonLaunch` |
| Session store, feed, reaper | `suaegi-app/src/session_store.rs`, `workbench.rs`, `reaper.rs` | slots with snapshot, in-flight guards, resize coalescer, waiting copy | snapshots, resize, copy, close | `SessionView`, abstract `LatestWins` |
| Data file | `suaegi-core/src/persistence.rs` | `data.json`, five backups, last hash, schema guard | load, save, override | `Persistence`, abstract `DataFile` |
| Persistence worker | `suaegi-app/src/persistence_thread.rs` | request queue, pending snapshot, reports | save, override, begin_shutdown, Drop | `PersistenceThread`, abstract `LatestWins` |
| Federation relay | `suaegi-app/src/orchestration.rs`, `runtime_server.rs` | Dispatch, Task, attachment, two relay queues with cursors | worker-start/stop/abandon, send, reply, synchronise | `Federation`, abstract `RelayChannel` |
| Local tasks, gates, mail | `suaegi-app/src/orchestration.rs` | tasks with dependencies, gates, Dispatches, mailboxes | create, update, gate, dispatch, worker_done, send, ask, reply, check, reset | `Orchestration`, abstract `Mailboxes` |
| Presence, prompt injection, agent status | `presence_poll.rs`, `prompt_inject.rs`, `agent_status/` | probe generations, readiness, per-pane status | probe, inject, hook events | planned |
| Layout, tab closing, agent roster | `layout.rs`, `suaegi-tabclose`, `suaegi-claude-roster` | pane trees, rosters | pure functions | planned as functions |
| Everything else | 20 further crates and the views | - | git, forges, trackers, schedules, plugins, SSH, VMs, string helpers | not modelled, see section 7 |

How they interact:

- A pane owns a `TerminalSession`, shared through `Arc`s with the feed, the
  snapshot and resize workers, the killer and the reaper. Its back end is a
  `PtySession` or a `DaemonClientSession`, whose reads come from the daemon's
  stream. The reader thread feeds the grid and counts a *generation*; the feed
  polls that number and tells the UI thread (`SessionDirty`), which starts
  workers and shows their results.
- The UI thread sends states to the persistence worker over a channel; the
  worker alone calls `Store::save`. Headless runtime commands write the same
  file from other processes.
- Each machine keeps its orchestration state in one JSON file, read, changed
  and renamed under a file lock. A home machine's background loop and its CLI
  commands call the worker machine's runtime (pull, acknowledge, import, stop);
  nothing is held between two such calls. Agents on one machine run the same
  commands against the same file.
- Applications and command lines that share a runtime directory share one
  daemon. What they know of it and of each other are four files there.

What is hard about each part, and what makes it correct:

- **PTY session**: a pid must not be signalled after it was reaped, try_wait
  must not park, and no path may leave a zombie. The two mutexes are taken in
  both orders unless `reaping` is honoured.
- **Daemon streams**: subscribing races with publishing and with the exit;
  queues and history are bounded. Clients must see no silent hole, a true exit,
  and must not answer terminal queries twice.
- **Session view**: changes are made first and counted later; results of
  workers come late or not at all; the pane may be closed under them. The screen
  must not go back, must catch up, sizes must agree, a copy must be of the text
  the user selected, and the blocking destructor must not run on the UI thread.
- **Data file**: a crash or an error between any two file operations of a save.
  Backups must stay in order and the last good copy must survive.
- **Persistence worker**: a request is superseded, flushed at shutdown or when
  the handle vanishes; each must be reported once.
- **Daemon launch**: several processes find the socket dead at once, the owner
  of the launch lock dies, a daemon leaves while another starts. There must be a
  single instance, and every call must come back.
- **Orchestration**: every command is a transaction, yet a task is moved by
  several of them (dispatch, gates, reports, updates, a start on another server
  and its late answer) that do not know of each other, and `check` is two
  transactions and a print, between which it may be killed. A task with an open
  question should not be offered, nor before what it depends on, and no mail is
  acknowledged unread.
- **Federation**: requests are lost, repeated and answered late, and several
  processes synchronise one Dispatch. Mail must be stored in order, once, and
  dropped only when stored.

## 2. The modules

Each module describes one component, with one action per handler or per stretch
of code between two points at which another thread, process or failure can
interfere. A definition marked `Slip` is a plausible mistake; it is no part of
`Next`. Each property of a passing run has at least one slip that violates it.

### PtyLifecycle
Threads: any number of callers, the reader thread, and the owner of the session
(spawn, and Drop once the last `Arc` is gone). `pc` names the mutex block a
thread is in; `lifecycleLock` and `childLock` are the mutexes; `child` and
`status` are the kernel's view. `TryWaitEnter`/`TryWaitChild`,
`WaitEnter`/`WaitLockChild`/`WaitReap`/`WaitRecord`,
`KillEnter`/`KillGroup`/`KillChild` and `DropStarts`/`DropChecks` are the code of
the methods of those names. The reader kills and then waits when the terminal
reaches end of file (`session.rs` 144-158). `RawWaiters` is the set of callers
that use `wait()` directly; no product caller does, the run has one to show that
the safety properties do not need its absence.

### DaemonStream
One session in the daemon. `pub` is where its reader thread is: *numbered*
(`next_sequence` taken), *retained* (in the history), then offered to every
subscriber; at the end the exit code is stored, `running` cleared, the exit
offered. Clients attach, then subscribe on a second connection; a full queue ends
a subscription. Handler and socket are one FIFO per client. The module hosts a
single incarnation of the session.

### SessionView
The slot of one session: reader, terminal command on the UI thread, feed,
snapshot workers, resize workers with the coalescer and the `resize_lock`, the
close of the pane with killer and reaper. The grid's content is the number of
changes made to it, a size is the sequence number of the request that asked for
it. `Holders` are the `Arc`s. Messages of one source are in order, of two
sources in any order. Each UI message is one step, except a terminal command,
whose effect on the grid, its count and its requests for a snapshot and a copy
are three, because reader and workers can run in between.

The selected text is the number of the change that made it what it is, 0 for
none. Output leaves it, writes over it or drops the selection; the mouse makes,
extends or drops it; a resize leaves, moves, clips or drops it. `EpochAfterFeed`
and `EpochIfChanged` are the two rules by which `selection_epoch` follows. A copy
(`CopySelection`, or the release that ends a drag) carries the epoch; the worker
compares it under the grid's lock (`Extracted`). `clipboard` is the primary one,
which every copy is written to.
End of output and a scroll that moves nothing are counted like changes. Two
things the code tolerates are not in the model: a killer thread that cannot be
started (kill then runs on the caller's thread) and a panic between the PTY half
and the grid half of a resize.

A resize may fail with the PTY untouched (`ResizePtyFails`). With a daemon behind
it it may also fail although the daemon has the request (`ResizePtyUnanswered`):
the answer is not read within `RPC_TIMEOUT` and the worker gives up before the
grid's half. The daemon serves the request later or never (`ResizeComesLate`), and
from then on the control connection is out of step (`outOfStep`): every request
reads the answer to an earlier one, whose id does not match, and fails, though the
daemon carries it out.

### DataFile, Persistence
`DataFile` is what the store promises, without files: one durable state, replaced
at once by a save, found by the next start; damage goes back to an older state,
and only while the main file is damaged may a save that fails lose what is left.
`Persistence` is the data file with its backups. A file is its kind (absent, intact with a stamp,
corrupt, unreadable, of a newer schema). Every file operation of `save` is a
step: temporary file, removal of the oldest backup, the shifts, the copy, the
rename. Any call may fail, the process may die between any two and inside the
copy; while it is off the disk may damage files and a newer version may write
them. Saves that are refused or skipped change nothing and are no steps.
`StartsFindTheLastSave` is `DataFile` with `durable` mapped to what `Load` would
find in the files as they lie, so that of a whole save only the rename is seen
(once the main file is damaged, also the copy or removal of the last intact
backup); a file of a newer version counts as damage there, because this one cannot
read it.

### LatestWins, PersistenceThread
`LatestWins` is a worker that coalesces numbered requests: it serves them in
order, and leaves one out only for a newer one that waits or was served.
`PersistenceThread` is handle and worker. A request stands for its content. `ReceiveSave` replaces the
pending request and reports the old one as superseded, `Timeout` is the end of
the debounce, `Disconnected` flushes, `ReceiveShutdown` saves its own state and
ends. What a save does to the files is `Persistence`. `NewestStateIsSaved` is
`LatestWins` with the disk as `served` and what is queued, pending or being
saved as `waiting`; the resizing of `SessionView` implements the same module
(`NewestSizeIsSet`, with the PTY's size as `served`).

### DaemonLaunch
Processes that call `ensure_daemon` or `restart` and the daemons they start, over
the runtime directory they share. `pc` and `dpc` say where each is; `lock` is the
process whose launch lock is there, `sock`, `pidFile` and `idFile` the daemon
each file names, `read` the owner a waiter has read from a lock, `known` the
daemon a restart has identified. A restart whose Shutdown is not answered first
kills all sessions (`Sweep`, `Kill`): every connection it opens for that runs
`ensure_daemon` again, so it may take the lock, remove a socket and start a daemon
before it terminates the one it has identified. A daemon's list of sessions is
finite: `MaxSweeps` bounds those connections. Every file operation is a step, deadlines pass
at any time, any process or daemon can be killed. `stolen` records that a
takeover removed a lock other than the one it had read.

### Mailboxes, Orchestration
`Mailboxes` says what recipients may rely on: a box each, whose mail is taken for
read only once a check made for it has shown it. `Orchestration` is one run in the
JSON document: tasks with dependencies, gates, Dispatches, mail. A step is one
transaction, with the `refresh_ready_tasks` that ends many of them.
`worker-start --on` is two: the Dispatch is recorded before the server is asked
(`WorkerStart`), and the answer, or its absence, overwrites Dispatch and task
whatever became of them meanwhile (`StartSucceeds`, `StartFails`,
`StartUnknown`). A start that fails puts its task back as *ready* with no look at
its gates and dependencies; `putBack` holds such tasks until the next refresh and
is what `OpenQuestionHoldsTask` and `DependenciesCameFirst` except. The outcome
of a Dispatch on another server comes with the relay (`RelayedReport`), in any
order with the answer; how the relay gets it here is `Federation`'s part.
`check` is a transaction that acknowledges what the agent names, one that makes
or repeats a delivery, and the print; between them it can be killed, and two
checks of one handle overlap. `given` is what the checks for a handle have
printed, `wasDone` the tasks ever completed, `careful` holds as long as the
coordinator dispatches only ready tasks and leaves a task alone while somebody
works on it or a start of it is unanswered, which the code does not ask for.
`MailIsKept` is `Mailboxes` with `given` as what was shown and the acknowledged
messages as those read: deliveries, their numbers and killed commands are not to
be seen in it. It is about `check` alone. `inbox` prints anybody's mail, and
`ask --resume` takes any message's id and prints any reply to it, whoever that is
for; neither changes the document or acknowledges anything, so that neither is an
action, and nothing is claimed of who may see what by way of them.
A `Budgets` mix says how many commands of each sort a behaviour contains.

### RelayChannel, Federation
`RelayChannel` says what one direction of the relay promises: an ordered log,
delivery of growing prefixes, and discarding only what was delivered.
`Federation` models one Dispatch on two machines: worker-start with its late or
lost answers, attachment, mail of both sides, stop, abandon, and
`sync_federated_dispatch` with one step per access to a state file or message
(pull, store item by item, acknowledge, import, confirm), run by any number of
processes at once. The Task belongs to others as well: task-update, gates, another
Dispatch of it, a `worker_done` that names it alone (`SetTask`), or one that names
both (`SettleAtHome`); `edited` records that one of them came last. A *scenario*
says who synchronises, how large a batch is, how much is sent and how often others
write. Requests that change state are put on `wire` and may be
handled after their caller has given up. It is shown to implement `RelayChannel`
in both directions with
`kept <- Ids(relay)` and `inbox <-` the stored messages.

## 3. The runs

| Run | Module and bounds | Distinct states | What it shows |
|---|---|---|---|
| `pty_session` | 2 callers, one of them may `wait()`, 2 calls each, 2 codes | 19 738 | NoSignalAfterReap, LifecycleHolderNeverParks, NobodyParksOnALiveChild, NoZombieLeft, AnswersAreStable, KillReturns, ReapingCompletes |
| `stream` | 2 clients, 3 chunks, history 2, queue 1 | 824 673 | NoSilentHole, ExitIsCompleteAndTrue, HistoryIsNotAnsweredAgain, RepeatsOnlyInTheWindow, StreamsEnd |
| `store_safety` | 3 slots, 3 states, 2 damages | 245 137 | NewestFirst, HashTellsMain, StartsFindTheLastSave, NewerDataIsLeftAlone |
| `store_lastcopy` | 5 slots, 1 state, 1 damage | violated | LastCopyIsKept does not hold (section 6) |
| `save_thread` | 4 requests | 3 135 | EachRequestIsAccountedFor, NewestStateIsSaved, DoneMeansFinalState, EveryRequestIsReported |
| `view` | 5 scenarios: 3 resizes, or 2 and a change, with a failing worker; 3 copies with 2 changes, or with 1 and a failing worker; a change, a resize and a copy | 494 225 | GuardHasItsWorker, CopiesWhatWasAsked, LastCopyWins, ScreenNeverGoesBack, LastArcIsTheReapers, LastSizeWins, ScreenSettles, ClosedIsReaped |
| `view_catchup` | 4 changes | violated | ScreenCatchesUp does not hold (section 6) |
| `launch` | 3 processes, one of them restarts, 2 connections to kill sessions, 2 daemons, 1 killed | 1 376 485 | SocketIsTheServers, CallsAndShutdownsEnd |
| `orchestration` | 2 tasks, one after the other, 2 agents, 2 checks of one handle, 7 mixes | 220 251 | OpenQuestionHoldsTask, DependenciesCameFirst, OneLiveDispatch, MailIsKept, MailIsGiven |
| `fed_relay` | 4 scenarios: loop and command with 2 messages home; the two with 1 home and 2 to the worker; loop alone, batch 1, 2 each way, 1 round that breaks off; loop alone, 2 home, 2 other writes to the Task | 322 512 | SettledTogether, LoopPullsAreContiguous, ToHomeIsReliable, ToWorkerIsReliable, MailArrives |
| `fed_stuck` | loop and one command | violated | NextPullIsContiguous does not hold with two processes (section 6) |
| `fed_lost` | loop alone, 1 message | violated | CompletionSettlesTask does not hold (section 6) |

The runs of `PtyLifecycle`, `DaemonStream`, `Persistence` and
`PersistenceThread` also check deadlock. In the others the system may rest:
nobody has to type, send, call or begin, and a bounded counter then leaves
nothing to do.

Why the bounds are enough to be interesting:

- *PTY*: two callers with two calls each let a call start in the middle of
  another's, beside the reader and Drop. The theorems drop the bound.
- *stream*: three chunks overflow a history of two and a queue of one, so a late
  subscriber meets gap, replay, live data and cut-off in one run.
- *store*: three slots have a middle one; two damages hit the main file and a
  backup. The five of the code matter only to the number of saves
  `store_lastcopy` needs, so that run uses five.
- *save_thread*: four requests put one in each place: reported, being saved,
  pending, queued.
- *view*: three resizes, and three copies, are the fewest with one running, one
  waiting and one replaced; two changes select a text and write over it before
  the worker reads it. Each resize is a change too, counted late like the others,
  so that a snapshot worker has up to three changes to miss. The scenarios keep
  apart what meets only in the grid and in the close of the pane. The safety
  properties are proved for any number of everything at once, and `view_catchup`
  explores four changes of the reader and the user.
- *launch*: two launchers are needed for a takeover and a third process for the
  restart that replaces a daemon; two connections to kill sessions, since the list of
  them is one and each kill another; two daemons for an old and a new one; one
  kill may fall on any of them, or break an accept loop.
- *orchestration*: two tasks are the fewest with a dependency, two Dispatches of
  a task and two gates the fewest that can disagree; a start on another server
  meets a local Dispatch, a gate, an update, a report and a reset. Two checks of
  one handle overlap, two kills hit both. The mixes stress the board and the mail in turn
  because they meet only in `worker_done`, which every board mix has.
- *federation*: two messages with a batch of two let a slower synchronisation
  hold an older prefix than a faster one; a batch of one makes every delivery
  take several rounds. One abort is enough because it may fall at any point and
  its request stays on the wire.

## 4. Fairness

| Specification | Assumed | Why |
|---|---|---|
| `PtyLifecycle!FairSpec` | threads inside a call go on; Drop goes on; a child that was sent SIGKILL dies | OS scheduling and the kernel's promise. Nothing makes a healthy child exit or a caller call |
| `DaemonStream!FairSpec` | handlers deliver; the reader finishes what it began | threads of the daemon. No client has to attach, no child has to exit |
| `PersistenceThread!FairSpec` | the worker acts | its loop waits with a time limit |
| `SessionView!FairSpec` | reader counts, feed polls, UI thread handles messages, workers, killer and reaper run | threads and iced's message loop; the reaper polls strong counts. Input, output, resize and close are free, and a request the daemon was given may never be served |
| `DaemonLaunch!FairSpec` | some process inside a call or some daemon goes on, as long as one can: a single weak fairness on all their steps together | OS scheduling, less than it gives; every wait in the code has a deadline. Nobody has to call or to crash |
| `Orchestration!FairSpec` | checks begin, collect and print | agents read their mail again and again. A check made with `--types` may be made between any two others, so collecting everything is fair only strongly: infinitely many checks are made without it |
| `Federation!FairSpec` | the loop begins a round and goes on with it | the background thread runs every two seconds. Messages, stop, abandon and other writers of the Task are free |

Weak fairness is enough except for that one action.

## 5. What is proved

TLAPS proves, for all values of the constants allowed by the named assumptions:

**PtyLifecycleProofs** (assumptions `ThreadAssumption`, `ValueAssumption`: the
thread names differ, exit codes are not outcome names, there is at least one
code): `TypeCorrect`, `SignalsAreSafe`, `LockOrder`, `ChildIsAccountedFor`,
`NobodyParks`, `AnswersStayTold`, `NobodyWaitsInACircle`,
`NobodyWaitsForAHealthyChild`. None of the properties is inductive. The invariant adds what
each thread has established at its place in the code: `SpawnInv` (who is born
when), `LockInv` (who holds which mutex where), `RecordInv` (the three fields of
`Lifecycle` against the kernel's state; while lifecycle is held nobody has
announced reaping, and whoever is in wait has), `CallInv` (a caller inside a call
has one to make), `SignalInv` (past the group's signal the child no longer runs)
and `ParkInv` (without raw waiters reaping is announced only of a child that is
dead or doomed). `ChildIsAccountedFor` gives NoZombieLeft and that a kill that
says *Signalled* has doomed its child; `NobodyParks` is NobodyParksOnALiveChild.

**SessionViewProofs** (assumption `SessionViewAssumption`: the bounds are
natural numbers): `GuardsHaveWorkers`, `CopiesAreAsAsked`, `NewestCopyStays`,
`ScreenMovesForward`, `ReaperLetsGoLast`, and two facts no run checks by
themselves (beside those on resizing and rest, below), `SizesStayAgreed` (whenever no resize
holds the lock, until an answer of the daemon was missed) and
`LabelsAreHonest`. The invariant has eight parts:

- `ResizeInv`: at most one resize worker is off its starting place, and while
  the slot is open it is the one the coalescer says is running; between its two
  halves the PTY has its size and the grid not yet. This gives `SizesAgree`.
- `CountInv`: `grid = generation` plus one for each party that has changed the
  grid and not yet counted. Hence `generation <= grid`, and labels, which are
  generations, are never ahead of contents.
- `ViewInv`: contents on their way are at least as new as their label and as
  what is shown, as long as the slot is open; the guard names the only worker.
  The single worker is why the screen cannot go back.
- `EndInv`: killer and reaper start with the close, and after the reaper has let
  go nobody holds the session. Nobody becomes a holder of a closed pane's
  session, so the reaper's `Arc`, which is dropped only when it is alone, is the
  last one.
- `CopyInv`: as long as the epoch is still a request's, the text it asks for is
  the selected one (`Honest`); a worker that did not panic has then read it
  (`Answer`); and the last request is in the UI thread's hands, waiting, with the
  only worker, or done (`NewestInv`).
- `SizeOrder`: PTY, running, pending and newest request are in the order the
  widget asked for them.
- `LateOrder`: requests the client has given up lie between what the PTY has and
  what runs, so that serving them late does not set the PTY back. It needs that no
  request succeeds once an answer was missed.
- `SomebodyLooks`: while the screen is behind, a worker, a message or the feed is
  about to look again, or the last result was thrown away.

**DaemonStreamProofs** (any number of clients and chunks, any history and
queue): `NobodyMissesAChunk`, `ExitComesLast`, `QueriesAreAnsweredOnce`,
`RepeatsAreExplained`, `NobodyWaitsInVain`, `StreamsOnlyDrain`. `StreamInv` says that the history is the newest chunks in
one piece and that what a client was fed, its replay and its queue, read one
after the other, climb by at most one. `RepeatInv` adds that this sequence, the
*pipe*, rises strictly but for the chunk in the window, and stays below what the
reader thread will offer next.

**PersistenceProofs** (any number of slots): `BackupsAreOrdered`,
`SkippedIsOnDisk`, `SavedStateStays`, `NewerVersionIsSafe`,
`DataFileIsImplemented`. `FilesInv` adds to
the properties that no copy is newer than the state in memory, that the slot a rotation
is about to fill is free, and that nothing a newer version wrote is in front of
a trusted copy that a program without guard would load.

**PersistenceThreadProofs** (any number of requests): `NoRequestIsLost`,
`NewestDecides`, `DoneIsTheFinalState`, `SaverIsImplemented`, `QuietMeansSaved`,
`NoRequestIsStranded`. `OrderInv` puts disk, worker, pending
request and queue in the order the requests were made; `WorkerInv` and
`ReportInv` say what each state of the worker and each report imply of it.

**DaemonLaunchProofs** (any number of processes, daemons and crashes):
`SingleInstance`, and `LaunchersExclude`, the mutual exclusion it rests on: one
launcher and one bound daemon at a time, and `RoundsAreBounded`, by a count
of the locks each call may still create (`Locks`). `LaunchInv` says that the lock
is the launcher's own as long as
nothing was stolen, that a takeover is about a dead owner's lock, and that the
socket a launcher removes is a dead daemon's, which keeps every other daemon
from binding.

**OrchestrationProofs** (any tasks, dependencies, agents and mixes):
`QuestionsHold`, `DependenciesHold`, `DispatchesAreSingle`,
`AcknowledgedWasRead`, `MailboxesAreImplemented`, `ChecksPrintOwnMail`,
`ChecksFindTheRest`.
`BoardInv` adds that a careful coordinator's Dispatch that is live, or whose start
is unanswered, is of a task in work or done: an answer can bring a Dispatch back
to life that was reported or withdrawn. `MailInv` adds that the number of a delivery stands
for its contents wherever it is kept, in the document, with an agent, or with a
check that is about to print.

**FederationProofs** (any number of synchronisations, messages and broken
rounds, any batch): `ToHomeIsAChannel` and `ToWorkerIsAChannel`, the refinement
of `RelayChannel` in both directions; `LoopGoesOn`, `LoopMovesMail`,
`TheySettleTogether`; `NoRequestIsOutOfOrder`, by which the errors of
acknowledge and import about sequences are never returned to another instance of
the program, however late a request is handled; `SomebodyHasIt`: no message is
gone from both sides.
Sequence numbers and positions in the log agree, so that every queue, answer and
request is a *span* of consecutive items; the first lemmas say what pushing to,
reading and cutting a span gives. `HomeInv`: the inbox is a beginning of the log
up to some h, and no cursor, acknowledgement or discarded item is beyond h.
`WorkerInv`: what is confirmed was imported, what is imported is stored, and an
import on the wire begins where the worker side has already been.
`SoloInv`: with the loop alone the cursor is where the inbox ends, and what the
loop has pulled follows it.

### What is promised, and implemented

Six theorems are refinements: every step of the detailed module is a step of the
abstract one or none, for all values of the constants.

| Theorem | Abstract module | What is hidden |
|---|---|---|
| `DataFileIsImplemented` | `DataFile` | files, rotation, crashes and failing calls between them |
| `SaverIsImplemented` | `LatestWins` | channel, debounce, shutdown, dropped handle |
| `ResizingIsImplemented` | `LatestWins` | coalescer, lock, workers, two halves of a resize |
| `MailboxesAreImplemented` | `Mailboxes` | deliveries, numbers, commands killed half-way |
| `ToHomeIsAChannel`, `ToWorkerIsAChannel` | `RelayChannel` | cursors, requests, retries, overlapping rounds |

`DataFileIsImplemented` needs to know which slot `Load` would take (the first
intact one) before and after each file operation; `BackupsAreOrdered` gives that
this is the newest. For `MailboxesAreImplemented`, `BoxesInv` says that a message
is in no box but its addressee's and has a number no other message has, so that a
delivery or an acknowledgement of one agent cannot touch another's mail, and that
a reply is addressed to the sender of what it answers; `ChecksPrintOwnMail` is the
corollary, also for an `ask` that resumes no other agent's message. For `LatestWins` the order of the
requests (`OrderInv`, `SizeOrder`) is the whole argument, and `QuietMeansSaved`
and `QuietMeansNewestSize` follow: when nothing waits and nothing has failed, the
newest request has been served. `ResizingIsImplemented` is not among the
properties of a run; the run of `SessionView` checks `LastSizeWins`.

### The safety halves of what must happen in the end

Fairness and `ENABLED` are outside the prover, so no liveness property is a
theorem. What can be proved is that no reachable state is a dead end, and where
it is a measure, that it only falls; fairness of the steps named is then all that
is missing. TLC checks the whole on the small instances.

| Liveness property, checked by TLC | Proved for all values |
|---|---|
| KillReturns | `NobodyWaitsInACircle`: whoever holds lifecycle can go on, the child mutex is waited for only behind one that waits for the child itself |
| EveryRequestIsReported | `NoRequestIsStranded`: with a request unreported the worker has a step, and it does not end before all are reported |
| StreamsEnd | `NobodyWaitsInVain`: once the child no longer runs, the exit is about to be offered, or each open stream has something to write or a closed queue (`TailInv`: whoever is still subscribed has the exit last in its pipe). `StreamsOnlyDrain`: from then on a pipe only gets shorter, by one with every step of its handler |
| LastSizeWins, ScreenSettles | `RestIsCurrent`: at rest the screen shows the grid, and the sizes agree unless an answer was missed |
| MailArrives | `LoopMovesMail`: while mail waits, the loop's next pull begins with the first message not stored, its next import is not empty and leaves no gap, and what it has pulled it can store |
| ReapingCompletes | `NobodyWaitsForAHealthyChild`: a reader or Drop that has begun to reap can go on, or the holder of the mutex it wants can, or the child has been sent SIGKILL |
| ClosedIsReaped | `NobodyJoinsAClosedSession`: the holders only get fewer. `TheReaperGetsItsTurn`: while there are any the reaper is one, and another has a step or it is alone |
| CallsAndShutdownsEnd | `RoundsAreBounded`: a plain call creates at most one lock, a restart one for each of its at most `MaxSweeps` + 2 connections, and a call begins again only by removing one, so that N processes begin again at most N (`MaxSweeps` + 2) times. A daemon told to shut down has its own socket to be woken at (`SingleInstance`) |
| MailIsGiven | `ChecksFindTheRest`: a check without `--types` answers with all that was not printed for its handle yet, or repeats an unacknowledged delivery. That the delivery is acknowledged in the end is TLC's part |

### What stays with TLC

All liveness properties, as said. The four properties expected to be violated are
refuted by TLC, not proved false. Everything else a run checks is a theorem.

## 6. What the checks found

Each of these is a run that ends in a violation; `PROJECT.json` quotes the text
the code disagrees with.

- **`store_lastcopy`** (`persistence.rs:194`). `rotate_backups` shifts the
  backups before it knows that the main file can be copied. If it exists but
  cannot be read, each failing autosave removes one more backup, and after five
  none is left.
- **`view_catchup`** (`session_store.rs:603`). A `SessionDirty` overtaken by a
  snapshot for a mouse redraw starts a worker with an old label; its result is
  dropped without a look at the current generation, and output counted meanwhile
  stays invisible until the next output. The passing property `ScreenSettles`
  says that this is the only way (or a panicking worker) for the screen to stay
  behind.
- **`fed_stuck`** (`orchestration.rs:2142`). Two overlapping synchronisations:
  the slower one sets the home's cursor back behind what the worker side has
  discarded, and the relay of the Dispatch is stuck. `LoopPullsAreContiguous`,
  checked and proved, says that the loop alone does not get there.
- **`fed_lost`** (`orchestration.rs:1770`). The answer of worker-start
  overwrites a completion the relay has stored meanwhile; it is never applied
  again and the Task stays *dispatched*. The passing property `SettledTogether`
  says what does hold: of the steps of this Dispatch none reports success without
  the completed Task. Other writers (`task_update` line 801, `gate_resolve` 1065,
  another worker-start 1709) reopen the Task of a Dispatch that has succeeded and
  leave the Dispatch as it is.

Disagreements seen while modelling, for which there is no run of their own:

- A resize of a daemon's session whose answer is not read in time
  (`client.rs:94-118`) reports an error although the daemon may carry it out
  later: the PTY then has a size the grid does not get (`session.rs:482`), and the
  control connection stays out of step for good, each request reading the answer
  to an earlier one. `session.rs:476-477` takes the two sizes as a pair.
  `SizesAgree` and `LastSizeWins` hold until that happens, and
  `ResizingIsImplemented` also after it.

- `try_wait` may answer None while another thread has reaped the child and has
  not yet recorded the code (`pty.rs:304`); its contract (line 288) reads None as
  "not exited yet". The next call corrects it, which is what `AnswersAreStable`
  relies on.
- A chunk that falls between push and broadcast while a client subscribes is
  delivered twice (`server.rs:121`), and a query in it is answered twice.
  `RepeatsOnlyInTheWindow` says that nothing else is ever repeated.
- A waiting copy is replaced by the newest one whatever clipboards it was for
  (`session_store.rs:914`): a copy by shortcut that waits is lost to the standard
  clipboard when the release of a mouse button asks for the primary one only.
  `LastCopyWins` is about the primary, which both write.
- The save after the user's override relies on the rotation to keep the newer
  version's file (`state.rs:20061`), and `persistence.rs:188` skips the rotation
  while `bak.0` is less than an hour old.
- Two waiters may take over one stale launch lock; the second removes the lock
  the first has created meanwhile (`client.rs` removes whatever is there). Two
  launchers then run at once, one can remove the other's fresh socket, and there
  are two daemons. `SocketIsTheServers` holds only while nothing was stolen;
  docs/port-status.md:335-337 speaks of a "launch lock with stale-owner recovery"
  and "fixed-socket single-instance adoption" without that restriction.
- The cleanup of a daemon that leaves checks the nonce once and then removes
  three files (`server.rs:274`), so that it can remove the identity file a new
  daemon has just written; a restart can fail ("accepts the socket but failed")
  while the old listener is still open.
- A session created between the drain and the shutdown flag is not stopped
  (`server.rs:437`).
- `worker_done` of a local Dispatch does not refresh the tasks that wait for its
  task (`orchestration.rs:331`); they become ready at the next command that does.
  `gate_resolve` sets its task pending whatever became of it (line 1065), and
  `dispatch` and `worker-start` do not look at the task (lines 849, 1392-1408).
  The properties of `Orchestration` say what holds all the same.
- A `worker-start --on` whose server answers anything but *ready* sets its task
  *ready* (line 1783) without `refresh_ready_tasks`: a task with an open gate, or
  whose dependencies are open, is offered until some command refreshes the tasks.
- `ask --resume` takes any id (line 891) and prints the first reply to it, whoever
  that is addressed to (lines 929-938); `inbox` prints everybody's mail (711-725).
- The comment at `session.rs:253-255` calls the reply queue unbounded and
  lossless; it is bounded and drops when full (lines 35, 393).
- Requests a dead persistence worker held are never reported, although the
  comment on `SaveReport` promises a report for each.

## 7. Not modelled, and why

- Git, forges, trackers, SSH, virtual machines, browser panes, rate limits,
  secrets: sequences of calls to other programs or services whose state is not
  in this code.
- Grid, input encoding, scanners, the string helper crates: byte and string
  algorithms without control flow between actors. Most carry oracle tests.
- `state.rs` and the views: 29 000 lines of view state. The handlers that the
  modelled components need are part of those models.
- Schedules (cron, recurrence rules): calendar arithmetic over unbounded data.
- `DaemonLaunch`: the token file and the handshake, file operations that fail
  (a lock whose process id could not be written stays until it is taken over),
  process ids given to another process, and the sessions a daemon holds.
- `Orchestration`: other runs than the one modelled and their bindings, what a
  local worker-start asks of the terminal before it dispatches, `inbox`, the wait
  of `ask` and `check --all` (which only print), mail other than outcomes that is
  relayed (`Federation` has it), questions to one recipient (`ask --to`), and text.
- Within modelled components: write and foreground_pgid of the PTY, the daemon's
  handshake and list requests, presence probes and bells of a session slot, several writers of one data file, and a federated Dispatch
  whose home state is reset.

## 8. Plan

Done, in this order: 1 `PtyLifecycle`; 2 `DaemonStream`; 3 `RelayChannel` and
`Federation`; 4 `Persistence` and `PersistenceThread`; 5 `SessionView`; 6
`Orchestration` with tasks, gates, Dispatches and mail; 7 `DaemonLaunch`; each of
them with its safety properties proved.

Next modules:

8. *TerminalSession*: writer thread, the bounded input and reply queues, and Drop
   with its deadline, composed with `PtyLifecycle`.
9. Sessions re-created under one id, in `DaemonStream`, composed with
   `DaemonLaunch`.
10. Presence and the prompt gate.
11. Headless writers of the data file beside the persistence worker.
12. Pane trees and the agent roster as functions, checked against a reference
    definition over bounded inputs.
