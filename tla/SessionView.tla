---------------------------- MODULE SessionView ----------------------------
(***************************************************************************)
(* The desktop's view of one terminal session: the slot of session_store.rs, *)
(* the worker threads it starts, the feed of workbench.rs and the grid and *)
(* generation counter of suaegi-term/src/session.rs.                       *)
(*                                                                         *)
(* The grid is changed by the PTY reader, by scrolling and mouse input on  *)
(* the UI thread, and by a resize worker; each counts its change after it  *)
(* has made it.  The feed tells the UI thread of a new count, the UI       *)
(* thread has a worker take a snapshot, and shows what the worker sends    *)
(* back.  Messages of one source arrive in order, of two sources in any.   *)
(* The grid's content is the number of changes made to it, a terminal size *)
(* the sequence number of the request that asked for it, and the selected  *)
(* text the number of the change that made it what it is.                  *)
(*                                                                         *)
(* Copying a selection is a request for another worker.  The selection may *)
(* change before the worker gets to it: the request carries the epoch of   *)
(* the selection, and the worker copies nothing if the epoch has moved on. *)
(*                                                                         *)
(* Closing the pane hands the session to the reaper: whoever lets go of    *)
(* the last Arc runs a destructor that may block for two seconds.          *)
(*                                                                         *)
(* Definitions marked "Slip" are the wrong variants the mutants put in     *)
(* place of the definition after them; Next uses none of them.             *)
(***************************************************************************)
EXTENDS Naturals, Sequences, FiniteSets

CONSTANTS MaxResize,    \* bound on sizes the widget asks for
          Scenarios     \* the bounds a behaviour may have

\* changes: by the reader and the UI thread; resizes: at most MaxResize;
\* failures: workers that panic and resizes that fail or go unanswered; copies: requests to
\* copy, and without any nothing is selected.
Scenario(changes, resizes, failures, copies) ==
    [changes |-> changes, resizes |-> resizes, failures |-> failures, copies |-> copies]

ASSUME SessionViewAssumption ==
    /\ MaxResize \in Nat
    /\ Scenarios \subseteq [changes : Nat, resizes : 0..MaxResize, failures : Nat, copies : Nat]

VARIABLES
    grid,        \* changes made to the grid
    generation,  \* changes counted
    text,        \* the selected text, 0 when nothing is selected
    epoch,       \* selection_epoch
    dragging,    \* the pointer is latched on a local selection
    reader,      \* the PTY reader: "reading", or "fed" before it counts
    ui,          \* "free", or the step of the terminal command in execution
    seen,        \* the feed's last_seen
    dirty,       \* SessionDirty messages the feed has sent
    feed,        \* the feed runs and holds an Arc
    open,        \* the slot exists
    inFlight,    \* snapshot_in_flight: a set of at most one generation
    shown,       \* the slot's snapshot: changes it contains
    label,       \* snapshot_generation
    snaps,       \* snapshot workers and their results
    emitted,     \* the widget's last resize sequence number
    asked,       \* Resize commands on their way
    resize,      \* ResizeCoalescer
    resizer,     \* resizer[n]: where the worker for request n is
    pty, size,   \* the size of the PTY and of the grid
    late,        \* requests the daemon has and the client has given up
    outOfStep,   \* an answer was missed: the next request reads it as its own
    extract,     \* extract_in_flight, and extract_pending as a set
    copies,      \* extraction workers and their results
    clipboard,   \* the text written last to the primary clipboard (every
                 \* copy goes there, one by shortcut to the standard one too)
    wanted,      \* the last request to copy
    killer,      \* the thread that kills a closed session
    reaper,      \* "none", or whether it still holds the session
    failures,    \* history: panics and failed resizes so far
    skipped,     \* history: the last result did not reach the screen
    bounds       \* the scenario of this behaviour

selection  == <<text, epoch, dragging>>
gridVars   == <<grid, generation, selection>>
feedVars   == <<seen, dirty, feed>>
slotVars   == <<open, inFlight, shown, label, skipped>>
resizeVars == <<emitted, asked, resize, resizer, pty, size, late, outOfStep>>
copyVars   == <<extract, copies, clipboard, wanted>>
endVars    == <<killer, reaper>>
history    == <<failures, bounds>>
vars == <<gridVars, reader, ui, feedVars, slotVars, snaps, resizeVars, copyVars, endVars,
          history>>

Sizes == 1..MaxResize
Working == {n \in Sizes : resizer[n] \notin {"off", "done"}}

Init ==
    /\ bounds \in Scenarios
    /\ grid = 0 /\ generation = 0 /\ text = 0 /\ epoch = 0 /\ dragging = FALSE
    /\ reader = "reading" /\ ui = "free"
    /\ seen = 0 /\ dirty = <<>> /\ feed = TRUE
    /\ open = TRUE /\ inFlight = {} /\ shown = 0 /\ label = 0 /\ snaps = {}
    /\ emitted = 0 /\ asked = {}
    /\ resize = [last |-> 0, running |-> 0, pending |-> 0]
    /\ resizer = [n \in Sizes |-> "off"] /\ pty = 0 /\ size = 0
    /\ late = {} /\ outOfStep = FALSE
    /\ extract = [inFlight |-> FALSE, pending |-> {}] /\ copies = {} /\ clipboard = 0
    /\ wanted = [number |-> 0, epoch |-> 0, asked |-> 0]
    /\ killer = "none" /\ reaper = "none"
    /\ failures = 0 /\ skipped = FALSE

\* The Arcs that keep the session alive.
Holders ==
    (IF open THEN {<<"slot">>} ELSE {})
    \cup (IF feed THEN {<<"feed">>} ELSE {})
    \cup (IF killer = "running" THEN {<<"killer">>} ELSE {})
    \cup (IF reaper = "holding" THEN {<<"reaper">>} ELSE {})
    \cup {<<"snapshot", job>> : job \in {j \in snaps : j.at = "running"}}
    \cup {<<"copy", job>> : job \in {j \in copies : j.at = "running"}}
    \cup {<<"resize", n>> : n \in Working}

-----------------------------------------------------------------------------
(* Whoever changes the grid.  Each change is made first and counted after; *)
(* the end of the output counts as one, and so does a scroll that moves    *)
(* nothing: both are counted although no cell changes.                     *)

\* Slip: output that leaves the selected range where it is is overlooked.
EpochAfterMove(t) == IF t = 0 /\ text # 0 THEN epoch + 1 ELSE epoch
EpochAfterFeed(t) == IF text # 0 \/ t # 0 THEN epoch + 1 ELSE epoch

\* Output leaves the selected text alone, writes over it, or drops the
\* selection; bump_after_feed does not ask which.
Feed ==
    /\ reader = "reading" /\ grid < bounds.changes /\ Holders # {}
    /\ reader' = "fed"
    /\ grid' = grid + 1
    /\ text' \in IF text = 0 THEN {0} ELSE {0, text, grid + 1}
    /\ epoch' = EpochAfterFeed(text')
    /\ UNCHANGED <<generation, dragging, ui, feedVars, slotVars, snaps, resizeVars, endVars,
                   copyVars, history>>

CountOutput ==
    /\ reader = "fed"
    /\ reader' = "reading"
    /\ generation' = generation + 1
    /\ UNCHANGED <<grid, selection, ui, feedVars, slotVars, snaps, resizeVars, endVars,
                   copyVars, history>>

EpochIfChanged(t) == IF t # text THEN epoch + 1 ELSE epoch

\* A request to copy reads the epoch under the lock that guards the selection.
Request(e, t) == [number |-> wanted.number + 1, epoch |-> e, asked |-> t]

\* Scroll; or a mouse intent that asks for a redraw, which makes, extends or
\* drops the selection or scrolls; or the release that ends a drag, which
\* asks for a copy as well.
Command(kind) ==
    /\ ui = "free" /\ open /\ grid < bounds.changes
    /\ ui' = kind
    /\ grid' = grid + 1
    /\ text' \in IF kind = "scroll" \/ bounds.copies = 0 THEN {text} ELSE {0, text, grid + 1}
    /\ epoch' = EpochIfChanged(text')
    /\ \/ kind = "scroll" /\ UNCHANGED <<dragging, wanted>>
       \/ kind = "mouse" /\ dragging' \in {dragging, bounds.copies > 0} /\ UNCHANGED wanted
       \/ /\ kind = "release" /\ wanted.number < bounds.copies
          /\ dragging' = FALSE
          /\ wanted' = Request(epoch', text')
    /\ UNCHANGED <<generation, reader, feedVars, slotVars, snaps, resizeVars, endVars,
                   extract, copies, clipboard, history>>

CountCommand ==
    /\ ui \in {"scroll", "mouse", "release"}
    /\ ui' = CASE ui = "scroll" -> "free" [] ui = "mouse" -> "redraw" [] OTHER -> "copy"
    /\ generation' = generation + 1
    /\ UNCHANGED <<grid, selection, reader, feedVars, slotVars, snaps, resizeVars, endVars,
                   copyVars, history>>

-----------------------------------------------------------------------------
(* Snapshots                                                               *)

Job(g) == [label |-> g, at |-> "running", content |-> 0]

\* Slip: start a worker although one is running.
RequestSnapshotAlways(g) ==
    IF open
    THEN inFlight' = {g} /\ snaps' = snaps \cup {Job(g)}
    ELSE UNCHANGED <<inFlight, snaps>>
RequestSnapshot(g) ==
    IF open /\ inFlight = {}
    THEN inFlight' = {g} /\ snaps' = snaps \cup {Job(g)}
    ELSE UNCHANGED <<inFlight, snaps>>

CopyJob(r) == [request |-> r, at |-> "running", got |-> 0]

\* Slip: while one is being copied the others are turned away.
RequestExtractionIfIdle(r) ==
    IF open /\ ~extract.inFlight
    THEN extract' = [extract EXCEPT !.inFlight = TRUE] /\ copies' = copies \cup {CopyJob(r)}
    ELSE UNCHANGED <<extract, copies>>
\* One worker at a time; of those that wait only the newest is kept.
RequestExtraction(r) ==
    IF ~open THEN UNCHANGED <<extract, copies>>
    ELSE IF extract.inFlight
    THEN extract' = [extract EXCEPT !.pending = {r}] /\ UNCHANGED copies
    ELSE extract' = [extract EXCEPT !.inFlight = TRUE] /\ copies' = copies \cup {CopyJob(r)}

\* The feed looks every POLL_INTERVAL.
Poll ==
    /\ feed /\ generation # seen
    /\ seen' = generation
    /\ dirty' = Append(dirty, generation)
    /\ UNCHANGED <<gridVars, reader, ui, feed, slotVars, snaps, resizeVars, endVars,
                   copyVars, history>>

SessionDirty ==
    /\ ui = "free" /\ dirty # <<>>
    /\ dirty' = Tail(dirty)
    /\ RequestSnapshot(Head(dirty))
    /\ UNCHANGED <<gridVars, reader, ui, seen, feed, open, shown, label, skipped,
                   resizeVars, endVars, copyVars, history>>

\* The end of a mouse command: the selection it changed needs a new snapshot,
\* and after a release its text is copied.
Redraw ==
    /\ ui \in {"redraw", "copy"}
    /\ ui' = "free"
    /\ RequestSnapshot(generation)
    /\ IF ui = "copy" THEN RequestExtraction(wanted) ELSE UNCHANGED <<extract, copies>>
    /\ UNCHANGED <<gridVars, reader, feedVars, open, shown, label, skipped, resizeVars,
                   endVars, clipboard, wanted, history>>

TakeSnapshot(job) ==
    /\ job.at = "running"
    /\ snaps' = (snaps \ {job})
                  \cup {[label |-> job.label, at |-> "ready", content |-> grid]}
    /\ UNCHANGED <<gridVars, reader, ui, feedVars, slotVars, resizeVars, endVars,
                   copyVars, history>>

SnapshotPanics(job) ==
    /\ job.at = "running" /\ failures < bounds.failures
    /\ failures' = failures + 1
    /\ snaps' = (snaps \ {job}) \cup {[job EXCEPT !.at = "failed"]}
    /\ UNCHANGED <<gridVars, reader, ui, feedVars, slotVars, resizeVars, endVars,
                   copyVars, bounds>>

Fresh(job) == job.label >= label

\* Slip: an old result is thrown away before the guard is released.
ReleasedWhenFresh(job) == IF Fresh(job) THEN inFlight \ {job.label} ELSE inFlight
Released(job) == inFlight \ {job.label}

\* Slip: output that came while the worker ran waits for the feed.
BehindNever(job) == FALSE
Behind(job) == open /\ Fresh(job) /\ job.label \in inFlight /\ generation > job.label

\* apply_snapshot: release the guard, drop the value if it is older than the
\* one shown, and take another snapshot if the session has moved on.
SnapshotReady(job) ==
    /\ ui = "free" /\ job.at = "ready"
    /\ IF open /\ Fresh(job)
       THEN shown' = job.content /\ label' = job.label
       ELSE UNCHANGED <<shown, label>>
    /\ skipped' = (open /\ ~Fresh(job))
    /\ IF Behind(job)
       THEN /\ inFlight' = {generation}
            /\ snaps' = (snaps \ {job}) \cup {Job(generation)}
       ELSE /\ inFlight' = IF open THEN Released(job) ELSE inFlight
            /\ snaps' = snaps \ {job}
    /\ UNCHANGED <<gridVars, reader, ui, feedVars, open, resizeVars, endVars, copyVars,
                   history>>

SnapshotFailed(job) ==
    /\ ui = "free" /\ job.at = "failed"
    /\ snaps' = snaps \ {job}
    /\ inFlight' = IF open THEN inFlight \ {job.label} ELSE inFlight
    /\ skipped' = open
    /\ UNCHANGED <<gridVars, reader, ui, feedVars, open, shown, label, resizeVars,
                   endVars, copyVars, history>>

-----------------------------------------------------------------------------
(* Resizing                                                                *)

\* The widget has a new size (RESIZE_SEQ grows for the whole process).
Emit ==
    /\ emitted < bounds.resizes
    /\ emitted' = emitted + 1
    /\ asked' = asked \cup {emitted + 1}
    /\ UNCHANGED <<gridVars, reader, ui, feedVars, slotVars, snaps, resize, resizer,
                   pty, size, late, outOfStep, endVars, copyVars, history>>

Submitted(n) ==
    IF n <= resize.last THEN resize
    ELSE IF resize.running = 0 THEN [resize EXCEPT !.last = n, !.running = n]
    ELSE [resize EXCEPT !.last = n, !.pending = n]

Submit(n) ==
    /\ ui = "free" /\ n \in asked
    /\ asked' = asked \ {n}
    /\ IF open
       THEN /\ resize' = Submitted(n)
            /\ resizer' = IF resize'.running # resize.running
                          THEN [resizer EXCEPT ![n] = "start"] ELSE resizer
       ELSE UNCHANGED <<resize, resizer>>
    /\ UNCHANGED <<gridVars, reader, ui, feedVars, slotVars, snaps, emitted, pty, size,
                   late, outOfStep, endVars, copyVars, history>>

ResizeLockFree == \A n \in Sizes : resizer[n] \notin {"pty", "grid"}

\* A daemon's PTY is resized by a request on the session's control connection.
\* Once an answer has been missed every request reads an older one, and fails.
ResizePty(n) ==
    /\ resizer[n] = "start" /\ ResizeLockFree /\ ~outOfStep
    /\ pty' = n
    /\ resizer' = [resizer EXCEPT ![n] = "pty"]
    /\ UNCHANGED <<gridVars, reader, ui, feedVars, slotVars, snaps, emitted, asked,
                   resize, size, late, outOfStep, endVars, copyVars, history>>

\* The worker gives up before the grid's half.
ResizeFails(n) ==
    /\ resizer[n] = "start" /\ ResizeLockFree
    /\ outOfStep \/ failures < bounds.failures
    /\ failures' = IF outOfStep THEN failures ELSE failures + 1
    /\ resizer' = [resizer EXCEPT ![n] = "done"]

\* The ioctl or the connection fails: the PTY keeps its size.
ResizePtyFails(n) ==
    /\ ResizeFails(n)
    /\ UNCHANGED <<gridVars, reader, ui, feedVars, slotVars, snaps, emitted, asked,
                   resize, pty, size, late, outOfStep, endVars, copyVars, bounds>>

\* The daemon has the request, and the answer is not read in RPC_TIMEOUT, or an
\* earlier request's answer is read in its place.
ResizePtyUnanswered(n) ==
    /\ ResizeFails(n)
    /\ late' = late \cup {n} /\ outOfStep' = TRUE
    /\ UNCHANGED <<gridVars, reader, ui, feedVars, slotVars, snaps, emitted, asked,
                   resize, pty, size, endVars, copyVars, bounds>>

\* The daemon works off a connection's requests in order, also those nobody
\* waits for any more, unless the connection ends first.
ResizeComesLate ==
    /\ \E n \in late : /\ \A m \in late : n <= m
                       /\ pty' = n /\ late' = late \ {n}
    /\ UNCHANGED <<gridVars, reader, ui, feedVars, slotVars, snaps, emitted, asked,
                   resize, resizer, size, outOfStep, endVars, copyVars, history>>

\* The grid's new size leaves the selection alone, moves it, clips or drops it.
ResizeGrid(n) ==
    /\ resizer[n] = "pty"
    /\ size' = n /\ grid' = grid + 1
    /\ text' \in IF text = 0 THEN {0} ELSE {0, text, grid + 1}
    /\ epoch' \in {EpochIfChanged(text'), EpochAfterFeed(text')}
    /\ resizer' = [resizer EXCEPT ![n] = "grid"]
    /\ UNCHANGED <<generation, dragging, reader, ui, feedVars, slotVars, snaps, emitted,
                   asked, resize, pty, late, outOfStep, endVars, copyVars, history>>

CountResize(n) ==
    /\ resizer[n] = "grid"
    /\ generation' = generation + 1
    /\ resizer' = [resizer EXCEPT ![n] = "done"]
    /\ UNCHANGED <<grid, selection, reader, ui, feedVars, slotVars, snaps, emitted, asked,
                   resize, pty, size, late, outOfStep, endVars, copyVars, history>>

\* Slip: the request that waited stays where it is.
CompletedIdle(n) ==
    IF resize.running # n THEN resize ELSE [resize EXCEPT !.running = 0]
Completed(n) ==
    IF resize.running # n THEN resize
    ELSE [resize EXCEPT !.running = resize.pending, !.pending = 0]

ResizeApplied(n) ==
    /\ ui = "free" /\ resizer[n] = "done"
    /\ IF open
       THEN /\ resize' = Completed(n)
            /\ resizer' = [m \in Sizes |->
                   IF m = n THEN "off"
                   ELSE IF m = resize'.running /\ m # resize.running THEN "start"
                   ELSE resizer[m]]
       ELSE /\ resizer' = [resizer EXCEPT ![n] = "off"]
            /\ UNCHANGED resize
    /\ UNCHANGED <<gridVars, reader, ui, feedVars, slotVars, snaps, emitted, asked,
                   pty, size, late, outOfStep, endVars, copyVars, history>>

-----------------------------------------------------------------------------
(* Copying the selection                                                   *)

\* The shortcut: nothing is selected, or a drag has not ended, and no request
\* is made.
CopySelection ==
    /\ ui = "free" /\ open /\ text # 0 /\ ~dragging /\ wanted.number < bounds.copies
    /\ wanted' = Request(epoch, text)
    /\ RequestExtraction(wanted')
    /\ UNCHANGED <<gridVars, reader, ui, feedVars, slotVars, snaps, resizeVars, endVars,
                   clipboard, history>>

Extracted(job) == IF epoch = job.request.epoch THEN text ELSE 0

ExtractSelection(job) ==
    /\ job.at = "running"
    /\ copies' = (copies \ {job}) \cup {[job EXCEPT !.at = "done", !.got = Extracted(job)]}
    /\ UNCHANGED <<gridVars, reader, ui, feedVars, slotVars, snaps, resizeVars, endVars,
                   extract, clipboard, wanted, history>>

ExtractPanics(job) ==
    /\ job.at = "running" /\ failures < bounds.failures
    /\ failures' = failures + 1
    /\ copies' = (copies \ {job}) \cup {[job EXCEPT !.at = "done"]}
    /\ UNCHANGED <<gridVars, reader, ui, feedVars, slotVars, snaps, resizeVars, endVars,
                   extract, clipboard, wanted, bounds>>

\* extraction_completed; the text is written even if the pane is closed.
SelectionExtracted(job) ==
    /\ ui = "free" /\ job.at = "done"
    /\ IF open
       THEN /\ extract' = [inFlight |-> extract.pending # {}, pending |-> {}]
            /\ copies' = (copies \ {job}) \cup {CopyJob(r) : r \in extract.pending}
       ELSE copies' = copies \ {job} /\ UNCHANGED extract
    /\ clipboard' = IF job.got # 0 THEN job.got ELSE clipboard
    /\ UNCHANGED <<gridVars, reader, ui, feedVars, slotVars, snaps, resizeVars, endVars,
                   wanted, history>>

-----------------------------------------------------------------------------
(* Closing the pane                                                        *)

\* The killer's thread is taken to start; otherwise kill() runs here first.
Close ==
    /\ ui = "free" /\ open
    /\ open' = FALSE
    /\ killer' = "running" /\ reaper' = "holding"
    /\ UNCHANGED <<gridVars, reader, ui, feedVars, inFlight, shown, label, skipped,
                   snaps, resizeVars, copyVars, history>>

Kill ==
    /\ killer = "running"
    /\ killer' = "done"
    /\ UNCHANGED <<gridVars, reader, ui, feedVars, slotVars, snaps, resizeVars, reaper,
                   copyVars, history>>

\* The subscriptions no longer name the session.
FeedEnds ==
    /\ feed /\ ~open
    /\ feed' = FALSE
    /\ UNCHANGED <<gridVars, reader, ui, seen, dirty, slotVars, snaps, resizeVars,
                   endVars, copyVars, history>>

\* Slip: do not wait for the other Arcs; theirs is then the last one.
ReapAtOnce ==
    /\ reaper = "holding"
    /\ reaper' = "reaped"
    /\ UNCHANGED <<gridVars, reader, ui, feedVars, slotVars, snaps, resizeVars, killer,
                   copyVars, history>>
\* Slip: wait until nobody holds the session, oneself included.
ReapNever ==
    /\ reaper = "holding" /\ Holders = {}
    /\ reaper' = "reaped"
    /\ UNCHANGED <<gridVars, reader, ui, feedVars, slotVars, snaps, resizeVars, killer,
                   copyVars, history>>
Reap ==
    /\ reaper = "holding" /\ Holders = {<<"reaper">>}
    /\ reaper' = "reaped"
    /\ UNCHANGED <<gridVars, reader, ui, feedVars, slotVars, snaps, resizeVars, killer,
                   copyVars, history>>

-----------------------------------------------------------------------------
UiMessage ==
    \/ SessionDirty \/ Redraw \/ CountCommand
    \/ \E job \in snaps : SnapshotReady(job) \/ SnapshotFailed(job)
    \/ \E job \in copies : SelectionExtracted(job)
    \/ \E n \in Sizes : Submit(n) \/ ResizeApplied(n)
Worker ==
    \/ \E job \in snaps : TakeSnapshot(job) \/ SnapshotPanics(job)
    \/ \E job \in copies : ExtractSelection(job) \/ ExtractPanics(job)
    \/ \E n \in Sizes :
          \/ ResizePty(n) \/ ResizePtyFails(n) \/ ResizePtyUnanswered(n)
          \/ ResizeGrid(n) \/ CountResize(n)

Next ==
    \/ Feed \/ CountOutput \/ \E kind \in {"scroll", "mouse", "release"} : Command(kind)
    \/ Poll \/ UiMessage \/ Worker
    \/ ResizeComesLate \/ CopySelection \/ Emit \/ Close \/ Kill \/ FeedEnds \/ Reap

Spec == Init /\ [][Next]_vars

\* Threads run, the feed polls, and the UI thread works off its messages.
\* Nobody has to produce output, to type, to resize or to close the pane.
Fairness ==
    /\ WF_vars(CountOutput) /\ WF_vars(Poll) /\ WF_vars(UiMessage) /\ WF_vars(Worker)
    /\ WF_vars(Kill) /\ WF_vars(FeedEnds) /\ WF_vars(Reap)

FairSpec == Spec /\ Fairness

-----------------------------------------------------------------------------
(* Properties                                                              *)

\* A snapshot contains every change its label has counted, so that a screen
\* with the session's current label is current (generation()'s contract).
LabelIsHonest ==
    /\ shown >= label
    /\ \A job \in snaps : job.at = "ready" => job.content >= job.label

\* A guard is up exactly while the one worker it stands for has not answered:
\* a guard left behind would freeze the screen, or copying, for good.
GuardHasItsWorker ==
    open => /\ inFlight = {job.label : job \in snaps} /\ Cardinality(snaps) <= 1
            /\ (extract.inFlight <=> copies # {}) /\ Cardinality(copies) <= 1

\* What is on the screen is never replaced by something older.
ScreenNeverGoesBack == [][shown' >= shown]_vars

\* Whenever no resize holds the lock the program in the PTY and the grid
\* agree on the size, also after resizes that failed, until the daemon's answer
\* to one has been missed: that one changes the PTY and not the grid.
SizesAgree == ResizeLockFree /\ ~outOfStep => pty = size

\* The last size the widget asked for is the one that stays, whatever was
\* coalesced or came out of order; when a resize fails, the program in the PTY
\* and the grid still settle on one size, unless a daemon's answer was missed.
LastSizeWins ==
    <>[](open => (outOfStep \/ pty = size) /\ (failures = 0 => size = emitted))

\* Resizing as a worker that coalesces requests; a pane that is closed serves
\* them no more.
Resizing == INSTANCE LatestWins WITH
    asked <- emitted,
    waiting <- asked \cup ({resize.pending} \ {0}) \cup {n \in Sizes : resizer[n] = "start"}
                   \cup late,
    served <- pty,
    refused <- failures > 0 \/ ~open

\* The PTY never goes back to an older size, and a size is left out only for a
\* newer one, in whatever order the requests reach the coalescer and however
\* late the daemon serves them.
NewestSizeIsSet == Resizing!Spec

\* What is copied is what was selected when the user asked for it, or nothing:
\* output, a resize or another drag may change the selection before the worker
\* reads it.
CopiesWhatWasAsked ==
    \A job \in copies : job.at = "done" => job.got \in {0, job.request.asked}

\* When no copy is on its way any more, the one asked for last is on the
\* clipboard, unless its selection was gone before it was read.
LastCopyWins ==
    open /\ ui = "free" /\ copies = {} /\ failures = 0 /\ wanted.epoch = epoch
        => wanted.asked \in {0, clipboard}

\* When nothing changes any more the screen shows the final state, unless the
\* last result was one that apply_snapshot threw away.
ScreenSettles == <>[](open /\ ~skipped => shown = grid)

\* No output that came while a snapshot was being taken is left out for good,
\* as the comment on apply_snapshot has it.
ScreenCatchesUp == <>[](open => shown = grid)

\* The destructor of a session, which blocks, runs on the reaper's thread, and
\* only after the kill: a daemon's session would survive its client.
LastArcIsTheReapers ==
    [][Holders # {} /\ Holders' = {} => reaper = "holding" /\ killer = "done"]_vars

\* A closed pane's session is dropped in the end.
ClosedIsReaped == ~open ~> Holders = {}
=============================================================================
