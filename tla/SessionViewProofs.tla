------------------------- MODULE SessionViewProofs -------------------------
(***************************************************************************)
(* Safety of SessionView for any number of changes, resizes and failures.  *)
(***************************************************************************)
EXTENDS SessionView, FiniteSetTheorems, TLAPS

Coalescer == [last : Nat, running : Nat, pending : Nat]
Jobs == [label : Nat, at : {"running", "ready", "failed"}, content : Nat]

\* The ranges the other parts rely on.
ResizeRanges ==
    /\ open \in BOOLEAN
    /\ resizer \in [Sizes -> {"off", "start", "pty", "grid", "done"}]
    /\ resize \in Coalescer

\* One resize worker at a time, the one the coalescer knows of.
OneResizer ==
    /\ \A m, n \in Sizes : resizer[m] # "off" /\ resizer[n] # "off" => m = n
    /\ open => \A n \in Sizes : resizer[n] # "off" => n = resize.running

\* The two halves of a resize.  Once an answer has been missed no request gets
\* to the second half any more, and only then is one late.
SizeInv ==
    /\ late # {} => outOfStep
    /\ outOfStep => ResizeLockFree
    /\ \A n \in Sizes : resizer[n] = "pty" => pty = n
    /\ \A n \in Sizes : resizer[n] = "grid" => pty = size
    /\ ResizeLockFree /\ ~outOfStep => pty = size

ResizeInv == ResizeRanges /\ OneResizer /\ SizeInv

ViewRanges ==
    /\ shown \in Nat /\ label \in Nat
    /\ dirty \in Seq(Nat) /\ inFlight \subseteq Nat /\ snaps \subseteq Jobs

Bit(b) == IF b THEN 1 ELSE 0

\* Every change of the grid is counted, or somebody is about to count it.
CountInv ==
    /\ grid \in Nat /\ generation \in Nat
    /\ grid = generation + Bit(reader = "fed") + Bit(ui \in {"scroll", "mouse", "release"})
                         + Bit(\E n \in Sizes : resizer[n] = "grid")

\* Labels on their way are counts the session has had; contents are at least
\* as new as their labels and no older than the screen.
LabelInv ==
    /\ \A i \in 1..Len(dirty) : dirty[i] <= generation
    /\ label <= shown /\ shown <= grid
    /\ \A job \in snaps :
          /\ job.label <= generation
          /\ job.at = "ready" => /\ job.label <= job.content /\ job.content <= grid
                                 /\ open => shown <= job.content

\* The guard and its one worker.
GuardInv ==
    open => \/ snaps = {} /\ inFlight = {}
            \/ \E job \in snaps : snaps = {job} /\ inFlight = {job.label}

ViewInv == ViewRanges /\ LabelInv /\ GuardInv

Copying ==
    \/ CopySelection
    \/ \E job \in copies : SelectionExtracted(job) \/ ExtractSelection(job) \/ ExtractPanics(job)

\* Copying touches nothing but its own variables and counts its panics.
LEMMA CopyingFrame ==
  ASSUME Copying
  PROVE  UNCHANGED <<gridVars, grid, generation, selection, text, epoch, dragging, reader, ui,
                     feedVars, feed, dirty, slotVars, open, shown, label, inFlight, snaps,
                     resizeVars, resizer, resize, pty, size, late, outOfStep, endVars, killer,
                     reaper>>
  BY DEF Copying, CopySelection, SelectionExtracted, ExtractSelection, ExtractPanics,
     gridVars, selection, feedVars, slotVars, resizeVars, endVars

-----------------------------------------------------------------------------
(* Resizing                                                                *)

\* submit starts the new request only when nothing runs.
LEMMA SubmittedEffect ==
  ASSUME resize \in Coalescer, NEW n \in Sizes
  PROVE  /\ Submitted(n) \in Coalescer
         /\ Submitted(n).running \in {resize.running, n}
         /\ Submitted(n).running # resize.running => resize.running = 0
<1> n \in Nat
  BY SessionViewAssumption DEF Sizes
<1> USE DEF Submitted, Coalescer
<1>1. CASE n <= resize.last
  BY <1>1
<1>2. CASE ~(n <= resize.last) /\ resize.running = 0
  BY <1>2
<1>3. CASE ~(n <= resize.last) /\ resize.running # 0
  BY <1>3
<1>4. QED
  BY <1>1, <1>2, <1>3

\* completed moves on only for the request that was running.
LEMMA CompletedEffect ==
  ASSUME resize \in Coalescer, NEW n \in Sizes
  PROVE  /\ Completed(n) \in Coalescer
         /\ Completed(n).running # resize.running => resize.running = n
  BY SessionViewAssumption DEF Completed, Coalescer, Sizes

\* Every step keeps resizing consistent: one worker, and the two sizes equal
\* unless it is between them.
LEMMA ResizeStep == ResizeInv /\ [Next]_vars => ResizeInv'
<1> SUFFICES ASSUME ResizeInv, [Next]_vars PROVE ResizeInv'
  OBVIOUS
<1> USE SessionViewAssumption
        DEF ResizeInv, ResizeRanges, SizeInv, OneResizer, ResizeLockFree, Sizes
<1>1. CASE UNCHANGED <<resizer, pty, size, late, outOfStep, resize, open>>
  BY <1>1
<1>2. ASSUME NEW n \in Sizes, Submit(n) PROVE ResizeInv'
  <2>1. CASE open
    <3>1. resize' = Submitted(n) /\ UNCHANGED <<pty, size, late, outOfStep, open>>
      BY <1>2, <2>1 DEF Submit, slotVars
    <3>2. CASE resize'.running = resize.running
      BY <1>2, <2>1, <3>1, <3>2, SubmittedEffect DEF Submit
    <3>3. CASE resize'.running # resize.running
      <4>1. resizer' = [resizer EXCEPT ![n] = "start"]
        BY <1>2, <2>1, <3>3 DEF Submit
      <4>2. \A m \in Sizes : resizer[m] = "off"
        BY <2>1, <3>1, <3>3, SubmittedEffect
      <4>3. resize' \in Coalescer /\ resize'.running = n
        BY <3>1, <3>3, SubmittedEffect
      <4>4. QED
        BY <3>1, <4>1, <4>2, <4>3
    <3>4. QED
      BY <3>2, <3>3
  <2>2. CASE ~open
    BY <1>2, <2>2 DEF Submit, slotVars
  <2>3. QED
    BY <2>1, <2>2
<1>3. ASSUME NEW n \in Sizes, ResizeApplied(n) PROVE ResizeInv'
  <2>1. CASE open
    <3>1. /\ resize' = Completed(n) /\ UNCHANGED <<pty, size, late, outOfStep, open>>
          /\ resizer' = [m \in Sizes |->
                   IF m = n THEN "off"
                   ELSE IF m = resize'.running /\ m # resize.running THEN "start"
                   ELSE resizer[m]]
      BY <1>3, <2>1 DEF ResizeApplied, slotVars
    <3>2. resizer[n] = "done" /\ n = resize.running
      BY <1>3, <2>1 DEF ResizeApplied
    <3>3. \A m \in Sizes : m # n => resizer[m] = "off"
      BY <3>2
    <3>4. resize' \in Coalescer
      BY <3>1, CompletedEffect
    <3>5. \A m \in Sizes : resizer'[m] \in {"off", "start"}
                           /\ (resizer'[m] # "off" => m = resize'.running)
      BY <3>1, <3>2, <3>3
    <3>6. ResizeLockFree
      BY <3>2, <3>3
    <3>7. QED
      BY <3>1, <3>4, <3>5, <3>6
  <2>2. CASE ~open
    BY <1>3, <2>2 DEF ResizeApplied, slotVars
  <2>3. QED
    BY <2>1, <2>2
<1>4. ASSUME NEW n \in Sizes, ResizePty(n) PROVE ResizeInv'
  BY <1>4 DEF ResizePty, slotVars
<1>5. ASSUME NEW n \in Sizes, ResizePtyFails(n) \/ ResizePtyUnanswered(n) PROVE ResizeInv'
  BY <1>5 DEF ResizePtyFails, ResizePtyUnanswered, ResizeFails, slotVars
<1>6. ASSUME NEW n \in Sizes, ResizeGrid(n) PROVE ResizeInv'
  BY <1>6 DEF ResizeGrid, slotVars
<1>7. ASSUME NEW n \in Sizes, CountResize(n) PROVE ResizeInv'
  BY <1>7 DEF CountResize, slotVars
<1>8. CASE Close
  BY <1>8 DEF Close, resizeVars
<1>9. CASE \/ Feed \/ CountOutput \/ \E kind \in {"scroll", "mouse", "release"} : Command(kind)
           \/ Poll \/ SessionDirty \/ Redraw \/ CountCommand
           \/ Emit \/ Kill \/ FeedEnds \/ Reap
  BY <1>1, <1>9 DEF Feed, CountOutput, Command, Poll, SessionDirty, Redraw, CountCommand,
     Emit, Kill, FeedEnds, Reap, resizeVars, slotVars
<1>10. ASSUME NEW job \in snaps, SnapshotReady(job) \/ SnapshotFailed(job)
                                 \/ TakeSnapshot(job) \/ SnapshotPanics(job)
       PROVE  ResizeInv'
  BY <1>1, <1>10 DEF SnapshotReady, SnapshotFailed, TakeSnapshot, SnapshotPanics,
     resizeVars, slotVars
<1>11. CASE UNCHANGED vars
  BY <1>1, <1>11 DEF vars, resizeVars, slotVars
<1>12. CASE Copying
  BY <1>1, <1>12, CopyingFrame
<1>13. CASE ResizeComesLate
  BY <1>13 DEF ResizeComesLate, slotVars
<1>14. QED
  BY <1>2, <1>3, <1>4, <1>5, <1>6, <1>7, <1>8, <1>9, <1>10, <1>11, <1>12, <1>13
     DEF Next, UiMessage, Worker, Copying
-----------------------------------------------------------------------------
(* Counting                                                                *)

\* Who changes the grid or the count, and the bits that say so.
LEMMA CountStep ==
  ASSUME ResizeInv, CountInv, [Next]_vars
  PROVE  CountInv' /\ grid' >= grid /\ generation' >= generation /\ generation <= grid
<1> DEFINE SomeoneResizes == \E n \in Sizes : resizer[n] = "grid"
<1> USE DEF CountInv, Bit
<1>0. generation <= grid
  OBVIOUS
<1>1. CASE UNCHANGED <<grid, generation, reader, ui>> /\ SomeoneResizes' = SomeoneResizes
  BY <1>0, <1>1
<1>2. CASE Feed
  <2>1. /\ grid' = grid + 1 /\ reader = "reading" /\ reader' = "fed"
        /\ UNCHANGED <<generation, ui, resizer>>
    BY <1>2 DEF Feed, resizeVars
  <2>2. QED
    BY <1>0, <2>1
<1>3. CASE CountOutput
  <2>1. /\ generation' = generation + 1 /\ reader = "fed" /\ reader' = "reading"
        /\ UNCHANGED <<grid, ui, resizer>>
    BY <1>3 DEF CountOutput, resizeVars
  <2>2. QED
    BY <1>0, <2>1
<1>4. CASE \E kind \in {"scroll", "mouse", "release"} : Command(kind)
  <2>1. /\ grid' = grid + 1 /\ ui = "free" /\ ui' \in {"scroll", "mouse", "release"}
        /\ UNCHANGED <<generation, reader, resizer>>
    BY <1>4 DEF Command, resizeVars
  <2>2. QED
    BY <1>0, <2>1
<1>5. CASE CountCommand
  <2>1. /\ generation' = generation + 1
        /\ ui \in {"scroll", "mouse", "release"} /\ ui' \in {"redraw", "copy", "free"}
        /\ UNCHANGED <<grid, reader, resizer>>
    BY <1>5 DEF CountCommand, resizeVars
  <2>2. QED
    BY <1>0, <2>1
<1>6. CASE Redraw
  <2>1. ui \in {"redraw", "copy"} /\ ui' = "free" /\ UNCHANGED <<grid, generation, reader, resizer>>
    BY <1>6 DEF Redraw, gridVars, resizeVars
  <2>2. QED
    BY <1>0, <2>1
<1>7. CASE \E n \in Sizes : ResizeGrid(n)
  <2>1. /\ grid' = grid + 1 /\ UNCHANGED <<generation, reader, ui>>
        /\ ~SomeoneResizes /\ SomeoneResizes'
    BY <1>7 DEF ResizeGrid, ResizeInv, ResizeRanges, OneResizer
  <2>2. QED
    BY <1>0, <2>1
<1>8. CASE \E n \in Sizes : CountResize(n)
  <2>1. /\ generation' = generation + 1 /\ UNCHANGED <<grid, reader, ui>>
        /\ SomeoneResizes /\ ~SomeoneResizes'
    BY <1>8 DEF CountResize, ResizeInv, ResizeRanges, OneResizer
  <2>2. QED
    BY <1>0, <2>1
<1>9. CASE \E n \in Sizes : \/ Submit(n) \/ ResizePty(n) \/ ResizePtyFails(n)
                           \/ ResizePtyUnanswered(n) \/ ResizeApplied(n)
  <2>1. PICK n \in Sizes : \/ Submit(n) \/ ResizePty(n) \/ ResizePtyFails(n)
                           \/ ResizePtyUnanswered(n) \/ ResizeApplied(n)
    BY <1>9
  <2>2. UNCHANGED <<grid, generation, reader, ui>>
    BY <2>1 DEF Submit, ResizePty, ResizePtyFails, ResizePtyUnanswered, ResizeApplied, gridVars
  <2>3. CASE Submit(n)
    <3>1. CASE resizer' = resizer
      BY <1>1, <2>2, <3>1
    <3>2. CASE resizer' # resizer
      <4>1. /\ resizer' = [resizer EXCEPT ![n] = "start"] /\ open
            /\ Submitted(n).running # resize.running
        BY <2>3, <3>2 DEF Submit
      <4>2. \A m \in Sizes : resizer[m] = "off"
        BY <4>1, SubmittedEffect, SessionViewAssumption
           DEF ResizeInv, ResizeRanges, OneResizer, Sizes
      <4>3. ~SomeoneResizes /\ ~SomeoneResizes'
        BY <4>1, <4>2 DEF ResizeInv, ResizeRanges
      <4>4. QED
        BY <1>1, <2>2, <4>3
    <3>3. QED
      BY <3>1, <3>2
  <2>4. CASE ResizePty(n) \/ ResizePtyFails(n) \/ ResizePtyUnanswered(n)
    <3>1. \A m \in Sizes : resizer'[m] = "grid" <=> resizer[m] = "grid"
      BY <2>4 DEF ResizePty, ResizePtyFails, ResizePtyUnanswered, ResizeFails, ResizeInv,
         ResizeRanges
    <3>2. QED
      BY <1>1, <2>2, <3>1
  <2>5. CASE ResizeApplied(n)
    <3>1. \A m \in Sizes : resizer'[m] = "grid" <=> resizer[m] = "grid"
      BY <2>5 DEF ResizeApplied, ResizeInv, ResizeRanges, OneResizer
    <3>2. QED
      BY <1>1, <2>2, <3>1
  <2>6. QED
    BY <2>1, <2>3, <2>4, <2>5
<1>10. CASE \/ Poll \/ SessionDirty \/ ResizeComesLate \/ Emit \/ Close \/ Kill \/ FeedEnds \/ Reap
            \/ \E job \in snaps : SnapshotReady(job) \/ SnapshotFailed(job)
                                  \/ TakeSnapshot(job) \/ SnapshotPanics(job)
  <2>1. UNCHANGED <<grid, generation, reader, ui, resizer>>
    BY <1>10 DEF Poll, SessionDirty, ResizeComesLate, Emit, Close, Kill, FeedEnds, Reap,
       SnapshotReady, SnapshotFailed, TakeSnapshot, SnapshotPanics, gridVars, resizeVars
  <2>2. QED
    BY <1>1, <2>1
<1>11. CASE UNCHANGED vars
  BY <1>1, <1>11 DEF vars, gridVars, resizeVars
<1>12. CASE Copying
  BY <1>1, <1>12, CopyingFrame
<1>13. QED
  BY <1>2, <1>3, <1>4, <1>5, <1>6, <1>7, <1>8, <1>9, <1>10, <1>11, <1>12
     DEF Next, UiMessage, Worker, Copying
-----------------------------------------------------------------------------
(* Snapshots                                                               *)

\* A worker that answers is still a job, with the grid of this moment.
LEMMA TakeEffect ==
  ASSUME ViewRanges, grid \in Nat, NEW job \in snaps, TakeSnapshot(job)
  PROVE  \E new \in Jobs : /\ new.label = job.label /\ new.content = grid
                           /\ snaps' = (snaps \ {job}) \cup {new}
<1> DEFINE new == [label |-> job.label, at |-> "ready", content |-> grid]
<1>1. snaps' = (snaps \ {job}) \cup {new}
  BY DEF TakeSnapshot
<1>2. new \in Jobs /\ new.label = job.label /\ new.content = grid
  BY DEF ViewRanges, Jobs
<1> HIDE DEF new
<1>3. QED
  BY <1>1, <1>2

\* A worker that panics is still a job, and says so.
LEMMA PanicEffect ==
  ASSUME ViewRanges, NEW job \in snaps, SnapshotPanics(job)
  PROVE  \E new \in Jobs : /\ new.label = job.label /\ new.at = "failed"
                           /\ snaps' = (snaps \ {job}) \cup {new}
<1> DEFINE new == [job EXCEPT !.at = "failed"]
<1>1. job \in Jobs
  BY DEF ViewRanges
<1>2. snaps' = (snaps \ {job}) \cup {new}
  BY DEF SnapshotPanics
<1>3. new \in Jobs /\ new.label = job.label /\ new.at = "failed"
  BY <1>1 DEF Jobs
<1> HIDE DEF new
<1>4. QED
  BY <1>2, <1>3

\* request_snapshot keeps the guard and its worker together.
LEMMA RequestKeeps ==
  ASSUME CountInv, ViewInv, NEW g \in Nat, g <= generation, RequestSnapshot(g),
         UNCHANGED <<grid, generation, open, shown, label>>
  PROVE  /\ GuardInv' /\ inFlight' \subseteq Nat /\ snaps' \subseteq Jobs
         /\ \A job \in snaps' :
              /\ job.label <= generation
              /\ job.at = "ready" => /\ job.label <= job.content /\ job.content <= grid
                                     /\ open => shown <= job.content
<1> USE DEF CountInv, ViewInv, ViewRanges, LabelInv, GuardInv, RequestSnapshot
<1>1. Job(g) \in Jobs /\ Job(g).label = g /\ Job(g).at = "running"
  BY DEF Job, Jobs
<1>2. CASE open /\ inFlight = {}
  <2>1. snaps = {}
    BY <1>2
  <2>2. QED
    BY <1>1, <1>2, <2>1
<1>3. CASE ~(open /\ inFlight = {})
  BY <1>3
<1>4. QED
  BY <1>2, <1>3

\* The contents on their way stay newer than the screen, whatever the grid and
\* the count do meanwhile.
LEMMA ViewStep ==
  ASSUME ResizeInv, CountInv, ViewInv, [Next]_vars
  PROVE  ViewInv' /\ shown' >= shown
<1>0. /\ grid \in Nat /\ grid' \in Nat /\ generation \in Nat /\ generation' \in Nat
      /\ grid' >= grid /\ generation' >= generation /\ generation <= grid
  BY CountStep DEF CountInv
<1>n. /\ \A job \in snaps : job.label \in Nat /\ job.content \in Nat
      /\ \A i \in 1..Len(dirty) : dirty[i] \in Nat
  BY DEF ViewInv, ViewRanges, Jobs
<1> USE <1>0, <1>n DEF ViewInv, ViewRanges, LabelInv, GuardInv
<1>1. CASE UNCHANGED <<shown, label, dirty, inFlight, snaps, open>>
  BY <1>1
<1>2. CASE Poll
  <2>1. /\ dirty' = Append(dirty, generation)
        /\ UNCHANGED <<grid, generation, shown, label, inFlight, snaps, open>>
    BY <1>2 DEF Poll, slotVars, gridVars
  <2>2. dirty' \in Seq(Nat) /\ \A i \in 1..Len(dirty') : dirty'[i] <= generation
    BY <2>1
  <2>3. QED
    BY <2>1, <2>2
<1>3. CASE SessionDirty
  <2>1. /\ RequestSnapshot(Head(dirty)) /\ dirty' = Tail(dirty) /\ dirty # <<>>
        /\ UNCHANGED <<grid, generation, shown, label, open>>
    BY <1>3 DEF SessionDirty, gridVars
  <2>2. Head(dirty) \in Nat /\ Head(dirty) <= generation
    BY <2>1
  <2>3. dirty' \in Seq(Nat) /\ \A i \in 1..Len(dirty') : dirty'[i] <= generation
    BY <2>1
  <2>4. QED
    BY <2>1, <2>2, <2>3, RequestKeeps
<1>4. CASE Redraw
  <2>1. RequestSnapshot(generation) /\ UNCHANGED <<grid, generation, shown, label, open, dirty>>
    BY <1>4 DEF Redraw, gridVars, feedVars
  <2>2. QED
    BY <2>1, RequestKeeps
<1>5. ASSUME NEW job \in snaps, TakeSnapshot(job) PROVE ViewInv' /\ shown' >= shown
  <2>1. /\ job \in Jobs
        /\ UNCHANGED <<grid, generation, shown, label, open, dirty, inFlight>>
    BY <1>5 DEF TakeSnapshot, gridVars, feedVars, slotVars
  <2>2. PICK new \in Jobs : /\ new.label = job.label /\ new.content = grid
                            /\ snaps' = (snaps \ {job}) \cup {new}
    BY <1>5, TakeEffect
  <2>3. ViewRanges' /\ GuardInv'
    BY <2>1, <2>2
  <2>4. LabelInv'
    <3>1. job.label <= generation /\ job.label <= grid /\ shown <= grid
      OBVIOUS
    <3>2. \A other \in snaps' : other \in snaps \/ other = new
      BY <2>2
    <3>3. QED
      BY <2>1, <2>2, <3>1, <3>2
  <2>5. shown' >= shown
    BY <2>1
  <2>6. QED
    BY <2>3, <2>4, <2>5
<1>6. ASSUME NEW job \in snaps, SnapshotPanics(job) PROVE ViewInv' /\ shown' >= shown
  <2>1. /\ job \in Jobs
        /\ UNCHANGED <<grid, generation, shown, label, open, dirty, inFlight>>
    BY <1>6 DEF SnapshotPanics, gridVars, feedVars, slotVars
  <2>2. PICK new \in Jobs : /\ new.label = job.label /\ new.at = "failed"
                            /\ snaps' = (snaps \ {job}) \cup {new}
    BY <1>6, PanicEffect
  <2>3. ViewRanges' /\ GuardInv'
    BY <2>1, <2>2
  <2>4. LabelInv'
    BY <2>1, <2>2
  <2>5. QED
    BY <2>1, <2>3, <2>4
<1>7. ASSUME NEW job \in snaps, SnapshotFailed(job) PROVE ViewInv' /\ shown' >= shown
  <2>1. /\ snaps' = snaps \ {job}
        /\ inFlight' = IF open THEN inFlight \ {job.label} ELSE inFlight
        /\ UNCHANGED <<grid, generation, shown, label, open, dirty>>
    BY <1>7 DEF SnapshotFailed, gridVars, feedVars
  <2>2. ViewRanges' /\ LabelInv'
    BY <2>1
  <2>3. GuardInv'
    BY <2>1
  <2>4. QED
    BY <2>1, <2>2, <2>3
<1>8. ASSUME NEW job \in snaps, SnapshotReady(job) PROVE ViewInv' /\ shown' >= shown
  <2>1. /\ job.at = "ready" /\ job \in Jobs
        /\ IF open /\ Fresh(job)
           THEN shown' = job.content /\ label' = job.label
           ELSE UNCHANGED <<shown, label>>
        /\ IF Behind(job)
           THEN /\ inFlight' = {generation}
                /\ snaps' = (snaps \ {job}) \cup {Job(generation)}
           ELSE /\ inFlight' = IF open THEN inFlight \ {job.label} ELSE inFlight
                /\ snaps' = snaps \ {job}
        /\ UNCHANGED <<grid, generation, open, dirty>>
    BY <1>8 DEF SnapshotReady, Released, gridVars, feedVars
  <2>2. CASE open
    <3>1. snaps = {job} /\ inFlight = {job.label}
      BY <2>2
    <3>2. /\ shown' \in Nat /\ label' \in Nat /\ label' <= shown'
          /\ shown' <= grid /\ shown' >= shown
      BY <2>1, <2>2 DEF Jobs
    <3>3. CASE Behind(job)
      <4>1. Job(generation) \in Jobs /\ Job(generation).label = generation
            /\ Job(generation).at = "running"
        BY DEF Job, Jobs
      <4>2. snaps' = {Job(generation)} /\ inFlight' = {generation}
        BY <2>1, <3>1, <3>3
      <4>3. QED
        BY <2>1, <3>2, <4>1, <4>2
    <3>4. CASE ~Behind(job)
      <4>1. snaps' = {} /\ inFlight' = {}
        BY <2>1, <2>2, <3>1, <3>4
      <4>2. QED
        BY <2>1, <3>2, <4>1
    <3>5. QED
      BY <3>3, <3>4
  <2>3. CASE ~open
    <3>1. snaps' = snaps \ {job} /\ UNCHANGED <<shown, label, inFlight>>
      BY <2>1, <2>3 DEF Behind
    <3>2. QED
      BY <2>1, <2>3, <3>1
  <2>4. QED
    BY <2>2, <2>3
<1>9. CASE Close
  <2>1. ~open' /\ UNCHANGED <<shown, label, dirty, inFlight, snaps>>
    BY <1>9 DEF Close, feedVars
  <2>2. QED
    BY <2>1
<1>10. CASE \/ Feed \/ CountOutput \/ \E kind \in {"scroll", "mouse", "release"} : Command(kind)
            \/ CountCommand \/ ResizeComesLate \/ Emit \/ Kill \/ FeedEnds \/ Reap
            \/ \E n \in Sizes : \/ Submit(n) \/ ResizePty(n)
                                \/ ResizePtyFails(n) \/ ResizePtyUnanswered(n)
                                \/ ResizeGrid(n) \/ CountResize(n) \/ ResizeApplied(n)
  <2>1. UNCHANGED <<shown, label, dirty, inFlight, snaps, open>>
    BY <1>10 DEF Feed, CountOutput, Command, CountCommand, Emit, Kill, FeedEnds, Reap, Submit,
       ResizePty, ResizePtyFails, ResizePtyUnanswered, ResizeFails, ResizeComesLate,
       ResizeGrid, CountResize, ResizeApplied, feedVars, slotVars
  <2>2. QED
    BY <1>1, <2>1
<1>11. CASE UNCHANGED vars
  BY <1>1, <1>11 DEF vars, feedVars, slotVars
<1>12. CASE Copying
  BY <1>1, <1>12, CopyingFrame
<1>13. QED
  BY <1>2, <1>3, <1>4, <1>5, <1>6, <1>7, <1>8, <1>9, <1>10, <1>11, <1>12
     DEF Next, UiMessage, Worker, Copying
-----------------------------------------------------------------------------
(* Closing                                                                 *)

\* Who may hold the session once its pane is closed.
EndInv ==
    /\ killer \in {"none", "running", "done"} /\ reaper \in {"none", "holding", "reaped"}
    /\ open => killer = "none" /\ reaper = "none"
    /\ ~open => killer # "none" /\ reaper # "none"
    /\ reaper = "reaped" => Holders = {}

\* Nobody holds an Arc of the session.
LEMMA NoHolders ==
  Holders = {} <=>
      /\ ~open /\ ~feed /\ killer # "running" /\ reaper # "holding"
      /\ \A job \in snaps : job.at # "running"
      /\ \A job \in copies : job.at # "running"
      /\ \A n \in Sizes : resizer[n] \in {"off", "done"}
  BY DEF Holders, Working

\* Closing, killing and reaping keep their order.
LEMMA EndStep == EndInv /\ ResizeInv /\ [Next]_vars => EndInv'
<1> SUFFICES ASSUME EndInv, ResizeInv, [Next]_vars PROVE EndInv'
  OBVIOUS
<1> USE DEF EndInv
<1>1. CASE Close
  BY <1>1 DEF Close
<1>2. CASE Kill
  BY <1>2, NoHolders DEF Kill, slotVars
<1>3. CASE Reap
  <2>1. reaper' = "reaped" /\ UNCHANGED <<open, killer, feed, snaps, copies, resizer>>
        /\ Holders = {<<"reaper">>}
    BY <1>3 DEF Reap, slotVars, feedVars, resizeVars, copyVars
  <2>2. /\ <<"slot">> # <<"reaper">> /\ <<"feed">> # <<"reaper">>
        /\ <<"killer">> # <<"reaper">>
        /\ \A x : /\ <<"snapshot", x>> # <<"reaper">> /\ <<"resize", x>> # <<"reaper">>
                  /\ <<"copy", x>> # <<"reaper">>
    OBVIOUS
  <2>3. ~open /\ ~feed /\ killer # "running"
    BY <2>1, <2>2 DEF Holders
  <2>4. \A job \in snaps : job.at # "running"
    <3> SUFFICES ASSUME NEW job \in snaps, job.at = "running" PROVE FALSE
      OBVIOUS
    <3>1. <<"snapshot", job>> \in Holders
      BY DEF Holders
    <3>2. QED
      BY <2>1, <2>2, <3>1
  <2>c. \A job \in copies : job.at # "running"
    <3> SUFFICES ASSUME NEW job \in copies, job.at = "running" PROVE FALSE
      OBVIOUS
    <3>1. <<"copy", job>> \in Holders
      BY DEF Holders
    <3>2. QED
      BY <2>1, <2>2, <3>1
  <2>5. \A n \in Sizes : resizer[n] \in {"off", "done"}
    <3> SUFFICES ASSUME NEW n \in Sizes, resizer[n] \notin {"off", "done"} PROVE FALSE
      OBVIOUS
    <3>1. <<"resize", n>> \in Holders
      BY DEF Holders, Working
    <3>2. QED
      BY <2>1, <2>2, <3>1
  <2>6. Holders' = {}
    BY <2>1, <2>3, <2>4, <2>c, <2>5 DEF Holders, Working
  <2>7. QED
    BY <2>1, <2>3, <2>6
<1>4. CASE UNCHANGED <<open, killer, reaper>> /\ reaper # "reaped"
  BY <1>4
<1>5. CASE UNCHANGED <<open, killer, reaper>> /\ reaper = "reaped"
  <2> USE <1>5
  <2>1. /\ ~open /\ ~feed /\ killer # "running"
        /\ \A job \in snaps : job.at # "running"
        /\ \A job \in copies : job.at # "running"
        /\ \A n \in Sizes : resizer[n] \in {"off", "done"}
    BY NoHolders
  <2>2. ~feed'
    <3>1. feed' = feed \/ feed' = FALSE
      BY DEF Next, UiMessage, Worker, Feed, CountOutput, Command, CountCommand, Poll,
         SessionDirty, Redraw, TakeSnapshot, SnapshotPanics, SnapshotReady, SnapshotFailed,
         Emit, Submit, ResizePty, ResizePtyFails, ResizePtyUnanswered, ResizeFails,
         ResizeComesLate, ResizeGrid, CountResize, ResizeApplied, Close, Kill, FeedEnds, Reap,
         CopySelection, SelectionExtracted, ExtractSelection, ExtractPanics, feedVars, vars
    <3>2. QED
      BY <2>1, <3>1
  <2>3. snaps' \subseteq snaps
    <3>1. CASE Poll \/ SessionDirty \/ Redraw
      BY <2>1, <3>1 DEF Poll, SessionDirty, Redraw, RequestSnapshot
    <3>2. CASE \E job \in snaps : SnapshotReady(job) \/ SnapshotFailed(job)
      BY <2>1, <3>2 DEF SnapshotReady, SnapshotFailed, Behind
    <3>3. CASE \E job \in snaps : TakeSnapshot(job) \/ SnapshotPanics(job)
      BY <2>1, <3>3 DEF TakeSnapshot, SnapshotPanics
    <3>4. CASE UNCHANGED snaps
      BY <3>4
    <3>5. QED
      BY <3>1, <3>2, <3>3, <3>4 DEF Next, UiMessage, Worker, Feed, CountOutput, Command,
         CountCommand, Emit, Submit, ResizePty, ResizePtyFails, ResizePtyUnanswered,
         ResizeFails, ResizeComesLate, ResizeGrid, CountResize, ResizeApplied, Close, Kill,
         FeedEnds, Reap, CopySelection, SelectionExtracted, ExtractSelection, ExtractPanics,
         vars
  <2>4. \A n \in Sizes : resizer'[n] \in {"off", "done"}
    <3>1. CASE \E n \in Sizes : Submit(n)
      BY <2>1, <3>1 DEF Submit
    <3>2. CASE \E n \in Sizes : ResizeApplied(n)
      BY <2>1, <3>2 DEF ResizeApplied, ResizeInv, ResizeRanges
    <3>3. CASE \E n \in Sizes : \/ ResizePty(n) \/ ResizePtyFails(n)
                                \/ ResizePtyUnanswered(n) \/ ResizeGrid(n)
                                \/ CountResize(n)
      BY <2>1, <3>3 DEF ResizePty, ResizePtyFails, ResizePtyUnanswered, ResizeFails,
         ResizeComesLate, ResizeGrid, CountResize
    <3>4. CASE UNCHANGED resizer
      BY <2>1, <3>4
    <3>5. QED
      BY <3>1, <3>2, <3>3, <3>4 DEF Next, UiMessage, Worker, Feed, CountOutput, Command,
         CountCommand, Poll, SessionDirty, Redraw, TakeSnapshot, SnapshotPanics, ResizeComesLate,
         SnapshotReady, SnapshotFailed, Emit, Close, Kill, FeedEnds, Reap, CopySelection,
         SelectionExtracted, ExtractSelection, ExtractPanics, vars, resizeVars
  <2>c. \A job \in copies' : job.at # "running"
    <3>1. CASE CopySelection
      BY <2>1, <3>1 DEF CopySelection
    <3>2. CASE Redraw
      BY <2>1, <3>2 DEF Redraw, RequestExtraction
    <3>3. CASE \E job \in copies : \/ SelectionExtracted(job) \/ ExtractSelection(job)
                                  \/ ExtractPanics(job)
      BY <2>1, <3>3 DEF SelectionExtracted, ExtractSelection, ExtractPanics
    <3>4. CASE UNCHANGED copies
      BY <2>1, <3>4
    <3>5. QED
      BY <3>1, <3>2, <3>3, <3>4 DEF Next, UiMessage, Worker, Feed, CountOutput, Command,
         CountCommand, Poll, SessionDirty, TakeSnapshot, SnapshotPanics, SnapshotReady,
         SnapshotFailed, Emit, Submit, ResizePty, ResizePtyFails, ResizePtyUnanswered,
         ResizeFails, ResizeComesLate, ResizeGrid, CountResize, ResizeApplied, Close, Kill,
         FeedEnds, Reap, vars, copyVars
  <2>5. Holders' = {}
    BY <2>1, <2>2, <2>3, <2>4, <2>c DEF Holders, Working
  <2>6. QED
    BY <2>5
<1>6. UNCHANGED <<open, killer, reaper>> \/ Close \/ Kill \/ Reap
  BY DEF Next, UiMessage, Worker, Feed, CountOutput, Command, CountCommand, Poll,
     SessionDirty, Redraw, TakeSnapshot, SnapshotPanics, SnapshotReady, SnapshotFailed, Emit,
     Submit, ResizePty, ResizePtyFails, ResizePtyUnanswered, ResizeFails, ResizeComesLate,
     ResizeGrid, CountResize, ResizeApplied, FeedEnds, CopySelection, SelectionExtracted,
     ExtractSelection, ExtractPanics, vars, endVars, slotVars
<1>7. QED
  BY <1>1, <1>2, <1>3, <1>4, <1>5, <1>6

\* The last holder is the reaper, and the kill is behind it.
LEMMA LastHolder ==
  ASSUME EndInv, EndInv', [Next]_vars, Holders # {}, Holders' = {}
  PROVE  reaper = "holding" /\ killer = "done"
<1>1. ~open' /\ reaper' # "holding" /\ killer' # "running"
  BY DEF Holders
<1>2. reaper # "reaped" /\ reaper' = "reaped"
  BY <1>1 DEF EndInv
<1>3. Reap
  BY <1>2 DEF Next, UiMessage, Worker, Feed, CountOutput, Command, CountCommand, Poll,
     SessionDirty, Redraw, TakeSnapshot, SnapshotPanics, SnapshotReady, SnapshotFailed, Emit,
     Submit, ResizePty, ResizePtyFails, ResizePtyUnanswered, ResizeFails, ResizeComesLate,
     ResizeGrid, CountResize, ResizeApplied, Close, Kill, FeedEnds, CopySelection,
     SelectionExtracted, ExtractSelection, ExtractPanics, vars, endVars
<1>4. reaper = "holding" /\ killer' = killer /\ open' = open
  BY <1>3 DEF Reap, slotVars
<1>5. QED
  BY <1>1, <1>4 DEF EndInv
-----------------------------------------------------------------------------
(* Copying                                                                 *)

Requests == [number : Nat, epoch : Nat, asked : Nat]
CopyJobs == [request : Requests, at : {"running", "done"}, got : Nat]

CopyRanges ==
    /\ text \in Nat /\ epoch \in Nat /\ clipboard \in Nat /\ failures \in Nat
    /\ wanted \in Requests /\ copies \subseteq CopyJobs
    /\ extract \in [inFlight : BOOLEAN, pending : SUBSET Requests]

\* As long as the epoch is the request's, the text it asks for is selected.
Honest(r) == r.epoch <= epoch /\ (r.epoch = epoch => r.asked = text)

\* What a worker has read, and must have read if it did not panic.
Answer(job) ==
    /\ job.got \in {0, job.request.asked}
    /\ job.at = "done" /\ failures = 0 /\ job.request.epoch = epoch
          => job.got = job.request.asked

RequestInv ==
    /\ Honest(wanted)
    /\ \A r \in extract.pending : Honest(r)
    /\ \A job \in copies : Honest(job.request) /\ Answer(job)

ExtractGuard ==
    open => \/ ~extract.inFlight /\ copies = {} /\ extract.pending = {}
            \/ extract.inFlight /\ \E job \in copies : copies = {job}

\* Where the last request is: in the hands of the UI thread, waiting, with the
\* worker, or done.
NewestInv ==
    open => \/ ui \in {"release", "copy"}
            \/ extract.pending = {wanted}
            \/ extract.pending = {} /\ \E job \in copies : job.request = wanted
            \/ /\ extract.pending = {} /\ copies = {}
               /\ failures = 0 /\ wanted.epoch = epoch => wanted.asked \in {0, clipboard}

CopyInv == CopyRanges /\ RequestInv /\ ExtractGuard /\ NewestInv

\* The selection does not change without its epoch.
LEMMA SelectionStep ==
  ASSUME CopyRanges, grid \in Nat, [Next]_vars
  PROVE  /\ text' \in Nat /\ epoch' \in Nat /\ epoch <= epoch'
         /\ epoch' = epoch => text' = text
<1> USE DEF CopyRanges
<1>1. CASE UNCHANGED <<text, epoch>>
  BY <1>1
<1>2. CASE Feed
  BY <1>2 DEF Feed, EpochAfterFeed
<1>3. CASE \E kind \in {"scroll", "mouse", "release"} : Command(kind)
  <2>1. text' \in {0, text, grid + 1} /\ epoch' = EpochIfChanged(text')
    BY <1>3 DEF Command
  <2>2. QED
    BY <2>1 DEF EpochIfChanged
<1>4. CASE \E n \in Sizes : ResizeGrid(n)
  <2>1. /\ text' \in IF text = 0 THEN {0} ELSE {0, text, grid + 1}
        /\ epoch' \in {EpochIfChanged(text'), EpochAfterFeed(text')}
    BY <1>4 DEF ResizeGrid
  <2>2. QED
    BY <2>1 DEF EpochIfChanged, EpochAfterFeed
<1>5. CASE Copying
  BY <1>1, <1>5, CopyingFrame
<1>6. QED
  BY <1>1, <1>2, <1>3, <1>4, <1>5 DEF Next, UiMessage, Worker, Copying, CountOutput,
     CountCommand, Poll, SessionDirty, Redraw, TakeSnapshot, SnapshotPanics, SnapshotReady,
     SnapshotFailed, Emit, Submit, ResizePty, ResizePtyFails, ResizePtyUnanswered,
     ResizeFails, ResizeComesLate, CountResize, ResizeApplied, Close, Kill, FeedEnds, Reap,
     vars, gridVars, selection

\* Failures are counted up.
LEMMA FailuresStep ==
  ASSUME CopyRanges, [Next]_vars
  PROVE  failures' \in Nat /\ failures <= failures'
<1>1. failures' = failures \/ failures' = failures + 1
  BY DEF Next, UiMessage, Worker, Feed, CountOutput, Command, CountCommand, Poll,
     SessionDirty, Redraw, TakeSnapshot, SnapshotPanics, SnapshotReady, SnapshotFailed, Emit,
     Submit, ResizePty, ResizePtyFails, ResizePtyUnanswered, ResizeFails, ResizeComesLate,
     ResizeGrid, CountResize, ResizeApplied, CopySelection, SelectionExtracted,
     ExtractSelection, ExtractPanics, Close, Kill, FeedEnds, Reap, vars, history
<1>2. failures \in Nat
  BY DEF CopyRanges
<1>3. QED
  BY <1>1, <1>2

\* What was true of a request and an answer stays true.
LEMMA RequestsKept ==
  ASSUME CopyRanges, grid \in Nat, [Next]_vars
  PROVE  /\ \A r \in Requests : Honest(r) => Honest(r)'
         /\ \A job \in CopyJobs : Honest(job.request) /\ Answer(job) => Answer(job)'
<1>1. /\ epoch \in Nat /\ epoch' \in Nat /\ epoch <= epoch' /\ (epoch' = epoch => text' = text)
      /\ failures \in Nat /\ failures' \in Nat /\ failures <= failures'
  BY SelectionStep, FailuresStep DEF CopyRanges
<1>2. ASSUME NEW r \in Requests, Honest(r) PROVE Honest(r)'
  BY <1>1, <1>2 DEF Honest, Requests
<1>3. ASSUME NEW job \in CopyJobs, Honest(job.request), Answer(job) PROVE Answer(job)'
  <2>1. job.request.epoch \in Nat /\ job.request.epoch <= epoch
    BY <1>3 DEF CopyJobs, Requests, Honest
  <2>2. job.request.epoch = epoch' => job.request.epoch = epoch
    BY <1>1, <2>1
  <2>3. failures' = 0 => failures = 0
    BY <1>1
  <2>4. QED
    BY <1>3, <2>2, <2>3 DEF Answer
<1>4. QED
  BY <1>2, <1>3

\* A new request and the worker for it.
LEMMA RequestEffect ==
  ASSUME CopyRanges, ExtractGuard, NEW r \in Requests, RequestExtraction(r), open
  PROVE  /\ copies' \subseteq CopyJobs
         /\ extract' \in [inFlight : BOOLEAN, pending : SUBSET Requests]
         /\ extract'.inFlight
         /\ \/ extract'.pending = {r} /\ copies' = copies /\ extract.inFlight
            \/ extract'.pending = {} /\ copies' = {CopyJob(r)}
<1>1. CopyJob(r) \in CopyJobs
  BY DEF CopyJob, CopyJobs
<1>2. CASE extract.inFlight
  BY <1>2 DEF RequestExtraction, CopyRanges
<1>3. CASE ~extract.inFlight
  <2>1. copies = {} /\ extract.pending = {}
    BY <1>3 DEF ExtractGuard
  <2>2. extract' = [extract EXCEPT !.inFlight = TRUE] /\ copies' = {CopyJob(r)}
    BY <1>3, <2>1 DEF RequestExtraction
  <2>3. QED
    BY <1>1, <2>1, <2>2 DEF CopyRanges
<1>4. QED
  BY <1>2, <1>3

\* Copying stays serial, honest, and ends with the newest request.
LEMMA CopyStep ==
  ASSUME CopyInv, grid \in Nat, [Next]_vars
  PROVE  CopyInv'
<1>1. /\ text' \in Nat /\ epoch' \in Nat /\ epoch <= epoch' /\ (epoch' = epoch => text' = text)
      /\ failures' \in Nat /\ (failures' = 0 => failures = 0)
  BY SelectionStep, FailuresStep DEF CopyInv, CopyRanges
<1>2. /\ \A r \in Requests : Honest(r) => Honest(r)'
      /\ \A job \in CopyJobs : Honest(job.request) /\ Answer(job) => Answer(job)'
  BY RequestsKept DEF CopyInv
<1>3. /\ wanted \in Requests /\ copies \subseteq CopyJobs /\ extract.pending \subseteq Requests
      /\ wanted.epoch \in Nat /\ wanted.epoch <= epoch
      /\ \A job \in copies : job.request \in Requests
  BY DEF CopyInv, CopyRanges, RequestInv, Honest, Requests, CopyJobs
<1>4. failures' = 0 /\ wanted.epoch = epoch' => failures = 0 /\ wanted.epoch = epoch
  BY <1>1, <1>3 DEF CopyInv, CopyRanges
<1>5. ASSUME UNCHANGED copyVars, open' => open,
             ui \in {"release", "copy"} => ui' \in {"release", "copy"}
      PROVE  CopyInv'
  <2>1. UNCHANGED <<extract, copies, clipboard, wanted>>
    BY <1>5 DEF copyVars
  <2>2. CopyRanges'
    BY <1>1, <2>1 DEF CopyInv, CopyRanges
  <2>3. RequestInv'
    BY <1>2, <1>3, <2>1 DEF CopyInv, RequestInv
  <2>4. ExtractGuard'
    BY <1>5, <2>1 DEF CopyInv, ExtractGuard
  <2>5. NewestInv'
    BY <1>4, <1>5, <2>1 DEF CopyInv, NewestInv
  <2>6. QED
    BY <2>2, <2>3, <2>4, <2>5 DEF CopyInv
<1>6. CASE Command("release")
  <2>1. /\ wanted' = Request(epoch', text') /\ ui' = "release"
        /\ UNCHANGED <<extract, copies, clipboard, open>>
    BY <1>6 DEF Command, slotVars
  <2>2. wanted' \in Requests /\ Honest(wanted)'
    BY <1>1, <1>3, <2>1 DEF Request, Requests, Honest
  <2>3. CopyRanges'
    BY <1>1, <2>1, <2>2 DEF CopyInv, CopyRanges
  <2>4. RequestInv'
    BY <1>2, <1>3, <2>1, <2>2 DEF CopyInv, RequestInv
  <2>5. ExtractGuard' /\ NewestInv'
    BY <2>1 DEF CopyInv, ExtractGuard, NewestInv
  <2>6. QED
    BY <2>3, <2>4, <2>5 DEF CopyInv
<1>7. ASSUME NEW r \in Requests, RequestExtraction(r), Honest(r), wanted' = r,
             UNCHANGED <<open, clipboard, text, epoch, failures>>,
             open
      PROVE  CopyInv'
  <2>1. /\ copies' \subseteq CopyJobs
        /\ extract' \in [inFlight : BOOLEAN, pending : SUBSET Requests]
        /\ extract'.inFlight
        /\ \/ extract'.pending = {r} /\ copies' = copies /\ extract.inFlight
           \/ extract'.pending = {} /\ copies' = {CopyJob(r)}
    BY <1>7, RequestEffect DEF CopyInv
  <2>2. CopyJob(r).request = r /\ CopyJob(r).at = "running" /\ CopyJob(r).got = 0
    BY DEF CopyJob
  <2>3. CopyRanges'
    BY <1>7, <2>1 DEF CopyInv, CopyRanges
  <2>4. RequestInv'
    <3>1. Honest(r)'
      BY <1>2, <1>7
    <3>2. \A job \in copies' : job \in copies \/ job = CopyJob(r)
      BY <2>1
    <3>3. \A s \in extract'.pending : s = r
      BY <2>1
    <3>4. \A job \in copies' : Honest(job.request)' /\ Answer(job)'
      <4>1. ASSUME NEW job \in copies PROVE Honest(job.request)' /\ Answer(job)'
        BY <1>2, <1>3 DEF CopyInv, RequestInv
      <4>2. Honest(CopyJob(r).request)' /\ Answer(CopyJob(r))'
        BY <2>2, <3>1 DEF Answer
      <4>3. QED
        BY <3>2, <4>1, <4>2
    <3>5. QED
      BY <1>7, <3>1, <3>3, <3>4 DEF RequestInv
  <2>5. ExtractGuard'
    BY <1>7, <2>1 DEF CopyInv, ExtractGuard
  <2>6. NewestInv'
    BY <1>7, <2>1, <2>2 DEF NewestInv
  <2>7. QED
    BY <2>3, <2>4, <2>5, <2>6 DEF CopyInv
<1>8. CASE Redraw
  <2>1. /\ UNCHANGED <<open, clipboard, wanted, text, epoch, failures>>
        /\ ui \in {"redraw", "copy"}
    BY <1>8 DEF Redraw, gridVars, selection, history
  <2>2. CASE ui = "copy" /\ open
    <3>1. RequestExtraction(wanted)
      BY <1>8, <2>2 DEF Redraw
    <3>2. QED
      BY <1>3, <1>7, <2>1, <2>2, <3>1 DEF CopyInv, RequestInv
  <2>3. CASE ui = "copy" /\ ~open
    <3>1. UNCHANGED copyVars
      BY <1>8, <2>1, <2>3 DEF Redraw, RequestExtraction, copyVars
    <3>2. CopyRanges' /\ RequestInv'
      BY <1>1, <1>2, <1>3, <2>1, <3>1 DEF copyVars, CopyInv, CopyRanges, RequestInv
    <3>3. ~open'
      BY <2>1, <2>3
    <3>4. QED
      BY <3>2, <3>3 DEF CopyInv, ExtractGuard, NewestInv
  <2>4. CASE ui = "redraw"
    <3>1. UNCHANGED copyVars
      BY <1>8, <2>1, <2>4 DEF Redraw, copyVars
    <3>2. QED
      BY <1>5, <2>1, <2>4, <3>1
  <2>5. QED
    BY <2>1, <2>2, <2>3, <2>4
<1>9. CASE CopySelection
  <2>1. /\ open /\ wanted' = Request(epoch, text)
        /\ RequestExtraction(Request(epoch, text))
        /\ UNCHANGED <<open, clipboard, text, epoch, failures>>
    BY <1>9 DEF CopySelection, slotVars, gridVars, selection, history
  <2>2. Request(epoch, text) \in Requests /\ Honest(Request(epoch, text))
    BY <1>3 DEF Request, Requests, Honest, CopyInv, CopyRanges
  <2>3. QED
    BY <1>7, <2>1, <2>2
<1>10. ASSUME NEW job \in copies, NEW new \in CopyJobs,
              copies' = (copies \ {job}) \cup {new}, new.request = job.request, Answer(new)',
              UNCHANGED <<open, ui, extract, clipboard, wanted>>
       PROVE  CopyInv'
  <2>1. CopyRanges'
    BY <1>1, <1>3, <1>10 DEF CopyInv, CopyRanges
  <2>2. RequestInv'
    <3>1. ASSUME NEW other \in copies PROVE Honest(other.request)' /\ Answer(other)'
      BY <1>2, <1>3 DEF CopyInv, RequestInv
    <3>2. Honest(new.request)'
      BY <1>10, <3>1
    <3>3. \A other \in copies' : other \in copies \/ other = new
      BY <1>10
    <3>4. \A other \in copies' : Honest(other.request)' /\ Answer(other)'
      BY <1>10, <3>1, <3>2, <3>3
    <3>5. Honest(wanted)' /\ \A r \in extract'.pending : Honest(r)'
      BY <1>2, <1>3, <1>10 DEF CopyInv, RequestInv
    <3>6. QED
      BY <1>10, <3>4, <3>5 DEF RequestInv
  <2>3. ExtractGuard'
    BY <1>10 DEF CopyInv, ExtractGuard
  <2>4. NewestInv'
    BY <1>4, <1>10 DEF CopyInv, NewestInv
  <2>5. QED
    BY <2>1, <2>2, <2>3, <2>4 DEF CopyInv
<1>11. ASSUME NEW job \in copies, ExtractSelection(job) PROVE CopyInv'
  <2>1. UNCHANGED <<open, ui, extract, clipboard, wanted, text, epoch, failures>>
    BY <1>11 DEF ExtractSelection, slotVars, gridVars, selection, history
  <2>2. /\ job \in CopyJobs /\ Extracted(job) \in Nat
        /\ Extracted(job) \in {0, job.request.asked}
        /\ job.request.epoch = epoch => Extracted(job) = job.request.asked
    BY <1>3 DEF Extracted, CopyInv, CopyRanges, RequestInv, Honest
  <2>3. \E new \in CopyJobs : /\ copies' = (copies \ {job}) \cup {new}
                              /\ new.request = job.request /\ new.got = Extracted(job)
    <3> DEFINE new == [job EXCEPT !.at = "done", !.got = Extracted(job)]
    <3>1. copies' = (copies \ {job}) \cup {new}
      BY <1>11 DEF ExtractSelection
    <3>2. new \in CopyJobs /\ new.request = job.request /\ new.got = Extracted(job)
      BY <2>2 DEF CopyJobs
    <3> HIDE DEF new
    <3>3. QED
      BY <3>1, <3>2
  <2>4. PICK new \in CopyJobs : /\ copies' = (copies \ {job}) \cup {new}
                                /\ new.request = job.request /\ new.got = Extracted(job)
    BY <2>3
  <2>5. Answer(new)'
    BY <2>1, <2>2, <2>4 DEF Answer
  <2>6. QED
    BY <1>10, <2>1, <2>4, <2>5
<1>12. ASSUME NEW job \in copies, ExtractPanics(job) PROVE CopyInv'
  <2>1. failures' # 0 /\ UNCHANGED <<open, ui, extract, clipboard, wanted>>
    BY <1>12 DEF ExtractPanics, slotVars, CopyInv, CopyRanges
  <2>2. job \in CopyJobs /\ job.got \in {0, job.request.asked}
    BY <1>3 DEF CopyInv, RequestInv, Answer
  <2>3. \E new \in CopyJobs : /\ copies' = (copies \ {job}) \cup {new}
                              /\ new.request = job.request /\ new.got = job.got
    <3> DEFINE new == [job EXCEPT !.at = "done"]
    <3>1. copies' = (copies \ {job}) \cup {new}
      BY <1>12 DEF ExtractPanics
    <3>2. new \in CopyJobs /\ new.request = job.request /\ new.got = job.got
      BY <2>2 DEF CopyJobs
    <3> HIDE DEF new
    <3>3. QED
      BY <3>1, <3>2
  <2>4. PICK new \in CopyJobs : /\ copies' = (copies \ {job}) \cup {new}
                                /\ new.request = job.request /\ new.got = job.got
    BY <2>3
  <2>5. Answer(new)'
    BY <2>1, <2>2, <2>4 DEF Answer
  <2>6. QED
    BY <1>10, <2>1, <2>4, <2>5
<1>13. ASSUME NEW job \in copies, SelectionExtracted(job) PROVE CopyInv'
  <2>1. /\ job.at = "done" /\ ui = "free"
        /\ clipboard' = IF job.got # 0 THEN job.got ELSE clipboard
        /\ UNCHANGED <<open, ui, wanted, text, epoch, failures>>
    BY <1>13 DEF SelectionExtracted, slotVars, gridVars, selection, history
  <2>2. job \in CopyJobs /\ clipboard' \in Nat
    BY <1>3, <2>1 DEF CopyJobs, CopyInv, CopyRanges
  <2>3. CASE open
    <3>1. copies = {job}
      BY <2>3 DEF CopyInv, ExtractGuard
    <3>2. /\ extract' = [inFlight |-> extract.pending # {}, pending |-> {}]
          /\ copies' = {CopyJob(r) : r \in extract.pending}
      BY <1>13, <2>3, <3>1 DEF SelectionExtracted
    <3>3. CASE extract.pending = {wanted}
      <4>1. copies' = {CopyJob(wanted)} /\ extract' = [inFlight |-> TRUE, pending |-> {}]
        BY <3>2, <3>3
      <4>2. /\ CopyJob(wanted) \in CopyJobs /\ CopyJob(wanted).request = wanted
            /\ CopyJob(wanted).at = "running" /\ CopyJob(wanted).got = 0
        BY <1>3 DEF CopyJob, CopyJobs
      <4>3. CopyRanges'
        BY <1>1, <2>1, <2>2, <4>1, <4>2 DEF CopyInv, CopyRanges
      <4>4. RequestInv'
        <5>1. Honest(wanted)'
          BY <1>2, <1>3, <2>1 DEF CopyInv, RequestInv
        <5>2. wanted' = wanted /\ extract'.pending = {}
          BY <2>1, <4>1
        <5>3. \A other \in copies' : other = CopyJob(wanted)
          BY <4>1
        <5>4. \A other \in copies' : other.request = wanted /\ other.at = "running" /\ other.got = 0
          BY <4>2, <5>3
        <5>5. \A other \in copies' : Answer(other)'
          BY <5>4 DEF Answer
        <5>6. \A other \in copies' : Honest(other.request)'
          BY <2>1, <5>1, <5>4 DEF Honest
        <5>7. QED
          BY <5>1, <5>2, <5>5, <5>6 DEF RequestInv
      <4>5. ExtractGuard' /\ NewestInv'
        BY <2>1, <4>1, <4>2 DEF ExtractGuard, NewestInv
      <4>6. QED
        BY <4>3, <4>4, <4>5 DEF CopyInv
    <3>4. CASE extract.pending # {wanted}
      <4>1. extract.pending = {} /\ job.request = wanted
        BY <2>1, <2>3, <3>1, <3>4 DEF CopyInv, NewestInv
      <4>2. copies' = {} /\ extract' = [inFlight |-> FALSE, pending |-> {}]
        BY <3>2, <4>1
      <4>3. CopyRanges'
        BY <1>1, <2>1, <2>2, <4>2 DEF CopyInv, CopyRanges
      <4>4. RequestInv'
        BY <1>2, <1>3, <2>1, <4>2 DEF CopyInv, RequestInv
      <4>5. failures = 0 /\ wanted.epoch = epoch => wanted.asked \in {0, clipboard'}
        BY <2>1, <4>1 DEF CopyInv, RequestInv, Answer
      <4>6. ExtractGuard' /\ NewestInv'
        BY <2>1, <4>2, <4>5 DEF ExtractGuard, NewestInv
      <4>7. QED
        BY <4>3, <4>4, <4>6 DEF CopyInv
    <3>5. QED
      BY <3>3, <3>4
  <2>4. CASE ~open
    <3>1. ~open' /\ copies' = copies \ {job} /\ extract' = extract
      BY <1>13, <2>1, <2>4 DEF SelectionExtracted
    <3>2. CopyRanges' /\ RequestInv'
      BY <1>1, <1>2, <1>3, <2>1, <2>2, <3>1 DEF CopyInv, CopyRanges, RequestInv
    <3>3. QED
      BY <3>1, <3>2 DEF CopyInv, ExtractGuard, NewestInv
  <2>5. QED
    BY <2>3, <2>4
<1>14. CASE CountCommand \/ \E kind \in {"scroll", "mouse"} : Command(kind)
  BY <1>5, <1>14 DEF CountCommand, Command, copyVars, slotVars
<1>15. CASE \/ Feed \/ CountOutput \/ Poll \/ SessionDirty \/ ResizeComesLate \/ Emit \/ Close \/ Kill
            \/ FeedEnds \/ Reap \/ UNCHANGED vars
            \/ \E s \in snaps : \/ SnapshotReady(s) \/ SnapshotFailed(s)
                                \/ TakeSnapshot(s) \/ SnapshotPanics(s)
            \/ \E n \in Sizes : \/ Submit(n) \/ ResizePty(n)
                                \/ ResizePtyFails(n) \/ ResizePtyUnanswered(n)
                                \/ ResizeGrid(n) \/ CountResize(n) \/ ResizeApplied(n)
  <2>1. UNCHANGED copyVars /\ ui' = ui /\ (open' = open \/ open' = FALSE)
    BY <1>15 DEF Feed, CountOutput, Poll, SessionDirty, Emit, Close, Kill, FeedEnds, Reap,
       vars, SnapshotReady, SnapshotFailed, TakeSnapshot, SnapshotPanics, Submit, ResizePty,
       ResizePtyFails, ResizePtyUnanswered, ResizeFails, ResizeComesLate, ResizeGrid,
       CountResize, ResizeApplied, slotVars
  <2>2. open' => open
    BY <2>1
  <2>3. QED
    BY <1>5, <2>1, <2>2
<1>16. QED
  BY <1>6, <1>8, <1>9, <1>11, <1>12, <1>13, <1>14, <1>15 DEF Next, UiMessage, Worker
-----------------------------------------------------------------------------
(* The order of resize requests                                            *)

\* The requests move in the order they were made: what the PTY has, what runs,
\* what waits for it, and what is still on its way; and without failures what
\* was left out is older than what was set.
SizeOrder ==
    /\ emitted \in Nat /\ pty \in Nat /\ failures \in Nat /\ asked \subseteq 1..emitted
    /\ resize.last <= emitted /\ resize.last \notin asked
    /\ resize.pending \in Sizes \cup {0}
    /\ resize.pending # 0 => resize.pending = resize.last /\ resize.running # 0
    /\ resize.running # 0 =>
         /\ resize.running \in Sizes /\ resize.running <= resize.last
         /\ resize.running \notin asked /\ pty <= resize.running
         /\ resize.pending = 0 => resize.running = resize.last
         /\ resize.pending # 0 => resize.running < resize.pending
    /\ pty <= resize.last
    /\ \A n \in Sizes : resizer[n] # "off" => n = resize.running
    /\ \A n \in Sizes : resizer[n] = "start" => pty < n
    /\ \A n \in Sizes : resizer[n] \in {"pty", "grid"} => pty = n
    /\ open =>
         /\ resize.running # 0 => resizer[resize.running] # "off"
         /\ \A n \in 1..emitted : n > resize.last => n \in asked
         /\ failures = 0 => /\ resize.running = 0 => pty = resize.last
                            /\ \A n \in Sizes : resizer[n] = "done" => pty = n

\* Requests whose answer was missed are newer than what the PTY has and no newer
\* than what runs: they may be served in their order, and nobody else serves one.
LateOrder ==
    /\ late \subseteq Sizes /\ outOfStep \in BOOLEAN
    /\ outOfStep => failures > 0
    /\ \A m \in late : /\ pty < m /\ m <= resize.last /\ m \notin asked
                       /\ resize.running # 0 => m <= resize.running
                       /\ resizer[m] # "start"

ResizesWaiting ==
    asked \cup ({resize.pending} \ {0}) \cup {n \in Sizes : resizer[n] = "start"} \cup late
ResizeRefused == failures > 0 \/ ~open

\* What a step may do to the order and to the abstract requests.
InOrder == SizeOrder' /\ (Resizing!Next \/ UNCHANGED Resizing!vars)

\* Steps that are no part of resizing: they may fail, or close the pane.
LEMMA NotResizing ==
  ASSUME ResizeRanges, SizeOrder, UNCHANGED resizeVars,
         \/ failures' = failures /\ open' = open
         \/ failures' = failures + 1 /\ open' = open
         \/ failures' = failures /\ open' = FALSE
  PROVE  InOrder
<1> USE DEF resizeVars
<1>1. SizeOrder'
  BY DEF SizeOrder, ResizeRanges
<1>2. ResizesWaiting' = ResizesWaiting
  BY DEF ResizesWaiting
<1>3. CASE failures' = failures /\ open' = open
  <2>1. ResizeRefused' <=> ResizeRefused
    BY <1>3 DEF ResizeRefused
  <2> QED
    BY <1>1, <1>2, <2>1, Zenon DEF InOrder, Resizing!vars, ResizesWaiting, ResizeRefused
<1>4. CASE failures' = failures + 1 \/ open' = FALSE
  <2>1. ResizeRefused' <=> TRUE
    BY <1>4 DEF ResizeRefused, SizeOrder
  <2>2. ResizesWaiting' \subseteq ResizesWaiting
    BY <1>2
  <2> QED
    BY <1>1, <2>1, <2>2, Zenon
    DEF InOrder, Resizing!Next, Resizing!Refuse, ResizesWaiting, ResizeRefused
<1> QED
  BY <1>3, <1>4

\* The widget asks for one more size.
LEMMA EmitInOrder ==
  ASSUME ResizeRanges, SizeOrder, Emit
  PROVE  InOrder
<1>1. /\ emitted' = emitted + 1 /\ asked' = asked \cup {emitted + 1}
      /\ UNCHANGED <<resize, resizer, pty, late, open, failures>>
  BY DEF Emit, slotVars, history
<1>2. SizeOrder'
  <2>1. asked' \subseteq 1..emitted'
    BY <1>1 DEF SizeOrder
  <2>2. resize.last <= emitted' /\ resize.last \notin asked'
    BY <1>1 DEF SizeOrder, ResizeRanges, Coalescer
  <2>3. resize.running # 0 => resize.running \notin asked'
    BY <1>1 DEF SizeOrder, ResizeRanges, Coalescer
  <2>4. open => \A n \in 1..emitted' : n > resize.last => n \in asked'
    BY <1>1 DEF SizeOrder
  <2> QED
    BY <1>1, <2>1, <2>2, <2>3, <2>4 DEF SizeOrder
<1>3. ResizesWaiting' = ResizesWaiting \cup {emitted + 1} /\ (ResizeRefused' <=> ResizeRefused)
  BY <1>1 DEF ResizesWaiting, ResizeRefused
<1> QED
  BY <1>1, <1>2, <1>3, Zenon
  DEF InOrder, Resizing!Next, Resizing!Ask, ResizesWaiting, ResizeRefused

\* A request reaches the coalescer, in any order.
LEMMA SubmitInOrder ==
  ASSUME ResizeRanges, SizeOrder, LateOrder, NEW n \in Sizes, Submit(n)
  PROVE  InOrder
<1> USE SessionViewAssumption DEF Sizes
<1>1. /\ n \in asked /\ asked' = asked \ {n}
      /\ UNCHANGED <<emitted, pty, late, open, failures>>
  BY DEF Submit, slotVars, history
<1>2. n \in 1..emitted /\ n # resize.last /\ (resize.running # 0 => n # resize.running)
  BY <1>1 DEF SizeOrder
<1>r. resize \in Coalescer /\ resize.last \in Nat /\ resize.running \in Nat /\ resize.pending \in Nat
  BY DEF ResizeRanges, Coalescer
<1>3. resizer[n] # "start" /\ n # resize.pending /\ n \notin late
  BY <1>1, <1>2 DEF SizeOrder, LateOrder
<1>4. CASE ~open
  <2>1. UNCHANGED <<resize, resizer>>
    BY <1>4 DEF Submit
  <2>2. SizeOrder'
    BY <1>1, <1>4, <2>1 DEF SizeOrder
  <2>3. (ResizeRefused' <=> TRUE) /\ ResizesWaiting' \subseteq ResizesWaiting
    BY <1>1, <1>4, <2>1 DEF ResizeRefused, ResizesWaiting
  <2> QED
    BY <1>1, <2>2, <2>3, Zenon
    DEF InOrder, Resizing!Next, Resizing!Refuse, ResizesWaiting, ResizeRefused
<1>5. CASE open /\ n <= resize.last
  <2>1. resize' = resize /\ resizer' = resizer
    BY <1>5 DEF Submit, Submitted
  <2>2. SizeOrder'
    <3>1. \A m \in 1..emitted : m > resize.last => m \in asked'
      BY <1>1, <1>5, <1>r DEF SizeOrder
    <3> QED
      BY <1>1, <2>1, <3>1 DEF SizeOrder
  <2>3. ResizesWaiting' = ResizesWaiting \ {n} /\ n \in ResizesWaiting
    BY <1>1, <1>2, <1>3, <2>1 DEF ResizesWaiting
  <2>4. CASE failures = 0
    <3>1. resize.last \in ResizesWaiting \cup {pty}
      BY <1>5, <2>4, <1>r DEF SizeOrder, ResizeRanges, ResizesWaiting
    <3>2. \E m \in ResizesWaiting, newer \in ResizesWaiting \cup {pty} :
             m < newer /\ ResizesWaiting' = ResizesWaiting \ {m}
      BY <1>2, <1>5, <2>3, <3>1, <1>r
    <3>3. ResizeRefused' <=> ResizeRefused
      BY <1>1 DEF ResizeRefused
    <3> QED
      BY <1>1, <2>2, <3>2, <3>3, Zenon
      DEF InOrder, Resizing!Next, Resizing!Supersede, ResizesWaiting, ResizeRefused
  <2>5. CASE failures # 0
    <3>1. (ResizeRefused' <=> TRUE) /\ ResizesWaiting' \subseteq ResizesWaiting
      BY <1>1, <2>3, <2>5 DEF ResizeRefused, SizeOrder
    <3> QED
      BY <1>1, <2>2, <3>1, Zenon
      DEF InOrder, Resizing!Next, Resizing!Refuse, ResizesWaiting, ResizeRefused
  <2> QED
    BY <2>4, <2>5
<1>6. CASE open /\ n > resize.last /\ resize.running = 0
  <2>1. /\ resize' = [resize EXCEPT !.last = n, !.running = n]
        /\ resizer' = [resizer EXCEPT ![n] = "start"]
    <3>1. resize' = [resize EXCEPT !.last = n, !.running = n]
      BY <1>6, <1>r DEF Submit, Submitted
    <3>2. resize'.running = n /\ n # 0
      BY <1>r, <3>1 DEF Coalescer
    <3> QED
      BY <1>6, <3>1, <3>2 DEF Submit
  <2>2. /\ resize'.last = n /\ resize'.running = n /\ resize'.pending = 0 /\ resize.pending = 0
        /\ resizer'[n] = "start" /\ \A m \in Sizes : m # n => resizer'[m] = "off"
    BY <1>6, <2>1, <1>r DEF Coalescer, ResizeRanges, SizeOrder
  <2>3. SizeOrder'
    <3>1. pty < n
      BY <1>6, <1>r DEF SizeOrder
    <3>2. \A m \in 1..emitted : m > n => m \in asked'
      BY <1>1, <1>6, <1>r DEF SizeOrder
    <3> QED
      BY <1>1, <1>2, <1>6, <2>2, <3>1, <3>2 DEF SizeOrder
  <2>4. ResizesWaiting' = ResizesWaiting
    <3>1. {m \in Sizes : resizer'[m] = "start"} = {n} /\ {m \in Sizes : resizer[m] = "start"} = {}
      BY <1>6, <2>2 DEF SizeOrder
    <3> QED
      BY <1>1, <2>2, <3>1 DEF ResizesWaiting
  <2>5. ResizeRefused' <=> ResizeRefused
    BY <1>1 DEF ResizeRefused
  <2> QED
    BY <1>1, <2>3, <2>4, <2>5, Zenon DEF InOrder, Resizing!vars, ResizesWaiting, ResizeRefused
<1>7. CASE open /\ n > resize.last /\ resize.running # 0
  <2>1. resize' = [resize EXCEPT !.last = n, !.pending = n] /\ resizer' = resizer
    <3>1. resize' = [resize EXCEPT !.last = n, !.pending = n]
      BY <1>7, <1>r DEF Submit, Submitted
    <3>2. resize'.running = resize.running
      BY <1>r, <3>1 DEF Coalescer
    <3> QED
      BY <1>7, <3>1, <3>2 DEF Submit
  <2>2. /\ resize'.last = n /\ resize'.running = resize.running /\ resize'.pending = n
    BY <2>1, <1>r DEF Coalescer
  <2>3. SizeOrder'
    <3>1. resize.running < n /\ pty <= n
      BY <1>7, <1>r DEF SizeOrder
    <3>2. \A m \in 1..emitted : m > n => m \in asked'
      BY <1>1, <1>7, <1>r DEF SizeOrder
    <3> QED
      BY <1>1, <1>2, <1>7, <2>1, <2>2, <3>1, <3>2 DEF SizeOrder
  <2>4. ResizeRefused' <=> ResizeRefused
    BY <1>1 DEF ResizeRefused
  <2>5. n \in ResizesWaiting /\ n # 0
    BY <1>1, <1>2 DEF ResizesWaiting
  <2>6. CASE resize.pending = 0
    <3>1. ResizesWaiting' = ResizesWaiting
      BY <1>1, <2>1, <2>2, <2>5, <2>6 DEF ResizesWaiting
    <3> QED
      BY <1>1, <2>3, <2>4, <3>1, Zenon DEF InOrder, Resizing!vars, ResizesWaiting, ResizeRefused
  <2>7. CASE resize.pending # 0
    <3>1. resize.pending = resize.last /\ resize.pending \notin asked /\ resize.pending < n
          /\ resize.running < resize.pending
      BY <1>7, <2>7 DEF SizeOrder
    <3>2. /\ \A m \in Sizes : resizer[m] = "start" => m # resize.pending
          /\ resize.pending \notin late
      BY <1>7, <1>r, <3>1 DEF SizeOrder, LateOrder
    <3>3. ResizesWaiting' = ResizesWaiting \ {resize.pending} /\ resize.pending \in ResizesWaiting
      BY <1>1, <2>1, <2>2, <2>5, <2>7, <3>1, <3>2 DEF ResizesWaiting
    <3>4. \E m \in ResizesWaiting, newer \in ResizesWaiting \cup {pty} :
             m < newer /\ ResizesWaiting' = ResizesWaiting \ {m}
      BY <2>5, <3>1, <3>3
    <3> QED
      BY <1>1, <2>3, <2>4, <3>4, Zenon
      DEF InOrder, Resizing!Next, Resizing!Supersede, ResizesWaiting, ResizeRefused
  <2> QED
    BY <2>6, <2>7
<1> QED
  BY <1>2, <1>4, <1>5, <1>6, <1>7, <1>r

\* The worker's steps: only the first one serves or refuses a request.
LEMMA WorkerInOrder ==
  ASSUME ResizeRanges, SizeOrder, LateOrder, NEW n \in Sizes,
         \/ ResizePty(n) \/ ResizePtyFails(n) \/ ResizePtyUnanswered(n)
         \/ ResizeGrid(n) \/ CountResize(n)
  PROVE  InOrder
<1> USE SessionViewAssumption DEF Sizes
<1>1. UNCHANGED <<emitted, asked, resize, open>>
  BY DEF ResizePty, ResizePtyFails, ResizePtyUnanswered, ResizeGrid, CountResize, slotVars
<1>r. resize.last \in Nat /\ resize.running \in Nat /\ resize.pending \in Nat /\ n \in Nat /\ n # 0
  BY DEF ResizeRanges, Coalescer
<1>2. CASE resizer[n] = "start"
  <2>1. /\ n = resize.running /\ n \notin asked /\ n # resize.pending /\ pty < n
        /\ n <= resize.last /\ n \notin late
    BY <1>2, <1>r DEF SizeOrder, LateOrder
  <2>2. n \in ResizesWaiting
    BY <1>2 DEF ResizesWaiting
  <2>3. ASSUME NEW at \in {"pty", "done"}, resizer' = [resizer EXCEPT ![n] = at], late' = late
        PROVE  ResizesWaiting' = ResizesWaiting \ {n}
    BY <1>1, <2>1, <2>3 DEF ResizesWaiting, ResizeRanges
  <2>4. CASE ResizePty(n)
    <3>1. /\ pty' = n /\ resizer' = [resizer EXCEPT ![n] = "pty"] /\ failures' = failures
          /\ late' = late
      BY <2>4 DEF ResizePty, history
    <3>2. SizeOrder'
      BY <1>1, <2>1, <3>1, <1>r DEF SizeOrder, ResizeRanges
    <3>3. \E m \in ResizesWaiting : m > pty /\ pty' = m /\ ResizesWaiting' = ResizesWaiting \ {m}
      BY <2>1, <2>2, <2>3, <3>1
    <3>4. ResizeRefused' <=> ResizeRefused
      BY <1>1, <3>1 DEF ResizeRefused
    <3> QED
      BY <1>1, <3>2, <3>3, <3>4, Zenon
      DEF InOrder, Resizing!Next, Resizing!Serve, ResizesWaiting, ResizeRefused
  <2>5. CASE ResizePtyFails(n) \/ ResizePtyUnanswered(n)
    <3>1. /\ pty' = pty /\ resizer' = [resizer EXCEPT ![n] = "done"]
          /\ failures' = IF outOfStep THEN failures ELSE failures + 1
          /\ late' = late \/ late' = late \cup {n}
      BY <2>5 DEF ResizePtyFails, ResizePtyUnanswered, ResizeFails
    <3>2. failures \in Nat /\ failures' \in Nat /\ failures' > 0
      BY <3>1 DEF SizeOrder, LateOrder
    <3>3. SizeOrder'
      BY <1>1, <2>1, <3>1, <3>2, <1>r DEF SizeOrder, ResizeRanges
    <3>4. ResizesWaiting' \subseteq ResizesWaiting
      BY <1>1, <1>2, <3>1 DEF ResizesWaiting, ResizeRanges
    <3>5. ResizeRefused' <=> TRUE
      BY <3>2 DEF ResizeRefused
    <3> QED
      BY <1>1, <3>1, <3>3, <3>4, <3>5, Zenon
      DEF InOrder, Resizing!Next, Resizing!Refuse, ResizesWaiting, ResizeRefused
  <2> QED
    BY <1>2, <2>4, <2>5 DEF ResizeGrid, CountResize
<1>3. CASE resizer[n] # "start"
  <2>1. pty' = pty /\ failures' = failures /\ late' = late
        /\ \/ resizer[n] = "pty" /\ resizer' = [resizer EXCEPT ![n] = "grid"]
           \/ resizer[n] = "grid" /\ resizer' = [resizer EXCEPT ![n] = "done"]
    BY <1>3 DEF ResizePty, ResizePtyFails, ResizePtyUnanswered, ResizeFails, ResizeGrid,
       CountResize, history
  <2>2. SizeOrder'
    BY <1>1, <2>1, <1>r DEF SizeOrder, ResizeRanges
  <2>3. ResizesWaiting' = ResizesWaiting
    BY <1>1, <1>3, <2>1 DEF ResizesWaiting, ResizeRanges
  <2>4. ResizeRefused' <=> ResizeRefused
    BY <1>1, <2>1 DEF ResizeRefused
  <2> QED
    BY <1>1, <2>1, <2>2, <2>3, <2>4, Zenon
    DEF InOrder, Resizing!vars, ResizesWaiting, ResizeRefused
<1> QED
  BY <1>2, <1>3

\* A request whose answer was missed is served all the same, over an older one.
LEMMA ComesLateInOrder ==
  ASSUME ResizeRanges, SizeOrder, LateOrder, SizeInv, ResizeComesLate
  PROVE  InOrder
<1> USE SessionViewAssumption DEF Sizes
<1>1. PICK n \in late : pty' = n /\ late' = late \ {n}
  BY DEF ResizeComesLate
<1>2. UNCHANGED <<emitted, asked, resize, resizer, open, failures>>
  BY DEF ResizeComesLate, slotVars, history
<1>r. resize.last \in Nat /\ resize.running \in Nat /\ resize.pending \in Nat /\ n \in Nat /\ n # 0
  BY <1>1 DEF ResizeRanges, Coalescer, LateOrder
<1>3. /\ pty < n /\ n <= resize.last /\ n \notin asked /\ resizer[n] # "start"
      /\ resize.running # 0 => n <= resize.running
      /\ failures > 0 /\ \A m \in Sizes : resizer[m] \notin {"pty", "grid"}
  BY <1>1 DEF LateOrder, SizeInv, ResizeLockFree
<1>4. n # resize.pending
  BY <1>3, <1>r DEF SizeOrder
<1>5. SizeOrder'
  <2>1. \A m \in Sizes : resizer[m] = "start" => n < m
    BY <1>3, <1>r DEF SizeOrder
  <2>2. failures \in Nat /\ failures # 0
    BY <1>3 DEF SizeOrder
  <2> QED
    BY <1>1, <1>2, <1>3, <1>r, <2>1, <2>2 DEF SizeOrder
<1>6. ResizesWaiting' = ResizesWaiting \ {n} /\ n \in ResizesWaiting
  BY <1>1, <1>2, <1>3, <1>4 DEF ResizesWaiting
<1>7. \E m \in ResizesWaiting : m > pty /\ pty' = m /\ ResizesWaiting' = ResizesWaiting \ {m}
  <2>1. n > pty
    BY <1>3, <1>r DEF SizeOrder
  <2> QED
    BY <1>1, <1>6, <2>1
<1>8. ResizeRefused' <=> ResizeRefused
  BY <1>2 DEF ResizeRefused
<1> QED
  BY <1>2, <1>5, <1>7, <1>8, Zenon
  DEF InOrder, Resizing!Next, Resizing!Serve, ResizesWaiting, ResizeRefused

\* The UI thread hears of the end of a resize; the request that waited starts.
LEMMA AppliedInOrder ==
  ASSUME ResizeRanges, SizeOrder, NEW n \in Sizes, ResizeApplied(n)
  PROVE  InOrder
<1> USE SessionViewAssumption DEF Sizes
<1>1. resizer[n] = "done" /\ UNCHANGED <<emitted, asked, pty, late, open, failures>>
  BY DEF ResizeApplied, slotVars, history
<1>r. /\ resize \in Coalescer /\ resize.last \in Nat /\ resize.running \in Nat /\ resize.pending \in Nat
      /\ n \in Nat /\ n # 0
  BY DEF ResizeRanges, Coalescer
<1>2. n = resize.running /\ \A m \in Sizes : m # n => resizer[m] = "off"
  BY <1>1 DEF SizeOrder
<1>3. ResizeRefused' <=> ResizeRefused
  BY <1>1 DEF ResizeRefused
<1>4. CASE ~open
  <2>1. resizer' = [resizer EXCEPT ![n] = "off"] /\ resize' = resize
    BY <1>4 DEF ResizeApplied
  <2>2. SizeOrder' /\ ResizesWaiting' = ResizesWaiting
    BY <1>1, <1>4, <2>1 DEF SizeOrder, ResizesWaiting, ResizeRanges
  <2> QED
    BY <1>1, <1>3, <2>2, Zenon DEF InOrder, Resizing!vars, ResizesWaiting, ResizeRefused
<1>5. CASE open
  <2>1. resize' = [resize EXCEPT !.running = resize.pending, !.pending = 0]
    BY <1>2, <1>5 DEF ResizeApplied, Completed
  <2>2. resize'.running = resize.pending /\ resize'.pending = 0 /\ resize'.last = resize.last
    BY <2>1, <1>r DEF Coalescer
  <2>3. \A m \in Sizes : resizer'[m] = IF m = n THEN "off"
                                       ELSE IF m = resize.pending /\ m # n THEN "start"
                                       ELSE resizer[m]
    BY <1>2, <1>5, <2>2 DEF ResizeApplied
  <2>4. CASE resize.pending = 0
    <3>1. \A m \in Sizes : resizer'[m] = "off"
      BY <1>2, <2>3, <2>4
    <3>2. SizeOrder'
      BY <1>1, <1>2, <1>5, <2>2, <2>4, <3>1, <1>r DEF SizeOrder
    <3>3. ResizesWaiting' = ResizesWaiting
      BY <1>1, <1>2, <2>2, <2>4, <3>1 DEF ResizesWaiting
    <3> QED
      BY <1>1, <1>3, <3>2, <3>3, Zenon DEF InOrder, Resizing!vars, ResizesWaiting, ResizeRefused
  <2>5. CASE resize.pending # 0
    <3>1. resize.pending \in Sizes /\ resize.pending = resize.last /\ resize.running < resize.pending
          /\ pty < resize.pending
      BY <1>2, <2>5, <1>r DEF SizeOrder
    <3>2. resizer'[resize.pending] = "start" /\ \A m \in Sizes : m # resize.pending => resizer'[m] = "off"
      BY <1>2, <2>3, <3>1, <1>r
    <3>3. SizeOrder'
      BY <1>1, <1>2, <1>5, <2>2, <2>5, <3>1, <3>2, <1>r DEF SizeOrder
    <3>4. ResizesWaiting' = ResizesWaiting
      <4>1. {m \in Sizes : resizer'[m] = "start"} = {resize.pending}
        BY <3>1, <3>2
      <4>2. {m \in Sizes : resizer[m] = "start"} = {}
        BY <1>1, <1>2
      <4> QED
        BY <1>1, <2>2, <2>5, <4>1, <4>2 DEF ResizesWaiting
    <3> QED
      BY <1>1, <1>3, <3>3, <3>4, Zenon DEF InOrder, Resizing!vars, ResizesWaiting, ResizeRefused
  <2> QED
    BY <2>4, <2>5
<1> QED
  BY <1>4, <1>5, <1>r DEF ResizeRanges

\* Every step keeps the requests in order, and is one of LatestWins or changes
\* nothing of it.
LEMMA OrderStep ==
  ASSUME ResizeRanges, SizeOrder, LateOrder, SizeInv, [Next]_vars
  PROVE  InOrder
<1>1. CASE Emit
  BY <1>1, EmitInOrder
<1>2. CASE \E n \in Sizes : Submit(n)
  BY <1>2, SubmitInOrder
<1>3. CASE \E n \in Sizes : \/ ResizePty(n) \/ ResizePtyFails(n) \/ ResizePtyUnanswered(n)
                           \/ ResizeGrid(n) \/ CountResize(n)
  BY <1>3, WorkerInOrder
<1>4. CASE \E n \in Sizes : ResizeApplied(n)
  BY <1>4, AppliedInOrder
<1>5. CASE \/ Feed \/ CountOutput \/ \E kind \in {"scroll", "mouse", "release"} : Command(kind)
           \/ Poll \/ SessionDirty \/ Redraw \/ CountCommand \/ Kill \/ FeedEnds \/ Reap
           \/ CopySelection \/ \E job \in copies : SelectionExtracted(job) \/ ExtractSelection(job)
           \/ \E job \in snaps : SnapshotReady(job) \/ SnapshotFailed(job) \/ TakeSnapshot(job)
  BY <1>5, NotResizing DEF Feed, CountOutput, Command, Poll, SessionDirty, Redraw, CountCommand,
     Kill, FeedEnds, Reap, CopySelection, SelectionExtracted, ExtractSelection,
     SnapshotReady, SnapshotFailed, TakeSnapshot, slotVars, history
<1>6. CASE Close
  BY <1>6, NotResizing DEF Close, slotVars, history
<1>7. CASE \/ \E job \in snaps : SnapshotPanics(job)
           \/ \E job \in copies : ExtractPanics(job)
  BY <1>7, NotResizing DEF SnapshotPanics, ExtractPanics, slotVars, history
<1>8. CASE UNCHANGED vars
  BY <1>8, NotResizing DEF vars, slotVars, history
<1>9. CASE ResizeComesLate
  BY <1>9, ComesLateInOrder
<1> QED
  BY <1>1, <1>2, <1>3, <1>4, <1>5, <1>6, <1>7, <1>8, <1>9 DEF Next, UiMessage, Worker

\* Every step keeps the late requests between what the PTY has and what runs.
LEMMA LateStep ==
  ASSUME ResizeRanges, SizeOrder, LateOrder, SizeInv, [Next]_vars
  PROVE  LateOrder'
<1> USE SessionViewAssumption DEF LateOrder, Sizes
<1>r. /\ resize \in Coalescer /\ resize.last \in Nat /\ resize.running \in Nat
      /\ resize.pending \in Nat /\ failures \in Nat /\ emitted \in Nat /\ pty \in Nat
  BY DEF ResizeRanges, Coalescer, SizeOrder
<1>1. CASE /\ UNCHANGED <<late, outOfStep, pty, resize, resizer, asked>>
           /\ failures' \in {failures, failures + 1}
  BY <1>1, <1>r
<1>2. CASE Emit
  <2>1. /\ asked' = asked \cup {emitted + 1}
        /\ UNCHANGED <<late, outOfStep, pty, resize, resizer, failures>>
    BY <1>2 DEF Emit, history
  <2>2. \A m \in late : m # emitted + 1
    BY <1>r DEF SizeOrder
  <2> QED
    BY <2>1, <2>2
<1>3. ASSUME NEW n \in Sizes, Submit(n) PROVE LateOrder'
  <2>1. asked' = asked \ {n} /\ n \in asked /\ UNCHANGED <<late, outOfStep, pty, failures>>
    BY <1>3 DEF Submit, history
  <2>2. CASE UNCHANGED <<resize, resizer>>
    BY <2>1, <2>2
  <2>3. CASE open /\ n > resize.last
    <3>1. /\ resize' = IF resize.running = 0 THEN [resize EXCEPT !.last = n, !.running = n]
                       ELSE [resize EXCEPT !.last = n, !.pending = n]
          /\ resizer' = IF resize'.running # resize.running
                        THEN [resizer EXCEPT ![n] = "start"] ELSE resizer
      BY <1>3, <1>r, <2>3 DEF Submit, Submitted
    <3>2. resize'.last = n /\ resize'.running = IF resize.running = 0 THEN n ELSE resize.running
      BY <3>1, <1>r DEF Coalescer
    <3>3. \A m \in late : m # n
      BY <2>1
    <3>4. \A m \in late : resizer'[m] # "start"
      BY <3>1, <3>3 DEF ResizeRanges
    <3> QED
      BY <1>r, <2>1, <2>3, <3>2, <3>4
  <2> QED
    BY <1>3, <1>r, <2>2, <2>3 DEF Submit, Submitted
<1>4. ASSUME NEW n \in Sizes, ResizePty(n) PROVE LateOrder'
  <2>1. late = {} /\ late' = late /\ outOfStep' = outOfStep /\ failures' = failures
    BY <1>4 DEF ResizePty, SizeInv, history
  <2> QED
    BY <2>1
<1>5. ASSUME NEW n \in Sizes, ResizePtyFails(n) \/ ResizePtyUnanswered(n) PROVE LateOrder'
  <2>1. /\ resizer[n] = "start" /\ resizer' = [resizer EXCEPT ![n] = "done"]
        /\ failures' = IF outOfStep THEN failures ELSE failures + 1
        /\ UNCHANGED <<asked, resize, pty>>
        /\ \/ late' = late /\ outOfStep' = outOfStep
           \/ late' = late \cup {n} /\ outOfStep' = TRUE
    BY <1>5 DEF ResizePtyFails, ResizePtyUnanswered, ResizeFails
  <2>2. failures' > 0
    BY <2>1, <1>r
  <2>3. /\ n = resize.running /\ n <= resize.last /\ n \notin asked /\ pty < n
    BY <2>1 DEF SizeOrder
  <2>4. \A m \in late' : resizer'[m] # "start"
    BY <2>1 DEF ResizeRanges
  <2>5. outOfStep' \in BOOLEAN /\ late' \subseteq Sizes
    BY <2>1
  <2>6. \A m \in late' : /\ pty' < m /\ m <= resize'.last /\ m \notin asked'
                         /\ resize'.running # 0 => m <= resize'.running
    <3> SUFFICES ASSUME NEW m \in late'
                 PROVE  /\ pty' < m /\ m <= resize'.last /\ m \notin asked'
                        /\ resize'.running # 0 => m <= resize'.running
      OBVIOUS
    <3>1. CASE m \in late
      BY <2>1, <3>1
    <3>2. CASE m = n
      BY <2>1, <2>3, <3>2, <1>r
    <3> QED
      BY <2>1, <3>1, <3>2
  <2> QED
    BY <2>2, <2>4, <2>5, <2>6
<1>6. ASSUME NEW n \in Sizes, ResizeGrid(n) \/ CountResize(n) PROVE LateOrder'
  <2>1. /\ UNCHANGED <<late, outOfStep, pty, resize, asked, failures>>
        /\ \E at \in {"grid", "done"} : resizer' = [resizer EXCEPT ![n] = at]
    BY <1>6 DEF ResizeGrid, CountResize, history
  <2> QED
    BY <2>1 DEF ResizeRanges
<1>7. ASSUME NEW n \in Sizes, ResizeApplied(n) PROVE LateOrder'
  <2>1. UNCHANGED <<late, outOfStep, pty, asked, failures>> /\ resizer[n] = "done"
    BY <1>7 DEF ResizeApplied, history
  <2>2. CASE open
    <3>1. n = resize.running
      BY <2>1 DEF SizeOrder
    <3>2. resize' = [resize EXCEPT !.running = resize.pending, !.pending = 0]
      BY <1>7, <2>2, <3>1 DEF ResizeApplied, Completed
    <3>3. resize'.running = resize.pending /\ resize'.last = resize.last
      BY <3>2, <1>r DEF Coalescer
    <3>4. \A m \in late : m <= n
      BY <3>1
    <3>5. resize.pending # 0 => n < resize.pending
      BY <3>1 DEF SizeOrder
    <3>6. \A m \in late : resize.pending # 0 => m < resize.pending
      BY <3>4, <3>5, <1>r
    <3>7. ASSUME NEW m \in late PROVE resizer'[m] # "start"
      <4>1. m \in Sizes /\ m # 0 /\ m # resize.pending /\ resizer[m] # "start"
        BY <3>6
      <4>2. resizer'[m] \in {"off", resizer[m]}
        BY <1>7, <2>2, <3>1, <3>3, <4>1 DEF ResizeApplied
      <4> QED
        BY <4>1, <4>2
    <3>8. \A m \in late : resize'.running # 0 => m <= resize'.running
      BY <3>3, <3>6, <1>r
    <3> QED
      BY <2>1, <3>3, <3>7, <3>8
  <2>3. CASE ~open
    BY <1>7, <2>1, <2>3 DEF ResizeApplied, ResizeRanges
  <2> QED
    BY <2>2, <2>3 DEF ResizeRanges
<1>8. CASE ResizeComesLate
  <2>1. PICK n \in late : (\A m \in late : n <= m) /\ pty' = n /\ late' = late \ {n}
    BY <1>8 DEF ResizeComesLate
  <2>2. UNCHANGED <<outOfStep, resize, resizer, asked, failures>>
    BY <1>8 DEF ResizeComesLate, history
  <2> QED
    BY <2>1, <2>2
<1>9. CASE \/ Feed \/ CountOutput \/ \E kind \in {"scroll", "mouse", "release"} : Command(kind)
           \/ Poll \/ SessionDirty \/ Redraw \/ CountCommand \/ Close \/ Kill \/ FeedEnds
           \/ Reap \/ CopySelection \/ UNCHANGED vars
           \/ \E job \in copies : \/ SelectionExtracted(job) \/ ExtractSelection(job)
                                  \/ ExtractPanics(job)
           \/ \E job \in snaps : \/ SnapshotReady(job) \/ SnapshotFailed(job)
                                 \/ TakeSnapshot(job) \/ SnapshotPanics(job)
  <2>1. UNCHANGED resizeVars /\ failures' \in {failures, failures + 1}
    BY <1>9 DEF Feed, CountOutput, Command, Poll, SessionDirty, Redraw, CountCommand, Close,
       Kill, FeedEnds, Reap, CopySelection, SelectionExtracted, ExtractSelection,
       ExtractPanics, SnapshotReady, SnapshotFailed, TakeSnapshot, SnapshotPanics, vars, history
  <2> QED
    BY <1>1, <2>1 DEF resizeVars
<1> QED
  BY <1>2, <1>3, <1>4, <1>5, <1>6, <1>7, <1>8, <1>9 DEF Next, UiMessage, Worker

-----------------------------------------------------------------------------
(* The screen catches up                                                   *)

\* As long as the screen may lack a counted change the feed has not seen the
\* count, has told of it, or a snapshot is on its way: unless the last result
\* was thrown away.
SomebodyLooks ==
    /\ seen \in Nat /\ seen <= generation /\ (open => feed)
    /\ open /\ ~skipped =>
         shown >= generation \/ seen # generation \/ dirty # <<>> \/ snaps # {}

\* Whoever uses up the reason to look leaves another one.
LEMMA LookStep ==
  ASSUME CountInv, CountInv', ViewInv, SomebodyLooks, [Next]_vars
  PROVE  SomebodyLooks'
<1>0. /\ grid \in Nat /\ generation \in Nat /\ shown \in Nat /\ label \in Nat
  BY DEF CountInv, ViewInv, ViewRanges
<1> USE <1>0 DEF SomebodyLooks
<1>1. ASSUME UNCHANGED <<seen, dirty, feed, open, skipped, shown>>,
             generation' \in {generation, generation + 1},
             snaps = {} => snaps' = {}, snaps # {} => snaps' # {}
      PROVE  SomebodyLooks'
  BY <1>1
<1>2. CASE Poll
  <2>1. dirty' # <<>>
    BY <1>2 DEF Poll, ViewInv, ViewRanges
  <2> QED
    BY <1>2, <2>1 DEF Poll, gridVars, slotVars
<1>3. ASSUME NEW g, RequestSnapshot(g), UNCHANGED <<seen, feed, open, skipped, shown, generation>>
      PROVE  SomebodyLooks'
  <2>1. open => snaps' # {}
    BY <1>3 DEF RequestSnapshot, ViewInv, GuardInv
  <2> QED
    BY <1>3, <2>1
<1>4. CASE SessionDirty \/ Redraw
  BY <1>3, <1>4 DEF SessionDirty, Redraw, gridVars, feedVars
<1>5. ASSUME NEW job \in snaps, SnapshotReady(job) PROVE SomebodyLooks'
  <2>1. /\ UNCHANGED <<seen, dirty, feed, open, generation>> /\ job.at = "ready"
        /\ skipped' = (open /\ ~Fresh(job))
    BY <1>5 DEF SnapshotReady, gridVars, feedVars
  <2>2. CASE open /\ Fresh(job) /\ Behind(job)
    <3>1. snaps' # {}
      BY <1>5, <2>2 DEF SnapshotReady
    <3> QED
      BY <2>1, <3>1
  <2>3. CASE open /\ Fresh(job) /\ ~Behind(job)
    <3>1. inFlight = {job.label} /\ job.label \in Nat /\ job.content \in Nat
          /\ job.label <= job.content
      BY <1>5, <2>1, <2>3 DEF ViewInv, ViewRanges, GuardInv, LabelInv, Jobs
    <3>2. ~(generation > job.label)
      BY <2>3, <3>1 DEF Behind
    <3>3. shown' = job.content
      BY <1>5, <2>3 DEF SnapshotReady
    <3> QED
      BY <2>1, <3>1, <3>2, <3>3
  <2>4. CASE ~open \/ ~Fresh(job)
    BY <2>1, <2>4
  <2> QED
    BY <2>2, <2>3, <2>4
<1>6. ASSUME NEW job \in snaps, SnapshotFailed(job) PROVE SomebodyLooks'
  BY <1>6 DEF SnapshotFailed, gridVars, feedVars
<1>7. ASSUME NEW job \in snaps, TakeSnapshot(job) \/ SnapshotPanics(job) PROVE SomebodyLooks'
  <2>1. snaps' # {} /\ UNCHANGED <<seen, dirty, feed, open, skipped, shown, generation>>
    BY <1>7 DEF TakeSnapshot, SnapshotPanics, gridVars, feedVars, slotVars
  <2> QED
    BY <2>1
<1>8. CASE Close \/ FeedEnds
  BY <1>8 DEF Close, FeedEnds, gridVars, feedVars, slotVars
<1>9. CASE \/ Feed \/ CountOutput \/ \E kind \in {"scroll", "mouse", "release"} : Command(kind)
           \/ CountCommand \/ ResizeComesLate \/ Emit \/ Kill \/ Reap \/ UNCHANGED vars
           \/ \E n \in Sizes : \/ Submit(n) \/ ResizePty(n)
                               \/ ResizePtyFails(n) \/ ResizePtyUnanswered(n)
                               \/ ResizeGrid(n) \/ CountResize(n) \/ ResizeApplied(n)
  <2>1. /\ UNCHANGED <<seen, dirty, feed, open, skipped, shown, snaps>>
        /\ generation' \in {generation, generation + 1}
    BY <1>9 DEF Feed, CountOutput, Command, CountCommand, Emit, Kill, Reap, vars, Submit,
       ResizePty, ResizePtyFails, ResizePtyUnanswered, ResizeFails, ResizeComesLate,
       ResizeGrid, CountResize, ResizeApplied, gridVars, feedVars, slotVars
  <2> QED
    BY <1>1, <2>1
<1>10. CASE Copying
  <2>1. UNCHANGED <<seen, skipped>>
    BY <1>10 DEF Copying, CopySelection, SelectionExtracted, ExtractSelection, ExtractPanics,
       feedVars, slotVars
  <2> QED
    BY <1>1, <1>10, <2>1, CopyingFrame
<1> QED
  BY <1>2, <1>4, <1>5, <1>6, <1>7, <1>8, <1>9, <1>10 DEF Next, UiMessage, Worker, Copying

-----------------------------------------------------------------------------
(* The theorems                                                            *)

IInv ==
    /\ ResizeInv /\ CountInv /\ ViewInv /\ EndInv /\ CopyInv
    /\ SizeOrder /\ LateOrder /\ SomebodyLooks

\* A session starts with nothing shown, nothing in flight and one size.
LEMMA InitIInv == Init => IInv
<1> SUFFICES ASSUME Init PROVE IInv
  OBVIOUS
<1> USE SessionViewAssumption DEF Init
<1>1. ResizeInv
  BY DEF ResizeInv, ResizeRanges, OneResizer, SizeInv, Coalescer, Sizes
<1>2. CountInv
  BY DEF CountInv, Bit
<1>3. ViewInv
  BY DEF ViewInv, ViewRanges, LabelInv, GuardInv
<1>4. EndInv
  BY DEF EndInv
<1>5. CopyInv
  BY DEF CopyInv, CopyRanges, Requests, CopyJobs, RequestInv, Honest, ExtractGuard, NewestInv
<1>6. SizeOrder /\ LateOrder
  <2>1. SizeOrder
    BY DEF SizeOrder, Sizes
  <2>2. LateOrder
    BY DEF LateOrder
  <2> QED
    BY <2>1, <2>2
<1>7. SomebodyLooks
  BY DEF SomebodyLooks
<1>8. QED
  BY <1>1, <1>2, <1>3, <1>4, <1>5, <1>6, <1>7 DEF IInv

\* The parts hold in every state the session can reach.
THEOREM Inductive == Spec => []IInv
<1>1. IInv /\ [Next]_vars => IInv'
  BY ResizeStep, CountStep, ViewStep, EndStep, CopyStep, OrderStep, LateStep, LookStep
     DEF IInv, CountInv, ResizeInv, InOrder
<1>2. QED
  BY InitIInv, <1>1, PTL DEF Spec

\* With the resize lock free the program in the PTY and the grid agree on the
\* size, after failed resizes too, until an answer of the daemon has been missed.
THEOREM SizesStayAgreed == Spec => []SizesAgree
<1>1. IInv => SizesAgree
  BY DEF IInv, ResizeInv, SizeInv, SizesAgree
<1>2. QED
  BY <1>1, Inductive, PTL

\* No snapshot, on its way or on the screen, is older than its label.
THEOREM LabelsAreHonest == Spec => []LabelIsHonest
<1>1. IInv => LabelIsHonest
  BY DEF IInv, ViewInv, ViewRanges, LabelInv, LabelIsHonest, CountInv, Jobs
<1>2. QED
  BY <1>1, Inductive, PTL

\* A pane never waits for a worker it does not have.
THEOREM GuardsHaveWorkers == Spec => []GuardHasItsWorker
<1>1. IInv => GuardHasItsWorker
  <2> SUFFICES ASSUME IInv, open
               PROVE  /\ inFlight = {job.label : job \in snaps} /\ Cardinality(snaps) <= 1
                      /\ (extract.inFlight <=> copies # {}) /\ Cardinality(copies) <= 1
    BY DEF GuardHasItsWorker
  <2>1. inFlight = {job.label : job \in snaps} /\ Cardinality(snaps) <= 1
    <3>1. CASE snaps = {} /\ inFlight = {}
      BY <3>1, FS_EmptySet
    <3>2. ASSUME NEW job \in snaps, snaps = {job}, inFlight = {job.label}
          PROVE  inFlight = {j.label : j \in snaps} /\ Cardinality(snaps) <= 1
      <4>1. Cardinality(snaps) = 1
        BY <3>2, FS_Singleton
      <4>2. QED
        BY <3>2, <4>1
    <3>3. QED
      BY <3>1, <3>2 DEF IInv, ViewInv, GuardInv
  <2>2. (extract.inFlight <=> copies # {}) /\ Cardinality(copies) <= 1
    <3>1. extract.inFlight \in BOOLEAN
      BY DEF IInv, CopyInv, CopyRanges
    <3>2. CASE ~extract.inFlight /\ copies = {}
      BY <3>2, FS_EmptySet
    <3>3. ASSUME extract.inFlight, NEW job \in copies, copies = {job}
          PROVE  (extract.inFlight <=> copies # {}) /\ Cardinality(copies) <= 1
      <4>1. Cardinality(copies) = 1 /\ copies # {}
        BY <3>3, FS_Singleton
      <4>2. QED
        BY <3>1, <3>3, <4>1
    <3>4. QED
      BY <3>2, <3>3 DEF IInv, CopyInv, ExtractGuard
  <2>3. QED
    BY <2>1, <2>2
<1>2. QED
  BY <1>1, Inductive, PTL

\* A copy is of the text that was selected when it was asked for.
THEOREM CopiesAreAsAsked == Spec => []CopiesWhatWasAsked
<1>1. IInv => CopiesWhatWasAsked
  BY DEF IInv, CopyInv, RequestInv, Answer, CopiesWhatWasAsked
<1>2. QED
  BY <1>1, Inductive, PTL

\* The newest copy is not passed over for an older one.
THEOREM NewestCopyStays == Spec => []LastCopyWins
<1>1. IInv => LastCopyWins
  BY DEF IInv, CopyInv, ExtractGuard, NewestInv, LastCopyWins
<1>2. QED
  BY <1>1, Inductive, PTL

\* The screen is never replaced by an older one.
THEOREM ScreenMovesForward == Spec => ScreenNeverGoesBack
<1>1. IInv /\ [Next]_vars => [shown' >= shown]_vars
  BY ViewStep DEF IInv
<1>2. QED
  BY <1>1, Inductive, PTL DEF Spec, ScreenNeverGoesBack

\* The blocking destructor runs on the reaper's thread, after the kill.
THEOREM ReaperLetsGoLast == Spec => LastArcIsTheReapers
<1>1. IInv /\ IInv' /\ [Next]_vars
      => [Holders # {} /\ Holders' = {} => reaper = "holding" /\ killer = "done"]_vars
  BY LastHolder DEF IInv
<1>2. QED
  BY <1>1, Inductive, PTL DEF Spec, LastArcIsTheReapers

\* Requests to resize may reach the coalescer in any order, wait, be replaced,
\* fail, or be served by the daemon after they were given up: the PTY never goes
\* back to an older size, and a size is left out only for a newer one, because
\* something failed, or because the pane closed.
THEOREM ResizingIsImplemented == Spec => NewestSizeIsSet
<1>1. Init => Resizing!Init
  <2> SUFFICES ASSUME Init PROVE Resizing!Init
    OBVIOUS
  <2>1. emitted = 0 /\ pty = 0 /\ ResizesWaiting = {} /\ (ResizeRefused <=> FALSE)
    BY DEF Init, ResizesWaiting, ResizeRefused
  <2> QED
    BY <2>1, Zenon DEF Resizing!Init, ResizesWaiting, ResizeRefused
<1>2. IInv /\ [Next]_vars => [Resizing!Next]_(Resizing!vars)
  BY OrderStep DEF IInv, ResizeInv, InOrder
<1>3. QED
  BY <1>1, <1>2, Inductive, PTL DEF Spec, NewestSizeIsSet, Resizing!Spec

\* When no request waits any more and nothing has failed, an open pane's PTY has
\* the size the widget asked for last: what LastSizeWins says of the end.
THEOREM QuietMeansNewestSize == Spec => []Resizing!NewestIsServed
<1>1. IInv => Resizing!NewestIsServed
  <2> SUFFICES ASSUME IInv, ResizesWaiting = {}, ~ResizeRefused PROVE pty = emitted
    BY Zenon DEF Resizing!NewestIsServed, ResizesWaiting, ResizeRefused
  <2>1. open /\ failures = 0 /\ resize.last \in Nat /\ emitted \in Nat
    BY DEF IInv, ResizeInv, ResizeRanges, Coalescer, SizeOrder, ResizeRefused
  <2>2. asked = {} /\ resize.pending = 0 /\ \A n \in Sizes : resizer[n] # "start"
    BY DEF ResizesWaiting
  <2>3. resize.last = emitted
    BY <2>1, <2>2 DEF IInv, SizeOrder
  <2>4. CASE resize.running = 0
    BY <2>1, <2>3, <2>4 DEF IInv, SizeOrder
  <2>5. CASE resize.running # 0
    <3>1. resize.running \in Sizes /\ resize.running = resize.last
      BY <2>2, <2>5 DEF IInv, SizeOrder
    <3>2. resizer[resize.running] \in {"pty", "grid", "done"}
      BY <2>1, <2>2, <2>5, <3>1 DEF IInv, ResizeInv, ResizeRanges, SizeOrder
    <3> QED
      BY <2>1, <2>3, <3>1, <3>2 DEF IInv, SizeOrder
  <2>6. QED
    BY <2>4, <2>5
<1>2. QED
  BY <1>1, Inductive, PTL

\* Nobody has anything left to do for the screen or the size.
AtRest ==
    /\ reader = "reading" /\ ui = "free" /\ seen = generation /\ dirty = <<>> /\ snaps = {}
    /\ asked = {} /\ \A n \in Sizes : resizer[n] = "off"

\* An open pane that has come to rest shows the grid as it is, unless the last
\* snapshot was thrown away; the program in the PTY and the grid have one size,
\* unless an answer of the daemon was missed, and it is the newest unless a
\* resize failed: what ScreenSettles and LastSizeWins say of the end, for any
\* number of changes, resizes and failures.
THEOREM RestIsCurrent ==
  Spec => [](open /\ AtRest => /\ ~skipped => shown = grid
                               /\ outOfStep \/ pty = size
                               /\ failures = 0 => pty = emitted)
<1>1. IInv /\ Resizing!NewestIsServed
        => (open /\ AtRest => /\ ~skipped => shown = grid
                              /\ outOfStep \/ pty = size
                              /\ failures = 0 => pty = emitted)
  <2> SUFFICES ASSUME IInv, Resizing!NewestIsServed, open, AtRest
               PROVE  /\ ~skipped => shown = grid
                      /\ outOfStep \/ pty = size
                      /\ failures = 0 => pty = emitted
    OBVIOUS
  <2>1. grid = generation /\ grid \in Nat /\ shown \in Nat /\ shown <= grid
    BY DEF AtRest, IInv, CountInv, Bit, ViewInv, ViewRanges, LabelInv
  <2>2. ~skipped => shown = grid
    BY <2>1 DEF AtRest, IInv, SomebodyLooks
  <2>3. outOfStep \/ pty = size
    BY DEF AtRest, IInv, ResizeInv, SizeInv, ResizeLockFree
  <2>4. failures = 0 => pty = emitted
    <3>1. resize.running = 0
      BY DEF AtRest, IInv, SizeOrder
    <3>2. failures = 0 => late = {}
      BY DEF IInv, ResizeInv, SizeInv, LateOrder
    <3>3. failures = 0 => ResizesWaiting = {} /\ ~ResizeRefused
      BY <3>1, <3>2 DEF AtRest, IInv, SizeOrder, ResizesWaiting, ResizeRefused
    <3> QED
      BY <3>3, Zenon DEF Resizing!NewestIsServed, ResizesWaiting, ResizeRefused
  <2>5. QED
    BY <2>2, <2>3, <2>4
<1>2. QED
  BY <1>1, Inductive, QuietMeansNewestSize, PTL

\* A closed pane's session gets no new holder: whoever starts a worker looks
\* first whether the slot is there.
LEMMA ClosedStep ==
  ASSUME ResizeInv, CopyInv, [Next]_vars, ~open
  PROVE  ~open' /\ Holders' \subseteq Holders
<1>1. /\ open' = open /\ (feed' = feed \/ feed' = FALSE)
      /\ killer' \in {killer, "done"} /\ reaper' \in {reaper, "reaped"}
  BY DEF Next, UiMessage, Worker, Feed, CountOutput, Command, CountCommand, Poll,
     SessionDirty, Redraw, TakeSnapshot, SnapshotPanics, SnapshotReady, SnapshotFailed, Emit,
     Submit, ResizePty, ResizePtyFails, ResizePtyUnanswered, ResizeFails, ResizeComesLate,
     ResizeGrid, CountResize, ResizeApplied, Close, Kill, FeedEnds, Reap, CopySelection,
     SelectionExtracted, ExtractSelection, ExtractPanics, feedVars, slotVars, endVars, vars
<1>2. \A job \in snaps' : job.at = "running" => job \in snaps
  <2>1. CASE Poll \/ SessionDirty \/ Redraw
    BY <2>1 DEF Poll, SessionDirty, Redraw, RequestSnapshot
  <2>2. CASE \E job \in snaps : SnapshotReady(job) \/ SnapshotFailed(job)
    BY <2>2 DEF SnapshotReady, SnapshotFailed, Behind
  <2>3. CASE \E job \in snaps : TakeSnapshot(job) \/ SnapshotPanics(job)
    <3>1. PICK job \in snaps : TakeSnapshot(job) \/ SnapshotPanics(job)
      BY <2>3
    <3>2. CASE TakeSnapshot(job)
      <4>1. snaps' = (snaps \ {job})
                       \cup {[label |-> job.label, at |-> "ready", content |-> grid]}
        BY <3>2 DEF TakeSnapshot
      <4> QED
        BY <4>1
    <3>3. CASE SnapshotPanics(job)
      <4>1. snaps' = (snaps \ {job}) \cup {[job EXCEPT !.at = "failed"]} /\ job.at = "running"
        BY <3>3 DEF SnapshotPanics
      <4>2. [job EXCEPT !.at = "failed"].at # "running" \/ [job EXCEPT !.at = "failed"] = job
        OBVIOUS
      <4> QED
        BY <4>1, <4>2
    <3> QED
      BY <3>1, <3>2, <3>3
  <2>4. CASE UNCHANGED snaps
    BY <2>4
  <2> QED
    BY <2>1, <2>2, <2>3, <2>4 DEF Next, UiMessage, Worker, Feed, CountOutput, Command,
       CountCommand, Emit, Submit, ResizePty, ResizePtyFails, ResizePtyUnanswered,
       ResizeFails, ResizeComesLate, ResizeGrid, CountResize, ResizeApplied, Close, Kill,
       FeedEnds, Reap, CopySelection, SelectionExtracted, ExtractSelection, ExtractPanics,
       vars
<1>3. \A job \in copies' : job.at = "running" => job \in copies
  <2>1. CASE CopySelection
    BY <2>1 DEF CopySelection
  <2>2. CASE Redraw
    BY <2>2 DEF Redraw, RequestExtraction
  <2>3. CASE \E job \in copies : SelectionExtracted(job)
    BY <2>3 DEF SelectionExtracted
  <2>4. CASE \E job \in copies : ExtractSelection(job) \/ ExtractPanics(job)
    <3>1. PICK job \in copies : ExtractSelection(job) \/ ExtractPanics(job)
      BY <2>4
    <3>2. job \in CopyJobs /\ job.at = "running"
      BY <3>1 DEF CopyInv, CopyRanges, ExtractSelection, ExtractPanics
    <3>3. \A other \in copies' : other \in copies \/ other.at = "done"
      BY <3>1, <3>2 DEF ExtractSelection, ExtractPanics, CopyJobs
    <3> QED
      BY <3>3
  <2>5. CASE UNCHANGED copies
    BY <2>5
  <2> QED
    BY <2>1, <2>2, <2>3, <2>4, <2>5 DEF Next, UiMessage, Worker, Feed, CountOutput, Command,
       CountCommand, Poll, SessionDirty, TakeSnapshot, SnapshotPanics, SnapshotReady,
       SnapshotFailed, Emit, Submit, ResizePty, ResizePtyFails, ResizePtyUnanswered,
       ResizeFails, ResizeComesLate, ResizeGrid, CountResize, ResizeApplied, Close, Kill,
       FeedEnds, Reap, vars, copyVars
<1>4. Working' \subseteq Working
  <2>1. CASE \E n \in Sizes : Submit(n)
    BY <2>1 DEF Submit, Working
  <2>2. CASE \E n \in Sizes : ResizeApplied(n)
    BY <2>2 DEF ResizeApplied, ResizeInv, ResizeRanges, Working
  <2>3. CASE \E n \in Sizes : \/ ResizePty(n) \/ ResizePtyFails(n)
                              \/ ResizePtyUnanswered(n) \/ ResizeGrid(n)
                              \/ CountResize(n)
    BY <2>3 DEF ResizePty, ResizePtyFails, ResizePtyUnanswered, ResizeFails, ResizeComesLate,
       ResizeGrid, CountResize, ResizeInv, ResizeRanges, Working
  <2>4. CASE UNCHANGED resizer
    BY <2>4 DEF Working
  <2> QED
    BY <2>1, <2>2, <2>3, <2>4 DEF Next, UiMessage, Worker, Feed, CountOutput, Command,
       CountCommand, Poll, SessionDirty, Redraw, TakeSnapshot, SnapshotPanics, ResizeComesLate,
       SnapshotReady, SnapshotFailed, Emit, Close, Kill, FeedEnds, Reap, CopySelection,
       SelectionExtracted, ExtractSelection, ExtractPanics, vars, resizeVars
<1>5. (feed' => feed) /\ ~open'
  BY <1>1
<1>6. (killer' = "running" => killer = "running") /\ (reaper' = "holding" => reaper = "holding")
  BY <1>1
<1>7. Holders' \subseteq Holders
  <2> SUFFICES ASSUME NEW x \in Holders' PROVE x \in Holders
    OBVIOUS
  <2> QED
    BY <1>2, <1>3, <1>4, <1>5, <1>6, Zenon DEF Holders
<1> QED
  BY <1>5, <1>7

\* A closed pane stays closed, and whoever lets go of its session does so for
\* good.
ClosedLetsGo == [][~open => ~open' /\ Holders' \subseteq Holders]_vars

\* From the closing of a pane on the set of its session's Arcs only shrinks.
THEOREM NobodyJoinsAClosedSession == Spec => ClosedLetsGo
<1>1. IInv /\ [Next]_vars => [~open => ~open' /\ Holders' \subseteq Holders]_vars
  BY ClosedStep DEF IInv
<1>2. QED
  BY <1>1, Inductive, PTL DEF Spec, ClosedLetsGo

\* The holder x is the only one left, or has a step that brings it nearer to
\* letting go: the feed notices, the kill ends, a worker finishes; a resize
\* may have to wait for the lock.
CanLetGo(x) ==
    \/ x = <<"reaper">> /\ Holders = {x}
    \/ x \in {<<"feed">>, <<"killer">>}
    \/ \E job \in snaps \cup copies :
          job.at = "running" /\ x \in {<<"snapshot", job>>, <<"copy", job>>}
    \/ \E n \in Sizes : x = <<"resize", n>> /\ (resizer[n] = "start" => ResizeLockFree)

\* Until nobody holds a closed pane's session the reaper does, and there is
\* somebody who can let go of it.
SomebodyLetsGo ==
    ~open /\ Holders # {} => <<"reaper">> \in Holders /\ \E x \in Holders : CanLetGo(x)

\* The reaper is never left waiting for an Arc that nobody gives up: the safety
\* half of ClosedIsReaped.
THEOREM TheReaperGetsItsTurn == Spec => []SomebodyLetsGo
<1>1. IInv => SomebodyLetsGo
  <2> SUFFICES ASSUME IInv, ~open, Holders # {}
               PROVE  <<"reaper">> \in Holders /\ \E x \in Holders : CanLetGo(x)
    BY DEF SomebodyLetsGo
  <2>1. <<"reaper">> \in Holders
    BY DEF IInv, EndInv, Holders
  <2>2. CASE Holders = {<<"reaper">>}
    BY <2>1, <2>2 DEF CanLetGo
  <2>3. CASE Holders # {<<"reaper">>}
    <3>1. PICK x \in Holders : x # <<"reaper">>
      BY <2>1, <2>3
    <3>2. CASE x \in {<<"feed">>, <<"killer">>}
      BY <2>1, <3>1, <3>2 DEF CanLetGo
    <3>3. ASSUME NEW job \in snaps \cup copies, job.at = "running",
                 x \in {<<"snapshot", job>>, <<"copy", job>>}
          PROVE  CanLetGo(x)
      BY <3>3 DEF CanLetGo
    <3>4. ASSUME NEW n \in Working, x = <<"resize", n>>
          PROVE  \E y \in Holders : CanLetGo(y)
      <4>1. CASE ResizeLockFree
        BY <3>4, <4>1 DEF CanLetGo, Working
      <4>2. CASE ~ResizeLockFree
        <5>1. PICK m \in Sizes : resizer[m] \in {"pty", "grid"}
          BY <4>2 DEF ResizeLockFree
        <5>2. <<"resize", m>> \in Holders
          BY <5>1 DEF Holders, Working
        <5> QED
          BY <5>1, <5>2 DEF CanLetGo
      <4> QED
        BY <4>1, <4>2
    <3>5. \/ x \in {<<"feed">>, <<"killer">>}
          \/ \E n \in Working : x = <<"resize", n>>
          \/ \E job \in snaps \cup copies :
                job.at = "running" /\ x \in {<<"snapshot", job>>, <<"copy", job>>}
      BY <3>1 DEF Holders
    <3> QED
      BY <2>1, <3>1, <3>2, <3>3, <3>4, <3>5
  <2> QED
    BY <2>1, <2>2, <2>3
<1>2. QED
  BY <1>1, Inductive, PTL
=============================================================================
