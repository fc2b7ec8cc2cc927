------------------------- MODULE PersistenceThread -------------------------
(***************************************************************************)
(* The persistence worker of suaegi-app/src/persistence_thread.rs: the     *)
(* handle numbers save requests and queues them, the worker keeps the      *)
(* newest one pending until nothing has arrived for a while, writes it and *)
(* reports every request once.                                             *)
(*                                                                         *)
(* The snapshot of request n is the state the application had then, so a   *)
(* request stands for its content.  What Store::save does with it is       *)
(* module Persistence; here it is written (or was on disk already) or      *)
(* refused.  The worker may die in a save (a panic), which drops its end   *)
(* of the queue.                                                           *)
(*                                                                         *)
(* Definitions marked "Slip" are the wrong variants the mutants put in     *)
(* place of the definition after them; Next uses none of them.             *)
(***************************************************************************)
EXTENDS Naturals, Sequences, SequencesExt, FiniteSets

CONSTANT MaxSeq   \* bound on the requests

ASSUME MaxSeqAssumption == MaxSeq \in Nat

VARIABLES
    handle,    \* "open", "closed" by begin_shutdown, or "dropped"
    nextSeq,   \* the next request number
    queue,     \* requests sent and not received by the worker
    worker,    \* "idle", "saving", "ended" or "dead"
    pending,   \* the request the worker holds back, 0 for none
    job,       \* what the worker is saving, and what follows the save
    guard,     \* the store's future_schema_guard
    disk,      \* the request whose content was written last, 0 at the start
    reports,   \* the results channel: reports in the order they were sent
    closing,   \* history: the request of begin_shutdown, 0 before
    completed  \* what the receiver of begin_shutdown sees

vars == <<handle, nextSeq, queue, worker, pending, job, guard, disk, reports,
          closing, completed>>

Request == [kind : {"save", "override", "shutdown"}, seq : 0..MaxSeq]
NoJob   == [seq |-> 0, last |-> FALSE, told |-> FALSE]

Report(seq, status) == [seq |-> seq, status |-> status]

Init ==
    /\ handle = "open" /\ nextSeq = 1
    /\ queue = <<>>
    /\ worker = "idle" /\ pending = 0 /\ job = NoJob
    /\ guard \in BOOLEAN
    /\ disk = 0
    /\ reports = <<>>
    /\ closing = 0 /\ completed = "none"

-----------------------------------------------------------------------------
(* The handle: all called from the application's one thread.               *)

Receiving == worker \in {"idle", "saving"}

\* A send succeeds while the worker's end of the queue exists.
Save ==
    /\ handle \in {"open", "closed"}
    /\ nextSeq <= MaxSeq
    /\ nextSeq' = nextSeq + 1
    /\ IF handle = "open" /\ Receiving
       THEN /\ queue' = Append(queue, [kind |-> "save", seq |-> nextSeq])
            /\ UNCHANGED reports
       ELSE /\ reports' = Append(reports, Report(nextSeq, "failed"))
            /\ UNCHANGED queue
    /\ UNCHANGED <<handle, worker, pending, job, guard, disk, closing, completed>>

\* Override is followed by a save in the same update (state.rs), which the
\* model leaves to the next Save.
Override ==
    /\ handle = "open" /\ Receiving
    /\ guard
    /\ ~\E i \in DOMAIN queue : queue[i].kind = "override"
    /\ queue' = Append(queue, [kind |-> "override", seq |-> 0])
    /\ UNCHANGED <<handle, nextSeq, worker, pending, job, guard, disk, reports, closing, completed>>

BeginShutdown ==
    /\ handle = "open"
    /\ nextSeq <= MaxSeq
    /\ handle' = "closed"
    /\ nextSeq' = nextSeq + 1
    /\ closing' = nextSeq
    /\ IF Receiving
       THEN /\ queue' = Append(queue, [kind |-> "shutdown", seq |-> nextSeq])
            /\ completed' = "waiting"
            /\ UNCHANGED reports
       ELSE /\ reports' = Append(reports, Report(nextSeq, "failed"))
            /\ UNCHANGED <<queue, completed>>
    /\ UNCHANGED <<worker, pending, job, guard, disk>>

Drop ==
    /\ handle \in {"open", "closed"}
    /\ handle' = "dropped"
    /\ UNCHANGED <<nextSeq, queue, worker, pending, job, guard, disk, reports, closing, completed>>

-----------------------------------------------------------------------------
(* The worker.                                                             *)

\* The report a replaced request gets.
Superseded ==
    IF pending = 0 THEN <<>> ELSE <<Report(pending, "superseded")>>

\* Slip: a replaced request just disappears.
ReceiveSaveSilently ==
    /\ worker = "idle"
    /\ queue # <<>> /\ Head(queue).kind = "save"
    /\ queue' = Tail(queue)
    /\ pending' = Head(queue).seq
    /\ UNCHANGED <<handle, nextSeq, worker, job, guard, disk, reports, closing, completed>>
\* Slip: the first request of a burst is the one that is kept.
ReceiveSaveKeepingFirst ==
    /\ worker = "idle"
    /\ queue # <<>> /\ Head(queue).kind = "save"
    /\ queue' = Tail(queue)
    /\ IF pending = 0
       THEN pending' = Head(queue).seq /\ UNCHANGED reports
       ELSE /\ reports' = Append(reports, Report(Head(queue).seq, "superseded"))
            /\ UNCHANGED pending
    /\ UNCHANGED <<handle, nextSeq, worker, job, guard, disk, closing, completed>>
ReceiveSave ==
    /\ worker = "idle"
    /\ queue # <<>> /\ Head(queue).kind = "save"
    /\ queue' = Tail(queue)
    /\ reports' = reports \o Superseded
    /\ pending' = Head(queue).seq
    /\ UNCHANGED <<handle, nextSeq, worker, job, guard, disk, closing, completed>>

ReceiveOverride ==
    /\ worker = "idle"
    /\ queue # <<>> /\ Head(queue).kind = "override"
    /\ queue' = Tail(queue)
    /\ guard' = FALSE
    /\ UNCHANGED <<handle, nextSeq, worker, pending, job, disk, reports, closing, completed>>

\* Slip: the pending request is written first and then forgotten.
ReceiveShutdownKeeping ==
    /\ worker = "idle"
    /\ queue # <<>> /\ Head(queue).kind = "shutdown"
    /\ queue' = Tail(queue)
    /\ reports' = reports \o Superseded
    /\ job' = [seq |-> IF pending = 0 THEN Head(queue).seq ELSE pending,
               last |-> TRUE, told |-> TRUE]
    /\ pending' = 0
    /\ worker' = "saving"
    /\ UNCHANGED <<handle, nextSeq, guard, disk, closing, completed>>
ReceiveShutdown ==
    /\ worker = "idle"
    /\ queue # <<>> /\ Head(queue).kind = "shutdown"
    /\ queue' = Tail(queue)
    /\ reports' = reports \o Superseded
    /\ job' = [seq |-> Head(queue).seq, last |-> TRUE, told |-> TRUE]
    /\ pending' = 0
    /\ worker' = "saving"
    /\ UNCHANGED <<handle, nextSeq, guard, disk, closing, completed>>

\* Nothing came for the length of the debounce.  recv_timeout prefers a
\* message that is there.
Timeout ==
    /\ worker = "idle"
    /\ queue = <<>> /\ handle = "open"
    /\ pending # 0
    /\ job' = [seq |-> pending, last |-> FALSE, told |-> FALSE]
    /\ pending' = 0
    /\ worker' = "saving"
    /\ UNCHANGED <<handle, nextSeq, queue, guard, disk, reports, closing, completed>>

\* Slip: a vanished handle ends the worker at once.
DisconnectedAtOnce ==
    /\ worker = "idle"
    /\ queue = <<>> /\ handle # "open"
    /\ worker' = "ended"
    /\ UNCHANGED <<handle, nextSeq, queue, pending, job, guard, disk, reports, closing, completed>>
\* The sending end is gone and the queue is empty: flush and end.
Disconnected ==
    /\ worker = "idle"
    /\ queue = <<>> /\ handle # "open"
    /\ IF pending = 0
       THEN worker' = "ended" /\ UNCHANGED job
       ELSE /\ worker' = "saving"
            /\ job' = [seq |-> pending, last |-> TRUE, told |-> FALSE]
    /\ pending' = 0
    /\ UNCHANGED <<handle, nextSeq, queue, guard, disk, reports, closing, completed>>

\* store.save, its report, and what follows: the next request or the end.
SaveEnds(written) ==
    /\ worker = "saving"
    /\ guard => ~written
    /\ disk' = IF written THEN job.seq ELSE disk
    /\ reports' = Append(reports, Report(job.seq, IF written THEN "written" ELSE "failed"))
    /\ completed' = IF job.told THEN "done" ELSE completed
    /\ worker' = IF job.last THEN "ended" ELSE "idle"
    /\ queue' = IF job.last THEN <<>> ELSE queue
    /\ job' = NoJob
    /\ UNCHANGED <<handle, nextSeq, pending, guard, closing>>

\* A panic in the store: the receiver and the completion sender are dropped.
Dies ==
    /\ worker = "saving"
    /\ worker' = "dead"
    /\ queue' = <<>>
    /\ completed' = IF completed = "waiting" THEN "hung up" ELSE completed
    /\ UNCHANGED <<handle, nextSeq, pending, job, guard, disk, reports, closing>>

Worker == \/ ReceiveSave \/ ReceiveOverride \/ ReceiveShutdown
          \/ Timeout \/ Disconnected
          \/ \E written \in BOOLEAN : SaveEnds(written)

\* The application has gone and so has the worker.
Terminated ==
    /\ handle = "dropped" /\ worker \in {"ended", "dead"}
    /\ UNCHANGED vars

Next == Save \/ Override \/ BeginShutdown \/ Drop \/ Worker \/ Dies \/ Terminated

Spec == Init /\ [][Next]_vars

\* The worker runs whenever it can; a save ends.
FairSpec == Spec /\ WF_vars(Worker)

-----------------------------------------------------------------------------
(* Properties                                                              *)

Issued == 1..(nextSeq - 1)
Reported == {reports[i].seq : i \in DOMAIN reports}
Queued == {queue[i].seq : i \in {j \in DOMAIN queue : queue[j].kind # "override"}}
Held == {pending, job.seq} \ {0}

\* Every variable is in range.
TypeOK ==
    /\ handle \in {"open", "closed", "dropped"} /\ nextSeq \in 1..(MaxSeq + 1)
    /\ queue \in Seq(Request)
    /\ worker \in {"idle", "saving", "ended", "dead"}
    /\ pending \in 0..MaxSeq /\ guard \in BOOLEAN /\ disk \in 0..MaxSeq
    /\ closing \in 0..MaxSeq
    /\ job \in [seq : 0..MaxSeq, last : BOOLEAN, told : BOOLEAN]
    /\ reports \in Seq([seq : 1..MaxSeq, status : {"written", "superseded", "failed"}])
    /\ completed \in {"none", "waiting", "done", "hung up"}

\* No request is reported twice, none is reported while it is queued, pending
\* or being saved, and as long as the worker lives none is anywhere else.
EachRequestIsAccountedFor ==
    /\ IsInjective([i \in DOMAIN reports |-> reports[i].seq])
    /\ Reported \cap (Queued \cup Held) = {}
    /\ worker # "dead" => Issued = Reported \cup Queued \cup Held

\* When nothing is queued or held, the newest request was not passed over for
\* an older one, and if it was written it is what the disk holds.
QuietMeansNewest ==
    worker # "dead" /\ Issued # {} /\ Queued \cup Held = {} =>
        LET newest == nextSeq - 1 IN
        /\ Report(newest, "superseded") \notin Range(reports)
        /\ Report(newest, "written") \in Range(reports) => disk = newest

\* The caller of begin_shutdown is told "done" only when its own snapshot was
\* written, or refused by the store; never on behalf of an earlier request.
DoneMeansFinalState ==
    completed = "done" =>
        \/ Report(closing, "written") \in Range(reports) /\ disk = closing
        \/ Report(closing, "failed") \in Range(reports)

\* The worker as one that coalesces requests, until it has died.
Saver == INSTANCE LatestWins WITH
    asked <- nextSeq - 1,
    waiting <- IF worker = "dead" THEN {} ELSE Queued \cup Held,
    served <- disk,
    refused <- worker = "dead" \/ \E r \in Range(reports) : r.status = "failed"

\* No state is written over a newer one, and a request is left unwritten only
\* for a newer one or because a save failed, wherever a shutdown, a vanished
\* handle or the end of the worker falls.
NewestStateIsSaved == Saver!Spec

\* A request that is never followed by another is decided: debounce does not
\* put it off for ever, and a shutdown or a dropped handle flushes it.
EveryRequestIsReported ==
    \A n \in 1..MaxSeq : nextSeq > n ~> n \in Reported \/ worker = "dead"

=============================================================================
