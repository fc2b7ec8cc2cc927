----------------------------- MODULE Federation -----------------------------
(***************************************************************************)
(* The federation relay of suaegi-app/src/orchestration.rs and the         *)
(* handlers of suaegi-app/src/runtime_server.rs it calls: a coordinator's  *)
(* machine (home) starts a worker on another machine, the two exchange     *)
(* mail through sequence-numbered relays, and the home side folds the      *)
(* worker's completion into the Dispatch and the Task.                     *)
(*                                                                         *)
(* Each side keeps its state in one JSON file; every mutate_state call     *)
(* reads, changes and renames it under a file lock, so it is one step      *)
(* here.  Nothing is held between two such calls: the desktop's two-second *)
(* loop and every CLI command that synchronises (Syncs) interleave freely. *)
(* A request may be lost, answered late, or handled after its caller gave  *)
(* up.                                                                     *)
(*                                                                         *)
(* One Dispatch is modelled; relays of different Dispatches share nothing. *)
(* Definitions marked "Slip" are the wrong variants the mutants put in     *)
(* place of the definition after them; Next uses none of them.             *)
(***************************************************************************)
EXTENDS Naturals, Sequences, SequencesExt, FiniteSets, FiniteSetsExt

CONSTANTS Syncs,      \* concurrent callers of sync_federated_dispatch
          Loop,       \* the one that is the desktop's background thread
          Kinds,      \* what a worker reports: see Outcomes
          Scenarios   \* the bounds a behaviour may have

\* syncs: those that run at all; batch: items per pull and per import (50 in
\* the code); home, worker, aborts, edits: bounds on the messages each side is
\* sent, on the synchronisations that break off and on other writes to the Task.
Scenario(syncs, batch, home, worker, breaks, writes) ==
    [syncs |-> syncs, batch |-> batch, home |-> home, worker |-> worker,
     aborts |-> breaks, edits |-> writes]

Outcomes == {"succeeded", "failed"}

ASSUME FederationAssumption ==
    /\ Loop \in Syncs
    /\ Kinds \subseteq {"mail"} \cup Outcomes
    /\ Scenarios \subseteq [syncs : SUBSET Syncs, batch : Nat \ {0},
                             home : Nat, worker : Nat, aborts : Nat, edits : Nat]

VARIABLES
    dispatch,     \* the home's DispatchRecord
    task,         \* the status of its TaskRecord
    homeInbox,    \* ids of the relayed messages the home has stored
    attachment,   \* the worker side's RemoteAttachmentRecord
    workerInbox,  \* ids of the control messages the worker side has stored
    starter,      \* where worker_start_remote is, or the answer it waits for
    stopper,      \* where worker_stop is
    sync,         \* the local variables of each sync_federated_dispatch
    wire,         \* requests that change state and are not handled yet
    sentHome,     \* history: the kinds of all messages the worker sent
    sentWorker,   \* history: one entry per message the coordinator sent
    aborts,       \* history: synchronisations that broke off
    edits,        \* history: writes to the Task that are not this relay's
    edited,       \* history: one came after the Dispatch and the Task settled
    bounds        \* the scenario of this behaviour

homeVars   == <<dispatch, task, homeInbox>>
remoteVars == <<attachment, workerInbox>>
callers    == <<starter, stopper, sync>>
history    == <<sentHome, sentWorker, aborts, edits, edited, bounds>>
vars == <<homeVars, remoteVars, callers, wire, history>>

-----------------------------------------------------------------------------
(* Relays: the queue of one direction, with the sender's acknowledged      *)
(* position.                                                               *)

\* Slip: number after the queue only, restarting once it has been drained.
LastSequenceOfQueue(relay, acked) ==
    IF relay = <<>> THEN 0 ELSE Last(relay).sequence
LastSequence(relay, acked) ==
    IF relay = <<>> THEN acked ELSE Last(relay).sequence

Push(relay, acked, id) ==
    Append(relay, [sequence |-> LastSequence(relay, acked) + 1, id |-> id])

\* The items beyond a position.  A relay ascends, so they are its end.
After(relay, position) ==
    LET later == {i \in DOMAIN relay : relay[i].sequence > position} IN
    IF later = {} THEN <<>> ELSE SubSeq(relay, Min(later), Len(relay))

Take(relay) == SubSeq(relay, 1, Min({bounds.batch, Len(relay)}))

-----------------------------------------------------------------------------
Idle == [pc |-> "idle", cursor |-> 0, items |-> <<>>]

Init ==
    /\ dispatch = [status |-> "none", cursor |-> 0, relay |-> <<>>, acked |-> 0]
    /\ task = "ready"
    /\ homeInbox = {}
    /\ attachment = [status |-> "none", relay |-> <<>>, acked |-> 0, imported |-> 0]
    /\ workerInbox = {}
    /\ starter = "idle" /\ stopper = "idle"
    /\ sync = [s \in Syncs |-> Idle]
    /\ wire = {}
    /\ sentHome = <<>> /\ sentWorker = <<>> /\ aborts = 0
    /\ edits = 0 /\ edited = FALSE
    /\ bounds \in Scenarios

-----------------------------------------------------------------------------
(* worker-start --on: the Dispatch is recorded before the request leaves   *)
(* and rewritten when the answer, or an error, comes back.                 *)

StartRequest ==
    /\ starter = "idle"
    /\ starter' = "waiting"
    /\ dispatch' = [dispatch EXCEPT !.status = "starting"]
    /\ task' = "dispatching"
    /\ wire' = wire \cup {[op |-> "attach"]}
    /\ UNCHANGED <<homeInbox, remoteVars, stopper, sync, history>>

\* The answer of federationAttachStart, "ready" or "failed".
StartAnswered ==
    /\ starter \in {"ready", "failed"}
    /\ starter' = "returned"
    /\ dispatch' = [dispatch EXCEPT !.status =
                        IF starter = "ready" THEN "active" ELSE starter]
    /\ task' = IF starter = "ready" THEN "dispatched" ELSE "ready"
    /\ UNCHANGED <<homeInbox, remoteVars, stopper, sync, wire, history>>

\* The request or its answer is lost, or the time limit passes.
StartFails ==
    /\ starter \in {"waiting", "ready", "failed"}
    /\ starter' = "returned"
    /\ dispatch' = [dispatch EXCEPT !.status = "outcome_unknown"]
    /\ task' = "dispatched"
    /\ UNCHANGED <<homeInbox, remoteVars, stopper, sync, wire, history>>

AttachBegin ==
    /\ [op |-> "attach"] \in wire
    /\ attachment.status = "none"
    /\ attachment' = [attachment EXCEPT !.status = "starting"]
    /\ wire' = wire \ {[op |-> "attach"]}
    /\ UNCHANGED <<homeVars, workerInbox, callers, history>>

\* Worktree and terminal are there and the agent has the task; or not.
AttachEnd(status) ==
    /\ attachment.status = "starting"
    /\ attachment' = [attachment EXCEPT !.status = status]
    /\ starter' = IF starter = "waiting" THEN status ELSE starter
    /\ UNCHANGED <<homeVars, workerInbox, stopper, sync, wire, history>>

-----------------------------------------------------------------------------
(* worker-stop and worker-abandon.                                         *)

StopRequest ==
    /\ stopper = "idle"
    /\ dispatch.status # "none"
    /\ stopper' = "waiting"
    /\ wire' = wire \cup {[op |-> "stop"]}
    /\ UNCHANGED <<homeVars, remoteVars, starter, sync, history>>

\* An attachment that failed or was never made has no terminal: an error.
RemoteStop ==
    /\ [op |-> "stop"] \in wire
    /\ attachment.status \in {"ready", "stopped"}
    /\ attachment' = [attachment EXCEPT !.status = "stopped"]
    /\ wire' = wire \ {[op |-> "stop"]}
    /\ stopper' = IF stopper = "waiting" THEN "answered" ELSE stopper
    /\ UNCHANGED <<homeVars, workerInbox, starter, sync, history>>

StopAnswered ==
    /\ stopper = "answered"
    /\ stopper' = "returned"
    /\ dispatch' = [dispatch EXCEPT !.status = "stopped"]
    /\ UNCHANGED <<task, homeInbox, remoteVars, starter, sync, wire, history>>

\* The remote side refuses, or the time limit passes: nothing is changed.
StopFails ==
    /\ stopper \in {"waiting", "answered"}
    /\ stopper' = "returned"
    /\ UNCHANGED <<homeVars, remoteVars, starter, sync, wire, history>>

Abandon ==
    /\ dispatch.status \notin {"none", "abandoned"}
    /\ dispatch' = [dispatch EXCEPT !.status = "abandoned"]
    /\ UNCHANGED <<task, homeInbox, remoteVars, callers, wire, history>>

-----------------------------------------------------------------------------
(* The others who write this Task, or this Dispatch, at home.              *)

TaskStatuses ==
    {"pending", "ready", "blocked", "dispatching", "dispatched", "completed", "failed"}
TaskStatus(outcome) == IF outcome = "succeeded" THEN "completed" ELSE "failed"

\* task-update, gate-create and gate-resolve, dispatch, another worker-start for
\* the Task and what becomes of it, a worker_done that names the Task alone: none
\* of them looks at this Dispatch.
SetTask(status) ==
    /\ edits < bounds.edits
    /\ edits' = edits + 1 /\ edited' = TRUE
    /\ task' = status
    /\ UNCHANGED <<dispatch, homeInbox, remoteVars, callers, wire, sentHome, sentWorker, aborts,
                   bounds>>

\* A worker_done that is sent at home and names both.
SettleAtHome(outcome) ==
    /\ dispatch.status # "none" /\ edits < bounds.edits
    /\ edits' = edits + 1 /\ edited' = FALSE
    /\ dispatch' = [dispatch EXCEPT !.status = outcome]
    /\ task' = TaskStatus(outcome)
    /\ UNCHANGED <<homeInbox, remoteVars, callers, wire, sentHome, sentWorker, aborts, bounds>>

-----------------------------------------------------------------------------
(* Mail is queued on the side it is written on.                            *)

SendFromWorker(kind) ==
    /\ attachment.status = "ready"
    /\ Len(sentHome) < bounds.home
    /\ sentHome' = Append(sentHome, kind)
    /\ attachment' = [attachment EXCEPT
           !.relay = Push(attachment.relay, attachment.acked, Len(sentHome) + 1)]
    /\ UNCHANGED <<homeVars, workerInbox, callers, wire, sentWorker, aborts, edits, edited,
                   bounds>>

PushToWorker ==
    /\ Len(sentWorker) < bounds.worker
    /\ sentWorker' = Append(sentWorker, "mail")
    /\ dispatch' = [dispatch EXCEPT
           !.relay = Push(dispatch.relay, dispatch.acked, Len(sentWorker) + 1)]
    /\ UNCHANGED <<task, homeInbox, remoteVars, callers, wire, sentHome, aborts, edits, edited,
                   bounds>>

SendToWorker == dispatch.status \in {"active", "starting"} /\ PushToWorker

\* A reply answers a stored message and does not look at the status.
Reply == homeInbox # {} /\ PushToWorker

-----------------------------------------------------------------------------
(* sync_federated_dispatch, one step per state access.                     *)

\* Slip: only an active Dispatch is worth a request.
SyncBeginActive(s) ==
    /\ sync[s].pc = "idle"
    /\ dispatch.status = "active"
    /\ sync' = [sync EXCEPT ![s] =
           [pc |-> "pull", cursor |-> dispatch.cursor, items |-> <<>>]]
    /\ UNCHANGED <<homeVars, remoteVars, starter, stopper, wire, history>>
\* The background loop skips a Dispatch that is settled; the commands that
\* name a Dispatch do not.
SyncBegin(s) ==
    /\ sync[s].pc = "idle"
    /\ dispatch.status # "none"
    /\ s = Loop => dispatch.status \in {"starting", "active", "outcome_unknown"}
    /\ sync' = [sync EXCEPT ![s] =
           [pc |-> "pull", cursor |-> dispatch.cursor, items |-> <<>>]]
    /\ UNCHANGED <<homeVars, remoteVars, starter, stopper, wire, history>>

\* federationPull answers any attachment, whatever its status.
RemotePull(s) ==
    /\ sync[s].pc = "pull"
    /\ attachment.status # "none"
    /\ sync' = [sync EXCEPT ![s] = [@ EXCEPT !.pc = "store",
                    !.items = Take(After(attachment.relay, sync[s].cursor))]]
    /\ UNCHANGED <<homeVars, remoteVars, starter, stopper, wire, history>>

\* Only the first time a message is stored it is looked at.
Settles(id) == id \notin homeInbox /\ sentHome[id] \in Outcomes

\* What storing message id does to Dispatch and Task.
Settle(id) ==
    IF Settles(id)
    THEN [status |-> sentHome[id], task |-> TaskStatus(sentHome[id])]
    ELSE [status |-> dispatch.status, task |-> task]

\* Slip: a completion settles the Dispatch and leaves the Task.
StoreWithoutTask(s) ==
    /\ sync[s].pc = "store"
    /\ sync[s].items # <<>>
    /\ LET item == Head(sync[s].items) IN
       /\ item.sequence = sync[s].cursor + 1
       /\ homeInbox' = homeInbox \cup {item.id}
       /\ dispatch' = [dispatch EXCEPT !.status = Settle(item.id).status,
                                       !.cursor = item.sequence]
       /\ sync' = [sync EXCEPT ![s].items = Tail(@), ![s].cursor = item.sequence]
       /\ edited' = (edited /\ ~Settles(item.id))
    /\ UNCHANGED <<task, remoteVars, starter, stopper, wire, sentHome, sentWorker, aborts,
                   edits, bounds>>
\* Slip: the message is stored and its position is not.
StoreWithoutCursor(s) ==
    /\ sync[s].pc = "store"
    /\ sync[s].items # <<>>
    /\ LET item == Head(sync[s].items) IN
       /\ item.sequence = sync[s].cursor + 1
       /\ homeInbox' = homeInbox \cup {item.id}
       /\ dispatch' = [dispatch EXCEPT !.status = Settle(item.id).status]
       /\ task' = Settle(item.id).task
       /\ sync' = [sync EXCEPT ![s].items = Tail(@), ![s].cursor = item.sequence]
       /\ edited' = (edited /\ ~Settles(item.id))
    /\ UNCHANGED <<remoteVars, starter, stopper, wire, sentHome, sentWorker, aborts, edits,
                   bounds>>
Store(s) ==
    /\ sync[s].pc = "store"
    /\ sync[s].items # <<>>
    /\ LET item == Head(sync[s].items) IN
       /\ item.sequence = sync[s].cursor + 1
       /\ homeInbox' = homeInbox \cup {item.id}
       /\ dispatch' = [dispatch EXCEPT !.status = Settle(item.id).status,
                                       !.cursor = item.sequence]
       /\ task' = Settle(item.id).task
       /\ sync' = [sync EXCEPT ![s].items = Tail(@), ![s].cursor = item.sequence]
       /\ edited' = (edited /\ ~Settles(item.id))
    /\ UNCHANGED <<remoteVars, starter, stopper, wire, sentHome, sentWorker, aborts, edits,
                   bounds>>

\* "not contiguous": the whole synchronisation fails.
StoreRefused(s) ==
    /\ sync[s].pc = "store"
    /\ sync[s].items # <<>>
    /\ Head(sync[s].items).sequence # sync[s].cursor + 1
    /\ sync' = [sync EXCEPT ![s] = Idle]
    /\ UNCHANGED <<homeVars, remoteVars, starter, stopper, wire, history>>

AckRequest(s) ==
    [op |-> "ack", by |-> s, through |-> sync[s].cursor, items |-> <<>>]
ImportRequest(s, pending) ==
    [op |-> "import", by |-> s, through |-> Last(pending).sequence, items |-> pending]

\* Slip: acknowledge what was pulled before it is stored.
SendAckEarly(s) ==
    /\ sync[s].pc = "store"
    /\ wire' = wire \cup {[AckRequest(s) EXCEPT !.through = @ + Len(sync[s].items)]}
    /\ sync' = [sync EXCEPT ![s] = [@ EXCEPT !.pc = "ack"]]
    /\ UNCHANGED <<homeVars, remoteVars, starter, stopper, history>>
SendAck(s) ==
    /\ sync[s].pc = "store"
    /\ sync[s].items = <<>>
    /\ IF sync[s].cursor > 0
       THEN /\ wire' = wire \cup {AckRequest(s)}
            /\ sync' = [sync EXCEPT ![s].pc = "ack"]
       ELSE /\ sync' = [sync EXCEPT ![s].pc = "pending"]
            /\ UNCHANGED wire
    /\ UNCHANGED <<homeVars, remoteVars, starter, stopper, history>>

Drop(relay, through) == After(relay, through)

\* An acknowledgement beyond the last item is an error.
RemoteAck(r) ==
    /\ r \in wire /\ r.op = "ack"
    /\ LET legal == r.through <= LastSequence(attachment.relay, attachment.acked)
           acked == IF legal THEN Max({attachment.acked, r.through})
                             ELSE attachment.acked
           waits == sync[r.by].pc = "ack" /\ sync[r.by].cursor = r.through
       IN /\ attachment' = [attachment EXCEPT !.acked = acked,
                                              !.relay = Drop(@, acked)]
          /\ sync' = [sync EXCEPT ![r.by] =
                 IF ~waits THEN @ ELSE IF legal THEN [@ EXCEPT !.pc = "pending"] ELSE Idle]
    /\ wire' = wire \ {r}
    /\ UNCHANGED <<homeVars, workerInbox, starter, stopper, history>>

SendImport(s) ==
    /\ sync[s].pc = "pending"
    /\ LET pending == Take(After(dispatch.relay, dispatch.acked)) IN
       IF pending = <<>>
       THEN /\ sync' = [sync EXCEPT ![s] = Idle]
            /\ UNCHANGED wire
       ELSE /\ wire' = wire \cup {ImportRequest(s, pending)}
            /\ sync' = [sync EXCEPT ![s] = [@ EXCEPT !.pc = "import", !.items = pending]]
    /\ UNCHANGED <<homeVars, remoteVars, starter, stopper, history>>

\* Slip: a repeated item is refused, not skipped.
ContiguousOnce(items, cursor) ==
    \A i \in DOMAIN items : items[i].sequence = cursor + i
\* No item leaves a gap behind the cursor; items before it may be repeated.
Contiguous(items, cursor) ==
    \A i \in DOMAIN items : LET earlier == SubSeq(items, 1, i - 1) IN
        items[i].sequence <= 1 + Max({cursor} \cup {item.sequence : item \in Range(earlier)})

RemoteImport(r) ==
    /\ r \in wire /\ r.op = "import"
    /\ LET legal == attachment.status = "ready"
                    /\ Contiguous(r.items, attachment.imported)
           waits == sync[r.by].pc = "import" /\ sync[r.by].items = r.items
           new   == After(r.items, attachment.imported)
           reach == Max({attachment.imported, r.through})
       IN /\ IF legal
             THEN /\ workerInbox' = workerInbox \cup {item.id : item \in Range(new)}
                  /\ attachment' = [attachment EXCEPT !.imported = reach]
             ELSE UNCHANGED remoteVars
          /\ sync' = [sync EXCEPT ![r.by] =
                 IF ~waits THEN @
                 ELSE IF legal THEN [pc |-> "imported", cursor |-> reach, items |-> <<>>]
                 ELSE Idle]
    /\ wire' = wire \ {r}
    /\ UNCHANGED <<homeVars, starter, stopper, history>>

Confirm(s) ==
    /\ sync[s].pc = "imported"
    /\ LET acked == Max({dispatch.acked, sync[s].cursor}) IN
       dispatch' = [dispatch EXCEPT !.acked = acked, !.relay = Drop(@, acked)]
    /\ sync' = [sync EXCEPT ![s] = Idle]
    /\ UNCHANGED <<task, homeInbox, remoteVars, starter, stopper, wire, history>>

\* A time limit, a lost connection, or the end of the calling process: the
\* local variables are gone, a request that left may still be handled.
Abort(s) ==
    /\ sync[s].pc # "idle"
    /\ aborts < bounds.aborts
    /\ aborts' = aborts + 1
    /\ sync' = [sync EXCEPT ![s] = Idle]
    /\ UNCHANGED <<homeVars, remoteVars, starter, stopper, wire, sentHome, sentWorker, edits,
                   edited, bounds>>

\* A pull for a Dispatch the remote side does not know is an error.
PullRefused(s) ==
    /\ sync[s].pc = "pull"
    /\ attachment.status = "none"
    /\ sync' = [sync EXCEPT ![s] = Idle]
    /\ UNCHANGED <<homeVars, remoteVars, starter, stopper, wire, history>>

-----------------------------------------------------------------------------
SyncStep(s) ==
    \/ RemotePull(s) \/ PullRefused(s)
    \/ Store(s) \/ StoreRefused(s) \/ SendAck(s) \/ SendImport(s) \/ Confirm(s)
    \/ \E r \in wire : r.op = "ack" /\ r.by = s /\ RemoteAck(r)
    \/ \E r \in wire : r.op = "import" /\ r.by = s /\ RemoteImport(r)

Next ==
    \/ StartRequest \/ StartAnswered \/ StartFails
    \/ AttachBegin \/ \E status \in {"ready", "failed"} : AttachEnd(status)
    \/ StopRequest \/ RemoteStop \/ StopAnswered \/ StopFails \/ Abandon
    \/ \E status \in TaskStatuses : SetTask(status)
    \/ \E outcome \in Outcomes : SettleAtHome(outcome)
    \/ \E kind \in Kinds : SendFromWorker(kind)
    \/ SendToWorker \/ Reply
    \/ \E s \in bounds.syncs : SyncBegin(s) \/ SyncStep(s) \/ Abort(s)

Spec == Init /\ [][Next]_vars

\* The loop runs every two seconds for as long as the application does, and
\* its requests are answered or refused.
FairSpec == Spec /\ WF_vars(SyncBegin(Loop)) /\ WF_vars(SyncStep(Loop))

-----------------------------------------------------------------------------
(* Properties                                                              *)

Ids(queue) == {item.id : item \in Range(queue)}

ToHome == INSTANCE RelayChannel WITH
    Messages <- Kinds, log <- sentHome, inbox <- homeInbox,
    kept <- Ids(attachment.relay)

ToWorker == INSTANCE RelayChannel WITH
    Messages <- {"mail"}, log <- sentWorker, inbox <- workerInbox,
    kept <- Ids(dispatch.relay)

\* Whatever synchronisations overlap, break off or are handled late, the
\* worker's mail is stored at home in order, once, and is dropped by the
\* worker side only when it is stored (sync_federated_dispatch,
\* acknowledge_federation_relay).
ToHomeIsReliable == ToHome!Spec

\* The same of the control mail from home to the worker
\* (import_federation_relay and the retain that follows its answer).
ToWorkerIsReliable == ToWorker!Spec

\* A Dispatch that reports success has a completed Task, unless somebody else has
\* written the Task since: the relay and the late answers of worker-start and
\* worker-stop never leave one without the other.
SettledTogether == dispatch.status = "succeeded" /\ ~edited => task = "completed"

\* Between synchronisations, what the worker side has discarded is behind the
\* home's cursor: otherwise no later pull is contiguous and the relay of this
\* Dispatch, in both directions, is stuck for good.
NextPullIsContiguous ==
    (\A s \in Syncs : sync[s].pc = "idle") => attachment.acked <= dispatch.cursor

\* A stored completion settles the Task: it is completed or failed from then
\* on, as the last completion says.
CompletionSettlesTask ==
    LET reports == {i \in homeInbox : sentHome[i] \in Outcomes} IN
    reports # {} => task = TaskStatus(sentHome[Max(reports)])

\* The loop alone never gets there.
LoopPullsAreContiguous == bounds.syncs = {Loop} => NextPullIsContiguous

Synchronised == dispatch.status \in {"starting", "active", "outcome_unknown"}

\* With the loop alone, what a worker reports reaches the home unless the
\* Dispatch is settled first, and control mail reaches a worker that is ready.
MailArrives ==
    /\ \A i \in 1..Max({b.home : b \in Scenarios}) :
          bounds.syncs = {Loop} /\ Len(sentHome) >= i
              ~> i \in homeInbox \/ ~Synchronised
    /\ \A i \in 1..Max({b.worker : b \in Scenarios}) :
          bounds.syncs = {Loop} /\ Len(sentWorker) >= i /\ attachment.status = "ready"
              ~> i \in workerInbox \/ attachment.status # "ready" \/ ~Synchronised
=============================================================================
