---------------------------- MODULE Orchestration ----------------------------
(***************************************************************************)
(* The local half of orchestration (suaegi-app/src/orchestration.rs): the  *)
(* tasks, gates and dispatches of one run, and the mailboxes of the agents *)
(* that work on it.  All of it is one JSON document; every command changes *)
(* it in a transaction of its own (mutate_state: flock, read, operation,   *)
(* atomic replacement), so a step here is a transaction.  A command that   *)
(* makes several transactions, or prints after its last one, can be killed *)
(* in between.  Of the dispatches to another server the board's side is    *)
(* here: the start, its answer, and the outcome that is relayed back.      *)
(*                                                                         *)
(* Messages, dispatches and gates are known by number; ids are random in   *)
(* the code and are never used again.  "Slip:" marks a plausible mistake   *)
(* that is no part of Next.                                                *)
(***************************************************************************)
EXTENDS Naturals, Sequences, FiniteSets

CONSTANTS
  Tasks,
  Deps,      \* the dependencies each task is created with
  Handles,   \* the agents' terminals
  All,       \* the address of everyone on the run ("@all", "run:<id>")
  Server,    \* the address of a worker on another server ("dispatch:<id>")
  Commands,  \* processes that may run "check"
  Owner,     \* the handle each of them checks for
  Budgets    \* the mixes: how many commands of each sort a behaviour may contain

Sorts == {"dispatch", "start", "gate", "update", "report", "message", "reset", "kill", "read"}

ASSUME OrchestrationAssumption ==
  /\ Deps \in [Tasks -> SUBSET Tasks]
  /\ Owner \in [Commands -> Handles] /\ All \notin Handles /\ Server \notin Handles \cup {All}
  /\ Budgets \subseteq [Sorts -> Nat]

\* What task-update may set, and what a task may be.
Settable == {"pending", "ready", "dispatched", "completed", "failed", "blocked"}
Statuses == Settable \cup {"dispatching"}
Outcomes == {"succeeded", "failed"}
LiveStatuses == {"starting", "active", "outcome_unknown"}
DispatchStatuses == LiveStatuses \cup {"stopped", "abandoned", "removed"} \cup Outcomes

VARIABLES
  task,       \* status of each task; "none" if there is no such task
  dispatches, \* sequence of [task, status]
  remote,     \* the numbers of those on another server
  starting,   \* the numbers of those whose worker-start still waits for the server
  gates,      \* sequence of [task, status]
  messages,   \* sequence of [from, to, kind, reply]: every message ever sent
  stored,     \* the numbers of those still in the document
  delivery,   \* per handle: the unacknowledged delivery, number 0 if none
  deliveries, \* deliveries made so far
  acked,      \* per handle: acked_messages
  pc, answer, \* per check: where it is, and what it is about to print
  known,      \* per handle: the delivery number its agent last read, 0 if none
  left,       \* what is left of the budget
  \* history variables
  given,      \* per handle: the messages its checks have printed
  wasDone,    \* the tasks that have been completed at some time
  putBack,    \* the tasks a failed start has put back since the last refresh
  careful     \* see Careful

boardVars == <<task, dispatches, remote, starting, gates, wasDone, putBack, careful>>
mailVars == <<messages, stored, delivery, deliveries, acked>>
agentVars == <<pc, answer, known, given>>
vars == <<boardVars, mailVars, agentVars, left>>

NoDelivery == [number |-> 0, ids |-> {}]

Init ==
  /\ task = [t \in Tasks |-> "none"]
  /\ dispatches = <<>> /\ gates = <<>>
  /\ messages = <<>> /\ stored = {}
  /\ delivery = [h \in Handles |-> NoDelivery] /\ deliveries = 0
  /\ acked = [h \in Handles |-> {}]
  /\ pc = [c \in Commands |-> "idle"]
  /\ answer = [c \in Commands |-> NoDelivery]
  /\ known = [h \in Handles |-> 0]
  /\ given = [h \in Handles |-> {}]
  /\ remote = {} /\ starting = {}
  /\ wasDone = {} /\ putBack = {} /\ careful = TRUE
  /\ left \in Budgets

Spend(sort) == left[sort] > 0 /\ left' = [left EXCEPT ![sort] = @ - 1]

\* Whether the agents read their mail at all; not spent.
Reading == left["read"] > 0

-----------------------------------------------------------------------------
\* The board

Open(g) == g.status = "pending"
Live(d) == d.status \in LiveStatuses
\* Until a start is answered it can still become live, also when withdrawn.
Busy(i) == Live(dispatches[i]) \/ i \in starting
HasBusy(t) == \E i \in DOMAIN dispatches : dispatches[i].task = t /\ Busy(i)
Marked(s, i, status) == [s EXCEPT ![i] = [task |-> s[i].task, status |-> status]]
Questioned(t, gs) == \E i \in DOMAIN gs : gs[i].task = t /\ Open(gs[i])

\* Slip: a dependency that has failed counts as done.
RefreshedLoosely(status, gs) ==
  [t \in Tasks |->
    IF status[t] \notin {"pending", "ready"} THEN status[t]
    ELSE IF Questioned(t, gs) THEN "blocked"
    ELSE IF \A d \in Deps[t] : status[d] \in {"completed", "failed"} THEN "ready"
    ELSE "pending"]

\* Slip: leaves the questions out.
RefreshedIgnoringGates(status, gs) ==
  [t \in Tasks |->
    IF status[t] \notin {"pending", "ready"} THEN status[t]
    ELSE IF \A d \in Deps[t] : status[d] = "completed" THEN "ready"
    ELSE "pending"]

\* Slip: offers a task that is being worked on once more.
RefreshedEagerly(status, gs) ==
  [t \in Tasks |->
    IF status[t] \notin {"pending", "ready", "dispatched"} THEN status[t]
    ELSE IF Questioned(t, gs) THEN "blocked"
    ELSE IF \A d \in Deps[t] : status[d] = "completed" THEN "ready"
    ELSE "pending"]

\* refresh_ready_tasks: every task that waits is put in its place.
Refreshed(status, gs) ==
  [t \in Tasks |->
    IF status[t] \notin {"pending", "ready"} THEN status[t]
    ELSE IF Questioned(t, gs) THEN "blocked"
    ELSE IF \A d \in Deps[t] : status[d] = "completed" THEN "ready"
    ELSE "pending"]

Board(status) ==
  /\ task' = status
  /\ wasDone' = wasDone \cup {t \in Tasks : status[t] = "completed"}

Refresh(status, gs) == Board(Refreshed(status, gs)) /\ putBack' = {}

TaskCreate(t) ==
  /\ task[t] = "none" /\ \A d \in Deps[t] : task[d] # "none"
  /\ Refresh([task EXCEPT ![t] = "pending"], gates)
  /\ UNCHANGED <<dispatches, remote, starting, gates, careful, mailVars, agentVars, left>>

\* A coordinator is careful as long as it dispatches only what is ready and
\* leaves a task alone, questions included, while somebody works on it.
Careful(t, ok) == careful' = (careful /\ ok)

TaskUpdate(t, status) ==
  /\ task[t] # "none" /\ Spend("update")
  /\ Refresh([task EXCEPT ![t] = status], gates)
  /\ Careful(t, ~HasBusy(t))
  /\ UNCHANGED <<dispatches, remote, starting, gates, mailVars, agentVars>>

\* dispatch looks at the task's run, not at its status.
Dispatch(t) ==
  /\ task[t] # "none" /\ Spend("dispatch")
  /\ dispatches' = Append(dispatches, [task |-> t, status |-> "active"])
  /\ Board([task EXCEPT ![t] = "dispatched"])
  /\ Careful(t, task[t] = "ready")
  /\ UNCHANGED <<remote, starting, gates, putBack, mailVars, agentVars>>

\* worker-start --on looks no closer.  It records the dispatch before it asks
\* the server.  (The read that finds the task is taken together with this
\* transaction: what becomes of the task in between is not looked at again, and
\* after a reset the start has no task to touch.)
WorkerStart(t) ==
  /\ task[t] # "none" /\ Spend("start")
  /\ dispatches' = Append(dispatches, [task |-> t, status |-> "starting"])
  /\ remote' = remote \cup {Len(dispatches) + 1}
  /\ starting' = starting \cup {Len(dispatches) + 1}
  /\ Board([task EXCEPT ![t] = "dispatching"])
  /\ Careful(t, task[t] = "ready")
  /\ UNCHANGED <<gates, putBack, mailVars, agentVars>>

\* The server's answer, or its absence, overwrites whatever became of the
\* dispatch and of its task meanwhile.  A start that is killed has none.
StartAnswered(i, status, next) ==
  /\ i \in starting
  /\ dispatches' = Marked(dispatches, i, status)
  /\ starting' = starting \ {i}
  /\ Board([task EXCEPT ![dispatches[i].task] = next])
  /\ UNCHANGED <<remote, gates, careful, mailVars, agentVars, left>>

StartSucceeds(i) == StartAnswered(i, "active", "dispatched") /\ UNCHANGED putBack

\* The task is put back as "ready", with no look at its questions and
\* dependencies; the dispatch takes the server's state for it.
StartFails(i) ==
  /\ StartAnswered(i, "failed", "ready")
  /\ putBack' = putBack \cup {dispatches[i].task}

StartUnknown(i) == StartAnswered(i, "outcome_unknown", "dispatched") /\ UNCHANGED putBack

\* worker-stop and worker-abandon set the dispatch, whatever it is, and leave
\* its task alone.
Withdraw(i, status) ==
  /\ dispatches[i].status # "removed"
  /\ dispatches' = Marked(dispatches, i, status)
  /\ UNCHANGED <<task, remote, starting, gates, wasDone, putBack, careful>>
  /\ UNCHANGED <<mailVars, agentVars, left>>

GateCreate(t) ==
  /\ task[t] # "none" /\ Spend("gate")
  /\ gates' = Append(gates, [task |-> t, status |-> "pending"])
  /\ Board([task EXCEPT ![t] = "blocked"])
  /\ Careful(t, ~HasBusy(t))
  /\ UNCHANGED <<dispatches, remote, starting, putBack, mailVars, agentVars>>

\* gate-resolve makes the task pending whatever it has become meanwhile, also
\* when the gate was resolved before; a second open gate blocks it again.
GateResolve(i) ==
  /\ gates[i].status # "removed"
  /\ gates' = Marked(gates, i, "resolved")
  /\ LET t == gates[i].task IN
       /\ Refresh([task EXCEPT ![t] = "pending"], gates')
       /\ Careful(t, ~HasBusy(t))
  /\ UNCHANGED <<dispatches, remote, starting, mailVars, agentVars, left>>

-----------------------------------------------------------------------------
\* Messages

Post(from, to, kind, reply) ==
  /\ Spend(IF kind = "worker_done" THEN "report" ELSE "message")
  /\ messages' = Append(messages,
                        [from |-> from, to |-> to, kind |-> kind, reply |-> reply])
  /\ stored' = stored \cup {Len(messages) + 1}
  /\ UNCHANGED <<delivery, deliveries, acked>>

\* send of any type but worker_done.
Send(h, to) ==
  /\ Post(h, to, "message", 0)
  /\ UNCHANGED <<boardVars, agentVars>>

TaskOutcome(outcome) == IF outcome = "succeeded" THEN "completed" ELSE "failed"

\* send --type worker_done with a dispatch: it must be there and be of the
\* task that is named; both take the outcome, whatever they were.
ReportDispatch(h, i, outcome) ==
  /\ dispatches[i].status # "removed" /\ task[dispatches[i].task] # "none"
  /\ Post(h, All, "worker_done", 0)
  /\ dispatches' = Marked(dispatches, i, outcome)
  /\ Board([task EXCEPT ![dispatches[i].task] = TaskOutcome(outcome)])
  /\ UNCHANGED <<remote, starting, gates, putBack, careful, agentVars>>

\* The same with a task alone.
ReportTask(h, t, outcome) ==
  /\ task[t] # "none"
  /\ Post(h, All, "worker_done", 0)
  /\ Board([task EXCEPT ![t] = TaskOutcome(outcome)])
  /\ UNCHANGED <<dispatches, remote, starting, gates, putBack, careful, agentVars>>

\* sync_federated_dispatch stores a worker_done of another server's worker: like
\* the two, but what it does not find it passes over, and it refreshes the
\* tasks.  (How it gets here, and that it is stored once, is Federation's.)
RelayedReport(i, outcome) ==
  LET d == dispatches[i]
      there == d.status # "removed"
  IN
  /\ i \in remote
  /\ Post(Server, All, "worker_done", 0)
  /\ dispatches' = IF there THEN Marked(dispatches, i, outcome) ELSE dispatches
  /\ Refresh(IF there THEN [task EXCEPT ![d.task] = TaskOutcome(outcome)] ELSE task, gates)
  /\ UNCHANGED <<remote, starting, gates, careful, agentVars>>

\* A reply to any message that is still there goes to its sender.
Reply(h, m) ==
  /\ m \in stored
  /\ Post(h, messages[m].from, "reply", m)
  /\ UNCHANGED <<boardVars, agentVars>>

\* ask stores its question.  Then it waits, and prints any reply to it there is:
\* that changes nothing.  So does ask --resume, whose id is not looked at: it may
\* be of anybody's message, and the reply be for anybody.
Ask(h) ==
  /\ Post(h, All, "question", 0)
  /\ UNCHANGED <<boardVars, agentVars>>

-----------------------------------------------------------------------------
\* check

Addressed(h) == {m \in DOMAIN messages : messages[m].to \in {h, All}}
Unread(h) == (Addressed(h) \cap stored) \ acked[h]

\* Slip: whoever acknowledges has read everything there is.
AckEverything(c) ==
  LET h == Owner[c] IN
  /\ Reading /\ pc[c] = "idle" /\ known[h] # 0
  /\ IF delivery[h].number = known[h]
     THEN /\ acked' = [acked EXCEPT ![h] = @ \cup Unread(h)]
          /\ delivery' = [delivery EXCEPT ![h] = NoDelivery]
          /\ pc' = [pc EXCEPT ![c] = "collect"]
          /\ UNCHANGED known
     ELSE /\ known' = [known EXCEPT ![h] = 0]
          /\ UNCHANGED <<acked, delivery, pc>>
  /\ UNCHANGED <<boardVars, messages, stored, deliveries, answer, given, left>>

\* check --ack: the delivery must be there; then what was in it is
\* acknowledged, in a transaction of its own.  A refusal ends the command, and
\* the agent asks without --ack next time.
Ack(c) ==
  LET h == Owner[c] IN
  /\ Reading /\ pc[c] = "idle" /\ known[h] # 0
  /\ IF delivery[h].number = known[h]
     THEN /\ acked' = [acked EXCEPT ![h] = @ \cup delivery[h].ids]
          /\ delivery' = [delivery EXCEPT ![h] = NoDelivery]
          /\ pc' = [pc EXCEPT ![c] = "collect"]
          /\ UNCHANGED known
     ELSE /\ known' = [known EXCEPT ![h] = 0]
          /\ UNCHANGED <<acked, delivery, pc>>
  /\ UNCHANGED <<boardVars, messages, stored, deliveries, answer, given, left>>

CheckPlain(c) ==
  /\ Reading /\ pc[c] = "idle" /\ known[Owner[c]] = 0
  /\ pc' = [pc EXCEPT ![c] = "collect"]
  /\ UNCHANGED <<boardVars, mailVars, answer, known, given, left>>

\* Slip: takes what it hands out for read.
CollectForgetting(c, kinds) ==
  LET h == Owner[c]
      new == {m \in Unread(h) : messages[m].kind \in kinds}
  IN
  /\ pc[c] = "collect" /\ new # {}
  /\ answer' = [answer EXCEPT ![c] = [number |-> deliveries + 1, ids |-> new]]
  /\ deliveries' = deliveries + 1
  /\ acked' = [acked EXCEPT ![h] = @ \cup new]
  /\ pc' = [pc EXCEPT ![c] = "print"]
  /\ UNCHANGED <<boardVars, messages, stored, delivery, known, given, left>>

\* check_once: an unacknowledged delivery is handed out again; otherwise what
\* is unread becomes one.  --types may leave some kinds out.
Collect(c, kinds) ==
  LET h == Owner[c]
      new == {m \in Unread(h) : messages[m].kind \in kinds}
  IN
  /\ pc[c] = "collect"
  /\ IF delivery[h].number # 0
     THEN /\ answer' = [answer EXCEPT ![c] = delivery[h]]
          /\ UNCHANGED <<delivery, deliveries>>
     ELSE /\ new # {}
          /\ delivery' = [delivery EXCEPT ![h] = [number |-> deliveries + 1, ids |-> new]]
          /\ deliveries' = deliveries + 1
          /\ answer' = [answer EXCEPT ![c] = delivery'[h]]
  /\ pc' = [pc EXCEPT ![c] = "print"]
  /\ UNCHANGED <<boardVars, messages, stored, acked, known, given, left>>

\* Nothing for this recipient, without --wait or when the time is up.
CollectNothing(c, kinds) ==
  /\ pc[c] = "collect" /\ delivery[Owner[c]].number = 0
  /\ \A m \in Unread(Owner[c]) : messages[m].kind \notin kinds
  /\ pc' = [pc EXCEPT ![c] = "idle"]
  /\ known' = [known EXCEPT ![Owner[c]] = 0]
  /\ UNCHANGED <<boardVars, mailVars, answer, given, left>>

PrintAnswer(c) ==
  LET h == Owner[c] IN
  /\ pc[c] = "print"
  /\ given' = [given EXCEPT ![h] = @ \cup answer[c].ids]
  /\ known' = [known EXCEPT ![h] = answer[c].number]
  /\ pc' = [pc EXCEPT ![c] = "idle"]
  /\ answer' = [answer EXCEPT ![c] = NoDelivery]
  /\ UNCHANGED <<boardVars, mailVars, left>>

\* The command is killed after a transaction: nothing is printed.
Killed(c) ==
  /\ pc[c] # "idle" /\ Spend("kill")
  /\ pc' = [pc EXCEPT ![c] = "idle"]
  /\ answer' = [answer EXCEPT ![c] = NoDelivery]
  /\ UNCHANGED <<boardVars, mailVars, known, given>>

\* check --peek prints what is unread and changes nothing.  (So does --all, with
\* what was acknowledged, and thus printed, before.  inbox prints anybody's mail:
\* it is no check, changes nothing at all and is no action here.)
Peek(h) ==
  /\ Reading /\ Unread(h) # {}
  /\ given' = [given EXCEPT ![h] = @ \cup Unread(h)]
  /\ UNCHANGED <<boardVars, mailVars, pc, answer, known, left>>

-----------------------------------------------------------------------------
\* reset

Removed(s) == [i \in DOMAIN s |-> [task |-> s[i].task, status |-> "removed"]]

ResetTasks ==
  /\ Spend("reset")
  /\ task' = [t \in Tasks |-> "none"]
  /\ dispatches' = Removed(dispatches) /\ gates' = Removed(gates)
  /\ starting' = {}   \* their answers will find neither dispatch nor task
  /\ wasDone' = {} /\ putBack' = {}
  /\ UNCHANGED <<remote, careful, mailVars, agentVars>>

ResetMessages ==
  /\ Spend("reset")
  /\ stored' = {}
  /\ delivery' = [h \in Handles |-> NoDelivery]
  /\ acked' = [h \in Handles |-> {}]
  /\ UNCHANGED <<boardVars, messages, deliveries, agentVars>>

-----------------------------------------------------------------------------

Kinds == {"message", "worker_done", "question", "reply"}

Coordinate ==
  \/ \E t \in Tasks :
       \/ TaskCreate(t) \/ Dispatch(t) \/ WorkerStart(t) \/ GateCreate(t)
       \/ \E status \in Settable : TaskUpdate(t, status)
  \/ \E i \in DOMAIN dispatches, status \in {"stopped", "abandoned"} : Withdraw(i, status)
  \/ \E i \in DOMAIN gates : GateResolve(i)
  \/ ResetTasks \/ ResetMessages

Hear ==
  \E i \in DOMAIN dispatches :
    \/ StartSucceeds(i) \/ StartFails(i) \/ StartUnknown(i)
    \/ \E outcome \in Outcomes : RelayedReport(i, outcome)

Report(h) ==
  \E outcome \in Outcomes :
    \/ \E i \in DOMAIN dispatches : ReportDispatch(h, i, outcome)
    \/ \E t \in Tasks : ReportTask(h, t, outcome)

Correspond(h) ==
  \/ \E to \in Handles \cup {All} : Send(h, to)
  \/ \E m \in DOMAIN messages : Reply(h, m)
  \/ Ask(h) \/ Peek(h)

Begin(c) == Ack(c) \/ CheckPlain(c)
CollectAll(c) == Collect(c, Kinds) \/ CollectNothing(c, Kinds)
CollectSome(c) == \E kind \in Kinds : Collect(c, {kind}) \/ CollectNothing(c, {kind})

Next ==
  \/ Coordinate \/ Hear
  \/ \E h \in Handles : Report(h) \/ Correspond(h)
  \/ \E c \in Commands :
       Begin(c) \/ CollectAll(c) \/ CollectSome(c) \/ PrintAnswer(c) \/ Killed(c)

Spec == Init /\ [][Next]_vars

\* Each agent checks its mail again and again, acknowledges what it has read,
\* and not every one of its checks is made with --types.
FairSpec ==
  Spec /\ \A c \in Commands :
            WF_vars(Begin(c)) /\ SF_vars(CollectAll(c)) /\ WF_vars(PrintAnswer(c))

-----------------------------------------------------------------------------

\* A task with an open question is not offered, whatever order its gates, reports
\* and updates come in (gate_create, refresh_ready_tasks).  The one command that
\* leaves it "ready" is a worker-start --on that fails, and only until a refresh.
OpenQuestionHoldsTask ==
  \A t \in Tasks \ putBack : Questioned(t, gates) => task[t] \notin {"pending", "ready"}

\* A task is offered only after each of its dependencies was completed, whatever
\* failed, was reopened or was asked about in between (refresh_ready_tasks), with
\* the same exception.
DependenciesCameFirst ==
  \A t \in Tasks \ putBack : task[t] = "ready" => Deps[t] \subseteq wasDone

\* While the coordinator is careful no task has two live dispatches, although
\* neither dispatch nor worker-start looks, and although the answer to a start
\* overwrites what was reported or withdrawn before it came.
OneLiveDispatch ==
  careful => \A i, j \in DOMAIN dispatches :
    Live(dispatches[i]) /\ Live(dispatches[j]) /\ dispatches[i].task = dispatches[j].task
      => i = j

\* Only what a check has printed is acknowledged for its handle: neither a killed check,
\* nor another check of the same handle, nor a reset makes mail disappear unread.
AckedWasGiven ==
  \A h \in Handles : acked[h] \subseteq given[h] \cap Addressed(h)

\* The agents' mailboxes, without deliveries and commands.
Mail == INSTANCE Mailboxes WITH
  count <- Len(messages),
  sent <- [h \in Handles |-> Addressed(h)],
  box <- [h \in Handles |-> Addressed(h) \cap stored],
  shown <- given,
  read <- acked

\* The checks for a handle print only what is addressed to it, however many run
\* at once, and nothing is acknowledged for it that none of them has printed: a
\* killed check costs a repetition, and only a reset takes mail away.  (What ask
\* --resume and inbox print may be anybody's; it is read by nobody on that score.)
MailIsKept == Mail!Spec

\* A check prints each message for its handle in the end, however many are killed
\* before they print, unless the mailboxes are reset.
MailIsGiven ==
  \A h \in {Owner[c] : c \in Commands} :
    \A m \in UNION {1..(b["report"] + b["message"]) : b \in Budgets} :
      Reading /\ m \in stored /\ m \in Addressed(h) ~> m \in given[h] \/ m \notin stored
=============================================================================
