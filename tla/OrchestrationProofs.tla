------------------------ MODULE OrchestrationProofs ------------------------
(***************************************************************************)
(* Safety of Orchestration for any tasks, agents, commands and budgets.    *)
(***************************************************************************)
EXTENDS Orchestration, SequenceTheorems, TLAPS

\* What the document says about tasks.
BoardType ==
  /\ task \in [Tasks -> Statuses \cup {"none"}]
  /\ dispatches \in Seq([task : Tasks, status : DispatchStatuses])
  /\ gates \in Seq([task : Tasks, status : {"pending", "resolved", "removed"}])
  /\ starting \subseteq DOMAIN dispatches
  /\ careful \in BOOLEAN

InWork == {"dispatching", "dispatched", "completed", "failed"}

\* A careful coordinator's dispatch that is live, or can become so by the answer
\* to its start, is of a task in work or done, and it is the only one: without
\* the first part, and without the starts, the second is not inductive.
DispatchInv ==
  careful =>
    /\ \A i, j \in DOMAIN dispatches :
         Busy(i) /\ Busy(j) /\ dispatches[i].task = dispatches[j].task => i = j
    /\ \A i \in DOMAIN dispatches : Busy(i) => task[dispatches[i].task] \in InWork

BoardInv == BoardType /\ OpenQuestionHoldsTask /\ DependenciesCameFirst /\ DispatchInv

\* Whoever mail is from or for.
Addresses == Handles \cup {All, Server}

\* What the document and the agents know of the mail.
MailType ==
  /\ messages \in Seq([from : Addresses, to : Addresses, kind : Kinds, reply : Nat])
  /\ stored \subseteq Nat
  /\ delivery \in [Handles -> [number : Nat, ids : SUBSET Nat]]
  /\ deliveries \in Nat
  /\ acked \in [Handles -> SUBSET Nat] /\ given \in [Handles -> SUBSET Nat]
  /\ known \in [Handles -> Nat]
  /\ answer \in [Commands -> [number : Nat, ids : SUBSET Nat]]

\* A delivery's number stands for its contents wherever it is kept: with an
\* agent that has seen them, or with a check about to print them.
DeliveryInv ==
  \A h \in Handles :
    /\ delivery[h].ids \subseteq Addressed(h)
    /\ delivery[h].number <= deliveries /\ known[h] <= deliveries
    /\ known[h] # 0 /\ known[h] = delivery[h].number => delivery[h].ids \subseteq given[h]

AnswerInv ==
  \A c \in Commands :
    /\ answer[c].number <= deliveries
    /\ answer[c].number # 0 /\ answer[c].number = delivery[Owner[c]].number
         => answer[c].ids = delivery[Owner[c]].ids

MailInv == MailType /\ DeliveryInv /\ AnswerInv /\ AckedWasGiven

-----------------------------------------------------------------------------
(* The board                                                               *)

\* refresh_ready_tasks keeps finished work finished, offers only what has no
\* open question and whose dependencies are complete, and touches nothing that
\* is not waiting.
LEMMA RefreshedEffect ==
  ASSUME NEW s \in [Tasks -> Statuses \cup {"none"}], NEW gs
  PROVE  /\ Refreshed(s, gs) \in [Tasks -> Statuses \cup {"none"}]
         /\ \A t \in Tasks :
              /\ s[t] = "completed" <=> Refreshed(s, gs)[t] = "completed"
              /\ s[t] \notin {"pending", "ready"} => Refreshed(s, gs)[t] = s[t]
              /\ Questioned(t, gs) => Refreshed(s, gs)[t] \notin {"pending", "ready"}
              /\ Refreshed(s, gs)[t] = "ready" => \A d \in Deps[t] : s[d] = "completed"
BY OrchestrationAssumption DEF Refreshed, Statuses, Settable

\* Marking a dispatch or a gate keeps it one.
LEMMA MarkedType ==
  ASSUME NEW S, NEW s \in Seq([task : Tasks, status : S]), NEW i \in DOMAIN s, NEW status \in S
  PROVE  Marked(s, i, status) \in Seq([task : Tasks, status : S])
<1> DEFINE R == [task : Tasks, status : S]
           e == [task |-> s[i].task, status |-> status]
<1>1. DOMAIN s = 1..Len(s) /\ s[i] \in R
  BY ElementOfSeq, LenProperties
<1>2. e \in R
  BY <1>1
<1>3. [s EXCEPT ![i] = e] \in Seq(R)
  <2>1. s \in Seq(R)
    OBVIOUS
  <2> HIDE DEF R, e
  <2> QED BY <1>1, <1>2, <2>1, ExceptSeq
<1> QED BY <1>3 DEF Marked

\* It changes one status and nothing else.
LEMMA MarkedEffect ==
  ASSUME NEW S, NEW s \in Seq(S), NEW i \in DOMAIN s, NEW status
  PROVE  /\ DOMAIN Marked(s, i, status) = DOMAIN s
         /\ Marked(s, i, status)[i] = [task |-> s[i].task, status |-> status]
         /\ \A j \in DOMAIN s : j # i => Marked(s, i, status)[j] = s[j]
BY DEF Marked

\* Dispatches are of tasks.
LEMMA DispatchOfTask ==
  ASSUME BoardType, NEW i \in DOMAIN dispatches
  PROVE  dispatches[i].task \in Tasks
<1> DEFINE R == [task : Tasks, status : DispatchStatuses]
<1>1. dispatches[i] \in R
  <2> HIDE DEF R
  <2>1. dispatches \in Seq(R)
    BY DEF BoardType, R
  <2> QED BY <2>1, ElementOfSeq, LenProperties
<1> QED BY <1>1

\* A step that starts no dispatch, and under which the task of one that stays
\* live is still in work or done, keeps live dispatches single.
LEMMA DispatchesKept ==
  ASSUME DispatchInv, careful' => careful,
         DOMAIN dispatches' = DOMAIN dispatches,
         careful' => \A i \in DOMAIN dispatches :
           /\ dispatches'[i].task = dispatches[i].task
           /\ Busy(i)' => Busy(i) /\ task'[dispatches[i].task] \in InWork
  PROVE  DispatchInv'
<1> SUFFICES ASSUME careful' PROVE DispatchInv'
  BY DEF DispatchInv
<1>1. ASSUME NEW i \in DOMAIN dispatches', NEW j \in DOMAIN dispatches',
             Busy(i)', Busy(j)', dispatches'[i].task = dispatches'[j].task
      PROVE  i = j
  BY <1>1 DEF DispatchInv
<1>2. ASSUME NEW i \in DOMAIN dispatches', Busy(i)'
      PROVE  task'[dispatches'[i].task] \in InWork
  BY <1>2
<1> QED BY <1>1, <1>2 DEF DispatchInv

\* Whatever is put on the board by way of refresh_ready_tasks respects open
\* questions and dependencies.
LEMMA RefreshedBoard ==
  ASSUME NEW s \in [Tasks -> Statuses \cup {"none"}], NEW gs,
         Refresh(s, gs), gates' = gs
  PROVE  OpenQuestionHoldsTask' /\ DependenciesCameFirst'
<1> DEFINE r == Refreshed(s, gs)
<1>1. /\ task' = r
      /\ wasDone' = wasDone \cup {t \in Tasks : r[t] = "completed"}
  BY DEF Refresh, Board
<1>2. \A t \in Tasks : Questioned(t, gates)' <=> Questioned(t, gs)
  BY DEF Questioned, Open
<1>3. \A t \in Tasks : r[t] = "ready" => \A d \in Deps[t] : r[d] = "completed"
  BY RefreshedEffect, OrchestrationAssumption
<1>4. OpenQuestionHoldsTask'
  BY <1>1, <1>2, RefreshedEffect DEF OpenQuestionHoldsTask
<1>5. DependenciesCameFirst'
  BY <1>1, <1>3, OrchestrationAssumption DEF DependenciesCameFirst
<1> QED BY <1>4, <1>5

\* A step that only moves tasks out of reach of dispatchers keeps both.
LEMMA MovedBoard ==
  ASSUME BoardType, OpenQuestionHoldsTask, DependenciesCameFirst,
         NEW t \in Tasks, NEW status \in InWork \cup {"blocked"},
         Board([task EXCEPT ![t] = status]), UNCHANGED putBack,
         \A u \in Tasks : u # t /\ Questioned(u, gates)' => Questioned(u, gates)
  PROVE  OpenQuestionHoldsTask' /\ DependenciesCameFirst'
<1>1. /\ task' = [task EXCEPT ![t] = status]
      /\ wasDone \subseteq wasDone'
  BY DEF Board
<1>2. /\ task'[t] = status
      /\ \A u \in Tasks : u # t => task'[u] = task[u]
  BY <1>1 DEF BoardType
<1>3. OpenQuestionHoldsTask'
  BY <1>2 DEF OpenQuestionHoldsTask, InWork
<1>4. DependenciesCameFirst'
  BY <1>1, <1>2 DEF DependenciesCameFirst, InWork
<1> QED BY <1>3, <1>4

\* So does one that leaves the dispatches alone, and does nothing to a task that
\* somebody works on.
LEMMA OthersLeftAlone ==
  ASSUME BoardType, DispatchInv, UNCHANGED <<dispatches, starting>>, NEW t \in Tasks,
         careful' => careful /\ ~HasBusy(t),
         \A u \in Tasks : u # t /\ task[u] \in InWork => task'[u] \in InWork
  PROVE  DispatchInv'
<1> SUFFICES ASSUME careful' PROVE DispatchInv'
  BY DEF DispatchInv
<1>1. \A i \in DOMAIN dispatches : Busy(i) =>
        dispatches[i].task # t /\ task[dispatches[i].task] \in InWork
  BY DEF DispatchInv, HasBusy
<1>2. \A i \in DOMAIN dispatches : Busy(i) => task'[dispatches[i].task] \in InWork
  BY <1>1, DispatchOfTask
<1>3. \A i : Busy(i)' <=> Busy(i)
  BY DEF Busy, Live
<1> QED BY <1>2, <1>3, DispatchesKept

\* A careful coordinator's new dispatch is of a task nobody works on.
LEMMA DispatchAdded ==
  ASSUME BoardType, DispatchInv, NEW t \in Tasks, NEW status \in LiveStatuses,
         NEW next \in InWork,
         dispatches' = Append(dispatches, [task |-> t, status |-> status]),
         starting' = starting \/ starting' = starting \cup {Len(dispatches) + 1},
         task' = [task EXCEPT ![t] = next],
         careful' = (careful /\ task[t] = "ready")
  PROVE  /\ dispatches' \in Seq([task : Tasks, status : DispatchStatuses])
         /\ starting' \subseteq DOMAIN dispatches'
         /\ DispatchInv'
<1> DEFINE n == Len(dispatches) + 1
           d == [task |-> t, status |-> status]
           R == [task : Tasks, status : DispatchStatuses]
<1>1. d \in R /\ d.task = t
  BY DEF DispatchStatuses
<1>2. dispatches \in Seq(R)
  BY DEF BoardType
<1> HIDE DEF d, R
<1>3. /\ DOMAIN dispatches = 1..Len(dispatches) /\ Len(dispatches) \in Nat
      /\ dispatches' \in Seq(R) /\ DOMAIN dispatches' = 1..n
      /\ dispatches'[n] = d
      /\ \A i \in DOMAIN dispatches : dispatches'[i] = dispatches[i]
  BY <1>1, <1>2 DEF d
<1>4. DOMAIN dispatches' = DOMAIN dispatches \cup {n} /\ n \notin DOMAIN dispatches
  BY <1>3
<1> HIDE DEF n
<1>5. starting' \subseteq DOMAIN dispatches'
  BY <1>4 DEF BoardType, n
<1>6. DispatchInv'
  <2> SUFFICES ASSUME careful' PROVE DispatchInv'
    BY DEF DispatchInv
  <2>1. \A i \in DOMAIN dispatches : Busy(i)' <=> Busy(i)
    BY <1>3, <1>4 DEF Busy, n
  <2>2. \A i \in DOMAIN dispatches : Busy(i) =>
          /\ dispatches[i].task # t
          /\ task'[dispatches[i].task] \in InWork
    BY DispatchOfTask DEF DispatchInv, BoardType, InWork
  <2>3. task'[t] \in InWork
    BY DEF BoardType
  <2>4. ASSUME NEW i \in DOMAIN dispatches', NEW j \in DOMAIN dispatches',
               Busy(i)', Busy(j)', dispatches'[i].task = dispatches'[j].task
        PROVE  i = j
    BY <1>1, <1>3, <1>4, <2>1, <2>2, <2>4 DEF DispatchInv
  <2>5. ASSUME NEW i \in DOMAIN dispatches', Busy(i)'
        PROVE  task'[dispatches'[i].task] \in InWork
    BY <1>1, <1>3, <1>4, <2>1, <2>2, <2>3, <2>5
  <2> QED BY <2>4, <2>5 DEF DispatchInv
<1> QED BY <1>3, <1>5, <1>6 DEF R

\* Where one dispatch is marked, it does not come back to life unless its start
\* was still unanswered; and its task stays in work, unless it was the one
\* dispatch of it that was at work and no longer is.
LEMMA DispatchMarked ==
  ASSUME BoardType, DispatchInv, NEW i \in DOMAIN dispatches, NEW status \in DispatchStatuses,
         dispatches' = Marked(dispatches, i, status),
         starting' \subseteq starting, careful' = careful,
         status \in LiveStatuses => Busy(i),
         \A u \in Tasks : task[u] \in InWork =>
           task'[u] \in InWork \/ (u = dispatches[i].task /\ Busy(i) /\ ~Busy(i)')
  PROVE  /\ dispatches' \in Seq([task : Tasks, status : DispatchStatuses])
         /\ starting' \subseteq DOMAIN dispatches'
         /\ DispatchInv'
<1>1. dispatches \in Seq([task : Tasks, status : DispatchStatuses])
  BY DEF BoardType
<1>2. /\ dispatches' \in Seq([task : Tasks, status : DispatchStatuses])
      /\ DOMAIN dispatches' = DOMAIN dispatches
      /\ dispatches'[i] = [task |-> dispatches[i].task, status |-> status]
      /\ \A j \in DOMAIN dispatches : j # i => dispatches'[j] = dispatches[j]
  BY <1>1, MarkedType, MarkedEffect
<1>3. starting' \subseteq DOMAIN dispatches'
  BY <1>2 DEF BoardType
<1>4. /\ Live(dispatches'[i]) <=> status \in LiveStatuses
      /\ dispatches'[i].task = dispatches[i].task
  BY <1>2 DEF Live
<1>5. \A j \in DOMAIN dispatches : dispatches'[j].task = dispatches[j].task
  BY <1>2, <1>4
<1>6. \A j \in DOMAIN dispatches : Busy(j)' => Busy(j)
  <2>1. ASSUME NEW j \in DOMAIN dispatches, Busy(j)' PROVE Busy(j)
    <3>1. CASE j = i
      BY <1>4, <2>1, <3>1 DEF Busy
    <3>2. CASE j # i
      BY <1>2, <2>1, <3>2 DEF Busy
    <3> QED BY <3>1, <3>2
  <2> QED BY <2>1
<1>7. DispatchInv'
  <2> SUFFICES ASSUME careful PROVE DispatchInv'
    BY DEF DispatchInv
  <2>1. ASSUME NEW j \in DOMAIN dispatches, Busy(j)'
        PROVE  task'[dispatches[j].task] \in InWork
    <3>1. Busy(j) /\ task[dispatches[j].task] \in InWork /\ dispatches[j].task \in Tasks
      BY <1>6, <2>1, DispatchOfTask DEF DispatchInv
    <3>2. CASE j = i
      BY <2>1, <3>1, <3>2
    <3>3. CASE j # i
      <4>1. ~(dispatches[j].task = dispatches[i].task /\ Busy(i))
        BY <3>1, <3>3 DEF DispatchInv
      <4> QED BY <3>1, <4>1
    <3> QED BY <3>2, <3>3
  <2> QED BY <1>2, <1>5, <1>6, <2>1, DispatchesKept
<1> QED BY <1>2, <1>3, <1>7

\* refresh_ready_tasks puts a board, and leaves alone what is not waiting.
LEMMA RefreshEffect ==
  ASSUME NEW s \in [Tasks -> Statuses \cup {"none"}], NEW gs, Refresh(s, gs)
  PROVE  /\ task' \in [Tasks -> Statuses \cup {"none"}]
         /\ \A u \in Tasks : s[u] \in InWork => task'[u] = s[u]
BY RefreshedEffect DEF Refresh, Board, InWork

\* It holds of an empty document.
LEMMA BoardInit == Init => BoardInv
BY DEF Init, BoardInv, BoardType, OpenQuestionHoldsTask, DependenciesCameFirst, DispatchInv,
       Statuses, Settable, DispatchStatuses, LiveStatuses, Outcomes, Questioned

\* The answer to a start takes the task back to work, or puts it back with no
\* look at its questions and dependencies, which is then known of it.
LEMMA AnswerKeepsBoard ==
  ASSUME BoardInv, NEW i \in DOMAIN dispatches,
         StartSucceeds(i) \/ StartFails(i) \/ StartUnknown(i)
  PROVE  BoardInv'
<1> DEFINE t == dispatches[i].task
<1> USE DEF BoardInv
<1>1. t \in Tasks
  BY DispatchOfTask
<1>2. PICK status \in {"active", "failed", "outcome_unknown"}, next \in {"dispatched", "ready"} :
        /\ StartAnswered(i, status, next)
        /\ status = "failed" <=> next = "ready"
        /\ putBack' = IF next = "ready" THEN putBack \cup {t} ELSE putBack
  BY DEF StartSucceeds, StartFails, StartUnknown
<1>3. /\ i \in starting /\ starting' = starting \ {i}
      /\ dispatches' = Marked(dispatches, i, status)
      /\ task' = [task EXCEPT ![t] = next] /\ wasDone \subseteq wasDone'
      /\ UNCHANGED <<gates, careful>>
  BY <1>2 DEF StartAnswered, Board
<1>4. task'[t] = next /\ \A u \in Tasks : u # t => task'[u] = task[u]
  BY <1>1, <1>3 DEF BoardType
<1>5. Busy(i)
  BY <1>3 DEF Busy
<1>6. status \in DispatchStatuses
  BY DEF DispatchStatuses, LiveStatuses, Outcomes
<1>7. next = "ready" => ~Busy(i)'
  <2>1. dispatches'[i] = [task |-> t, status |-> status]
    BY <1>3, MarkedEffect DEF BoardType
  <2>2. next = "ready" => ~Live(dispatches'[i])
    BY <1>2, <2>1 DEF Live, LiveStatuses
  <2> QED BY <1>3, <2>2 DEF Busy
<1>8. \A u \in Tasks : task[u] \in InWork =>
        task'[u] \in InWork \/ (u = t /\ Busy(i) /\ ~Busy(i)')
  BY <1>4, <1>5, <1>7 DEF InWork
<1>9. /\ dispatches' \in Seq([task : Tasks, status : DispatchStatuses])
      /\ starting' \subseteq DOMAIN dispatches'
      /\ DispatchInv'
  <2>1. starting' \subseteq starting /\ careful' = careful
    BY <1>3
  <2> QED BY <1>3, <1>5, <1>6, <1>8, <2>1, DispatchMarked
<1>10. BoardType'
  <2>1. next \in Statuses
    BY DEF Statuses, Settable
  <2>2. task' \in [Tasks -> Statuses \cup {"none"}]
    BY <1>3, <2>1 DEF BoardType
  <2> QED BY <1>3, <1>9, <2>2 DEF BoardType
<1>11. \A u \in Tasks : Questioned(u, gates)' <=> Questioned(u, gates)
  BY <1>3 DEF Questioned, Open
<1>12. \A u \in Tasks \ putBack' : u \in Tasks \ putBack /\ (task'[u] = task[u] \/ task'[u] = "dispatched")
  BY <1>2, <1>4
<1>13. OpenQuestionHoldsTask'
  BY <1>11, <1>12 DEF OpenQuestionHoldsTask
<1>14. DependenciesCameFirst'
  BY <1>3, <1>12 DEF DependenciesCameFirst
<1> QED BY <1>9, <1>10, <1>13, <1>14

\* A relayed outcome is the dispatch's and its task's, if they are still there,
\* and the others are refreshed.
LEMMA RelayedReportKeepsBoard ==
  ASSUME BoardInv, NEW i \in DOMAIN dispatches, NEW outcome \in Outcomes,
         RelayedReport(i, outcome)
  PROVE  BoardInv'
<1> DEFINE t == dispatches[i].task
           there == dispatches[i].status # "removed"
           s == IF there THEN [task EXCEPT ![t] = TaskOutcome(outcome)] ELSE task
<1> USE DEF BoardInv
<1>1. t \in Tasks /\ TaskOutcome(outcome) \in {"completed", "failed"}
  BY DispatchOfTask DEF TaskOutcome
<1>2. /\ dispatches' = IF there THEN Marked(dispatches, i, outcome) ELSE dispatches
      /\ Refresh(s, gates)
      /\ UNCHANGED <<starting, gates, careful>>
  BY DEF RelayedReport
<1>3. /\ s \in [Tasks -> Statuses \cup {"none"}]
      /\ \A u \in Tasks : task[u] \in InWork => s[u] \in InWork
  BY <1>1 DEF BoardType, Statuses, Settable, InWork
<1> HIDE DEF s
<1>4. /\ task' \in [Tasks -> Statuses \cup {"none"}]
      /\ \A u \in Tasks : task[u] \in InWork => task'[u] \in InWork
  BY <1>2, <1>3, RefreshEffect
<1>5. OpenQuestionHoldsTask' /\ DependenciesCameFirst'
  BY <1>2, <1>3, RefreshedBoard
<1>6. /\ dispatches' \in Seq([task : Tasks, status : DispatchStatuses])
      /\ starting' \subseteq DOMAIN dispatches'
      /\ DispatchInv'
  <2>1. CASE there
    <3>1. outcome \in DispatchStatuses /\ outcome \notin LiveStatuses
      BY DEF DispatchStatuses, LiveStatuses, Outcomes
    <3> QED BY <1>2, <1>4, <2>1, <3>1, DispatchMarked
  <2>2. CASE ~there
    <3>1. UNCHANGED <<dispatches, starting>>
      BY <1>2, <2>2
    <3>2. \A k : Busy(k)' <=> Busy(k)
      BY <3>1 DEF Busy, Live
    <3>3. careful => \A k \in DOMAIN dispatches :
            Busy(k) => task'[dispatches[k].task] \in InWork
      BY <1>4, DispatchOfTask DEF DispatchInv
    <3>4. DispatchInv'
      BY <1>2, <3>1, <3>2, <3>3, DispatchesKept
    <3> QED BY <3>1, <3>4 DEF BoardType
  <2> QED BY <2>1, <2>2
<1>7. BoardType'
  BY <1>2, <1>4, <1>6 DEF BoardType
<1> QED BY <1>5, <1>6, <1>7

\* Each command keeps what the document says about tasks in order.
LEMMA BoardStep == BoardInv /\ [Next]_vars => BoardInv'
<1> SUFFICES ASSUME BoardInv, [Next]_vars PROVE BoardInv'
  OBVIOUS
<1> USE DEF BoardInv
<1>1. ASSUME NEW t \in Tasks, TaskCreate(t) PROVE BoardInv'
  <2> DEFINE s == [task EXCEPT ![t] = "pending"]
  <2>1. /\ task[t] = "none" /\ Refresh(s, gates)
        /\ UNCHANGED <<dispatches, starting, gates, careful>>
    BY <1>1 DEF TaskCreate
  <2>2. /\ s \in [Tasks -> Statuses \cup {"none"}]
        /\ \A u \in Tasks : u # t => s[u] = task[u]
    BY DEF BoardType, Statuses, Settable
  <2> HIDE DEF s
  <2>3. BoardType'
    BY <2>1, <2>2, RefreshEffect DEF BoardType
  <2>4. OpenQuestionHoldsTask' /\ DependenciesCameFirst'
    BY <2>1, <2>2, RefreshedBoard
  <2>5. \A u \in Tasks : u # t /\ task[u] \in InWork => task'[u] \in InWork
    BY <2>1, <2>2, RefreshEffect
  <2>6. careful => ~HasBusy(t)
    BY <2>1 DEF DispatchInv, HasBusy, InWork
  <2>7. DispatchInv'
    BY <2>1, <2>5, <2>6, OthersLeftAlone
  <2> QED BY <2>3, <2>4, <2>7
<1>2. ASSUME NEW t \in Tasks, NEW status \in Settable, TaskUpdate(t, status) PROVE BoardInv'
  <2> DEFINE s == [task EXCEPT ![t] = status]
  <2>1. /\ Refresh(s, gates) /\ careful' = (careful /\ ~HasBusy(t))
        /\ UNCHANGED <<dispatches, starting, gates>>
    BY <1>2 DEF TaskUpdate, Careful
  <2>2. /\ s \in [Tasks -> Statuses \cup {"none"}]
        /\ \A u \in Tasks : u # t => s[u] = task[u]
    BY DEF BoardType, Statuses
  <2> HIDE DEF s
  <2>3. BoardType'
    BY <2>1, <2>2, RefreshEffect DEF BoardType
  <2>4. OpenQuestionHoldsTask' /\ DependenciesCameFirst'
    BY <2>1, <2>2, RefreshedBoard
  <2>5. \A u \in Tasks : u # t /\ task[u] \in InWork => task'[u] \in InWork
    BY <2>1, <2>2, RefreshEffect
  <2>6. DispatchInv'
    BY <2>1, <2>5, OthersLeftAlone
  <2> QED BY <2>3, <2>4, <2>6
<1>3. ASSUME NEW t \in Tasks, Dispatch(t) \/ WorkerStart(t) PROVE BoardInv'
  <2>1. PICK status \in {"active", "starting"}, next \in {"dispatched", "dispatching"} :
          /\ dispatches' = Append(dispatches, [task |-> t, status |-> status])
          /\ starting' = starting \/ starting' = starting \cup {Len(dispatches) + 1}
          /\ Board([task EXCEPT ![t] = next])
          /\ careful' = (careful /\ task[t] = "ready")
          /\ UNCHANGED <<gates, putBack>>
    BY <1>3 DEF Dispatch, WorkerStart, Careful
  <2>2. status \in LiveStatuses /\ next \in InWork /\ next \in Statuses
    BY DEF LiveStatuses, InWork, Statuses, Settable
  <2>3. task' = [task EXCEPT ![t] = next]
    BY <2>1 DEF Board
  <2>4. /\ dispatches' \in Seq([task : Tasks, status : DispatchStatuses])
        /\ starting' \subseteq DOMAIN dispatches'
        /\ DispatchInv'
    BY <2>1, <2>2, <2>3, DispatchAdded
  <2>5. BoardType'
    BY <2>1, <2>2, <2>3, <2>4 DEF BoardType
  <2>6. OpenQuestionHoldsTask' /\ DependenciesCameFirst'
    BY <2>1, <2>2, MovedBoard DEF Questioned, Open
  <2> QED BY <2>4, <2>5, <2>6
<1>4. ASSUME NEW i \in DOMAIN dispatches, NEW status \in {"stopped", "abandoned"},
             Withdraw(i, status)
      PROVE  BoardInv'
  <2>1. /\ dispatches' = Marked(dispatches, i, status)
        /\ UNCHANGED <<task, starting, gates, wasDone, putBack, careful>>
    BY <1>4 DEF Withdraw
  <2>2. status \in DispatchStatuses /\ status \notin LiveStatuses
    BY DEF DispatchStatuses, LiveStatuses
  <2>3. /\ dispatches' \in Seq([task : Tasks, status : DispatchStatuses])
        /\ starting' \subseteq DOMAIN dispatches'
        /\ DispatchInv'
    BY <2>1, <2>2, DispatchMarked
  <2>4. OpenQuestionHoldsTask' /\ DependenciesCameFirst'
    BY <2>1 DEF OpenQuestionHoldsTask, DependenciesCameFirst, Questioned, Open
  <2>5. BoardType'
    BY <2>1, <2>3 DEF BoardType
  <2> QED BY <2>3, <2>4, <2>5
<1>5. ASSUME NEW t \in Tasks, GateCreate(t) PROVE BoardInv'
  <2>1. /\ gates' = Append(gates, [task |-> t, status |-> "pending"])
        /\ Board([task EXCEPT ![t] = "blocked"])
        /\ task' = [task EXCEPT ![t] = "blocked"]
        /\ careful' = (careful /\ ~HasBusy(t))
        /\ UNCHANGED <<dispatches, starting, putBack>>
    BY <1>5 DEF GateCreate, Board, Careful
  <2>2. BoardType'
    BY <2>1 DEF BoardType, Statuses, Settable
  <2>3. \A u \in Tasks : u # t /\ Questioned(u, gates)' => Questioned(u, gates)
    BY <2>1 DEF Questioned, Open, BoardType
  <2>4. OpenQuestionHoldsTask' /\ DependenciesCameFirst'
    BY <2>1, <2>3, MovedBoard
  <2>5. \A u \in Tasks : u # t => task'[u] = task[u]
    BY <2>1 DEF BoardType
  <2>6. DispatchInv'
    BY <2>1, <2>5, OthersLeftAlone
  <2> QED BY <2>2, <2>4, <2>6
<1>6. ASSUME NEW i \in DOMAIN gates, GateResolve(i) PROVE BoardInv'
  <2> DEFINE t == gates[i].task
             s == [task EXCEPT ![t] = "pending"]
  <2>1. /\ gates' = Marked(gates, i, "resolved")
        /\ Refresh(s, gates')
        /\ careful' = (careful /\ ~HasBusy(t))
        /\ UNCHANGED <<dispatches, starting>>
    BY <1>6 DEF GateResolve, Careful
  <2>2. /\ s \in [Tasks -> Statuses \cup {"none"}]
        /\ \A u \in Tasks : u # t => s[u] = task[u]
    BY DEF BoardType, Statuses, Settable
  <2>3. t \in Tasks
    <3> DEFINE R == [task : Tasks, status : {"pending", "resolved", "removed"}]
    <3>1. gates \in Seq(R)
      BY DEF BoardType
    <3>2. gates[i] \in R
      <4> HIDE DEF R
      <4> QED BY <3>1, ElementOfSeq, LenProperties
    <3> QED BY <3>2
  <2> HIDE DEF s, t
  <2>4. BoardType'
    <3>1. gates' \in Seq([task : Tasks, status : {"pending", "resolved", "removed"}])
      BY <2>1, MarkedType DEF BoardType
    <3>2. task' \in [Tasks -> Statuses \cup {"none"}]
      BY <2>1, <2>2, RefreshEffect
    <3> QED BY <2>1, <3>1, <3>2 DEF BoardType
  <2>5. OpenQuestionHoldsTask' /\ DependenciesCameFirst'
    BY <2>1, <2>2, RefreshedBoard
  <2>6. \A u \in Tasks : u # t /\ task[u] \in InWork => task'[u] \in InWork
    BY <2>1, <2>2, RefreshEffect
  <2>7. DispatchInv'
    BY <2>1, <2>3, <2>6, OthersLeftAlone
  <2> QED BY <2>4, <2>5, <2>7
<1>7. CASE ResetTasks
  <2>1. /\ task' = [t \in Tasks |-> "none"]
        /\ dispatches' = Removed(dispatches) /\ gates' = Removed(gates)
        /\ starting' = {} /\ UNCHANGED careful
    BY <1>7 DEF ResetTasks
  <2>2. BoardType'
    <3>1. ASSUME NEW S, "removed" \in S, NEW q \in Seq([task : Tasks, status : S])
          PROVE  Removed(q) \in Seq([task : Tasks, status : S])
      <4> DEFINE R == [task : Tasks, status : S]
      <4>1. \A i \in 1..Len(q) : q[i] \in R
        <5>1. q \in Seq(R)
          OBVIOUS
        <5> HIDE DEF R
        <5> QED BY <5>1, ElementOfSeq
      <4>2. Len(q) \in Nat /\ DOMAIN q = 1..Len(q)
        BY LenProperties
      <4>3. Removed(q) \in [1..Len(q) -> R]
        BY <3>1, <4>1, <4>2 DEF Removed
      <4> HIDE DEF R
      <4>4. Removed(q) \in Seq(R)
        BY <4>2, <4>3, SeqDef
      <4> QED BY <4>4 DEF R
    <3>2. dispatches' \in Seq([task : Tasks, status : DispatchStatuses])
      BY <2>1, <3>1 DEF BoardType, DispatchStatuses
    <3>3. gates' \in Seq([task : Tasks, status : {"pending", "resolved", "removed"}])
      BY <2>1, <3>1 DEF BoardType
    <3> QED BY <2>1, <3>2, <3>3 DEF BoardType
  <2>3. \A i \in DOMAIN dispatches' : ~Busy(i)'
    <3>1. ASSUME NEW i \in DOMAIN dispatches' PROVE ~Live(dispatches'[i])
      BY <2>1, <3>1 DEF Removed, Live, LiveStatuses
    <3> QED BY <2>1, <3>1 DEF Busy
  <2>4. DispatchInv'
    BY <2>3 DEF DispatchInv
  <2>5. OpenQuestionHoldsTask' /\ DependenciesCameFirst'
    BY <2>1 DEF OpenQuestionHoldsTask, DependenciesCameFirst
  <2> QED BY <2>2, <2>4, <2>5
<1>8. ASSUME NEW h \in Handles, Report(h) PROVE BoardInv'
  <2>1. ASSUME NEW i \in DOMAIN dispatches, NEW outcome \in Outcomes,
               ReportDispatch(h, i, outcome)
        PROVE  BoardInv'
    <3> DEFINE t == dispatches[i].task
    <3>1. /\ dispatches' = Marked(dispatches, i, outcome)
          /\ Board([task EXCEPT ![t] = TaskOutcome(outcome)])
          /\ task' = [task EXCEPT ![t] = TaskOutcome(outcome)]
          /\ UNCHANGED <<starting, gates, putBack, careful>>
      BY <2>1 DEF ReportDispatch, Board
    <3>2. t \in Tasks /\ TaskOutcome(outcome) \in {"completed", "failed"}
      BY DispatchOfTask DEF TaskOutcome
    <3>3. outcome \in DispatchStatuses /\ outcome \notin LiveStatuses
      BY DEF DispatchStatuses, LiveStatuses, Outcomes
    <3>4. \A u \in Tasks : task[u] \in InWork => task'[u] \in InWork
      BY <3>1, <3>2 DEF BoardType, InWork
    <3>5. /\ dispatches' \in Seq([task : Tasks, status : DispatchStatuses])
          /\ starting' \subseteq DOMAIN dispatches'
          /\ DispatchInv'
      BY <3>1, <3>3, <3>4, DispatchMarked
    <3>6. OpenQuestionHoldsTask' /\ DependenciesCameFirst'
      BY <3>1, <3>2, MovedBoard DEF Questioned, Open, InWork
    <3>7. BoardType'
      BY <3>1, <3>2, <3>5 DEF BoardType, Statuses, Settable
    <3> QED BY <3>5, <3>6, <3>7
  <2>2. ASSUME NEW t \in Tasks, NEW outcome \in Outcomes, ReportTask(h, t, outcome)
        PROVE  BoardInv'
    <3>1. /\ Board([task EXCEPT ![t] = TaskOutcome(outcome)])
          /\ task' = [task EXCEPT ![t] = TaskOutcome(outcome)]
          /\ UNCHANGED <<dispatches, starting, gates, putBack, careful>>
      BY <2>2 DEF ReportTask, Board
    <3>2. TaskOutcome(outcome) \in {"completed", "failed"}
      BY DEF TaskOutcome
    <3>3. BoardType'
      BY <3>1, <3>2 DEF BoardType, Statuses, Settable
    <3>4. OpenQuestionHoldsTask' /\ DependenciesCameFirst'
      BY <3>1, <3>2, MovedBoard DEF Questioned, Open, InWork
    <3>5. DispatchInv'
      <4>1. \A u \in Tasks : task[u] \in InWork => task'[u] \in InWork
        BY <3>1, <3>2 DEF BoardType, InWork
      <4>2. \A k : Busy(k)' <=> Busy(k)
        BY <3>1 DEF Busy, Live
      <4>3. careful => \A k \in DOMAIN dispatches :
              Busy(k) => task'[dispatches[k].task] \in InWork
        BY <4>1, DispatchOfTask DEF DispatchInv
      <4> QED BY <3>1, <4>2, <4>3, DispatchesKept
    <3> QED BY <3>3, <3>4, <3>5
  <2> QED BY <1>8, <2>1, <2>2 DEF Report
<1>9. ASSUME UNCHANGED boardVars PROVE BoardInv'
  BY <1>9 DEF boardVars, BoardType, OpenQuestionHoldsTask, DependenciesCameFirst, DispatchInv,
              Questioned, Open, Busy, Live
<1>10. ASSUME NEW h \in Handles, Correspond(h) PROVE UNCHANGED boardVars
  BY <1>10 DEF Correspond, Send, Reply, Ask, Peek
<1>11. ASSUME NEW c \in Commands,
              Begin(c) \/ CollectAll(c) \/ CollectSome(c) \/ PrintAnswer(c) \/ Killed(c)
       PROVE  UNCHANGED boardVars
  BY <1>11 DEF Begin, Ack, CheckPlain, CollectAll, CollectSome, Collect, CollectNothing,
               PrintAnswer, Killed
<1>12. CASE ResetMessages
  BY <1>12, <1>9 DEF ResetMessages
<1>13. CASE UNCHANGED vars
  BY <1>13, <1>9 DEF vars
<1>14. CASE Hear
  BY <1>14, AnswerKeepsBoard, RelayedReportKeepsBoard DEF Hear
<1>15. CASE Coordinate
  BY <1>15, <1>1, <1>2, <1>3, <1>4, <1>5, <1>6, <1>7, <1>12 DEF Coordinate
<1> QED
  BY <1>8, <1>9, <1>10, <1>11, <1>13, <1>14, <1>15 DEF Next

\* The board's invariant holds throughout.
LEMMA BoardInvariant == Spec => []BoardInv
BY BoardInit, BoardStep, PTL DEF Spec

\* A task with an open question is not offered, but by a start that failed since
\* the last refresh.
THEOREM QuestionsHold == Spec => []OpenQuestionHoldsTask
<1>1. BoardInv => OpenQuestionHoldsTask
  BY DEF BoardInv
<1> QED BY <1>1, BoardInvariant, PTL

\* A task is offered only after its dependencies were completed, with that one
\* exception.
THEOREM DependenciesHold == Spec => []DependenciesCameFirst
<1>1. BoardInv => DependenciesCameFirst
  BY DEF BoardInv
<1> QED BY <1>1, BoardInvariant, PTL

\* A careful coordinator has one live dispatch per task.
THEOREM DispatchesAreSingle == Spec => []OneLiveDispatch
<1>1. BoardInv => OneLiveDispatch
  BY DEF BoardInv, DispatchInv, OneLiveDispatch, Busy
<1> QED BY <1>1, BoardInvariant, PTL

-----------------------------------------------------------------------------
(* The mail                                                                *)

\* An agent's mail only grows.
LEMMA AddressedGrows ==
  ASSUME NEW R, messages \in Seq(R), NEW m \in R, messages' = Append(messages, m)
  PROVE  \A h \in Handles : Addressed(h) \subseteq Addressed(h)'
<1>1. /\ Len(messages) \in Nat /\ DOMAIN messages = 1 .. Len(messages)
      /\ messages' \in Seq(R) /\ Len(messages') = Len(messages) + 1
      /\ \A i \in 1 .. Len(messages) : messages'[i] = messages[i]
  BY AppendProperties, LenProperties
<1>2. DOMAIN messages' = 1 .. Len(messages')
  BY <1>1, LenProperties
<1>3. 1 .. Len(messages) \subseteq 1 .. Len(messages) + 1
  BY <1>1
<1>4. \A i \in DOMAIN messages : i \in DOMAIN messages' /\ messages'[i] = messages[i]
  BY <1>1, <1>2, <1>3, Zenon
<1> QED BY <1>4, Zenon DEF Addressed

\* Sending: the document keeps everything but the messages.
LEMMA PostEffect ==
  ASSUME MailType, NEW from \in Addresses, NEW to \in Addresses, NEW kind \in Kinds,
         NEW reply \in Nat, Post(from, to, kind, reply)
  PROVE  /\ messages' \in Seq([from : Addresses, to : Addresses, kind : Kinds, reply : Nat])
         /\ stored' \subseteq Nat
         /\ \A h \in Handles : Addressed(h) \subseteq Addressed(h)'
         /\ UNCHANGED <<delivery, deliveries, acked>>
<1> DEFINE R == [from : Addresses, to : Addresses, kind : Kinds, reply : Nat]
           e == [from |-> from, to |-> to, kind |-> kind, reply |-> reply]
<1>1. /\ messages' = Append(messages, e) /\ stored' = stored \cup {Len(messages) + 1}
      /\ UNCHANGED <<delivery, deliveries, acked>>
  BY DEF Post
<1>2. messages \in Seq(R) /\ stored \subseteq Nat
  BY DEF MailType
<1>3. e \in R
  OBVIOUS
<1>4. messages' \in Seq(R) /\ stored' \subseteq Nat
  <2> HIDE DEF R, e
  <2>1. Append(messages, e) \in Seq(R) /\ Len(messages) \in Nat
    BY <1>2, <1>3, AppendProperties, LenProperties
  <2>2. messages' = Append(messages, e)
    BY <1>1
  <2>3. messages' \in Seq(R)
    BY <2>1, <2>2, Zenon
  <2>4. stored' \subseteq Nat
    <3> DEFINE n == Len(messages) + 1
    <3>1. n \in Nat
      BY <2>1
    <3>2. stored' = stored \cup {n} /\ stored \subseteq Nat
      BY <1>1, <1>2
    <3> HIDE DEF n
    <3> QED BY <3>1, <3>2
  <2> QED BY <2>3, <2>4
<1>5. \A h \in Handles : Addressed(h) \subseteq Addressed(h)'
  <2> HIDE DEF R, e
  <2> QED BY <1>1, <1>2, <1>3, AddressedGrows
<1> QED BY <1>1, <1>4, <1>5

\* A step that makes no delivery, takes none back and tells nobody of one
\* keeps what is known of the mail; agents may be shown more.
LEMMA MailKept ==
  ASSUME MailInv,
         messages' \in Seq([from : Addresses, to : Addresses, kind : Kinds, reply : Nat]),
         stored' \subseteq Nat,
         \A h \in Handles : Addressed(h) \subseteq Addressed(h)',
         UNCHANGED <<delivery, deliveries, acked, known>>,
         given' \in [Handles -> SUBSET Nat],
         \A h \in Handles : given[h] \subseteq given'[h],
         answer' \in [Commands -> [number : Nat, ids : SUBSET Nat]],
         \A c \in Commands : answer'[c] = answer[c] \/ answer'[c].number = 0
  PROVE  MailInv'
<1>1. MailType'
  BY DEF MailInv, MailType
<1>2. DeliveryInv'
  BY DEF MailInv, DeliveryInv
<1>3. AnswerInv'
  BY DEF MailInv, MailType, AnswerInv
<1>4. AckedWasGiven'
  BY DEF MailInv, AckedWasGiven
<1> QED BY <1>1, <1>2, <1>3, <1>4 DEF MailInv

\* No mail, no delivery, nothing shown.
LEMMA MailInit == Init => MailInv
<1> SUFFICES ASSUME Init PROVE MailInv
  OBVIOUS
<1>1. NoDelivery \in [number : Nat, ids : SUBSET Nat] /\ NoDelivery.number = 0 /\ NoDelivery.ids = {}
  BY DEF NoDelivery
<1> QED
  BY <1>1, OrchestrationAssumption
     DEF Init, MailInv, MailType, DeliveryInv, AnswerInv, AckedWasGiven

\* Numbers of messages are numbers.
LEMMA MessageNumbers ==
  ASSUME MailType, NEW h \in Handles
  PROVE  Addressed(h) \subseteq Nat /\ Unread(h) \subseteq Addressed(h)
BY DEF MailType, Addressed, Unread

\* What an agent does without a check does not disturb the deliveries.
LEMMA CorrespondStep ==
  ASSUME MailInv, NEW h \in Handles, Correspond(h) \/ Report(h)
  PROVE  MailInv'
<1> USE DEF MailInv
<1>0. /\ 0 \in Nat /\ {"message", "worker_done", "question", "reply"} \subseteq Kinds
      /\ Handles \cup {All} \subseteq Addresses
  BY DEF Kinds, Addresses
<1>1. ASSUME NEW to \in Handles \cup {All}, Send(h, to) PROVE MailInv'
  <2>1. Post(h, to, "message", 0) /\ UNCHANGED <<answer, known, given>>
    BY <1>1 DEF Send, agentVars
  <2> QED BY <2>1, <1>0, PostEffect, MailKept DEF MailType
<1>2. ASSUME NEW m \in DOMAIN messages, Reply(h, m) PROVE MailInv'
  <2>1. Post(h, messages[m].from, "reply", m) /\ UNCHANGED <<answer, known, given>>
    BY <1>2 DEF Reply, agentVars
  <2>2. messages[m].from \in Addresses /\ m \in Nat
    <3> DEFINE R == [from : Addresses, to : Addresses, kind : Kinds, reply : Nat]
    <3>1. messages \in Seq(R)
      BY DEF MailType
    <3>2. messages[m] \in R /\ m \in Nat
      <4> HIDE DEF R
      <4> QED BY <3>1, ElementOfSeq, LenProperties
    <3> QED BY <3>2
  <2> QED BY <2>1, <2>2, <1>0, PostEffect, MailKept DEF MailType
<1>3. CASE Ask(h)
  <2>1. Post(h, All, "question", 0) /\ UNCHANGED <<answer, known, given>>
    BY <1>3 DEF Ask, agentVars
  <2> QED BY <2>1, <1>0, PostEffect, MailKept DEF MailType
<1>4. CASE Report(h)
  <2>1. Post(h, All, "worker_done", 0) /\ UNCHANGED <<answer, known, given>>
    BY <1>4 DEF Report, ReportDispatch, ReportTask, agentVars
  <2> QED BY <2>1, <1>0, PostEffect, MailKept DEF MailType
<1>5. CASE Peek(h)
  <2>1. /\ UNCHANGED <<messages, stored, delivery, deliveries, acked, answer, known>>
        /\ given' = [given EXCEPT ![h] = @ \cup Unread(h)]
    BY <1>5 DEF Peek, mailVars
  <2>2. Unread(h) \subseteq Nat
    BY MessageNumbers
  <2>3. /\ given' \in [Handles -> SUBSET Nat]
        /\ \A g \in Handles : given[g] \subseteq given'[g]
    BY <2>1, <2>2 DEF MailType
  <2> QED BY <2>1, <2>3, MailKept DEF MailType, Addressed
<1> QED BY <1>1, <1>2, <1>3, <1>4, <1>5 DEF Correspond

\* check --ack acknowledges for its handle what was printed for it.
LEMMA AckStep ==
  ASSUME MailInv, NEW c \in Commands, Ack(c)
  PROVE  MailInv'
<1> USE DEF MailInv
<1> DEFINE h == Owner[c]
<1>1. h \in Handles
  BY OrchestrationAssumption
<1>2. UNCHANGED <<messages, stored, deliveries, answer, given>> /\ known[h] # 0
  BY DEF Ack
<1>3. CASE delivery[h].number = known[h]
  <2>1. /\ acked' = [acked EXCEPT ![h] = @ \cup delivery[h].ids]
        /\ delivery' = [delivery EXCEPT ![h] = NoDelivery]
        /\ UNCHANGED known
    BY <1>3 DEF Ack
  <2>2. NoDelivery \in [number : Nat, ids : SUBSET Nat] /\ NoDelivery.number = 0 /\ NoDelivery.ids = {}
    BY DEF NoDelivery
  <2>3. delivery[h].ids \subseteq given[h] \cap Addressed(h) /\ delivery[h].ids \subseteq Nat
    BY <1>1, <1>2, <1>3 DEF DeliveryInv, MailType
  <2>4. /\ delivery'[h] = NoDelivery
        /\ acked'[h] = acked[h] \cup delivery[h].ids
        /\ \A g \in Handles : g # h => delivery'[g] = delivery[g] /\ acked'[g] = acked[g]
    BY <2>1, <1>1 DEF MailType
  <2>5. MailType'
    BY <1>1, <1>2, <2>1, <2>2, <2>3 DEF MailType
  <2>6. DeliveryInv'
    BY <1>2, <2>1, <2>2, <2>4 DEF DeliveryInv, Addressed, MailType
  <2>7. AnswerInv'
    BY <1>2, <2>2, <2>4, OrchestrationAssumption DEF AnswerInv
  <2>8. AckedWasGiven'
    BY <1>2, <2>3, <2>4 DEF AckedWasGiven, Addressed
  <2> QED BY <2>5, <2>6, <2>7, <2>8
<1>4. CASE delivery[h].number # known[h]
  <2>1. known' = [known EXCEPT ![h] = 0] /\ UNCHANGED <<acked, delivery>>
    BY <1>4 DEF Ack
  <2>2. MailType'
    BY <1>2, <2>1 DEF MailType
  <2>3. \A g \in Handles : known'[g] \in {known[g], 0}
    BY <2>1 DEF MailType
  <2>4. DeliveryInv'
    BY <1>2, <2>1, <2>3 DEF DeliveryInv, MailType, Addressed
  <2>5. AnswerInv' /\ AckedWasGiven'
    BY <1>2, <2>1 DEF AnswerInv, AckedWasGiven, Addressed
  <2> QED BY <2>2, <2>4, <2>5
<1> QED BY <1>3, <1>4

\* A collected delivery is new or the one that waits to be acknowledged.
LEMMA CollectStep ==
  ASSUME MailInv, NEW c \in Commands, NEW kinds, Collect(c, kinds)
  PROVE  MailInv'
<1> USE DEF MailInv
<1> DEFINE h == Owner[c]
           new == {m \in Unread(h) : messages[m].kind \in kinds}
<1>1. h \in Handles
  BY OrchestrationAssumption
<1>2. UNCHANGED <<messages, stored, acked, given, known>>
  BY DEF Collect
<1>3. CASE delivery[h].number # 0
  <2>1. answer' = [answer EXCEPT ![c] = delivery[h]] /\ UNCHANGED <<delivery, deliveries>>
    BY <1>3 DEF Collect
  <2>2. /\ answer'[c] = delivery[h]
        /\ \A e \in Commands : e # c => answer'[e] = answer[e]
    BY <2>1 DEF MailType
  <2>3. MailType'
    BY <1>1, <1>2, <2>1 DEF MailType
  <2>4. AnswerInv'
    BY <1>1, <2>1, <2>2 DEF AnswerInv, DeliveryInv
  <2>5. DeliveryInv' /\ AckedWasGiven'
    BY <1>2, <2>1 DEF DeliveryInv, AckedWasGiven, Addressed
  <2> QED BY <2>3, <2>4, <2>5
<1>4. CASE delivery[h].number = 0
  <2> DEFINE d == [number |-> deliveries + 1, ids |-> new]
  <2>1. /\ delivery' = [delivery EXCEPT ![h] = d] /\ deliveries' = deliveries + 1
        /\ answer' = [answer EXCEPT ![c] = delivery'[h]]
    BY <1>4 DEF Collect
  <2>2. new \subseteq Addressed(h) /\ new \subseteq Nat
    BY <1>1, MessageNumbers
  <2>3. d \in [number : Nat, ids : SUBSET Nat]
    <3> HIDE DEF new
    <3> QED BY <2>2 DEF MailType
  <2> HIDE DEF new
  <2>4. /\ delivery'[h] = d
        /\ \A g \in Handles : g # h => delivery'[g] = delivery[g]
        /\ answer'[c] = d
        /\ \A e \in Commands : e # c => answer'[e] = answer[e]
    BY <1>1, <2>1 DEF MailType
  <2>5. MailType'
    <3> HIDE DEF d
    <3> QED BY <1>1, <1>2, <2>1, <2>3, <2>4 DEF MailType
  <2>6. deliveries \in Nat /\ known \in [Handles -> Nat] /\ d.number = deliveries + 1 /\ d.ids = new
        /\ \A g \in Handles : delivery[g].number \in Nat
        /\ \A e \in Commands : answer[e].number \in Nat
    BY DEF MailType
  <2>7. DeliveryInv'
    <3> HIDE DEF d
    <3>1. ASSUME NEW g \in Handles
          PROVE  /\ delivery'[g].ids \subseteq Addressed(g)
                 /\ delivery'[g].number <= deliveries + 1 /\ known[g] <= deliveries + 1
                 /\ known[g] # 0 /\ known[g] = delivery'[g].number
                      => delivery'[g].ids \subseteq given[g]
      <4>1. /\ delivery[g].ids \subseteq Addressed(g)
            /\ delivery[g].number <= deliveries /\ known[g] <= deliveries
            /\ known[g] # 0 /\ known[g] = delivery[g].number => delivery[g].ids \subseteq given[g]
            /\ known[g] \in Nat /\ delivery[g].number \in Nat
        BY <2>6 DEF DeliveryInv
      <4>2. CASE g = h
        BY <4>1, <4>2, <2>2, <2>4, <2>6
      <4>3. CASE g # h
        BY <4>1, <4>3, <2>4, <2>6
      <4> QED BY <4>2, <4>3
    <3> QED BY <3>1, <1>2, <2>1 DEF DeliveryInv, Addressed
  <2>8. AnswerInv'
    <3> HIDE DEF d
    <3>1. ASSUME NEW e \in Commands
          PROVE  /\ answer'[e].number <= deliveries + 1
                 /\ answer'[e].number # 0 /\ answer'[e].number = delivery'[Owner[e]].number
                      => answer'[e].ids = delivery'[Owner[e]].ids
      BY <2>4, <2>6, OrchestrationAssumption DEF AnswerInv
    <3> QED BY <3>1, <2>1 DEF AnswerInv
  <2>9. AckedWasGiven'
    BY <1>2 DEF AckedWasGiven, Addressed
  <2> QED BY <2>5, <2>7, <2>8, <2>9
<1> QED BY <1>3, <1>4

\* What a check prints has been given.
LEMMA PrintStep ==
  ASSUME MailInv, NEW c \in Commands, PrintAnswer(c)
  PROVE  MailInv'
<1> USE DEF MailInv
<1> DEFINE h == Owner[c]
<1>1. h \in Handles
  BY OrchestrationAssumption
<1>2. /\ given' = [given EXCEPT ![h] = @ \cup answer[c].ids]
      /\ known' = [known EXCEPT ![h] = answer[c].number]
      /\ answer' = [answer EXCEPT ![c] = NoDelivery]
      /\ UNCHANGED <<messages, stored, delivery, deliveries, acked>>
  BY DEF PrintAnswer, mailVars
<1>3. NoDelivery \in [number : Nat, ids : SUBSET Nat] /\ NoDelivery.number = 0
  BY DEF NoDelivery
<1>4. answer[c] \in [number : Nat, ids : SUBSET Nat]
  BY DEF MailType
<1>5. /\ given'[h] = given[h] \cup answer[c].ids /\ known'[h] = answer[c].number
      /\ \A g \in Handles : g # h => given'[g] = given[g] /\ known'[g] = known[g]
      /\ \A e \in Commands : answer'[e] = IF e = c THEN NoDelivery ELSE answer[e]
  BY <1>1, <1>2 DEF MailType
<1>6. MailType'
  BY <1>1, <1>2, <1>3, <1>4 DEF MailType
<1>7. DeliveryInv'
  BY <1>1, <1>2, <1>5 DEF DeliveryInv, AnswerInv, Addressed
<1>8. AnswerInv'
  <2>1. deliveries \in Nat
    BY DEF MailType
  <2> QED BY <1>2, <1>3, <1>5, <2>1 DEF AnswerInv
<1>9. AckedWasGiven'
  BY <1>2, <1>5 DEF AckedWasGiven, Addressed
<1> QED BY <1>6, <1>7, <1>8, <1>9

\* Of what comes from another server only an outcome is mail.
LEMMA HearPosts ==
  Hear => \/ UNCHANGED <<mailVars, agentVars>>
          \/ Post(Server, All, "worker_done", 0) /\ UNCHANGED agentVars
BY DEF Hear, StartSucceeds, StartFails, StartUnknown, StartAnswered, RelayedReport

\* Every step keeps what is known of the mail.
LEMMA MailStep == MailInv /\ [Next]_vars => MailInv'
<1> SUFFICES ASSUME MailInv, [Next]_vars PROVE MailInv'
  OBVIOUS
<1> USE DEF MailInv
<1>1. ASSUME UNCHANGED mailVars, UNCHANGED <<answer, known, given>> PROVE MailInv'
  <2>1. UNCHANGED <<messages, stored, delivery, deliveries, acked, answer, known, given>>
    BY <1>1 DEF mailVars
  <2> QED BY <2>1, MailKept DEF MailType, Addressed
<1>2. CASE Coordinate
  <2>1. CASE ResetMessages
    <3>1. /\ delivery' = [h \in Handles |-> NoDelivery] /\ acked' = [h \in Handles |-> {}]
          /\ stored' = {} /\ UNCHANGED <<messages, deliveries, answer, known, given>>
      BY <2>1 DEF ResetMessages, agentVars
    <3>2. NoDelivery \in [number : Nat, ids : SUBSET Nat] /\ NoDelivery.number = 0 /\ NoDelivery.ids = {}
      BY DEF NoDelivery
    <3>3. MailType' /\ AckedWasGiven'
      BY <3>1, <3>2 DEF MailType, AckedWasGiven
    <3>4. DeliveryInv' /\ AnswerInv'
      BY <3>1, <3>2, OrchestrationAssumption DEF DeliveryInv, AnswerInv, MailType
    <3> QED BY <3>3, <3>4
  <2>2. CASE ~ResetMessages
    <3>1. UNCHANGED mailVars /\ UNCHANGED <<answer, known, given>>
      BY <1>2, <2>2 DEF Coordinate, TaskCreate, Dispatch, WorkerStart, GateCreate, TaskUpdate, Withdraw,
                        GateResolve, ResetTasks, agentVars
    <3> QED BY <3>1, <1>1
  <2> QED BY <2>1, <2>2
<1>3. ASSUME NEW h \in Handles, Report(h) \/ Correspond(h) PROVE MailInv'
  BY <1>3, CorrespondStep
<1>4. ASSUME NEW c \in Commands, Begin(c) PROVE MailInv'
  <2>1. CASE CheckPlain(c)
    BY <2>1, <1>1 DEF CheckPlain
  <2> QED BY <1>4, <2>1, AckStep DEF Begin
<1>5. ASSUME NEW c \in Commands, NEW kinds, CollectNothing(c, kinds) PROVE MailInv'
  <2>1. known' = [known EXCEPT ![Owner[c]] = 0]
        /\ UNCHANGED <<messages, stored, delivery, deliveries, acked, answer, given>>
    BY <1>5 DEF CollectNothing, mailVars
  <2>2. \A g \in Handles : known'[g] \in {known[g], 0}
    BY <2>1 DEF MailType
  <2>3. MailType' /\ AckedWasGiven' /\ AnswerInv'
    BY <2>1 DEF MailType, AckedWasGiven, AnswerInv, Addressed
  <2>4. DeliveryInv'
    BY <2>1, <2>2 DEF DeliveryInv, MailType, Addressed
  <2> QED BY <2>3, <2>4
<1>6. ASSUME NEW c \in Commands, Killed(c) PROVE MailInv'
  <2>1. /\ answer' = [answer EXCEPT ![c] = NoDelivery]
        /\ UNCHANGED <<messages, stored, delivery, deliveries, acked, known, given>>
    BY <1>6 DEF Killed, mailVars
  <2>2. NoDelivery \in [number : Nat, ids : SUBSET Nat] /\ NoDelivery.number = 0
    BY DEF NoDelivery
  <2>3. /\ answer' \in [Commands -> [number : Nat, ids : SUBSET Nat]]
        /\ \A e \in Commands : answer'[e] = answer[e] \/ answer'[e].number = 0
    BY <2>1, <2>2 DEF MailType
  <2> QED BY <2>1, <2>3, MailKept DEF MailType, Addressed
<1>7. CASE UNCHANGED vars
  BY <1>7, <1>1 DEF vars, agentVars
<1>10. CASE Hear
  <2>1. CASE UNCHANGED <<mailVars, agentVars>>
    BY <1>1, <2>1 DEF agentVars
  <2>2. CASE Post(Server, All, "worker_done", 0) /\ UNCHANGED agentVars
    <3>1. Server \in Addresses /\ All \in Addresses /\ 0 \in Nat /\ "worker_done" \in Kinds
      BY DEF Addresses, Kinds
    <3>2. UNCHANGED <<answer, known, given>>
      BY <2>2 DEF agentVars
    <3> QED BY <2>2, <3>1, <3>2, PostEffect, MailKept DEF MailType
  <2> QED BY <1>10, <2>1, <2>2, HearPosts
<1>8. ASSUME NEW c \in Commands, CollectAll(c) \/ CollectSome(c) PROVE MailInv'
  BY <1>5, <1>8, CollectStep DEF CollectAll, CollectSome
<1> QED
  BY <1>2, <1>3, <1>4, <1>6, <1>7, <1>8, <1>10, PrintStep DEF Next

\* Only what a check has printed for a handle, and what was addressed to it, is
\* ever acknowledged for it.
THEOREM AcknowledgedWasRead == Spec => []AckedWasGiven
<1>1. MailInv => AckedWasGiven
  BY DEF MailInv
<1> QED BY <1>1, MailInit, MailStep, PTL DEF Spec

-----------------------------------------------------------------------------
(* The boxes                                                               *)

\* Whose mail is whose: what a check has printed for a handle, or is about to, is
\* addressed to it; what waits to be acknowledged is still in the document; and
\* a reply goes to the sender of what it answers.
BoxInv ==
  /\ stored \subseteq DOMAIN messages
  /\ \A h \in Handles :
       /\ given[h] \subseteq Addressed(h)
       /\ delivery[h].ids \subseteq stored
  /\ \A c \in Commands : answer[c].ids \subseteq Addressed(Owner[c])
  /\ \A m \in DOMAIN messages : messages[m].reply # 0 =>
       /\ messages[m].reply \in DOMAIN messages
       /\ messages[m].to = messages[messages[m].reply].from

BoxesInv == MailInv /\ BoxInv

\* A new message goes into the boxes of those it is addressed to.
LEMMA PostAddresses ==
  ASSUME MailType, NEW from \in Addresses, NEW to \in Addresses, NEW kind \in Kinds,
         NEW reply \in Nat, Post(from, to, kind, reply)
  PROVE  LET n == Len(messages) + 1 IN
         /\ Len(messages) \in Nat /\ DOMAIN messages = 1 .. Len(messages)
         /\ Len(messages') = n /\ DOMAIN messages' = 1 .. n
         /\ messages'[n] = [from |-> from, to |-> to, kind |-> kind, reply |-> reply]
         /\ \A i \in DOMAIN messages : messages'[i] = messages[i]
         /\ \A h \in Handles :
              Addressed(h)' = Addressed(h) \cup {k \in {n} : to \in {h, All}}
<1> DEFINE R == [from : Addresses, to : Addresses, kind : Kinds, reply : Nat]
           e == [from |-> from, to |-> to, kind |-> kind, reply |-> reply]
           n == Len(messages) + 1
<1>1. messages' = Append(messages, e) /\ messages \in Seq(R) /\ e \in R /\ e.to = to
  BY DEF Post, MailType
<1> HIDE DEF R
<1>2. /\ Len(messages) \in Nat /\ DOMAIN messages = 1 .. Len(messages)
      /\ messages' \in Seq(R) /\ Len(messages') = n /\ messages'[n] = e
      /\ \A i \in 1 .. Len(messages) : messages'[i] = messages[i]
  <2> HIDE DEF e
  <2> QED
    BY <1>1, AppendProperties, LenProperties
<1>3. DOMAIN messages' = 1 .. n
  BY <1>2, LenProperties
<1>4. DOMAIN messages' = DOMAIN messages \cup {n} /\ n \notin DOMAIN messages
  BY <1>2, <1>3
<1>5. ASSUME NEW h \in Handles
      PROVE  Addressed(h)' = Addressed(h) \cup {k \in {n} : to \in {h, All}}
  <2> HIDE DEF e, n
  <2> QED
    BY <1>1, <1>2, <1>4 DEF Addressed
<1> QED
  BY <1>2, <1>3, <1>5

\* Sending keeps the mail apart, if a reply goes to whom it answers.
LEMMA PostKeepsApart ==
  ASSUME BoxesInv, NEW from \in Addresses, NEW to \in Addresses, NEW kind \in Kinds,
         NEW reply \in Nat, Post(from, to, kind, reply),
         reply # 0 => reply \in DOMAIN messages /\ to = messages[reply].from,
         UNCHANGED <<given, answer>>
  PROVE  BoxInv'
<1> DEFINE n == Len(messages) + 1
<1>1. /\ Len(messages) \in Nat /\ DOMAIN messages = 1 .. Len(messages)
      /\ DOMAIN messages' = 1 .. n
      /\ messages'[n] = [from |-> from, to |-> to, kind |-> kind, reply |-> reply]
      /\ \A i \in DOMAIN messages : messages'[i] = messages[i]
      /\ \A h \in Handles : Addressed(h) \subseteq Addressed(h)'
  BY PostAddresses DEF BoxesInv, MailInv
<1>2. stored' = stored \cup {n} /\ UNCHANGED delivery
  BY DEF Post
<1>3. DOMAIN messages' = DOMAIN messages \cup {n} /\ n \in Nat
  BY <1>1
<1> HIDE DEF n
<1>4. stored' \subseteq DOMAIN messages'
  BY <1>2, <1>3 DEF BoxesInv, BoxInv
<1>5. ASSUME NEW h \in Handles
      PROVE  /\ given'[h] \subseteq Addressed(h)'
             /\ delivery'[h].ids \subseteq stored'
  BY <1>1, <1>2 DEF BoxesInv, BoxInv
<1>7. ASSUME NEW c \in Commands
      PROVE  answer'[c].ids \subseteq Addressed(Owner[c])'
  BY <1>1, OrchestrationAssumption DEF BoxesInv, BoxInv
<1>8. ASSUME NEW m \in DOMAIN messages', messages'[m].reply # 0
      PROVE  /\ messages'[m].reply \in DOMAIN messages'
             /\ messages'[m].to = messages'[messages'[m].reply].from
  <2>1. CASE m \in DOMAIN messages
    <3>1. /\ messages'[m] = messages[m] /\ messages[m].reply \in DOMAIN messages
          /\ messages[m].to = messages[messages[m].reply].from
      BY <1>1, <1>8, <2>1 DEF BoxesInv, BoxInv
    <3>2. PICK r \in DOMAIN messages : r = messages[m].reply
      BY <3>1
    <3>3. messages'[r] = messages[r] /\ r \in DOMAIN messages'
      BY <1>1, <1>3
    <3> QED
      BY <3>1, <3>2, <3>3
  <2>2. CASE m = n
    <3>1. messages'[m].reply = reply /\ messages'[m].to = to
      BY <1>1, <2>2 DEF n
    <3>2. reply \in DOMAIN messages /\ to = messages[reply].from
      BY <1>8, <3>1
    <3>3. messages'[reply] = messages[reply] /\ reply \in DOMAIN messages'
      BY <1>1, <1>3, <3>2
    <3> QED
      BY <3>1, <3>2, <3>3
  <2> QED
    BY <1>3, <2>1, <2>2
<1> QED
  BY <1>4, <1>5, <1>7, <1>8 DEF BoxInv

\* Where no message is sent or taken away, the mail stays apart as long as the
\* boxes' owners are the ones that are shown it.
LEMMA KeptApart ==
  ASSUME BoxesInv, UNCHANGED <<messages, stored>>,
         \A h \in Handles :
           /\ given'[h] \subseteq Addressed(h)
           /\ delivery'[h].ids \subseteq stored,
         \A c \in Commands : answer'[c].ids \subseteq Addressed(Owner[c])
  PROVE  BoxInv'
BY DEF BoxesInv, BoxInv, Addressed

\* It holds of an empty document.
LEMMA BoxesInit == Init => BoxesInv
<1> SUFFICES ASSUME Init PROVE BoxInv
  BY MailInit DEF BoxesInv
<1>1. NoDelivery.ids = {}
  BY DEF NoDelivery
<1> QED
  BY <1>1, OrchestrationAssumption DEF Init, BoxInv

\* What an agent sends, or another server's worker reports, is one new message; a
\* reply goes back to the one that sent what it answers.
LEMMA SendsPost ==
  ASSUME BoxesInv, NEW h \in Handles,
         \/ Report(h) \/ Ask(h)
         \/ \E to \in Handles \cup {All} : Send(h, to)
         \/ \E m \in DOMAIN messages : Reply(h, m)
  PROVE  \E to \in Addresses, kind \in Kinds, reply \in Nat :
           /\ Post(h, to, kind, reply)
           /\ reply # 0 => reply \in DOMAIN messages /\ to = messages[reply].from
           /\ UNCHANGED <<given, answer>>
<1>0. /\ 0 \in Nat /\ {"message", "worker_done", "question", "reply"} \subseteq Kinds
      /\ Handles \cup {All} \subseteq Addresses
  BY DEF Kinds, Addresses
<1>1. CASE Report(h)
  <2>1. Post(h, All, "worker_done", 0) /\ UNCHANGED <<given, answer>>
    BY <1>1 DEF Report, ReportDispatch, ReportTask, agentVars
  <2> QED
    BY <1>0, <2>1
<1>2. CASE Ask(h)
  <2>1. Post(h, All, "question", 0) /\ UNCHANGED <<given, answer>>
    BY <1>2 DEF Ask, agentVars
  <2> QED
    BY <1>0, <2>1
<1>3. ASSUME NEW to \in Handles \cup {All}, Send(h, to)
      PROVE  Post(h, to, "message", 0) /\ UNCHANGED <<given, answer>>
  BY <1>3 DEF Send, agentVars
<1>4. ASSUME NEW m \in DOMAIN messages, Reply(h, m)
      PROVE  /\ Post(h, messages[m].from, "reply", m) /\ UNCHANGED <<given, answer>>
             /\ messages[m].from \in Addresses /\ m \in Nat
  <2> DEFINE R == [from : Addresses, to : Addresses, kind : Kinds, reply : Nat]
  <2>1. messages \in Seq(R)
    BY DEF BoxesInv, MailInv, MailType
  <2>2. messages[m] \in R /\ m \in Nat
    <3> HIDE DEF R
    <3> QED
      BY <2>1, ElementOfSeq, LenProperties
  <2> QED
    BY <1>4, <2>2 DEF Reply, agentVars
<1> QED
  BY <1>0, <1>1, <1>2, <1>3, <1>4

\* What is given to whom, in each step that gives mail to anyone.
LEMMA Shown ==
  ASSUME BoxesInv, NEW h \in Handles,
         \/ Peek(h)
         \/ \E c \in Commands : h = Owner[c] /\ PrintAnswer(c)
  PROVE  /\ UNCHANGED <<messages, stored, delivery, acked>>
         /\ \E some \in SUBSET Addressed(h) : given' = [given EXCEPT ![h] = @ \cup some]
<1>1. CASE Peek(h)
  BY <1>1, MessageNumbers DEF Peek, mailVars, BoxesInv, MailInv
<1>2. ASSUME NEW c \in Commands, h = Owner[c], PrintAnswer(c)
      PROVE  /\ UNCHANGED <<messages, stored, delivery, acked>>
             /\ given' = [given EXCEPT ![h] = @ \cup answer[c].ids]
             /\ answer[c].ids \in SUBSET Addressed(h)
  BY <1>2 DEF PrintAnswer, mailVars, BoxesInv, BoxInv
<1> QED
  BY <1>1, <1>2

\* Every step keeps the mail apart.
LEMMA BoxesStep == BoxesInv /\ [Next]_vars => BoxesInv'
<1> SUFFICES ASSUME BoxesInv, [Next]_vars PROVE BoxInv'
  BY MailStep DEF BoxesInv
<1>0. NoDelivery.ids = {}
  BY DEF NoDelivery
<1>1. ASSUME NEW h \in Handles,
             \/ Report(h) \/ Ask(h)
             \/ \E to \in Handles \cup {All} : Send(h, to)
             \/ \E m \in DOMAIN messages : Reply(h, m)
      PROVE  BoxInv'
  <2>1. h \in Addresses
    BY DEF Addresses
  <2> QED
    BY <1>1, <2>1, SendsPost, PostKeepsApart
<1>4. ASSUME NEW h \in Handles, Peek(h) PROVE BoxInv'
  <2>1. PICK some \in SUBSET Addressed(h) : given' = [given EXCEPT ![h] = @ \cup some]
    BY <1>4, Shown
  <2>2. UNCHANGED <<messages, stored, delivery, answer>>
    BY <1>4 DEF Peek, mailVars
  <2>3. \A g \in Handles : given'[g] \subseteq Addressed(g)
    BY <2>1 DEF BoxesInv, BoxInv, MailInv, MailType
  <2> QED
    BY <2>2, <2>3, KeptApart DEF BoxesInv, BoxInv
<1>5. ASSUME NEW c \in Commands, PrintAnswer(c) PROVE BoxInv'
  <2>0. Owner[c] \in Handles
    BY OrchestrationAssumption
  <2>1. PICK some \in SUBSET Addressed(Owner[c]) :
          given' = [given EXCEPT ![Owner[c]] = @ \cup some]
    BY <1>5, <2>0, Shown
  <2>2. /\ UNCHANGED <<messages, stored, delivery>>
        /\ answer' = [answer EXCEPT ![c] = NoDelivery]
    BY <1>5 DEF PrintAnswer, mailVars
  <2>3. \A g \in Handles : given'[g] \subseteq Addressed(g)
    BY <2>0, <2>1 DEF BoxesInv, BoxInv, MailInv, MailType
  <2>4. \A e \in Commands : answer'[e].ids \subseteq Addressed(Owner[e])
    BY <1>0, <2>2 DEF BoxesInv, BoxInv, MailInv, MailType
  <2> QED
    BY <2>2, <2>3, <2>4, KeptApart DEF BoxesInv, BoxInv
<1>6. ASSUME NEW c \in Commands, Begin(c) PROVE BoxInv'
  <2>1. /\ UNCHANGED <<messages, stored, given, answer>>
        /\ \A h \in Handles : delivery'[h] \in {delivery[h], NoDelivery}
    BY <1>6, OrchestrationAssumption
       DEF Begin, Ack, CheckPlain, mailVars, BoxesInv, MailInv, MailType
  <2> QED
    BY <1>0, <2>1, KeptApart DEF BoxesInv, BoxInv
<1>7. ASSUME NEW c \in Commands, NEW kinds, Collect(c, kinds) PROVE BoxInv'
  <2> DEFINE h == Owner[c]
             new == {m \in Unread(h) : messages[m].kind \in kinds}
  <2>0. h \in Handles
    BY OrchestrationAssumption
  <2>1. UNCHANGED <<messages, stored, given>>
    BY <1>7 DEF Collect
  <2>2. new \subseteq Addressed(h) \cap stored
    BY DEF Unread
  <2>3. \E ids : /\ ids \subseteq Addressed(h) \cap stored
                 /\ delivery'[h].ids = ids /\ answer'[c].ids = ids
                 /\ \A g \in Handles : g # h => delivery'[g] = delivery[g]
                 /\ \A e \in Commands : e # c => answer'[e] = answer[e]
    <3>1. CASE delivery[h].number # 0
      <4>1. delivery[h].ids \subseteq Addressed(h) \cap stored
        BY <2>0 DEF BoxesInv, BoxInv, MailInv, DeliveryInv
      <4>2. answer' = [answer EXCEPT ![c] = delivery[h]] /\ UNCHANGED delivery
        BY <1>7, <3>1 DEF Collect
      <4> QED
        BY <4>1, <4>2 DEF BoxesInv, MailInv, MailType
    <3>2. CASE delivery[h].number = 0
      <4> HIDE DEF new
      <4>1. /\ delivery' = [delivery EXCEPT ![h] = [number |-> deliveries + 1, ids |-> new]]
            /\ answer' = [answer EXCEPT ![c] = delivery'[h]]
        BY <1>7, <3>2 DEF Collect, new
      <4> QED
        BY <2>0, <2>2, <4>1 DEF BoxesInv, MailInv, MailType
    <3> QED
      BY <3>1, <3>2
  <2> QED
    BY <2>0, <2>1, <2>3, KeptApart DEF BoxesInv, BoxInv
<1>8. ASSUME NEW c \in Commands, NEW kinds, CollectNothing(c, kinds)
      PROVE  BoxInv'
  <2>1. UNCHANGED <<messages, stored, delivery, given, answer>>
    BY <1>8 DEF CollectNothing, mailVars
  <2> QED
    BY <2>1, KeptApart DEF BoxesInv, BoxInv
<1>9. ASSUME NEW c \in Commands, Killed(c) PROVE BoxInv'
  <2>1. /\ UNCHANGED <<messages, stored, delivery, given>>
        /\ \A e \in Commands : answer'[e] \in {answer[e], NoDelivery}
    BY <1>9 DEF Killed, mailVars, BoxesInv, MailInv, MailType
  <2> QED
    BY <1>0, <2>1, KeptApart DEF BoxesInv, BoxInv
<1>10. CASE ResetMessages
  BY <1>0, <1>10 DEF ResetMessages, agentVars, BoxesInv, BoxInv, Addressed
<1>11. ASSUME UNCHANGED <<mailVars, agentVars>> PROVE BoxInv'
  <2>1. UNCHANGED <<messages, stored, delivery, given, answer>>
    BY <1>11 DEF mailVars, agentVars
  <2> QED
    BY <2>1, KeptApart DEF BoxesInv, BoxInv
<1>12. CASE Coordinate
  <2>1. CASE ~ResetMessages
    <3>1. UNCHANGED <<mailVars, agentVars>>
      BY <1>12, <2>1 DEF Coordinate, TaskCreate, Dispatch, WorkerStart, GateCreate, TaskUpdate, Withdraw,
         GateResolve, ResetTasks
    <3> QED
      BY <3>1, <1>11
  <2> QED
    BY <1>10, <2>1
<1>13. CASE UNCHANGED vars
  BY <1>11, <1>13 DEF vars
<1>14. ASSUME NEW h \in Handles, Report(h) \/ Correspond(h) PROVE BoxInv'
  BY <1>14, <1>1, <1>4 DEF Correspond
<1>2. CASE Hear
  <2>1. CASE Post(Server, All, "worker_done", 0) /\ UNCHANGED agentVars
    <3>1. Server \in Addresses /\ All \in Addresses /\ 0 \in Nat /\ "worker_done" \in Kinds
      BY DEF Addresses, Kinds
    <3>2. UNCHANGED <<given, answer>>
      BY <2>1 DEF agentVars
    <3> QED
      BY <2>1, <3>1, <3>2, PostKeepsApart
  <2> QED
    BY <1>2, <1>11, <2>1, HearPosts
<1>15. ASSUME NEW c \in Commands, CollectAll(c) \/ CollectSome(c) PROVE BoxInv'
  BY <1>15, <1>7, <1>8 DEF CollectAll, CollectSome
<1> QED
  BY <1>2, <1>5, <1>6, <1>9, <1>12, <1>13, <1>14, <1>15 DEF Next

\* The mail stays apart throughout.
LEMMA BoxesInvariant == Spec => []BoxesInv
BY BoxesInit, BoxesStep, PTL DEF Spec

\* Sending a message is a Send between the boxes.
LEMMA PostSends ==
  ASSUME BoxesInv, NEW from \in Addresses, NEW to \in Addresses, NEW kind \in Kinds,
         NEW reply \in Nat, Post(from, to, kind, reply), UNCHANGED given
  PROVE  Mail!Send
<1> DEFINE n == Len(messages) + 1
           hs == {h \in Handles : to \in {h, All}}
<1>1. /\ DOMAIN messages = 1 .. Len(messages) /\ Len(messages) \in Nat
      /\ Len(messages') = n
      /\ \A h \in Handles : Addressed(h)' = Addressed(h) \cup {k \in {n} : h \in hs}
  <2>1. /\ DOMAIN messages = 1 .. Len(messages) /\ Len(messages) \in Nat
        /\ Len(messages') = n
        /\ \A h \in Handles : Addressed(h)' = Addressed(h) \cup {k \in {n} : to \in {h, All}}
    BY PostAddresses DEF BoxesInv, MailInv
  <2>2. \A h \in Handles : to \in {h, All} <=> h \in hs
    OBVIOUS
  <2> HIDE DEF n, hs
  <2> QED
    BY <2>1, <2>2
<1>2. stored' = stored \cup {n} /\ stored \subseteq DOMAIN messages /\ UNCHANGED acked
  BY DEF Post, BoxesInv, BoxInv
<1>3. n \notin DOMAIN messages
  BY <1>1
<1>4. \A h \in Handles : Addressed(h) \subseteq DOMAIN messages
  BY DEF Addressed
<1>5. hs \in SUBSET Handles
  OBVIOUS
<1> HIDE DEF n, hs
<1>6. \A h \in Handles : (Addressed(h) \cap stored)' =
                          (Addressed(h) \cap stored) \cup {k \in {n} : h \in hs}
  BY <1>1, <1>2, <1>3, <1>4
<1>7. [h \in Handles |-> Addressed(h)]' =
        [h \in Handles |-> [g \in Handles |-> Addressed(g)][h] \cup {k \in {Len(messages')} : h \in hs}]
  BY <1>1
<1>8. [h \in Handles |-> Addressed(h) \cap stored]' =
        [h \in Handles |-> [g \in Handles |-> Addressed(g) \cap stored][h]
                           \cup {k \in {Len(messages')} : h \in hs}]
  BY <1>1, <1>6
<1>9. Len(messages') = Len(messages) + 1
  BY <1>1 DEF n
<1> QED
  BY <1>2, <1>5, <1>7, <1>8, <1>9, Zenon DEF Mail!Send

\* Where the messages are left alone, the boxes are too.
LEMMA BoxesAlone ==
  ASSUME UNCHANGED <<messages, stored>>
  PROVE  /\ UNCHANGED [h \in Handles |-> Addressed(h)]
         /\ UNCHANGED [h \in Handles |-> Addressed(h) \cap stored]
         /\ UNCHANGED Len(messages)
BY DEF Addressed

\* check --ack takes for read what was printed for its handle and is still there.
LEMMA AckMarks ==
  ASSUME BoxesInv, NEW c \in Commands, Ack(c)
  PROVE  Mail!MarkRead \/ UNCHANGED Mail!vars
<1> DEFINE h == Owner[c]
<1>1. h \in Handles /\ UNCHANGED <<messages, stored, given>> /\ known[h] # 0
  BY OrchestrationAssumption DEF Ack
<1>2. /\ UNCHANGED [g \in Handles |-> Addressed(g)]
      /\ UNCHANGED [g \in Handles |-> Addressed(g) \cap stored]
      /\ UNCHANGED Len(messages)
  BY <1>1, BoxesAlone
<1>3. CASE delivery[h].number = known[h]
  <2>1. acked' = [acked EXCEPT ![h] = @ \cup delivery[h].ids]
    BY <1>3 DEF Ack
  <2>2. delivery[h].ids \in SUBSET ([g \in Handles |-> Addressed(g) \cap stored][h] \cap given[h])
    BY <1>1, <1>3 DEF BoxesInv, BoxInv, MailInv, DeliveryInv
  <2> QED
    BY <1>1, <1>2, <2>1, <2>2, Zenon DEF Mail!MarkRead, Mail!Added
<1>4. CASE delivery[h].number # known[h]
  <2>1. UNCHANGED acked
    BY <1>4 DEF Ack
  <2> QED
    BY <1>1, <1>2, <2>1, Zenon DEF Mail!vars
<1> QED
  BY <1>3, <1>4

\* Every step is one of the boxes', or does nothing to them.
LEMMA StepOfMail ==
  BoxesInv /\ [Next]_vars => [Mail!Next]_(Mail!vars)
<1> SUFFICES ASSUME BoxesInv, [Next]_vars PROVE Mail!Next \/ UNCHANGED Mail!vars
  OBVIOUS
<1>1. ASSUME UNCHANGED <<messages, stored, acked, given>> PROVE UNCHANGED Mail!vars
  BY <1>1, BoxesAlone, Zenon DEF Mail!vars
<1>2. ASSUME NEW h \in Handles,
             \/ Report(h) \/ Ask(h)
             \/ \E to \in Handles \cup {All} : Send(h, to)
             \/ \E m \in DOMAIN messages : Reply(h, m)
      PROVE  Mail!Send
  <2>1. h \in Addresses
    BY DEF Addresses
  <2> QED
    BY <1>2, <2>1, SendsPost, PostSends
<1>3. ASSUME NEW h \in Handles,
             \/ Peek(h)
             \/ \E c \in Commands : h = Owner[c] /\ PrintAnswer(c)
      PROVE  Mail!Show
  <2>1. /\ UNCHANGED <<messages, stored, acked>>
        /\ \E some \in SUBSET [g \in Handles |-> Addressed(g)][h] :
              given' = [given EXCEPT ![h] = @ \cup some]
    BY <1>3, Shown
  <2>2. /\ UNCHANGED [g \in Handles |-> Addressed(g)]
        /\ UNCHANGED [g \in Handles |-> Addressed(g) \cap stored]
        /\ UNCHANGED Len(messages)
    BY <2>1, BoxesAlone
  <2> QED
    BY <2>1, <2>2, Zenon DEF Mail!Show, Mail!Added
<1>4. CASE Hear
  <2>1. CASE UNCHANGED <<mailVars, agentVars>>
    BY <1>1, <2>1 DEF mailVars, agentVars
  <2>2. CASE Post(Server, All, "worker_done", 0) /\ UNCHANGED agentVars
    <3>1. Server \in Addresses /\ All \in Addresses /\ 0 \in Nat /\ "worker_done" \in Kinds
      BY DEF Addresses, Kinds
    <3>2. Mail!Send
      BY <2>2, <3>1, PostSends DEF agentVars
    <3> QED
      BY <3>2 DEF Mail!Next
  <2> QED
    BY <1>4, <2>1, <2>2, HearPosts
<1>5. ASSUME NEW c \in Commands, Begin(c) PROVE Mail!Next \/ UNCHANGED Mail!vars
  <2>1. CASE CheckPlain(c)
    BY <1>1, <2>1 DEF CheckPlain, mailVars
  <2> QED
    BY <1>5, <2>1, AckMarks DEF Begin, Mail!Next
<1>6. ASSUME NEW c \in Commands, CollectAll(c) \/ CollectSome(c) \/ Killed(c)
      PROVE  UNCHANGED Mail!vars
  BY <1>1, <1>6 DEF CollectAll, CollectSome, Collect, CollectNothing, Killed, mailVars
<1>7. CASE ResetMessages
  <2>1. /\ stored' = {} /\ acked' = [h \in Handles |-> {}] /\ UNCHANGED <<messages, given>>
    BY <1>7 DEF ResetMessages, agentVars
  <2>2. /\ UNCHANGED [h \in Handles |-> Addressed(h)]
        /\ [h \in Handles |-> Addressed(h) \cap stored]' = [h \in Handles |-> {}]
        /\ UNCHANGED Len(messages)
    BY <2>1 DEF Addressed
  <2> QED
    BY <2>1, <2>2, Zenon DEF Mail!Next, Mail!Clear, Mail!Nothing
<1>8. CASE Coordinate
  <2>1. CASE ~ResetMessages
    <3>1. UNCHANGED <<mailVars, agentVars>>
      BY <1>8, <2>1 DEF Coordinate, TaskCreate, Dispatch, WorkerStart, GateCreate, TaskUpdate, Withdraw,
         GateResolve, ResetTasks
    <3> QED
      BY <1>1, <3>1 DEF mailVars, agentVars
  <2> QED
    BY <1>7, <2>1
<1>9. CASE UNCHANGED vars
  BY <1>1, <1>9 DEF vars, mailVars, agentVars
<1>10. ASSUME NEW h \in Handles, Report(h) \/ Correspond(h)
       PROVE  Mail!Next \/ UNCHANGED Mail!vars
  BY <1>2, <1>3, <1>10 DEF Correspond, Mail!Next
<1>11. ASSUME NEW c \in Commands, PrintAnswer(c) PROVE Mail!Next
  BY <1>3, <1>11, OrchestrationAssumption DEF Mail!Next
<1> QED
  BY <1>4, <1>5, <1>6, <1>8, <1>9, <1>10, <1>11 DEF Next

\* Each agent's mail is kept as if in a box of its own, for any number of
\* agents and of checks at once, killed wherever they are.
THEOREM MailboxesAreImplemented == Spec => MailIsKept
<1>1. Init => Mail!Init
  <2> SUFFICES ASSUME Init PROVE Mail!Init
    OBVIOUS
  <2>1. /\ Len(messages) = 0 /\ acked = [h \in Handles |-> {}] /\ given = [h \in Handles |-> {}]
        /\ [h \in Handles |-> Addressed(h)] = [h \in Handles |-> {}]
        /\ [h \in Handles |-> Addressed(h) \cap stored] = [h \in Handles |-> {}]
    BY DEF Init, Addressed
  <2> QED
    BY <2>1, Zenon DEF Mail!Init, Mail!Nothing
<1> QED
  BY <1>1, BoxesInvariant, StepOfMail, PTL DEF Spec, MailIsKept, Mail!Spec

\* What the checks have printed for a handle is addressed to it, what waits for
\* its acknowledgement can still be handed out again, and a reply is addressed to
\* the sender of what it answers, so that ask prints an agent its own mail as long
\* as it resumes no message of another's.
MailIsApart ==
  /\ \A h \in Handles :
       given[h] \subseteq Addressed(h) /\ delivery[h].ids \subseteq Addressed(h) \cap stored
  /\ \A h \in Handles, m \in DOMAIN messages :
       messages[m].reply # 0 /\ messages[messages[m].reply].from = h => m \in Addressed(h)

\* Whatever is sent, asked, answered, collected, killed or reset, and however many
\* checks run at once, what check prints and what a reply answers is the
\* recipient's own.
THEOREM ChecksPrintOwnMail == Spec => []MailIsApart
<1>1. BoxesInv => MailIsApart
  <2> SUFFICES ASSUME BoxesInv PROVE MailIsApart
    OBVIOUS
  <2>1. \A h \in Handles :
          given[h] \subseteq Addressed(h) /\ delivery[h].ids \subseteq Addressed(h) \cap stored
    BY DEF BoxesInv, BoxInv, MailInv, DeliveryInv
  <2>2. ASSUME NEW h \in Handles, NEW m \in DOMAIN messages,
               messages[m].reply # 0, messages[messages[m].reply].from = h
        PROVE  m \in Addressed(h)
    BY <2>2 DEF BoxesInv, BoxInv, Addressed
  <2> QED
    BY <2>1, <2>2 DEF MailIsApart
<1> QED
  BY <1>1, BoxesInvariant, PTL

\* Mail for h that no check has printed for it.
Missing(h) == (Addressed(h) \cap stored) \ given[h]

\* A check without --types answers with everything that has not been printed for
\* its handle yet, whoever else checked, acknowledged or was killed before, unless it
\* repeats a delivery that was not acknowledged.
ChecksLeaveNothingOut ==
  [][\A c \in Commands :
       CollectAll(c) => \/ Missing(Owner[c]) \subseteq answer'[c].ids
                        \/ /\ delivery[Owner[c]].number # 0
                           /\ answer'[c] = delivery[Owner[c]]]_vars

\* No acknowledgement hides unread mail from the checks that follow: the safety
\* half of MailIsGiven.
THEOREM ChecksFindTheRest == Spec => ChecksLeaveNothingOut
<1>1. MailInv /\ [Next]_vars
        => [\A c \in Commands :
              CollectAll(c) => \/ Missing(Owner[c]) \subseteq answer'[c].ids
                               \/ /\ delivery[Owner[c]].number # 0
                                  /\ answer'[c] = delivery[Owner[c]]]_vars
  <2> SUFFICES ASSUME MailInv, NEW c \in Commands, CollectAll(c)
               PROVE  \/ Missing(Owner[c]) \subseteq answer'[c].ids
                      \/ delivery[Owner[c]].number # 0 /\ answer'[c] = delivery[Owner[c]]
    OBVIOUS
  <2> DEFINE h == Owner[c]
             new == {m \in Unread(h) : messages[m].kind \in Kinds}
  <2>1. h \in Handles
    BY OrchestrationAssumption
  <2>2. Missing(h) \subseteq Unread(h)
    BY <2>1 DEF MailInv, AckedWasGiven, Missing, Unread
  <2>3. Unread(h) \subseteq new
    <3>1. \A m \in DOMAIN messages : messages[m].kind \in Kinds
      <4> DEFINE Letters == [from : Addresses, to : Addresses, kind : Kinds, reply : Nat]
      <4>1. messages \in Seq(Letters)
        BY DEF MailInv, MailType
      <4>2. \A letter \in Letters : letter.kind \in Kinds
        OBVIOUS
      <4> HIDE DEF Letters
      <4>3. \A m \in DOMAIN messages : messages[m] \in Letters
        BY <4>1
      <4> QED
        BY <4>2, <4>3
    <3>2. Unread(h) \subseteq DOMAIN messages
      BY DEF Unread, Addressed
    <3> QED
      BY <3>1, <3>2
  <2>4. answer \in [Commands -> [number : Nat, ids : SUBSET Nat]]
        /\ delivery \in [Handles -> [number : Nat, ids : SUBSET Nat]]
    BY DEF MailInv, MailType
  <2>5. CASE CollectNothing(c, Kinds)
    <3>1. Unread(h) \cap new = {}
      BY <2>5 DEF CollectNothing
    <3> QED
      BY <2>2, <2>3, <3>1
  <2>6. CASE Collect(c, Kinds) /\ delivery[h].number # 0
    BY <2>4, <2>6 DEF Collect
  <2>7. CASE Collect(c, Kinds) /\ delivery[h].number = 0
    <3> DEFINE d == [number |-> deliveries + 1, ids |-> new]
    <3>1. /\ delivery' = [delivery EXCEPT ![h] = d]
          /\ answer' = [answer EXCEPT ![c] = delivery'[h]]
      BY <2>7 DEF Collect
    <3> HIDE DEF new
    <3>2. answer'[c] = d
      BY <2>1, <2>4, <3>1
    <3> QED
      BY <2>2, <2>3, <3>2
  <2> QED
    BY <2>5, <2>6, <2>7 DEF CollectAll
<1>2. BoxesInv => MailInv
  BY DEF BoxesInv
<1> QED
  BY <1>1, <1>2, BoxesInvariant, PTL DEF Spec, ChecksLeaveNothingOut
=============================================================================
