------------------------- MODULE PtyLifecycleProofs -------------------------
(***************************************************************************)
(* The safety properties of PtyLifecycle, for any number of callers, any   *)
(* exit codes and any number of calls.                                     *)
(***************************************************************************)
EXTENDS PtyLifecycle, TLAPS

UsesLifecycle == {"t_child", "k_group", "k_child"}

\* Before spawn has returned a session nothing is shared; if it never does,
\* the other threads never exist.
SpawnInv ==
  /\ pc[Owner] = "spawn" => child = "none"
  /\ pc[Owner] \in {"spawn", "abort"} =>
       /\ \A t \in Threads \ {Owner} : pc[t] = "unborn"
       /\ \A t \in Callers : result[t] = NoCode
       /\ ~lifecycle.reaping
  /\ pc[Owner] = "abort" => child \in {"dying", "zombie"}
  /\ \A t \in Callers : pc[t] \notin {"spawn", "abort", "held", "reading", "d_check"}
  /\ pc[Reader] \notin {"spawn", "abort", "held", "idle", "t_child", "d_check"}
  /\ pc[Owner] \notin {"unborn", "reading", "idle", "t_child"}
  /\ child = "none" =>
       pc[Owner] \in {"spawn", "gone"} /\ \A t \in Threads \ {Owner} : pc[t] = "unborn"

\* Who holds which mutex is visible from where the threads are.
LockInv ==
  \A t \in Threads :
    /\ lifecycleLock = t <=> pc[t] \in UsesLifecycle
    /\ childLock = t <=> pc[t] = "w_block"

\* What the lifecycle record says of the child.  Whoever reaped it through the
\* session had announced that before; the holder of lifecycle found nothing
\* announced, and nobody can announce anything while it holds the mutex.
RecordInv ==
  /\ lifecycleLock # NoThread => ~lifecycle.reaping
  /\ \A t \in Threads : pc[t] \in InWait => lifecycle.reaping
  /\ lifecycle.reaped <=> lifecycle.exit_code # NoCode
  /\ lifecycle.reaped => /\ lifecycle.reaping
                         /\ child = "reaped"
                         /\ lifecycle.exit_code = status
  /\ \A t \in Threads : pc[t] = "w_record" => child = "reaped"
  /\ child = "reaped" =>
       \/ lifecycle.reaping
       \/ pc[Owner] = "gone" /\ \A t \in Threads \ {Owner} : pc[t] = "unborn"
  /\ child \in {"zombie", "reaped"} => status # NoCode
  /\ answered # NoCode => lifecycle.exit_code = answered

\* A caller inside a call has a call left to account for.
CallInv ==
  \A t \in Callers : pc[t] \notin {"unborn", "idle", "gone"} => calls[t] > 0

\* Signals and their consequences.
SignalInv ==
  /\ \A t \in Threads : pc[t] = "k_child" => child # "running"
  /\ SignalledMeansDoomed

\* As long as no raw waiter has claimed the child, reaping is announced only of
\* a child that is dead or doomed: the reader and Drop kill before they wait.
ParkInv ==
  (\A r \in RawWaiters : pc[r] \notin InWait) =>
    /\ lifecycle.reaping => child # "running"
    /\ \A t \in Threads \ RawWaiters :
         pc[t] \in InWait \cup {"w_enter", "d_check"} => child # "running"

\* The inductive invariant.
IInv ==
  /\ TypeOK
  /\ SpawnInv
  /\ LockInv
  /\ RecordInv
  /\ CallInv
  /\ SignalInv
  /\ ParkInv
  /\ NoZombieLeft

-----------------------------------------------------------------------------

USE ThreadAssumption, ValueAssumption DEF Threads, KillOutcomes

\* What a return changes: the caller's own account, and the first answer.
LEMMA ReturnEffect ==
  ASSUME TypeOK, NEW t \in Threads, NEW r \in Codes \cup {NoCode} \cup KillOutcomes,
         t \in Callers => calls[t] > 0, Return(t, r)
  PROVE  /\ calls' \in [Callers -> 0..MaxCalls]
         /\ result' \in [Callers -> Codes \cup {NoCode} \cup KillOutcomes]
         /\ answered' \in Codes \cup {NoCode}
         /\ \A u \in Callers \ {t} : calls'[u] = calls[u]
         /\ \A u \in Callers : result'[u] # result[u] => u = t /\ result'[u] = r
         /\ answered' # answered => answered' = r
  BY DEF TypeOK, Return, callerVars

\* Writing the lifecycle record keeps its type.
LEMMA LifecycleTyped ==
  ASSUME TypeOK, NEW t \in Threads,
         TryWaitChild(t) \/ WaitEnter(t) \/ WaitRecord(t)
  PROVE  lifecycle' \in [reaping: BOOLEAN, reaped: BOOLEAN, exit_code: Codes \cup {NoCode}]
<1>1. CASE TryWaitChild(t)
  <2>1. lifecycle' = lifecycle
          \/ lifecycle' = [reaping |-> TRUE, reaped |-> TRUE, exit_code |-> status]
    BY <1>1, Zenon DEF TryWaitChild
  <2>2. [reaping |-> TRUE, reaped |-> TRUE, exit_code |-> status]
          \in [reaping: BOOLEAN, reaped: BOOLEAN, exit_code: Codes \cup {NoCode}]
    BY SMT DEF TypeOK
  <2>3. QED
    BY <2>1, <2>2, Zenon DEF TypeOK
<1>2. CASE WaitEnter(t)
  BY <1>2 DEF TypeOK, WaitEnter
<1>3. CASE WaitRecord(t)
  BY <1>3 DEF TypeOK, WaitRecord
<1>4. QED
  BY <1>1, <1>2, <1>3

\* It holds before spawn.
LEMMA InitIInv == Init => IInv
<1> SUFFICES ASSUME Init PROVE IInv
  OBVIOUS
<1> USE DEF Init
<1>1. TypeOK
  BY DEF TypeOK
<1>2. SpawnInv
  BY DEF SpawnInv
<1>3. LockInv
  BY DEF LockInv, UsesLifecycle
<1>4. RecordInv /\ CallInv
  BY DEF RecordInv, CallInv, InWait
<1>5. SignalInv /\ ParkInv /\ NoZombieLeft
  BY DEF SignalInv, SignalledMeansDoomed, ParkInv, InWait, NoZombieLeft
<1>6. QED
  BY <1>1, <1>2, <1>3, <1>4, <1>5 DEF IInv

\* Every step of every thread, of the child and of the terminal keeps it.
LEMMA StepIInv == IInv /\ [Next]_vars => IInv'
<1> SUFFICES ASSUME IInv, [Next]_vars PROVE IInv'
  OBVIOUS
<1> USE DEF IInv, TypeOK, SpawnInv, LockInv, RecordInv, CallInv, SignalInv, ParkInv,
            NoZombieLeft, SignalledMeansDoomed, UsesLifecycle, InWait
<1>1. CASE SpawnFails
  BY <1>1 DEF SpawnFails, Goto, locks, callerVars
<1>2. CASE SpawnAborts
  BY <1>2 DEF SpawnAborts, Goto, locks, callerVars
<1>3. CASE AbortReaps
  BY <1>3 DEF AbortReaps, Goto, locks, callerVars
<1>4. CASE Spawned
  BY <1>4 DEF Spawned, Goto, locks, callerVars
<1>5. CASE DropStarts
  BY <1>5 DEF DropStarts, Goto, locks, callerVars
<1>6. CASE DropChecks
  BY <1>6 DEF DropChecks, Goto, locks, callerVars
<1>7. CASE ReaderEof
  BY <1>7 DEF ReaderEof, Goto, locks, callerVars
<1>8. ASSUME NEW t \in Callers, TryWaitEnter(t) PROVE IInv'
  BY <1>8 DEF TryWaitEnter, Goto, Return, locks, callerVars
<1>9. ASSUME NEW t \in Callers, CallWait(t) PROVE IInv'
  BY <1>9 DEF CallWait, Goto, locks, callerVars
<1>10. ASSUME NEW t \in Callers, CallKill(t) PROVE IInv'
  BY <1>10 DEF CallKill, Goto, locks, callerVars
<1>11. ASSUME NEW t \in Callers, CallerLeaves(t) PROVE IInv'
  BY <1>11 DEF CallerLeaves, Goto, locks, callerVars
<1>12. ASSUME NEW t \in Threads, TryWaitChild(t) PROVE IInv'
  <2> USE <1>12 DEF TryWaitChild, Goto, Return, locks, callerVars
  <2>1. TypeOK'
    <3>1. lifecycle' \in [reaping: BOOLEAN, reaped: BOOLEAN, exit_code: Codes \cup {NoCode}]
      BY LifecycleTyped
    <3>2. /\ calls' \in [Callers -> 0..MaxCalls]
          /\ result' \in [Callers -> Codes \cup {NoCode} \cup KillOutcomes]
          /\ answered' \in Codes \cup {NoCode}
      OBVIOUS
    <3>3. /\ child' \in {"none", "running", "dying", "zombie", "reaped"}
          /\ status' \in Codes \cup {NoCode}
          /\ lifecycleLock' \in Threads \cup {NoThread}
          /\ childLock' \in Threads \cup {NoThread}
      OBVIOUS
    <3>4. pc' \in [Threads -> {"unborn", "spawn", "abort", "held", "reading", "idle",
                         "t_child", "w_enter", "w_lock", "w_block", "w_record",
                         "k_enter", "k_group", "k_child", "d_check", "gone"}]
      OBVIOUS
    <3>5. QED
      BY <3>1, <3>2, <3>3, <3>4
  <2>2. SpawnInv'
    OBVIOUS
  <2>3. LockInv'
    OBVIOUS
  <2>4. RecordInv'
    OBVIOUS
  <2>5. CallInv'
    OBVIOUS
  <2>6. SignalInv'
    OBVIOUS
  <2>7. ParkInv'
    OBVIOUS
  <2>8. NoZombieLeft'
    OBVIOUS
  <2>9. QED
    BY <2>1, <2>2, <2>3, <2>4, <2>5, <2>6, <2>7, <2>8
<1>13. ASSUME NEW t \in Threads, WaitEnter(t) PROVE IInv'
  <2> USE <1>13 DEF WaitEnter, AfterWait, Goto, Return, locks, callerVars
  <2>1. TypeOK'
    <3>1. lifecycle' \in [reaping: BOOLEAN, reaped: BOOLEAN, exit_code: Codes \cup {NoCode}]
      BY LifecycleTyped
    <3>2. /\ calls' \in [Callers -> 0..MaxCalls]
          /\ result' \in [Callers -> Codes \cup {NoCode} \cup KillOutcomes]
          /\ answered' \in Codes \cup {NoCode}
      OBVIOUS
    <3>3. /\ child' \in {"none", "running", "dying", "zombie", "reaped"}
          /\ status' \in Codes \cup {NoCode}
          /\ lifecycleLock' \in Threads \cup {NoThread}
          /\ childLock' \in Threads \cup {NoThread}
      OBVIOUS
    <3>4. pc' \in [Threads -> {"unborn", "spawn", "abort", "held", "reading", "idle",
                         "t_child", "w_enter", "w_lock", "w_block", "w_record",
                         "k_enter", "k_group", "k_child", "d_check", "gone"}]
      OBVIOUS
    <3>5. QED
      BY <3>1, <3>2, <3>3, <3>4
  <2>2. SpawnInv'
    OBVIOUS
  <2>3. LockInv'
    OBVIOUS
  <2>4. RecordInv'
    OBVIOUS
  <2>5. CallInv'
    OBVIOUS
  <2>6. SignalInv'
    OBVIOUS
  <2>7. ParkInv'
    OBVIOUS
  <2>8. NoZombieLeft'
    OBVIOUS
  <2>9. QED
    BY <2>1, <2>2, <2>3, <2>4, <2>5, <2>6, <2>7, <2>8
<1>14. ASSUME NEW t \in Threads, WaitLockChild(t) PROVE IInv'
  BY <1>14 DEF WaitLockChild, Goto, locks, callerVars
<1>15. ASSUME NEW t \in Threads, WaitReap(t) PROVE IInv'
  BY <1>15 DEF WaitReap, Goto, locks, callerVars
<1>16. ASSUME NEW t \in Threads, WaitRecord(t) PROVE IInv'
  <2> USE <1>16 DEF WaitRecord, AfterWait, Goto, Return, locks, callerVars
  <2>1. TypeOK'
    <3>1. lifecycle' \in [reaping: BOOLEAN, reaped: BOOLEAN, exit_code: Codes \cup {NoCode}]
      BY LifecycleTyped
    <3>2. /\ calls' \in [Callers -> 0..MaxCalls]
          /\ result' \in [Callers -> Codes \cup {NoCode} \cup KillOutcomes]
          /\ answered' \in Codes \cup {NoCode}
      OBVIOUS
    <3>3. /\ child' \in {"none", "running", "dying", "zombie", "reaped"}
          /\ status' \in Codes \cup {NoCode}
          /\ lifecycleLock' \in Threads \cup {NoThread}
          /\ childLock' \in Threads \cup {NoThread}
      OBVIOUS
    <3>4. pc' \in [Threads -> {"unborn", "spawn", "abort", "held", "reading", "idle",
                         "t_child", "w_enter", "w_lock", "w_block", "w_record",
                         "k_enter", "k_group", "k_child", "d_check", "gone"}]
      OBVIOUS
    <3>5. QED
      BY <3>1, <3>2, <3>3, <3>4
  <2>2. SpawnInv'
    OBVIOUS
  <2>3. LockInv'
    OBVIOUS
  <2>4. RecordInv'
    OBVIOUS
  <2>5. CallInv'
    OBVIOUS
  <2>6. SignalInv'
    OBVIOUS
  <2>7. ParkInv'
    OBVIOUS
  <2>8. NoZombieLeft'
    OBVIOUS
  <2>9. QED
    BY <2>1, <2>2, <2>3, <2>4, <2>5, <2>6, <2>7, <2>8
<1>17. ASSUME NEW t \in Threads, KillEnter(t) PROVE IInv'
  <2> USE <1>17 DEF KillEnter, AfterKill, Goto, Return, locks, callerVars
  <2>1. TypeOK'
    OBVIOUS
  <2>2. SpawnInv'
    OBVIOUS
  <2>3. LockInv'
    OBVIOUS
  <2>4. RecordInv'
    OBVIOUS
  <2>5. CallInv'
    OBVIOUS
  <2>6. SignalInv'
    OBVIOUS
  <2>7. ParkInv'
    OBVIOUS
  <2>8. NoZombieLeft'
    OBVIOUS
  <2>9. QED
    BY <2>1, <2>2, <2>3, <2>4, <2>5, <2>6, <2>7, <2>8
<1>18. ASSUME NEW t \in Threads, KillGroup(t) PROVE IInv'
  BY <1>18 DEF KillGroup, Goto, locks, callerVars
<1>19. ASSUME NEW t \in Threads, KillChild(t) PROVE IInv'
  <2> USE <1>19 DEF KillChild, AfterKill, Goto, Return, locks, callerVars
  <2>1. TypeOK'
    OBVIOUS
  <2>2. SpawnInv'
    OBVIOUS
  <2>3. LockInv'
    OBVIOUS
  <2>4. RecordInv'
    OBVIOUS
  <2>5. CallInv'
    OBVIOUS
  <2>6. SignalInv'
    OBVIOUS
  <2>7. ParkInv'
    OBVIOUS
  <2>8. NoZombieLeft'
    OBVIOUS
  <2>9. QED
    BY <2>1, <2>2, <2>3, <2>4, <2>5, <2>6, <2>7, <2>8
<1>20. CASE ChildExits
  BY <1>20 DEF ChildExits, locks, callerVars
<1>21. CASE UNCHANGED vars
  BY <1>21 DEF vars, locks, callerVars
<1>22. QED
  BY <1>1, <1>2, <1>3, <1>4, <1>5, <1>6, <1>7, <1>8, <1>9, <1>10, <1>11, <1>12,
     <1>13, <1>14, <1>15, <1>16, <1>17, <1>18, <1>19, <1>20, <1>21
  DEF Next, Spawning, Dropping, Thread, Terminated

-----------------------------------------------------------------------------

\* The invariant that carries everything below holds in every reachable state.
THEOREM Inductive == Spec => []IInv
  BY InitIInv, StepIInv, PTL DEF Spec

\* Every variable of a PtySession keeps its type, however its callers interleave.
THEOREM TypeCorrect == Spec => []TypeOK
<1>1. IInv => TypeOK
  BY DEF IInv
<1>2. QED
  BY <1>1, Inductive, PTL

\* No signal of kill can reach a process that was given the child's pid after
\* the child was reaped.
THEOREM SignalsAreSafe == Spec => []NoSignalAfterReap
<1>1. IInv => NoSignalAfterReap
  BY DEF IInv, SpawnInv, LockInv, RecordInv, UsesLifecycle, NoSignalAfterReap
<1>2. QED
  BY <1>1, Inductive, PTL

\* try_wait never parks on the child mutex while it holds lifecycle, so kill
\* is never stuck behind it.
THEOREM LockOrder == Spec => []LifecycleHolderNeverParks
<1>1. IInv => LifecycleHolderNeverParks
  BY DEF IInv, TypeOK, LockInv, RecordInv, UsesLifecycle, InWait,
         LifecycleHolderNeverParks
<1>2. QED
  BY <1>1, Inductive, PTL

\* kill's answer Signalled and the end of Drop: the child is doomed, and never
\* left a zombie.
THEOREM ChildIsAccountedFor == Spec => [](SignalledMeansDoomed /\ NoZombieLeft)
<1>1. IInv => SignalledMeansDoomed /\ NoZombieLeft
  BY DEF IInv, SignalInv
<1>2. QED
  BY <1>1, Inductive, PTL

\* Until a raw waiter claims the child, whoever is inside wait() waits for a
\* child that is dead or doomed: reader and Drop never park on a healthy one.
THEOREM NobodyParks == Spec => []NobodyParksOnALiveChild
<1>1. IInv => NobodyParksOnALiveChild
  BY DEF IInv, ParkInv, InWait, NobodyParksOnALiveChild
<1>2. QED
  BY <1>1, Inductive, PTL

\* An exit code, once told, is told again by every later try_wait and wait.
THEOREM AnswersStayTold == Spec => AnswersAreStable
<1>1. ASSUME IInv, [Next]_vars
      PROVE  [\A t \in Callers :
                answered # NoCode /\ calls'[t] < calls[t]
                  => result'[t] \in {answered} \cup KillOutcomes]_vars
  <2> SUFFICES ASSUME Next, NEW t \in Callers, answered # NoCode,
                      calls'[t] < calls[t]
               PROVE  result'[t] \in {answered} \cup KillOutcomes
    BY <1>1
  <2>1. calls \in [Callers -> 0..MaxCalls] /\ result \in [Callers -> Codes \cup {NoCode} \cup KillOutcomes]
    BY <1>1 DEF IInv, TypeOK
  <2>2. /\ lifecycle.exit_code = answered
        /\ lifecycle.exit_code # NoCode => lifecycle.exit_code = status
    BY <1>1 DEF IInv, RecordInv
  <2>3. \A u \in Threads : pc[u] # "t_child"
    BY <1>1, <2>2 DEF IInv, RecordInv, LockInv, UsesLifecycle
  <2>4. PICK r \in {answered} \cup KillOutcomes, u \in Threads : Return(u, r)
    <3>1. CASE \E u \in Callers : TryWaitEnter(u)
      BY <3>1, <2>2 DEF TryWaitEnter, callerVars
    <3>2. CASE \E u \in Threads : WaitEnter(u)
      BY <3>2, <2>2 DEF WaitEnter, callerVars
    <3>3. CASE \E u \in Threads : WaitRecord(u)
      BY <3>3, <2>2 DEF WaitRecord
    <3>4. CASE \E u \in Threads : KillEnter(u)
      BY <3>4, <2>1 DEF KillEnter, callerVars
    <3>5. CASE \E u \in Threads : KillChild(u)
      BY <3>5 DEF KillChild
    <3>6. CASE calls' = calls
      BY <3>6, <2>1
    <3>7. QED
      BY <3>1, <3>2, <3>3, <3>4, <3>5, <3>6, <2>3
      DEF Next, Spawning, Dropping, Thread, Terminated, vars, callerVars,
          SpawnFails, SpawnAborts, AbortReaps, Spawned, DropStarts, DropChecks,
          ReaderEof, CallWait, CallKill, CallerLeaves, TryWaitChild,
          WaitLockChild, WaitReap, KillGroup, ChildExits
  <2>5. QED
    BY <2>1, <2>4 DEF Return, callerVars
<1>2. QED
  BY <1>1, Inductive, PTL DEF Spec, AnswersAreStable

\* What a thread inside a call needs in order to go on: the guards of its next
\* step.  Only whoever is inside waitpid needs something of the child.
CanGoOn(t) ==
  \/ pc[t] \in {"k_group", "k_child"}
  \/ pc[t] \in {"w_enter", "w_record", "k_enter", "d_check"} /\ lifecycleLock = NoThread
  \/ pc[t] \in {"t_child", "w_lock"} /\ childLock = NoThread
  \/ pc[t] = "w_block" /\ child \in {"zombie", "reaped"}

\* Whoever holds lifecycle can go on by itself; whoever holds the child mutex
\* waits at most for the child's end, and nobody else waits for more than one
\* of the two.
WaitsAreShort ==
  /\ lifecycleLock # NoThread => CanGoOn(lifecycleLock)
  /\ childLock # NoThread => \/ CanGoOn(childLock)
                             \/ pc[childLock] = "w_block" /\ child \in {"running", "dying"}
  /\ \A t \in Threads :
       pc[t] \in {"t_child", "w_enter", "w_lock", "w_record", "k_enter", "d_check"} =>
         \/ CanGoOn(t)
         \/ pc[t] = "w_lock" /\ childLock \in Threads \ {t}
         \/ pc[t] # "w_lock" /\ lifecycleLock \in Threads \ {t}

\* No set of callers, however they call, waits in a circle: try_wait, wait, kill
\* and Drop take the two mutexes in an order that cannot lock up, and a kill
\* is never behind a waiter that is parked on the child.
THEOREM NobodyWaitsInACircle == Spec => []WaitsAreShort
<1>1. IInv => WaitsAreShort
  <2> SUFFICES ASSUME IInv PROVE WaitsAreShort
    OBVIOUS
  <2>1. LifecycleHolderNeverParks
    BY DEF IInv, TypeOK, LockInv, RecordInv, UsesLifecycle, InWait, LifecycleHolderNeverParks
  <2>2. lifecycleLock \in Threads \cup {NoThread} /\ childLock \in Threads \cup {NoThread}
        /\ child \in {"none", "running", "dying", "zombie", "reaped"}
    BY DEF IInv, TypeOK
  <2>3. lifecycleLock # NoThread => CanGoOn(lifecycleLock)
    BY <2>1, <2>2 DEF IInv, LockInv, UsesLifecycle, CanGoOn, LifecycleHolderNeverParks
  <2>4. childLock # NoThread => pc[childLock] = "w_block"
    BY <2>2 DEF IInv, LockInv
  <2>5. childLock # NoThread => child # "none"
    BY <2>2, <2>4 DEF IInv, SpawnInv
  <2> QED
    BY <2>1, <2>2, <2>3, <2>4, <2>5 DEF WaitsAreShort, CanGoOn, IInv, LockInv, UsesLifecycle,
       LifecycleHolderNeverParks
<1>2. QED
  BY <1>1, Inductive, PTL

\* Where the reader and Drop are between the kill and the end of the wait.
Reaping == InWait \cup {"k_enter", "k_group", "k_child", "w_enter", "d_check"}

\* While no raw waiter has claimed the child, a reader or a Drop that has begun
\* to reap can go on, or whoever holds the mutex it wants can, or the child
\* has been sent SIGKILL and only has to die.
ReapersGetOn ==
  (\A r \in RawWaiters : pc[r] \notin InWait) =>
    \A t \in {Reader, Owner} : pc[t] \in Reaping =>
      \/ child = "dying"
      \/ CanGoOn(t)
      \/ lifecycleLock # NoThread /\ CanGoOn(lifecycleLock)
      \/ childLock # NoThread /\ CanGoOn(childLock)

\* Reaping never depends on a child that would have to exit by itself: the
\* safety half of ReapingCompletes.
THEOREM NobodyWaitsForAHealthyChild == Spec => []ReapersGetOn
<1>1. IInv /\ WaitsAreShort => ReapersGetOn
  <2> SUFFICES ASSUME IInv, WaitsAreShort, \A r \in RawWaiters : pc[r] \notin InWait,
                      NEW t \in {Reader, Owner}, pc[t] \in Reaping,
                      child # "dying", ~CanGoOn(t)
               PROVE  \/ lifecycleLock # NoThread /\ CanGoOn(lifecycleLock)
                      \/ childLock # NoThread /\ CanGoOn(childLock)
    BY DEF ReapersGetOn
  <2>1. t \in Threads /\ t # NoThread
    OBVIOUS
  <2>2. lifecycleLock \in Threads \cup {NoThread} /\ childLock \in Threads \cup {NoThread}
        /\ child \in {"none", "running", "dying", "zombie", "reaped"}
    BY DEF IInv, TypeOK
  <2>3. ASSUME NEW u \in Threads, pc[u] = "w_block"
        PROVE  childLock = u /\ CanGoOn(u)
    <3>1. childLock = u
      BY <2>3 DEF IInv, LockInv
    <3>2. lifecycle.reaping /\ child # "running"
      BY <2>3 DEF IInv, RecordInv, ParkInv, InWait
    <3>3. child # "none"
      BY <2>3 DEF IInv, SpawnInv
    <3> QED
      BY <2>2, <2>3, <3>1, <3>2, <3>3 DEF CanGoOn
  <2>4. CASE pc[t] = "w_lock"
    <3>1. childLock \in Threads \ {t}
      BY <2>1, <2>4 DEF WaitsAreShort
    <3>2. pc[childLock] = "w_block"
      BY <3>1 DEF IInv, LockInv
    <3> QED
      BY <2>3, <3>1, <3>2
  <2>5. CASE pc[t] = "w_block"
    BY <2>1, <2>3, <2>5
  <2>6. CASE pc[t] \in {"w_enter", "w_record", "k_enter", "d_check"}
    <3>1. lifecycleLock \in Threads \ {t}
      BY <2>1, <2>6 DEF WaitsAreShort
    <3> QED
      BY <3>1 DEF WaitsAreShort
  <2>7. CASE pc[t] \in {"k_group", "k_child"}
    BY <2>7 DEF CanGoOn
  <2> QED
    BY <2>4, <2>5, <2>6, <2>7 DEF Reaping, InWait
<1>2. QED
  BY <1>1, Inductive, NobodyWaitsInACircle, PTL
=============================================================================
