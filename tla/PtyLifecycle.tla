---------------------------- MODULE PtyLifecycle ----------------------------
(***************************************************************************)
(* The life of one pseudo-terminal child as PtySession guards it           *)
(* (suaegi-term/src/pty.rs): spawn, try_wait, wait, kill and Drop, called  *)
(* by any number of threads that share the session through an Arc.         *)
(*                                                                         *)
(* Two mutexes matter.  "lifecycle" protects what is known of the child    *)
(* (reaping, reaped, exit_code) and also encloses the sending of signals;  *)
(* "child" is held by whoever is inside waitpid.  Each action below is one *)
(* stretch of code between two points at which another thread can observe  *)
(* or block the caller.  The third mutex, "killer", is only ever taken     *)
(* under lifecycle and so is never contended.                              *)
(*                                                                         *)
(* A definition whose comment begins with "Slip:" is no part of Next: it   *)
(* is a plausible mistake in the definition after it, which some property  *)
(* below must detect.                                                      *)
(***************************************************************************)
EXTENDS Naturals

CONSTANTS
  Callers,     \* threads that share the session and call its operations
  Reader,      \* the reader thread: on EOF it kills, then waits, then leaves
  Owner,       \* whoever spawns the session and drops the last reference
  RawWaiters,  \* the callers that call wait() directly; empty in the product
  NoThread,    \* "this mutex is free"
  Codes,       \* exit codes
  NoCode,      \* Option::None
  MaxCalls     \* bound on the calls one caller makes

KillOutcomes == {"Signalled", "SuppressedAfterReap"}

ASSUME ThreadAssumption ==
  /\ Reader \notin Callers /\ Owner \notin Callers /\ Reader # Owner
  /\ NoThread \notin Callers \cup {Reader, Owner}
  /\ RawWaiters \subseteq Callers

ASSUME ValueAssumption ==
  /\ NoCode \notin Codes \cup KillOutcomes
  /\ Codes \cap KillOutcomes = {}
  /\ Codes # {}
  /\ MaxCalls \in Nat

Threads == Callers \cup {Reader, Owner}
VARIABLES
  child,      \* the kernel's view: none, running, dying (SIGKILL sent), zombie, reaped
  status,     \* the code the kernel reports once the child has exited
  lifecycle,  \* the fields of struct Lifecycle
  lifecycleLock,
  childLock,
  pc,         \* where each thread is
  calls,      \* calls each caller may still make
  result,     \* what each caller's last call returned
  answered    \* history: the first exit code any call returned

locks == <<lifecycleLock, childLock>>
callerVars == <<calls, result, answered>>
vars == <<child, status, lifecycle, locks, pc, callerVars>>

-----------------------------------------------------------------------------

Init ==
  /\ child = "none"
  /\ status = NoCode
  /\ lifecycle = [reaping |-> FALSE, reaped |-> FALSE, exit_code |-> NoCode]
  /\ lifecycleLock = NoThread
  /\ childLock = NoThread
  /\ pc = [t \in Threads |-> IF t = Owner THEN "spawn" ELSE "unborn"]
  /\ calls = [t \in Callers |-> MaxCalls]
  /\ result = [t \in Callers |-> NoCode]
  /\ answered = NoCode

Goto(t, l) == pc' = [pc EXCEPT ![t] = l]

\* A caller's call returns r; codes are remembered as answers.
Return(t, r) ==
  IF t \in Callers
  THEN /\ calls' = [calls EXCEPT ![t] = @ - 1]
       /\ result' = [result EXCEPT ![t] = r]
       /\ answered' = IF answered = NoCode /\ r \in Codes THEN r ELSE answered
  ELSE UNCHANGED callerVars

AfterKill(t) ==
  IF t = Reader THEN "w_enter" ELSE IF t = Owner THEN "d_check" ELSE "idle"

AfterWait(t) == IF t \in Callers THEN "idle" ELSE "gone"

-----------------------------------------------------------------------------
\* PtySession::spawn

\* openpty (after its retries) or spawn_command failed: there is no child.
SpawnFails ==
  /\ pc[Owner] = "spawn"
  /\ Goto(Owner, "gone")
  /\ UNCHANGED <<child, status, lifecycle, locks, callerVars>>

\* The child runs but the reader or the writer cannot be had: abort_child
\* signals the group at once and then waits, holding the child by itself.
SpawnAborts ==
  /\ pc[Owner] = "spawn"
  /\ child' = "dying"
  /\ Goto(Owner, "abort")
  /\ UNCHANGED <<status, lifecycle, locks, callerVars>>

AbortReaps ==
  /\ pc[Owner] = "abort"
  /\ child = "zombie"
  /\ child' = "reaped"
  /\ Goto(Owner, "gone")
  /\ UNCHANGED <<status, lifecycle, locks, callerVars>>

\* The session exists.  A bare PtySession has no reader thread.
Spawned ==
  /\ pc[Owner] = "spawn"
  /\ child' = "running"
  /\ \E r \in {"reading", "gone"} :
       pc' = [t \in Threads |-> IF t = Owner THEN "held"
                                ELSE IF t = Reader THEN r ELSE "idle"]
  /\ UNCHANGED <<status, lifecycle, locks, callerVars>>

-----------------------------------------------------------------------------
\* PtySession::try_wait, under lifecycle from beginning to end

\* Slip: asks for the child although another thread announced reaping.
TryWaitEnterIgnoringReaping(t) ==
  /\ t \in Callers /\ pc[t] = "idle" /\ calls[t] > 0
  /\ lifecycleLock = NoThread
  /\ IF lifecycle.exit_code # NoCode
     THEN /\ Return(t, lifecycle.exit_code)
          /\ UNCHANGED <<lifecycleLock, pc>>
     ELSE /\ lifecycleLock' = t
          /\ Goto(t, "t_child")
          /\ UNCHANGED callerVars
  /\ UNCHANGED <<child, status, lifecycle, childLock>>

TryWaitEnter(t) ==
  /\ t \in Callers /\ pc[t] = "idle" /\ calls[t] > 0
  /\ lifecycleLock = NoThread
  /\ IF lifecycle.exit_code # NoCode \/ lifecycle.reaping
     THEN /\ Return(t, lifecycle.exit_code)
          /\ UNCHANGED <<lifecycleLock, pc>>
     ELSE /\ lifecycleLock' = t
          /\ Goto(t, "t_child")
          /\ UNCHANGED callerVars
  /\ UNCHANGED <<child, status, lifecycle, childLock>>

\* child.lock(); child.try_wait(); both guards are dropped on return.
TryWaitChild(t) ==
  /\ pc[t] = "t_child"
  /\ childLock = NoThread
  /\ IF child = "zombie"
     THEN /\ child' = "reaped"
          /\ lifecycle' = [reaping |-> TRUE, reaped |-> TRUE, exit_code |-> status]
          /\ Return(t, status)
     ELSE /\ Return(t, NoCode)
          /\ UNCHANGED <<child, lifecycle>>
  /\ lifecycleLock' = NoThread
  /\ Goto(t, "idle")
  /\ UNCHANGED <<status, childLock>>

-----------------------------------------------------------------------------
\* PtySession::wait

CallWait(t) ==
  /\ t \in RawWaiters /\ pc[t] = "idle" /\ calls[t] > 0
  /\ Goto(t, "w_enter")
  /\ UNCHANGED <<child, status, lifecycle, locks, callerVars>>

\* Slip: keeps lifecycle for the whole of the wait.
WaitEnterKeepingLifecycle(t) ==
  /\ pc[t] = "w_enter"
  /\ lifecycleLock = NoThread
  /\ lifecycle' = [lifecycle EXCEPT !.reaping = TRUE]
  /\ lifecycleLock' = t
  /\ Goto(t, "w_lock")
  /\ UNCHANGED <<child, status, childLock, callerVars>>

\* The first block: return a known code, or announce the reaping.
WaitEnter(t) ==
  /\ pc[t] = "w_enter"
  /\ lifecycleLock = NoThread
  /\ IF lifecycle.exit_code # NoCode
     THEN /\ Return(t, lifecycle.exit_code)
          /\ Goto(t, AfterWait(t))
          /\ UNCHANGED lifecycle
     ELSE /\ lifecycle' = [lifecycle EXCEPT !.reaping = TRUE]
          /\ Goto(t, "w_lock")
          /\ UNCHANGED callerVars
  /\ UNCHANGED <<child, status, locks>>

WaitLockChild(t) ==
  /\ pc[t] = "w_lock"
  /\ childLock = NoThread
  /\ childLock' = t
  /\ Goto(t, "w_block")
  /\ UNCHANGED <<child, status, lifecycle, lifecycleLock, callerVars>>

\* waitpid returns, or the handle returns the status it cached before; the
\* guard of "child" is dropped at the end of its block.
WaitReap(t) ==
  /\ pc[t] = "w_block"
  /\ child \in {"zombie", "reaped"}
  /\ child' = "reaped"
  /\ childLock' = NoThread
  /\ Goto(t, "w_record")
  /\ UNCHANGED <<status, lifecycle, lifecycleLock, callerVars>>

\* Slip: remembers that the child was reaped, but not with which code.
WaitRecordWithoutCode(t) ==
  /\ pc[t] = "w_record"
  /\ lifecycleLock = NoThread
  /\ lifecycle' = [lifecycle EXCEPT !.reaped = TRUE]
  /\ Return(t, status)
  /\ Goto(t, AfterWait(t))
  /\ UNCHANGED <<child, status, locks>>

WaitRecord(t) ==
  /\ pc[t] = "w_record"
  /\ lifecycleLock = NoThread
  /\ lifecycle' = [lifecycle EXCEPT !.reaped = TRUE, !.exit_code = status]
  /\ Return(t, status)
  /\ Goto(t, AfterWait(t))
  /\ UNCHANGED <<child, status, locks>>

-----------------------------------------------------------------------------
\* PtySession::kill

CallKill(t) ==
  /\ t \in Callers /\ pc[t] = "idle" /\ calls[t] > 0
  /\ Goto(t, "k_enter")
  /\ UNCHANGED <<child, status, lifecycle, locks, callerVars>>

\* Slip: signals although a waiter may be reaping at this moment.
KillEnterIgnoringReaping(t) ==
  /\ pc[t] = "k_enter"
  /\ lifecycleLock = NoThread
  /\ IF lifecycle.reaped
     THEN /\ Return(t, "SuppressedAfterReap")
          /\ Goto(t, AfterKill(t))
          /\ UNCHANGED lifecycleLock
     ELSE /\ lifecycleLock' = t
          /\ Goto(t, "k_group")
          /\ UNCHANGED callerVars
  /\ UNCHANGED <<child, status, lifecycle, childLock>>

KillEnter(t) ==
  /\ pc[t] = "k_enter"
  /\ lifecycleLock = NoThread
  /\ IF lifecycle.reaping \/ lifecycle.reaped
     THEN /\ Return(t, "SuppressedAfterReap")
          /\ Goto(t, AfterKill(t))
          /\ UNCHANGED lifecycleLock
     ELSE /\ lifecycleLock' = t
          /\ Goto(t, "k_group")
          /\ UNCHANGED callerVars
  /\ UNCHANGED <<child, status, lifecycle, childLock>>

\* Slip: sends only a signal that the child may ignore.
KillGroupIgnorable(t) ==
  /\ pc[t] = "k_group"
  /\ Goto(t, "k_child")
  /\ UNCHANGED <<child, status, lifecycle, locks, callerVars>>

\* killpg(SIGKILL): a running child is doomed, a zombie does not notice.
KillGroup(t) ==
  /\ pc[t] = "k_group"
  /\ child' = IF child = "running" THEN "dying" ELSE child
  /\ Goto(t, "k_child")
  /\ UNCHANGED <<status, lifecycle, locks, callerVars>>

\* killer.kill(), then the lifecycle guard is dropped.
KillChild(t) ==
  /\ pc[t] = "k_child"
  /\ lifecycleLock' = NoThread
  /\ Return(t, "Signalled")
  /\ Goto(t, AfterKill(t))
  /\ UNCHANGED <<child, status, lifecycle, childLock>>

-----------------------------------------------------------------------------
\* The reader's end of file, the references, and Drop

\* Slip: waits for the child without killing it first.
ReaderEofWithoutKill ==
  /\ pc[Reader] = "reading"
  /\ Goto(Reader, "w_enter")
  /\ UNCHANGED <<child, status, lifecycle, locks, callerVars>>

\* The child has exited, or has closed its side of the terminal while alive.
ReaderEof ==
  /\ pc[Reader] = "reading"
  /\ Goto(Reader, "k_enter")
  /\ UNCHANGED <<child, status, lifecycle, locks, callerVars>>

CallerLeaves(t) ==
  /\ t \in Callers /\ pc[t] = "idle"
  /\ Goto(t, "gone")
  /\ UNCHANGED <<child, status, lifecycle, locks, callerVars>>

\* Drop runs when the last Arc goes: it kills first.
DropStarts ==
  /\ pc[Owner] = "held"
  /\ \A t \in Threads \ {Owner} : pc[t] = "gone"
  /\ Goto(Owner, "k_enter")
  /\ UNCHANGED <<child, status, lifecycle, locks, callerVars>>

\* Slip: relies on the kill alone and never waits.
DropWithoutWait ==
  /\ pc[Owner] = "d_check"
  /\ lifecycleLock = NoThread
  /\ Goto(Owner, "gone")
  /\ UNCHANGED <<child, status, lifecycle, locks, callerVars>>

DropChecks ==
  /\ pc[Owner] = "d_check"
  /\ lifecycleLock = NoThread
  /\ Goto(Owner, IF lifecycle.reaped THEN "gone" ELSE "w_enter")
  /\ UNCHANGED <<child, status, lifecycle, locks, callerVars>>

-----------------------------------------------------------------------------
\* The operating system

ChildExits ==
  /\ child \in {"running", "dying"}
  /\ child' = "zombie"
  /\ status' \in Codes
  /\ UNCHANGED <<lifecycle, locks, pc, callerVars>>

\* The session is gone; nothing is left to run.
Terminated ==
  /\ pc[Owner] = "gone"
  /\ UNCHANGED vars

Thread(t) ==
  \/ TryWaitChild(t)
  \/ WaitEnter(t) \/ WaitLockChild(t) \/ WaitReap(t) \/ WaitRecord(t)
  \/ KillEnter(t) \/ KillGroup(t) \/ KillChild(t)

Spawning == SpawnFails \/ SpawnAborts \/ AbortReaps \/ Spawned
Dropping == DropStarts \/ DropChecks

Next ==
  \/ Spawning
  \/ Dropping
  \/ ReaderEof
  \/ \E t \in Callers :
       TryWaitEnter(t) \/ CallWait(t) \/ CallKill(t) \/ CallerLeaves(t)
  \/ \E t \in Threads : Thread(t)
  \/ ChildExits
  \/ Terminated

Spec == Init /\ [][Next]_vars

\* Threads inside a call keep running, and a child that was sent SIGKILL
\* dies.  Nothing obliges a child to exit by itself, the terminal to reach
\* end of file, or a caller to call.
Fairness ==
  /\ WF_vars(AbortReaps) /\ WF_vars(Dropping)
  /\ \A t \in Threads : WF_vars(Thread(t))
  /\ WF_vars(child = "dying" /\ ChildExits)

FairSpec == Spec /\ Fairness

-----------------------------------------------------------------------------

\* Between the announcement of reaping and the recording of the code.
InWait == {"w_lock", "w_block", "w_record"}

\* Every variable is in range.
TypeOK ==
  /\ child \in {"none", "running", "dying", "zombie", "reaped"}
  /\ status \in Codes \cup {NoCode}
  /\ lifecycle \in [reaping: BOOLEAN, reaped: BOOLEAN, exit_code: Codes \cup {NoCode}]
  /\ lifecycleLock \in Threads \cup {NoThread}
  /\ childLock \in Threads \cup {NoThread}
  /\ pc \in [Threads -> {"unborn", "spawn", "abort", "held", "reading", "idle",
                         "t_child", "w_enter", "w_lock", "w_block", "w_record",
                         "k_enter", "k_group", "k_child", "d_check", "gone"}]
  /\ calls \in [Callers -> 0..MaxCalls]
  /\ result \in [Callers -> Codes \cup {NoCode} \cup KillOutcomes]
  /\ answered \in Codes \cup {NoCode}

\* A thread that has decided to signal finds the child still unreaped when it
\* does: the pid and the process group cannot have been given to a stranger
\* (kill holds lifecycle across the check and both signals).
NoSignalAfterReap ==
  \A t \in Threads : pc[t] \in {"k_group", "k_child"} => child # "reaped"

\* The lock order rule of PtySession: try_wait asks for "child" while it holds
\* lifecycle, and is never made to wait for it.
LifecycleHolderNeverParks ==
  \A t \in Threads : pc[t] = "t_child" => childLock = NoThread

\* kill says Signalled only of a child that a signal reached: whoever gets
\* that answer may rely on the child's death.
SignalledMeansDoomed ==
  \A t \in Callers : result[t] = "Signalled" => child # "running"

\* Unless a raw waiter has announced reaping of a healthy child, nobody sits in
\* waitpid for a child that was neither signalled nor has exited: finish_reader
\* and Drop kill before they wait, and a suppressed kill means that the child
\* is already gone.
NobodyParksOnALiveChild ==
  (\A t \in RawWaiters : pc[t] \notin InWait)
    => \A t \in Threads : pc[t] = "w_block" => child # "running"

\* When the last reference is gone, so is the zombie, on every path out of
\* spawn and Drop.
NoZombieLeft ==
  pc[Owner] = "gone" => child \in {"none", "reaped"}

\* Once any call has told an exit code, every later try_wait or wait tells the
\* same one; it never falls back to None.
AnswersAreStable ==
  [][\A t \in Callers :
       answered # NoCode /\ calls'[t] < calls[t]
         => result'[t] \in {answered} \cup KillOutcomes]_vars

\* kill returns although a waiter is parked on a child that never exits.
KillReturns ==
  \A t \in Callers : pc[t] = "k_enter" ~> pc[t] = "idle"

\* The reader's shutdown and Drop, once begun, come to an end, or a raw waiter
\* has claimed the child and its exit is not theirs to force any more.
ReapingCompletes ==
  \A t \in {Reader, Owner} :
    pc[t] = "k_enter" ~> pc[t] = "gone" \/ \E r \in RawWaiters : pc[r] \in InWait
=============================================================================
