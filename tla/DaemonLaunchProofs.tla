------------------------- MODULE DaemonLaunchProofs -------------------------
(* The daemon has a single instance as long as no takeover removes a lock    *)
(* that it has not read, for any number of processes, daemons and crashes.   *)
EXTENDS DaemonLaunch, TLAPS

Places == Launching \cup
    {"idle", "start", "lock", "wait", "takeover", "ask", "kill", "terminate", "await",
     "back", "dead"}
Stages == Binding \cup {"unborn", "starting", "unlinked", "cleared", "gone"}

\* The range of the variables the argument is about.
LaunchType ==
    /\ pc \in [Procs -> Places] /\ dpc \in [Daemons -> Stages]
    /\ lock \in Procs \cup {None} /\ sock \in Daemons \cup {None}
    /\ read \in [Procs -> Procs \cup {None}] /\ stolen \in BOOLEAN

\* A takeover is about no lock or about a dead process's.
TakersReadTheDead ==
    \A p \in Procs : pc[p] = "takeover" =>
        read[p] = None \/ (read[p] \in Procs /\ pc[read[p]] = "dead")

\* There is one launcher, and the lock is its own.
LauncherHasTheLock ==
    ~stolen => \A p \in Procs : pc[p] \in Launching => lock = p

\* The socket that a launcher is about to remove is a dead daemon's, and it
\* keeps every other daemon from binding.
ClearedSocketIsDead ==
    ~stolen => \A p \in Procs : pc[p] = "clear" => sock # None /\ ~Listening(sock)

LaunchInv ==
    /\ LaunchType /\ TakersReadTheDead /\ LauncherHasTheLock
    /\ ClearedSocketIsDead /\ SocketIsTheServers


-----------------------------------------------------------------------------
\* Nobody has called and no daemon runs in the beginning.
LEMMA LaunchInit == Init => LaunchInv
  BY NoneAssumption DEF Init, LaunchInv, LaunchType, Places, Stages, Launching, Binding,
     TakersReadTheDead, LauncherHasTheLock, ClearedSocketIsDead, SocketIsTheServers

\* The steps of ensure_daemon and restart that leave the lock, the files and
\* the daemons alone.
LEMMA LocalSteps ==
  ASSUME LaunchInv, NEW p \in Procs,
         Ensure(p) \/ Restart(p) \/ Probe(p) \/ WaitAnswered(p) \/ WritePid(p)
           \/ Recheck(p) \/ Check(p) \/ SpawnFails(p) \/ Ready(p) \/ AskFails(p) \/ Kill(p)
           \/ Await(p)
           \/ ProcessDies(p)
  PROVE  LaunchInv'
<1> USE NoneAssumption
<1>1. /\ UNCHANGED <<dpc, lock, sock, read, stolen>>
      /\ \E at \in Places \ {"takeover"} : pc' = [pc EXCEPT ![p] = at]
      /\ pc'[p] \in Launching => pc[p] \in Launching
      /\ pc'[p] = "clear" => sock # None /\ ~Listening(sock)
      /\ pc[p] = "dead" => pc'[p] = "dead"
  BY DEF LaunchInv, LaunchType, Ensure, Restart, Probe, WaitAnswered, WritePid, Recheck, Check,
     SpawnFails, Ready, AskFails, Kill, Sweep, Await, ProcessDies, Go, Succeed, Places, Launching,
     Connects, Answers, files, local, Alive
<1>2. LaunchType'
  BY <1>1 DEF LaunchInv, LaunchType
<1>3. TakersReadTheDead'
  BY <1>1 DEF LaunchInv, LaunchType, TakersReadTheDead
<1>4. LauncherHasTheLock'
  BY <1>1 DEF LaunchInv, LaunchType, LauncherHasTheLock
<1>5. ClearedSocketIsDead'
  BY <1>1 DEF LaunchInv, LaunchType, ClearedSocketIsDead, Listening
<1>6. SocketIsTheServers'
  BY <1>1 DEF LaunchInv, SocketIsTheServers
<1> QED
  BY <1>2, <1>3, <1>4, <1>5, <1>6 DEF LaunchInv

\* The steps that take, judge, take over and drop the launch lock.
LEMMA LockSteps ==
  ASSUME LaunchInv, NEW p \in Procs,
         TryLock(p) \/ Judge(p) \/ TakeOver(p) \/ Release(p)
  PROVE  LaunchInv'
<1> USE NoneAssumption
<1>1. UNCHANGED <<dpc, sock>> /\ pc'[p] # "clear" /\ pc[p] # "dead"
  BY DEF LaunchInv, LaunchType, TryLock, Judge, TakeOver, Release, Go, Succeed, Fail, files
<1>2. CASE TryLock(p)
  <2>1. LaunchType' /\ TakersReadTheDead'
    BY <1>2 DEF LaunchInv, LaunchType, TakersReadTheDead, TryLock, Go, Places, Launching, local
  <2>2. LauncherHasTheLock'
    BY <1>2 DEF LaunchInv, LaunchType, LauncherHasTheLock, TryLock, Go, Launching
  <2>3. ClearedSocketIsDead' /\ SocketIsTheServers'
    BY <1>1, <1>2 DEF LaunchInv, LaunchType, ClearedSocketIsDead, SocketIsTheServers, TryLock, Go,
       Listening
  <2> QED  BY <2>1, <2>2, <2>3 DEF LaunchInv
<1>3. CASE Judge(p)
  <2> DEFINE seen == Owner
  <2>11. seen \in Procs \cup {None}
    BY DEF LaunchInv, LaunchType, Owner
  <2>12. \/ /\ \E at \in {"back", "terminate"} : pc' = [pc EXCEPT ![p] = at]
           /\ read' = read
        \/ /\ pc' = [pc EXCEPT ![p] = "takeover"] /\ read' = [read EXCEPT ![p] = seen]
           /\ seen = None \/ pc[seen] = "dead"
    BY <1>3 DEF Judge, Alive, Go, Fail
  <2>13. UNCHANGED <<lock, stolen>> /\ pc[p] = "wait"
    BY <1>3 DEF Judge, files
  <2> HIDE DEF seen
  <2>1. LaunchType' /\ TakersReadTheDead'
    BY <1>1, <2>11, <2>12, <2>13 DEF LaunchInv, LaunchType, TakersReadTheDead, Places
  <2>2. LauncherHasTheLock'
    BY <1>3 DEF LaunchInv, LaunchType, LauncherHasTheLock, Judge, Go, Fail, Launching, files
  <2>3. ClearedSocketIsDead' /\ SocketIsTheServers'
    BY <1>1, <1>3 DEF LaunchInv, LaunchType, ClearedSocketIsDead, SocketIsTheServers, Judge, Go,
       Fail, Listening
  <2> QED  BY <2>1, <2>2, <2>3 DEF LaunchInv
<1>4. CASE TakeOver(p)
  <2>1. LaunchType' /\ TakersReadTheDead'
    BY <1>4 DEF LaunchInv, LaunchType, TakersReadTheDead, TakeOver, Go, Fail, Places
  <2>2. ~stolen' => \A q \in Procs : pc[q] \notin Launching
    BY <1>4 DEF LaunchInv, LaunchType, TakersReadTheDead, LauncherHasTheLock, TakeOver, Launching
  <2>3. LauncherHasTheLock'
    BY <1>4, <2>2 DEF LaunchInv, LaunchType, LauncherHasTheLock, TakeOver, Go, Fail, Launching
  <2>4. ClearedSocketIsDead' /\ SocketIsTheServers'
    BY <1>1, <1>4 DEF LaunchInv, LaunchType, ClearedSocketIsDead, SocketIsTheServers, TakeOver, Go,
       Fail, Listening
  <2> QED  BY <2>1, <2>3, <2>4 DEF LaunchInv
<1>5. CASE Release(p)
  <2>1. LaunchType' /\ TakersReadTheDead'
    BY <1>5 DEF LaunchInv, LaunchType, TakersReadTheDead, Release, Go, Succeed, Fail, Places, local
  <2>2. LauncherHasTheLock'
    BY <1>5 DEF LaunchInv, LaunchType, LauncherHasTheLock, Release, Go, Succeed, Fail, Launching
  <2>3. ClearedSocketIsDead' /\ SocketIsTheServers'
    BY <1>1, <1>5 DEF LaunchInv, LaunchType, ClearedSocketIsDead, SocketIsTheServers, Release, Go,
       Succeed, Fail, Listening
  <2> QED  BY <2>1, <2>2, <2>3 DEF LaunchInv
<1> QED
  BY <1>2, <1>3, <1>4, <1>5

\* The launcher that removes the socket is the only one, and the daemon that
\* bound it is dead: no other daemon has it bound.
LEMMA ClearStep ==
  ASSUME LaunchInv, NEW p \in Procs, Clear(p)
  PROVE  LaunchInv'
<1> USE NoneAssumption
<1>1. LaunchType' /\ TakersReadTheDead' /\ LauncherHasTheLock'
  BY DEF LaunchInv, LaunchType, TakersReadTheDead, LauncherHasTheLock, Clear, Go, Places,
     Launching, local
<1>2. ClearedSocketIsDead'
  BY DEF LaunchInv, LaunchType, LauncherHasTheLock, ClearedSocketIsDead, Clear, Go, Launching
<1>3. SocketIsTheServers'
  BY DEF LaunchInv, LaunchType, ClearedSocketIsDead, SocketIsTheServers, Clear, Listening
<1> QED
  BY <1>1, <1>2, <1>3 DEF LaunchInv

\* The steps of a process that change a daemon's stage: it is born, told to
\* stop or killed, none of which makes it listen.
LEMMA DaemonOrders ==
  ASSUME LaunchInv, NEW p \in Procs,
         (\E d \in Daemons : Spawn(p, d)) \/ Shutdown(p) \/ Terminate(p)
  PROVE  LaunchInv'
<1> USE NoneAssumption
<1>1. /\ UNCHANGED <<lock, sock, read, stolen>>
      /\ \E at \in Places \ {"takeover", "clear"} : pc' = [pc EXCEPT ![p] = at]
      /\ pc'[p] \in Launching => pc[p] \in Launching
      /\ pc[p] # "dead"
  BY DEF LaunchInv, LaunchType, Spawn, Shutdown, Sweep, Terminate, Go, Places, Launching, files, local
<1>2. /\ dpc' \in [Daemons -> Stages]
      /\ \A d \in Daemons : dpc'[d] \in Binding => dpc[d] \in Binding
      /\ \A d \in Daemons : Listening(d)' => Listening(d)
  BY DEF LaunchInv, LaunchType, Spawn, Shutdown, Terminate, Daemon, Stages, Binding, Listening
<1>3. LaunchType' /\ TakersReadTheDead' /\ LauncherHasTheLock'
  BY <1>1, <1>2 DEF LaunchInv, LaunchType, TakersReadTheDead, LauncherHasTheLock
<1>4. ClearedSocketIsDead'
  BY <1>1, <1>2 DEF LaunchInv, LaunchType, ClearedSocketIsDead
<1>5. SocketIsTheServers'
  BY <1>1, <1>2 DEF LaunchInv, SocketIsTheServers
<1> QED
  BY <1>3, <1>4, <1>5 DEF LaunchInv

\* A daemon's own steps: it binds where no file is and removes its own.
LEMMA DaemonSteps ==
  ASSUME LaunchInv, NEW d \in Daemons, DaemonStep(d) \/ DaemonDies(d) \/ AcceptFails(d)
  PROVE  LaunchInv'
<1> USE NoneAssumption
<1>1. /\ UNCHANGED <<pc, lock, read, stolen>>
      /\ \E at \in Stages : dpc' = [dpc EXCEPT ![d] = at]
      /\ dpc'[d] \in Binding => dpc[d] \in Binding \/ (sock = None /\ sock' = d)
      /\ Listening(d)' => Listening(d) \/ sock = None
      /\ \/ sock' = sock
         \/ sock = None /\ sock' = d
         \/ dpc[d] = "ours" /\ sock' = None /\ dpc'[d] = "unlinked"
  BY DEF LaunchInv, LaunchType, DaemonStep, DaemonDies, AcceptFails, Bind, Record, Identify, Wake,
     CheckNonce, RemoveSocket, RemovePid, RemoveIdentity, Daemon, Stages, Binding, Listening,
     files, local
<1>2. LaunchType' /\ TakersReadTheDead' /\ LauncherHasTheLock'
  BY <1>1 DEF LaunchInv, LaunchType, TakersReadTheDead, LauncherHasTheLock
<1>3. ClearedSocketIsDead'
  BY <1>1 DEF LaunchInv, LaunchType, ClearedSocketIsDead, SocketIsTheServers, Listening, Binding
<1>4. SocketIsTheServers'
  BY <1>1 DEF LaunchInv, LaunchType, SocketIsTheServers, Binding
<1> QED
  BY <1>2, <1>3, <1>4 DEF LaunchInv

-----------------------------------------------------------------------------
\* The argument's invariant is inductive.
LEMMA LaunchInvariant == Spec => []LaunchInv
<1>1. LaunchInv /\ [Next]_vars => LaunchInv'
  <2> SUFFICES ASSUME LaunchInv, [Next]_vars PROVE LaunchInv'
    OBVIOUS
  <2>1. CASE UNCHANGED vars
    BY <2>1 DEF vars, files, local, LaunchInv, LaunchType, TakersReadTheDead,
       LauncherHasTheLock, ClearedSocketIsDead, SocketIsTheServers, Listening
  <2>2. ASSUME NEW p \in Procs,
               Ensure(p) \/ Restart(p) \/ ProcessStep(p) \/ ProcessDies(p)
        PROVE  LaunchInv'
    BY <2>2, LocalSteps, LockSteps, ClearStep, DaemonOrders DEF ProcessStep
  <2>3. ASSUME NEW d \in Daemons, DaemonStep(d) \/ DaemonDies(d) \/ AcceptFails(d)
        PROVE  LaunchInv'
    BY <2>3, DaemonSteps
  <2> QED
    BY <2>1, <2>2, <2>3 DEF Next
<1> QED
  BY LaunchInit, <1>1, PTL DEF Spec

\* As long as every takeover removes the lock it has read, a daemon that has
\* bound the fixed socket is reachable at it: there is a single instance.
THEOREM SingleInstance == Spec => []SocketIsTheServers
<1>1. LaunchInv => SocketIsTheServers
  BY DEF LaunchInv
<1> QED
  BY <1>1, LaunchInvariant, PTL

\* At most one process is between creating the launch lock and dropping it, and
\* at most one daemon between binding the socket and removing it.
OneAtATime ==
    ~stolen =>
        /\ \A p, q \in Procs : pc[p] \in Launching /\ pc[q] \in Launching => p = q
        /\ \A d, e \in Daemons : dpc[d] \in Binding /\ dpc[e] \in Binding => d = e

\* The launch lock excludes and the socket is unique, whoever dies with either
\* and whoever takes over from the dead.
THEOREM LaunchersExclude == Spec => []OneAtATime
<1>1. LaunchInv => OneAtATime
  BY DEF LaunchInv, LauncherHasTheLock, SocketIsTheServers, OneAtATime
<1> QED
  BY <1>1, LaunchInvariant, PTL

-----------------------------------------------------------------------------
(* Calls and their locks                                                   *)

\* The locks of what p has still to do after the ensure_daemon it is in: all
\* connections that kill_all_sessions may make, and restart's last call.
Later(p) == IF known[p] = None THEN 0 ELSE MaxSweeps - sweeps[p] + 1

\* The launch locks that p's call may still create, one in each of its calls of
\* ensure_daemon: Shutdown's connection, at most MaxSweeps of
\* kill_all_sessions, and the last, before which known[p] is cleared.
Locks(p) ==
    CASE pc[p] = "idle" -> MaxSweeps + 2
      [] pc[p] \in {"start", "lock", "wait", "takeover"} -> 1 + Later(p)
      [] pc[p] \in Launching -> Later(p)
      [] pc[p] = "ask" -> MaxSweeps + 1
      [] pc[p] = "kill" -> MaxSweeps - sweeps[p] + 1
      [] pc[p] \in {"terminate", "await"} -> 1
      [] pc[p] \in {"back", "dead"} -> 0

\* A call only uses up what it may create, each lock it creates is one of
\* them, and who begins again after a takeover has removed somebody's.
RoundsCostALock ==
    [][\A p \in Procs :
         /\ Locks(p)' <= Locks(p)
         /\ lock # lock' /\ lock' = p => Locks(p)' < Locks(p)
         /\ pc[p] = "takeover" /\ pc'[p] = "start" => lock # None /\ lock' = None]_vars

\* Only a restart knows a daemon, and only a restart sweeps.
CallType ==
    /\ known \in [Procs -> Daemons \cup {None}] /\ sweeps \in [Procs -> 0..MaxSweeps]
    /\ \A p \in Procs : known[p] = None => sweeps[p] = 0 /\ pc[p] \notin {"ask", "kill"}
    /\ \A p \in Procs : pc[p] = "ask" => sweeps[p] = 0

\* Restart's identification, its connections and its last call change that.
LEMMA CallInvariant == Spec => []CallType
<1>1. Init => CallType
  BY SweepsAssumption DEF Init, CallType
<1>2. LaunchInv /\ CallType /\ [Next]_vars => CallType'
  <2> SUFFICES ASSUME LaunchInv, CallType, [Next]_vars PROVE CallType'
    OBVIOUS
  <2>0. /\ pc \in [Procs -> Places] /\ sock \in Daemons \cup {None}
        /\ None \notin Daemons /\ MaxSweeps \in Nat \ {0}
    BY NoneAssumption, SweepsAssumption DEF LaunchInv, LaunchType
  <2>1. CASE UNCHANGED vars
    BY <2>1 DEF vars, local, CallType
  <2>2. ASSUME NEW p \in Procs, Restart(p)
        PROVE  CallType'
    BY <2>0, <2>2 DEF CallType, Restart, Answers, Go
  <2>3. ASSUME NEW p \in Procs, Shutdown(p) \/ AskFails(p) \/ Kill(p)
        PROVE  CallType'
    BY <2>0, <2>3 DEF CallType, Shutdown, AskFails, Kill, Sweep, Go
  <2>4. ASSUME NEW p \in Procs, Await(p)
        PROVE  CallType'
    BY <2>0, <2>4 DEF CallType, Await, Go
  <2>5. ASSUME NEW p \in Procs,
               Ensure(p) \/ ProcessDies(p) \/ Terminate(p) \/ Probe(p) \/ TryLock(p)
                 \/ WaitAnswered(p) \/ Judge(p) \/ TakeOver(p) \/ Release(p)
        PROVE  CallType'
    BY <2>0, <2>5 DEF CallType, Ensure, ProcessDies, Terminate, Probe, TryLock, WaitAnswered,
       Judge, TakeOver, Release, Succeed, Fail, Go, local
  <2>6. ASSUME NEW p \in Procs,
               \/ WritePid(p) \/ Recheck(p) \/ Check(p) \/ Clear(p) \/ SpawnFails(p) \/ Ready(p)
               \/ \E d \in Daemons : Spawn(p, d)
        PROVE  CallType'
    BY <2>0, <2>6 DEF CallType, WritePid, Recheck, Check, Clear, SpawnFails, Ready, Spawn, Go,
       local
  <2>7. ASSUME NEW d \in Daemons, DaemonStep(d) \/ DaemonDies(d) \/ AcceptFails(d)
        PROVE  CallType'
    BY <2>7 DEF CallType, DaemonStep, DaemonDies, AcceptFails, Bind, Record, Identify, Wake,
       CheckNonce, RemoveSocket, RemovePid, RemoveIdentity, files, local
  <2> QED
    BY <2>1, <2>2, <2>3, <2>4, <2>5, <2>6, <2>7 DEF Next, ProcessStep
<1> QED
  BY <1>1, <1>2, LaunchInvariant, PTL DEF Spec

\* A step of p, and what it may do to p's account.
Pays(p) ==
    /\ Locks(p)' <= Locks(p)
    /\ lock # lock' /\ lock' = p => Locks(p)' < Locks(p)
    /\ pc[p] = "takeover" /\ pc'[p] = "start" => lock # None /\ lock' = None

\* What p's account depends on stays as it is.
Same(p) == pc'[p] = pc[p] /\ known'[p] = known[p] /\ sweeps'[p] = sweeps[p]

\* The steps of p with the lock as it is.
LEMMA QuietSteps ==
  ASSUME LaunchInv, CallType, NEW p \in Procs,
         Ensure(p) \/ Restart(p) \/ ProcessDies(p) \/ ProcessStep(p),
         ~TryLock(p), ~TakeOver(p), ~Release(p)
  PROVE  /\ Pays(p) /\ lock' = lock
         /\ \A q \in Procs \ {p} : Same(q)
<1>0. /\ pc \in [Procs -> Places] /\ known \in [Procs -> Daemons \cup {None}]
      /\ sweeps \in [Procs -> 0..MaxSweeps] /\ MaxSweeps \in Nat \ {0}
      /\ None \notin Daemons
  BY NoneAssumption, SweepsAssumption DEF LaunchInv, LaunchType, CallType
<1>1. CASE Ensure(p)
  BY <1>0, <1>1 DEF Ensure, Go, Pays, Same, Locks, Later, Launching, Places, files, local
<1>2. CASE Restart(p)
  BY <1>0, <1>2 DEF Restart, Answers, Go, Pays, Same, Locks, Later, Launching, Places, files
<1>3. CASE ProcessDies(p)
  BY <1>0, <1>3 DEF ProcessDies, Go, Pays, Same, Locks, Later, Launching, Places, files, local
<1>4. CASE Probe(p) \/ WaitAnswered(p)
  BY <1>0, <1>4 DEF Probe, WaitAnswered, Succeed, Go, Pays, Same, Locks, Later, Launching,
     Places, files, local
<1>5. CASE Judge(p)
  BY <1>0, <1>5 DEF Judge, Fail, Go, CallType, Pays, Same, Locks, Later, Launching, Places, files
<1>6. CASE \/ WritePid(p) \/ Recheck(p) \/ Check(p) \/ Clear(p) \/ SpawnFails(p) \/ Ready(p)
           \/ \E d \in Daemons : Spawn(p, d)
  <2>1. /\ pc[p] \in Launching /\ pc'[p] \in Launching /\ UNCHANGED <<lock, known, sweeps>>
        /\ \A q \in Procs \ {p} : pc'[q] = pc[q]
    BY <1>0, <1>6 DEF WritePid, Recheck, Check, Clear, SpawnFails, Ready, Spawn, Go, Launching,
       files, local
  <2> QED
    BY <1>0, <2>1 DEF Pays, Same, Locks, Later, Launching, Places
<1>7. CASE Shutdown(p) \/ AskFails(p)
  BY <1>0, <1>7 DEF Shutdown, AskFails, Sweep, Go, CallType, Pays, Same, Locks, Later, Launching,
     Places, files
<1>8. CASE Kill(p)
  BY <1>0, <1>8 DEF Kill, Sweep, Go, CallType, Pays, Same, Locks, Later, Launching, Places, files
<1>9. CASE Terminate(p) \/ Await(p)
  BY <1>0, <1>9 DEF Terminate, Await, Go, Pays, Same, Locks, Later, Launching, Places, files, local
<1> QED
  BY <1>1, <1>2, <1>3, <1>4, <1>5, <1>6, <1>7, <1>8, <1>9 DEF ProcessStep

\* The steps of p that make or remove a lock.
LEMMA LockingSteps ==
  ASSUME LaunchInv, CallType, NEW p \in Procs, TryLock(p) \/ TakeOver(p) \/ Release(p)
  PROVE  /\ Pays(p) /\ lock' \in {lock, None, p}
         /\ \A q \in Procs \ {p} : Same(q)
<1>0. /\ pc \in [Procs -> Places] /\ known \in [Procs -> Daemons \cup {None}]
      /\ sweeps \in [Procs -> 0..MaxSweeps] /\ MaxSweeps \in Nat \ {0}
      /\ None \notin Procs
  BY NoneAssumption, SweepsAssumption DEF LaunchInv, LaunchType, CallType
<1>1. CASE TryLock(p)
  BY <1>0, <1>1 DEF TryLock, Go, Pays, Same, Locks, Later, Launching, Places, local
<1>2. CASE TakeOver(p)
  BY <1>0, <1>2 DEF TakeOver, Fail, Go, CallType, Pays, Same, Locks, Later, Launching, Places
<1>3. CASE Release(p)
  BY <1>0, <1>3 DEF Release, Succeed, Fail, Go, CallType, Pays, Same, Locks, Later, Launching,
     Places, local
<1> QED
  BY <1>1, <1>2, <1>3

\* Nobody waits, judges and takes over for ever: a plain call creates at most
\* one lock and a restart MaxSweeps + 2, so that N processes create at most
\* N (MaxSweeps + 2), and a takeover sends somebody back to the beginning no
\* more often.  With every wait bounded by its deadline that is why calls end.
THEOREM RoundsAreBounded == Spec => RoundsCostALock
<1>1. LaunchInv /\ CallType /\ [Next]_vars => [\A p \in Procs : Pays(p)]_vars
  <2> SUFFICES ASSUME LaunchInv, CallType, Next, NEW q \in Procs PROVE Pays(q)
    OBVIOUS
  <2>0. Locks(q) \in 0..(MaxSweeps + 2) /\ None \notin Procs
    BY NoneAssumption, SweepsAssumption DEF LaunchInv, LaunchType, CallType, Later, Locks, Places,
       Launching
  <2>1. CASE Same(q) /\ (lock' = q => lock' = lock)
    <3>1. Locks(q)' = Locks(q)
      BY <2>1, Zenon DEF Same, Locks, Later
    <3> QED
      BY <2>0, <2>1, <3>1 DEF Pays, Same
  <2>2. ASSUME NEW p \in Procs, Ensure(p) \/ Restart(p) \/ ProcessStep(p) \/ ProcessDies(p)
        PROVE  Pays(q)
    <3>1. /\ Pays(p) /\ lock' \in {lock, None, p}
          /\ \A r \in Procs \ {p} : Same(r)
      BY <2>2, QuietSteps, LockingSteps
    <3> QED
      BY <2>0, <2>1, <3>1
  <2>3. ASSUME NEW d \in Daemons, DaemonStep(d) \/ DaemonDies(d) \/ AcceptFails(d)
        PROVE  Pays(q)
    <3>1. UNCHANGED <<pc, known, sweeps, lock>>
      BY <2>3 DEF DaemonStep, DaemonDies, AcceptFails, Bind, Record, Identify, Wake,
         CheckNonce, RemoveSocket, RemovePid, RemoveIdentity, files, local
    <3> QED
      BY <2>1, <3>1 DEF Same
  <2> QED
    BY <2>2, <2>3 DEF Next
<1>2. [\A p \in Procs : Pays(p)]_vars
        => [\A p \in Procs :
              /\ Locks(p)' <= Locks(p)
              /\ lock # lock' /\ lock' = p => Locks(p)' < Locks(p)
              /\ pc[p] = "takeover" /\ pc'[p] = "start" => lock # None /\ lock' = None]_vars
  BY DEF Pays
<1> QED
  BY <1>1, <1>2, LaunchInvariant, CallInvariant, PTL DEF Spec, RoundsCostALock
=============================================================================
