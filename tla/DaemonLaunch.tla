---------------------------- MODULE DaemonLaunch ----------------------------
(* How the applications and command lines that share one runtime directory   *)
(* start, find, restart and lose the PTY daemon (daemon/client.rs,           *)
(* daemon/server.rs).                                                        *)
(*                                                                           *)
(* A process p is at pc[p]: ensure_daemon from "start" to "release", restart *)
(* at "ask", "kill", "terminate" and "await"; it makes one call and is       *)
(* "back" then (a second call is another process's).  Every connection of    *)
(* restart begins with a call of ensure_daemon: sweeps[p] counts those of    *)
(* kill_all_sessions.  A daemon d is at dpc[d].  What they share is the      *)
(* directory: lock is the process that created the launch lock that is there *)
(* now, sock, pidFile and idFile name the daemon that bound or wrote the     *)
(* file; known[p] is the daemon p has identified to restart it, read[p] the  *)
(* owner it has read from the lock.  Deadlines may pass at any time.  A      *)
(* process that dies does not come back, and nobody else gets its number.    *)
EXTENDS Naturals, FiniteSets

CONSTANTS
    Procs,       \* processes that call ensure_daemon or restart
    Daemons,     \* daemons that can be started
    None,        \* no such file
    Restarters,  \* bound: those of them whose user restarts the daemon
    MaxSweeps,   \* bound: connections of kill_all_sessions, two and one a session
    MaxKills     \* bound: processes and daemons that are killed or break

ASSUME NoneAssumption == None \notin Procs \cup Daemons
ASSUME RestartersAssumption == Restarters \subseteq Procs
ASSUME SweepsAssumption == MaxSweeps \in Nat \ {0}

VARIABLES pc, dpc, lock, sock, pidFile, idFile, known, read, sweeps, stolen, kills
files == <<lock, sock, pidFile, idFile>>
local == <<known, read, sweeps>>
vars == <<pc, dpc, files, local, stolen, kills>>

\* The daemon has its socket bound and still open.
Binding == {"bound", "recorded", "serving", "flagged", "leaving", "ours"}
Listening(d) == dpc[d] \in Binding \cup {"unlinked", "cleared"}

\* connect() reaches a listener, and probe() an accept loop that serves it.
Connects == sock # None /\ Listening(sock)
Answers == sock # None /\ dpc[sock] = "serving"

Alive(p) == pc[p] # "dead"

\* The launch lock's owner, from its creation until it is dropped.
Launching == {"write", "recheck", "check", "clear", "spawn", "ready", "release", "fail"}

Init ==
    /\ pc = [p \in Procs |-> "idle"] /\ dpc = [d \in Daemons |-> "unborn"]
    /\ lock = None /\ sock = None /\ pidFile = None /\ idFile = None
    /\ known = [p \in Procs |-> None] /\ read = [p \in Procs |-> None]
    /\ sweeps = [p \in Procs |-> 0] /\ stolen = FALSE /\ kills = 0

Go(p, at) == pc' = [pc EXCEPT ![p] = at]
Daemon(d, at) == dpc' = [dpc EXCEPT ![d] = at]

\* What ensure_daemon was called for goes on: restart's Shutdown, or a request
\* of kill_all_sessions, whose failures restart ignores.
Succeed(p) ==
    \/ known[p] = None /\ Go(p, "back")
    \/ known[p] # None /\ Go(p, IF sweeps[p] = 0 THEN "ask" ELSE "kill")
Fail(p) == Go(p, IF sweeps[p] = 0 THEN "back" ELSE "terminate")

-----------------------------------------------------------------------------
(* ensure_daemon                                                           *)

Ensure(p) ==
    /\ pc[p] = "idle"
    /\ Go(p, "start")
    /\ UNCHANGED <<dpc, files, local, stolen, kills>>

\* A probe gives up after a quarter of a second, also on a busy daemon.
Probe(p) ==
    /\ pc[p] = "start"
    /\ Go(p, "lock") \/ (Answers /\ Succeed(p))
    /\ UNCHANGED <<dpc, files, local, stolen, kills>>

TryLock(p) ==
    /\ pc[p] = "lock"
    /\ IF lock = None THEN lock' = p /\ Go(p, "write")
                      ELSE Go(p, "wait") /\ UNCHANGED lock
    /\ UNCHANGED <<dpc, sock, pidFile, idFile, local, stolen, kills>>

\* The loop of somebody who found the lock taken.
WaitAnswered(p) ==
    /\ pc[p] = "wait" /\ Answers
    /\ Succeed(p)
    /\ UNCHANGED <<dpc, files, local, stolen, kills>>

\* launch_owner_is_alive: a lock that is gone or has no number in it yet is
\* nobody's.
Owner == IF lock # None /\ pc[lock] # "write" THEN lock ELSE None

\* Slip: take the lock from whoever has it once the deadline has passed.
JudgeAllStale(p) ==
    /\ pc[p] = "wait"
    /\ Go(p, "takeover") /\ read' = [read EXCEPT ![p] = Owner]
    /\ UNCHANGED <<dpc, files, known, sweeps, stolen, kills>>
\* Slip: go on waiting while the lock is there.
JudgeNever(p) ==
    /\ pc[p] = "wait" /\ lock = None
    /\ Go(p, "takeover")
    /\ UNCHANGED <<dpc, files, local, stolen, kills>>
Judge(p) ==
    /\ pc[p] = "wait"
    /\ IF Owner # None /\ Alive(Owner)
       THEN Fail(p) /\ UNCHANGED read
       ELSE Go(p, "takeover") /\ read' = [read EXCEPT ![p] = Owner]
    /\ UNCHANGED <<dpc, files, known, sweeps, stolen, kills>>

\* The lock that is removed is the one that is there now; stolen remembers
\* that it was not the one that was read, or had no number then.
TakeOver(p) ==
    /\ pc[p] = "takeover"
    /\ IF lock = None THEN Fail(p) ELSE Go(p, "start")
    /\ stolen' = (stolen \/ lock \notin {None, read[p]})
    /\ lock' = None /\ read' = [read EXCEPT ![p] = None]
    /\ UNCHANGED <<dpc, sock, pidFile, idFile, known, sweeps, kills>>

WritePid(p) ==
    /\ pc[p] = "write"
    /\ Go(p, "recheck")
    /\ UNCHANGED <<dpc, files, local, stolen, kills>>

Recheck(p) ==
    /\ pc[p] = "recheck"
    /\ Go(p, "check") \/ (Answers /\ Go(p, "release"))
    /\ UNCHANGED <<dpc, files, local, stolen, kills>>

\* A socket that somebody accepts is left alone.
Check(p) ==
    /\ pc[p] = "check"
    /\ Go(p, IF sock = None THEN "spawn" ELSE IF Connects THEN "fail" ELSE "clear")
    /\ UNCHANGED <<dpc, files, local, stolen, kills>>

Clear(p) ==
    /\ pc[p] = "clear"
    /\ Go(p, IF sock = None THEN "fail" ELSE "spawn")
    /\ sock' = None
    /\ UNCHANGED <<dpc, lock, pidFile, idFile, local, stolen, kills>>

Spawn(p, d) ==
    /\ pc[p] = "spawn" /\ dpc[d] = "unborn"
    /\ Go(p, "ready") /\ Daemon(d, "starting")
    /\ UNCHANGED <<files, local, stolen, kills>>

SpawnFails(p) ==
    /\ pc[p] = "spawn"
    /\ Go(p, "fail")
    /\ UNCHANGED <<dpc, files, local, stolen, kills>>

\* The daemon answers, or START_TIMEOUT is over.
Ready(p) ==
    /\ pc[p] = "ready"
    /\ Go(p, "fail") \/ (Answers /\ Go(p, "release"))
    /\ UNCHANGED <<dpc, files, local, stolen, kills>>

\* LaunchLockCleanup: the file at that path goes, whoever's it is.
Release(p) ==
    /\ \/ pc[p] = "release" /\ Succeed(p)
       \/ pc[p] = "fail" /\ Fail(p)
    /\ lock' = None
    /\ UNCHANGED <<dpc, sock, pidFile, idFile, local, stolen, kills>>

-----------------------------------------------------------------------------
(* restart                                                                 *)

\* Identify the daemon that is running, without one restart fails.  A control
\* connection begins with a call of ensure_daemon.
Restart(p) ==
    /\ p \in Restarters /\ pc[p] = "idle" /\ Answers
    /\ Go(p, "start") /\ known' = [known EXCEPT ![p] = sock]
    /\ UNCHANGED <<dpc, files, read, sweeps, stolen, kills>>

\* The next connection of kill_all_sessions, from ensure_daemon on.
Sweep(p) ==
    /\ sweeps[p] < MaxSweeps
    /\ Go(p, "start") /\ sweeps' = [sweeps EXCEPT ![p] = @ + 1]

\* Shutdown goes to whichever daemon has the socket now; the handler drains the
\* registry and raises the flag.  Its answer may come too late.
Shutdown(p) ==
    /\ pc[p] = "ask" /\ sock # None /\ dpc[sock] \in {"serving", "flagged"}
    /\ Daemon(sock, "flagged")
    /\ (Go(p, "await") /\ UNCHANGED sweeps) \/ Sweep(p)
    /\ UNCHANGED <<files, known, read, stolen, kills>>
\* Without the connection restart fails, without an answer it kills the
\* sessions one way or the other before it terminates the daemon.
AskFails(p) ==
    /\ pc[p] = "ask"
    /\ (Go(p, "back") /\ UNCHANGED sweeps) \/ (Answers /\ Sweep(p))
    /\ UNCHANGED <<dpc, files, known, read, stolen, kills>>

\* KillAll, ListSessions or a session's Kill has been answered or not; after a
\* KillAll that failed come the list and each session, on connections of their
\* own.  The registry is not modelled, so that any of them may be the last.
Kill(p) ==
    /\ pc[p] = "kill"
    /\ \/ Go(p, "terminate") /\ UNCHANGED sweeps
       \/ sock # None /\ dpc[sock] \in {"serving", "flagged"} /\ Sweep(p)
    /\ UNCHANGED <<dpc, files, known, read, stolen, kills>>

\* SIGTERM, which nothing handles, to the daemon identified before, if the
\* two files still name it (a dead one may still be its launcher's zombie).
Terminate(p) ==
    /\ pc[p] = "terminate"
    /\ \/ /\ pidFile = known[p] /\ idFile = known[p]
          /\ Go(p, "await") /\ Daemon(known[p], "gone")
       \/ /\ pidFile # known[p] \/ idFile # known[p] \/ dpc[known[p]] = "gone"
          /\ Go(p, "back") /\ UNCHANGED dpc
    /\ UNCHANGED <<files, local, stolen, kills>>

\* The old daemon stops answering, or START_TIMEOUT is over.
Await(p) ==
    /\ pc[p] = "await"
    /\ Go(p, "start")
    /\ known' = [known EXCEPT ![p] = None] /\ sweeps' = [sweeps EXCEPT ![p] = 0]
    /\ UNCHANGED <<dpc, files, read, stolen, kills>>

-----------------------------------------------------------------------------
(* The daemon: run and SocketCleanup                                       *)

\* bind() fails where a socket file is, dead or not.
Bind(d) ==
    /\ dpc[d] = "starting"
    /\ IF sock = None THEN sock' = d /\ Daemon(d, "bound")
                      ELSE Daemon(d, "gone") /\ UNCHANGED sock
    /\ UNCHANGED <<pc, lock, pidFile, idFile, local, stolen, kills>>

Record(d) ==
    /\ dpc[d] = "bound"
    /\ pidFile' = d /\ Daemon(d, "recorded")
    /\ UNCHANGED <<pc, lock, sock, idFile, local, stolen, kills>>
Identify(d) ==
    /\ dpc[d] = "recorded"
    /\ idFile' = d /\ Daemon(d, "serving")
    /\ UNCHANGED <<pc, lock, sock, pidFile, local, stolen, kills>>

\* The Shutdown handler connects to the socket's path to wake the accept loop.
Wake(d) ==
    /\ dpc[d] = "flagged" /\ sock = d
    /\ Daemon(d, "leaving")
    /\ UNCHANGED <<pc, files, local, stolen, kills>>

\* Drop compares the nonce, then removes the three files one after the other.
CheckNonce(d) ==
    /\ dpc[d] = "leaving"
    /\ Daemon(d, IF idFile = d THEN "ours" ELSE "gone")
    /\ UNCHANGED <<pc, files, local, stolen, kills>>
RemoveSocket(d) ==
    /\ dpc[d] = "ours"
    /\ sock' = None /\ Daemon(d, "unlinked")
    /\ UNCHANGED <<pc, lock, pidFile, idFile, local, stolen, kills>>
RemovePid(d) ==
    /\ dpc[d] = "unlinked"
    /\ pidFile' = None /\ Daemon(d, "cleared")
    /\ UNCHANGED <<pc, lock, sock, idFile, local, stolen, kills>>
RemoveIdentity(d) ==
    /\ dpc[d] = "cleared"
    /\ idFile' = None /\ Daemon(d, "gone")
    /\ UNCHANGED <<pc, lock, sock, pidFile, local, stolen, kills>>

-----------------------------------------------------------------------------
(* Crashes                                                                 *)

ProcessDies(p) ==
    /\ Alive(p) /\ kills < MaxKills
    /\ Go(p, "dead") /\ kills' = kills + 1
    /\ UNCHANGED <<dpc, files, local, stolen>>
DaemonDies(d) ==
    /\ dpc[d] \notin {"unborn", "gone"} /\ kills < MaxKills
    /\ Daemon(d, "gone") /\ kills' = kills + 1
    /\ UNCHANGED <<pc, files, local, stolen>>
\* accept() fails: run returns, and cleans up on the way.
AcceptFails(d) ==
    /\ dpc[d] = "serving" /\ kills < MaxKills
    /\ Daemon(d, "leaving") /\ kills' = kills + 1
    /\ UNCHANGED <<pc, files, local, stolen>>

ProcessStep(p) ==
    \/ Probe(p) \/ TryLock(p) \/ WaitAnswered(p) \/ Judge(p) \/ TakeOver(p)
    \/ WritePid(p) \/ Recheck(p) \/ Check(p) \/ Clear(p)
    \/ \E d \in Daemons : Spawn(p, d)
    \/ SpawnFails(p)
    \/ Ready(p) \/ Release(p)
    \/ Shutdown(p) \/ AskFails(p) \/ Kill(p) \/ Terminate(p) \/ Await(p)
DaemonStep(d) ==
    \/ Bind(d) \/ Record(d) \/ Identify(d) \/ Wake(d)
    \/ CheckNonce(d) \/ RemoveSocket(d) \/ RemovePid(d) \/ RemoveIdentity(d)

Next ==
    \/ \E p \in Procs : Ensure(p) \/ Restart(p) \/ ProcessStep(p) \/ ProcessDies(p)
    \/ \E d \in Daemons : DaemonStep(d) \/ DaemonDies(d) \/ AcceptFails(d)

Spec == Init /\ [][Next]_vars

\* As long as anybody inside a call and any daemon can go on, one of them does,
\* in whatever order; nobody has to call, and nobody has to crash.
Step == (\E p \in Procs : ProcessStep(p)) \/ (\E d \in Daemons : DaemonStep(d))
FairSpec == Spec /\ WF_vars(Step)

-----------------------------------------------------------------------------
(* Properties                                                              *)

\* A daemon that has bound the fixed socket can be reached at it until it
\* removes the file itself: no launcher that finds the socket dead, and no
\* cleanup of an earlier daemon, takes it away, so that there is a single
\* instance.  It holds until a takeover has removed a lock that it had not
\* read (ensure_daemon removes whatever lock is there by then).
SocketIsTheServers ==
    ~stolen => \A d \in Daemons : dpc[d] \in Binding => sock = d

\* Every call of ensure_daemon and restart comes back, whoever has crashed with
\* the lock or the socket in its hands, and a daemon that was told to shut down
\* is gone in the end, unless its socket has been taken away.
CallsAndShutdownsEnd ==
    <>[](/\ \A p \in Procs : pc[p] \in {"idle", "back", "dead"}
         /\ ~stolen => \A d \in Daemons : dpc[d] \in {"unborn", "serving", "gone"})
=============================================================================
