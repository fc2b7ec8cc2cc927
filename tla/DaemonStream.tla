---------------------------- MODULE DaemonStream ----------------------------
(***************************************************************************)
(* One session hosted by the PTY daemon and the clients attached to it     *)
(* (suaegi-term/src/daemon/server.rs, HostedSession and handle_stream;     *)
(* client.rs, create_or_attach and DaemonReader).                          *)
(*                                                                         *)
(* The daemon's reader thread numbers each chunk of output, keeps it in a  *)
(* bounded history and offers it to every subscriber's bounded queue.  A   *)
(* client that attaches asks for everything retained, and must not answer  *)
(* terminal queries that were there before it came.                        *)
(*                                                                         *)
(* A chunk is known by its sequence number, counted from 0.  The socket    *)
(* between a handler and its client is a FIFO that adds only delay; it is  *)
(* folded into the queue.  "Slip:" marks a plausible mistake that is no    *)
(* part of Next.                                                           *)
(***************************************************************************)
EXTENDS Integers, FiniteSets, SequencesExt

CONSTANTS
  Clients,
  Code,          \* the exit code of the child
  NoCode,        \* NO_EXIT
  MaxChunks,     \* bound on the output of the child
  HistoryLimit,  \* chunks retained (HISTORY_LIMIT_BYTES)
  QueueLimit     \* events queued per subscriber (SUBSCRIBER_QUEUE_EVENTS)

ASSUME StreamAssumption ==
  /\ MaxChunks \in Nat
  /\ HistoryLimit \in Nat \ {0}
  /\ QueueLimit \in Nat \ {0}
  /\ Code # NoCode

Data(k)  == [kind |-> "data", n |-> k]
Gap(k)   == [kind |-> "gap", n |-> k]
Exit(c)  == [kind |-> "exit", code |-> c]

VARIABLES
  \* the daemon
  registered,  \* the session is in the daemon's map
  nextSeq, history, subscribers, running, exitCode,
  pub,         \* where the reader thread is
  queue,       \* per client: the subscriber's queue
  replay,      \* per client: what handle_stream has yet to replay
  \* the clients
  cpc,         \* off, attached, streaming, exit, cut, error, gone
  replayUntil, \* replay_until_sequence; -1 for None
  replies,     \* terminal_replies_enabled
  seen,        \* the chunks fed to the client's grid, in order
  gapTold,     \* the client was told that older output is missing
  clientExit,  \* the exit code the client knows
  \* history variables
  answered,    \* per client: the chunks it fed with replies enabled
  old,         \* per client: the chunks anybody had answered before it attached
  window       \* per client: the chunk that was retained but not yet offered
               \* at the moment it subscribed; -1 if none

daemonVars == <<registered, nextSeq, history, subscribers, running, exitCode, pub>>
clientVars == <<cpc, replayUntil, replies, seen, gapTold, clientExit>>
ghostVars == <<answered, old, window>>
vars == <<daemonVars, queue, replay, clientVars, ghostVars>>

-----------------------------------------------------------------------------

Init ==
  /\ registered = FALSE /\ nextSeq = 0 /\ history = <<>> /\ subscribers = {}
  /\ running = FALSE /\ exitCode = NoCode /\ pub = "none"
  /\ queue = [c \in Clients |-> <<>>]
  /\ replay = [c \in Clients |-> <<>>]
  /\ cpc = [c \in Clients |-> "off"]
  /\ replayUntil = [c \in Clients |-> -1]
  /\ replies = [c \in Clients |-> FALSE]
  /\ seen = [c \in Clients |-> <<>>]
  /\ gapTold = [c \in Clients |-> FALSE]
  /\ clientExit = [c \in Clients |-> NoCode]
  /\ answered = [c \in Clients |-> {}]
  /\ old = [c \in Clients |-> {}]
  /\ window = [c \in Clients |-> -1]

-----------------------------------------------------------------------------
\* The daemon's reader thread

\* publish takes the next number before anything else is visible.
Number ==
  /\ pub = "read" /\ nextSeq < MaxChunks
  /\ nextSeq' = nextSeq + 1
  /\ pub' = "numbered"
  /\ UNCHANGED <<registered, history, subscribers, running, exitCode, queue,
                 replay, clientVars, ghostVars>>

\* History::push drops the oldest chunks beyond the limit.
Retain ==
  /\ pub = "numbered"
  /\ LET h == Append(history, nextSeq - 1)
     IN history' = IF Len(h) > HistoryLimit THEN Tail(h) ELSE h
  /\ pub' = "retained"
  /\ UNCHANGED <<registered, nextSeq, subscribers, running, exitCode, queue,
                 replay, clientVars, ghostVars>>

Connected(c) == cpc[c] \in {"attached", "streaming"}

\* Slip: forgets the event, and not the subscriber, when a queue is full.
BroadcastSkipping(event) ==
  LET reached == {c \in subscribers : Connected(c) /\ Len(queue[c]) < QueueLimit}
  IN /\ subscribers' = {c \in subscribers : Connected(c)}
     /\ queue' = [c \in Clients |-> IF c \in reached THEN Append(queue[c], event)
                                    ELSE queue[c]]

\* Every subscriber that cannot take the event now is forgotten.
Broadcast(event) ==
  LET reached == {c \in subscribers : Connected(c) /\ Len(queue[c]) < QueueLimit}
  IN /\ subscribers' = reached
     /\ queue' = [c \in Clients |-> IF c \in reached THEN Append(queue[c], event)
                                    ELSE queue[c]]

Offer ==
  /\ pub = "retained"
  /\ Broadcast(Data(nextSeq - 1))
  /\ pub' = "read"
  /\ UNCHANGED <<registered, nextSeq, history, running, exitCode, replay,
                 clientVars, ghostVars>>

\* Slip: takes the exit for known although the code was not stored.
StoreExitForgotten ==
  /\ pub = "read"
  /\ pub' = "coded"
  /\ UNCHANGED <<registered, nextSeq, history, subscribers, running, exitCode,
                 queue, replay, clientVars, ghostVars>>

\* End of the output: kill, wait, and the exit code is stored ...
StoreExit ==
  /\ pub = "read"
  /\ exitCode' = Code
  /\ pub' = "coded"
  /\ UNCHANGED <<registered, nextSeq, history, subscribers, running, queue,
                 replay, clientVars, ghostVars>>

\* ... before running is cleared ...
StopRunning ==
  /\ pub = "coded"
  /\ running' = FALSE
  /\ pub' = "stopped"
  /\ UNCHANGED <<registered, nextSeq, history, subscribers, exitCode, queue,
                 replay, clientVars, ghostVars>>

\* ... before the subscribers are told.
OfferExit ==
  /\ pub = "stopped"
  /\ Broadcast(Exit(exitCode))
  /\ pub' = "done"
  /\ UNCHANGED <<registered, nextSeq, history, running, exitCode, replay,
                 clientVars, ghostVars>>

-----------------------------------------------------------------------------
\* Control requests

AllAnswered == UNION {answered[c] : c \in Clients}

\* CreateOrAttach for an id that is not in the map spawns the session, whose
\* reader thread starts at once; the creator answers everything it sees.
Create(c) ==
  /\ cpc[c] = "off" /\ pub = "none"
  /\ registered' = TRUE /\ running' = TRUE /\ pub' = "read"
  /\ cpc' = [cpc EXCEPT ![c] = "attached"]
  /\ replies' = [replies EXCEPT ![c] = TRUE]
  /\ UNCHANGED <<nextSeq, history, subscribers, exitCode, queue, replay,
                 replayUntil, seen, gapTold, clientExit, ghostVars>>

\* Slip: a client that attaches takes itself for the creator.
AttachAsCreator(c) ==
  /\ cpc[c] = "off" /\ registered
  /\ cpc' = [cpc EXCEPT ![c] = "attached"]
  /\ replies' = [replies EXCEPT ![c] = TRUE]
  /\ old' = [old EXCEPT ![c] = AllAnswered]
  /\ UNCHANGED <<daemonVars, queue, replay, replayUntil, seen, gapTold, clientExit,
                 answered, window>>

\* CreateOrAttach for a known id, exited or not, reports its next number.
Attach(c) ==
  /\ cpc[c] = "off" /\ registered
  /\ cpc' = [cpc EXCEPT ![c] = "attached"]
  /\ replayUntil' = [replayUntil EXCEPT ![c] = nextSeq]
  /\ old' = [old EXCEPT ![c] = AllAnswered]
  /\ UNCHANGED <<daemonVars, queue, replay, replies, seen, gapTold, clientExit,
                 answered, window>>

\* Kill takes the session out of the map; streams already open stay open.
Kill ==
  /\ registered
  /\ registered' = FALSE
  /\ UNCHANGED <<nextSeq, history, subscribers, running, exitCode, pub, queue,
                 replay, clientVars, ghostVars>>

-----------------------------------------------------------------------------
\* The stream connection

GapNotice == IF history # <<>> /\ Head(history) > 0 THEN <<Gap(Head(history))>> ELSE <<>>
Retained == [i \in DOMAIN history |-> Data(history[i])]

\* Slip: subscribes to a session that has told its end already.
SubscribeAlways(c) ==
  /\ cpc[c] = "attached" /\ registered
  /\ replay' = [replay EXCEPT ![c] = GapNotice \o Retained]
  /\ subscribers' = subscribers \cup {c}
  /\ window' = [window EXCEPT ![c] = IF pub = "retained" THEN nextSeq - 1 ELSE -1]
  /\ cpc' = [cpc EXCEPT ![c] = "streaming"]
  /\ UNCHANGED <<registered, nextSeq, history, running, exitCode, pub, queue,
                 replayUntil, replies, seen, gapTold, clientExit, answered, old>>

\* subscribe, under the history and the subscribers mutex: clients ask for
\* everything (after_sequence None), so a history that has lost chunk 0 is
\* announced as a gap.  A session that has ended is replayed with its exit.
Subscribe(c) ==
  /\ cpc[c] = "attached" /\ registered
  /\ replay' = [replay EXCEPT ![c] =
        GapNotice \o Retained \o (IF running THEN <<>> ELSE <<Exit(exitCode)>>)]
  /\ subscribers' = IF running THEN subscribers \cup {c} ELSE subscribers
  /\ window' = [window EXCEPT ![c] =
        IF pub = "retained" /\ running THEN nextSeq - 1 ELSE -1]
  /\ cpc' = [cpc EXCEPT ![c] = "streaming"]
  /\ UNCHANGED <<registered, nextSeq, history, running, exitCode, pub, queue,
                 replayUntil, replies, seen, gapTold, clientExit, answered, old>>

\* The session was killed between the two connections: an Error event.
SubscribeUnknown(c) ==
  /\ cpc[c] = "attached" /\ ~registered
  /\ cpc' = [cpc EXCEPT ![c] = "error"]
  /\ UNCHANGED <<daemonVars, queue, replay, replayUntil, replies, seen, gapTold,
                 clientExit, ghostVars>>

\* DaemonReader::read, and the terminal's reader thread that feeds the grid
\* and then asks whether the replies may be sent.
Consume(c, event) ==
  \/ /\ event.kind = "data"
     /\ LET live == replayUntil[c] = -1 \/ event.n >= replayUntil[c]
        IN /\ replies' = [replies EXCEPT ![c] = live]
           /\ answered' = [answered EXCEPT ![c] = IF live THEN @ \cup {event.n} ELSE @]
     /\ seen' = [seen EXCEPT ![c] = Append(@, event.n)]
     /\ UNCHANGED <<cpc, gapTold, clientExit>>
  \/ /\ event.kind = "gap"
     /\ gapTold' = [gapTold EXCEPT ![c] = TRUE]
     /\ UNCHANGED <<cpc, replies, seen, clientExit, answered>>
  \/ /\ event.kind = "exit"
     /\ replies' = [replies EXCEPT ![c] = FALSE]
     /\ clientExit' = [clientExit EXCEPT ![c] = event.code]
     /\ cpc' = [cpc EXCEPT ![c] = "exit"]
     /\ UNCHANGED <<seen, gapTold, answered>>

\* handle_stream: the replay first, then the queue.
DeliverReplay(c) ==
  /\ cpc[c] = "streaming" /\ replay[c] # <<>>
  /\ Consume(c, Head(replay[c]))
  /\ replay' = [replay EXCEPT ![c] = Tail(@)]
  /\ UNCHANGED <<daemonVars, queue, replayUntil, old, window>>

\* Slip: may write an event again that it has written.
DeliverLiveRetrying(c) ==
  /\ cpc[c] = "streaming" /\ replay[c] = <<>> /\ queue[c] # <<>>
  /\ Len(seen[c]) <= MaxChunks
  /\ Consume(c, Head(queue[c]))
  /\ queue' \in {queue, [queue EXCEPT ![c] = Tail(@)]}
  /\ UNCHANGED <<daemonVars, replay, replayUntil, old, window>>

DeliverLive(c) ==
  /\ cpc[c] = "streaming" /\ replay[c] = <<>> /\ queue[c] # <<>>
  /\ Consume(c, Head(queue[c]))
  /\ queue' = [queue EXCEPT ![c] = Tail(@)]
  /\ UNCHANGED <<daemonVars, replay, replayUntil, old, window>>

\* The daemon forgot a slow subscriber: its queue closes, the handler closes
\* the socket and the client reads end of file without an exit code.
CutOff(c) ==
  /\ cpc[c] = "streaming" /\ replay[c] = <<>> /\ queue[c] = <<>>
  /\ c \notin subscribers
  /\ cpc' = [cpc EXCEPT ![c] = "cut"]
  /\ UNCHANGED <<daemonVars, queue, replay, replayUntil, replies, seen, gapTold,
                 clientExit, ghostVars>>

\* DaemonClientSession::disconnect; the daemon notices at its next broadcast.
Disconnect(c) ==
  /\ Connected(c)
  /\ cpc' = [cpc EXCEPT ![c] = "gone"]
  /\ UNCHANGED <<daemonVars, queue, replay, replayUntil, replies, seen, gapTold,
                 clientExit, ghostVars>>

\* The child is gone and no client is left on the way.
Terminated ==
  /\ pub = "done" /\ \A c \in Clients : ~Connected(c)
  /\ UNCHANGED vars

-----------------------------------------------------------------------------

ReaderThread == Number \/ Retain \/ Offer \/ StoreExit \/ StopRunning \/ OfferExit
Handler(c) == DeliverReplay(c) \/ DeliverLive(c) \/ CutOff(c)
Client(c) == Create(c) \/ Attach(c) \/ Subscribe(c) \/ SubscribeUnknown(c) \/ Disconnect(c)

Next ==
  \/ ReaderThread
  \/ Kill
  \/ \E c \in Clients : Client(c) \/ Handler(c)
  \/ Terminated

Spec == Init /\ [][Next]_vars

\* Both ends of a stream keep running, and so does the daemon's reader once
\* the child has ended.  Nobody has to attach, to produce output or to exit.
Fairness ==
  /\ WF_vars(Offer \/ Retain) /\ WF_vars(StopRunning) /\ WF_vars(OfferExit)
  /\ \A c \in Clients : WF_vars(Handler(c))

FairSpec == Spec /\ Fairness

-----------------------------------------------------------------------------

\* What a client's terminal was fed never skips a chunk: a slow client is cut
\* off, not served with holes, and a tail that begins late was announced.
NoSilentHole ==
  \A c \in Clients :
    /\ \A i \in 1..Len(seen[c]) - 1 : seen[c][i + 1] <= seen[c][i] + 1
    /\ seen[c] # <<>> /\ seen[c][1] > 0 => gapTold[c]

\* A client that is told of the exit knows the real exit code and has seen
\* the output to its last chunk.
ExitIsCompleteAndTrue ==
  \A c \in Clients :
    cpc[c] = "exit" =>
      /\ clientExit[c] = Code
      /\ nextSeq > 0 => seen[c] # <<>> /\ Last(seen[c]) = nextSeq - 1

\* A query that some client had answered before this one attached is not
\* answered again by it (replay_until_sequence).
HistoryIsNotAnsweredAgain ==
  \A c \in Clients : answered[c] \cap old[c] = {}

\* Output is repeated to a client only where publish and subscribe overlap:
\* the one chunk that was retained and not yet offered when it subscribed.
RepeatsOnlyInTheWindow ==
  \A c \in Clients : \A i, j \in 1..Len(seen[c]) :
    i < j /\ seen[c][i] = seen[c][j] => seen[c][i] = window[c]

\* When the child has ended, every open stream ends.
StreamsEnd ==
  \A c \in Clients : ~running /\ cpc[c] = "streaming" ~> cpc[c] # "streaming"
=============================================================================
