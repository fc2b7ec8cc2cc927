----------------------- MODULE PersistenceThreadProofs -----------------------
(* Each save request is reported once and the newest one decides, for any    *)
(* number of requests.                                                       *)
EXTENDS PersistenceThread, TLAPS

Reports == [seq : 1..MaxSeq, status : {"written", "superseded", "failed"}]

Waits(i) == queue[i].kind # "override"

\* The requests move in the order they were made: what is on disk, what the
\* worker holds, and the queue, which a shutdown closes.
OrderInv ==
    /\ disk < nextSeq /\ pending < nextSeq /\ job.seq < nextSeq
    /\ pending # 0 => disk < pending
    /\ job.seq # 0 => disk < job.seq
    /\ \A i \in DOMAIN queue : Waits(i) =>
          /\ queue[i].seq < nextSeq /\ disk < queue[i].seq
          /\ pending < queue[i].seq /\ job.seq < queue[i].seq
    /\ \A i, j \in DOMAIN queue : Waits(i) /\ Waits(j) /\ i < j => queue[i].seq < queue[j].seq
    /\ \A i \in DOMAIN queue : queue[i].kind = "shutdown" =>
          queue[i].seq = closing /\ handle # "open" /\ i = Len(queue)

\* What the worker holds in each of its states.
WorkerInv ==
    /\ worker = "idle" => job = NoJob
    /\ worker = "saving" => pending = 0 /\ job.seq # 0
    /\ worker = "ended" => pending = 0 /\ job = NoJob
    /\ worker = "dead" => pending = 0
    /\ ~Receiving => queue = <<>>
    /\ job.last => queue = <<>> /\ handle # "open"
    /\ job.told => job.last /\ job.seq = closing

\* What the reports say of the order.
ReportInv ==
    /\ \A i \in DOMAIN reports :
          /\ reports[i].seq < nextSeq
          /\ reports[i].status = "superseded" => reports[i].seq < nextSeq - 1
          /\ reports[i].status = "written" => reports[i].seq <= disk
    /\ completed = "done" => worker = "ended" /\ handle # "open"

ThreadInv ==
    /\ TypeOK /\ OrderInv /\ WorkerInv /\ ReportInv
    /\ EachRequestIsAccountedFor /\ DoneMeansFinalState

-----------------------------------------------------------------------------
\* A report more.
LEMMA OneMoreReport ==
  ASSUME reports \in Seq(Reports), NEW r \in Reports, reports' = Append(reports, r)
  PROVE  /\ reports' \in Seq(Reports)
         /\ Reported' = Reported \cup {r.seq}
         /\ Range(reports') = Range(reports) \cup {r}
         /\ \A i \in DOMAIN reports' : reports'[i] = r \/ \E k \in DOMAIN reports : reports'[i] = reports[k]
         /\ r.seq \notin Reported /\ IsInjective([i \in DOMAIN reports |-> reports[i].seq])
               => IsInjective([i \in DOMAIN reports' |-> reports'[i].seq])
<1>1. /\ reports' \in Seq(Reports) /\ Len(reports') = Len(reports) + 1
      /\ \A i \in 1..Len(reports) : reports'[i] = reports[i]
      /\ reports'[Len(reports) + 1] = r
      /\ DOMAIN reports = 1..Len(reports) /\ DOMAIN reports' = 1..(Len(reports) + 1)
      /\ Len(reports) \in Nat
  OBVIOUS
<1>2. \A i \in DOMAIN reports' : i \in DOMAIN reports \/ i = Len(reports) + 1
  BY <1>1
<1>3. DOMAIN reports \subseteq DOMAIN reports' /\ Len(reports) + 1 \in DOMAIN reports'
  BY <1>1
<1>4. Reported' = Reported \cup {r.seq}
  BY <1>1, <1>2, <1>3 DEF Reported
<1>5. Range(reports') = Range(reports) \cup {r}
  BY <1>1, <1>2, <1>3 DEF Range
<1>6. \A i \in DOMAIN reports' : reports'[i] = r \/ \E k \in DOMAIN reports : reports'[i] = reports[k]
  BY <1>1, <1>2
<1>7. ASSUME r.seq \notin Reported, IsInjective([i \in DOMAIN reports |-> reports[i].seq])
      PROVE  IsInjective([i \in DOMAIN reports' |-> reports'[i].seq])
  <2>1. \A i, k \in DOMAIN reports : reports[i].seq = reports[k].seq => i = k
    BY <1>7 DEF IsInjective
  <2>2. \A i \in DOMAIN reports : reports[i].seq # r.seq
    BY <1>7 DEF Reported
  <2>3. \A i, k \in DOMAIN reports' : reports'[i].seq = reports'[k].seq => i = k
    BY <1>1, <1>2, <2>1, <2>2
  <2> QED
    BY <2>3 DEF IsInjective
<1> QED
  BY <1>1, <1>4, <1>5, <1>6, <1>7

\* A request more in the queue.
LEMMA OneMoreRequest ==
  ASSUME queue \in Seq(Request), NEW q \in Request, queue' = Append(queue, q)
  PROVE  /\ queue' \in Seq(Request) /\ Len(queue') = Len(queue) + 1
         /\ \A i \in DOMAIN queue : i \in DOMAIN queue' /\ queue'[i] = queue[i] /\ i < Len(queue')
         /\ queue'[Len(queue')] = q /\ Len(queue') \in DOMAIN queue'
         /\ \A i \in DOMAIN queue' : i \in DOMAIN queue \/ i = Len(queue')
         /\ Queued' = Queued \cup (IF q.kind = "override" THEN {} ELSE {q.seq})
<1>1. /\ queue' \in Seq(Request) /\ Len(queue') = Len(queue) + 1
      /\ \A i \in DOMAIN queue : i \in DOMAIN queue' /\ queue'[i] = queue[i] /\ i < Len(queue')
      /\ queue'[Len(queue')] = q /\ Len(queue') \in DOMAIN queue'
      /\ \A i \in DOMAIN queue' : i \in DOMAIN queue \/ i = Len(queue')
  OBVIOUS
<1>2. Queued' = Queued \cup (IF q.kind = "override" THEN {} ELSE {q.seq})
  BY <1>1 DEF Queued
<1> QED
  BY <1>1, <1>2

\* A request taken off the queue.
LEMMA OneRequestLess ==
  ASSUME queue \in Seq(Request), queue # <<>>, queue' = Tail(queue)
  PROVE  /\ queue' \in Seq(Request) /\ Len(queue') = Len(queue) - 1
         /\ 1 \in DOMAIN queue /\ Head(queue) = queue[1] /\ queue[1] \in Request
         /\ \A i \in DOMAIN queue' : i + 1 \in DOMAIN queue /\ queue'[i] = queue[i + 1] /\ 1 < i + 1
         /\ Queued = Queued' \cup (IF Head(queue).kind = "override" THEN {} ELSE {Head(queue).seq})
<1>1. /\ queue' \in Seq(Request) /\ Len(queue') = Len(queue) - 1 /\ Len(queue) \in Nat
      /\ DOMAIN queue = 1..Len(queue) /\ DOMAIN queue' = 1..(Len(queue) - 1)
      /\ 1 \in DOMAIN queue /\ Head(queue) = queue[1] /\ queue[1] \in Request
  OBVIOUS
<1>2. \A i \in 1..(Len(queue) - 1) : queue'[i] = queue[i + 1]
  OBVIOUS
<1>3. \A i \in DOMAIN queue' : i \in Nat /\ i + 1 \in DOMAIN queue /\ queue'[i] = queue[i + 1] /\ 1 < i + 1
  BY <1>1, <1>2
<1>4. ASSUME NEW i \in DOMAIN queue, i # 1
      PROVE  i - 1 \in DOMAIN queue' /\ queue'[i - 1] = queue[i]
  <2>1. i - 1 \in 1..(Len(queue) - 1) /\ (i - 1) + 1 = i
    BY <1>1, <1>4
  <2> QED
    BY <1>1, <1>2, <2>1
<1> DEFINE first == IF queue[1].kind = "override" THEN {} ELSE {queue[1].seq}
<1>5. ASSUME NEW n \in Queued PROVE n \in Queued' \cup first
  <2>1. PICK i \in DOMAIN queue : queue[i].kind # "override" /\ queue[i].seq = n
    BY <1>5 DEF Queued
  <2> QED
    BY <1>4, <2>1 DEF Queued
<1>6. ASSUME NEW n \in Queued' PROVE n \in Queued
  <2>1. PICK i \in DOMAIN queue' : queue'[i].kind # "override" /\ queue'[i].seq = n
    BY <1>6 DEF Queued
  <2> QED
    BY <1>3, <2>1 DEF Queued
<1>7. first \subseteq Queued
  BY <1>1 DEF Queued
<1> QED
  BY <1>1, <1>3, <1>5, <1>6, <1>7

-----------------------------------------------------------------------------
\* Nothing is asked for at the start.
LEMMA InitThread == Init => ThreadInv
<1> SUFFICES ASSUME Init PROVE ThreadInv
  OBVIOUS
<1>1. queue = <<>> /\ reports = <<>> /\ nextSeq = 1 /\ pending = 0 /\ job = NoJob
      /\ disk = 0 /\ closing = 0 /\ worker = "idle" /\ handle = "open" /\ completed = "none"
      /\ guard \in BOOLEAN
  BY DEF Init
<1>2. TypeOK
  BY <1>1, MaxSeqAssumption DEF TypeOK, NoJob
<1>3. Reported = {} /\ Queued = {} /\ Held = {} /\ Issued = {}
  BY <1>1 DEF Reported, Queued, Held, Issued, NoJob
<1>4. EachRequestIsAccountedFor
  BY <1>1, <1>3 DEF EachRequestIsAccountedFor, IsInjective
<1> QED
  BY <1>1, <1>2, <1>4
  DEF ThreadInv, OrderInv, WorkerInv, ReportInv, DoneMeansFinalState, NoJob, Receiving

\* The ranges, and what nobody has asked for yet.
LEMMA Ranges ==
  ASSUME ThreadInv
  PROVE  /\ nextSeq \in Nat /\ 1 <= nextSeq /\ nextSeq <= MaxSeq + 1
         /\ disk \in Nat /\ pending \in Nat /\ closing \in Nat /\ job.seq \in Nat
         /\ job.last \in BOOLEAN /\ job.told \in BOOLEAN
         /\ queue \in Seq(Request) /\ reports \in Seq(Reports)
         /\ \A i \in DOMAIN queue : i \in Nat /\ queue[i] \in Request /\ queue[i].seq \in Nat
         /\ \A i \in DOMAIN reports : reports[i] \in Reports /\ reports[i].seq \in Nat
         /\ nextSeq \notin Reported /\ nextSeq \notin Queued /\ nextSeq \notin Held
<1> USE MaxSeqAssumption
<1>1. /\ nextSeq \in Nat /\ 1 <= nextSeq /\ nextSeq <= MaxSeq + 1
      /\ disk \in Nat /\ pending \in Nat /\ closing \in Nat
      /\ queue \in Seq(Request) /\ reports \in Seq(Reports)
      /\ job \in [seq : 0..MaxSeq, last : BOOLEAN, told : BOOLEAN]
  <2>1. reports \in Seq(Reports)
    BY DEF ThreadInv, TypeOK, Reports
  <2>2. /\ nextSeq \in 1..(MaxSeq + 1) /\ disk \in 0..MaxSeq /\ pending \in 0..MaxSeq
        /\ closing \in 0..MaxSeq /\ queue \in Seq(Request)
        /\ job \in [seq : 0..MaxSeq, last : BOOLEAN, told : BOOLEAN]
    BY DEF ThreadInv, TypeOK
  <2> QED
    BY <2>1, <2>2
<1>2. job.seq \in Nat /\ job.last \in BOOLEAN /\ job.told \in BOOLEAN
  BY <1>1
<1>3. ASSUME NEW i \in DOMAIN queue
      PROVE  i \in Nat /\ queue[i] \in Request /\ queue[i].seq \in Nat
  <2>1. i \in Nat /\ queue[i] \in Request
    BY <1>1
  <2> QED
    BY <2>1 DEF Request
<1>4. ASSUME NEW i \in DOMAIN reports
      PROVE  reports[i] \in Reports /\ reports[i].seq \in Nat
  <2>1. reports[i] \in Reports
    BY <1>1
  <2> QED
    BY <2>1 DEF Reports
<1>5. nextSeq \notin Reported
  BY <1>1, <1>4 DEF ThreadInv, ReportInv, Reported
<1>6. nextSeq \notin Queued
  BY <1>1, <1>3 DEF ThreadInv, OrderInv, Waits, Queued
<1>7. nextSeq \notin Held
  BY <1>1, <1>2 DEF ThreadInv, OrderInv, Held
<1> QED
  BY <1>1, <1>2, <1>3, <1>4, <1>5, <1>6, <1>7

\* A request, or the last one, put into the queue.
LEMMA QueuedKeeps ==
  ASSUME ThreadInv, handle = "open", Receiving, nextSeq <= MaxSeq, nextSeq' = nextSeq + 1,
         NEW q \in Request, q.seq = nextSeq, queue' = Append(queue, q),
         \/ q.kind = "save" /\ UNCHANGED <<handle, closing, completed>>
         \/ q.kind = "shutdown" /\ handle' = "closed" /\ closing' = nextSeq /\ completed' = "waiting",
         UNCHANGED <<worker, pending, job, guard, disk, reports>>
  PROVE  ThreadInv'
<1> USE MaxSeqAssumption
<1>1. /\ queue' \in Seq(Request) /\ Len(queue') = Len(queue) + 1
      /\ \A i \in DOMAIN queue : i \in DOMAIN queue' /\ queue'[i] = queue[i] /\ i < Len(queue')
      /\ queue'[Len(queue')] = q /\ Len(queue') \in DOMAIN queue'
      /\ \A i \in DOMAIN queue' : i \in DOMAIN queue \/ i = Len(queue')
      /\ Queued' = Queued \cup {nextSeq}
  <2>1. queue \in Seq(Request) /\ q.kind # "override"
    BY DEF ThreadInv, TypeOK
  <2> QED
    BY <2>1, OneMoreRequest
<1>2. /\ nextSeq \in Nat /\ 1 <= nextSeq /\ disk \in Nat /\ pending \in Nat /\ job.seq \in Nat
      /\ \A i \in DOMAIN queue : queue[i].seq \in Nat /\ i \in Nat /\ queue[i].kind # "shutdown"
      /\ ~job.last /\ ~job.told /\ completed # "done" /\ nextSeq \notin Reported
  BY Ranges DEF ThreadInv, OrderInv, WorkerInv, ReportInv
<1>3. TypeOK'
  <2>1. nextSeq' \in 1..(MaxSeq + 1) /\ nextSeq \in 0..MaxSeq
    BY <1>2
  <2>2. /\ handle' \in {"open", "closed", "dropped"} /\ closing' \in 0..MaxSeq
        /\ completed' \in {"none", "waiting", "done", "hung up"}
    BY <2>1 DEF ThreadInv, TypeOK
  <2> QED
    BY <1>1, <2>1, <2>2 DEF ThreadInv, TypeOK
<1>4. OrderInv'
  <2>1. ASSUME NEW i \in DOMAIN queue', Waits(i)'
        PROVE  /\ queue'[i].seq < nextSeq' /\ disk < queue'[i].seq
               /\ pending < queue'[i].seq /\ job.seq < queue'[i].seq
    <3>1. CASE i = Len(queue')
      BY <1>1, <1>2, <3>1 DEF ThreadInv, OrderInv
    <3>2. CASE i \in DOMAIN queue
      BY <1>1, <1>2, <2>1, <3>2 DEF ThreadInv, OrderInv, Waits
    <3> QED
      BY <1>1, <3>1, <3>2
  <2>2. ASSUME NEW i \in DOMAIN queue', NEW j \in DOMAIN queue', Waits(i)', Waits(j)', i < j
        PROVE  queue'[i].seq < queue'[j].seq
    <3>1. i \in DOMAIN queue
      BY <1>1, <2>2
    <3>2. CASE j = Len(queue')
      BY <1>1, <2>2, <3>1, <3>2 DEF ThreadInv, OrderInv, Waits
    <3>3. CASE j \in DOMAIN queue
      BY <1>1, <2>2, <3>1, <3>3 DEF ThreadInv, OrderInv, Waits
    <3> QED
      BY <1>1, <3>2, <3>3
  <2>3. ASSUME NEW i \in DOMAIN queue', queue'[i].kind = "shutdown"
        PROVE  queue'[i].seq = closing' /\ handle' # "open" /\ i = Len(queue')
    BY <1>1, <1>2, <2>3
  <2> QED
    BY <1>2, <2>1, <2>2, <2>3 DEF ThreadInv, OrderInv
<1>5. WorkerInv'
  BY <1>2 DEF ThreadInv, WorkerInv, Receiving
<1>6. ReportInv' /\ DoneMeansFinalState'
  <2>1. completed' # "done"
    BY <1>2
  <2>2. \A i \in DOMAIN reports : reports[i].seq \in Nat
    BY Ranges
  <2> QED
    BY <1>2, <2>1, <2>2 DEF ThreadInv, ReportInv, DoneMeansFinalState
<1>7. EachRequestIsAccountedFor'
  <2>1. Issued' = Issued \cup {nextSeq} /\ Reported' = Reported /\ Held' = Held
    BY <1>2 DEF Issued, Reported, Held
  <2>3. IsInjective([i \in DOMAIN reports |-> reports[i].seq])
        => IsInjective([i \in DOMAIN reports' |-> reports'[i].seq])
    OBVIOUS
  <2> QED
    BY <1>1, <1>2, <2>1, <2>3 DEF ThreadInv, EachRequestIsAccountedFor
<1> QED
  BY <1>3, <1>4, <1>5, <1>6, <1>7 DEF ThreadInv

\* A request the worker does not get is reported at once.
LEMMA RefusedKeeps ==
  ASSUME ThreadInv, nextSeq <= MaxSeq, nextSeq' = nextSeq + 1,
         reports' = Append(reports, Report(nextSeq, "failed")),
         \/ UNCHANGED <<handle, closing>>
         \/ ~Receiving /\ handle = "open" /\ handle' = "closed" /\ closing' = nextSeq,
         UNCHANGED <<queue, worker, pending, job, guard, disk, completed>>
  PROVE  ThreadInv'
<1> USE MaxSeqAssumption
<1> DEFINE r == Report(nextSeq, "failed")
<1>1. nextSeq \in 1..MaxSeq /\ r \in Reports /\ r.seq = nextSeq /\ r.status = "failed"
  BY Ranges DEF Report, Reports
<1>2. nextSeq \notin Reported
  BY Ranges
<1>3. /\ reports' \in Seq(Reports) /\ Reported' = Reported \cup {nextSeq}
      /\ Range(reports') = Range(reports) \cup {r}
      /\ \A i \in DOMAIN reports' : reports'[i] = r \/ \E k \in DOMAIN reports : reports'[i] = reports[k]
      /\ IsInjective([i \in DOMAIN reports' |-> reports'[i].seq])
  <2>1. reports \in Seq(Reports) /\ IsInjective([i \in DOMAIN reports |-> reports[i].seq])
    BY DEF ThreadInv, TypeOK, EachRequestIsAccountedFor, Reports
  <2> HIDE DEF r
  <2>2. reports' = Append(reports, r)
    BY DEF r
  <2> QED
    BY <1>1, <1>2, <2>1, <2>2, OneMoreReport
<1> HIDE DEF r
<1>4. TypeOK'
  <2>1. nextSeq' \in 1..(MaxSeq + 1) /\ nextSeq \in 0..MaxSeq
    BY <1>1
  <2>2. handle' \in {"open", "closed", "dropped"} /\ closing' \in 0..MaxSeq
    BY <2>1 DEF ThreadInv, TypeOK
  <2> QED
    BY <1>3, <2>1, <2>2 DEF ThreadInv, TypeOK, Reports
<1>5. OrderInv' /\ WorkerInv'
  <2>1. CASE UNCHANGED <<handle, closing>>
    BY <1>1, <2>1, Ranges DEF ThreadInv, OrderInv, WorkerInv, Waits, Receiving
  <2>2. CASE ~Receiving /\ handle = "open" /\ handle' = "closed" /\ closing' = nextSeq
    <3>1. queue = <<>> /\ ~job.last /\ ~job.told
      BY <2>2, Ranges DEF ThreadInv, WorkerInv
    <3> QED
      BY <1>1, <2>2, <3>1, Ranges DEF ThreadInv, OrderInv, WorkerInv, Waits, Receiving
  <2> QED
    BY <2>1, <2>2
<1>6. ReportInv'
  <2>1. ASSUME NEW i \in DOMAIN reports'
        PROVE  /\ reports'[i].seq < nextSeq'
               /\ reports'[i].status = "superseded" => reports'[i].seq < nextSeq' - 1
               /\ reports'[i].status = "written" => reports'[i].seq <= disk
    <3>1. CASE reports'[i] = r
      BY <1>1, <3>1
    <3>2. CASE \E k \in DOMAIN reports : reports'[i] = reports[k]
      <4>1. \A k \in DOMAIN reports : reports[k].seq \in Nat
        BY Ranges
      <4> QED
        BY <1>1, <3>2, <4>1 DEF ThreadInv, ReportInv
    <3> QED
      BY <1>3, <3>1, <3>2
  <2> QED
    BY <2>1 DEF ThreadInv, ReportInv
<1>7. EachRequestIsAccountedFor'
  <2>1. Issued' = Issued \cup {nextSeq} /\ Queued' = Queued /\ Held' = Held
    BY <1>1 DEF Issued, Queued, Held
  <2>2. nextSeq \notin Queued \cup Held
    BY Ranges
  <2> QED
    BY <1>3, <2>1, <2>2 DEF ThreadInv, EachRequestIsAccountedFor
<1>8. DoneMeansFinalState'
  BY <1>3 DEF ThreadInv, ReportInv, DoneMeansFinalState, Report
<1> QED
  BY <1>4, <1>5, <1>6, <1>7, <1>8 DEF ThreadInv

-----------------------------------------------------------------------------
\* The calls of the application.
LEMMA HandleKeeps ==
  ASSUME ThreadInv, Save \/ Override \/ BeginShutdown \/ Drop
  PROVE  ThreadInv'
<1>1. CASE Save
  <2>1. CASE handle = "open" /\ Receiving
    <3> DEFINE q == [kind |-> "save", seq |-> nextSeq]
    <3>1. q \in Request /\ q.seq = nextSeq /\ q.kind = "save"
      BY <1>1, Ranges DEF Save, Request
    <3>2. /\ queue' = Append(queue, q) /\ nextSeq <= MaxSeq /\ nextSeq' = nextSeq + 1
          /\ UNCHANGED <<handle, closing, completed, worker, pending, job, guard, disk, reports>>
      BY <1>1, <2>1 DEF Save
    <3> HIDE DEF q
    <3> QED
      BY <2>1, <3>1, <3>2, QueuedKeeps
  <2>2. CASE ~(handle = "open" /\ Receiving)
    <3>1. /\ reports' = Append(reports, Report(nextSeq, "failed"))
          /\ nextSeq <= MaxSeq /\ nextSeq' = nextSeq + 1
          /\ UNCHANGED <<handle, closing, queue, completed, worker, pending, job, guard, disk>>
      BY <1>1, <2>2 DEF Save
    <3> QED
      BY <3>1, RefusedKeeps
  <2> QED
    BY <2>1, <2>2
<1>2. CASE BeginShutdown
  <2>1. CASE Receiving
    <3> DEFINE q == [kind |-> "shutdown", seq |-> nextSeq]
    <3>1. q \in Request /\ q.seq = nextSeq /\ q.kind = "shutdown"
      BY <1>2, Ranges DEF BeginShutdown, Request
    <3>2. /\ queue' = Append(queue, q) /\ nextSeq <= MaxSeq /\ nextSeq' = nextSeq + 1
          /\ handle = "open" /\ handle' = "closed" /\ closing' = nextSeq /\ completed' = "waiting"
          /\ UNCHANGED <<worker, pending, job, guard, disk, reports>>
      BY <1>2, <2>1 DEF BeginShutdown
    <3> HIDE DEF q
    <3> QED
      BY <2>1, <3>1, <3>2, QueuedKeeps
  <2>2. CASE ~Receiving
    <3>1. /\ reports' = Append(reports, Report(nextSeq, "failed"))
          /\ nextSeq <= MaxSeq /\ nextSeq' = nextSeq + 1
          /\ handle = "open" /\ handle' = "closed" /\ closing' = nextSeq
          /\ UNCHANGED <<queue, completed, worker, pending, job, guard, disk>>
      BY <1>2, <2>2 DEF BeginShutdown
    <3> QED
      BY <2>2, <3>1, RefusedKeeps
  <2> QED
    BY <2>1, <2>2
<1>3. CASE Override
  <2> DEFINE q == [kind |-> "override", seq |-> 0]
  <2>1. q \in Request /\ q.kind = "override"
    BY MaxSeqAssumption DEF Request
  <2>2. /\ queue' = Append(queue, q) /\ handle = "open" /\ Receiving
        /\ UNCHANGED <<handle, nextSeq, worker, pending, job, guard, disk, reports, closing, completed>>
    BY <1>3 DEF Override
  <2> HIDE DEF q
  <2>3. /\ queue' \in Seq(Request)
        /\ \A i \in DOMAIN queue : i \in DOMAIN queue' /\ queue'[i] = queue[i] /\ i < Len(queue')
        /\ queue'[Len(queue')] = q /\ Queued' = Queued
        /\ \A i \in DOMAIN queue' : i \in DOMAIN queue \/ i = Len(queue')
    BY <2>1, <2>2, Ranges, OneMoreRequest
  <2>4. \A i \in DOMAIN queue' :
           \/ i \in DOMAIN queue /\ queue'[i] = queue[i]
           \/ queue'[i].kind = "override"
    BY <2>1, <2>3
  <2>5. TypeOK'
    BY <2>2, <2>3 DEF ThreadInv, TypeOK
  <2>6. ~job.last /\ \A i \in DOMAIN queue : queue[i].kind # "shutdown"
    BY <2>2 DEF ThreadInv, WorkerInv, OrderInv
  <2>7. OrderInv'
    BY <2>2, <2>4, <2>6 DEF ThreadInv, OrderInv, Waits
  <2>8. WorkerInv' /\ ReportInv' /\ DoneMeansFinalState'
    BY <2>2, <2>6 DEF ThreadInv, WorkerInv, Receiving, ReportInv, DoneMeansFinalState
  <2>9. EachRequestIsAccountedFor'
    <3>1. Issued' = Issued /\ Reported' = Reported /\ Held' = Held /\ reports' = reports /\ worker' = worker
      BY <2>2 DEF Issued, Reported, Held
    <3> QED
      BY <2>3, <3>1 DEF ThreadInv, EachRequestIsAccountedFor
  <2> QED
    BY <2>5, <2>7, <2>8, <2>9 DEF ThreadInv
<1>4. CASE Drop
  <2>1. /\ handle' = "dropped"
        /\ UNCHANGED <<nextSeq, queue, worker, pending, job, guard, disk, reports, closing, completed>>
    BY <1>4 DEF Drop
  <2>2. Issued' = Issued /\ Reported' = Reported /\ Held' = Held /\ Queued' = Queued
    BY <2>1 DEF Issued, Reported, Held, Queued
  <2>3. TypeOK' /\ OrderInv'
    BY <2>1 DEF ThreadInv, TypeOK, OrderInv, Waits
  <2>4. WorkerInv' /\ ReportInv' /\ DoneMeansFinalState'
    BY <2>1 DEF ThreadInv, WorkerInv, Receiving, ReportInv, DoneMeansFinalState
  <2>5. EachRequestIsAccountedFor'
    BY <2>1, <2>2 DEF ThreadInv, EachRequestIsAccountedFor
  <2> QED
    BY <2>3, <2>4, <2>5 DEF ThreadInv
<1> QED
  BY <1>1, <1>2, <1>3, <1>4

\* A request that is replaced is reported.
LEMMA SupersededReports ==
  ASSUME ThreadInv, reports' = reports \o Superseded
  PROVE  /\ reports' \in Seq(Reports) /\ Reported' = Reported \cup ({pending} \ {0})
         /\ \A r \in Range(reports) : r \in Range(reports')
         /\ \A i \in DOMAIN reports' :
               \/ pending # 0 /\ reports'[i] = Report(pending, "superseded")
               \/ \E k \in DOMAIN reports : reports'[i] = reports[k]
         /\ IsInjective([i \in DOMAIN reports' |-> reports'[i].seq])
<1>1. reports \in Seq(Reports) /\ IsInjective([i \in DOMAIN reports |-> reports[i].seq])
  BY Ranges DEF ThreadInv, EachRequestIsAccountedFor
<1>2. CASE pending = 0
  <2>1. reports' = reports
    BY <1>1, <1>2 DEF Superseded
  <2> QED
    BY <1>1, <1>2, <2>1 DEF Reported
<1>3. CASE pending # 0
  <2> DEFINE r == Report(pending, "superseded")
  <2>1. reports' = Append(reports, r)
    BY <1>1, <1>3 DEF Superseded
  <2>2. pending \in 1..MaxSeq
    <3>1. pending \in 0..MaxSeq
      BY DEF ThreadInv, TypeOK
    <3> QED
      BY <1>3, <3>1, MaxSeqAssumption
  <2>3. r \in Reports /\ r.seq = pending
    BY <2>2 DEF Report, Reports
  <2>4. pending \notin Reported
    BY <1>3 DEF ThreadInv, EachRequestIsAccountedFor, Held
  <2> HIDE DEF r
  <2>5. /\ reports' \in Seq(Reports) /\ Reported' = Reported \cup {pending}
        /\ Range(reports') = Range(reports) \cup {r}
        /\ \A i \in DOMAIN reports' : reports'[i] = r \/ \E k \in DOMAIN reports : reports'[i] = reports[k]
        /\ IsInjective([i \in DOMAIN reports' |-> reports'[i].seq])
    BY <1>1, <2>1, <2>3, <2>4, OneMoreReport
  <2> QED
    BY <1>3, <2>5 DEF r
<1> QED
  BY <1>2, <1>3

\* What is left of the queue is as ordered as before, and newer than its head.
LEMMA TailInOrder ==
  ASSUME ThreadInv, queue # <<>>, queue' = Tail(queue)
  PROVE  /\ queue' \in Seq(Request) /\ Head(queue) \in Request /\ Head(queue) = queue[1]
         /\ 1 \in DOMAIN queue
         /\ Queued = Queued' \cup (IF Head(queue).kind = "override" THEN {} ELSE {Head(queue).seq})
         /\ \A i \in DOMAIN queue' : Waits(i)' =>
               /\ queue'[i].seq < nextSeq /\ disk < queue'[i].seq
               /\ pending < queue'[i].seq /\ job.seq < queue'[i].seq
               /\ Head(queue).kind # "override" => Head(queue).seq < queue'[i].seq
         /\ \A i, j \in DOMAIN queue' : Waits(i)' /\ Waits(j)' /\ i < j => queue'[i].seq < queue'[j].seq
         /\ \A i \in DOMAIN queue' : queue'[i].kind = "shutdown" =>
               queue'[i].seq = closing /\ handle # "open" /\ i = Len(queue')
<1>1. /\ queue' \in Seq(Request) /\ Len(queue') = Len(queue) - 1 /\ Len(queue) \in Nat
      /\ 1 \in DOMAIN queue /\ Head(queue) = queue[1] /\ queue[1] \in Request
      /\ \A i \in DOMAIN queue' : i + 1 \in DOMAIN queue /\ queue'[i] = queue[i + 1] /\ 1 < i + 1
      /\ Queued = Queued' \cup (IF Head(queue).kind = "override" THEN {} ELSE {Head(queue).seq})
  <2>1. queue \in Seq(Request) /\ Len(queue) \in Nat
    BY Ranges
  <2> QED
    BY <2>1, OneRequestLess
<1>2. \A i \in DOMAIN queue' : i \in Nat
  BY <1>1
<1>3. ASSUME NEW i \in DOMAIN queue', Waits(i)'
      PROVE  /\ queue'[i].seq < nextSeq /\ disk < queue'[i].seq
             /\ pending < queue'[i].seq /\ job.seq < queue'[i].seq
             /\ Head(queue).kind # "override" => Head(queue).seq < queue'[i].seq
  BY <1>1, <1>3 DEF ThreadInv, OrderInv, Waits
<1>4. ASSUME NEW i \in DOMAIN queue', NEW j \in DOMAIN queue', Waits(i)', Waits(j)', i < j
      PROVE  queue'[i].seq < queue'[j].seq
  <2>1. i + 1 < j + 1
    BY <1>2, <1>4
  <2> QED
    BY <1>1, <1>4, <2>1 DEF ThreadInv, OrderInv, Waits
<1>5. ASSUME NEW i \in DOMAIN queue', queue'[i].kind = "shutdown"
      PROVE  queue'[i].seq = closing /\ handle # "open" /\ i = Len(queue')
  <2>1. queue[i + 1].seq = closing /\ handle # "open" /\ i + 1 = Len(queue)
    BY <1>1, <1>5 DEF ThreadInv, OrderInv
  <2> QED
    BY <1>1, <1>2, <2>1
<1> QED
  BY <1>1, <1>3, <1>4, <1>5

\* The worker takes a request: the one it held back is superseded.
LEMMA TakenKeeps ==
  ASSUME ThreadInv, worker = "idle", queue # <<>>, queue' = Tail(queue),
         Head(queue).kind # "override", reports' = reports \o Superseded,
         \/ pending' = Head(queue).seq /\ job' = job /\ worker' = worker
         \/ /\ Head(queue).kind = "shutdown" /\ pending' = 0 /\ worker' = "saving"
            /\ job' = [seq |-> Head(queue).seq, last |-> TRUE, told |-> TRUE],
         UNCHANGED <<handle, nextSeq, guard, disk, closing, completed>>
  PROVE  ThreadInv'
<1> DEFINE n == Head(queue).seq
<1>1. /\ queue' \in Seq(Request) /\ Queued = Queued' \cup {n}
      /\ Head(queue) \in Request /\ 1 \in DOMAIN queue /\ Head(queue) = queue[1]
      /\ \A i \in DOMAIN queue' : Waits(i)' =>
            /\ queue'[i].seq < nextSeq /\ disk < queue'[i].seq
            /\ pending < queue'[i].seq /\ job.seq < queue'[i].seq
            /\ n < queue'[i].seq
      /\ \A i, j \in DOMAIN queue' : Waits(i)' /\ Waits(j)' /\ i < j => queue'[i].seq < queue'[j].seq
      /\ \A i \in DOMAIN queue' : queue'[i].kind = "shutdown" =>
            queue'[i].seq = closing /\ handle # "open" /\ i = Len(queue')
  BY TailInOrder
<1>2. /\ n \in Nat /\ n < nextSeq /\ disk < n /\ pending < n /\ n # 0 /\ n \in 1..MaxSeq
  <2>1. n \in 0..MaxSeq
    BY <1>1 DEF Request
  <2>2. n < nextSeq /\ disk < n /\ pending < n
    BY <1>1 DEF ThreadInv, OrderInv, Waits
  <2> QED
    BY <2>1, <2>2, Ranges
<1>3. /\ reports' \in Seq(Reports) /\ Reported' = Reported \cup ({pending} \ {0})
      /\ \A r \in Range(reports) : r \in Range(reports')
      /\ \A i \in DOMAIN reports' :
            \/ pending # 0 /\ reports'[i] = Report(pending, "superseded")
            \/ \E k \in DOMAIN reports : reports'[i] = reports[k]
      /\ IsInjective([i \in DOMAIN reports' |-> reports'[i].seq])
  BY SupersededReports
<1>4. /\ job = NoJob /\ job.seq = 0 /\ ~job.last /\ ~job.told
      /\ Held = {pending} \ {0} /\ Held' = {n} /\ completed # "done"
  <2>1. job = NoJob /\ job.seq = 0 /\ ~job.last /\ ~job.told /\ completed # "done"
    BY DEF ThreadInv, WorkerInv, ReportInv, NoJob
  <2> QED
    BY <1>2, <2>1 DEF Held
<1>5. \A m \in Queued' : n < m /\ pending < m /\ m \in Nat
  <2>1. \A i \in DOMAIN queue' : queue'[i] \in Request /\ queue'[i].seq \in Nat
    <3>1. \A i \in DOMAIN queue' : queue'[i] \in Request
      BY <1>1
    <3> QED
      BY <3>1 DEF Request
  <2> QED
    BY <1>1, <2>1 DEF Queued, Waits
<1>6. Head(queue).kind = "shutdown" => n = closing /\ handle # "open" /\ queue' = <<>>
  <2>1. ASSUME Head(queue).kind = "shutdown"
        PROVE  n = closing /\ handle # "open" /\ Len(queue) = 1
    BY <1>1, <2>1 DEF ThreadInv, OrderInv
  <2>2. Len(queue) = 1 => Tail(queue) = <<>>
    BY Ranges
  <2> QED
    BY <2>1, <2>2
<1> HIDE DEF n
<1>7. TypeOK'
  <2>1. pending' \in 0..MaxSeq /\ job' \in [seq : 0..MaxSeq, last : BOOLEAN, told : BOOLEAN]
    <3>1. n \in 0..MaxSeq /\ 0 \in 0..MaxSeq
      BY <1>2, MaxSeqAssumption
    <3>2. job \in [seq : 0..MaxSeq, last : BOOLEAN, told : BOOLEAN]
      BY DEF ThreadInv, TypeOK
    <3>3. [seq |-> n, last |-> TRUE, told |-> TRUE] \in [seq : 0..MaxSeq, last : BOOLEAN, told : BOOLEAN]
      BY <3>1
    <3> QED
      BY <3>1, <3>2, <3>3 DEF n
  <2> QED
    BY <1>1, <1>3, <2>1 DEF ThreadInv, TypeOK, Reports
<1>8. OrderInv'
  BY <1>1, <1>2, <1>4, Ranges DEF ThreadInv, OrderInv, n
<1>9. WorkerInv'
  BY <1>2, <1>4, <1>6 DEF ThreadInv, WorkerInv, Receiving, n
<1>10. ReportInv'
  <2>1. ASSUME NEW i \in DOMAIN reports'
        PROVE  /\ reports'[i].seq < nextSeq
               /\ reports'[i].status = "superseded" => reports'[i].seq < nextSeq - 1
               /\ reports'[i].status = "written" => reports'[i].seq <= disk
    <3>1. CASE pending # 0 /\ reports'[i] = Report(pending, "superseded")
      BY <1>2, <3>1, Ranges DEF Report
    <3>2. CASE \E k \in DOMAIN reports : reports'[i] = reports[k]
      BY <3>2 DEF ThreadInv, ReportInv
    <3> QED
      BY <1>3, <3>1, <3>2
  <2> QED
    BY <1>4, <2>1 DEF ReportInv
<1>11. EachRequestIsAccountedFor'
  <2>1. Issued' = Issued
    BY DEF Issued
  <2>2. n \notin Queued' /\ pending \notin Queued' /\ n # pending
    BY <1>2, <1>5, Ranges
  <2>3. /\ Reported \cap (Queued \cup Held) = {} /\ Issued = Reported \cup Queued \cup Held
    BY DEF ThreadInv, EachRequestIsAccountedFor
  <2>4. Reported' \cap (Queued' \cup Held') = {}
    BY <1>1, <1>3, <1>4, <2>2, <2>3
  <2>5. Issued' = Reported' \cup Queued' \cup Held'
    BY <1>1, <1>3, <1>4, <2>1, <2>3
  <2> QED
    BY <1>3, <2>4, <2>5 DEF EachRequestIsAccountedFor
<1>12. DoneMeansFinalState'
  BY <1>4 DEF DoneMeansFinalState
<1> QED
  BY <1>7, <1>8, <1>9, <1>10, <1>11, <1>12 DEF ThreadInv

\* The request held back becomes the one that is saved.
LEMMA PendingKeeps ==
  ASSUME ThreadInv, worker = "idle", queue = <<>>, pending # 0, pending' = 0, worker' = "saving",
         NEW last \in BOOLEAN, last => handle # "open",
         job' = [seq |-> pending, last |-> last, told |-> FALSE],
         UNCHANGED <<handle, nextSeq, queue, guard, disk, reports, closing, completed>>
  PROVE  ThreadInv'
<1>1. job.seq = 0 /\ pending < nextSeq /\ disk < pending /\ completed # "done"
  BY DEF ThreadInv, WorkerInv, OrderInv, ReportInv, NoJob
<1>2. TypeOK'
  <2>1. pending \in 0..MaxSeq /\ 0 \in 0..MaxSeq
    <3>1. pending \in 0..MaxSeq
      BY DEF ThreadInv, TypeOK
    <3>2. 0 \in 0..MaxSeq
      BY MaxSeqAssumption
    <3> QED
      BY <3>1, <3>2
  <2>2. job' \in [seq : 0..MaxSeq, last : BOOLEAN, told : BOOLEAN]
    BY <2>1
  <2> QED
    BY <2>1, <2>2 DEF ThreadInv, TypeOK
<1>3. OrderInv'
  BY <1>1, Ranges DEF ThreadInv, OrderInv
<1>4. WorkerInv'
  BY DEF WorkerInv, Receiving
<1>5. ReportInv' /\ DoneMeansFinalState'
  BY <1>1 DEF ThreadInv, ReportInv, DoneMeansFinalState
<1>6. EachRequestIsAccountedFor'
  <2>1. Issued' = Issued /\ Reported' = Reported /\ Held' = Held /\ Queued' = Queued
    BY <1>1 DEF Issued, Reported, Held, Queued
  <2> QED
    BY <2>1 DEF ThreadInv, EachRequestIsAccountedFor
<1> QED
  BY <1>2, <1>3, <1>4, <1>5, <1>6 DEF ThreadInv

\* A save ends: what it saved was the oldest request not yet reported.
LEMMA SaveEndsKeeps ==
  ASSUME ThreadInv, NEW written \in BOOLEAN, SaveEnds(written)
  PROVE  ThreadInv'
<1> DEFINE r == Report(job.seq, IF written THEN "written" ELSE "failed")
<1>1. /\ worker = "saving" /\ pending = 0 /\ job.seq # 0 /\ completed # "done"
      /\ job.last => queue = <<>> /\ handle # "open"
      /\ job.told => job.last /\ job.seq = closing
      /\ disk < job.seq /\ job.seq < nextSeq
  BY DEF SaveEnds, ThreadInv, WorkerInv, OrderInv, ReportInv
<1>2. /\ disk' = IF written THEN job.seq ELSE disk
      /\ reports' = Append(reports, r)
      /\ completed' = IF job.told THEN "done" ELSE completed
      /\ worker' = IF job.last THEN "ended" ELSE "idle"
      /\ queue' = queue /\ job' = NoJob
      /\ UNCHANGED <<handle, nextSeq, pending, guard, closing>>
  BY <1>1 DEF SaveEnds
<1>3. /\ job.seq \in 1..MaxSeq /\ r \in Reports /\ r.seq = job.seq
      /\ r.status = IF written THEN "written" ELSE "failed"
  <2>1. job \in [seq : 0..MaxSeq, last : BOOLEAN, told : BOOLEAN]
    BY DEF ThreadInv, TypeOK
  <2>2. job.seq \in 1..MaxSeq
    BY <1>1, <2>1, MaxSeqAssumption
  <2> QED
    BY <2>2 DEF Report, Reports
<1>4. job.seq \notin Reported /\ job.seq \notin Queued /\ Held = {job.seq} /\ Held' = {}
  <2>1. Held = {job.seq} /\ Held' = {}
    BY <1>1, <1>2 DEF Held, NoJob
  <2>2. job.seq \notin Queued
    BY Ranges DEF ThreadInv, OrderInv, Waits, Queued
  <2> QED
    BY <2>1, <2>2 DEF ThreadInv, EachRequestIsAccountedFor
<1> HIDE DEF r
<1>5. /\ reports' \in Seq(Reports) /\ Reported' = Reported \cup {job.seq}
      /\ Range(reports') = Range(reports) \cup {r}
      /\ \A i \in DOMAIN reports' : reports'[i] = r \/ \E k \in DOMAIN reports : reports'[i] = reports[k]
      /\ IsInjective([i \in DOMAIN reports' |-> reports'[i].seq])
  <2>1. reports \in Seq(Reports) /\ IsInjective([i \in DOMAIN reports |-> reports[i].seq])
    BY Ranges DEF ThreadInv, EachRequestIsAccountedFor
  <2> QED
    BY <1>2, <1>3, <1>4, <2>1, OneMoreReport
<1>6. TypeOK'
  <2>1. NoJob \in [seq : 0..MaxSeq, last : BOOLEAN, told : BOOLEAN]
    BY MaxSeqAssumption DEF NoJob
  <2>2. disk' \in 0..MaxSeq
    BY <1>2, <1>3 DEF ThreadInv, TypeOK
  <2>3. /\ worker' \in {"idle", "saving", "ended", "dead"}
        /\ completed' \in {"none", "waiting", "done", "hung up"}
    BY <1>2 DEF ThreadInv, TypeOK
  <2> QED
    BY <1>2, <1>5, <2>1, <2>2, <2>3 DEF ThreadInv, TypeOK, Reports
<1>7. OrderInv'
  <2>1. disk' < nextSeq /\ pending' < nextSeq /\ job'.seq = 0 /\ pending' = 0 /\ 0 < nextSeq
    BY <1>1, <1>2, Ranges DEF NoJob
  <2>2. ASSUME NEW i \in DOMAIN queue, Waits(i)
        PROVE  queue[i].seq < nextSeq /\ disk' < queue[i].seq /\ 0 < queue[i].seq
    <3>1. queue[i].seq < nextSeq /\ disk < queue[i].seq /\ job.seq < queue[i].seq
      BY <2>2 DEF ThreadInv, OrderInv
    <3> QED
      BY <1>2, <2>2, <3>1, Ranges
  <2> QED
    BY <1>2, <2>1, <2>2 DEF ThreadInv, OrderInv, Waits
<1>8. WorkerInv'
  BY <1>1, <1>2, Ranges DEF WorkerInv, Receiving, NoJob
<1>9. ReportInv'
  <2>1. ASSUME NEW i \in DOMAIN reports'
        PROVE  /\ reports'[i].seq < nextSeq
               /\ reports'[i].status = "superseded" => reports'[i].seq < nextSeq - 1
               /\ reports'[i].status = "written" => reports'[i].seq <= disk'
    <3>1. CASE reports'[i] = r
      BY <1>1, <1>2, <1>3, <3>1
    <3>2. CASE \E k \in DOMAIN reports : reports'[i] = reports[k]
      <4>1. PICK k \in DOMAIN reports : reports'[i] = reports[k]
        BY <3>2
      <4>2. reports[k].seq \in Nat /\ disk <= disk'
        BY <1>1, <1>2, Ranges
      <4> QED
        BY <1>2, <4>1, <4>2, Ranges DEF ThreadInv, ReportInv
    <3> QED
      BY <1>5, <3>1, <3>2
  <2>2. completed' = "done" => worker' = "ended" /\ handle' # "open"
    BY <1>1, <1>2
  <2> QED
    BY <1>2, <2>1, <2>2 DEF ReportInv
<1>10. EachRequestIsAccountedFor'
  <2>1. Issued' = Issued /\ Queued' = Queued
    BY <1>2 DEF Issued, Queued
  <2>2. /\ Reported \cap (Queued \cup Held) = {} /\ Issued = Reported \cup Queued \cup Held
    BY <1>1 DEF ThreadInv, EachRequestIsAccountedFor
  <2> QED
    BY <1>4, <1>5, <2>1, <2>2 DEF EachRequestIsAccountedFor
<1>11. DoneMeansFinalState'
  <2>1. ASSUME completed' = "done" PROVE job.seq = closing /\ closing' = closing
    BY <1>1, <1>2, <2>1
  <2> QED
    BY <1>2, <1>5, <2>1 DEF DoneMeansFinalState, r
<1> QED
  BY <1>6, <1>7, <1>8, <1>9, <1>10, <1>11 DEF ThreadInv

\* The worker's other steps.
LEMMA WorkerKeeps ==
  ASSUME ThreadInv, Worker \/ Dies
  PROVE  ThreadInv'
<1>1. CASE ReceiveSave
  BY <1>1, TakenKeeps DEF ReceiveSave
<1>2. CASE ReceiveShutdown
  BY <1>2, TakenKeeps DEF ReceiveShutdown
<1>3. CASE Timeout
  <2>1. FALSE \in BOOLEAN
    OBVIOUS
  <2> QED
    BY <1>3, <2>1, PendingKeeps DEF Timeout
<1>4. CASE \E written \in BOOLEAN : SaveEnds(written)
  BY <1>4, SaveEndsKeeps
<1>5. CASE ReceiveOverride
  <2>1. /\ worker = "idle" /\ queue # <<>> /\ Head(queue).kind = "override" /\ queue' = Tail(queue)
        /\ guard' = FALSE
        /\ UNCHANGED <<handle, nextSeq, worker, pending, job, disk, reports, closing, completed>>
    BY <1>5 DEF ReceiveOverride
  <2>2. OrderInv' /\ queue' \in Seq(Request) /\ Queued' = Queued
    BY <2>1, TailInOrder DEF ThreadInv, OrderInv
  <2>3. TypeOK'
    BY <2>1, <2>2 DEF ThreadInv, TypeOK
  <2>4. WorkerInv' /\ ReportInv' /\ DoneMeansFinalState'
    BY <2>1 DEF ThreadInv, WorkerInv, Receiving, ReportInv, DoneMeansFinalState
  <2>5. Issued' = Issued /\ Reported' = Reported /\ Held' = Held
    BY <2>1 DEF Issued, Reported, Held
  <2>6. EachRequestIsAccountedFor'
    BY <2>1, <2>2, <2>5 DEF ThreadInv, EachRequestIsAccountedFor
  <2> QED
    BY <2>2, <2>3, <2>4, <2>6 DEF ThreadInv
<1>6. CASE Disconnected
  <2>1. CASE pending # 0
    <3>1. TRUE \in BOOLEAN
      OBVIOUS
    <3> QED
      BY <1>6, <2>1, <3>1, PendingKeeps DEF Disconnected
  <2>2. CASE pending = 0
    <3>1. /\ worker = "idle" /\ queue = <<>> /\ worker' = "ended" /\ pending' = pending
          /\ UNCHANGED <<handle, nextSeq, queue, guard, disk, reports, closing, completed, job>>
      BY <1>6, <2>2 DEF Disconnected
    <3>2. Issued' = Issued /\ Reported' = Reported /\ Held' = Held /\ Queued' = Queued
      BY <3>1 DEF Issued, Reported, Held, Queued
    <3>3. TypeOK' /\ OrderInv'
      BY <3>1 DEF ThreadInv, TypeOK, OrderInv, Waits
    <3>4. WorkerInv' /\ ReportInv' /\ DoneMeansFinalState'
      BY <3>1, <2>2 DEF ThreadInv, WorkerInv, Receiving, ReportInv, DoneMeansFinalState
    <3>5. EachRequestIsAccountedFor'
      BY <3>1, <3>2 DEF ThreadInv, EachRequestIsAccountedFor
    <3> QED
      BY <3>3, <3>4, <3>5 DEF ThreadInv
  <2> QED
    BY <2>1, <2>2
<1>7. CASE Dies
  <2>1. /\ worker = "saving" /\ worker' = "dead" /\ queue' = <<>>
        /\ completed' = IF completed = "waiting" THEN "hung up" ELSE completed
        /\ UNCHANGED <<handle, nextSeq, pending, job, guard, disk, reports, closing>>
    BY <1>7 DEF Dies
  <2>2. queue' \in Seq(Request) /\ DOMAIN queue' = {}
    <3>1. <<>> \in Seq(Request) /\ DOMAIN <<>> = {}
      OBVIOUS
    <3> QED
      BY <2>1, <3>1
  <2>7. completed # "done" /\ completed' # "done" /\ pending = 0
    BY <2>1 DEF ThreadInv, ReportInv, WorkerInv
  <2>3. Reported' = Reported /\ Held' = Held /\ Queued' = {}
    <3>1. Reported' = Reported /\ Held' = Held
      BY <2>1 DEF Reported, Held
    <3>2. DOMAIN queue' = {}
      BY <2>2
    <3>3. Queued' = {}
      BY <3>2 DEF Queued
    <3> QED
      BY <3>1, <3>3
  <2>4. TypeOK' /\ OrderInv'
    <3>1. queue' \in Seq(Request) /\ DOMAIN queue' = {}
      BY <2>2
    <3>2. completed' \in {"none", "waiting", "done", "hung up"}
      BY <2>1 DEF ThreadInv, TypeOK
    <3>3. TypeOK'
      BY <2>1, <3>1, <3>2 DEF ThreadInv, TypeOK
    <3>4. OrderInv'
      BY <2>1, <3>1 DEF ThreadInv, OrderInv
    <3> QED
      BY <3>3, <3>4
  <2>5. WorkerInv' /\ ReportInv' /\ DoneMeansFinalState'
    BY <2>1, <2>7 DEF ThreadInv, WorkerInv, Receiving, ReportInv, DoneMeansFinalState
  <2>6. EachRequestIsAccountedFor'
    BY <2>1, <2>3 DEF ThreadInv, EachRequestIsAccountedFor
  <2> QED
    BY <2>4, <2>5, <2>6 DEF ThreadInv
<1> QED
  BY <1>1, <1>2, <1>3, <1>4, <1>5, <1>6, <1>7 DEF Worker

-----------------------------------------------------------------------------
\* Every step keeps the order of the requests.
LEMMA ThreadInductive == ThreadInv /\ [Next]_vars => ThreadInv'
<1> SUFFICES ASSUME ThreadInv, [Next]_vars PROVE ThreadInv'
  OBVIOUS
<1>1. CASE Save \/ Override \/ BeginShutdown \/ Drop
  BY <1>1, HandleKeeps
<1>2. CASE Worker \/ Dies
  BY <1>2, WorkerKeeps
<1>3. CASE UNCHANGED vars
  <2>1. Issued' = Issued /\ Reported' = Reported /\ Held' = Held /\ Queued' = Queued
    BY <1>3 DEF vars, Issued, Reported, Held, Queued
  <2>2. TypeOK' /\ OrderInv'
    BY <1>3 DEF vars, ThreadInv, TypeOK, OrderInv, Waits
  <2>3. WorkerInv' /\ ReportInv' /\ DoneMeansFinalState'
    BY <1>3 DEF vars, ThreadInv, WorkerInv, Receiving, ReportInv, DoneMeansFinalState
  <2>4. EachRequestIsAccountedFor'
    BY <1>3, <2>1 DEF vars, ThreadInv, EachRequestIsAccountedFor
  <2> QED
    BY <2>2, <2>3, <2>4 DEF ThreadInv
<1> QED
  BY <1>1, <1>2, <1>3 DEF Next, Terminated

\* The invariant holds throughout.
LEMMA ThreadInvariant == Spec => []ThreadInv
  BY InitThread, ThreadInductive, PTL DEF Spec

\* However many requests replace each other, and whenever the handle closes,
\* vanishes or the worker dies: no request is reported twice, and none is lost
\* while the worker lives.
THEOREM NoRequestIsLost == Spec => []EachRequestIsAccountedFor
<1>1. ThreadInv => EachRequestIsAccountedFor
  BY DEF ThreadInv
<1> QED
  BY <1>1, ThreadInvariant, PTL

\* A request is superseded only by a newer one and written only over an older
\* one, so that the newest decides.
THEOREM NewestDecides == Spec => []QuietMeansNewest
<1>1. ThreadInv => QuietMeansNewest
  <2> SUFFICES ASSUME ThreadInv
               PROVE  LET newest == nextSeq - 1 IN
                      /\ Report(newest, "superseded") \notin Range(reports)
                      /\ Report(newest, "written") \in Range(reports) => disk = newest
    BY DEF QuietMeansNewest
  <2>1. \A r \in Range(reports) : /\ r.status = "superseded" => r.seq < nextSeq - 1
                                  /\ r.status = "written" => r.seq <= disk
    BY DEF ThreadInv, ReportInv, Range
  <2>2. disk < nextSeq /\ disk \in Nat /\ nextSeq \in Nat
    BY Ranges DEF ThreadInv, OrderInv
  <2> QED
    BY <2>1, <2>2 DEF Report
<1> QED
  BY <1>1, ThreadInvariant, PTL

\* "done" is said of the snapshot of begin_shutdown and of no other.
THEOREM DoneIsTheFinalState == Spec => []DoneMeansFinalState
<1>1. ThreadInv => DoneMeansFinalState
  BY DEF ThreadInv
<1> QED
  BY <1>1, ThreadInvariant, PTL

-----------------------------------------------------------------------------
(* PersistenceThread implements LatestWins.                                *)

Waiting == IF worker = "dead" THEN {} ELSE Queued \cup Held
Refused == worker = "dead" \/ \E r \in Range(reports) : r.status = "failed"

\* A report in addition refuses something only if it says "failed".
LEMMA ReportRefuses ==
  ASSUME ThreadInv, worker # "dead", worker' # "dead",
         \A r \in Range(reports) : r \in Range(reports'),
         \A i \in DOMAIN reports' :
            \/ reports'[i].status # "failed"
            \/ \E k \in DOMAIN reports : reports'[i] = reports[k]
  PROVE  Refused' <=> Refused
  BY DEF Refused, Range

\* The worker takes a request: the one it held back gives way to it.
LEMMA TakenSupersedes ==
  ASSUME ThreadInv, ReceiveSave \/ ReceiveShutdown
  PROVE  Saver!Supersede \/ UNCHANGED Saver!vars
<1> DEFINE n == Head(queue).seq
<1>1. /\ worker = "idle" /\ worker' # "dead" /\ queue # <<>> /\ queue' = Tail(queue)
      /\ Head(queue).kind # "override" /\ reports' = reports \o Superseded
      /\ nextSeq' = nextSeq /\ disk' = disk
      /\ job = NoJob /\ {pending', job'.seq} = {n, 0}
  BY DEF ReceiveSave, ReceiveShutdown, ThreadInv, WorkerInv, NoJob
<1>2. /\ Queued = Queued' \cup {n} /\ n \in Nat /\ pending < n /\ 1 \in DOMAIN queue
      /\ \A m \in Queued' : pending < m
  <2>1. /\ Queued = Queued' \cup {n} /\ Head(queue) = queue[1] /\ 1 \in DOMAIN queue
        /\ \A i \in DOMAIN queue' : Waits(i)' => pending < queue'[i].seq
    BY <1>1, TailInOrder
  <2>2. n \in Nat /\ pending < n
    BY <1>1, <2>1, Ranges DEF ThreadInv, OrderInv, Waits
  <2> QED
    BY <2>1, <2>2 DEF Queued, Waits
<1>3. Held = {pending} \ {0} /\ Held' = {n} \ {0}
  BY <1>1 DEF Held, NoJob
<1>4. n # 0 /\ pending \in Nat /\ disk \in Nat
  BY <1>2, Ranges
<1>5. Refused' <=> Refused
  <2>1. \A i \in DOMAIN reports' :
           \/ reports'[i].status # "failed"
           \/ \E k \in DOMAIN reports : reports'[i] = reports[k]
    BY <1>1, SupersededReports DEF Report
  <2> QED
    BY <1>1, <2>1, SupersededReports, ReportRefuses
<1>6. Waiting = Queued' \cup {n} \cup ({pending} \ {0}) /\ Waiting' = Queued' \cup {n}
  BY <1>1, <1>2, <1>3, <1>4 DEF Waiting
<1>7. CASE pending = 0
  <2>1. Waiting' = Waiting
    BY <1>6, <1>7
  <2> QED
    BY <1>1, <1>5, <2>1, Zenon DEF Saver!vars, Waiting, Refused
<1>8. CASE pending # 0
  <2>1. pending \notin Queued' /\ pending # n
    BY <1>2, <1>4
  <2>2. Waiting' = Waiting \ {pending} /\ pending \in Waiting /\ n \in Waiting
    BY <1>6, <1>8, <2>1
  <2>3. \E m \in Waiting, newer \in Waiting \cup {disk} : m < newer /\ Waiting' = Waiting \ {m}
    BY <1>2, <2>2
  <2> QED
    BY <1>1, <1>5, <2>3 DEF Saver!Supersede, Waiting, Refused
<1> QED
  BY <1>7, <1>8

\* A request is made: it waits, or is reported as failed.
LEMMA RequestAsks ==
  ASSUME ThreadInv, Save \/ BeginShutdown
  PROVE  Saver!Ask \/ Saver!AskInVain
<1>1. /\ nextSeq' = nextSeq + 1 /\ nextSeq \in Nat /\ nextSeq - 1 + 1 = nextSeq
      /\ nextSeq' - 1 = nextSeq - 1 + 1
      /\ UNCHANGED <<worker, pending, job, guard, disk>> /\ nextSeq <= MaxSeq
  BY Ranges DEF Save, BeginShutdown
<1>2. queue \in Seq(Request) /\ reports \in Seq(Reports) /\ nextSeq \in 0..MaxSeq /\ nextSeq \in 1..MaxSeq
  BY <1>1, Ranges, MaxSeqAssumption
<1>3. ASSUME NEW q \in Request, q.seq = nextSeq, q.kind # "override", Receiving,
             queue' = Append(queue, q), reports' = reports
      PROVE  Saver!Ask
  <2>1. Queued' = Queued \cup {nextSeq} /\ Held' = Held
    BY <1>1, <1>2, <1>3, OneMoreRequest DEF Held
  <2>2. worker # "dead"
    BY <1>3 DEF Receiving
  <2>3. Waiting' = Waiting \cup {nextSeq} /\ (Refused' <=> Refused)
    BY <1>1, <1>3, <2>1, <2>2 DEF Waiting, Refused
  <2> QED
    BY <1>1, <2>3, Zenon DEF Saver!Ask, Waiting, Refused
<1>4. ASSUME reports' = Append(reports, Report(nextSeq, "failed")), queue' = queue
      PROVE  Saver!AskInVain
  <2> DEFINE r == Report(nextSeq, "failed")
  <2>1. r \in Reports /\ r.status = "failed"
    BY <1>2 DEF Report, Reports
  <2>2. r \in Range(reports')
    <3> HIDE DEF r
    <3>1. Range(reports') = Range(reports) \cup {r}
      BY <1>2, <1>4, <2>1, OneMoreReport DEF r
    <3> QED
      BY <3>1
  <2>3. Refused'
    BY <2>1, <2>2 DEF Refused
  <2>4. Waiting' = Waiting
    BY <1>1, <1>4 DEF Waiting, Queued, Held
  <2>5. Refused' <=> TRUE
    BY <2>3
  <2> QED
    BY <1>1, <2>4, <2>5, Zenon DEF Saver!AskInVain, Waiting, Refused
<1>5. CASE Save
  <2>1. [kind |-> "save", seq |-> nextSeq] \in Request
    BY <1>2 DEF Request
  <2> QED
    BY <1>3, <1>4, <1>5, <2>1 DEF Save
<1>6. CASE BeginShutdown
  <2>1. [kind |-> "shutdown", seq |-> nextSeq] \in Request
    BY <1>2 DEF Request
  <2> QED
    BY <1>3, <1>4, <1>6, <2>1 DEF BeginShutdown
<1> QED
  BY <1>5, <1>6

\* A save ends: its request is served, or refused.
LEMMA SaveDecides ==
  ASSUME ThreadInv, NEW written \in BOOLEAN, SaveEnds(written)
  PROVE  Saver!Serve \/ Saver!Refuse
<1> DEFINE r == Report(job.seq, IF written THEN "written" ELSE "failed")
<1>1. /\ worker = "saving" /\ worker' \in {"idle", "ended"} /\ pending' = pending /\ pending = 0 /\ job.seq # 0
      /\ disk < job.seq /\ job'.seq = 0 /\ nextSeq' = nextSeq /\ queue' = queue
      /\ disk' = IF written THEN job.seq ELSE disk
      /\ reports' = Append(reports, r)
  BY DEF SaveEnds, ThreadInv, WorkerInv, OrderInv, NoJob
<1>2. r \in Reports /\ r.status = IF written THEN "written" ELSE "failed"
  <2>1. job.seq \in 1..MaxSeq
    <3>1. job \in [seq : 0..MaxSeq, last : BOOLEAN, told : BOOLEAN]
      BY DEF ThreadInv, TypeOK
    <3> QED
      BY <1>1, <3>1, MaxSeqAssumption
  <2> QED
    BY <2>1 DEF Report, Reports
<1>3. Range(reports') = Range(reports) \cup {r}
  <2> HIDE DEF r
  <2> QED
    BY <1>1, <1>2, Ranges, OneMoreReport
<1>4. job.seq \notin Queued
  BY Ranges DEF ThreadInv, OrderInv, Waits, Queued
<1>5. Waiting = Queued \cup {job.seq} /\ Waiting' = Queued /\ Waiting' = Waiting \ {job.seq}
  <2>1. Held = {job.seq} /\ Held' = {} /\ Queued' = Queued
    BY <1>1 DEF Held, Queued
  <2> QED
    BY <1>1, <1>4, <2>1 DEF Waiting
<1>6. CASE written
  <2>1. Refused' <=> Refused
    <3> HIDE DEF r
    <3> QED
      BY <1>1, <1>2, <1>3, <1>6 DEF Refused
  <2>2. \E n \in Waiting : n > disk /\ disk' = n /\ Waiting' = Waiting \ {n}
    BY <1>1, <1>5, <1>6, Ranges
  <2> QED
    BY <1>1, <2>1, <2>2, Zenon DEF Saver!Serve, Waiting, Refused
<1>7. CASE ~written
  <2>1. Refused' <=> TRUE
    <3> HIDE DEF r
    <3> QED
      BY <1>2, <1>3, <1>7 DEF Refused
  <2>2. Waiting' \subseteq Waiting /\ disk' = disk
    BY <1>1, <1>5, <1>7
  <2> QED
    BY <1>1, <2>1, <2>2, Zenon DEF Saver!Refuse, Waiting, Refused
<1> QED
  BY <1>6, <1>7

\* Every step of the handle and of the worker is one of LatestWins or changes
\* nothing of it.
LEMMA StepOfSaver ==
  ThreadInv /\ [Next]_vars => [Saver!Next]_(Saver!vars)
<1> SUFFICES ASSUME ThreadInv, [Next]_vars
             PROVE  Saver!Next \/ UNCHANGED Saver!vars
  OBVIOUS
<1>1. CASE Save \/ BeginShutdown
  BY <1>1, RequestAsks DEF Saver!Next
<1>2. CASE ReceiveSave \/ ReceiveShutdown
  BY <1>2, TakenSupersedes DEF Saver!Next
<1>3. CASE \E written \in BOOLEAN : SaveEnds(written)
  BY <1>3, SaveDecides DEF Saver!Next
<1>4. ASSUME Queued' = Queued, Held' = Held, nextSeq' = nextSeq, disk' = disk, reports' = reports,
             worker # "dead", worker' # "dead"
      PROVE  UNCHANGED Saver!vars
  <2>1. Waiting' = Waiting /\ (Refused' <=> Refused)
    BY <1>4 DEF Waiting, Refused
  <2> QED
    BY <1>4, <2>1, Zenon DEF Saver!vars, Waiting, Refused
<1>5. CASE Override
  <2> DEFINE q == [kind |-> "override", seq |-> 0]
  <2>1. q \in Request /\ q.kind = "override"
    BY MaxSeqAssumption DEF Request
  <2>2. /\ queue' = Append(queue, q) /\ worker # "dead"
        /\ UNCHANGED <<nextSeq, worker, pending, job, disk, reports>>
    BY <1>5 DEF Override, Receiving
  <2> HIDE DEF q
  <2>3. Queued' = Queued
    BY <2>1, <2>2, Ranges, OneMoreRequest
  <2>4. Held' = Held
    BY <2>2 DEF Held
  <2> QED
    BY <1>4, <2>2, <2>3, <2>4
<1>6. CASE ReceiveOverride
  <2>1. /\ queue # <<>> /\ queue' = Tail(queue) /\ Head(queue).kind = "override" /\ worker = "idle"
        /\ UNCHANGED <<nextSeq, worker, pending, job, disk, reports>>
    BY <1>6 DEF ReceiveOverride
  <2>2. Queued' = Queued /\ Held' = Held
    BY <2>1, TailInOrder DEF Held
  <2> QED
    BY <1>4, <2>1, <2>2
<1>7. CASE Timeout \/ Disconnected
  <2>1. /\ worker = "idle" /\ job = NoJob /\ worker' \in {"saving", "ended"}
        /\ {pending', job'.seq} \ {0} = {pending} \ {0}
        /\ UNCHANGED <<nextSeq, queue, disk, reports>>
    BY <1>7 DEF Timeout, Disconnected, ThreadInv, WorkerInv, NoJob
  <2>2. Queued' = Queued /\ Held' = Held
    BY <2>1 DEF Queued, Held, NoJob
  <2> QED
    BY <1>4, <2>1, <2>2
<1>8. CASE Dies
  <2>1. worker' = "dead" /\ UNCHANGED <<nextSeq, disk>>
    BY <1>8 DEF Dies
  <2>2. Waiting' = {} /\ (Refused' <=> TRUE)
    BY <2>1 DEF Waiting, Refused
  <2>3. Waiting' \subseteq Waiting
    BY <2>2
  <2> QED
    BY <2>1, <2>2, <2>3, Zenon DEF Saver!Next, Saver!Refuse, Waiting, Refused
<1>9. CASE Drop \/ Terminated \/ UNCHANGED vars
  <2>1. UNCHANGED <<nextSeq, queue, worker, pending, job, disk, reports>>
    BY <1>9 DEF Drop, Terminated, vars
  <2>2. Queued' = Queued /\ Held' = Held
    BY <2>1 DEF Queued, Held
  <2>3. Waiting' = Waiting /\ (Refused' <=> Refused)
    BY <2>1, <2>2 DEF Waiting, Refused
  <2> QED
    BY <2>1, <2>3, Zenon DEF Saver!vars, Waiting, Refused
<1> QED
  BY <1>1, <1>2, <1>3, <1>5, <1>6, <1>7, <1>8, <1>9 DEF Next, Worker

\* No state is written over a newer one, and a request is left unwritten only
\* for a newer one or because something failed: for any number of requests, and
\* wherever the handle closes or vanishes and the worker dies.
THEOREM SaverIsImplemented == Spec => NewestStateIsSaved
<1>1. Init => Saver!Init
  <2> SUFFICES ASSUME Init PROVE Saver!Init
    OBVIOUS
  <2>1. nextSeq - 1 = 0 /\ disk = 0 /\ worker = "idle" /\ queue = <<>> /\ reports = <<>>
        /\ pending = 0 /\ job.seq = 0
    BY DEF Init, NoJob
  <2>2. Waiting = {} /\ (Refused <=> FALSE)
    BY <2>1 DEF Waiting, Refused, Queued, Held, Range
  <2> QED
    BY <2>1, <2>2, Zenon DEF Saver!Init, Waiting, Refused
<1> QED
  BY <1>1, ThreadInvariant, StepOfSaver, PTL DEF Spec, NewestStateIsSaved, Saver!Spec

\* When nothing waits any more and nothing has failed, the disk holds the state
\* of the newest request.
THEOREM QuietMeansSaved == Spec => []Saver!NewestIsServed
<1>1. ThreadInv => Saver!NewestIsServed
  <2> SUFFICES ASSUME ThreadInv, Waiting = {}, ~Refused PROVE disk = nextSeq - 1
    BY Zenon DEF Saver!NewestIsServed, Waiting, Refused
  <2>1. worker # "dead" /\ Queued \cup Held = {} /\ \A i \in DOMAIN reports : reports[i].status # "failed"
    BY DEF Waiting, Refused, Range
  <2>2. nextSeq \in Nat /\ 1 <= nextSeq /\ disk \in Nat /\ disk < nextSeq
    BY Ranges DEF ThreadInv, OrderInv
  <2>3. CASE nextSeq = 1
    BY <2>2, <2>3
  <2>4. CASE nextSeq > 1
    <3>1. nextSeq - 1 \in Reported
      BY <2>1, <2>2, <2>4 DEF ThreadInv, EachRequestIsAccountedFor, Issued
    <3>2. PICK i \in DOMAIN reports : reports[i].seq = nextSeq - 1
      BY <3>1 DEF Reported
    <3>3. reports[i].status = "written"
      <4>1. reports[i].status \in {"written", "superseded", "failed"}
        BY Ranges DEF Reports
      <4> QED
        BY <2>1, <2>2, <3>2, <4>1 DEF ThreadInv, ReportInv
    <3>4. nextSeq - 1 <= disk
      BY <3>2, <3>3 DEF ThreadInv, ReportInv
    <3> QED
      BY <2>2, <3>4
  <2> QED
    BY <2>2, <2>3, <2>4
<1> QED
  BY <1>1, ThreadInvariant, PTL

\* Something is left for the worker to do, by the guards of its steps.
WorkerCanGoOn ==
    \/ worker = "saving"
    \/ worker = "idle" /\ (queue # <<>> \/ pending # 0 \/ handle # "open")

\* As long as a request is not reported the worker has a step to take, and it
\* does not end before each is.
UnreportedIsInHand ==
    /\ worker = "ended" => Issued = Reported
    /\ worker # "dead" /\ Issued # Reported => WorkerCanGoOn

\* No request is forgotten in a corner from which no step would take it, be it
\* behind a shutdown, under a dropped handle or in the debounce.
THEOREM NoRequestIsStranded == Spec => []UnreportedIsInHand
<1>1. ThreadInv => UnreportedIsInHand
  <2> SUFFICES ASSUME ThreadInv PROVE UnreportedIsInHand
    OBVIOUS
  <2>1. worker # "dead" => Issued = Reported \cup Queued \cup Held
    BY DEF ThreadInv, EachRequestIsAccountedFor
  <2>2. queue = <<>> => Queued = {}
    BY DEF Queued
  <2>3. pending = 0 /\ job = NoJob => Held = {}
    BY DEF Held, NoJob
  <2>4. worker \in {"idle", "saving", "ended", "dead"} /\ WorkerInv
    BY DEF ThreadInv, TypeOK
  <2> QED
    BY <2>1, <2>2, <2>3, <2>4 DEF UnreportedIsInHand, WorkerCanGoOn, WorkerInv, Receiving
<1> QED
  BY <1>1, ThreadInvariant, PTL
=============================================================================
