-------------------------- MODULE FederationProofs --------------------------
(***************************************************************************)
(* The relay of Federation, for any number of synchronisations, messages   *)
(* and broken rounds and any batch: it implements RelayChannel in both     *)
(* directions, and the background loop alone never makes it stuck.         *)
(*                                                                         *)
(* Sequence numbers and positions in the log agree, so every queue, request*)
(* and answer is a span of consecutive items; the invariant says which.    *)
(***************************************************************************)
EXTENDS Federation, SequenceTheorems, TLAPS

Item(n) == [sequence |-> n, id |-> n]

\* The items a + 1 to b.
Span(a, b) == [i \in 1..(b - a) |-> Item(a + i)]

Items == [sequence : Nat, id : Nat]
Requests ==
    [op : {"attach", "stop"}]
      \cup [op : {"ack", "import"}, by : Syncs, through : Nat, items : Seq(Items)]

Statuses == {"none", "starting", "active", "outcome_unknown", "stopped", "abandoned",
             "succeeded", "failed", "ready"}
Places == {"idle", "pull", "store", "ack", "pending", "import", "imported"}

Locals == [pc : Places, cursor : Nat, items : Seq(Items)]

RelayType ==
    /\ dispatch \in [status : Statuses, cursor : Nat, relay : Seq(Items), acked : Nat]
    /\ attachment \in [status : Statuses, relay : Seq(Items), acked : Nat, imported : Nat]
    /\ sync \in [Syncs -> Locals]
    /\ wire \subseteq Requests
    /\ sentHome \in Seq(Kinds) /\ sentWorker \in Seq({"mail"})
    /\ bounds \in Scenarios

\* Mail to the home: everything up to h is stored, and nobody who may still
\* move the home's cursor, or acknowledge, is further on.
StoredUpTo(h) ==
    /\ homeInbox = 1..h
    /\ attachment.acked <= h /\ dispatch.cursor <= h
    /\ \A s \in Syncs : sync[s].pc \in {"pull", "store", "ack"} => sync[s].cursor <= h
    /\ \A r \in wire : r.op = "ack" => r.through <= h

HomeInv ==
    /\ attachment.relay = Span(attachment.acked, Len(sentHome))
    /\ \E h \in 0..Len(sentHome) : StoredUpTo(h)
    /\ \A s \in Syncs : sync[s].pc = "store" =>
          \E a, b \in 0..Len(sentHome) : a <= b /\ sync[s].items = Span(a, b)

\* An import request carries a span of what the coordinator sent, from a
\* position the worker side has reached.
Carries(r) ==
    /\ r.through <= Len(sentWorker)
    /\ \E a \in Nat : /\ a < r.through /\ a <= attachment.imported
                      /\ r.items = Span(a, r.through)

\* Mail to the worker: what it has imported it has stored, and what is
\* confirmed to the home it has imported.
WorkerInv ==
    /\ dispatch.relay = Span(dispatch.acked, Len(sentWorker))
    /\ dispatch.acked <= attachment.imported /\ attachment.imported <= Len(sentWorker)
    /\ workerInbox = 1..attachment.imported
    /\ \A r \in wire : r.op = "import" => Carries(r)
    /\ \A s \in Syncs : sync[s].pc = "imported" => sync[s].cursor <= attachment.imported

\* The items wait at the position c.
Follow(items, c) == \E b \in Nat : c <= b /\ items = Span(c, b)

\* With the loop alone the cursor is where the inbox ends, and what the loop
\* has pulled follows it.
SoloInv ==
    bounds.syncs = {Loop} =>
        /\ homeInbox = 1..dispatch.cursor
        /\ \A s \in Syncs : s # Loop => sync[s].pc = "idle"
        /\ sync[Loop].pc \in {"pull", "store"} => sync[Loop].cursor = dispatch.cursor
        /\ sync[Loop].pc = "store" => Follow(sync[Loop].items, sync[Loop].cursor)

RelayInv == RelayType /\ HomeInv /\ WorkerInv /\ SoloInv

\* The steps of others who write the Task.
OthersWrite ==
    \/ \E status \in TaskStatuses : SetTask(status)
    \/ \E outcome \in Outcomes : SettleAtHome(outcome)

-----------------------------------------------------------------------------
(* Spans                                                                   *)

\* A span's items.
LEMMA SpanItems ==
  ASSUME NEW a \in Nat, NEW b \in Nat
  PROVE  \A i \in 1..(b - a) :
            /\ Span(a, b)[i] = Item(a + i) /\ Item(a + i) \in Items
            /\ Span(a, b)[i].sequence = a + i /\ Span(a, b)[i].id = a + i
<1>1. \A i \in 1..(b - a) : a + i \in Nat
  OBVIOUS
<1>2. \A n \in Nat : Item(n) \in Items /\ Item(n).sequence = n /\ Item(n).id = n
  BY DEF Item, Items
<1>3. \A i \in 1..(b - a) : Span(a, b)[i] = Item(a + i)
  BY DEF Span
<1> HIDE DEF Item
<1> QED
  BY <1>1, <1>2, <1>3

\* Its length.
LEMMA SpanShape ==
  ASSUME NEW a \in Nat, NEW b \in Nat, a <= b
  PROVE  /\ Span(a, b) \in Seq(Items) /\ Len(Span(a, b)) = b - a /\ b - a \in Nat
         /\ DOMAIN Span(a, b) = 1..(b - a)
         /\ Span(a, b) = <<>> <=> a = b
<1>1. \A i \in 1..(b - a) : Item(a + i) \in Items
  BY SpanItems
<1>2. b - a \in Nat
  OBVIOUS
<1> HIDE DEF Item
<1>3. Span(a, b) \in Seq(Items) /\ Len(Span(a, b)) = b - a /\ DOMAIN Span(a, b) = 1..(b - a)
  BY <1>1, <1>2 DEF Span
<1>4. Span(a, b) = <<>> <=> Len(Span(a, b)) = 0
  BY <1>3
<1>5. b - a = 0 <=> a = b
  OBVIOUS
<1> QED
  BY <1>2, <1>3, <1>4, <1>5

\* What is a sequence of the same items is the span.
LEMMA IsSpan ==
  ASSUME NEW a \in Nat, NEW b \in Nat, a <= b, NEW q \in Seq(Items), Len(q) = b - a,
         \A i \in 1..(b - a) : q[i] = Item(a + i)
  PROVE  q = Span(a, b)
<1> DEFINE t == Span(a, b)
<1>1. t \in Seq(Items) /\ Len(t) = b - a /\ \A i \in 1..(b - a) : t[i] = Item(a + i)
  BY SpanItems, SpanShape
<1> HIDE DEF t, Item
<1>2. \A i \in 1..Len(q) : q[i] = t[i]
  BY <1>1
<1>3. q = t
  BY <1>1, <1>2, SeqEqual
<1> QED
  BY <1>3 DEF t

\* Max of two numbers.
LEMMA MaxOfTwo ==
  ASSUME NEW m \in Nat, NEW n \in Nat
  PROVE  Max({m, n}) = IF m <= n THEN n ELSE m
BY DEF Max

\* Min of two numbers.
LEMMA MinOfTwo ==
  ASSUME NEW m \in Nat, NEW n \in Nat
  PROVE  Min({m, n}) = IF m <= n THEN m ELSE n
BY DEF Min

\* The number a push takes is the next one.
LEMMA SpanPush ==
  ASSUME NEW a \in Nat, NEW b \in Nat, a <= b
  PROVE  /\ LastSequence(Span(a, b), a) = b
         /\ Push(Span(a, b), a, b + 1) = Span(a, b + 1)
<1>1. LastSequence(Span(a, b), a) = b
  <2>1. CASE a = b
    BY <2>1, SpanItems, SpanShape DEF LastSequence
  <2>2. CASE a < b
    <3>1. b - a \in 1..(b - a) /\ a + (b - a) = b
      BY <2>2
    <3>2. Last(Span(a, b)) = Span(a, b)[b - a]
      BY SpanItems, SpanShape DEF Last
    <3>3. Span(a, b) # <<>>
      BY <2>2, SpanItems, SpanShape
    <3>4. Span(a, b)[b - a].sequence = b
      BY <3>1, SpanItems, SpanShape
    <3> QED
      BY <3>2, <3>3, <3>4 DEF LastSequence
  <2> QED
    BY <2>1, <2>2
<1> DEFINE s == Span(a, b)
           q == Append(s, Item(b + 1))
<1>2. /\ s \in Seq(Items) /\ Len(s) = b - a /\ \A i \in 1..(b - a) : s[i] = Item(a + i)
      /\ Item(b + 1) \in Items
  BY SpanItems, SpanShape DEF Item, Items
<1> HIDE DEF s, Item
<1>3. /\ q \in Seq(Items) /\ Len(q) = (b + 1) - a /\ q[(b + 1) - a] = Item(b + 1)
      /\ \A i \in 1..(b - a) : q[i] = s[i]
  BY <1>2
<1> HIDE DEF q
<1>4. \A i \in 1..((b + 1) - a) : q[i] = Item(a + i)
  <2>1. ASSUME NEW i \in 1..((b + 1) - a) PROVE q[i] = Item(a + i)
    <3>1. CASE i = (b + 1) - a
      <4>1. a + i = b + 1
        BY <3>1
      <4> QED
        BY <1>3, <3>1, <4>1
    <3>2. CASE i # (b + 1) - a
      <4>1. i \in 1..(b - a)
        BY <3>2
      <4> QED
        BY <1>2, <1>3, <4>1
    <3> QED
      BY <3>1, <3>2
  <2> QED
    BY <2>1
<1>5. q = Span(a, b + 1)
  <2>1. b + 1 \in Nat /\ a <= b + 1
    OBVIOUS
  <2> QED
    BY <1>3, <1>4, <2>1, IsSpan
<1> QED
  BY <1>1, <1>5 DEF Push, q, s, Item

\* What is cut out of a sequence.
LEMMA CutShape ==
  ASSUME NEW S, NEW s \in Seq(S), NEW m \in 1..Len(s), NEW n \in m..Len(s)
  PROVE  /\ SubSeq(s, m, n) \in Seq(S) /\ Len(SubSeq(s, m, n)) = n - m + 1
         /\ \A i \in 1..(n - m + 1) : SubSeq(s, m, n)[i] = s[m + i - 1]
<1>1. Len(s) \in Nat
  BY LenProperties
<1>2. m \in Int /\ n \in Int /\ m <= n /\ m..n \subseteq 1..Len(s)
  BY <1>1
<1>3. \A i \in m..n : s[i] \in S
  BY <1>2, ElementOfSeq
<1> QED
  BY <1>2, <1>3, SubSeqProperties

\* What is beyond a position.
LEMMA SpanAfter ==
  ASSUME NEW a \in Nat, NEW b \in Nat, a <= b, NEW p \in Nat
  PROVE  After(Span(a, b), p) = Span(IF p <= a THEN a ELSE IF p <= b THEN p ELSE b, b)
<1> DEFINE s == Span(a, b)
           later == {i \in DOMAIN s : s[i].sequence > p}
           c == IF p <= a THEN a ELSE IF p <= b THEN p ELSE b
           m == c - a + 1
<1>1. s \in Seq(Items) /\ Len(s) = b - a /\ DOMAIN s = 1..(b - a)
      /\ \A i \in 1..(b - a) : s[i] = Item(a + i) /\ s[i].sequence = a + i
  BY SpanItems, SpanShape
<1>2. c \in Nat /\ a <= c /\ c <= b
  OBVIOUS
<1> HIDE DEF s
<1>3. later = {i \in 1..(b - a) : a + i > p}
  BY <1>1
<1>4. CASE c = b
  <2>1. later = {}
    BY <1>3, <1>4
  <2>2. After(s, p) = <<>>
    BY <2>1 DEF After
  <2>3. Span(c, b) = <<>>
    BY <1>2, <1>4, SpanItems, SpanShape
  <2> QED
    BY <2>2, <2>3 DEF s
<1>5. CASE c < b
  <2>1. m \in later /\ \A i \in later : m <= i
    BY <1>2, <1>3, <1>5
  <2>2. later \subseteq Nat
    BY <1>3
  <2> HIDE DEF later, m
  <2>3. Min(later) = m
    <3>1. Min(later) \in later /\ \A i \in later : Min(later) <= i
      BY <2>1 DEF Min
    <3> DEFINE k == Min(later)
    <3>2. k <= m /\ m <= k /\ k \in Nat /\ m \in Nat
      BY <2>1, <2>2, <3>1
    <3> HIDE DEF k
    <3>3. k = m
      BY <3>2
    <3> QED
      BY <3>3 DEF k
  <2> DEFINE q == SubSeq(s, m, b - a)
  <2>4. After(s, p) = q
    BY <1>1, <2>1, <2>3 DEF After, later
  <2>5. m = c - a + 1 /\ m \in 1..(b - a) /\ b - a \in Nat /\ (b - a) - m + 1 = b - c
    BY <1>2, <1>5 DEF m
  <2>6. /\ q \in Seq(Items) /\ Len(q) = b - c
        /\ \A i \in 1..(b - c) : q[i] = s[m + i - 1]
    <3>1. s \in Seq(Items) /\ Len(s) = b - a /\ m \in 1..Len(s) /\ b - a \in m..Len(s)
      BY <1>1, <2>5
    <3>2. (b - a) - m + 1 = b - c
      BY <2>5
    <3> HIDE DEF m, c
    <3>3. /\ q \in Seq(Items) /\ Len(q) = (b - a) - m + 1
          /\ \A i \in 1..((b - a) - m + 1) : q[i] = s[m + i - 1]
      BY <3>1, CutShape
    <3> HIDE DEF q
    <3> QED
      BY <3>2, <3>3, Zenon
  <2> HIDE DEF q
  <2>7. ASSUME NEW i \in 1..(b - c) PROVE q[i] = Item(c + i)
    <3>1. m + i - 1 \in 1..(b - a) /\ a + (m + i - 1) = c + i
      BY <1>2, <2>5
    <3> QED
      BY <1>1, <2>6, <3>1
  <2>8. q = Span(c, b)
    BY <1>2, <2>6, <2>7, IsSpan
  <2> QED
    BY <2>4, <2>8 DEF s
<1> QED
  BY <1>2, <1>4, <1>5

\* A batch is the beginning of the span.
LEMMA SpanTake ==
  ASSUME NEW a \in Nat, NEW b \in Nat, a <= b, bounds.batch \in Nat \ {0}
  PROVE  \E c \in Nat : a <= c /\ c <= b /\ (a < b => a < c) /\ Take(Span(a, b)) = Span(a, c)
<1> DEFINE s == Span(a, b)
           w == bounds.batch
           n == Min({w, b - a})
           q == SubSeq(s, 1, n)
<1>1. s \in Seq(Items) /\ Len(s) = b - a /\ b - a \in Nat
      /\ \A i \in 1..(b - a) : s[i] = Item(a + i)
  BY SpanItems, SpanShape
<1> HIDE DEF s
<1>2. n \in Nat /\ n <= b - a /\ (a < b => n > 0)
  <2>1. w \in Nat \ {0}
    OBVIOUS
  <2> HIDE DEF w
  <2>2. n = IF w <= b - a THEN w ELSE b - a
    BY <1>1, <2>1, MinOfTwo
  <2> HIDE DEF n
  <2> QED
    BY <1>1, <2>1, <2>2
<1> HIDE DEF n
<1>3. q \in Seq(Items) /\ Len(q) = n /\ \A i \in 1..n : q[i] = s[i]
  BY <1>1, <1>2
<1> HIDE DEF q
<1>4. a + n \in Nat /\ (a + n) - a = n /\ a <= a + n /\ a + n <= b /\ (a < b => a < a + n)
  BY <1>1, <1>2
<1>5. \A i \in 1..n : q[i] = Item(a + i)
  BY <1>1, <1>2, <1>3
<1>6. q = Span(a, a + n)
  BY <1>3, <1>4, <1>5, IsSpan
<1>7. Take(s) = q
  BY <1>1 DEF Take, q, n, w
<1> QED
  BY <1>4, <1>6, <1>7 DEF s

\* The first item and the others, and the last one.
LEMMA SpanEnds ==
  ASSUME NEW a \in Nat, NEW b \in Nat, a < b
  PROVE  /\ Head(Span(a, b)) = Item(a + 1) /\ Tail(Span(a, b)) = Span(a + 1, b)
         /\ Last(Span(a, b)) = Item(b)
<1> DEFINE s == Span(a, b)
           q == Tail(s)
<1>1. s \in Seq(Items) /\ Len(s) = b - a /\ s # <<>> /\ \A i \in 1..(b - a) : s[i] = Item(a + i)
  BY SpanItems, SpanShape
<1> HIDE DEF s
<1>2. Head(s) = s[1] /\ 1 \in 1..(b - a) /\ b - a \in 1..(b - a) /\ a + (b - a) = b
  BY <1>1
<1>3. q \in Seq(Items) /\ Len(q) = b - (a + 1) /\ \A i \in 1..(b - (a + 1)) : q[i] = s[i + 1]
  BY <1>1
<1> HIDE DEF q
<1>4. ASSUME NEW i \in 1..(b - (a + 1)) PROVE q[i] = Item((a + 1) + i)
  <2>1. i + 1 \in 1..(b - a) /\ a + (i + 1) = (a + 1) + i
    OBVIOUS
  <2> QED
    BY <1>1, <1>3, <2>1
<1>5. q = Span(a + 1, b)
  BY <1>3, <1>4, IsSpan
<1>6. Last(s) = Item(b)
  BY <1>1, <1>2 DEF Last
<1> QED
  BY <1>1, <1>2, <1>5, <1>6 DEF s, q

\* The messages in a span.
LEMMA SpanIds ==
  ASSUME NEW a \in Nat, NEW b \in Nat, a <= b
  PROVE  Ids(Span(a, b)) = (a + 1)..b
<1> DEFINE s == Span(a, b)
<1>1. DOMAIN s = 1..(b - a) /\ \A i \in 1..(b - a) : s[i].id = a + i
  BY SpanItems, SpanShape
<1> HIDE DEF s
<1>2. Ids(s) = {s[i].id : i \in 1..(b - a)}
  BY <1>1 DEF Ids, Range
<1>3. ASSUME NEW n \in (a + 1)..b PROVE n \in Ids(s)
  <2>1. n - a \in 1..(b - a) /\ a + (n - a) = n
    OBVIOUS
  <2> QED
    BY <1>1, <1>2, <2>1
<1>4. Ids(s) \subseteq (a + 1)..b
  BY <1>1, <1>2
<1> QED
  BY <1>3, <1>4 DEF s

\* The numbers in a span.
LEMMA SpanSequences ==
  ASSUME NEW a \in Nat, NEW b \in Nat, a <= b
  PROVE  {item.sequence : item \in Range(Span(a, b))} = (a + 1)..b
<1> DEFINE s == Span(a, b)
<1>1. DOMAIN s = 1..(b - a) /\ \A i \in 1..(b - a) : s[i].sequence = a + i
  BY SpanItems, SpanShape
<1> HIDE DEF s
<1>2. {item.sequence : item \in Range(s)} = {s[i].sequence : i \in 1..(b - a)}
  BY <1>1 DEF Range
<1>3. ASSUME NEW n \in (a + 1)..b PROVE n \in {s[i].sequence : i \in 1..(b - a)}
  <2>1. n - a \in 1..(b - a) /\ a + (n - a) = n
    OBVIOUS
  <2> QED
    BY <1>1, <2>1
<1>4. {s[i].sequence : i \in 1..(b - a)} \subseteq (a + 1)..b
  BY <1>1
<1> QED
  BY <1>2, <1>3, <1>4 DEF s

\* Max of a number and an interval that begins at or before it.
LEMMA MaxOfSpan ==
  ASSUME NEW a \in Nat, NEW c \in Nat, NEW n \in Nat, a <= n
  PROVE  c <= Max({n} \cup (a + 1)..c)
<1> DEFINE S == {n} \cup (a + 1)..c
           m == IF n <= c THEN c ELSE n
<1>1. m \in S /\ \A y \in S : m >= y
  OBVIOUS
<1>2. S \subseteq Nat
  OBVIOUS
<1> HIDE DEF S
<1>3. Max(S) \in S /\ \A y \in S : Max(S) >= y
  <2> HIDE DEF m
  <2> QED
    BY <1>1 DEF Max
<1>4. Max(S) >= m /\ Max(S) \in Nat
  BY <1>1, <1>2, <1>3
<1>5. c <= Max(S)
  BY <1>4
<1> QED
  BY <1>5 DEF S

\* A span that begins at or behind the cursor leaves no gap.
LEMMA SpanContiguous ==
  ASSUME NEW a \in Nat, NEW b \in Nat, a <= b, NEW n \in Nat, a <= n
  PROVE  Contiguous(Span(a, b), n)
<1> DEFINE s == Span(a, b)
<1>1. s \in Seq(Items) /\ Len(s) = b - a /\ DOMAIN s = 1..(b - a)
  BY SpanShape
<1>2. \A i \in 1..(b - a) : s[i] = Item(a + i) /\ s[i].sequence = a + i
  BY SpanItems
<1> HIDE DEF s
<1>3. ASSUME NEW i \in DOMAIN s
      PROVE  s[i].sequence
               <= 1 + Max({n} \cup {item.sequence : item \in Range(SubSeq(s, 1, i - 1))})
  <2> DEFINE c == a + i - 1
             q == SubSeq(s, 1, i - 1)
  <2>1. i \in 1..(b - a) /\ i - 1 \in Nat /\ i - 1 <= b - a
    BY <1>1
  <2>2. c \in Nat /\ a <= c /\ c - a = i - 1
    BY <2>1
  <2>3. q \in Seq(Items) /\ Len(q) = i - 1 /\ \A j \in 1..(i - 1) : q[j] = s[j]
    BY <1>1, <2>1
  <2> HIDE DEF q
  <2>4. ASSUME NEW j \in 1..(i - 1) PROVE q[j] = Item(a + j)
    <3>1. j \in 1..(b - a)
      BY <2>1
    <3> QED
      BY <1>2, <2>3, <3>1
  <2> HIDE DEF c
  <2>5. q = Span(a, c)
    BY <2>2, <2>3, <2>4, IsSpan
  <2>6. {item.sequence : item \in Range(q)} = (a + 1)..c
    BY <2>2, <2>5, SpanSequences
  <2>7. c <= Max({n} \cup (a + 1)..c)
    BY <2>2, MaxOfSpan
  <2> DEFINE m == Max({n} \cup (a + 1)..c)
  <2>8. m \in Nat
    <3> DEFINE S == {n} \cup (a + 1)..c
               e == IF n <= c THEN c ELSE n
    <3>1. e \in S /\ (\A y \in S : e >= y) /\ S \subseteq Nat
      BY <2>2
    <3> HIDE DEF S, e
    <3>2. Max(S) \in S
      BY <3>1 DEF Max
    <3> QED
      BY <3>1, <3>2 DEF S
  <2>9. s[i].sequence = c + 1
    BY <1>2, <2>1 DEF c
  <2> HIDE DEF m
  <2>10. s[i].sequence <= 1 + m
    BY <2>2, <2>7, <2>8, <2>9 DEF m
  <2> QED
    BY <2>6, <2>10 DEF m, q
<1>4. Contiguous(s, n)
  BY <1>3 DEF Contiguous
<1> QED
  BY <1>4 DEF s

-----------------------------------------------------------------------------
(* Frames: the steps a part of the invariant survives untouched            *)

\* The states of a synchronisation in which its position is one of the
\* home's.
Moving == {"pull", "store", "ack"}

\* A request that carries items or a position has its fields.
LEMMA RequestFields ==
  ASSUME RelayType, NEW r \in wire, r.op \in {"ack", "import"}
  PROVE  r.by \in Syncs /\ r.through \in Nat /\ r.items \in Seq(Items)
BY DEF RelayType, Requests

\* Mail to the home is untouched by a step that moves no position of the home
\* and adds no acknowledgement but of one.
LEMMA HomeKept ==
  ASSUME RelayType, HomeInv,
         attachment'.relay = attachment.relay, attachment'.acked = attachment.acked,
         sentHome' = sentHome, homeInbox' = homeInbox,
         dispatch'.cursor = dispatch.cursor,
         \A t \in Syncs : sync'[t].pc \in Moving =>
            \/ sync'[t].cursor = dispatch.cursor
            \/ sync[t].pc \in Moving /\ sync'[t].cursor = sync[t].cursor,
         \A t \in Syncs : sync'[t].pc = "store" =>
            \/ sync[t].pc = "store" /\ sync'[t].items = sync[t].items
            \/ \E a, b \in 0..Len(sentHome) : a <= b /\ sync'[t].items = Span(a, b),
         \A r \in wire' : r.op = "ack" =>
            r \in wire \/ \E t \in Syncs : sync[t].pc = "store" /\ r.through = sync[t].cursor
  PROVE  HomeInv'
<1>1. PICK h \in 0..Len(sentHome) : StoredUpTo(h)
  BY DEF HomeInv
<1>2. StoredUpTo(h)'
  BY <1>1 DEF StoredUpTo, Moving
<1>3. (attachment.relay = Span(attachment.acked, Len(sentHome)))'
  BY DEF HomeInv
<1>4. ASSUME NEW t \in Syncs, sync'[t].pc = "store"
      PROVE  \E a, b \in 0..Len(sentHome') : a <= b /\ sync'[t].items = Span(a, b)
  BY <1>4 DEF HomeInv
<1> QED
  BY <1>2, <1>3, <1>4 DEF HomeInv

\* Mail to the worker is untouched by a step that adds no import but of a
\* span and no answer to one.
LEMMA WorkerKept ==
  ASSUME WorkerInv,
         dispatch'.relay = dispatch.relay, dispatch'.acked = dispatch.acked,
         attachment'.imported = attachment.imported,
         sentWorker' = sentWorker, workerInbox' = workerInbox,
         \A t \in Syncs : sync'[t].pc = "imported" => sync'[t] = sync[t],
         \A r \in wire' : r.op = "import" => r \in wire \/ Carries(r)
  PROVE  WorkerInv'
BY DEF WorkerInv, Carries

\* A step that moves no position of the home keeps the loop level with it.
LEMMA SoloKept ==
  ASSUME SoloInv, bounds' = bounds, homeInbox' = homeInbox,
         dispatch'.cursor = dispatch.cursor,
         \A t \in Syncs : t \notin bounds.syncs => sync'[t] = sync[t],
         \A t \in Syncs : sync'[t].pc \in {"pull", "store"} =>
            \/ sync'[t].cursor = dispatch.cursor
            \/ sync[t].pc \in {"pull", "store"} /\ sync'[t].cursor = sync[t].cursor,
         \A t \in Syncs : sync'[t].pc = "store" =>
            \/ sync'[t] = sync[t]
            \/ bounds.syncs = {Loop} => Follow(sync'[t].items, sync'[t].cursor)
  PROVE  SoloInv'
BY FederationAssumption DEF SoloInv

\* A step of nobody who synchronises.
LEMMA Quiet ==
  ASSUME RelayInv, sync' = sync, homeInbox' = homeInbox, workerInbox' = workerInbox,
         sentHome' = sentHome, sentWorker' = sentWorker, bounds' = bounds,
         \/ dispatch' = dispatch
         \/ \E x \in Statuses : dispatch' = [dispatch EXCEPT !.status = x],
         \/ attachment' = attachment
         \/ \E y \in Statuses : attachment' = [attachment EXCEPT !.status = y],
         \A r \in wire' : r \in wire \/ r \in [op : {"attach", "stop"}]
  PROVE  RelayInv'
<1>1. RelayType'
  BY DEF RelayInv, RelayType, Requests
<1>2. /\ attachment'.relay = attachment.relay /\ attachment'.acked = attachment.acked
      /\ attachment'.imported = attachment.imported
      /\ dispatch'.relay = dispatch.relay /\ dispatch'.acked = dispatch.acked
      /\ dispatch'.cursor = dispatch.cursor
  BY DEF RelayInv, RelayType
<1>3. \A r \in wire' : r.op \in {"ack", "import"} => r \in wire
  OBVIOUS
<1>4. HomeInv'
  BY <1>2, <1>3, HomeKept DEF RelayInv, Moving
<1>5. WorkerInv'
  BY <1>2, <1>3, WorkerKept DEF RelayInv
<1>6. SoloInv'
  BY <1>2, SoloKept DEF RelayInv
<1> QED
  BY <1>1, <1>4, <1>5, <1>6 DEF RelayInv

-----------------------------------------------------------------------------
(* The invariant                                                           *)

\* It holds in the beginning.
LEMMA InitRelay ==
  Init => RelayInv
<1> SUFFICES ASSUME Init PROVE RelayInv
  OBVIOUS
<1> USE DEF Init
<1>1. RelayType
  <2>1. dispatch \in [status : Statuses, cursor : Nat, relay : Seq(Items), acked : Nat]
    BY DEF Statuses
  <2>2. attachment \in [status : Statuses, relay : Seq(Items), acked : Nat, imported : Nat]
    BY DEF Statuses
  <2>3. sync \in [Syncs -> Locals]
    BY DEF Idle, Places, Locals
  <2>4. sentHome \in Seq(Kinds) /\ sentWorker \in Seq({"mail"})
    BY DEF Statuses
  <2> QED
    BY <2>1, <2>2, <2>3, <2>4 DEF RelayType
<1>2. Span(0, 0) = <<>> /\ Len(sentHome) = 0 /\ Len(sentWorker) = 0
  BY SpanShape
<1>3. StoredUpTo(0)
  BY DEF StoredUpTo, Idle
<1>4. HomeInv
  BY <1>2, <1>3 DEF HomeInv, Idle
<1>5. WorkerInv
  BY <1>2 DEF WorkerInv, Idle
<1>6. SoloInv
  BY FederationAssumption DEF SoloInv, Idle
<1> QED
  BY <1>1, <1>4, <1>5, <1>6 DEF RelayInv

\* worker-start, worker-stop and worker-abandon, on both sides, and whoever else
\* writes the Task.
LEMMA CommandsKeepRelay ==
  ASSUME RelayInv,
         \/ StartRequest \/ StartAnswered \/ StartFails
         \/ AttachBegin \/ \E status \in {"ready", "failed"} : AttachEnd(status)
         \/ StopRequest \/ RemoteStop \/ StopAnswered \/ StopFails \/ Abandon
         \/ OthersWrite
  PROVE  RelayInv'
<1> USE DEF homeVars, remoteVars, callers, history, Statuses
<1>1. CASE StartRequest
  BY <1>1, Quiet DEF StartRequest
<1>2. CASE StartAnswered
  BY <1>2, Quiet DEF StartAnswered
<1>3. CASE StartFails
  BY <1>3, Quiet DEF StartFails
<1>4. CASE AttachBegin
  BY <1>4, Quiet DEF AttachBegin
<1>5. ASSUME NEW status \in {"ready", "failed"}, AttachEnd(status) PROVE RelayInv'
  BY <1>5, Quiet DEF AttachEnd
<1>6. CASE StopRequest
  BY <1>6, Quiet DEF StopRequest
<1>7. CASE RemoteStop
  BY <1>7, Quiet DEF RemoteStop
<1>8. CASE StopAnswered
  BY <1>8, Quiet DEF StopAnswered
<1>9. CASE StopFails
  BY <1>9, Quiet DEF StopFails
<1>10. CASE Abandon
  BY <1>10, Quiet DEF Abandon
<1>11. ASSUME NEW status, SetTask(status) PROVE RelayInv'
  BY <1>11, Quiet DEF SetTask
<1>12. ASSUME NEW outcome \in Outcomes, SettleAtHome(outcome) PROVE RelayInv'
  BY <1>12, Quiet DEF SettleAtHome, Outcomes
<1> QED
  BY <1>1, <1>2, <1>3, <1>4, <1>5, <1>6, <1>7, <1>8, <1>9, <1>10, <1>11, <1>12 DEF OthersWrite

\* The worker sends: the new item is the next one.
LEMMA SendFromWorkerKeepsRelay ==
  ASSUME RelayInv, NEW kind \in Kinds, SendFromWorker(kind)
  PROVE  RelayInv'
<1> USE DEF homeVars, callers, SendFromWorker
<1> DEFINE n == Len(sentHome)
<1>1. PICK h \in 0..n : StoredUpTo(h)
  BY DEF RelayInv, HomeInv
<1>2. n \in Nat /\ attachment.acked \in Nat /\ attachment.acked <= n
  BY <1>1 DEF RelayInv, RelayType, StoredUpTo
<1>3. Push(attachment.relay, attachment.acked, n + 1) = Span(attachment.acked, n + 1)
  BY <1>2, SpanPush DEF RelayInv, HomeInv
<1>4. attachment' = [attachment EXCEPT !.relay = Span(attachment.acked, n + 1)]
  BY <1>3
<1>5. Span(attachment.acked, n + 1) \in Seq(Items)
  BY <1>2, SpanShape
<1>6. sentHome' \in Seq(Kinds) /\ Len(sentHome') = n + 1
  BY DEF RelayInv, RelayType
<1>7. RelayType'
  BY <1>4, <1>5, <1>6 DEF RelayInv, RelayType
<1>8. HomeInv'
  <2>1. attachment'.acked = attachment.acked /\ attachment'.relay = Span(attachment.acked, n + 1)
    BY <1>4 DEF RelayInv, RelayType
  <2>2. StoredUpTo(h)'
    BY <1>1, <2>1 DEF StoredUpTo
  <2>3. h \in 0..Len(sentHome') /\ 0..n \subseteq 0..Len(sentHome')
    BY <1>2, <1>6
  <2>4. ASSUME NEW s \in Syncs, sync'[s].pc = "store"
        PROVE  \E a, b \in 0..Len(sentHome') : a <= b /\ sync'[s].items = Span(a, b)
    BY <2>3, <2>4 DEF RelayInv, HomeInv
  <2> QED
    BY <1>6, <2>1, <2>2, <2>3, <2>4 DEF HomeInv
<1>9. WorkerInv'
  BY <1>4, WorkerKept DEF RelayInv, RelayType
<1>10. SoloInv'
  BY SoloKept DEF RelayInv
<1> QED
  BY <1>7, <1>8, <1>9, <1>10 DEF RelayInv

\* The coordinator sends.
LEMMA PushKeepsRelay ==
  ASSUME RelayInv, PushToWorker
  PROVE  RelayInv'
<1> USE DEF homeVars, remoteVars, callers, PushToWorker
<1> DEFINE n == Len(sentWorker)
<1>1. n \in Nat /\ dispatch.acked \in Nat /\ dispatch.acked <= n /\ attachment.imported \in Nat
  BY DEF RelayInv, RelayType, WorkerInv
<1>2. Push(dispatch.relay, dispatch.acked, n + 1) = Span(dispatch.acked, n + 1)
  BY <1>1, SpanPush DEF RelayInv, WorkerInv
<1>3. dispatch' = [dispatch EXCEPT !.relay = Span(dispatch.acked, n + 1)]
  BY <1>2
<1>4. Span(dispatch.acked, n + 1) \in Seq(Items)
  BY <1>1, SpanShape
<1>5. sentWorker' \in Seq({"mail"}) /\ Len(sentWorker') = n + 1
  BY DEF RelayInv, RelayType
<1>6. RelayType'
  BY <1>3, <1>4, <1>5 DEF RelayInv, RelayType
<1>7. /\ dispatch'.relay = Span(dispatch.acked, n + 1) /\ dispatch'.acked = dispatch.acked
      /\ dispatch'.cursor = dispatch.cursor
  BY <1>3 DEF RelayInv, RelayType
<1>8. HomeInv'
  BY <1>7, HomeKept DEF RelayInv, Moving
<1>9. WorkerInv'
  <2>1. ASSUME NEW r \in wire, r.op = "import" PROVE r.through \in Nat /\ r.through <= n
    BY <2>1, RequestFields DEF RelayInv, WorkerInv, Carries
  <2>2. ASSUME NEW r \in wire, r.op = "import" PROVE r.through <= n + 1
    BY <1>1, <2>1, <2>2
  <2> QED
    BY <1>1, <1>5, <1>7, <2>2 DEF RelayInv, WorkerInv, Carries
<1>10. SoloInv'
  BY <1>7, SoloKept DEF RelayInv
<1> QED
  BY <1>6, <1>8, <1>9, <1>10 DEF RelayInv

\* The scenario is one of the declared ones.
LEMMA Bounded ==
  ASSUME RelayInv
  PROVE  bounds.syncs \subseteq Syncs /\ bounds.batch \in Nat \ {0}
BY FederationAssumption DEF RelayInv, RelayType

\* A synchronisation's variables become x, which knows no position of the
\* home it did not know and holds no items but a span.
Advances(s, x) ==
    /\ sync' = [sync EXCEPT ![s] = x]
    /\ x.pc \in {"pull", "store"} =>
          \/ x.cursor = dispatch.cursor
          \/ sync[s].pc \in {"pull", "store"} /\ x.cursor = sync[s].cursor
    /\ x.pc = "ack" => sync[s].pc = "store" /\ x.cursor = sync[s].cursor
    /\ x.pc = "store" => \E a, b \in 0..Len(sentHome) : a <= b /\ x.items = Span(a, b)
    /\ x.pc = "store" /\ bounds.syncs = {Loop} => Follow(x.items, x.cursor)
    /\ x.pc # "imported"

\* It sends nothing but an acknowledgement of its position or a span.
Sends(s) ==
    /\ wire' \subseteq Requests
    /\ \A r \in wire' : r.op = "ack" =>
          r \in wire \/ (sync[s].pc = "store" /\ r.through = sync[s].cursor)
    /\ \A r \in wire' : r.op = "import" => r \in wire \/ Carries(r)

\* Nothing but local variables and requests changes.
NothingElse ==
    /\ UNCHANGED <<homeVars, remoteVars>>
    /\ sentHome' = sentHome /\ sentWorker' = sentWorker /\ bounds' = bounds

\* A step of one synchronisation that changes its local variables, and may
\* send a request.
LEMMA LocalStep ==
  ASSUME RelayInv, NEW s \in bounds.syncs, NEW x \in Locals,
         Advances(s, x), Sends(s), NothingElse
  PROVE  RelayInv'
<1> USE DEF homeVars, remoteVars, NothingElse
<1>1. s \in Syncs /\ bounds.syncs \subseteq Syncs
  BY Bounded
<1>2. RelayType'
  BY <1>1 DEF RelayInv, RelayType, Locals, Advances, Sends
<1>3. sync'[s] = x /\ \A t \in Syncs : t # s => sync'[t] = sync[t]
  BY <1>1 DEF RelayInv, RelayType, Advances
<1>4. HomeInv'
  <2>1. \A t \in Syncs : sync'[t].pc \in Moving =>
            \/ sync'[t].cursor = dispatch.cursor
            \/ sync[t].pc \in Moving /\ sync'[t].cursor = sync[t].cursor
    BY <1>3 DEF Moving, Advances
  <2>2. \A t \in Syncs : sync'[t].pc = "store" =>
            \/ sync[t].pc = "store" /\ sync'[t].items = sync[t].items
            \/ \E a, b \in 0..Len(sentHome) : a <= b /\ sync'[t].items = Span(a, b)
    BY <1>3 DEF Advances
  <2> QED
    BY <1>1, <2>1, <2>2, HomeKept DEF RelayInv, Sends
<1>5. WorkerInv'
  BY <1>3, WorkerKept DEF RelayInv, Advances, Sends
<1>6. SoloInv'
  BY <1>3, SoloKept DEF RelayInv, Advances
<1> QED
  BY <1>2, <1>4, <1>5, <1>6 DEF RelayInv

\* Requests nobody adds to are sent by nobody.
LEMMA SilentStep ==
  ASSUME RelayInv, NEW s, wire' = wire
  PROVE  Sends(s)
<1>1. wire \subseteq Requests
  BY DEF RelayInv, RelayType
<1>2. wire' \subseteq Requests
  BY <1>1
<1>3. \A r \in wire' : r \in wire
  OBVIOUS
<1> QED
  BY <1>2, <1>3, Zenon DEF Sends

\* A synchronisation that begins, or breaks off for whatever reason.
LEMMA BeginAndEndKeepRelay ==
  ASSUME RelayInv, NEW s \in bounds.syncs,
         SyncBegin(s) \/ PullRefused(s) \/ StoreRefused(s) \/ Abort(s)
  PROVE  RelayInv'
<1>1. NothingElse /\ wire' = wire
  BY DEF SyncBegin, PullRefused, StoreRefused, Abort, NothingElse,
         homeVars, remoteVars, history
<1>2. Sends(s)
  BY <1>1, SilentStep
<1>3. CASE SyncBegin(s)
  <2> DEFINE x == [pc |-> "pull", cursor |-> dispatch.cursor, items |-> <<>>]
  <2>1. x \in Locals
    BY DEF Locals, Places, RelayInv, RelayType
  <2>2. Advances(s, x)
    BY <1>3 DEF Advances, SyncBegin
  <2> QED
    BY <1>1, <1>2, <2>1, <2>2, LocalStep
<1>4. CASE PullRefused(s) \/ StoreRefused(s) \/ Abort(s)
  <2>1. Idle \in Locals
    BY DEF Locals, Places, Idle
  <2>2. Advances(s, Idle)
    BY <1>4 DEF Advances, PullRefused, StoreRefused, Abort, Idle
  <2> QED
    BY <1>1, <1>2, <2>1, <2>2, LocalStep
<1> QED
  BY <1>3, <1>4

\* With the loop alone the cursor is the end of the inbox, and what the
\* worker side has discarded is behind it.
LEMMA LoopIsLevel ==
  ASSUME RelayInv, bounds.syncs = {Loop}
  PROVE  /\ homeInbox = 1..dispatch.cursor /\ dispatch.cursor \in Nat
         /\ attachment.acked \in Nat /\ Len(sentHome) \in Nat
         /\ attachment.acked <= dispatch.cursor /\ dispatch.cursor <= Len(sentHome)
<1>1. PICK h \in 0..Len(sentHome) : StoredUpTo(h)
  BY DEF RelayInv, HomeInv
<1>2. /\ homeInbox = 1..h /\ homeInbox = 1..dispatch.cursor
      /\ attachment.acked <= h /\ dispatch.cursor <= h
      /\ dispatch.cursor \in Nat /\ attachment.acked \in Nat /\ h \in Nat
      /\ Len(sentHome) \in Nat
  BY <1>1 DEF StoredUpTo, RelayInv, RelayType, SoloInv
<1>3. h <= dispatch.cursor
  <2>1. CASE h = 0
    BY <1>2, <2>1
  <2>2. CASE h > 0
    <3>1. h \in 1..dispatch.cursor
      BY <1>2, <2>2
    <3> QED
      BY <3>1
  <2> QED
    BY <1>2, <2>1, <2>2
<1> QED
  BY <1>1, <1>2, <1>3

\* A pull from a position the worker side still holds answers what follows it.
LEMMA PullFollows ==
  ASSUME RelayInv, NEW c \in Nat, attachment.acked <= c, c <= Len(sentHome)
  PROVE  \E b \in Nat : /\ c <= b /\ (c < Len(sentHome) => c < b)
                        /\ Take(After(attachment.relay, c)) = Span(c, b)
<1> DEFINE n == Len(sentHome)
           f == attachment.acked
<1>1. n \in Nat /\ f \in Nat /\ f <= c /\ c <= n /\ attachment.relay = Span(f, n)
  BY DEF RelayInv, RelayType, HomeInv
<1>2. bounds.batch \in Nat \ {0}
  BY Bounded
<1>3. SUFFICES \E b \in Nat : c <= b /\ (c < n => c < b) /\ Take(After(Span(f, n), c)) = Span(c, b)
  BY <1>1
<1> HIDE DEF n, f
<1>4. After(Span(f, n), c) = Span(c, n)
  <2>1. After(Span(f, n), c) = Span(IF c <= f THEN f ELSE IF c <= n THEN c ELSE n, n)
    BY <1>1, SpanAfter
  <2>2. (IF c <= f THEN f ELSE IF c <= n THEN c ELSE n) = c
    BY <1>1
  <2> QED
    BY <2>1, <2>2
<1> QED
  BY <1>1, <1>2, <1>4, SpanTake

\* What a pull answers is a span.
LEMMA PullKeepsRelay ==
  ASSUME RelayInv, NEW s \in bounds.syncs, RemotePull(s)
  PROVE  RelayInv'
<1> DEFINE n == Len(sentHome)
           f == attachment.acked
           c == sync[s].cursor
           got == Take(After(attachment.relay, c))
           x == [sync[s] EXCEPT !.pc = "store", !.items = got]
<1>1. PICK h \in 0..n : StoredUpTo(h)
  BY DEF RelayInv, HomeInv
<1>2. n \in Nat /\ f \in Nat /\ f <= n
  BY <1>1 DEF RelayInv, RelayType, StoredUpTo
<1>3. attachment.relay = Span(f, n)
  BY DEF RelayInv, HomeInv
<1>4. s \in Syncs /\ bounds.batch \in Nat \ {0} /\ sync[s] \in Locals
  BY Bounded DEF RelayInv, RelayType
<1>5. c \in Nat
  BY <1>4 DEF Locals
<1>6. got \in Seq(Items) /\ \E a, b \in 0..n : a <= b /\ got = Span(a, b)
  <2> DEFINE a == IF c <= f THEN f ELSE IF c <= n THEN c ELSE n
  <2> HIDE DEF n, c, f
  <2>1. After(Span(f, n), c) = Span(a, n) /\ a \in 0..n
    BY <1>2, <1>5, SpanAfter
  <2> HIDE DEF a
  <2>2. a \in Nat /\ a <= n
    BY <1>2, <2>1
  <2>3. PICK b \in Nat : a <= b /\ b <= n /\ Take(Span(a, n)) = Span(a, b)
    BY <1>2, <1>4, <2>2, SpanTake
  <2>4. Span(a, b) \in Seq(Items)
    BY <2>2, <2>3, SpanShape
  <2> QED
    BY <1>2, <1>3, <2>1, <2>2, <2>3, <2>4
<1> HIDE DEF got
<1>7. x \in Locals /\ x.pc = "store" /\ x.cursor = c /\ x.items = got
  BY <1>4, <1>6 DEF Locals, Places
<1>8. sync' = [sync EXCEPT ![s] = x] /\ sync[s].pc = "pull"
  BY DEF RemotePull, got
<1>9. NothingElse /\ wire' = wire
  BY DEF RemotePull, NothingElse, homeVars, remoteVars, history
<1> HIDE DEF x
<1>10. ASSUME bounds.syncs = {Loop} PROVE Follow(got, c)
  <2>1. c = dispatch.cursor
    BY <1>4, <1>8, <1>10 DEF RelayInv, SoloInv
  <2>2. c \in Nat /\ f <= c /\ c <= n
    BY <1>5, <1>10, <2>1, LoopIsLevel
  <2> HIDE DEF c
  <2> QED
    BY <2>2, PullFollows DEF Follow, got
<1>11. Advances(s, x)
  BY <1>6, <1>7, <1>8, <1>10 DEF Advances
<1> QED
  BY <1>7, <1>9, <1>11, SilentStep, LocalStep

\* An acknowledgement names a position of the home.
LEMMA SendAckKeepsRelay ==
  ASSUME RelayInv, NEW s \in bounds.syncs, SendAck(s)
  PROVE  RelayInv'
<1>1. s \in Syncs /\ wire \subseteq Requests /\ sync[s] \in Locals
  BY Bounded DEF RelayInv, RelayType
<1>2. NothingElse /\ sync[s].pc = "store"
  BY DEF SendAck, NothingElse, homeVars, remoteVars, history
<1>3. PICK pc \in {"ack", "pending"} : sync' = [sync EXCEPT ![s].pc = pc]
  BY DEF SendAck
<1> DEFINE x == [sync[s] EXCEPT !.pc = pc]
<1>4. x \in Locals /\ x.pc = pc /\ x.cursor = sync[s].cursor
  BY <1>1 DEF Locals, Places
<1>5. sync' = [sync EXCEPT ![s] = x]
  BY <1>3
<1> HIDE DEF x
<1>6. Advances(s, x)
  BY <1>2, <1>4, <1>5 DEF Advances
<1>7. Sends(s)
  <2>1. wire' \subseteq wire \cup {AckRequest(s)}
    BY DEF SendAck
  <2>2. /\ AckRequest(s) \in Requests /\ AckRequest(s).op = "ack"
        /\ AckRequest(s).through = sync[s].cursor
    BY <1>1 DEF AckRequest, Requests, Locals
  <2>3. wire' \subseteq Requests
    BY <1>1, <2>1, <2>2
  <2>4. ASSUME NEW r \in wire', r \notin wire PROVE r = AckRequest(s)
    BY <2>1, <2>4
  <2>5. \A r \in wire' : r.op = "ack" =>
          r \in wire \/ (sync[s].pc = "store" /\ r.through = sync[s].cursor)
    BY <1>2, <2>2, <2>4
  <2>6. ASSUME NEW r \in wire', r \notin wire PROVE r.op # "import"
    BY <2>2, <2>4, <2>6
  <2> QED
    BY <2>3, <2>5, <2>6, Zenon DEF Sends
<1> QED
  BY <1>2, <1>4, <1>6, <1>7, LocalStep

\* An import carries a span that begins behind the last confirmed position.
LEMMA SendImportKeepsRelay ==
  ASSUME RelayInv, NEW s \in bounds.syncs, SendImport(s)
  PROVE  RelayInv'
<1> DEFINE n == Len(sentWorker)
           a == dispatch.acked
           pending == Take(After(dispatch.relay, a))
<1>1. /\ n \in Nat /\ a \in Nat /\ a <= n
      /\ attachment.imported \in Nat /\ a <= attachment.imported
  BY DEF RelayInv, RelayType, WorkerInv
<1>2. dispatch.relay = Span(a, n)
  BY DEF RelayInv, WorkerInv
<1>3. s \in Syncs /\ wire \subseteq Requests /\ bounds.batch \in Nat \ {0} /\ sync[s] \in Locals
  BY Bounded DEF RelayInv, RelayType
<1>4. NothingElse
  BY DEF SendImport, NothingElse, homeVars, remoteVars, history
<1>5. \E b \in Nat : a <= b /\ b <= n /\ pending = Span(a, b)
  <2> HIDE DEF a, n
  <2>1. After(Span(a, n), a) = Span(a, n)
    BY <1>1, SpanAfter
  <2> QED
    BY <1>1, <1>2, <1>3, <2>1, SpanTake
<1>6. PICK b \in Nat : a <= b /\ b <= n /\ pending = Span(a, b)
  BY <1>5
<1>7. pending \in Seq(Items) /\ (pending = <<>> <=> a = b)
  <2> HIDE DEF a, pending
  <2> QED
    BY <1>1, <1>6, SpanShape
<1>8. CASE pending = <<>>
  <2>1. Idle \in Locals
    BY DEF Locals, Places, Idle
  <2>2. sync' = [sync EXCEPT ![s] = Idle] /\ wire' = wire
    BY <1>8 DEF SendImport
  <2>3. Advances(s, Idle)
    BY <2>2 DEF Advances, Idle
  <2> QED
    BY <1>4, <2>1, <2>2, <2>3, SilentStep, LocalStep
<1>9. CASE pending # <<>>
  <2> DEFINE x == [sync[s] EXCEPT !.pc = "import", !.items = pending]
             r == ImportRequest(s, pending)
  <2>1. sync' = [sync EXCEPT ![s] = x] /\ wire' = wire \cup {r}
    BY <1>9 DEF SendImport
  <2> HIDE DEF pending
  <2>2. x \in Locals /\ x.pc = "import"
    BY <1>3, <1>7 DEF Locals, Places
  <2>3. Last(pending).sequence = b
    <3>1. Last(pending) = Item(b) /\ a < b
      BY <1>1, <1>6, <1>7, <1>9, SpanEnds
    <3> QED
      BY <3>1 DEF Item
  <2>4. r = [op |-> "import", by |-> s, through |-> b, items |-> pending]
    BY <2>3 DEF ImportRequest
  <2>5. r \in Requests
    BY <1>3, <1>7, <2>4 DEF Requests
  <2>6. Carries(r) /\ r.op = "import"
    BY <1>1, <1>6, <1>7, <1>9, <2>4 DEF Carries
  <2> HIDE DEF x, r
  <2>7. Advances(s, x)
    BY <2>1, <2>2 DEF Advances
  <2>8. Sends(s)
    <3>1. wire' \subseteq Requests
      BY <1>3, <2>1, <2>5
    <3>2. \A q \in wire' : q \in wire \/ q = r
      BY <2>1
    <3>3. ASSUME NEW q \in wire', q \notin wire PROVE q.op # "ack" /\ Carries(q)
      BY <2>6, <3>2, <3>3
    <3> QED
      BY <3>1, <3>3, Zenon DEF Sends
  <2> QED
    BY <1>4, <2>2, <2>7, <2>8, LocalStep
<1> QED
  BY <1>8, <1>9

\* What is stored follows the caller's position, so the inbox stays a
\* beginning of the log.
LEMMA StoreKeepsRelay ==
  ASSUME RelayInv, NEW s \in bounds.syncs, Store(s)
  PROVE  RelayInv'
<1> DEFINE n == Len(sentHome)
           c == sync[s].cursor
           x == [sync[s] EXCEPT !.items = Tail(sync[s].items), !.cursor = c + 1]
<1>1. s \in Syncs /\ sync[s] \in Locals /\ c \in Nat /\ n \in Nat /\ sync[s].pc = "store"
  BY Bounded DEF RelayInv, RelayType, Locals, Store
<1>2. PICK h \in 0..n : StoredUpTo(h)
  BY DEF RelayInv, HomeInv
<1>3. c <= h /\ dispatch.cursor \in Nat /\ dispatch.cursor <= h /\ attachment.acked \in Nat
  BY <1>1, <1>2 DEF StoredUpTo, RelayInv, RelayType
<1>4. PICK a, b \in 0..n : a <= b /\ sync[s].items = Span(a, b)
  BY <1>1 DEF RelayInv, HomeInv
<1>5. a < b
  <2>1. Span(a, b) # <<>>
    BY <1>4 DEF Store
  <2> QED
    BY <1>4, <2>1, SpanShape
<1>6. Head(sync[s].items) = Item(a + 1) /\ Tail(sync[s].items) = Span(a + 1, b)
  BY <1>4, <1>5, SpanEnds
<1>7. Head(sync[s].items).sequence = a + 1 /\ Head(sync[s].items).id = a + 1
  BY <1>6 DEF Item
<1>8. a + 1 = c + 1 /\ c + 1 <= n
  BY <1>1, <1>4, <1>5, <1>7 DEF Store
<1>9. /\ homeInbox' = homeInbox \cup {c + 1}
      /\ \E y \in Statuses : dispatch' = [dispatch EXCEPT !.status = y, !.cursor = c + 1]
      /\ sync' = [sync EXCEPT ![s] = x]
  <2> DEFINE item == Head(sync[s].items)
  <2>1. item.sequence = c + 1 /\ item.id = c + 1
    BY <1>7, <1>8
  <2>2. /\ homeInbox' = homeInbox \cup {item.id}
        /\ dispatch' = [dispatch EXCEPT !.status = Settle(item.id).status,
                                        !.cursor = item.sequence]
    BY DEF Store
  <2>5. sync' = [sync EXCEPT ![s] =
               [sync[s] EXCEPT !.items = Tail(sync[s].items), !.cursor = item.sequence]]
    BY Zenon DEF Store
  <2> HIDE DEF item
  <2>3. Settle(item.id).status \in Statuses
    BY DEF Settle, Settles, Outcomes, Statuses, RelayInv, RelayType
  <2>4. sync' = [sync EXCEPT ![s] = x]
    <3>1. x = [sync[s] EXCEPT !.items = Tail(sync[s].items), !.cursor = item.sequence]
      BY <2>1
    <3> HIDE DEF x
    <3> QED
      BY <2>5, <3>1
  <2> QED
    BY <2>1, <2>2, <2>3, <2>4
<1>10. UNCHANGED <<attachment, workerInbox, wire, sentHome, sentWorker, bounds>>
  BY DEF Store, remoteVars, history
<1>11. /\ dispatch'.cursor = c + 1 /\ dispatch'.relay = dispatch.relay
       /\ dispatch'.acked = dispatch.acked
  BY <1>9 DEF RelayInv, RelayType
<1>12. /\ x \in Locals /\ x.pc = "store" /\ x.cursor = c + 1 /\ x.items = Span(c + 1, b)
  <2>1. Span(c + 1, b) \in Seq(Items)
    <3>1. c + 1 \in Nat /\ b \in Nat /\ c + 1 <= b
      BY <1>1, <1>4, <1>5, <1>8
    <3> QED
      BY <3>1, SpanShape
  <2>2. x = [sync[s] EXCEPT !.items = Span(c + 1, b), !.cursor = c + 1]
    BY <1>6, <1>8
  <2>3. c + 1 \in Nat
    BY <1>1
  <2> DEFINE d == c + 1
             q == Span(d, b)
  <2> HIDE DEF x, d, q
  <2>4. x = [sync[s] EXCEPT !.items = q, !.cursor = d] /\ d \in Nat /\ q \in Seq(Items)
    BY <2>1, <2>2, <2>3 DEF d, q
  <2>5. x \in Locals /\ x.pc = sync[s].pc /\ x.cursor = d /\ x.items = q
    BY <1>1, <2>4 DEF Locals
  <2> QED
    BY <1>1, <2>5 DEF d, q
<1> HIDE DEF x
<1>13. sync'[s] = x /\ \A t \in Syncs : t # s => sync'[t] = sync[t]
  BY <1>1, <1>9 DEF RelayInv, RelayType
<1>14. RelayType'
  <2>1. dispatch' \in [status : Statuses, cursor : Nat, relay : Seq(Items), acked : Nat]
    <3>1. PICK y \in Statuses : dispatch' = [dispatch EXCEPT !.status = y, !.cursor = c + 1]
      BY <1>9
    <3>2. c + 1 \in Nat
      BY <1>1
    <3> QED
      BY <3>1, <3>2 DEF RelayInv, RelayType
  <2> QED
    BY <1>1, <1>9, <1>10, <1>12, <2>1 DEF RelayInv, RelayType
<1>15. HomeInv'
  <2>1. homeInbox = 1..h
    BY <1>2 DEF StoredUpTo
  <2>2. PICK k \in 0..n : h <= k /\ c + 1 <= k /\ homeInbox' = 1..k
    <3>1. CASE c = h
      BY <1>1, <1>3, <1>8, <1>9, <2>1, <3>1
    <3>2. CASE c < h
      BY <1>1, <1>3, <1>8, <1>9, <2>1, <3>2
    <3> QED
      BY <1>1, <1>3, <3>1, <3>2
  <2>3. attachment'.acked <= k /\ dispatch'.cursor <= k
    BY <1>2, <1>3, <1>10, <1>11, <2>2 DEF StoredUpTo
  <2>4. ASSUME NEW t \in Syncs, sync'[t].pc \in {"pull", "store", "ack"}
        PROVE  sync'[t].cursor <= k
    <3>1. CASE t = s
      BY <1>12, <1>13, <2>2, <3>1
    <3>2. CASE t # s
      <4>1. sync[t].cursor \in Nat /\ sync'[t] = sync[t]
        BY <1>13, <3>2 DEF RelayInv, RelayType, Locals
      <4>2. sync[t].cursor <= h
        BY <1>2, <2>4, <4>1 DEF StoredUpTo
      <4> QED
        BY <1>1, <1>3, <2>2, <4>1, <4>2
    <3> QED
      BY <3>1, <3>2
  <2>5. ASSUME NEW r \in wire, r.op = "ack" PROVE r.through <= k
    <3>1. r.through \in Nat /\ r.through <= h
      BY <1>2, <2>5, RequestFields DEF StoredUpTo, RelayInv
    <3> QED
      BY <1>3, <2>2, <3>1
  <2>6. StoredUpTo(k)'
    BY <1>10, <2>2, <2>3, <2>4, <2>5 DEF StoredUpTo
  <2>7. ASSUME NEW t \in Syncs, sync'[t].pc = "store"
        PROVE  \E i, j \in 0..n : i <= j /\ sync'[t].items = Span(i, j)
    <3>1. CASE t = s
      <4>1. c + 1 \in 0..n /\ c + 1 <= b
        BY <1>1, <1>4, <1>5, <1>8
      <4> QED
        BY <1>4, <1>12, <1>13, <3>1, <4>1
    <3>2. CASE t # s
      BY <1>13, <2>7, <3>2 DEF RelayInv, HomeInv, n
    <3> QED
      BY <3>1, <3>2
  <2> QED
    <3>1. attachment.relay = Span(attachment.acked, Len(sentHome))
      BY DEF RelayInv, HomeInv
    <3>2. (attachment.relay = Span(attachment.acked, Len(sentHome)))'
      BY <1>10, <3>1
    <3>3. n = Len(sentHome')
      BY <1>10
    <3> HIDE DEF n
    <3> QED
      BY <2>2, <2>6, <2>7, <3>2, <3>3 DEF HomeInv
<1>16. WorkerInv'
  BY <1>10, <1>11, <1>12, <1>13, WorkerKept DEF RelayInv
<1>17. SoloInv'
  <2>1. SUFFICES ASSUME bounds.syncs = {Loop}
                 PROVE  /\ homeInbox' = 1..dispatch'.cursor
                        /\ \A t \in Syncs : t # Loop => sync'[t].pc = "idle"
                        /\ sync'[Loop].cursor = dispatch'.cursor
                        /\ Follow(sync'[Loop].items, sync'[Loop].cursor)
    BY <1>10 DEF SoloInv
  <2>2. s = Loop /\ homeInbox = 1..c /\ \A t \in Syncs : t # Loop => sync[t].pc = "idle"
    BY <1>1, <2>1 DEF RelayInv, SoloInv
  <2>3. Follow(x.items, x.cursor)
    <3>1. c + 1 \in Nat /\ c + 1 <= b /\ b \in Nat
      BY <1>1, <1>4, <1>5, <1>8
    <3> QED
      BY <1>12, <3>1 DEF Follow
  <2>4. homeInbox' = 1..(c + 1)
    BY <1>1, <1>9, <2>2
  <2> QED
    BY <1>1, <1>11, <1>12, <1>13, <2>2, <2>3, <2>4
<1> QED
  BY <1>14, <1>15, <1>16, <1>17 DEF RelayInv

\* What is discarded is behind the end of the inbox.
LEMMA RemoteAckKeepsRelay ==
  ASSUME RelayInv, NEW r \in wire, r.by \in bounds.syncs, RemoteAck(r)
  PROVE  RelayInv' /\ attachment'.acked >= attachment.acked
<1> DEFINE n == Len(sentHome)
           f == attachment.acked
           s == r.by
           g == IF f <= r.through THEN r.through ELSE f
<1>1. r.op = "ack" /\ r.through \in Nat /\ s \in Syncs
  BY RequestFields DEF RemoteAck, RelayInv
<1>2. PICK h \in 0..n : StoredUpTo(h)
  BY DEF RelayInv, HomeInv
<1>3. n \in Nat /\ f \in Nat /\ f <= h /\ r.through <= h /\ attachment.relay = Span(f, n)
  BY <1>1, <1>2 DEF RelayInv, RelayType, StoredUpTo, HomeInv
<1>4. LastSequence(attachment.relay, f) = n
  <2>1. f <= n
    BY <1>2, <1>3
  <2> HIDE DEF f, n
  <2> QED
    BY <1>3, <2>1, SpanPush
<1>5. /\ g \in Nat /\ f <= g /\ g <= h /\ g <= n
      /\ Max({f, r.through}) = g /\ After(attachment.relay, g) = Span(g, n)
      /\ r.through <= LastSequence(attachment.relay, f)
  <2>1. g \in Nat /\ f <= g /\ g <= h /\ g <= n
    BY <1>1, <1>2, <1>3
  <2>2. Max({f, r.through}) = g
    BY <1>1, <1>3, MaxOfTwo
  <2> HIDE DEF g, n, f
  <2>3. After(Span(f, n), g) = Span(g, n)
    BY <1>3, <2>1, SpanAfter
  <2>4. r.through <= n
    BY <1>1, <1>2, <1>3
  <2> QED
    BY <1>3, <1>4, <2>1, <2>2, <2>3, <2>4
<1> HIDE DEF g
<1>6. attachment' = [attachment EXCEPT !.acked = g, !.relay = Span(g, n)]
  BY <1>5 DEF RemoteAck, Drop
<1> DEFINE x == sync'[s]
<1>7. /\ sync' = [sync EXCEPT ![s] = x]
      /\ x \in {sync[s], [sync[s] EXCEPT !.pc = "pending"], Idle}
  BY <1>1 DEF RemoteAck, RelayInv, RelayType
<1>8. /\ wire' \subseteq wire
      /\ UNCHANGED <<dispatch, homeInbox, workerInbox, sentHome, sentWorker, bounds>>
  BY DEF RemoteAck, homeVars, history
<1>9. sync[s] \in Locals /\ Idle \in Locals /\ [sync[s] EXCEPT !.pc = "pending"] \in Locals
      /\ Idle.pc = "idle" /\ [sync[s] EXCEPT !.pc = "pending"].pc = "pending"
  <2>1. sync[s] \in Locals
    BY <1>1 DEF RelayInv, RelayType
  <2>2. Idle \in Locals /\ Idle.pc = "idle"
    BY DEF Locals, Places, Idle
  <2> QED
    BY <2>1, <2>2 DEF Locals, Places
<1>10. \A t \in Syncs : sync'[t] = sync[t] \/ sync'[t].pc \in {"idle", "pending"}
  BY <1>1, <1>7, <1>9 DEF RelayInv, RelayType
<1>11. x \in Locals
  BY <1>7, <1>9
<1>12. RelayType'
  <2>1. Span(g, n) \in Seq(Items)
    BY <1>3, <1>5, SpanShape
  <2>2. sync' \in [Syncs -> Locals]
    BY <1>7, <1>11 DEF RelayInv, RelayType
  <2> QED
    BY <1>5, <1>6, <1>8, <2>1, <2>2 DEF RelayInv, RelayType
<1>13. /\ attachment'.acked = g /\ attachment'.relay = Span(g, n)
       /\ attachment'.imported = attachment.imported
  BY <1>6 DEF RelayInv, RelayType
<1>14. HomeInv'
  <2>1. StoredUpTo(h)'
    BY <1>2, <1>5, <1>8, <1>10, <1>13 DEF StoredUpTo
  <2>2. \A t \in Syncs : sync'[t].pc = "store" =>
           \E i, j \in 0..n : i <= j /\ sync'[t].items = Span(i, j)
    BY <1>10 DEF RelayInv, HomeInv
  <2> QED
    BY <1>8, <1>13, <2>1, <2>2 DEF HomeInv
<1>15. WorkerInv'
  BY <1>8, <1>10, <1>13, WorkerKept DEF RelayInv
<1>16. SoloInv'
  <2>1. \A t \in Syncs : t \notin bounds.syncs => sync'[t] = sync[t]
    BY <1>1, <1>7 DEF RelayInv, RelayType
  <2> QED
    BY <1>8, <1>10, <2>1, SoloKept DEF RelayInv
<1> QED
  BY <1>3, <1>5, <1>12, <1>13, <1>14, <1>15, <1>16 DEF RelayInv

\* What an import adds follows what was imported.
LEMMA RemoteImportKeepsRelay ==
  ASSUME RelayInv, NEW r \in wire, r.by \in bounds.syncs, RemoteImport(r)
  PROVE  RelayInv'
<1> DEFINE m == attachment.imported
           w == r.through
           s == r.by
           k == IF m <= w THEN w ELSE m
           legal == attachment.status = "ready" /\ Contiguous(r.items, m)
           done == [pc |-> "imported", cursor |-> k, items |-> <<>>]
<1>1. r.op = "import" /\ w \in Nat /\ s \in Syncs /\ r.items \in Seq(Items)
  BY RequestFields DEF RemoteImport, RelayInv
<1>2. w <= Len(sentWorker) /\ Len(sentWorker) \in Nat
  BY <1>1 DEF RelayInv, RelayType, WorkerInv, Carries
<1>3. PICK a \in Nat : a < w /\ a <= m /\ r.items = Span(a, w)
  BY <1>1 DEF RelayInv, WorkerInv, Carries
<1>4. m \in Nat /\ m <= Len(sentWorker) /\ workerInbox = 1..m
  BY DEF RelayInv, RelayType, WorkerInv
<1>5. k \in Nat /\ m <= k /\ k <= Len(sentWorker) /\ Max({m, w}) = k
  BY <1>1, <1>2, <1>4, MaxOfTwo
<1>6. legal => workerInbox \cup Ids(After(r.items, m)) = 1..k
  <2>1. SUFFICES ASSUME legal PROVE workerInbox \cup Ids(After(r.items, m)) = 1..k
    OBVIOUS
  <2> DEFINE c == IF m <= a THEN a ELSE IF m <= w THEN m ELSE w
  <2> HIDE DEF m, w
  <2>2. a <= m
    BY <1>3
  <2>3. After(Span(a, w), m) = Span(c, w)
    BY <1>1, <1>3, <1>4, SpanAfter
  <2>4. c \in Nat /\ c <= w /\ c = IF m <= w THEN m ELSE w
    BY <1>1, <1>3, <1>4, <2>2
  <2> HIDE DEF c
  <2>5. Ids(Span(c, w)) = (c + 1)..w
    BY <1>1, <2>4, SpanIds
  <2> QED
    BY <1>1, <1>3, <1>4, <2>3, <2>4, <2>5
<1> HIDE DEF k
<1>7. /\ legal => workerInbox' = 1..k /\ attachment' = [attachment EXCEPT !.imported = k]
      /\ ~legal => UNCHANGED <<workerInbox, attachment>>
  BY <1>5, <1>6 DEF RemoteImport, remoteVars, Ids
<1>8. sync' = [sync EXCEPT ![s] = sync'[s]] /\ (sync'[s] \in {sync[s], Idle} \/ (legal /\ sync'[s] = done))
  BY <1>1, <1>5 DEF RemoteImport, RelayInv, RelayType
<1>9. /\ wire' \subseteq wire
      /\ UNCHANGED <<dispatch, homeInbox, sentHome, sentWorker, bounds>>
  BY DEF RemoteImport, homeVars, history
<1>10. /\ sync[s] \in Locals /\ Idle \in Locals /\ done \in Locals
       /\ Idle.pc = "idle" /\ done.pc = "imported" /\ done.cursor = k
  <2>1. sync[s] \in Locals
    BY <1>1 DEF RelayInv, RelayType
  <2>2. Idle \in Locals /\ Idle.pc = "idle"
    BY DEF Locals, Places, Idle
  <2>3. done \in Locals
    BY <1>5 DEF Locals, Places
  <2> QED
    BY <2>1, <2>2, <2>3
<1> HIDE DEF done, legal
<1>11. \A t \in Syncs : \/ sync'[t] = sync[t] \/ sync'[t].pc = "idle"
                        \/ legal /\ sync'[t].pc = "imported" /\ sync'[t].cursor = k
  BY <1>1, <1>8, <1>10 DEF RelayInv, RelayType
<1>12. /\ attachment'.relay = attachment.relay /\ attachment'.acked = attachment.acked
       /\ attachment'.imported = IF legal THEN k ELSE m
  BY <1>7 DEF RelayInv, RelayType
<1>13. RelayType'
  <2>1. sync' \in [Syncs -> Locals]
    BY <1>8, <1>10 DEF RelayInv, RelayType
  <2> QED
    BY <1>5, <1>7, <1>9, <2>1 DEF RelayInv, RelayType
<1>14. HomeInv'
  BY <1>9, <1>11, <1>12, HomeKept DEF RelayInv, Moving
<1>15. WorkerInv'
  <2>1. attachment'.imported \in Nat /\ m <= attachment'.imported
        /\ attachment'.imported <= Len(sentWorker) /\ workerInbox' = 1..attachment'.imported
    BY <1>4, <1>5, <1>7, <1>12
  <2>2. dispatch.acked \in Nat /\ dispatch.acked <= attachment'.imported
    BY <1>4, <2>1 DEF RelayInv, RelayType, WorkerInv
  <2>3. ASSUME NEW t \in Syncs, sync'[t].pc = "imported"
        PROVE  sync'[t].cursor <= attachment'.imported
    <3>1. CASE sync'[t] = sync[t]
      <4>1. sync[t].cursor \in Nat /\ sync[t].cursor <= m
        BY <2>3, <3>1 DEF RelayInv, RelayType, WorkerInv, Locals
      <4> QED
        BY <1>4, <2>1, <3>1, <4>1
    <3>2. CASE legal /\ sync'[t].cursor = k
      BY <1>5, <1>12, <3>2
    <3> QED
      BY <1>11, <2>3, <3>1, <3>2
  <2>4. ASSUME NEW q \in wire', q.op = "import" PROVE Carries(q)'
    <3>1. q.through <= Len(sentWorker)
      BY <1>9, <2>4 DEF RelayInv, WorkerInv, Carries
    <3>2. PICK i \in Nat : i < q.through /\ i <= m /\ q.items = Span(i, q.through)
      BY <1>9, <2>4 DEF RelayInv, WorkerInv, Carries
    <3>3. i <= attachment'.imported
      BY <1>4, <2>1, <3>2
    <3> QED
      BY <1>9, <3>1, <3>2, <3>3 DEF Carries
  <2> QED
    BY <1>9, <2>1, <2>2, <2>3, <2>4 DEF RelayInv, WorkerInv
<1>16. SoloInv'
  <2>1. \A t \in Syncs : t \notin bounds.syncs => sync'[t] = sync[t]
    BY <1>1, <1>8 DEF RelayInv, RelayType
  <2> QED
    BY <1>9, <1>11, <2>1, SoloKept DEF RelayInv
<1> QED
  BY <1>13, <1>14, <1>15, <1>16 DEF RelayInv

\* What is confirmed was imported.
LEMMA ConfirmKeepsRelay ==
  ASSUME RelayInv, NEW s \in bounds.syncs, Confirm(s)
  PROVE  RelayInv' /\ dispatch'.acked >= dispatch.acked /\ dispatch'.acked <= attachment.imported
<1> DEFINE n == Len(sentWorker)
           a == dispatch.acked
           c == sync[s].cursor
           g == IF a <= c THEN c ELSE a
<1>1. s \in Syncs /\ sync[s] \in Locals /\ c \in Nat /\ sync[s].pc = "imported"
  BY Bounded DEF RelayInv, RelayType, Locals, Confirm
<1>2. /\ n \in Nat /\ a \in Nat /\ attachment.imported \in Nat /\ a <= attachment.imported
      /\ attachment.imported <= n /\ c <= attachment.imported
  BY <1>1 DEF RelayInv, RelayType, WorkerInv
<1>3. dispatch.relay = Span(a, n)
  BY DEF RelayInv, WorkerInv
<1>4. g \in Nat /\ a <= g /\ g <= attachment.imported /\ g <= n /\ Max({a, c}) = g
  BY <1>1, <1>2, MaxOfTwo
<1> HIDE DEF g
<1>5. After(Span(a, n), g) = Span(g, n) /\ Span(g, n) \in Seq(Items)
  <2> HIDE DEF a, n
  <2>1. After(Span(a, n), g) = Span(IF g <= a THEN a ELSE IF g <= n THEN g ELSE n, n)
    BY <1>2, <1>4, SpanAfter
  <2>2. (IF g <= a THEN a ELSE IF g <= n THEN g ELSE n) = g
    BY <1>2, <1>4
  <2>3. Span(g, n) \in Seq(Items)
    BY <1>2, <1>4, SpanShape
  <2> QED
    BY <2>1, <2>2, <2>3
<1>6. dispatch' = [dispatch EXCEPT !.acked = g, !.relay = Span(g, n)]
  BY <1>3, <1>4, <1>5 DEF Confirm, Drop
<1>7. sync' = [sync EXCEPT ![s] = Idle] /\ Idle \in Locals /\ Idle.pc = "idle"
  BY DEF Confirm, Locals, Places, Idle
<1>8. UNCHANGED <<attachment, homeInbox, workerInbox, wire, sentHome, sentWorker, bounds>>
  BY DEF Confirm, remoteVars, history
<1>9. /\ dispatch'.acked = g /\ dispatch'.relay = Span(g, n)
      /\ dispatch'.cursor = dispatch.cursor
  BY <1>6 DEF RelayInv, RelayType
<1>10. RelayType'
  BY <1>1, <1>4, <1>5, <1>6, <1>7, <1>8 DEF RelayInv, RelayType
<1>11. \A t \in Syncs : sync'[t] = sync[t] \/ sync'[t].pc = "idle"
  BY <1>1, <1>7 DEF RelayInv, RelayType
<1>12. HomeInv'
  BY <1>8, <1>9, <1>11, HomeKept DEF RelayInv, Moving
<1>13. WorkerInv'
  BY <1>4, <1>8, <1>9, <1>11 DEF RelayInv, WorkerInv, Carries
<1>14. SoloInv'
  <2>1. \A t \in Syncs : t \notin bounds.syncs => sync'[t] = sync[t]
    BY <1>7 DEF RelayInv, RelayType
  <2> QED
    BY <1>8, <1>9, <1>11, <2>1, SoloKept DEF RelayInv
<1> QED
  BY <1>4, <1>9, <1>10, <1>12, <1>13, <1>14 DEF RelayInv

\* Every step keeps the invariant.
LEMMA NextRelay ==
  RelayInv /\ [Next]_vars => RelayInv'
<1> SUFFICES ASSUME RelayInv, [Next]_vars PROVE RelayInv'
  OBVIOUS
<1>1. CASE UNCHANGED vars
  <2>1. UNCHANGED <<dispatch, homeInbox, attachment, workerInbox, sync, wire,
                    sentHome, sentWorker, bounds>>
    BY <1>1 DEF vars, homeVars, remoteVars, callers, history
  <2> QED
    BY <2>1, Quiet
<1>2. CASE \/ StartRequest \/ StartAnswered \/ StartFails
           \/ AttachBegin \/ \E status \in {"ready", "failed"} : AttachEnd(status)
           \/ StopRequest \/ RemoteStop \/ StopAnswered \/ StopFails \/ Abandon
           \/ OthersWrite
  BY <1>2, CommandsKeepRelay
<1>3. CASE \E kind \in Kinds : SendFromWorker(kind)
  BY <1>3, SendFromWorkerKeepsRelay
<1>4. CASE SendToWorker \/ Reply
  BY <1>4, PushKeepsRelay DEF SendToWorker, Reply
<1>5. ASSUME NEW s \in bounds.syncs, SyncBegin(s) \/ SyncStep(s) \/ Abort(s)
      PROVE  RelayInv'
  <2>1. CASE SyncBegin(s) \/ PullRefused(s) \/ StoreRefused(s) \/ Abort(s)
    BY <2>1, BeginAndEndKeepRelay
  <2>2. CASE RemotePull(s)
    BY <2>2, PullKeepsRelay
  <2>3. CASE Store(s)
    BY <2>3, StoreKeepsRelay
  <2>4. CASE SendAck(s)
    BY <2>4, SendAckKeepsRelay
  <2>5. CASE SendImport(s)
    BY <2>5, SendImportKeepsRelay
  <2>6. CASE Confirm(s)
    BY <2>6, ConfirmKeepsRelay
  <2>7. CASE \E r \in wire : r.op = "ack" /\ r.by = s /\ RemoteAck(r)
    BY <2>7, RemoteAckKeepsRelay
  <2>8. CASE \E r \in wire : r.op = "import" /\ r.by = s /\ RemoteImport(r)
    BY <2>8, RemoteImportKeepsRelay
  <2> QED
    BY <1>5, <2>1, <2>2, <2>3, <2>4, <2>5, <2>6, <2>7, <2>8 DEF SyncStep
<1> QED
  BY <1>1, <1>2, <1>3, <1>4, <1>5 DEF Next, OthersWrite

\* The invariant holds throughout.
LEMMA RelayHolds ==
  Spec => []RelayInv
BY InitRelay, NextRelay, PTL DEF Spec

-----------------------------------------------------------------------------
(* Mail to the home                                                        *)

\* What the worker side still holds is what it has not seen acknowledged.
HomeHolds ==
    /\ Ids(attachment.relay) = (attachment.acked + 1)..Len(sentHome)
    /\ attachment.acked \in Nat /\ Len(sentHome) \in Nat
    /\ \E h \in 0..Len(sentHome) : homeInbox = 1..h /\ attachment.acked <= h

\* The invariant says so.
LEMMA HomeKeeps ==
  RelayInv => HomeHolds
<1> SUFFICES ASSUME RelayInv PROVE HomeHolds
  OBVIOUS
<1> DEFINE n == Len(sentHome)
           f == attachment.acked
<1>1. PICK h \in 0..n : homeInbox = 1..h /\ f <= h
  BY DEF RelayInv, HomeInv, StoredUpTo
<1>2. n \in Nat /\ f \in Nat /\ f <= n
  BY <1>1 DEF RelayInv, RelayType
<1>3. attachment.relay = Span(f, n)
  BY DEF RelayInv, HomeInv
<1>4. Ids(Span(f, n)) = (f + 1)..n
  <2> HIDE DEF f, n
  <2> QED
    BY <1>2, SpanIds
<1> QED
  BY <1>1, <1>2, <1>3, <1>4 DEF HomeHolds

\* The steps the channel to the home does not see.
LEMMA QuietToHome ==
  ASSUME RelayInv, Next,
         ~ \E kind \in Kinds : SendFromWorker(kind),
         ~ \E s \in bounds.syncs : Store(s),
         ~ \E r \in wire : r.by \in bounds.syncs /\ RemoteAck(r)
  PROVE  UNCHANGED <<sentHome, homeInbox, attachment.relay>>
<1> USE DEF homeVars, remoteVars, callers, history
<1>1. attachment \in [status : Statuses, relay : Seq(Items), acked : Nat, imported : Nat]
  BY DEF RelayInv, RelayType
<1>2. CASE \/ StartRequest \/ StartAnswered \/ StartFails
           \/ AttachBegin \/ \E status \in {"ready", "failed"} : AttachEnd(status)
           \/ StopRequest \/ RemoteStop \/ StopAnswered \/ StopFails \/ Abandon
           \/ OthersWrite
  BY <1>1, <1>2 DEF StartRequest, StartAnswered, StartFails, AttachBegin, AttachEnd,
     StopRequest, RemoteStop, StopAnswered, StopFails, Abandon, OthersWrite, SetTask,
     SettleAtHome
<1>3. CASE SendToWorker \/ Reply
  BY <1>3 DEF SendToWorker, Reply, PushToWorker
<1>4. ASSUME NEW s \in bounds.syncs, SyncBegin(s) \/ SyncStep(s) \/ Abort(s), ~Store(s),
             ~ \E r \in wire : r.by = s /\ RemoteAck(r)
      PROVE  UNCHANGED <<sentHome, homeInbox, attachment.relay>>
  <2>1. CASE \E r \in wire : r.op = "import" /\ r.by = s /\ RemoteImport(r)
    BY <1>1, <2>1 DEF RemoteImport
  <2>2. CASE \/ SyncBegin(s) \/ Abort(s) \/ RemotePull(s) \/ PullRefused(s)
             \/ StoreRefused(s) \/ SendAck(s) \/ SendImport(s) \/ Confirm(s)
    BY <2>2 DEF SyncBegin, Abort, RemotePull, PullRefused, StoreRefused, SendAck,
       SendImport, Confirm
  <2> QED
    BY <1>4, <2>1, <2>2 DEF SyncStep
<1> QED
  BY <1>2, <1>3, <1>4 DEF Next, OthersWrite

\* A step of the relay is a step of the channel to the home, or none of it.
LEMMA StepToHome ==
  RelayInv /\ HomeHolds /\ HomeHolds' /\ [Next]_vars => [ToHome!Next]_(ToHome!vars)
<1> SUFFICES ASSUME RelayInv, HomeHolds, HomeHolds', [Next]_vars
             PROVE  ToHome!Next \/ UNCHANGED ToHome!vars
  OBVIOUS
<1> DEFINE f == attachment.acked
           n == Len(sentHome)
           kept == Ids(attachment.relay)
<1>1. PICK h \in 0..n : homeInbox = 1..h /\ f <= h
  BY DEF HomeHolds
<1>2. PICK k \in 0..n' : homeInbox' = 1..k /\ f' <= k
  BY DEF HomeHolds
<1>3. /\ kept = (f + 1)..n /\ f \in Nat /\ n \in Nat
      /\ kept' = (f' + 1)..n' /\ f' \in Nat /\ n' \in Nat
  BY DEF HomeHolds
<1>4. CASE UNCHANGED <<sentHome, homeInbox, attachment.relay>>
  BY <1>4 DEF ToHome!vars, Ids
<1>5. ASSUME NEW kind \in Kinds, SendFromWorker(kind) PROVE ToHome!Send
  <2>1. sentHome' = Append(sentHome, kind) /\ homeInbox' = homeInbox /\ f' = f
    BY <1>5 DEF SendFromWorker, homeVars, RelayInv, RelayType
  <2>2. n' = n + 1
    BY <2>1 DEF RelayInv, RelayType
  <2>3. kept' = kept \cup {n + 1}
    <3> HIDE DEF kept, n, f
    <3> QED
      BY <1>1, <1>3, <2>1, <2>2
  <2> QED
    BY <2>1, <2>3 DEF ToHome!Send
<1>6. ASSUME NEW s \in bounds.syncs, Store(s) PROVE ToHome!Deliver
  <2>1. sentHome' = sentHome /\ attachment' = attachment
    BY <1>6 DEF Store, remoteVars, history
  <2>2. PICK i : homeInbox' = homeInbox \cup {i}
    BY <1>6 DEF Store
  <2>3. k \in 1..n
    <3> HIDE DEF n
    <3>1. n' = n
      BY <2>1 DEF n
    <3>2. i \in 1..k
      BY <1>2, <2>2
    <3> QED
      BY <1>2, <1>3, <3>1, <3>2
  <2>4. kept' = kept
    BY <2>1 DEF Ids
  <2> QED
    BY <1>2, <2>1, <2>2, <2>3, <2>4 DEF ToHome!Deliver
<1>7. ASSUME NEW r \in wire, r.by \in bounds.syncs, RemoteAck(r) PROVE ToHome!Discard
  <2>1. sentHome' = sentHome /\ homeInbox' = homeInbox /\ f' >= f
    BY <1>7, RemoteAckKeepsRelay DEF RemoteAck, homeVars, history
  <2>2. kept' \subseteq kept /\ kept \ kept' \subseteq homeInbox
    <3>1. n' = n
      BY <2>1
    <3> DEFINE kept1 == kept'
               f1 == f'
    <3>2. /\ kept = (f + 1)..n /\ kept1 = (f1 + 1)..n /\ f \in Nat /\ f1 \in Nat /\ n \in Nat
          /\ f <= f1 /\ homeInbox = 1..k /\ f1 <= k /\ k \in Nat
      BY <1>2, <1>3, <2>1, <3>1
    <3> HIDE DEF kept, n, f, kept1, f1
    <3>3. kept1 \subseteq kept /\ kept \ kept1 \subseteq homeInbox
      BY <3>2
    <3> QED
      BY <3>3 DEF kept1
  <2> QED
    BY <2>1, <2>2 DEF ToHome!Discard
<1> QED
  <2>1. CASE UNCHANGED vars
    BY <1>4, <2>1 DEF vars, homeVars, remoteVars, history
  <2>2. CASE Next
    BY <1>4, <1>5, <1>6, <1>7, <2>2, QuietToHome DEF ToHome!Next
  <2> QED
    BY <2>1, <2>2

\* Mail to the home, whatever the overlap, loss and repetition of requests,
\* is stored in order and once, and is discarded only when stored
\* (sync_federated_dispatch, acknowledge_federation_relay).
THEOREM ToHomeIsAChannel ==
  Spec => ToHomeIsReliable
<1>1. Init => ToHome!Init
  <2>1. Ids(<<>>) = {}
    BY DEF Ids, Range
  <2> QED
    BY <2>1 DEF Init, ToHome!Init
<1>2. Spec => []HomeHolds
  BY RelayHolds, HomeKeeps, PTL
<1> QED
  BY <1>1, <1>2, RelayHolds, StepToHome, PTL DEF Spec, ToHomeIsReliable, ToHome!Spec

-----------------------------------------------------------------------------
(* Mail to the worker                                                      *)

\* What the home still holds is what it has not had confirmed.
WorkerHolds ==
    /\ Ids(dispatch.relay) = (dispatch.acked + 1)..Len(sentWorker)
    /\ dispatch.acked \in Nat /\ Len(sentWorker) \in Nat
    /\ \E h \in 0..Len(sentWorker) : workerInbox = 1..h /\ dispatch.acked <= h

\* The invariant says so.
LEMMA WorkerKeeps ==
  RelayInv => WorkerHolds
<1> SUFFICES ASSUME RelayInv PROVE WorkerHolds
  OBVIOUS
<1> DEFINE n == Len(sentWorker)
           f == dispatch.acked
<1>1. \E h \in 0..n : workerInbox = 1..h /\ f <= h
  BY DEF RelayInv, RelayType, WorkerInv
<1>2. n \in Nat /\ f \in Nat /\ f <= n
  BY DEF RelayInv, RelayType, WorkerInv
<1>3. dispatch.relay = Span(f, n)
  BY DEF RelayInv, WorkerInv
<1>4. Ids(Span(f, n)) = (f + 1)..n
  <2> HIDE DEF f, n
  <2> QED
    BY <1>2, SpanIds
<1> QED
  BY <1>1, <1>2, <1>3, <1>4 DEF WorkerHolds

\* The steps the channel to the worker does not see.
LEMMA QuietToWorker ==
  ASSUME RelayInv, Next, ~PushToWorker,
         ~ \E r \in wire : r.by \in bounds.syncs /\ RemoteImport(r),
         ~ \E s \in bounds.syncs : Confirm(s)
  PROVE  UNCHANGED <<sentWorker, workerInbox, dispatch.relay>>
<1> USE DEF homeVars, remoteVars, callers, history
<1>1. dispatch \in [status : Statuses, cursor : Nat, relay : Seq(Items), acked : Nat]
  BY DEF RelayInv, RelayType
<1>2. CASE \/ StartRequest \/ StartAnswered \/ StartFails
           \/ AttachBegin \/ \E status \in {"ready", "failed"} : AttachEnd(status)
           \/ StopRequest \/ RemoteStop \/ StopAnswered \/ StopFails \/ Abandon
           \/ OthersWrite
  BY <1>1, <1>2 DEF StartRequest, StartAnswered, StartFails, AttachBegin, AttachEnd,
     StopRequest, RemoteStop, StopAnswered, StopFails, Abandon, OthersWrite, SetTask,
     SettleAtHome
<1>3. CASE \E kind \in Kinds : SendFromWorker(kind)
  BY <1>3 DEF SendFromWorker
<1>4. CASE SendToWorker \/ Reply
  BY <1>4 DEF SendToWorker, Reply
<1>5. ASSUME NEW s \in bounds.syncs, SyncBegin(s) \/ SyncStep(s) \/ Abort(s), ~Confirm(s),
             ~ \E r \in wire : r.by = s /\ RemoteImport(r)
      PROVE  UNCHANGED <<sentWorker, workerInbox, dispatch.relay>>
  <2>1. CASE \E r \in wire : r.op = "ack" /\ r.by = s /\ RemoteAck(r)
    BY <2>1 DEF RemoteAck
  <2>2. CASE Store(s)
    BY <1>1, <2>2 DEF Store
  <2>3. CASE \/ SyncBegin(s) \/ Abort(s) \/ RemotePull(s) \/ PullRefused(s)
             \/ StoreRefused(s) \/ SendAck(s) \/ SendImport(s)
    BY <2>3 DEF SyncBegin, Abort, RemotePull, PullRefused, StoreRefused, SendAck, SendImport
  <2> QED
    BY <1>5, <2>1, <2>2, <2>3 DEF SyncStep
<1> QED
  BY <1>2, <1>3, <1>4, <1>5 DEF Next, OthersWrite

\* A step of the relay is a step of the channel to the worker, or none of it.
LEMMA StepToWorker ==
  RelayInv /\ WorkerHolds /\ RelayInv' /\ WorkerHolds' /\ [Next]_vars
     => [ToWorker!Next]_(ToWorker!vars)
<1> SUFFICES ASSUME RelayInv, WorkerHolds, RelayInv', WorkerHolds', [Next]_vars
             PROVE  ToWorker!Next \/ UNCHANGED ToWorker!vars
  OBVIOUS
<1> DEFINE f == dispatch.acked
           n == Len(sentWorker)
           kept == Ids(dispatch.relay)
<1>1. PICK h \in 0..n : workerInbox = 1..h /\ f <= h
  BY DEF WorkerHolds
<1>2. PICK k \in 0..n' : workerInbox' = 1..k /\ f' <= k
  BY DEF WorkerHolds
<1>3. /\ kept = (f + 1)..n /\ f \in Nat /\ n \in Nat
      /\ kept' = (f' + 1)..n' /\ f' \in Nat /\ n' \in Nat
  BY DEF WorkerHolds
<1>4. CASE UNCHANGED <<sentWorker, workerInbox, dispatch.relay>>
  BY <1>4 DEF ToWorker!vars, Ids
<1>5. CASE PushToWorker
  <2>1. sentWorker' = Append(sentWorker, "mail") /\ workerInbox' = workerInbox /\ f' = f
    BY <1>5 DEF PushToWorker, remoteVars, RelayInv, RelayType
  <2>2. n' = n + 1
    BY <2>1 DEF RelayInv, RelayType
  <2>3. kept' = kept \cup {n + 1}
    <3> HIDE DEF kept, n, f
    <3> QED
      BY <1>1, <1>3, <2>1, <2>2
  <2> QED
    BY <2>1, <2>3 DEF ToWorker!Next, ToWorker!Send
<1>6. ASSUME NEW r \in wire, r.by \in bounds.syncs, RemoteImport(r)
      PROVE  ToWorker!Deliver \/ UNCHANGED ToWorker!vars
  <2>1. sentWorker' = sentWorker /\ dispatch' = dispatch
    BY <1>6 DEF RemoteImport, homeVars, history
  <2>2. workerInbox \subseteq workerInbox'
    BY <1>6 DEF RemoteImport, remoteVars
  <2>3. kept' = kept /\ n' = n
    BY <2>1 DEF Ids
  <2> HIDE DEF kept, n
  <2>4. CASE k = 0
    <3>1. workerInbox' = {} /\ workerInbox = {}
      BY <1>2, <2>2, <2>4
    <3> QED
      BY <2>1, <2>3, <3>1 DEF ToWorker!vars, kept
  <2>5. CASE k # 0
    <3>1. k \in 1..n
      BY <1>2, <1>3, <2>3, <2>5
    <3> QED
      BY <1>2, <2>1, <2>2, <2>3, <3>1 DEF ToWorker!Deliver, kept, n
  <2> QED
    BY <2>4, <2>5
<1>7. ASSUME NEW s \in bounds.syncs, Confirm(s) PROVE ToWorker!Discard
  <2>1. sentWorker' = sentWorker /\ workerInbox' = workerInbox /\ f' >= f
    BY <1>7, ConfirmKeepsRelay DEF Confirm, remoteVars, history
  <2>2. kept' \subseteq kept /\ kept \ kept' \subseteq workerInbox
    <3>1. n' = n
      BY <2>1
    <3> DEFINE kept1 == kept'
               f1 == f'
    <3>2. /\ kept = (f + 1)..n /\ kept1 = (f1 + 1)..n /\ f \in Nat /\ f1 \in Nat /\ n \in Nat
          /\ f <= f1 /\ workerInbox = 1..k /\ f1 <= k /\ k \in Nat
      BY <1>2, <1>3, <2>1, <3>1
    <3> HIDE DEF kept, n, f, kept1, f1
    <3>3. kept1 \subseteq kept /\ kept \ kept1 \subseteq workerInbox
      BY <3>2
    <3> QED
      BY <3>3 DEF kept1
  <2> QED
    BY <2>1, <2>2 DEF ToWorker!Discard
<1> QED
  <2>1. CASE UNCHANGED vars
    BY <1>4, <2>1 DEF vars, homeVars, remoteVars, history
  <2>2. CASE Next
    BY <1>4, <1>5, <1>6, <1>7, <2>2, QuietToWorker DEF ToWorker!Next
  <2> QED
    BY <2>1, <2>2

\* The same of the coordinator's mail: in order, once, and kept until the
\* worker side has it (import_federation_relay and the retain after its
\* answer).
THEOREM ToWorkerIsAChannel ==
  Spec => ToWorkerIsReliable
<1>1. Init => ToWorker!Init
  <2>1. Ids(<<>>) = {}
    BY DEF Ids, Range
  <2> QED
    BY <2>1 DEF Init, ToWorker!Init
<1>2. Spec => []WorkerHolds
  BY RelayHolds, WorkerKeeps, PTL
<1> QED
  BY <1>1, <1>2, RelayHolds, StepToWorker, PTL DEF Spec, ToWorkerIsReliable, ToWorker!Spec

-----------------------------------------------------------------------------
(* The background loop                                                     *)

\* With the loop alone no overlap can put the cursor behind what the worker
\* side has discarded: the next pull is contiguous, and the relay goes on
\* (sync_all_federated_best_effort, sync_federated_dispatch).
THEOREM LoopGoesOn ==
  Spec => []LoopPullsAreContiguous
<1>1. RelayInv => LoopPullsAreContiguous
  BY LoopIsLevel DEF LoopPullsAreContiguous, NextPullIsContiguous
<1> QED
  BY <1>1, RelayHolds, PTL

\* What the next round of the loop pulls, and what it sends.
NextPull == Take(After(attachment.relay, dispatch.cursor))
NextImport == Take(After(dispatch.relay, dispatch.acked))

\* A round of the loop gets on: what it has pulled it can store, while there
\* is mail not stored the next pull begins with the first such message, and
\* while there is mail not imported the next import is not empty; nor does
\* it leave a gap.
RoundsGetOn ==
    /\ bounds.syncs = {Loop} =>
         /\ sync[Loop].pc = "store" /\ sync[Loop].items # <<>>
               => Head(sync[Loop].items).sequence = sync[Loop].cursor + 1
         /\ \A i \in 1..Len(sentHome) : i \notin homeInbox =>
               /\ NextPull # <<>>
               /\ Head(NextPull).sequence = dispatch.cursor + 1
               /\ Head(NextPull).id \notin homeInbox
    /\ \A i \in 1..Len(sentWorker) : i \notin workerInbox => NextImport # <<>>
    /\ Contiguous(NextImport, attachment.imported)

\* The safety half of MailArrives: no state the loop alone reaches stops a
\* round from moving mail that waits (sync_federated_dispatch).
THEOREM LoopMovesMail ==
  Spec => []RoundsGetOn
<1>1. ASSUME RelayInv, bounds.syncs = {Loop}, sync[Loop].pc = "store", sync[Loop].items # <<>>
      PROVE  Head(sync[Loop].items).sequence = sync[Loop].cursor + 1
  <2> DEFINE c == sync[Loop].cursor
  <2>1. Follow(sync[Loop].items, c) /\ c \in Nat
    BY <1>1, FederationAssumption DEF RelayInv, RelayType, Locals, SoloInv
  <2> HIDE DEF c
  <2>2. PICK b \in Nat : c <= b /\ sync[Loop].items = Span(c, b)
    BY <2>1 DEF Follow
  <2>3. c < b
    BY <1>1, <2>1, <2>2, SpanShape
  <2>4. Head(sync[Loop].items) = Item(c + 1)
    BY <2>1, <2>2, <2>3, SpanEnds
  <2> QED
    BY <2>4 DEF Item, c
<1>2. ASSUME RelayInv, bounds.syncs = {Loop}, NEW i \in 1..Len(sentHome), i \notin homeInbox
      PROVE  /\ NextPull # <<>>
             /\ Head(NextPull).sequence = dispatch.cursor + 1
             /\ Head(NextPull).id \notin homeInbox
  <2> DEFINE c == dispatch.cursor
  <2>1. /\ homeInbox = 1..c /\ c \in Nat /\ attachment.acked <= c
        /\ Len(sentHome) \in Nat /\ c <= Len(sentHome)
    BY <1>2, LoopIsLevel
  <2>2. c < Len(sentHome)
    BY <1>2, <2>1
  <2>3. NextPull = Take(After(attachment.relay, c))
    BY DEF NextPull
  <2> HIDE DEF c
  <2>4. PICK b \in Nat : c < b /\ NextPull = Span(c, b)
    BY <1>2, <2>1, <2>2, <2>3, PullFollows
  <2>5. NextPull # <<>> /\ Head(NextPull) = Item(c + 1)
    <3>1. Span(c, b) # <<>>
      BY <2>1, <2>4, SpanShape
    <3>2. Head(Span(c, b)) = Item(c + 1)
      BY <2>1, <2>4, SpanEnds
    <3> QED
      BY <2>4, <3>1, <3>2
  <2>6. Head(NextPull).sequence = c + 1 /\ Head(NextPull).id = c + 1
    BY <2>5 DEF Item
  <2> QED
    BY <2>1, <2>5, <2>6 DEF c
<1>3. ASSUME RelayInv
      PROVE  /\ \A i \in 1..Len(sentWorker) : i \notin workerInbox => NextImport # <<>>
             /\ Contiguous(NextImport, attachment.imported)
  <2> DEFINE a == dispatch.acked
             n == Len(sentWorker)
             m == attachment.imported
  <2>1. /\ a \in Nat /\ n \in Nat /\ m \in Nat /\ a <= m /\ m <= n
        /\ workerInbox = 1..m /\ dispatch.relay = Span(a, n)
    BY <1>3 DEF RelayInv, RelayType, WorkerInv
  <2>2. NextImport = Take(After(Span(a, n), a)) /\ bounds.batch \in Nat \ {0}
    BY <1>3, <2>1, Bounded DEF NextImport
  <2> HIDE DEF a, n, m
  <2>3. After(Span(a, n), a) = Span(a, n)
    BY <2>1, SpanAfter
  <2>4. PICK c \in Nat : a <= c /\ (a < n => a < c) /\ NextImport = Span(a, c)
    <3>1. a <= n
      BY <2>1
    <3>2. PICK c \in Nat : a <= c /\ (a < n => a < c) /\ Take(Span(a, n)) = Span(a, c)
      BY <2>1, <2>2, <3>1, SpanTake
    <3> QED
      BY <2>2, <2>3, <3>2
  <2>5. ASSUME NEW i \in 1..n, i \notin workerInbox PROVE NextImport # <<>>
    <3>1. a < n
      BY <2>1, <2>5
    <3> QED
      BY <2>1, <2>4, <3>1, SpanShape
  <2>6. Contiguous(NextImport, m)
    BY <2>1, <2>4, SpanContiguous
  <2> QED
    BY <2>5, <2>6 DEF n, m
<1>4. RelayInv => RoundsGetOn
  BY <1>1, <1>2, <1>3 DEF RoundsGetOn
<1> QED
  BY <1>4, RelayHolds, PTL

-----------------------------------------------------------------------------
(* Requests                                                                *)

\* Every request is one the worker side accepts, however late it is handled:
\* an acknowledgement is not beyond its last item, and an import leaves no
\* gap behind what it has imported.
RequestsAreLegal ==
    \A r \in wire :
        /\ r.op = "ack" => r.through <= LastSequence(attachment.relay, attachment.acked)
        /\ r.op = "import" => Contiguous(r.items, attachment.imported)

\* The errors of acknowledge_federation_relay and import_federation_relay
\* about a sequence are never returned to another instance of the program:
\* only the status of the attachment can refuse a request.
THEOREM NoRequestIsOutOfOrder ==
  Spec => []RequestsAreLegal
<1>1. ASSUME RelayInv, NEW r \in wire, r.op = "ack"
      PROVE  r.through <= LastSequence(attachment.relay, attachment.acked)
  <2> DEFINE f == attachment.acked
             n == Len(sentHome)
  <2>1. PICK h \in 0..n : StoredUpTo(h)
    BY <1>1 DEF RelayInv, HomeInv
  <2>2. /\ n \in Nat /\ f \in Nat /\ f <= h /\ h <= n /\ r.through <= h
        /\ r.through \in Nat /\ attachment.relay = Span(f, n)
    BY <1>1, <2>1, RequestFields DEF RelayInv, RelayType, HomeInv, StoredUpTo
  <2> HIDE DEF f, n
  <2>3. LastSequence(Span(f, n), f) = n
    BY <2>1, <2>2, SpanPush
  <2>4. r.through <= n
    BY <2>1, <2>2
  <2> QED
    BY <2>2, <2>3, <2>4 DEF f
<1>2. ASSUME RelayInv, NEW r \in wire, r.op = "import"
      PROVE  Contiguous(r.items, attachment.imported)
  <2>1. PICK a \in Nat : /\ a < r.through /\ a <= attachment.imported
                         /\ r.items = Span(a, r.through)
    BY <1>2 DEF RelayInv, WorkerInv, Carries
  <2>2. r.through \in Nat /\ attachment.imported \in Nat
    BY <1>2, RequestFields DEF RelayInv, RelayType
  <2> QED
    BY <2>1, <2>2, SpanContiguous
<1>3. RelayInv => RequestsAreLegal
  BY <1>1, <1>2 DEF RequestsAreLegal
<1> QED
  BY <1>3, RelayHolds, PTL

-----------------------------------------------------------------------------
(* Loss                                                                    *)

\* A message that was sent is stored by the receiver or still held by the
\* sender, in both directions.
NothingIsLost ==
    /\ \A i \in 1..Len(sentHome) : i \in homeInbox \/ i \in Ids(attachment.relay)
    /\ \A i \in 1..Len(sentWorker) : i \in workerInbox \/ i \in Ids(dispatch.relay)

\* No loss of a request or an answer, no repetition and no early discard
\* takes a message from both sides (the retain of acknowledge_federation_relay
\* and of the answer to an import).
THEOREM SomebodyHasIt ==
  Spec => []NothingIsLost
<1>1. ASSUME RelayInv, NEW i \in 1..Len(sentHome)
      PROVE  i \in homeInbox \/ i \in Ids(attachment.relay)
  <2>1. HomeHolds
    BY <1>1, HomeKeeps
  <2> DEFINE n == Len(sentHome)
             f == attachment.acked
             kept == Ids(attachment.relay)
  <2>2. kept = (f + 1)..n /\ f \in Nat /\ n \in Nat /\ i \in 1..n
    BY <2>1 DEF HomeHolds
  <2>3. PICK h \in 0..n : homeInbox = 1..h /\ f <= h
    BY <2>1 DEF HomeHolds
  <2> HIDE DEF n, f, kept
  <2>4. i \in homeInbox \/ i \in kept
    BY <2>2, <2>3
  <2> QED
    BY <2>4 DEF kept
<1>2. ASSUME RelayInv, NEW i \in 1..Len(sentWorker)
      PROVE  i \in workerInbox \/ i \in Ids(dispatch.relay)
  <2>1. WorkerHolds
    BY <1>2, WorkerKeeps
  <2> DEFINE n == Len(sentWorker)
             f == dispatch.acked
             kept == Ids(dispatch.relay)
  <2>2. kept = (f + 1)..n /\ f \in Nat /\ n \in Nat /\ i \in 1..n
    BY <2>1 DEF WorkerHolds
  <2>3. PICK h \in 0..n : workerInbox = 1..h /\ f <= h
    BY <2>1 DEF WorkerHolds
  <2> HIDE DEF n, f, kept
  <2>4. i \in workerInbox \/ i \in kept
    BY <2>2, <2>3
  <2> QED
    BY <2>4 DEF kept
<1>3. RelayInv => NothingIsLost
  BY <1>1, <1>2 DEF NothingIsLost
<1> QED
  BY <1>3, RelayHolds, PTL

-----------------------------------------------------------------------------
(* Dispatch and Task                                                       *)

\* A Dispatch that reports success has a completed Task, unless somebody else has
\* written the Task since, whichever answer of worker-start or worker-stop comes
\* late (worker_start_remote, worker_stop, sync_federated_dispatch).
THEOREM TheySettleTogether ==
  Spec => []SettledTogether
<1>1. Init => SettledTogether
  BY DEF Init, SettledTogether
<1>2. RelayInv /\ SettledTogether /\ [Next]_vars => SettledTogether'
  <2> SUFFICES ASSUME RelayInv, SettledTogether, [Next]_vars PROVE SettledTogether'
    OBVIOUS
  <2> USE DEF homeVars, remoteVars, callers, history, SettledTogether
  <2>1. dispatch \in [status : Statuses, cursor : Nat, relay : Seq(Items), acked : Nat]
    BY DEF RelayInv, RelayType
  <2>2. CASE \/ StartRequest \/ StartAnswered \/ StartFails \/ StopAnswered \/ Abandon
             \/ OthersWrite
    BY <2>1, <2>2 DEF StartRequest, StartAnswered, StartFails, StopAnswered, Abandon,
       OthersWrite, SetTask, SettleAtHome, TaskStatus
  <2>3. CASE \E s \in bounds.syncs : Store(s)
    <3>1. PICK s \in bounds.syncs : Store(s)
      BY <2>3
    <3> DEFINE item == Head(sync[s].items)
    <3>2. /\ dispatch'.status = Settle(item.id).status /\ task' = Settle(item.id).task
          /\ edited' <=> edited /\ ~Settles(item.id)
      BY <2>1, <3>1 DEF Store
    <3>3. CASE Settles(item.id)
      <4>1. dispatch'.status = sentHome[item.id] /\ task' = TaskStatus(sentHome[item.id])
        BY <3>2, <3>3 DEF Settle
      <4> QED
        BY <4>1 DEF TaskStatus
    <3>4. CASE ~Settles(item.id)
      <4>1. dispatch'.status = dispatch.status /\ task' = task
        BY <3>2, <3>4 DEF Settle
      <4>2. ~edited' => ~edited
        BY <3>2, <3>4
      <4> QED
        BY <4>1, <4>2
    <3> QED
      BY <3>3, <3>4
  <2>4. CASE SendToWorker \/ Reply \/ \E s \in bounds.syncs : Confirm(s)
    BY <2>1, <2>4 DEF SendToWorker, Reply, PushToWorker, Confirm
  <2>5. CASE UNCHANGED vars
    BY <2>5 DEF vars
  <2>6. CASE \/ AttachBegin \/ \E status \in {"ready", "failed"} : AttachEnd(status)
             \/ StopRequest \/ RemoteStop \/ StopFails
             \/ \E kind \in Kinds : SendFromWorker(kind)
    BY <2>6 DEF AttachBegin, AttachEnd, StopRequest, RemoteStop, StopFails, SendFromWorker
  <2>7. ASSUME NEW s \in bounds.syncs, SyncBegin(s) \/ SyncStep(s) \/ Abort(s),
               ~Store(s), ~Confirm(s)
        PROVE  SettledTogether'
    <3>1. UNCHANGED <<dispatch, task, edited>>
      BY <2>7 DEF SyncBegin, Abort, SyncStep, RemotePull, PullRefused, StoreRefused, SendAck,
         SendImport, RemoteAck, RemoteImport
    <3> QED
      BY <3>1
  <2> QED
    BY <2>2, <2>3, <2>4, <2>5, <2>6, <2>7 DEF Next, OthersWrite
<1> QED
  BY <1>1, <1>2, RelayHolds, PTL DEF Spec

=============================================================================
