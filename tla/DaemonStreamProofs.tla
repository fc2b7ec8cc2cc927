------------------------- MODULE DaemonStreamProofs -------------------------
(* What a client of a daemon session is fed, for any number of clients and   *)
(* chunks and every size of the history and of the queues.                   *)
EXTENDS DaemonStream, TLAPS

Event == [kind : {"data", "gap"}, n : Nat] \cup [kind : {"exit"}, code : {Code, NoCode}]

\* What is on its way to a client: the replay, then the queue.
Pipe(c) == replay[c] \o queue[c]

\* A gap notice comes first and the exit last; the chunks between skip none.
Orderly(p) ==
    /\ \A i \in 1..Len(p) : p[i].kind = "gap" => i = 1 /\ Len(p) > 1 /\ p[2].kind = "data"
    /\ \A i \in 1..Len(p) : p[i].kind = "exit" => i = Len(p)
    /\ \A i \in 1..(Len(p) - 1) : p[i].kind = "data" /\ p[i + 1].kind = "data"
                                     => p[i + 1].n <= p[i].n + 1

\* What is on its way continues what was fed.
Joined(s, p, told) ==
    p # <<>> =>
        /\ s # <<>> => /\ p[1].kind # "gap"
                       /\ p[1].kind = "data" => p[1].n <= s[Len(s)] + 1
        /\ s = <<>> /\ p[1].kind = "data" /\ p[1].n > 0 => told

\* What was fed and is on its way ends with chunk k - 1 or a later one.
Reaches(s, p, k) ==
    /\ p # <<>> => p[Len(p)].kind = "data" /\ k <= p[Len(p)].n + 1
    /\ p = <<>> /\ s # <<>> => k <= s[Len(s)] + 1
    /\ p = <<>> /\ s = <<>> => k = 0

\* An exit on its way is the real one and comes after chunk k - 1.
Complete(s, p, k) ==
    p # <<>> /\ p[Len(p)].kind = "exit" =>
        /\ p[Len(p)].code = Code
        /\ Len(p) > 1 => p[Len(p) - 1].kind = "data" /\ k <= p[Len(p) - 1].n + 1
        /\ Len(p) = 1 /\ s # <<>> => k <= s[Len(s)] + 1
        /\ Len(p) = 1 /\ s = <<>> => k = 0

NoHole(s, told) ==
    /\ \A i \in 1..(Len(s) - 1) : s[i + 1] <= s[i] + 1
    /\ s # <<>> /\ s[1] > 0 => told

\* What was fed and is on its way never goes back, and repeats chunk w alone.
Before(m, n, w) == m <= n /\ (m = n => m = w)
Rising(s, p, w) ==
    /\ \A i, j \in 1..Len(s) : i < j => Before(s[i], s[j], w)
    /\ \A i \in 1..Len(s), j \in 1..Len(p) : p[j].kind = "data" => Before(s[i], p[j].n, w)
    /\ \A i, j \in 1..Len(p) :
          i < j /\ p[i].kind = "data" /\ p[j].kind = "data" => Before(p[i].n, p[j].n, w)

\* All of it comes before chunk k.
Below(s, p, k, w) ==
    /\ \A i \in 1..Len(s) : Before(s[i], k, w)
    /\ \A i \in 1..Len(p) : p[i].kind = "data" => Before(p[i].n, k, w)

-----------------------------------------------------------------------------
\* The next chunk offered joins on.
LEMMA OneMoreChunk ==
  ASSUME NEW p \in Seq(Event), NEW s \in Seq(Nat), NEW told \in BOOLEAN, NEW k \in Nat,
         Orderly(p), Joined(s, p, told), Reaches(s, p, k)
  PROVE  /\ Append(p, Data(k)) \in Seq(Event)
         /\ Orderly(Append(p, Data(k))) /\ Joined(s, Append(p, Data(k)), told)
         /\ Reaches(s, Append(p, Data(k)), k + 1)
         /\ \A m : Complete(s, Append(p, Data(k)), m)
<1> DEFINE e == Data(k)
           q == Append(p, e)
<1>1. e \in Event /\ e.kind = "data" /\ e.n = k
  BY DEF Data, Event
<1> HIDE DEF e
<1>2. /\ q \in Seq(Event) /\ Len(q) = Len(p) + 1 /\ q[Len(q)] = e /\ q # <<>>
      /\ \A i \in 1..Len(p) : q[i] = p[i]
      /\ Len(p) \in Nat /\ (p = <<>> <=> Len(p) = 0)
  BY <1>1
<1> HIDE DEF q
<1>3. \A i \in 1..Len(q) : i = Len(q) \/ i \in 1..Len(p)
  BY <1>2
<1>4. \A i \in 1..Len(p) : p[i].kind # "exit"
  BY <1>2 DEF Orderly, Reaches
<1>5. Orderly(q)
  <2>1. ASSUME NEW i \in 1..Len(q), q[i].kind = "gap"
        PROVE  i = 1 /\ Len(q) > 1 /\ q[2].kind = "data"
    BY <1>1, <1>2, <1>3, <2>1 DEF Orderly
  <2>2. ASSUME NEW i \in 1..Len(q), q[i].kind = "exit"
        PROVE  i = Len(q)
    BY <1>1, <1>2, <1>3, <1>4, <2>2
  <2>3. ASSUME NEW i \in 1..(Len(q) - 1), q[i].kind = "data", q[i + 1].kind = "data"
        PROVE  q[i + 1].n <= q[i].n + 1
    <3>1. CASE i = Len(p)
      BY <1>1, <1>2, <2>3, <3>1 DEF Reaches
    <3>2. CASE i # Len(p)
      <4>1. i \in 1..(Len(p) - 1) /\ i \in 1..Len(p) /\ i + 1 \in 1..Len(p)
        BY <1>2, <3>2
      <4> QED
        BY <1>2, <2>3, <4>1 DEF Orderly
    <3> QED
      BY <3>1, <3>2
  <2> QED
    BY <2>1, <2>2, <2>3 DEF Orderly
<1>6. Joined(s, q, told)
  <2>1. CASE p = <<>>
    BY <1>1, <1>2, <2>1 DEF Joined, Reaches
  <2>2. CASE p # <<>>
    BY <1>2, <2>2 DEF Joined
  <2> QED
    BY <2>1, <2>2
<1>7. Reaches(s, q, k + 1) /\ \A m : Complete(s, q, m)
  BY <1>1, <1>2 DEF Reaches, Complete
<1> QED
  BY <1>2, <1>5, <1>6, <1>7 DEF q, e

\* The exit offered after the last chunk.
LEMMA ThenTheExit ==
  ASSUME NEW p \in Seq(Event), NEW s \in Seq(Nat), NEW told \in BOOLEAN, NEW k \in Nat,
         Orderly(p), Joined(s, p, told), Reaches(s, p, k)
  PROVE  /\ Append(p, Exit(Code)) \in Seq(Event)
         /\ Orderly(Append(p, Exit(Code))) /\ Joined(s, Append(p, Exit(Code)), told)
         /\ Complete(s, Append(p, Exit(Code)), k)
<1> DEFINE e == Exit(Code)
           q == Append(p, e)
<1>1. e \in Event /\ e.kind = "exit" /\ e.code = Code
  BY DEF Exit, Event
<1> HIDE DEF e
<1>2. /\ q \in Seq(Event) /\ Len(q) = Len(p) + 1 /\ q[Len(q)] = e /\ q # <<>>
      /\ \A i \in 1..Len(p) : q[i] = p[i]
      /\ Len(p) \in Nat /\ (p = <<>> <=> Len(p) = 0)
  BY <1>1
<1> HIDE DEF q
<1>3. \A i \in 1..Len(q) : i = Len(q) \/ i \in 1..Len(p)
  BY <1>2
<1>4. \A i \in 1..Len(p) : p[i].kind # "exit"
  BY <1>2 DEF Orderly, Reaches
<1>5. Orderly(q)
  <2>1. ASSUME NEW i \in 1..Len(q), q[i].kind = "gap"
        PROVE  i = 1 /\ Len(q) > 1 /\ q[2].kind = "data"
    BY <1>1, <1>2, <1>3, <2>1 DEF Orderly
  <2>2. ASSUME NEW i \in 1..Len(q), q[i].kind = "exit"
        PROVE  i = Len(q)
    BY <1>1, <1>2, <1>3, <1>4, <2>2
  <2>3. ASSUME NEW i \in 1..(Len(q) - 1), q[i].kind = "data", q[i + 1].kind = "data"
        PROVE  q[i + 1].n <= q[i].n + 1
    <3>1. i # Len(p)
      BY <1>1, <1>2, <2>3
    <3>2. i \in 1..(Len(p) - 1) /\ i \in 1..Len(p) /\ i + 1 \in 1..Len(p)
      BY <1>2, <3>1
    <3> QED
      BY <1>2, <2>3, <3>2 DEF Orderly
  <2> QED
    BY <2>1, <2>2, <2>3 DEF Orderly
<1>6. Joined(s, q, told)
  <2>1. CASE p = <<>>
    BY <1>1, <1>2, <2>1 DEF Joined
  <2>2. CASE p # <<>>
    BY <1>2, <2>2 DEF Joined
  <2> QED
    BY <2>1, <2>2
<1>7. Complete(s, q, k)
  <2>1. CASE p = <<>>
    BY <1>1, <1>2, <2>1 DEF Complete, Reaches
  <2>2. CASE p # <<>>
    BY <1>1, <1>2, <2>2 DEF Complete, Reaches
  <2> QED
    BY <2>1, <2>2
<1> QED
  BY <1>2, <1>5, <1>6, <1>7 DEF q, e

\* The tail of a sequence of events.
LEMMA TailEvents ==
  ASSUME NEW p \in Seq(Event), p # <<>>
  PROVE  /\ Tail(p) \in Seq(Event) /\ Len(Tail(p)) = Len(p) - 1 /\ Len(p) \in Nat /\ Len(p) > 0
         /\ \A i \in 1..(Len(p) - 1) : Tail(p)[i] = p[i + 1]
         /\ Head(p) = p[1] /\ p[1] \in Event /\ (Tail(p) = <<>> <=> Len(p) = 1)
         /\ Len(p) > 1 => Tail(p)[Len(p) - 1] = p[Len(p)] /\ Tail(p)[1] = p[2]
<1>1. /\ Tail(p) \in Seq(Event) /\ Len(Tail(p)) = Len(p) - 1 /\ Len(p) \in Nat /\ Len(p) > 0
      /\ Head(p) = p[1] /\ p[1] \in Event
      /\ \A i \in 1..(Len(p) - 1) : Tail(p)[i] = p[i + 1]
  OBVIOUS
<1>2. Tail(p) = <<>> <=> Len(p) = 1
  <2> DEFINE q == Tail(p)
  <2>1. q \in Seq(Event) /\ Len(q) = Len(p) - 1 /\ Len(p) \in Nat
    BY <1>1
  <2> HIDE DEF q
  <2>2. q = <<>> <=> Len(q) = 0
    BY <2>1
  <2> QED
    BY <2>1, <2>2 DEF q
<1>3. Len(p) > 1 => Tail(p)[Len(p) - 1] = p[Len(p)] /\ Tail(p)[1] = p[2]
  <2>1. ASSUME Len(p) > 1
        PROVE  Len(p) - 1 \in 1..(Len(p) - 1) /\ 1 \in 1..(Len(p) - 1) /\ (Len(p) - 1) + 1 = Len(p)
    BY <1>1, <2>1
  <2> QED
    BY <1>1, <2>1
<1> QED
  BY <1>1, <1>2, <1>3

\* A chunk is fed.
LEMMA ChunkFed ==
  ASSUME NEW p \in Seq(Event), NEW s \in Seq(Nat), NEW told \in BOOLEAN,
         p # <<>>, p[1].kind = "data", Orderly(p), Joined(s, p, told), NoHole(s, told)
  PROVE  /\ Append(s, p[1].n) \in Seq(Nat)
         /\ Orderly(Tail(p)) /\ Joined(Append(s, p[1].n), Tail(p), told)
         /\ NoHole(Append(s, p[1].n), told)
         /\ \A k \in Nat : Reaches(s, p, k) => Reaches(Append(s, p[1].n), Tail(p), k)
         /\ \A k \in Nat : Complete(s, p, k) => Complete(Append(s, p[1].n), Tail(p), k)
<1> DEFINE q == Tail(p)
           n == p[1].n
           t == Append(s, n)
<1>1. /\ q \in Seq(Event) /\ Len(q) = Len(p) - 1 /\ Len(p) \in Nat /\ Len(p) > 0
      /\ \A i \in 1..(Len(p) - 1) : q[i] = p[i + 1]
      /\ p[1] \in Event /\ (q = <<>> <=> Len(p) = 1)
      /\ Len(p) > 1 => q[Len(p) - 1] = p[Len(p)] /\ q[1] = p[2]
  BY TailEvents
<1>2. n \in Nat
  BY <1>1 DEF Event
<1>3. /\ t \in Seq(Nat) /\ Len(t) = Len(s) + 1 /\ t[Len(t)] = n /\ t # <<>> /\ Len(s) \in Nat
      /\ \A i \in 1..Len(s) : t[i] = s[i] /\ s[i] \in Nat
      /\ (s = <<>> <=> Len(s) = 0)
  BY <1>2
<1>4. \A i \in 1..Len(p) : p[i].kind # "gap"
  BY DEF Orderly
<1> HIDE DEF q, t
<1>5. \A i \in 1..Len(q) : i \in 1..(Len(p) - 1) /\ i \in 1..Len(p) /\ i + 1 \in 1..Len(p) /\ q[i] = p[i + 1]
  BY <1>1
<1>6. Orderly(q)
  <2>1. ASSUME NEW i \in 1..Len(q) PROVE q[i].kind # "gap"
    BY <1>4, <1>5
  <2>2. ASSUME NEW i \in 1..Len(q), q[i].kind = "exit" PROVE i = Len(q)
    <3>1. i + 1 = Len(p)
      BY <1>5, <2>2 DEF Orderly
    <3> QED
      BY <1>1, <3>1
  <2>3. ASSUME NEW i \in 1..(Len(q) - 1), q[i].kind = "data", q[i + 1].kind = "data"
        PROVE  q[i + 1].n <= q[i].n + 1
    <3>1. i \in 1..Len(q) /\ i + 1 \in 1..Len(q) /\ i + 1 \in 1..(Len(p) - 1)
      BY <1>1
    <3>2. q[i] = p[i + 1] /\ q[i + 1] = p[(i + 1) + 1]
      BY <1>5, <3>1
    <3> QED
      BY <2>3, <3>1, <3>2 DEF Orderly
  <2> QED
    BY <2>1, <2>2, <2>3 DEF Orderly
<1>7. Joined(t, q, told)
  <2>1. CASE q = <<>>
    BY <2>1 DEF Joined
  <2>2. CASE q # <<>>
    <3>1. 1 \in 1..(Len(p) - 1) /\ 1 + 1 = 2 /\ 2 \in 1..Len(p) /\ q[1] = p[2]
      BY <1>1, <2>2
    <3>2. q[1].kind # "gap" /\ (q[1].kind = "data" => q[1].n <= n + 1)
      BY <1>4, <3>1 DEF Orderly
    <3> QED
      BY <1>3, <3>2 DEF Joined
  <2> QED
    BY <2>1, <2>2
<1>8. NoHole(t, told)
  <2>1. ASSUME NEW i \in 1..(Len(t) - 1) PROVE t[i + 1] <= t[i] + 1
    <3>1. CASE i = Len(s)
      BY <1>3, <3>1 DEF Joined
    <3>2. CASE i # Len(s)
      <4>1. i \in 1..(Len(s) - 1) /\ i \in 1..Len(s) /\ i + 1 \in 1..Len(s)
        BY <1>3, <3>2
      <4> QED
        BY <1>3, <4>1 DEF NoHole
    <3> QED
      BY <3>1, <3>2
  <2>2. t[1] > 0 => told
    <3>1. CASE s = <<>>
      <4>1. t[1] = n /\ n = p[1].n
        BY <1>3, <3>1
      <4> QED
        BY <3>1, <4>1 DEF Joined
    <3>2. CASE s # <<>>
      <4>1. 1 \in 1..Len(s) /\ t[1] = s[1]
        BY <1>3, <3>2
      <4> QED
        BY <3>2, <4>1 DEF NoHole
    <3> QED
      BY <3>1, <3>2
  <2> QED
    BY <2>1, <2>2 DEF NoHole
<1>9. \A k \in Nat : Reaches(s, p, k) => Reaches(t, q, k)
  BY <1>1, <1>3 DEF Reaches
<1>10. \A k \in Nat : Complete(s, p, k) => Complete(t, q, k)
  <2> SUFFICES ASSUME NEW k \in Nat, Complete(s, p, k), q # <<>>, q[Len(q)].kind = "exit"
               PROVE  Complete(t, q, k)
    BY DEF Complete
  <2>1. Len(p) > 1 /\ p[Len(p)] = q[Len(q)]
    BY <1>1
  <2>2. p[Len(p)].code = Code /\ p[Len(p) - 1].kind = "data" /\ k <= p[Len(p) - 1].n + 1
    BY <2>1 DEF Complete
  <2>3. CASE Len(q) = 1
    <3>1. Len(p) - 1 = 1 /\ k <= t[Len(t)] + 1
      BY <1>1, <1>3, <2>2, <2>3
    <3> QED
      BY <1>3, <2>1, <2>2, <2>3, <3>1 DEF Complete
  <2>4. CASE Len(q) > 1
    <3>1. Len(q) - 1 \in 1..(Len(p) - 1) /\ (Len(q) - 1) + 1 = Len(p) - 1
      BY <1>1, <2>4
    <3>2. q[Len(q) - 1] = p[Len(p) - 1]
      BY <1>1, <3>1
    <3> QED
      BY <2>1, <2>2, <2>4, <3>2 DEF Complete
  <2> QED
    BY <1>1, <2>3, <2>4
<1> QED
  BY <1>3, <1>6, <1>7, <1>8, <1>9, <1>10 DEF q, t

\* A gap is told.
LEMMA GapTold ==
  ASSUME NEW p \in Seq(Event), NEW s \in Seq(Nat), NEW told \in BOOLEAN,
         p # <<>>, p[1].kind = "gap", Orderly(p), Joined(s, p, told),
         NEW after \in BOOLEAN, after
  PROVE  /\ s = <<>> /\ Orderly(Tail(p)) /\ Joined(s, Tail(p), after)
         /\ \A k \in Nat : Reaches(s, p, k) => Reaches(s, Tail(p), k)
         /\ \A k \in Nat : Complete(s, p, k) => Complete(s, Tail(p), k)
<1> DEFINE q == Tail(p)
<1>1. /\ q \in Seq(Event) /\ Len(q) = Len(p) - 1 /\ Len(p) \in Nat /\ Len(p) > 0
      /\ \A i \in 1..(Len(p) - 1) : q[i] = p[i + 1]
      /\ p[1] \in Event /\ (q = <<>> <=> Len(p) = 1)
      /\ Len(p) > 1 => q[Len(p) - 1] = p[Len(p)] /\ q[1] = p[2]
  BY TailEvents
<1>2. Len(p) > 1 /\ p[2].kind = "data" /\ s = <<>>
  <2>1. 1 \in 1..Len(p)
    BY <1>1
  <2> QED
    BY <2>1 DEF Orderly, Joined
<1> HIDE DEF q
<1>5. \A i \in 1..Len(q) : i \in 1..(Len(p) - 1) /\ i \in 1..Len(p) /\ i + 1 \in 1..Len(p)
                          /\ i + 1 # 1 /\ q[i] = p[i + 1]
  BY <1>1
<1>6. Orderly(q)
  <2>1. ASSUME NEW i \in 1..Len(q) PROVE q[i].kind # "gap"
    BY <1>5 DEF Orderly
  <2>2. ASSUME NEW i \in 1..Len(q), q[i].kind = "exit" PROVE i = Len(q)
    <3>1. i + 1 = Len(p)
      BY <1>5, <2>2 DEF Orderly
    <3> QED
      BY <1>1, <3>1
  <2>3. ASSUME NEW i \in 1..(Len(q) - 1), q[i].kind = "data", q[i + 1].kind = "data"
        PROVE  q[i + 1].n <= q[i].n + 1
    <3>1. i \in 1..Len(q) /\ i + 1 \in 1..Len(q) /\ i + 1 \in 1..(Len(p) - 1)
      BY <1>1
    <3>2. q[i] = p[i + 1] /\ q[i + 1] = p[(i + 1) + 1]
      BY <1>5, <3>1
    <3> QED
      BY <2>3, <3>1, <3>2 DEF Orderly
  <2> QED
    BY <2>1, <2>2, <2>3 DEF Orderly
<1>7. Joined(s, q, after)
  BY <1>2 DEF Joined
<1>8. \A k \in Nat : Reaches(s, p, k) => Reaches(s, q, k)
  BY <1>1, <1>2 DEF Reaches
<1>9. \A k \in Nat : Complete(s, p, k) => Complete(s, q, k)
  <2> SUFFICES ASSUME NEW k \in Nat, Complete(s, p, k), q[Len(q)].kind = "exit"
               PROVE  Complete(s, q, k)
    BY DEF Complete
  <2>1. p[Len(p)] = q[Len(q)] /\ Len(p) # 2
    BY <1>1, <1>2
  <2>2. p[Len(p)].code = Code /\ p[Len(p) - 1].kind = "data" /\ k <= p[Len(p) - 1].n + 1
    BY <1>2, <2>1 DEF Complete
  <2>3. Len(q) - 1 \in 1..(Len(p) - 1) /\ (Len(q) - 1) + 1 = Len(p) - 1 /\ Len(q) > 1
    BY <1>1, <1>2, <2>1
  <2>4. q[Len(q) - 1] = p[Len(p) - 1]
    BY <1>1, <2>3
  <2> QED
    BY <2>1, <2>2, <2>3, <2>4 DEF Complete
<1> QED
  BY <1>2, <1>6, <1>7, <1>8, <1>9 DEF q

\* The pipe as the handler and the reader thread see it.
LEMMA PipeEnds ==
  ASSUME NEW r \in Seq(Event), NEW q \in Seq(Event)
  PROVE  /\ r \o q \in Seq(Event)
         /\ \A e \in Event : r \o Append(q, e) = Append(r \o q, e)
         /\ r = <<>> => r \o q = q
         /\ q = <<>> => r \o q = r
         /\ r # <<>> => /\ r \o q # <<>> /\ (r \o q)[1] = Head(r)
                        /\ Tail(r \o q) = Tail(r) \o q
<1>1. r \o q \in Seq(Event)
  OBVIOUS
<1>2. ASSUME NEW e \in Event PROVE r \o Append(q, e) = Append(r \o q, e)
  BY <1>1
<1>3. r = <<>> => r \o q = q
  OBVIOUS
<1>4. q = <<>> => r \o q = r
  OBVIOUS
<1>5. ASSUME r # <<>> PROVE r \o q # <<>> /\ (r \o q)[1] = Head(r)
  BY <1>5
<1>6. ASSUME r # <<>> PROVE Tail(r \o q) = Tail(r) \o q
  BY <1>5, <1>6
<1> QED
  BY <1>1, <1>2, <1>3, <1>4, <1>5, <1>6

-----------------------------------------------------------------------------
\* Chunks pushed into the history, and the next one to be offered.
Kept == IF pub = "numbered" THEN nextSeq - 1 ELSE nextSeq
NextOffer == IF pub \in {"numbered", "retained"} THEN nextSeq - 1 ELSE nextSeq

StreamType ==
    /\ nextSeq \in Nat /\ history \in Seq(Nat) /\ subscribers \subseteq Clients
    /\ pub \in {"none", "read", "numbered", "retained", "coded", "stopped", "done"}
    /\ running \in BOOLEAN
    /\ queue \in [Clients -> Seq(Event)] /\ replay \in [Clients -> Seq(Event)]
    /\ cpc \in [Clients -> {"off", "attached", "streaming", "exit", "cut", "error", "gone"}]
    /\ replayUntil \in [Clients -> Nat \cup {-1}]
    /\ seen \in [Clients -> Seq(Nat)] /\ gapTold \in [Clients -> BOOLEAN]
    /\ DOMAIN clientExit = Clients
    /\ answered \in [Clients -> SUBSET Nat] /\ old \in [Clients -> SUBSET Nat]

\* The history is the newest chunks, one after the other, and the order in
\* which the reader thread ends.
ReaderInv ==
    /\ pub \in {"numbered", "retained"} => nextSeq > 0
    /\ pub \in {"coded", "stopped", "done"} => exitCode = Code
    /\ running <=> pub \in {"read", "numbered", "retained", "coded"}
    /\ registered => pub # "none"
    /\ Len(history) <= Kept
    /\ Kept > 0 => history # <<>>
    /\ \A i \in 1..Len(history) : history[i] = Kept - Len(history) + (i - 1)

Ended == pub \in {"stopped", "done"}

\* A client and what is on its way to it.
ClientInv(c) ==
    /\ cpc[c] \in {"off", "attached"} =>
          /\ queue[c] = <<>> /\ replay[c] = <<>> /\ seen[c] = <<>> /\ answered[c] = {}
          /\ c \notin subscribers
    /\ cpc[c] = "off" => replayUntil[c] = -1 /\ old[c] = {}
    /\ \A i \in 1..Len(seen[c]) : seen[c][i] < nextSeq
    /\ \A i \in 1..Len(Pipe(c)) : Pipe(c)[i].kind = "data" => Pipe(c)[i].n < nextSeq
    /\ \A n \in answered[c] : n < nextSeq /\ replayUntil[c] <= n
    /\ \A n \in old[c] : n < replayUntil[c]
    /\ NoHole(seen[c], gapTold[c])
    /\ cpc[c] = "streaming" =>
          /\ Orderly(Pipe(c)) /\ Joined(seen[c], Pipe(c), gapTold[c])
          /\ Complete(seen[c], Pipe(c), nextSeq)
          /\ Pipe(c) # <<>> /\ Pipe(c)[Len(Pipe(c))].kind = "exit" => Ended
          /\ c \in subscribers /\ pub # "done" => Reaches(seen[c], Pipe(c), NextOffer)
    /\ cpc[c] = "exit" =>
          /\ clientExit[c] = Code /\ Ended
          /\ nextSeq > 0 => seen[c] # <<>> /\ seen[c][Len(seen[c])] = nextSeq - 1

StreamInv == StreamType /\ ReaderInv /\ \A c \in Clients : ClientInv(c)

-----------------------------------------------------------------------------
\* At the start there is no session and nobody has attached.
LEMMA InitStream == Init => StreamInv
<1> SUFFICES ASSUME Init PROVE StreamInv
  OBVIOUS
<1>1. <<>> \in Seq(Nat) /\ <<>> \in Seq(Event) /\ Len(<<>>) = 0
  OBVIOUS
<1>2. StreamType
  BY <1>1 DEF Init, StreamType
<1>3. ReaderInv
  BY <1>1 DEF Init, ReaderInv, Kept
<1>4. ASSUME NEW c \in Clients PROVE ClientInv(c)
  <2>1. /\ cpc[c] = "off" /\ queue[c] = <<>> /\ replay[c] = <<>> /\ seen[c] = <<>>
        /\ answered[c] = {} /\ old[c] = {} /\ replayUntil[c] = -1 /\ c \notin subscribers
    BY DEF Init
  <2>2. Pipe(c) = <<>>
    BY <2>1, <1>1, PipeEnds DEF Pipe
  <2> QED
    BY <1>1, <2>1, <2>2 DEF ClientInv, NoHole
<1> QED
  BY <1>2, <1>3, <1>4 DEF StreamInv

\* A client that a step leaves alone.
LEMMA ClientLeftAlone ==
  ASSUME StreamInv, NEW c \in Clients,
         cpc'[c] = cpc[c], queue'[c] = queue[c], replay'[c] = replay[c], seen'[c] = seen[c],
         answered'[c] = answered[c], old'[c] = old[c], replayUntil'[c] = replayUntil[c],
         gapTold'[c] = gapTold[c], clientExit'[c] = clientExit[c],
         c \in subscribers' => c \in subscribers,
         \/ nextSeq' = nextSeq
         \/ nextSeq' = nextSeq + 1 /\ ~Ended,
         NextOffer' = NextOffer, Ended => Ended', pub = "done" => pub' = "done"
  PROVE  ClientInv(c)'
<1>1. Pipe(c)' = Pipe(c)
  BY DEF Pipe
<1>2. /\ nextSeq \in Nat /\ seen[c] \in Seq(Nat) /\ Pipe(c) \in Seq(Event)
      /\ answered[c] \subseteq Nat
      /\ \A i \in 1..Len(seen[c]) : seen[c][i] \in Nat
      /\ \A i \in 1..Len(Pipe(c)) : Pipe(c)[i].kind = "data" => Pipe(c)[i].n \in Nat
  <2>1. nextSeq \in Nat /\ seen[c] \in Seq(Nat) /\ Pipe(c) \in Seq(Event) /\ answered[c] \subseteq Nat
    BY PipeEnds DEF StreamInv, StreamType, Pipe
  <2>2. \A i \in 1..Len(Pipe(c)) : Pipe(c)[i] \in Event
    BY <2>1
  <2> QED
    BY <2>1, <2>2 DEF Event
<1>3. ClientInv(c)
  BY DEF StreamInv
<1>4. nextSeq' \in Nat /\ nextSeq <= nextSeq'
  BY <1>2
<1>5. /\ \A i \in 1..Len(seen[c]) : seen[c][i] < nextSeq'
      /\ \A i \in 1..Len(Pipe(c)) : Pipe(c)[i].kind = "data" => Pipe(c)[i].n < nextSeq'
      /\ \A n \in answered[c] : n < nextSeq'
  BY <1>2, <1>3, <1>4 DEF ClientInv
<1>6. cpc[c] = "streaming" => Complete(seen[c], Pipe(c), nextSeq')
  BY <1>3 DEF ClientInv, Complete
<1>7. cpc[c] = "exit" => nextSeq' = nextSeq
  BY <1>3 DEF ClientInv
<1> QED
  BY <1>1, <1>3, <1>5, <1>6, <1>7 DEF ClientInv, NoHole, Joined, Complete, Reaches, Orderly

\* The reader thread's steps that offer nothing.
LEMMA QuietReaderKeeps ==
  ASSUME StreamInv, Number \/ Retain \/ StoreExit \/ StopRunning
  PROVE  StreamInv'
<1>1. /\ UNCHANGED <<queue, replay, cpc, replayUntil, seen, gapTold, clientExit, answered, old>>
      /\ UNCHANGED <<registered, subscribers>>
  BY DEF Number, Retain, StoreExit, StopRunning, clientVars, ghostVars
<1>2. nextSeq \in Nat /\ history \in Seq(Nat)
  BY DEF StreamInv, StreamType
<1>3. StreamType' /\ ReaderInv' /\ NextOffer' = NextOffer
      /\ (nextSeq' = nextSeq \/ (nextSeq' = nextSeq + 1 /\ ~Ended))
      /\ (Ended => Ended') /\ (pub = "done" => pub' = "done")
  <2>1. CASE Number
    <3>1. /\ pub = "read" /\ pub' = "numbered" /\ nextSeq' = nextSeq + 1
          /\ UNCHANGED <<history, running, exitCode>>
      BY <2>1 DEF Number
    <3> QED
      BY <1>1, <1>2, <3>1 DEF StreamInv, StreamType, ReaderInv, Kept, NextOffer, Ended
  <2>2. CASE StoreExit
    <3>1. /\ pub = "read" /\ pub' = "coded" /\ exitCode' = Code
          /\ UNCHANGED <<history, running, nextSeq>>
      BY <2>2 DEF StoreExit
    <3> QED
      BY <1>1, <1>2, <3>1 DEF StreamInv, StreamType, ReaderInv, Kept, NextOffer, Ended
  <2>3. CASE StopRunning
    <3>1. /\ pub = "coded" /\ pub' = "stopped" /\ running' = FALSE
          /\ UNCHANGED <<history, exitCode, nextSeq>>
      BY <2>3 DEF StopRunning
    <3> QED
      BY <1>1, <1>2, <3>1 DEF StreamInv, StreamType, ReaderInv, Kept, NextOffer, Ended
  <2>4. CASE Retain
    <3> DEFINE h == Append(history, nextSeq - 1)
    <3>1. /\ pub = "numbered" /\ pub' = "retained"
          /\ history' = IF Len(h) > HistoryLimit THEN Tail(h) ELSE h
          /\ UNCHANGED <<running, exitCode, nextSeq>>
      BY <2>4 DEF Retain
    <3>2. nextSeq > 0 /\ Len(history) \in Nat /\ Len(history) <= nextSeq - 1
          /\ \A i \in 1..Len(history) : history[i] = (nextSeq - 1) - Len(history) + (i - 1)
      BY <1>2, <3>1 DEF StreamInv, ReaderInv, Kept
    <3>3. /\ h \in Seq(Nat) /\ Len(h) = Len(history) + 1 /\ h # <<>>
          /\ \A i \in 1..Len(h) : h[i] = nextSeq - Len(h) + (i - 1)
      <4>1. /\ h \in Seq(Nat) /\ Len(h) = Len(history) + 1 /\ h # <<>> /\ h[Len(h)] = nextSeq - 1
            /\ \A i \in 1..Len(history) : h[i] = history[i]
        BY <1>2, <3>2
      <4> HIDE DEF h
      <4>2. ASSUME NEW i \in 1..Len(h) PROVE h[i] = nextSeq - Len(h) + (i - 1)
        <5>1. CASE i = Len(h)
          BY <1>2, <3>2, <4>1, <5>1
        <5>2. CASE i \in 1..Len(history)
          BY <1>2, <3>2, <4>1, <5>2
        <5> QED
          BY <3>2, <4>1, <5>1, <5>2
      <4> QED
        BY <4>1, <4>2
    <3> HIDE DEF h
    <3>4. /\ history' \in Seq(Nat) /\ Len(history') <= nextSeq /\ history' # <<>>
          /\ \A i \in 1..Len(history') : history'[i] = nextSeq - Len(history') + (i - 1)
      <4>1. CASE Len(h) > HistoryLimit
        <5>1. history' = Tail(h) /\ Len(h) > 1
          BY <3>1, <4>1, StreamAssumption
        <5>2. /\ Tail(h) \in Seq(Nat) /\ Len(Tail(h)) = Len(h) - 1 /\ Len(h) \in Nat
              /\ \A i \in 1..(Len(h) - 1) : Tail(h)[i] = h[i + 1]
          BY <3>3
        <5>3. ASSUME NEW i \in 1..(Len(h) - 1)
              PROVE  Tail(h)[i] = nextSeq - (Len(h) - 1) + (i - 1)
          <6>1. i + 1 \in 1..Len(h)
            BY <5>2
          <6> QED
            BY <1>2, <3>3, <5>2, <6>1
        <5> DEFINE t == Tail(h)
        <5>4. /\ t \in Seq(Nat) /\ Len(t) = Len(h) - 1 /\ Len(t) > 0 /\ Len(t) <= nextSeq
              /\ \A i \in 1..Len(t) : t[i] = nextSeq - Len(t) + (i - 1)
          <6>1. t \in Seq(Nat) /\ Len(t) = Len(h) - 1 /\ Len(t) > 0 /\ Len(t) <= nextSeq
            BY <1>2, <3>2, <3>3, <5>1, <5>2
          <6>2. \A i \in 1..(Len(h) - 1) : t[i] = nextSeq - (Len(h) - 1) + (i - 1)
            BY <5>3
          <6> HIDE DEF t
          <6> QED
            BY <6>1, <6>2
        <5>5. history' = t
          BY <5>1
        <5> HIDE DEF t
        <5>6. t # <<>>
          BY <5>4
        <5> QED
          BY <5>4, <5>5, <5>6
      <4>2. CASE ~(Len(h) > HistoryLimit)
        <5>1. history' = h
          BY <3>1, <4>2
        <5>2. Len(h) <= nextSeq
          BY <1>2, <3>2, <3>3
        <5> QED
          BY <3>3, <5>1, <5>2
      <4> QED
        BY <4>1, <4>2
    <3>5. StreamType'
      BY <1>1, <3>1, <3>4 DEF StreamInv, StreamType
    <3>6. ReaderInv'
      BY <1>1, <3>1, <3>2, <3>4 DEF StreamInv, ReaderInv, Kept
    <3> QED
      BY <3>1, <3>5, <3>6 DEF NextOffer, Ended
  <2> QED
    BY <2>1, <2>2, <2>3, <2>4
<1>4. ASSUME NEW c \in Clients PROVE ClientInv(c)'
  BY <1>1, <1>3, ClientLeftAlone
<1> QED
  BY <1>3, <1>4 DEF StreamInv

\* What a broadcast does to the pipe of one client.
LEMMA BroadcastTo ==
  ASSUME StreamInv, NEW e \in Event, Broadcast(e), NEW c \in Clients, replay' = replay
  PROVE  /\ queue' \in [Clients -> Seq(Event)] /\ subscribers' \subseteq subscribers
         /\ \/ Pipe(c)' = Pipe(c) /\ queue'[c] = queue[c] /\ c \notin subscribers'
            \/ /\ Pipe(c)' = Append(Pipe(c), e) /\ c \in subscribers /\ c \in subscribers'
               /\ cpc[c] = "streaming"
<1> DEFINE reached == {d \in subscribers : Connected(d) /\ Len(queue[d]) < QueueLimit}
<1>1. /\ subscribers' = reached
      /\ queue' = [d \in Clients |-> IF d \in reached THEN Append(queue[d], e) ELSE queue[d]]
  BY DEF Broadcast
<1>2. queue \in [Clients -> Seq(Event)] /\ replay \in [Clients -> Seq(Event)]
  BY DEF StreamInv, StreamType
<1>3. queue' \in [Clients -> Seq(Event)]
  <2>1. ASSUME NEW d \in Clients PROVE (IF d \in reached THEN Append(queue[d], e) ELSE queue[d]) \in Seq(Event)
    BY <1>2
  <2> QED
    BY <1>1, <2>1
<1>4. CASE c \in reached
  <2>1. queue'[c] = Append(queue[c], e) /\ replay'[c] = replay[c]
    BY <1>1, <1>4
  <2>2. Pipe(c)' = Append(Pipe(c), e)
    BY <1>2, <2>1, PipeEnds DEF Pipe
  <2>3. cpc[c] = "streaming"
    BY <1>4 DEF StreamInv, ClientInv, Connected
  <2> QED
    BY <1>1, <1>3, <1>4, <2>2, <2>3
<1>5. CASE c \notin reached
  BY <1>1, <1>3, <1>5 DEF Pipe
<1> QED
  BY <1>4, <1>5

\* A chunk is offered: whoever gets it had got the one before, or none is
\* missing before it.
LEMMA OfferKeeps ==
  ASSUME StreamInv, Offer
  PROVE  StreamInv'
<1> DEFINE e == Data(nextSeq - 1)
<1>1. /\ pub = "retained" /\ pub' = "read" /\ Broadcast(e)
      /\ UNCHANGED <<registered, nextSeq, history, running, exitCode, replay>>
      /\ UNCHANGED <<cpc, replayUntil, replies, seen, gapTold, clientExit, answered, old, window>>
  BY DEF Offer, clientVars, ghostVars
<1>2. nextSeq - 1 \in Nat /\ nextSeq \in Nat /\ (nextSeq - 1) + 1 = nextSeq
  BY <1>1 DEF StreamInv, StreamType, ReaderInv
<1>3. e \in Event /\ e.kind = "data" /\ e.n = nextSeq - 1
  BY <1>2 DEF Data, Event
<1> HIDE DEF e
<1>4. \A c \in Clients :
         /\ queue' \in [Clients -> Seq(Event)] /\ subscribers' \subseteq subscribers
         /\ \/ Pipe(c)' = Pipe(c) /\ queue'[c] = queue[c] /\ c \notin subscribers'
            \/ /\ Pipe(c)' = Append(Pipe(c), e) /\ c \in subscribers /\ c \in subscribers'
               /\ cpc[c] = "streaming"
  BY <1>1, <1>3, BroadcastTo
<1>5. StreamType'
  <2>1. queue' \in [Clients -> Seq(Event)]
    <3>1. CASE Clients = {}
      BY <1>1, <3>1 DEF Broadcast
    <3>2. CASE Clients # {}
      BY <1>4, <3>2
    <3> QED
      BY <3>1, <3>2
  <2>2. subscribers' \subseteq Clients
    BY <1>1 DEF Broadcast, StreamInv, StreamType
  <2> QED
    BY <1>1, <2>1, <2>2 DEF StreamInv, StreamType
<1>6. ReaderInv'
  BY <1>1 DEF StreamInv, ReaderInv, Kept
<1>7. NextOffer = nextSeq - 1 /\ NextOffer' = nextSeq /\ ~Ended /\ pub # "done"
  BY <1>1 DEF NextOffer, Ended
<1>8. ASSUME NEW c \in Clients PROVE ClientInv(c)'
  <2>1. /\ Pipe(c) \in Seq(Event) /\ seen[c] \in Seq(Nat) /\ gapTold[c] \in BOOLEAN /\ ClientInv(c)
    BY PipeEnds DEF StreamInv, StreamType, Pipe
  <2>2. CASE Pipe(c)' = Pipe(c) /\ queue'[c] = queue[c] /\ c \notin subscribers'
    BY <1>1, <1>7, <2>1, <2>2 DEF ClientInv
  <2>3. CASE Pipe(c)' = Append(Pipe(c), e) /\ c \in subscribers /\ c \in subscribers' /\ cpc[c] = "streaming"
    <3>1. /\ Orderly(Pipe(c)) /\ Joined(seen[c], Pipe(c), gapTold[c])
          /\ Reaches(seen[c], Pipe(c), nextSeq - 1)
      BY <1>7, <2>1, <2>3 DEF ClientInv
    <3>2. /\ Orderly(Pipe(c)') /\ Joined(seen[c], Pipe(c)', gapTold[c])
          /\ Reaches(seen[c], Pipe(c)', nextSeq) /\ Complete(seen[c], Pipe(c)', nextSeq)
      BY <1>2, <2>1, <2>3, <3>1, OneMoreChunk DEF e
    <3>3. /\ \A i \in 1..Len(Pipe(c)') : Pipe(c)'[i].kind = "data" => Pipe(c)'[i].n < nextSeq
          /\ Pipe(c)' # <<>> /\ Pipe(c)'[Len(Pipe(c)')].kind = "data"
      <4> DEFINE p == Pipe(c)
                 q == Append(p, e)
      <4>1. /\ Len(q) = Len(p) + 1 /\ q[Len(q)] = e /\ Len(p) \in Nat /\ q # <<>>
            /\ \A i \in 1..Len(p) : q[i] = p[i]
        BY <2>1, <1>3
      <4>2. \A i \in 1..Len(p) : p[i].kind = "data" => p[i].n < nextSeq
        BY <2>1 DEF ClientInv
      <4>3. Pipe(c)' = q
        BY <2>3
      <4> HIDE DEF p, q
      <4>4. \A i \in 1..Len(q) : i = Len(q) \/ i \in 1..Len(p)
        BY <4>1
      <4> QED
        BY <1>2, <1>3, <4>1, <4>2, <4>3, <4>4
    <3> QED
      BY <1>1, <1>7, <2>1, <2>3, <3>2, <3>3 DEF ClientInv, NoHole, Joined, Complete, Reaches, Orderly
  <2> QED
    BY <1>4, <2>2, <2>3
<1> QED
  BY <1>5, <1>6, <1>8 DEF StreamInv

\* The exit is offered to those who have, or are about to get, the last chunk.
LEMMA OfferExitKeeps ==
  ASSUME StreamInv, OfferExit
  PROVE  StreamInv'
<1> DEFINE e == Exit(exitCode)
<1>1. /\ pub = "stopped" /\ pub' = "done" /\ Broadcast(e) /\ exitCode = Code
      /\ UNCHANGED <<registered, nextSeq, history, running, exitCode, replay>>
      /\ UNCHANGED <<cpc, replayUntil, replies, seen, gapTold, clientExit, answered, old, window>>
  BY DEF OfferExit, clientVars, ghostVars, StreamInv, ReaderInv
<1>2. nextSeq \in Nat
  BY DEF StreamInv, StreamType
<1>3. e \in Event /\ e.kind = "exit" /\ e = Exit(Code)
  BY <1>1 DEF Exit, Event
<1> HIDE DEF e
<1>4. \A c \in Clients :
         /\ queue' \in [Clients -> Seq(Event)] /\ subscribers' \subseteq subscribers
         /\ \/ Pipe(c)' = Pipe(c) /\ queue'[c] = queue[c] /\ c \notin subscribers'
            \/ /\ Pipe(c)' = Append(Pipe(c), e) /\ c \in subscribers /\ c \in subscribers'
               /\ cpc[c] = "streaming"
  BY <1>1, <1>3, BroadcastTo
<1>5. StreamType'
  <2>1. queue' \in [Clients -> Seq(Event)]
    <3>1. CASE Clients = {}
      BY <1>1, <3>1 DEF Broadcast
    <3>2. CASE Clients # {}
      BY <1>4, <3>2
    <3> QED
      BY <3>1, <3>2
  <2>2. subscribers' \subseteq Clients
    BY <1>1 DEF Broadcast, StreamInv, StreamType
  <2> QED
    BY <1>1, <2>1, <2>2 DEF StreamInv, StreamType
<1>6. ReaderInv'
  BY <1>1 DEF StreamInv, ReaderInv, Kept
<1>7. NextOffer = nextSeq /\ Ended /\ Ended'
  BY <1>1 DEF NextOffer, Ended
<1>8. ASSUME NEW c \in Clients PROVE ClientInv(c)'
  <2>1. /\ Pipe(c) \in Seq(Event) /\ seen[c] \in Seq(Nat) /\ gapTold[c] \in BOOLEAN /\ ClientInv(c)
    BY PipeEnds DEF StreamInv, StreamType, Pipe
  <2>2. CASE Pipe(c)' = Pipe(c) /\ queue'[c] = queue[c] /\ c \notin subscribers'
    BY <1>1, <1>7, <2>1, <2>2 DEF ClientInv
  <2>3. CASE Pipe(c)' = Append(Pipe(c), e) /\ c \in subscribers /\ c \in subscribers' /\ cpc[c] = "streaming"
    <3>1. /\ Orderly(Pipe(c)) /\ Joined(seen[c], Pipe(c), gapTold[c])
          /\ Reaches(seen[c], Pipe(c), nextSeq)
      BY <1>1, <1>7, <2>1, <2>3 DEF ClientInv
    <3>2. /\ Orderly(Pipe(c)') /\ Joined(seen[c], Pipe(c)', gapTold[c])
          /\ Complete(seen[c], Pipe(c)', nextSeq)
      BY <1>2, <1>3, <2>1, <2>3, <3>1, ThenTheExit
    <3>3. \A i \in 1..Len(Pipe(c)') : Pipe(c)'[i].kind = "data" => Pipe(c)'[i].n < nextSeq
      <4> DEFINE p == Pipe(c)
                 q == Append(p, e)
      <4>1. /\ Len(q) = Len(p) + 1 /\ q[Len(q)] = e /\ Len(p) \in Nat /\ q # <<>>
            /\ \A i \in 1..Len(p) : q[i] = p[i]
        BY <2>1, <1>3
      <4>2. \A i \in 1..Len(p) : p[i].kind = "data" => p[i].n < nextSeq
        BY <2>1 DEF ClientInv
      <4>3. Pipe(c)' = q
        BY <2>3
      <4> HIDE DEF p, q
      <4>4. \A i \in 1..Len(q) : i = Len(q) \/ i \in 1..Len(p)
        BY <4>1
      <4> QED
        BY <1>3, <4>1, <4>2, <4>3, <4>4
    <3> QED
      BY <1>1, <1>7, <2>1, <2>3, <3>2, <3>3 DEF ClientInv, NoHole, Joined, Complete, Reaches, Orderly
  <2> QED
    BY <1>4, <2>2, <2>3
<1> QED
  BY <1>5, <1>6, <1>8 DEF StreamInv

\* The first thing on its way is delivered.
LEMMA DeliveredKeeps ==
  ASSUME StreamInv, NEW c \in Clients, cpc[c] = "streaming", Pipe(c) # <<>>,
         Consume(c, Pipe(c)[1]), Pipe(c)' = Tail(Pipe(c)),
         queue' \in [Clients -> Seq(Event)], replay' \in [Clients -> Seq(Event)],
         \A d \in Clients : d # c => queue'[d] = queue[d] /\ replay'[d] = replay[d],
         UNCHANGED <<daemonVars, replayUntil, old>>
  PROVE  StreamInv'
<1> DEFINE e == Pipe(c)[1]
           p == Pipe(c)
           q == Tail(p)
<1>1. UNCHANGED <<registered, nextSeq, history, subscribers, running, exitCode, pub, replayUntil, old>>
  BY DEF daemonVars
<1>2. /\ nextSeq \in Nat /\ p \in Seq(Event) /\ seen[c] \in Seq(Nat) /\ gapTold[c] \in BOOLEAN
      /\ ClientInv(c) /\ replayUntil[c] \in Nat \cup {-1}
  BY PipeEnds DEF StreamInv, StreamType, Pipe
<1>3. /\ q \in Seq(Event) /\ Len(q) = Len(p) - 1 /\ Len(p) \in Nat /\ Len(p) > 0
      /\ \A i \in 1..(Len(p) - 1) : q[i] = p[i + 1]
      /\ e \in Event /\ (q = <<>> <=> Len(p) = 1)
      /\ Len(p) > 1 => q[Len(p) - 1] = p[Len(p)] /\ q[1] = p[2]
  BY <1>2, TailEvents
<1>4. Pipe(c)' = q /\ p # <<>> /\ 1 \in 1..Len(p)
  BY <1>3
<1>5. /\ Orderly(p) /\ Joined(seen[c], p, gapTold[c]) /\ Complete(seen[c], p, nextSeq)
      /\ p[Len(p)].kind = "exit" => Ended
      /\ c \in subscribers /\ pub # "done" => Reaches(seen[c], p, NextOffer)
      /\ NoHole(seen[c], gapTold[c])
      /\ \A i \in 1..Len(p) : p[i].kind = "data" => p[i].n < nextSeq
      /\ \A i \in 1..Len(seen[c]) : seen[c][i] < nextSeq
      /\ \A n \in answered[c] : n < nextSeq /\ replayUntil[c] <= n
      /\ \A n \in old[c] : n < replayUntil[c]
  BY <1>2, <1>4 DEF ClientInv
<1>6. NextOffer' = NextOffer /\ NextOffer \in Nat /\ (Ended <=> Ended')
  BY <1>1, <1>2 DEF NextOffer, Ended, StreamInv, ReaderInv
<1>7. /\ \A i \in 1..Len(q) : q[i].kind = "data" => q[i].n < nextSeq
      /\ q # <<>> /\ q[Len(q)].kind = "exit" => Ended
  <2>1. \A i \in 1..Len(q) : i + 1 \in 1..Len(p) /\ q[i] = p[i + 1]
    BY <1>3
  <2> QED
    BY <1>3, <1>5, <2>1
<1> HIDE DEF p, q, e
<1>8. ReaderInv'
  BY <1>1 DEF StreamInv, ReaderInv, Kept
<1>9. Consume(c, e)
  BY DEF e, p
<1>10. CASE e.kind = "data"
  <2> DEFINE live == replayUntil[c] = -1 \/ e.n >= replayUntil[c]
  <2>1. /\ seen' = [seen EXCEPT ![c] = Append(@, e.n)]
        /\ answered' = [answered EXCEPT ![c] = IF live THEN @ \cup {e.n} ELSE @]
        /\ UNCHANGED <<cpc, gapTold, clientExit>>
    BY <1>9, <1>10 DEF Consume
  <2>2. e.n \in Nat /\ e.n < nextSeq
    <3>1. e.n < nextSeq
      BY <1>4, <1>5, <1>10 DEF e, p
    <3> QED
      BY <1>3, <1>10, <3>1 DEF Event
  <2>3. StreamType'
    <3>1. seen' \in [Clients -> Seq(Nat)]
      BY <1>2, <2>1, <2>2 DEF StreamInv, StreamType
    <3>2. answered' \in [Clients -> SUBSET Nat]
      BY <2>1, <2>2 DEF StreamInv, StreamType
    <3> QED
      BY <1>1, <2>1, <3>1, <3>2 DEF StreamInv, StreamType
  <2>4. /\ seen'[c] = Append(seen[c], e.n)
        /\ answered'[c] = IF live THEN answered[c] \cup {e.n} ELSE answered[c]
    BY <2>1 DEF StreamInv, StreamType
  <2>5. \A n \in answered'[c] : n < nextSeq /\ replayUntil[c] <= n
    BY <1>2, <1>5, <2>2, <2>4
  <2>6. /\ Orderly(q) /\ Joined(seen'[c], q, gapTold[c]) /\ NoHole(seen'[c], gapTold[c])
        /\ Complete(seen'[c], q, nextSeq)
        /\ c \in subscribers /\ pub # "done" => Reaches(seen'[c], q, NextOffer)
    BY <1>2, <1>4, <1>5, <1>6, <1>10, <2>4, ChunkFed DEF e, p, q
  <2>7. \A i \in 1..Len(seen'[c]) : seen'[c][i] < nextSeq
    <3> DEFINE t == Append(seen[c], e.n)
    <3>1. /\ Len(t) = Len(seen[c]) + 1 /\ t[Len(t)] = e.n /\ Len(seen[c]) \in Nat
          /\ \A i \in 1..Len(seen[c]) : t[i] = seen[c][i]
      BY <1>2, <2>2
    <3> HIDE DEF t
    <3>2. \A i \in 1..Len(t) : i = Len(t) \/ i \in 1..Len(seen[c])
      BY <3>1
    <3>3. \A i \in 1..Len(t) : t[i] < nextSeq
      BY <1>5, <2>2, <3>1, <3>2
    <3> QED
      BY <2>4, <3>3 DEF t
  <2>8. ClientInv(c)'
    <3>1. cpc'[c] = "streaming" /\ gapTold'[c] = gapTold[c]
      BY <2>1
    <3> QED
      BY <1>1, <1>4, <1>5, <1>6, <1>7, <2>5, <2>6, <2>7, <3>1
      DEF ClientInv, NoHole, Joined, Complete, Reaches, Orderly
  <2>9. ASSUME NEW d \in Clients, d # c PROVE ClientInv(d)'
    BY <1>1, <1>6, <2>1, <2>9, ClientLeftAlone
  <2> QED
    BY <1>8, <2>3, <2>8, <2>9 DEF StreamInv
<1>11. CASE e.kind = "gap"
  <2>1. gapTold' = [gapTold EXCEPT ![c] = TRUE] /\ UNCHANGED <<cpc, seen, clientExit, answered>>
    BY <1>9, <1>11 DEF Consume
  <2>2. gapTold'[c] = TRUE /\ gapTold'[c] \in BOOLEAN
    BY <2>1 DEF StreamInv, StreamType
  <2>3. StreamType'
    BY <1>1, <2>1 DEF StreamInv, StreamType
  <2>4. /\ seen[c] = <<>> /\ Orderly(q) /\ Joined(seen[c], q, gapTold'[c]) /\ Complete(seen[c], q, nextSeq)
        /\ c \in subscribers /\ pub # "done" => Reaches(seen[c], q, NextOffer)
    <3>1. e = p[1] /\ q = Tail(p)
      BY DEF e, p, q
    <3>2. p \in Seq(Event) /\ seen[c] \in Seq(Nat) /\ gapTold[c] \in BOOLEAN /\ nextSeq \in Nat
      BY <1>2
    <3>3. /\ seen[c] = <<>> /\ Orderly(q) /\ Joined(seen[c], q, gapTold'[c])
          /\ \A k \in Nat : Reaches(seen[c], p, k) => Reaches(seen[c], q, k)
          /\ \A k \in Nat : Complete(seen[c], p, k) => Complete(seen[c], q, k)
      BY <1>4, <1>5, <1>11, <2>2, <3>1, <3>2, GapTold
    <3> QED
      BY <1>5, <1>6, <3>2, <3>3
  <2>5. ClientInv(c)'
    BY <1>1, <1>4, <1>5, <1>6, <1>7, <2>1, <2>2, <2>4
    DEF ClientInv, NoHole, Joined, Complete, Reaches, Orderly
  <2>6. ASSUME NEW d \in Clients, d # c PROVE ClientInv(d)'
    <3>1. gapTold'[d] = gapTold[d]
      BY <2>1, <2>6 DEF StreamInv, StreamType
    <3> QED
      BY <1>1, <1>6, <2>1, <2>6, <3>1, ClientLeftAlone
  <2> QED
    BY <1>8, <2>3, <2>5, <2>6 DEF StreamInv
<1>12. CASE e.kind = "exit"
  <2>1. /\ clientExit' = [clientExit EXCEPT ![c] = e.code] /\ cpc' = [cpc EXCEPT ![c] = "exit"]
        /\ UNCHANGED <<seen, gapTold, answered>>
    BY <1>9, <1>12 DEF Consume
  <2>2. Len(p) = 1 /\ p[Len(p)] = e
    BY <1>3, <1>4, <1>5, <1>12 DEF Orderly, e, p
  <2>3. /\ e.code = Code /\ Ended
        /\ seen[c] # <<>> => nextSeq <= seen[c][Len(seen[c])] + 1
        /\ seen[c] = <<>> => nextSeq = 0
    BY <1>4, <1>5, <1>12, <2>2 DEF Complete
  <2>4. seen[c] # <<>> => seen[c][Len(seen[c])] = nextSeq - 1
    <3>1. seen[c] # <<>> => Len(seen[c]) \in 1..Len(seen[c]) /\ seen[c][Len(seen[c])] \in Nat
      BY <1>2
    <3>2. ASSUME seen[c] # <<>> PROVE seen[c][Len(seen[c])] < nextSeq
      BY <1>5, <3>1, <3>2
    <3> QED
      BY <1>2, <2>3, <3>1, <3>2
  <2>5. cpc'[c] = "exit" /\ clientExit'[c] = Code
    BY <2>1, <2>3 DEF StreamInv, StreamType
  <2>6. StreamType'
    BY <1>1, <2>1 DEF StreamInv, StreamType
  <2>7. ClientInv(c)'
    BY <1>1, <1>2, <1>4, <1>5, <1>6, <1>7, <2>1, <2>3, <2>4, <2>5 DEF ClientInv, NoHole
  <2>8. ASSUME NEW d \in Clients, d # c PROVE ClientInv(d)'
    <3>1. cpc'[d] = cpc[d] /\ clientExit'[d] = clientExit[d]
      BY <2>1, <2>8 DEF StreamInv, StreamType
    <3> QED
      BY <1>1, <1>6, <2>1, <2>8, <3>1, ClientLeftAlone
  <2> QED
    BY <1>8, <2>6, <2>7, <2>8 DEF StreamInv
<1> QED
  BY <1>3, <1>10, <1>11, <1>12 DEF Event

\* The handler writes the first thing on its way to the client.
LEMMA HandlerDelivers ==
  ASSUME StreamInv, NEW c \in Clients, DeliverReplay(c) \/ DeliverLive(c)
  PROVE  /\ cpc[c] = "streaming" /\ Pipe(c) # <<>>
         /\ Consume(c, Pipe(c)[1]) /\ Pipe(c)' = Tail(Pipe(c))
         /\ queue' \in [Clients -> Seq(Event)] /\ replay' \in [Clients -> Seq(Event)]
         /\ \A d \in Clients : d # c => queue'[d] = queue[d] /\ replay'[d] = replay[d]
         /\ UNCHANGED <<daemonVars, replayUntil, old, window>>
<1>1. queue \in [Clients -> Seq(Event)] /\ replay \in [Clients -> Seq(Event)]
  BY DEF StreamInv, StreamType
<1>2. CASE DeliverReplay(c)
  <2>1. /\ cpc[c] = "streaming" /\ replay[c] # <<>> /\ Consume(c, Head(replay[c]))
        /\ replay' = [replay EXCEPT ![c] = Tail(replay[c])]
        /\ queue' = queue /\ UNCHANGED <<daemonVars, replayUntil, old, window>>
    BY <1>2 DEF DeliverReplay
  <2>2. Pipe(c) # <<>> /\ Pipe(c)[1] = Head(replay[c]) /\ Tail(Pipe(c)) = Tail(replay[c]) \o queue[c]
    BY <1>1, <2>1, PipeEnds DEF Pipe
  <2>3. Tail(replay[c]) \in Seq(Event)
    BY <1>1, <2>1
  <2>4. /\ replay' \in [Clients -> Seq(Event)] /\ replay'[c] = Tail(replay[c])
        /\ \A d \in Clients : d # c => queue'[d] = queue[d] /\ replay'[d] = replay[d]
    BY <1>1, <2>1, <2>3
  <2>5. Pipe(c)' = Tail(Pipe(c))
    BY <2>1, <2>2, <2>4 DEF Pipe
  <2> QED
    BY <1>1, <2>1, <2>2, <2>4, <2>5
<1>3. CASE DeliverLive(c)
  <2>1. /\ cpc[c] = "streaming" /\ replay[c] = <<>> /\ queue[c] # <<>> /\ Consume(c, Head(queue[c]))
        /\ queue' = [queue EXCEPT ![c] = Tail(queue[c])]
        /\ replay' = replay /\ UNCHANGED <<daemonVars, replayUntil, old, window>>
    BY <1>3 DEF DeliverLive
  <2>2. Tail(queue[c]) \in Seq(Event) /\ Head(queue[c]) = queue[c][1]
    BY <1>1, <2>1
  <2>3. /\ queue' \in [Clients -> Seq(Event)] /\ queue'[c] = Tail(queue[c])
        /\ \A d \in Clients : d # c => queue'[d] = queue[d] /\ replay'[d] = replay[d]
    BY <1>1, <2>1, <2>2
  <2>4. Pipe(c) = queue[c]
    BY <1>1, <2>1, PipeEnds DEF Pipe
  <2>5. Pipe(c)' = Tail(Pipe(c))
    <3>1. replay[c] \o Tail(queue[c]) = Tail(queue[c])
      BY <1>1, <2>1, <2>2, PipeEnds
    <3> QED
      BY <2>1, <2>3, <2>4, <3>1 DEF Pipe
  <2>6. Pipe(c) # <<>> /\ Consume(c, Pipe(c)[1])
    BY <2>1, <2>2, <2>4
  <2> QED
    BY <1>1, <2>1, <2>3, <2>5, <2>6
<1> QED
  BY <1>2, <1>3

\* It keeps the invariant.
LEMMA HandlerKeeps ==
  ASSUME StreamInv, NEW c \in Clients, DeliverReplay(c) \/ DeliverLive(c)
  PROVE  StreamInv'
BY HandlerDelivers, DeliveredKeeps

\* A client comes, goes, finds the session killed or its stream cut off.
LEMMA ComingAndGoingKeeps ==
  ASSUME StreamInv, NEW c \in Clients,
         Create(c) \/ Attach(c) \/ SubscribeUnknown(c) \/ CutOff(c) \/ Disconnect(c)
  PROVE  StreamInv'
<1>1. /\ UNCHANGED <<nextSeq, history, subscribers, exitCode, queue, replay, seen, gapTold,
                     clientExit, answered>>
      /\ cpc' \in [Clients -> {"off", "attached", "streaming", "exit", "cut", "error", "gone"}]
      /\ \A d \in Clients : d # c => cpc'[d] = cpc[d]
      /\ cpc'[c] \in {"attached", "cut", "error", "gone"}
      /\ cpc'[c] = "attached" => cpc[c] = "off"
  BY DEF Create, Attach, SubscribeUnknown, CutOff, Disconnect, daemonVars, ghostVars, StreamInv, StreamType
<1>2. \/ UNCHANGED <<replayUntil, old>>
      \/ /\ cpc'[c] = "attached" /\ replayUntil' = [replayUntil EXCEPT ![c] = nextSeq]
         /\ old' = [old EXCEPT ![c] = AllAnswered]
  <2>1. CASE Attach(c)
    <3>1. cpc' = [cpc EXCEPT ![c] = "attached"]
      BY <2>1 DEF Attach
    <3>2. cpc'[c] = "attached"
      BY <3>1 DEF StreamInv, StreamType
    <3> QED
      BY <2>1, <3>2 DEF Attach
  <2>2. CASE Create(c) \/ SubscribeUnknown(c) \/ CutOff(c) \/ Disconnect(c)
    BY <2>2 DEF Create, SubscribeUnknown, CutOff, Disconnect, ghostVars
  <2> QED
    BY <2>1, <2>2
<1>3. \/ UNCHANGED <<registered, running, pub>>
      \/ registered' = TRUE /\ running' = TRUE /\ pub = "none" /\ pub' = "read"
  BY DEF Create, Attach, SubscribeUnknown, CutOff, Disconnect, daemonVars
<1>4. /\ nextSeq \in Nat /\ Pipe(c)' = Pipe(c) /\ ClientInv(c)
      /\ AllAnswered \subseteq Nat /\ \A n \in AllAnswered : n < nextSeq
  <2>1. nextSeq \in Nat /\ Pipe(c)' = Pipe(c) /\ ClientInv(c)
    BY <1>1 DEF StreamInv, StreamType, Pipe
  <2>2. ASSUME NEW n \in AllAnswered PROVE n \in Nat /\ n < nextSeq
    <3>1. PICK d \in Clients : n \in answered[d]
      BY <2>2 DEF AllAnswered
    <3> QED
      BY <3>1 DEF StreamInv, StreamType, ClientInv
  <2> QED
    BY <2>1, <2>2
<1>5. StreamType'
  <2>1. replayUntil' \in [Clients -> Nat \cup {-1}] /\ old' \in [Clients -> SUBSET Nat]
    BY <1>2, <1>4 DEF StreamInv, StreamType
  <2>2. running' \in BOOLEAN /\ pub' \in {"none", "read", "numbered", "retained", "coded", "stopped", "done"}
    BY <1>3 DEF StreamInv, StreamType
  <2> QED
    BY <1>1, <2>1, <2>2 DEF StreamInv, StreamType
<1>6. ReaderInv' /\ NextOffer' = NextOffer /\ (Ended => Ended') /\ (pub = "done" => pub' = "done")
  <2>1. CASE UNCHANGED <<registered, running, pub>>
    BY <1>1, <2>1 DEF StreamInv, ReaderInv, Kept, NextOffer, Ended
  <2>2. CASE registered' = TRUE /\ running' = TRUE /\ pub = "none" /\ pub' = "read"
    BY <1>1, <2>2 DEF StreamInv, ReaderInv, Kept, NextOffer, Ended
  <2> QED
    BY <1>3, <2>1, <2>2
<1>7. ClientInv(c)'
  <2>1. CASE UNCHANGED <<replayUntil, old>>
    BY <1>1, <1>4, <2>1 DEF ClientInv, NoHole
  <2>2. CASE /\ cpc'[c] = "attached" /\ replayUntil' = [replayUntil EXCEPT ![c] = nextSeq]
             /\ old' = [old EXCEPT ![c] = AllAnswered]
    <3>1. replayUntil'[c] = nextSeq /\ old'[c] = AllAnswered /\ answered[c] = {}
      BY <1>1, <1>4, <2>2 DEF StreamInv, StreamType, ClientInv
    <3> QED
      BY <1>1, <1>4, <2>2, <3>1 DEF ClientInv, NoHole
  <2> QED
    BY <1>2, <2>1, <2>2
<1>8. ASSUME NEW d \in Clients, d # c PROVE ClientInv(d)'
  <2>1. replayUntil'[d] = replayUntil[d] /\ old'[d] = old[d]
    BY <1>2, <1>8 DEF StreamInv, StreamType
  <2> QED
    BY <1>1, <1>6, <1>8, <2>1, ClientLeftAlone
<1> QED
  BY <1>5, <1>6, <1>7, <1>8 DEF StreamInv

\* What is replayed: all that is kept, or a gap notice and the rest.
LEMMA ReplayIsOrderly ==
  ASSUME StreamInv, NEW told \in BOOLEAN
  PROVE  LET base == GapNotice \o Retained IN
         /\ base \in Seq(Event) /\ Orderly(base) /\ Joined(<<>>, base, told)
         /\ Reaches(<<>>, base, NextOffer)
         /\ \A i \in 1..Len(base) : base[i].kind = "data" => base[i].n < nextSeq
         /\ \A i \in 1..Len(base) : base[i].kind = "data" => base[i].n < Kept
         /\ \A i, j \in 1..Len(base) :
               i < j /\ base[i].kind = "data" /\ base[j].kind = "data" => base[i].n < base[j].n
<1> DEFINE h == history
           d == Retained
           base == GapNotice \o Retained
<1>1. /\ nextSeq \in Nat /\ h \in Seq(Nat) /\ Len(h) \in Nat /\ Kept \in Nat /\ Kept <= nextSeq
      /\ NextOffer <= Kept /\ NextOffer \in Nat /\ Len(h) <= Kept /\ (h = <<>> <=> Len(h) = 0)
      /\ Kept > 0 => h # <<>>
  BY DEF StreamInv, StreamType, ReaderInv, Kept, NextOffer
<1>2. \A i \in 1..Len(h) : h[i] = Kept - Len(h) + (i - 1) /\ h[i] \in Nat /\ Data(h[i]) \in Event
  <2>1. \A i \in 1..Len(h) : h[i] = Kept - Len(h) + (i - 1) /\ h[i] \in Nat
    BY <1>1 DEF StreamInv, ReaderInv
  <2> QED
    BY <2>1 DEF Data, Event
<1>3. /\ d \in Seq(Event) /\ Len(d) = Len(h)
      /\ \A i \in 1..Len(h) : d[i] = Data(h[i])
  <2>1. d = [i \in 1..Len(h) |-> Data(h[i])]
    BY <1>1 DEF Retained
  <2> HIDE DEF d, h
  <2> QED
    BY <1>1, <1>2, <2>1
<1>4. \A i \in 1..Len(h) : d[i].kind = "data" /\ d[i].n = Kept - Len(h) + (i - 1)
  <2> HIDE DEF d, h
  <2>1. ASSUME NEW i \in 1..Len(h)
        PROVE  d[i].kind = "data" /\ d[i].n = Kept - Len(h) + (i - 1)
    <3>1. d[i] = Data(h[i]) /\ h[i] = Kept - Len(h) + (i - 1)
      BY <1>2, <1>3
    <3>2. \A k : Data(k).kind = "data" /\ Data(k).n = k
      BY DEF Data
    <3> QED
      BY <3>1, <3>2
  <2> QED
    BY <2>1
<1>5. CASE h # <<>> /\ Head(h) > 0
  <2> DEFINE g == Gap(Head(h))
  <2>1. g \in Event /\ g.kind = "gap"
    <3>1. Head(h) \in Nat
      BY <1>1, <1>5
    <3> QED
      BY <3>1 DEF Gap, Event
  <2>2. base = <<g>> \o d
    BY <1>5 DEF GapNotice
  <2> HIDE DEF g, d, h
  <2>3. /\ base \in Seq(Event) /\ Len(base) = Len(h) + 1 /\ base[1] = g /\ base # <<>>
        /\ \A i \in 2..(Len(h) + 1) : base[i] = d[i - 1]
    BY <1>1, <1>3, <2>1, <2>2
  <2> HIDE DEF base
  <2>4. \A i \in 2..Len(base) : /\ base[i].kind = "data" /\ base[i].n = Kept - Len(h) + (i - 2)
    <3>1. ASSUME NEW i \in 2..Len(base)
          PROVE  i - 1 \in 1..Len(h) /\ base[i] = d[i - 1] /\ (i - 1) - 1 = i - 2
      BY <1>1, <2>3
    <3> QED
      BY <1>4, <3>1
  <2>5. Len(base) > 1 /\ 2 \in 2..Len(base) /\ Len(base) \in 2..Len(base)
    BY <1>1, <1>5, <2>3
  <2>6. \A i \in 1..Len(base) : i = 1 \/ i \in 2..Len(base)
    BY <1>1, <2>3
  <2>7. Orderly(base)
    <3>1. ASSUME NEW i \in 1..Len(base), base[i].kind = "gap"
          PROVE  i = 1 /\ Len(base) > 1 /\ base[2].kind = "data"
      BY <2>4, <2>5, <2>6, <3>1
    <3>2. ASSUME NEW i \in 1..Len(base) PROVE base[i].kind # "exit"
      BY <2>1, <2>3, <2>4, <2>6
    <3>3. ASSUME NEW i \in 1..(Len(base) - 1), base[i].kind = "data"
          PROVE  base[i + 1].n <= base[i].n + 1
      <4>1. i \in 2..Len(base) /\ i + 1 \in 2..Len(base)
        BY <1>1, <2>1, <2>3, <2>6, <3>3
      <4> QED
        BY <1>1, <2>4, <4>1
    <3> QED
      BY <3>1, <3>2, <3>3 DEF Orderly
  <2>8. Joined(<<>>, base, told)
    BY <2>1, <2>3 DEF Joined
  <2>9. Reaches(<<>>, base, NextOffer)
    <3>1. base[Len(base)].kind = "data" /\ base[Len(base)].n = Kept - 1
      BY <1>1, <2>3, <2>4, <2>5
    <3> QED
      BY <1>1, <2>3, <3>1 DEF Reaches
  <2>10. /\ \A i \in 1..Len(base) : base[i].kind = "data" => base[i].n < nextSeq
         /\ \A i \in 1..Len(base) : base[i].kind = "data" => base[i].n < Kept
    BY <1>1, <2>1, <2>3, <2>4, <2>6
  <2>11. \A i, j \in 1..Len(base) :
            i < j /\ base[i].kind = "data" /\ base[j].kind = "data" => base[i].n < base[j].n
    BY <1>1, <2>1, <2>3, <2>4, <2>6
  <2> QED
    BY <2>3, <2>7, <2>8, <2>9, <2>10, <2>11 DEF base
<1>6. CASE ~(h # <<>> /\ Head(h) > 0)
  <2>1. base = d
    <3>1. GapNotice = <<>> /\ <<>> \in Seq(Event)
      BY <1>6 DEF GapNotice
    <3> HIDE DEF d
    <3> QED
      BY <1>3, <3>1, PipeEnds DEF d
  <2> HIDE DEF d, h
  <2>2. Orderly(d)
    <3>1. \A i \in 1..Len(d) : d[i].kind # "gap" /\ d[i].kind # "exit"
      BY <1>3, <1>4
    <3>2. ASSUME NEW i \in 1..(Len(d) - 1) PROVE d[i + 1].n <= d[i].n + 1
      <4>1. i \in 1..Len(h) /\ i + 1 \in 1..Len(h)
        BY <1>1, <1>3
      <4> QED
        BY <1>1, <1>4, <4>1
    <3> QED
      BY <3>1, <3>2 DEF Orderly
  <2>3. d = <<>> <=> h = <<>>
    BY <1>1, <1>3
  <2>4. Joined(<<>>, d, told)
    <3>1. h # <<>> => h[1] = Head(h) /\ 1 \in 1..Len(h) /\ h[1] \in Nat /\ h[1] = Kept - Len(h)
      BY <1>1, <1>2
    <3>2. h # <<>> => d[1].n = 0
      BY <1>4, <1>6, <3>1
    <3> QED
      BY <2>3, <3>2 DEF Joined
  <2>5. Reaches(<<>>, d, NextOffer)
    <3>1. h # <<>> => Len(h) \in 1..Len(h)
      BY <1>1
    <3>2. h # <<>> => d[Len(d)].kind = "data" /\ d[Len(d)].n = Kept - 1
      BY <1>1, <1>3, <1>4, <3>1
    <3> QED
      BY <1>1, <2>3, <3>2 DEF Reaches
  <2>6. /\ \A i \in 1..Len(d) : d[i].kind = "data" => d[i].n < nextSeq
        /\ \A i \in 1..Len(d) : d[i].kind = "data" => d[i].n < Kept
        /\ \A i, j \in 1..Len(d) : i < j => d[i].n < d[j].n
    BY <1>1, <1>3, <1>4
  <2> QED
    BY <1>3, <2>1, <2>2, <2>4, <2>5, <2>6
<1> QED
  BY <1>5, <1>6

\* A client subscribes.
LEMMA SubscribeKeeps ==
  ASSUME StreamInv, NEW c \in Clients, Subscribe(c)
  PROVE  StreamInv'
<1> DEFINE base == GapNotice \o Retained
           all == IF running THEN base ELSE Append(base, Exit(Code))
<1>1. /\ cpc[c] = "attached" /\ registered
      /\ replay' = [replay EXCEPT ![c] = base \o (IF running THEN <<>> ELSE <<Exit(exitCode)>>)]
      /\ subscribers' = IF running THEN subscribers \cup {c} ELSE subscribers
      /\ cpc' = [cpc EXCEPT ![c] = "streaming"]
      /\ UNCHANGED <<registered, nextSeq, history, running, exitCode, pub, queue,
                     replayUntil, replies, seen, gapTold, clientExit, answered, old>>
  BY DEF Subscribe
<1>2. /\ nextSeq \in Nat /\ gapTold[c] \in BOOLEAN /\ NextOffer' = NextOffer /\ (Ended <=> Ended')
      /\ queue[c] = <<>> /\ seen[c] = <<>> /\ <<>> \in Seq(Event) /\ <<>> \in Seq(Nat)
      /\ c \notin subscribers
  BY <1>1 DEF StreamInv, StreamType, ClientInv, NextOffer, Ended
<1>3. /\ base \in Seq(Event) /\ Orderly(base) /\ Joined(<<>>, base, gapTold[c])
      /\ Reaches(<<>>, base, NextOffer)
      /\ \A i \in 1..Len(base) : base[i].kind = "data" => base[i].n < nextSeq
  BY <1>2, ReplayIsOrderly
<1>4. ~running => Ended /\ exitCode = Code /\ NextOffer = nextSeq
  BY <1>1 DEF StreamInv, StreamType, ReaderInv, Ended, NextOffer
<1>5. running => ~Ended
  BY DEF StreamInv, ReaderInv, Ended
<1> HIDE DEF base
<1>6. /\ all \in Seq(Event) /\ Orderly(all) /\ Joined(<<>>, all, gapTold[c])
      /\ Complete(<<>>, all, nextSeq)
      /\ running => Reaches(<<>>, all, NextOffer)
      /\ all # <<>> /\ all[Len(all)].kind = "exit" => Ended
      /\ \A i \in 1..Len(all) : all[i].kind = "data" => all[i].n < nextSeq
  <2>1. CASE running
    <3>1. base # <<>> => base[Len(base)].kind = "data"
      BY <1>3 DEF Reaches
    <3> QED
      BY <1>3, <2>1, <3>1 DEF Complete
  <2>2. CASE ~running
    <3> DEFINE q == Append(base, Exit(Code))
    <3>1. q \in Seq(Event) /\ Orderly(q) /\ Joined(<<>>, q, gapTold[c]) /\ Complete(<<>>, q, nextSeq)
      BY <1>2, <1>3, <1>4, <2>2, ThenTheExit
    <3>2. \A i \in 1..Len(q) : q[i].kind = "data" => q[i].n < nextSeq
      <4>1. Exit(Code).kind = "exit"
        BY DEF Exit
      <4>2. \A i \in 1..Len(q) : q[i] = Exit(Code) \/ (i \in 1..Len(base) /\ q[i] = base[i])
        BY <1>3
      <4> QED
        BY <1>3, <4>1, <4>2
    <3> HIDE DEF q
    <3>3. all = q
      BY <2>2 DEF q
    <3> QED
      BY <1>4, <2>2, <3>1, <3>2, <3>3
  <2> QED
    BY <2>1, <2>2
<1>7. base \o (IF running THEN <<>> ELSE <<Exit(exitCode)>>) = all
  <2>1. CASE running
    BY <1>2, <1>3, <2>1, PipeEnds
  <2>2. CASE ~running
    BY <1>3, <1>4, <2>2
  <2> QED
    BY <2>1, <2>2
<1> HIDE DEF all
<1>8. replay' = [replay EXCEPT ![c] = all]
  BY <1>1, <1>7
<1>9. StreamType'
  <2>1. replay' \in [Clients -> Seq(Event)]
    BY <1>6, <1>8 DEF StreamInv, StreamType
  <2> QED
    BY <1>1, <2>1 DEF StreamInv, StreamType
<1>10. ReaderInv'
  BY <1>1 DEF StreamInv, ReaderInv, Kept
<1>11. ClientInv(c)'
  <2>1. replay'[c] = all /\ cpc'[c] = "streaming"
    BY <1>1, <1>8 DEF StreamInv, StreamType
  <2>2. Pipe(c)' = all
    BY <1>1, <1>2, <1>6, <2>1, PipeEnds DEF Pipe
  <2>3. running' = running /\ (c \in subscribers' => running)
    BY <1>1, <1>2
  <2>4. ClientInv(c)
    BY DEF StreamInv
  <2> QED
    BY <1>1, <1>2, <1>6, <2>1, <2>2, <2>3, <2>4
    DEF ClientInv, NoHole, Joined, Complete, Reaches, Orderly
<1>12. ASSUME NEW d \in Clients, d # c PROVE ClientInv(d)'
  <2>1. cpc'[d] = cpc[d] /\ replay'[d] = replay[d] /\ (d \in subscribers' => d \in subscribers)
    BY <1>1, <1>8, <1>12 DEF StreamInv, StreamType
  <2> QED
    BY <1>1, <1>2, <1>12, <2>1, ClientLeftAlone
<1> QED
  BY <1>9, <1>10, <1>11, <1>12 DEF StreamInv

-----------------------------------------------------------------------------
\* Every step keeps what the clients are fed in order.
LEMMA StreamInductive == StreamInv /\ [Next]_vars => StreamInv'
<1> SUFFICES ASSUME StreamInv, [Next]_vars PROVE StreamInv'
  OBVIOUS
<1>1. CASE ReaderThread
  BY <1>1, QuietReaderKeeps, OfferKeeps, OfferExitKeeps DEF ReaderThread
<1>2. CASE \E c \in Clients : Client(c) \/ Handler(c)
  BY <1>2, ComingAndGoingKeeps, SubscribeKeeps, HandlerKeeps DEF Client, Handler
<1>3. CASE Kill \/ UNCHANGED vars
  <2>1. /\ UNCHANGED <<nextSeq, history, subscribers, running, exitCode, pub, queue, replay,
                       cpc, replayUntil, seen, gapTold, clientExit, answered, old>>
        /\ registered' => registered
    BY <1>3 DEF Kill, vars, daemonVars, clientVars, ghostVars
  <2>2. StreamType' /\ ReaderInv' /\ NextOffer' = NextOffer /\ (Ended <=> Ended')
    BY <2>1 DEF StreamInv, StreamType, ReaderInv, Kept, NextOffer, Ended
  <2>3. ASSUME NEW c \in Clients PROVE ClientInv(c)'
    BY <2>1, <2>2, ClientLeftAlone
  <2> QED
    BY <2>2, <2>3 DEF StreamInv
<1> QED
  BY <1>1, <1>2, <1>3 DEF Next, Terminated

\* The invariant holds throughout.
LEMMA StreamInvariant == Spec => []StreamInv
  BY InitStream, StreamInductive, PTL DEF Spec

\* However slow a client is and however short the history: it is cut off, or
\* told of a gap, and never fed an output with a hole in it.
THEOREM NobodyMissesAChunk == Spec => []NoSilentHole
<1>1. StreamInv => NoSilentHole
  BY DEF StreamInv, ClientInv, NoHole, NoSilentHole
<1> QED
  BY <1>1, StreamInvariant, PTL

\* A client that reads the exit has read all output before it, and the code is
\* the child's.
THEOREM ExitComesLast == Spec => []ExitIsCompleteAndTrue
<1>1. StreamInv => ExitIsCompleteAndTrue
  <2>1. ASSUME StreamInv, NEW c \in Clients, cpc[c] = "exit"
        PROVE  /\ clientExit[c] = Code
               /\ nextSeq > 0 => seen[c] # <<>> /\ Last(seen[c]) = nextSeq - 1
    BY <2>1 DEF StreamInv, ClientInv, Last
  <2> QED
    BY <2>1 DEF ExitIsCompleteAndTrue
<1> QED
  BY <1>1, StreamInvariant, PTL

\* What somebody answered before a client attached has a number below the one
\* the client was given, and the client answers nothing below it.
THEOREM QueriesAreAnsweredOnce == Spec => []HistoryIsNotAnsweredAgain
<1>1. StreamInv => HistoryIsNotAnsweredAgain
  <2>1. ASSUME StreamInv, NEW c \in Clients, NEW n \in answered[c], n \in old[c] PROVE FALSE
    <3>1. n \in Nat /\ replayUntil[c] \in Nat \cup {-1} /\ replayUntil[c] <= n /\ n < replayUntil[c]
      BY <2>1 DEF StreamInv, StreamType, ClientInv
    <3> QED
      BY <3>1
  <2> QED
    BY <2>1 DEF HistoryIsNotAnsweredAgain
<1> QED
  BY <1>1, StreamInvariant, PTL

-----------------------------------------------------------------------------
(* What is repeated                                                        *)

Steady(c) ==
    /\ Rising(seen[c], Pipe(c), window[c])
    /\ c \in subscribers => Below(seen[c], Pipe(c), NextOffer, window[c])

\* What is offered next comes after all that a subscriber has.
LEMMA RiseOffered ==
  ASSUME NEW s \in Seq(Nat), NEW p \in Seq(Event), NEW w, NEW k \in Nat,
         Rising(s, p, w), Below(s, p, k, w)
  PROVE  LET q == Append(p, Data(k)) IN Rising(s, q, w) /\ Below(s, q, k + 1, w)
<1> DEFINE e == Data(k)
           q == Append(p, e)
<1>1. e \in Event /\ e.kind = "data" /\ e.n = k
  BY DEF Data, Event
<1> HIDE DEF e
<1>2. /\ Len(q) = Len(p) + 1 /\ q[Len(q)] = e /\ Len(p) \in Nat
      /\ \A i \in 1..Len(p) : q[i] = p[i] /\ p[i] \in Event
  BY <1>1
<1> HIDE DEF q
<1>3. \A i \in 1..Len(q) : i = Len(q) \/ i \in 1..Len(p)
  BY <1>2
<1>4. /\ \A i \in 1..Len(s) : s[i] \in Nat
      /\ \A i \in 1..Len(p) : p[i].kind = "data" => p[i].n \in Nat
  BY <1>2 DEF Event
<1>5. ASSUME NEW i \in 1..Len(q), NEW j \in 1..Len(q), i < j,
             q[i].kind = "data", q[j].kind = "data"
      PROVE  Before(q[i].n, q[j].n, w)
  <2>1. i \in 1..Len(p)
    BY <1>2, <1>3, <1>5
  <2> QED
    BY <1>1, <1>2, <1>3, <1>5, <2>1 DEF Rising, Below
<1>6. Rising(s, q, w)
  BY <1>1, <1>2, <1>3, <1>5 DEF Rising, Below
<1>7. Below(s, q, k + 1, w)
  <2>1. \A n \in Nat : n <= k => Before(n, k + 1, w)
    BY DEF Before
  <2>2. \A i \in 1..Len(s) : Before(s[i], k + 1, w)
    BY <1>4, <2>1 DEF Below, Before
  <2>3. ASSUME NEW i \in 1..Len(q), q[i].kind = "data" PROVE Before(q[i].n, k + 1, w)
    BY <1>1, <1>2, <1>3, <1>4, <2>1, <2>3 DEF Below, Before
  <2> QED
    BY <2>2, <2>3 DEF Below
<1> QED
  BY <1>6, <1>7 DEF q, e

\* An exit changes nothing of this.
LEMMA RiseToExit ==
  ASSUME NEW s, NEW p \in Seq(Event), NEW w, NEW k, NEW e \in Event, e.kind = "exit"
  PROVE  /\ Rising(s, p, w) => Rising(s, Append(p, e), w)
         /\ Below(s, p, k, w) => Below(s, Append(p, e), k, w)
<1> DEFINE q == Append(p, e)
<1>1. /\ Len(q) = Len(p) + 1 /\ q[Len(q)] = e /\ \A i \in 1..Len(p) : q[i] = p[i]
      /\ \A i \in 1..Len(q) : i = Len(q) \/ i \in 1..Len(p)
  OBVIOUS
<1> HIDE DEF q
<1>2. \A i \in 1..Len(q) : q[i].kind = "data" => i \in 1..Len(p) /\ q[i] = p[i]
  BY <1>1
<1> QED
  BY <1>2 DEF Rising, Below, q

\* The first thing on its way is fed, or is no chunk.
LEMMA RiseDelivered ==
  ASSUME NEW s \in Seq(Nat), NEW p \in Seq(Event), p # <<>>, NEW w, NEW k, NEW t,
         t = IF p[1].kind = "data" THEN Append(s, p[1].n) ELSE s
  PROVE  /\ Rising(s, p, w) => Rising(t, Tail(p), w)
         /\ Below(s, p, k, w) => Below(t, Tail(p), k, w)
<1> DEFINE q == Tail(p)
<1>1. /\ Len(q) = Len(p) - 1 /\ Len(p) \in Nat /\ Len(p) > 0 /\ 1 \in 1..Len(p)
      /\ \A i \in 1..(Len(p) - 1) : q[i] = p[i + 1]
      /\ p[1] \in Event
  BY TailEvents
<1>2. \A i \in 1..Len(q) : i \in Nat /\ i + 1 \in 1..Len(p) /\ q[i] = p[i + 1] /\ 1 < i + 1
  BY <1>1
<1>3. \A i, j \in 1..Len(q) : i < j => i + 1 < j + 1
  OBVIOUS
<1> HIDE DEF q
<1>4. CASE p[1].kind = "data"
  <2>1. t = Append(s, p[1].n) /\ p[1].n \in Nat
    BY <1>1, <1>4 DEF Event
  <2>2. /\ Len(t) = Len(s) + 1 /\ t[Len(t)] = p[1].n /\ Len(s) \in Nat
        /\ \A i \in 1..Len(s) : t[i] = s[i]
        /\ \A i \in 1..Len(t) : i = Len(t) \/ i \in 1..Len(s)
    BY <2>1
  <2>3. ASSUME Rising(s, p, w) PROVE Rising(t, q, w)
    <3>1. ASSUME NEW i \in 1..Len(t), NEW j \in 1..Len(t), i < j PROVE Before(t[i], t[j], w)
      <4>1. i \in 1..Len(s)
        BY <2>2, <3>1
      <4> QED
        BY <1>1, <1>4, <2>2, <2>3, <3>1, <4>1 DEF Rising
    <3>2. ASSUME NEW i \in 1..Len(t), NEW j \in 1..Len(q), q[j].kind = "data"
          PROVE  Before(t[i], q[j].n, w)
      <4>1. CASE i = Len(t)
        <5>1. j + 1 \in 1..Len(p) /\ q[j] = p[j + 1] /\ 1 < j + 1
          BY <1>2
        <5>2. Before(p[1].n, p[j + 1].n, w)
          BY <1>1, <1>4, <2>3, <3>2, <5>1 DEF Rising
        <5> QED
          BY <2>2, <4>1, <5>1, <5>2
      <4>2. CASE i \in 1..Len(s)
        BY <1>2, <2>2, <2>3, <3>2, <4>2 DEF Rising
      <4> QED
        BY <2>2, <4>1, <4>2
    <3>3. ASSUME NEW i \in 1..Len(q), NEW j \in 1..Len(q), i < j,
                 q[i].kind = "data", q[j].kind = "data"
          PROVE  Before(q[i].n, q[j].n, w)
      BY <1>2, <1>3, <2>3, <3>3 DEF Rising
    <3> QED
      BY <3>1, <3>2, <3>3 DEF Rising
  <2>4. ASSUME Below(s, p, k, w) PROVE Below(t, q, k, w)
    BY <1>1, <1>2, <1>4, <2>2, <2>4 DEF Below
  <2> QED
    BY <2>3, <2>4 DEF q
<1>5. CASE p[1].kind # "data"
  <2>1. t = s
    BY <1>5
  <2>2. ASSUME Rising(s, p, w) PROVE Rising(s, q, w)
    <3>1. ASSUME NEW i \in 1..Len(q), NEW j \in 1..Len(q), i < j,
                 q[i].kind = "data", q[j].kind = "data"
          PROVE  Before(q[i].n, q[j].n, w)
      BY <1>2, <1>3, <2>2, <3>1 DEF Rising
    <3> QED
      BY <1>2, <2>2, <3>1 DEF Rising
  <2>3. ASSUME Below(s, p, k, w) PROVE Below(s, q, k, w)
    BY <1>2, <2>3 DEF Below
  <2> QED
    BY <2>1, <2>2, <2>3 DEF q
<1> QED
  BY <1>4, <1>5

\* A step that moves nothing on its way to c leaves it steady.
LEMMA SteadyLeftAlone ==
  ASSUME NEW c \in Clients, Steady(c), NextOffer' = NextOffer,
         seen'[c] = seen[c], Pipe(c)' = Pipe(c), window'[c] = window[c],
         c \in subscribers' => c \in subscribers
  PROVE  Steady(c)'
BY DEF Steady

\* The events that are broadcast.
LEMMA OfferSteady ==
  ASSUME StreamInv, NEW c \in Clients, Steady(c), Offer \/ OfferExit
  PROVE  Steady(c)'
<1>1. /\ nextSeq \in Nat /\ seen[c] \in Seq(Nat) /\ Pipe(c) \in Seq(Event)
      /\ seen' = seen /\ window' = window /\ replay' = replay
  BY PipeEnds DEF StreamInv, StreamType, Pipe, Offer, OfferExit, clientVars, ghostVars
<1>2. CASE Offer
  <2>1. /\ pub = "retained" /\ Broadcast(Data(nextSeq - 1)) /\ pub' = "read" /\ nextSeq' = nextSeq
        /\ nextSeq > 0
    BY <1>2 DEF Offer, StreamInv, ReaderInv
  <2>2. NextOffer = nextSeq - 1 /\ NextOffer' = NextOffer + 1 /\ NextOffer \in Nat
    BY <1>1, <2>1 DEF NextOffer
  <2>3. Data(nextSeq - 1) \in Event
    BY <1>1, <2>1 DEF Data, Event
  <2>4. \/ Pipe(c)' = Pipe(c) /\ c \notin subscribers'
        \/ Pipe(c)' = Append(Pipe(c), Data(NextOffer)) /\ c \in subscribers
    BY <1>1, <2>1, <2>2, <2>3, BroadcastTo
  <2>5. CASE Pipe(c)' = Pipe(c) /\ c \notin subscribers'
    BY <1>1, <2>5 DEF Steady
  <2>6. CASE Pipe(c)' = Append(Pipe(c), Data(NextOffer)) /\ c \in subscribers
    <3>1. /\ Rising(seen[c], Pipe(c)', window[c])
          /\ Below(seen[c], Pipe(c)', NextOffer + 1, window[c])
      BY <1>1, <2>2, <2>6, RiseOffered DEF Steady
    <3> QED
      BY <1>1, <2>2, <3>1 DEF Steady
  <2> QED
    BY <2>4, <2>5, <2>6
<1>3. CASE OfferExit
  <2> DEFINE e == Exit(exitCode)
  <2>1. /\ pub = "stopped" /\ Broadcast(e) /\ pub' = "done" /\ nextSeq' = nextSeq
        /\ exitCode = Code
    BY <1>3 DEF OfferExit, StreamInv, ReaderInv
  <2>2. NextOffer' = NextOffer
    BY <2>1 DEF NextOffer
  <2>3. e \in Event /\ e.kind = "exit"
    BY <2>1 DEF Exit, Event
  <2> HIDE DEF e
  <2>4. \/ Pipe(c)' = Pipe(c) /\ c \notin subscribers'
        \/ Pipe(c)' = Append(Pipe(c), e) /\ c \in subscribers
    BY <1>1, <2>1, <2>3, BroadcastTo
  <2>5. CASE Pipe(c)' = Pipe(c) /\ c \notin subscribers'
    BY <1>1, <2>5 DEF Steady
  <2>6. CASE Pipe(c)' = Append(Pipe(c), e) /\ c \in subscribers
    <3>1. /\ Rising(seen[c], Pipe(c)', window[c])
          /\ Below(seen[c], Pipe(c)', NextOffer, window[c])
      BY <1>1, <2>3, <2>6, RiseToExit DEF Steady
    <3> QED
      BY <1>1, <2>2, <3>1 DEF Steady
  <2> QED
    BY <2>4, <2>5, <2>6
<1> QED
  BY <1>2, <1>3

\* A delivery.
LEMMA DeliverySteady ==
  ASSUME StreamInv, NEW c \in Clients, \A d \in Clients : Steady(d),
         DeliverReplay(c) \/ DeliverLive(c)
  PROVE  \A d \in Clients : Steady(d)'
<1> DEFINE p == Pipe(c)
<1>1. /\ p # <<>> /\ Consume(c, p[1]) /\ Pipe(c)' = Tail(p)
      /\ \A d \in Clients : d # c => queue'[d] = queue[d] /\ replay'[d] = replay[d]
      /\ UNCHANGED <<nextSeq, subscribers, pub, window>>
  BY HandlerDelivers DEF daemonVars
<1>2. p \in Seq(Event) /\ seen[c] \in Seq(Nat) /\ NextOffer' = NextOffer
  BY <1>1, PipeEnds DEF StreamInv, StreamType, Pipe, NextOffer
<1>3. p[1] \in Event
  BY <1>1, <1>2
<1> HIDE DEF p
<1>4. /\ seen'[c] = IF p[1].kind = "data" THEN Append(seen[c], p[1].n) ELSE seen[c]
      /\ \A d \in Clients : d # c => seen'[d] = seen[d]
  <2>1. seen \in [Clients -> Seq(Nat)]
    BY DEF StreamInv, StreamType
  <2>2. CASE p[1].kind = "data"
    BY <1>1, <2>1, <2>2 DEF Consume
  <2>3. CASE p[1].kind # "data"
    <3>1. seen' = seen
      BY <1>1, <2>3 DEF Consume
    <3> QED
      BY <2>3, <3>1
  <2> QED
    BY <2>2, <2>3
<1>5. Steady(c)'
  <2>1. /\ Rising(seen[c], p, window[c])
        /\ c \in subscribers => Below(seen[c], p, NextOffer, window[c])
    BY DEF Steady, p
  <2>2. /\ Rising(seen'[c], Tail(p), window[c])
        /\ c \in subscribers => Below(seen'[c], Tail(p), NextOffer, window[c])
    BY <1>1, <1>2, <1>4, <2>1, RiseDelivered
  <2> QED
    BY <1>1, <1>2, <2>2 DEF Steady
<1>6. ASSUME NEW d \in Clients, d # c PROVE Steady(d)'
  <2>1. Pipe(d)' = Pipe(d)
    BY <1>1, <1>6 DEF Pipe
  <2> QED
    BY <1>1, <1>2, <1>4, <1>6, <2>1, SteadyLeftAlone
<1> QED
  BY <1>5, <1>6

\* A client that subscribes between Retain and Offer is replayed the chunk that
\* is offered next; at any other time all of the replay comes before it.
LEMMA SubscribeSteady ==
  ASSUME StreamInv, NEW c \in Clients, Steady(c), Subscribe(c), window \in [Clients -> Int]
  PROVE  Steady(c)'
<1> DEFINE base == GapNotice \o Retained
<1>1. /\ cpc[c] = "attached"
      /\ replay' = [replay EXCEPT ![c] = base \o (IF running THEN <<>> ELSE <<Exit(exitCode)>>)]
      /\ subscribers' = IF running THEN subscribers \cup {c} ELSE subscribers
      /\ window' = [window EXCEPT ![c] = IF pub = "retained" /\ running THEN nextSeq - 1 ELSE -1]
      /\ UNCHANGED <<nextSeq, pub, running, queue, seen>>
  BY DEF Subscribe
<1>2. /\ queue[c] = <<>> /\ seen[c] = <<>> /\ <<>> \in Seq(Event) /\ FALSE \in BOOLEAN
      /\ c \notin subscribers /\ nextSeq \in Nat /\ NextOffer' = NextOffer
      /\ window'[c] = IF pub = "retained" /\ running THEN nextSeq - 1 ELSE -1
  BY <1>1 DEF StreamInv, StreamType, ClientInv, NextOffer
<1>3. /\ base \in Seq(Event)
      /\ \A i \in 1..Len(base) : base[i].kind = "data" => base[i].n < Kept
      /\ \A i, j \in 1..Len(base) :
            i < j /\ base[i].kind = "data" /\ base[j].kind = "data" => base[i].n < base[j].n
  BY <1>2, ReplayIsOrderly
<1>4. ~running => exitCode = Code
  BY <1>1 DEF Subscribe, StreamInv, StreamType, ReaderInv
<1>5. /\ Kept \in Nat /\ NextOffer \in Nat
      /\ Kept <= NextOffer \/ (pub = "retained" /\ running /\ Kept = nextSeq /\ NextOffer = nextSeq - 1)
  BY DEF StreamInv, StreamType, ReaderInv, Kept, NextOffer
<1> HIDE DEF base
<1>6. \A i \in 1..Len(base) : base[i] \in Event /\ (base[i].kind = "data" => base[i].n \in Nat)
  BY <1>3 DEF Event
<1>7. Rising(<<>>, base, window'[c]) /\ Below(<<>>, base, NextOffer, window'[c])
  <2>1. Len(<<>>) = 0
    OBVIOUS
  <2>2. Rising(<<>>, base, window'[c])
    BY <1>3, <1>6, <2>1 DEF Rising, Before
  <2>3. ASSUME NEW i \in 1..Len(base), base[i].kind = "data"
        PROVE  Before(base[i].n, NextOffer, window'[c])
    BY <1>2, <1>3, <1>5, <1>6, <2>3 DEF Before
  <2> QED
    BY <2>1, <2>2, <2>3 DEF Below
<1>8. replay'[c] = base \o (IF running THEN <<>> ELSE <<Exit(exitCode)>>)
  BY <1>1 DEF StreamInv, StreamType
<1>9. CASE running
  <2>1. Pipe(c)' = base
    BY <1>1, <1>2, <1>3, <1>8, <1>9, PipeEnds DEF Pipe
  <2> QED
    BY <1>1, <1>2, <1>7, <2>1 DEF Steady
<1>10. CASE ~running
  <2> DEFINE e == Exit(Code)
  <2>1. e \in Event /\ e.kind = "exit"
    BY DEF Exit, Event
  <2>2. replay'[c] = base \o <<e>>
    BY <1>4, <1>8, <1>10
  <2> HIDE DEF e
  <2>3. base \o <<e>> = Append(base, e) /\ Append(base, e) \in Seq(Event)
    BY <1>3, <2>1
  <2>4. Pipe(c)' = Append(base, e)
    BY <1>1, <1>2, <2>2, <2>3, PipeEnds DEF Pipe
  <2>5. Rising(<<>>, Append(base, e), window'[c])
    BY <1>3, <1>7, <2>1, RiseToExit
  <2>6. c \notin subscribers' /\ seen'[c] = <<>>
    BY <1>1, <1>2, <1>10
  <2> QED
    BY <2>4, <2>5, <2>6 DEF Steady
<1> QED
  BY <1>9, <1>10

\* It holds of every client.
RepeatInv == window \in [Clients -> Int] /\ \A c \in Clients : Steady(c)

\* In the beginning nothing was fed.
LEMMA RepeatInit == Init => RepeatInv
<1> SUFFICES ASSUME Init PROVE RepeatInv
  OBVIOUS
<1>1. window \in [Clients -> Int]
  BY DEF Init
<1>2. ASSUME NEW c \in Clients PROVE Steady(c)
  <2>1. seen[c] = <<>> /\ queue[c] = <<>> /\ replay[c] = <<>> /\ <<>> \in Seq(Event) /\ Len(<<>>) = 0
    BY DEF Init
  <2>2. Pipe(c) = <<>>
    BY <2>1, PipeEnds DEF Pipe
  <2> QED
    BY <2>1, <2>2 DEF Steady, Rising, Below
<1> QED
  BY <1>1, <1>2 DEF RepeatInv

\* No step repeats anything but the chunk of the window.
LEMMA RepeatInductive == StreamInv /\ RepeatInv /\ [Next]_vars => RepeatInv'
<1> SUFFICES ASSUME StreamInv, RepeatInv, [Next]_vars PROVE RepeatInv'
  OBVIOUS
<1>1. nextSeq \in Nat /\ seen \in [Clients -> Seq(Nat)] /\ window \in [Clients -> Int]
      /\ replay \in [Clients -> Seq(Event)] /\ \A c \in Clients : Steady(c)
  BY DEF StreamInv, StreamType, RepeatInv
<1>2. CASE Offer \/ OfferExit
  <2>1. window' = window
    BY <1>2 DEF Offer, OfferExit, ghostVars
  <2> QED
    BY <1>1, <1>2, <2>1, OfferSteady DEF RepeatInv
<1>3. CASE \E c \in Clients : DeliverReplay(c) \/ DeliverLive(c)
  <2>1. window' = window
    BY <1>3 DEF DeliverReplay, DeliverLive
  <2> QED
    BY <1>1, <1>3, <2>1, DeliverySteady DEF RepeatInv
<1>4. ASSUME NEW c \in Clients, Subscribe(c) PROVE RepeatInv'
  <2>1. /\ UNCHANGED <<nextSeq, pub, queue, seen>>
        /\ window' = [window EXCEPT ![c] = IF pub = "retained" /\ running THEN nextSeq - 1 ELSE -1]
        /\ \A d \in Clients : d # c => replay'[d] = replay[d] /\ (d \in subscribers' => d \in subscribers)
    BY <1>1, <1>4 DEF Subscribe
  <2>2. window' \in [Clients -> Int] /\ NextOffer' = NextOffer
    BY <1>1, <2>1 DEF NextOffer
  <2>3. ASSUME NEW d \in Clients, d # c PROVE Steady(d)'
    <3>1. window'[d] = window[d] /\ Pipe(d)' = Pipe(d)
      BY <1>1, <2>1, <2>3 DEF Pipe
    <3> QED
      BY <1>1, <2>1, <2>2, <2>3, <3>1, SteadyLeftAlone
  <2> QED
    BY <1>1, <1>4, <2>2, <2>3, SubscribeSteady DEF RepeatInv
<1>5. CASE \/ Number \/ Retain \/ StoreExit \/ StopRunning \/ Kill \/ UNCHANGED vars
           \/ \E c \in Clients : Create(c) \/ Attach(c) \/ SubscribeUnknown(c)
                                   \/ CutOff(c) \/ Disconnect(c)
  <2>1. UNCHANGED <<subscribers, queue, replay, seen, window>>
    BY <1>5 DEF Number, Retain, StoreExit, StopRunning, Kill, vars, daemonVars, clientVars,
                ghostVars, Create, Attach, SubscribeUnknown, CutOff, Disconnect
  <2>2. NextOffer' = NextOffer
    BY <1>1, <1>5 DEF Number, Retain, StoreExit, StopRunning, Kill, vars, daemonVars, clientVars,
                ghostVars, Create, Attach, SubscribeUnknown, CutOff, Disconnect, NextOffer
  <2>3. \A c \in Clients : Pipe(c)' = Pipe(c)
    BY <2>1 DEF Pipe
  <2> QED
    BY <1>1, <2>1, <2>2, <2>3, SteadyLeftAlone DEF RepeatInv
<1> QED
  BY <1>2, <1>3, <1>4, <1>5 DEF Next, ReaderThread, Client, Handler, Terminated

\* A client is fed a chunk twice only if it subscribed while that chunk was in
\* the history and not yet offered.
THEOREM RepeatsAreExplained == Spec => []RepeatsOnlyInTheWindow
<1>1. StreamInv /\ RepeatInv => RepeatsOnlyInTheWindow
  BY DEF RepeatInv, Steady, Rising, Before, RepeatsOnlyInTheWindow
<1>2. Spec => []RepeatInv
  BY StreamInvariant, RepeatInit, RepeatInductive, PTL DEF Spec
<1> QED
  BY <1>1, <1>2, StreamInvariant, PTL

-----------------------------------------------------------------------------
(* The end of the streams                                                  *)

\* When the reader thread has told its end, whoever is still subscribed has
\* the exit on its way.
TailInv == \A c \in Clients :
    /\ cpc[c] # "off" => pub # "none"
    /\ pub = "done" /\ cpc[c] = "streaming" /\ c \in subscribers =>
          Pipe(c) # <<>> /\ Pipe(c)[Len(Pipe(c))].kind = "exit"

\* What a step of the handler does to the pipe it serves, and to the others.
LEMMA HandlerStep ==
  ASSUME StreamInv, NEW c \in Clients, DeliverReplay(c) \/ DeliverLive(c)
  PROVE  /\ cpc[c] = "streaming" /\ Pipe(c) \in Seq(Event) /\ Pipe(c) # <<>>
         /\ Pipe(c)' = Tail(Pipe(c))
         /\ Pipe(c)[1].kind = "exit" => cpc'[c] = "exit"
         /\ cpc'[c] \in {"streaming", "exit"}
         /\ \A d \in Clients : d # c => Pipe(d)' = Pipe(d) /\ cpc'[d] = cpc[d]
         /\ UNCHANGED <<pub, subscribers, running>>
<1>1. /\ cpc[c] = "streaming" /\ Pipe(c) # <<>> /\ Consume(c, Pipe(c)[1])
      /\ Pipe(c)' = Tail(Pipe(c))
      /\ \A d \in Clients : d # c => queue'[d] = queue[d] /\ replay'[d] = replay[d]
      /\ UNCHANGED daemonVars
  BY HandlerDelivers
<1>2. Pipe(c) \in Seq(Event) /\ DOMAIN cpc = Clients
  BY PipeEnds DEF StreamInv, StreamType, Pipe
<1>3. /\ Pipe(c)[1].kind = "exit" => cpc'[c] = "exit"
      /\ cpc'[c] \in {"streaming", "exit"}
      /\ \A d \in Clients : d # c => cpc'[d] = cpc[d]
  <2> DEFINE e == Pipe(c)[1]
  <2>1. Consume(c, e)
    BY <1>1
  <2> HIDE DEF e
  <2>2. CASE e.kind = "exit"
    BY <1>2, <2>1, <2>2 DEF Consume, e
  <2>3. CASE e.kind # "exit"
    BY <1>1, <1>2, <2>1, <2>3 DEF Consume, e
  <2> QED
    BY <2>2, <2>3
<1>4. \A d \in Clients : d # c => Pipe(d)' = Pipe(d)
  BY <1>1 DEF Pipe
<1> QED
  BY <1>1, <1>2, <1>3, <1>4 DEF daemonVars

\* A client comes, goes, finds the session killed or its stream cut off: no
\* pipe changes, and nobody begins to stream.
LEMMA NobodyJoins ==
  ASSUME StreamInv, NEW c \in Clients,
         Create(c) \/ Attach(c) \/ SubscribeUnknown(c) \/ CutOff(c) \/ Disconnect(c)
  PROVE  /\ UNCHANGED <<queue, replay, subscribers>>
         /\ (pub' = pub /\ running' = running) \/ (pub = "none" /\ pub' = "read")
         /\ cpc[c] = "off" => pub' # "none"
         /\ \A d \in Clients : cpc'[d] = cpc[d] \/ (d = c /\ cpc'[d] # "streaming")
<1>1. DOMAIN cpc = Clients
  BY DEF StreamInv, StreamType
<1>2. CASE Create(c)
  BY <1>1, <1>2 DEF Create
<1>3. CASE Attach(c)
  BY <1>1, <1>3 DEF Attach, daemonVars, StreamInv, ReaderInv
<1>4. CASE SubscribeUnknown(c)
  BY <1>1, <1>4 DEF SubscribeUnknown, daemonVars
<1>5. CASE CutOff(c)
  BY <1>1, <1>5 DEF CutOff, daemonVars
<1>6. CASE Disconnect(c)
  BY <1>1, <1>6 DEF Disconnect, Connected, daemonVars
<1> QED
  BY <1>2, <1>3, <1>4, <1>5, <1>6

\* It holds at the start.
LEMMA TailInit == Init => TailInv
  BY DEF Init, TailInv

\* Every step keeps it.
LEMMA TailInductive == StreamInv /\ TailInv /\ [Next]_vars => TailInv'
<1> SUFFICES ASSUME StreamInv, TailInv, [Next]_vars, NEW c \in Clients
             PROVE  /\ cpc'[c] # "off" => pub' # "none"
                    /\ pub' = "done" /\ cpc'[c] = "streaming" /\ c \in subscribers' =>
                          Pipe(c)' # <<>> /\ Pipe(c)'[Len(Pipe(c)')].kind = "exit"
  BY Zenon DEF TailInv
<1> DEFINE p == Pipe(c)
<1>1. /\ cpc[c] # "off" => pub # "none"
      /\ pub = "done" /\ cpc[c] = "streaming" /\ c \in subscribers =>
            p # <<>> /\ p[Len(p)].kind = "exit"
  BY DEF TailInv
<1>2. p \in Seq(Event)
  BY PipeEnds DEF StreamInv, StreamType, Pipe
<1>3. CASE Number \/ Retain \/ Offer \/ StoreExit \/ StopRunning
  BY <1>1, <1>3 DEF Number, Retain, Offer, StoreExit, StopRunning, clientVars
<1>4. CASE OfferExit
  <2> DEFINE e == Exit(exitCode)
  <2>1. /\ pub = "stopped" /\ pub' = "done" /\ Broadcast(e) /\ exitCode = Code
        /\ replay' = replay /\ cpc' = cpc
    BY <1>4 DEF OfferExit, clientVars, StreamInv, ReaderInv
  <2>2. e \in Event /\ e.kind = "exit"
    BY <2>1 DEF Exit, Event
  <2> HIDE DEF e, p
  <2>3. \/ c \notin subscribers'
        \/ Pipe(c)' = Append(p, e)
    BY <2>1, <2>2, BroadcastTo DEF p
  <2>4. Append(p, e) # <<>> /\ Append(p, e)[Len(Append(p, e))] = e
    BY <1>2, <2>2
  <2> QED
    BY <2>1, <2>2, <2>3, <2>4
<1>5. ASSUME NEW d \in Clients, DeliverReplay(d) \/ DeliverLive(d)
      PROVE  /\ cpc'[c] # "off" => pub' # "none"
             /\ pub' = "done" /\ cpc'[c] = "streaming" /\ c \in subscribers' =>
                   Pipe(c)' # <<>> /\ Pipe(c)'[Len(Pipe(c)')].kind = "exit"
  <2>1. /\ cpc[d] = "streaming" /\ Pipe(d) # <<>>
        /\ Pipe(d)' = Tail(Pipe(d)) /\ (Pipe(d)[1].kind = "exit" => cpc'[d] = "exit")
        /\ \A b \in Clients : b # d => Pipe(b)' = Pipe(b) /\ cpc'[b] = cpc[b]
        /\ pub' = pub /\ subscribers' = subscribers
    BY <1>5, HandlerStep
  <2> HIDE DEF p
  <2>2. CASE c # d
    BY <1>1, <2>1, <2>2 DEF p
  <2>3. CASE c = d
    <3>1. p # <<>> /\ Pipe(c)' = Tail(p) /\ (p[1].kind = "exit" => cpc'[c] = "exit")
          /\ cpc[c] = "streaming"
      BY <2>1, <2>3 DEF p
    <3>2. CASE Len(p) = 1
      <4>1. p[Len(p)] = p[1]
        BY <3>2
      <4> QED
        BY <1>1, <2>1, <3>1, <4>1
    <3>3. CASE Len(p) # 1
      <4> DEFINE q == Tail(p)
      <4>1. Len(q) = Len(p) - 1 /\ Len(q) \in Nat \ {0} /\ q[Len(q)] = p[Len(p)] /\ q # <<>>
        <5>1. Len(p) \in Nat /\ Len(p) > 1
          <6>1. Len(p) \in Nat /\ Len(p) # 0
            BY <1>2, <3>1
          <6> QED
            BY <3>3, <6>1
        <5>2. q \in Seq(Event) /\ Len(q) = Len(p) - 1
              /\ \A i \in 1..(Len(p) - 1) : q[i] = p[i + 1]
          BY <1>2, <3>1, <5>1
        <5> HIDE DEF q
        <5>3. Len(p) - 1 \in 1..(Len(p) - 1) /\ (Len(p) - 1) + 1 = Len(p)
          BY <5>1
        <5>4. q[Len(p) - 1] = p[Len(p)]
          BY <5>2, <5>3
        <5>5. q # <<>>
          BY <5>1, <5>2
        <5> QED
          BY <5>1, <5>2, <5>4, <5>5
      <4> HIDE DEF q
      <4> QED
        BY <1>1, <2>1, <3>1, <4>1 DEF q
    <3> QED
      BY <3>2, <3>3
  <2> QED
    BY <2>2, <2>3
<1>6. ASSUME NEW d \in Clients,
             Create(d) \/ Attach(d) \/ SubscribeUnknown(d) \/ CutOff(d) \/ Disconnect(d)
      PROVE  /\ cpc'[c] # "off" => pub' # "none"
             /\ pub' = "done" /\ cpc'[c] = "streaming" /\ c \in subscribers' =>
                   Pipe(c)' # <<>> /\ Pipe(c)'[Len(Pipe(c)')].kind = "exit"
  <2>1. /\ queue' = queue /\ replay' = replay /\ subscribers' = subscribers
        /\ pub' = pub \/ (pub = "none" /\ pub' = "read")
        /\ cpc[d] = "off" => pub' # "none"
        /\ cpc'[c] = cpc[c] \/ (c = d /\ cpc'[c] # "streaming")
    BY <1>6, NobodyJoins
  <2>2. Pipe(c)' = p
    BY <2>1 DEF Pipe
  <2> HIDE DEF p
  <2> QED
    BY <1>1, <2>1, <2>2
<1>7. ASSUME NEW d \in Clients, Subscribe(d)
      PROVE  /\ cpc'[c] # "off" => pub' # "none"
             /\ pub' = "done" /\ cpc'[c] = "streaming" /\ c \in subscribers' =>
                   Pipe(c)' # <<>> /\ Pipe(c)'[Len(Pipe(c)')].kind = "exit"
  <2>1. /\ cpc[d] = "attached" /\ pub' = pub /\ queue' = queue
        /\ subscribers' = (IF running THEN subscribers \cup {d} ELSE subscribers)
        /\ cpc' = [cpc EXCEPT ![d] = "streaming"]
        /\ \A b \in Clients : b # d => replay'[b] = replay[b]
        /\ d \notin subscribers
    BY <1>7 DEF Subscribe, StreamInv, StreamType, ClientInv
  <2>2. running => pub # "done"
    BY DEF StreamInv, ReaderInv
  <2>3. c # d => Pipe(c)' = p /\ cpc'[c] = cpc[c]
    BY <2>1 DEF Pipe, StreamInv, StreamType
  <2> HIDE DEF p
  <2> QED
    BY <1>1, <2>1, <2>2, <2>3
<1>8. CASE Kill \/ UNCHANGED vars
  <2>1. UNCHANGED <<pub, subscribers, queue, replay, cpc>>
    BY <1>8 DEF Kill, vars, daemonVars, clientVars
  <2>2. Pipe(c)' = p
    BY <2>1 DEF Pipe
  <2> HIDE DEF p
  <2> QED
    BY <1>1, <2>1, <2>2
<1> QED
  BY <1>3, <1>4, <1>5, <1>6, <1>7, <1>8
  DEF Next, ReaderThread, Client, Handler, Terminated

\* It holds throughout.
LEMMA TailInvariant == Spec => []TailInv
  BY TailInit, TailInductive, StreamInvariant, PTL DEF Spec

\* Once the child is no longer running, an open stream has an end in sight:
\* the reader thread is about to offer the exit, or the handler has something
\* to write or sees its queue closed.
EndIsInSight ==
  \A c \in Clients : ~running /\ cpc[c] = "streaming" =>
     \/ pub = "stopped"
     \/ pub = "done" /\ (replay[c] # <<>> \/ queue[c] # <<>> \/ c \notin subscribers)

\* The first half of StreamsEnd: no handler waits on a queue that nobody will
\* write to again and nobody closes (the reader thread of HostedSession and
\* handle_stream).
THEOREM NobodyWaitsInVain == Spec => []EndIsInSight
<1>1. ASSUME StreamInv, TailInv, NEW c \in Clients, ~running, cpc[c] = "streaming"
      PROVE  \/ pub = "stopped"
             \/ pub = "done" /\ (replay[c] # <<>> \/ queue[c] # <<>> \/ c \notin subscribers)
  <2>1. pub \in {"stopped", "done"}
    BY <1>1 DEF StreamInv, StreamType, ReaderInv, TailInv
  <2>2. ASSUME replay[c] = <<>>, queue[c] = <<>> PROVE Pipe(c) = <<>>
    <3>1. queue[c] \in Seq(Event) /\ replay[c] \in Seq(Event)
      BY <1>1 DEF StreamInv, StreamType
    <3>2. Pipe(c) = queue[c]
      BY <2>2, <3>1, PipeEnds DEF Pipe
    <3> QED
      BY <2>2, <3>2
  <2> QED
    BY <1>1, <2>1, <2>2 DEF TailInv
<1>2. StreamInv /\ TailInv => EndIsInSight
  BY <1>1 DEF EndIsInSight
<1> QED
  BY <1>2, StreamInvariant, TailInvariant, PTL

\* From then on a stream that stays open only gets shorter: every step of its
\* handler takes something off, and nobody puts anything on.
OnlyShorter ==
  \A c \in Clients :
    pub = "done" /\ cpc[c] = "streaming" /\ cpc'[c] = "streaming" =>
       /\ pub' = "done" /\ Len(Pipe(c)') <= Len(Pipe(c))
       /\ Handler(c) => Len(Pipe(c)') < Len(Pipe(c))
EndedStreamsDrain == [][OnlyShorter]_vars

\* The second half of StreamsEnd: the events left to write bound the steps a
\* handler takes before it ends.
THEOREM StreamsOnlyDrain == Spec => EndedStreamsDrain
<1>1. ASSUME StreamInv, TailInv, [Next]_vars, NEW c \in Clients,
             pub = "done", cpc[c] = "streaming", cpc'[c] = "streaming"
      PROVE  /\ pub' = "done" /\ Len(Pipe(c)') <= Len(Pipe(c))
             /\ Handler(c) => Len(Pipe(c)') < Len(Pipe(c))
  <2> DEFINE p == Pipe(c)
  <2>1. p \in Seq(Event) /\ Len(p) \in Nat
    BY <1>1, PipeEnds DEF StreamInv, StreamType, Pipe
  <2>2. ~ReaderThread
    BY <1>1 DEF ReaderThread, Number, Retain, Offer, StoreExit, StopRunning, OfferExit
  <2>3. ASSUME DeliverReplay(c) \/ DeliverLive(c)
        PROVE  pub' = "done" /\ Len(Pipe(c)') < Len(Pipe(c))
    <3>1. p # <<>> /\ Pipe(c)' = Tail(p) /\ pub' = pub
      BY <1>1, <2>3, HandlerStep
    <3> HIDE DEF p
    <3>2. Len(Tail(p)) = Len(p) - 1
      BY <2>1, <3>1
    <3> QED
      BY <1>1, <2>1, <3>1, <3>2 DEF p
  <2>4. ~CutOff(c)
    BY <1>1 DEF CutOff, StreamInv, StreamType
  <2>5. ASSUME NEW d \in Clients, d # c, DeliverReplay(d) \/ DeliverLive(d)
        PROVE  pub' = "done" /\ Pipe(c)' = p
    BY <1>1, <2>5, HandlerStep
  <2>6. ASSUME NEW d \in Clients,
               Create(d) \/ Attach(d) \/ SubscribeUnknown(d) \/ CutOff(d) \/ Disconnect(d)
        PROVE  pub' = "done" /\ Pipe(c)' = p
    BY <1>1, <2>6, NobodyJoins DEF Pipe
  <2>7. ASSUME NEW d \in Clients, Subscribe(d)
        PROVE  pub' = "done" /\ Pipe(c)' = p
    <3>1. d # c /\ pub' = pub /\ queue' = queue /\ replay'[c] = replay[c]
      BY <1>1, <2>7 DEF Subscribe, StreamInv, StreamType
    <3> QED
      BY <1>1, <3>1 DEF Pipe
  <2>8. ASSUME Kill \/ UNCHANGED vars PROVE pub' = "done" /\ Pipe(c)' = p
    <3>1. UNCHANGED <<pub, queue, replay>>
      BY <2>8 DEF Kill, vars, daemonVars
    <3> QED
      BY <1>1, <3>1 DEF Pipe
  <2>9. Handler(c) => Len(Pipe(c)') < Len(Pipe(c))
    BY <2>3, <2>4 DEF Handler
  <2>10. pub' = "done" /\ (Pipe(c)' = p \/ Len(Pipe(c)') < Len(p))
    <3>1. CASE Kill \/ Terminated \/ UNCHANGED vars
      BY <2>8, <3>1 DEF Terminated
    <3>2. ASSUME NEW d \in Clients, Client(d) \/ Handler(d)
          PROVE  pub' = "done" /\ (Pipe(c)' = p \/ Len(Pipe(c)') < Len(p))
      <4>1. CASE Client(d)
        BY <2>6, <2>7, <4>1 DEF Client
      <4>2. CASE CutOff(d)
        BY <2>6, <4>2
      <4>3. CASE DeliverReplay(d) \/ DeliverLive(d)
        BY <2>3, <2>5, <4>3
      <4> QED
        BY <3>2, <4>1, <4>2, <4>3 DEF Handler
    <3> QED
      BY <1>1, <2>2, <3>1, <3>2 DEF Next
  <2> HIDE DEF p
  <2>11. Len(Pipe(c)') <= Len(p)
    <3>1. CASE Pipe(c)' = p
      BY <2>1, <3>1
    <3>2. CASE Len(Pipe(c)') < Len(p)
      BY <3>2
    <3> QED
      BY <2>10, <3>1, <3>2
  <2> QED
    BY <2>9, <2>10, <2>11 DEF p
<1>2. StreamInv /\ TailInv /\ [Next]_vars => [OnlyShorter]_vars
  BY <1>1 DEF OnlyShorter
<1> QED
  BY <1>2, StreamInvariant, TailInvariant, PTL DEF Spec, EndedStreamsDrain

=============================================================================
