------------------------ MODULE ProvidedBuffersProofs ------------------------
(***************************************************************************)
(* Proofs about ProvidedBuffers, for every number of threads, buffers and  *)
(* addresses: a buffer has one owner at a time, and changes it as          *)
(* BufferOwnership says.                                                   *)
(*                                                                         *)
(* Three things travel through the queue, the kernel and the completion    *)
(* ring: the address of a completion, with a receive; the turn of a thread *)
(* that waits for another request, with that request; and the buffer that  *)
(* an SQE or a CQE names.  Each is in one place (One).  So a completion is *)
(* completed once, by a CQE of the thread that allocated it, and a future  *)
(* or an answer is never written over.                                     *)
(***************************************************************************)
EXTENDS ProvidedBuffers, FiniteSetTheorems, TLAPS

Safety == Init /\ [][Next]_vars

\* What an SQE or CQE s carries: the address v of a completion, the turn of thread v, or
\* buffer v, up to a thread or down to the kernel.
Has(s, q, v) ==
  \/ q = "at" /\ s.op = "recv" /\ s.at = v
  \/ q = "by" /\ s.op # "recv" /\ s.by = v
  \/ q = "up" /\ s.op = "recv" /\ s.bid = v
  \/ q = "down" /\ s.op # "recv" /\ s.bid = v

InQueue(q, v) == \E i \in 1 .. Len(queue) : Has(queue[i], q, v)
InChain(q, v) == \E c \in chains : \E i \in 1 .. Len(c) : Has(c[i], q, v)
InRing(q, v)  == \E i \in 1 .. Len(cq) : Has(cq[i], q, v)

Some(q, v) == InQueue(q, v) \/ InChain(q, v) \/ InRing(q, v)

\* At most one SQE or CQE has it.
One(q, v) ==
  /\ \A i, j \in 1 .. Len(queue) : Has(queue[i], q, v) /\ Has(queue[j], q, v) => i = j
  /\ \A c, d \in chains : \A i \in 1 .. Len(c), j \in 1 .. Len(d) :
       Has(c[i], q, v) /\ Has(d[j], q, v) => c = d /\ i = j
  /\ \A i, j \in 1 .. Len(cq) : Has(cq[i], q, v) /\ Has(cq[j], q, v) => i = j
  /\ ~ (InQueue(q, v) /\ InChain(q, v))
  /\ ~ (InQueue(q, v) /\ InRing(q, v))
  /\ ~ (InChain(q, v) /\ InRing(q, v))

-----------------------------------------------------------------------------
(* Sequences of requests and answers.                                       *)

\* The lengths and the elements of the sequences.
LEMMA Sizes ==
  ASSUME TypeOK
  PROVE  /\ Len(queue) \in Nat /\ queue \in Seq(Sqes)
         /\ Len(cq) \in Nat /\ cq \in Seq(Cqes)
         /\ \A i \in 1 .. Len(queue) : queue[i] \in Sqes
         /\ \A i \in 1 .. Len(cq) : cq[i] \in Cqes
         /\ \A c \in chains : c \in Seq(Sqes) /\ Len(c) \in Nat \ {0}
         /\ \A c \in chains : \A i \in 1 .. Len(c) : c[i] \in Sqes
<1>1. ASSUME NEW S, NEW s \in Seq(S), NEW i \in 1 .. Len(s) PROVE s[i] \in S
  OBVIOUS
<1>2. ASSUME NEW c \in chains PROVE c \in Seq(Sqes) /\ Len(c) \in Nat \ {0}
  BY DEF TypeOK
<1>3. queue \in Seq(Sqes) /\ cq \in Seq(Cqes)
  BY DEF TypeOK
<1>4. Len(queue) \in Nat /\ Len(cq) \in Nat
  BY <1>3
<1>5. QED
  BY <1>1, <1>2, <1>3, <1>4

\* A sequence with another behind it.
LEMMA Concatenated ==
  ASSUME NEW S, NEW s \in Seq(S), NEW t \in Seq(S)
  PROVE  /\ s \o t \in Seq(S)
         /\ Len(s \o t) = Len(s) + Len(t)
         /\ \A i \in 1 .. Len(s) : (s \o t)[i] = s[i]
         /\ \A i \in 1 .. Len(t) : (s \o t)[Len(s) + i] = t[i]
         /\ \A i \in 1 .. Len(s \o t) :
              i \in 1 .. Len(s) \/ \E j \in 1 .. Len(t) : i = Len(s) + j
<1>1. Len(s) \in Nat /\ Len(t) \in Nat
  OBVIOUS
<1>2. /\ s \o t \in Seq(S) /\ Len(s \o t) = Len(s) + Len(t)
      /\ \A i \in 1 .. Len(s) : (s \o t)[i] = s[i]
      /\ \A i \in 1 .. Len(t) : (s \o t)[Len(s) + i] = t[i]
  OBVIOUS
<1>3. ASSUME NEW i \in 1 .. Len(s) + Len(t), i \notin 1 .. Len(s)
      PROVE  \E j \in 1 .. Len(t) : i = Len(s) + j
  <2>1. i - Len(s) \in 1 .. Len(t) /\ i = Len(s) + (i - Len(s))
    BY <1>1, <1>3
  <2>2. QED
    BY <2>1
<1>4. QED
  BY <1>2, <1>3

\* Three sequences, one behind the other.
LEMMA Associates ==
  ASSUME NEW S, NEW s \in Seq(S), NEW t \in Seq(S), NEW u \in Seq(S)
  PROVE  s \o t \o u = s \o (t \o u)
OBVIOUS

\* The first n elements of a sequence and the rest.
LEMMA Divided ==
  ASSUME NEW S, NEW s \in Seq(S), NEW n \in 1 .. Len(s)
  PROVE  /\ SubSeq(s, 1, n) \in Seq(S) /\ Len(SubSeq(s, 1, n)) = n
         /\ \A i \in 1 .. n : SubSeq(s, 1, n)[i] = s[i]
         /\ SubSeq(s, n + 1, Len(s)) \in Seq(S)
         /\ Len(SubSeq(s, n + 1, Len(s))) = Len(s) - n
         /\ \A i \in 1 .. (Len(s) - n) : SubSeq(s, n + 1, Len(s))[i] = s[n + i]
OBVIOUS

\* The second element of a sequence and those behind it.
LEMMA Behead ==
  ASSUME NEW S, NEW s \in Seq(S), s # <<>>
  PROVE  /\ Tail(s) \in Seq(S) /\ Len(Tail(s)) = Len(s) - 1
         /\ Len(s) \in Nat \ {0} /\ Head(s) = s[1]
         /\ \A i \in 1 .. (Len(s) - 1) : Tail(s)[i] = s[i + 1]
OBVIOUS

-----------------------------------------------------------------------------
(* The moves, for any key.                                                  *)

\* A request enters the queue.
LEMMA Appended ==
  ASSUME TypeOK, NEW s \in Sqes, queue' = Append(queue, s), UNCHANGED <<chains, cq>>,
         NEW q, NEW v
  PROVE  /\ ~ Has(s, q, v) => (One(q, v) => One(q, v)') /\ (Some(q, v)' <=> Some(q, v))
         /\ Has(s, q, v) /\ ~ Some(q, v) => One(q, v)' /\ Some(q, v)'
<1>1. /\ Len(queue') = Len(queue) + 1 /\ Len(queue) \in Nat
      /\ \A i \in 1 .. Len(queue) : queue'[i] = queue[i] /\ i \in 1 .. Len(queue')
      /\ queue'[Len(queue) + 1] = s /\ Len(queue) + 1 \in 1 .. Len(queue')
      /\ \A i \in 1 .. Len(queue') : i \in 1 .. Len(queue) \/ i = Len(queue) + 1
  BY DEF TypeOK
<1> HIDE DEF Has
<1>2. InQueue(q, v)' <=> InQueue(q, v) \/ Has(s, q, v)
  BY <1>1 DEF InQueue
<1>3. (InChain(q, v)' <=> InChain(q, v)) /\ (InRing(q, v)' <=> InRing(q, v))
  BY DEF InChain, InRing
<1>4. ASSUME ~ Has(s, q, v), One(q, v) PROVE One(q, v)'
  BY <1>1, <1>2, <1>3, <1>4 DEF One
<1>5. ASSUME Has(s, q, v), ~ Some(q, v) PROVE One(q, v)'
  BY <1>1, <1>2, <1>3, <1>5 DEF One, Some, InQueue, InChain, InRing
<1>6. QED
  BY <1>2, <1>3, <1>4, <1>5 DEF Some

\* Answers enter the ring.
LEMMA Posted ==
  ASSUME TypeOK, NEW es \in Seq(Cqes), cq' = cq \o es
  PROVE  /\ Len(cq') = Len(cq) + Len(es) /\ Len(cq) \in Nat /\ Len(es) \in Nat
         /\ \A i \in 1 .. Len(cq) : cq'[i] = cq[i] /\ i \in 1 .. Len(cq')
         /\ \A i \in 1 .. Len(es) : cq'[Len(cq) + i] = es[i] /\ Len(cq) + i \in 1 .. Len(cq')
         /\ \A i \in 1 .. Len(cq') :
              i \in 1 .. Len(cq) \/ \E j \in 1 .. Len(es) : i = Len(cq) + j
<1>1. cq \in Seq(Cqes) /\ Len(cq) \in Nat /\ Len(es) \in Nat
  BY Sizes
<1>2. /\ Len(cq') = Len(cq) + Len(es)
      /\ \A i \in 1 .. Len(cq) : cq'[i] = cq[i]
      /\ \A i \in 1 .. Len(es) : cq'[Len(cq) + i] = es[i]
      /\ \A i \in 1 .. Len(cq') :
           i \in 1 .. Len(cq) \/ \E j \in 1 .. Len(es) : i = Len(cq) + j
  BY <1>1, Concatenated
<1>3. QED
  BY <1>1, <1>2

\* What the answers to come have is in at most one of them, and in none of the ring.
LEMMA RingGrows ==
  ASSUME TypeOK, NEW es \in Seq(Cqes), cq' = cq \o es, NEW q, NEW v
  PROVE  /\ InRing(q, v)' <=> InRing(q, v) \/ \E i \in 1 .. Len(es) : Has(es[i], q, v)
         /\ (/\ \A i, j \in 1 .. Len(cq) : Has(cq[i], q, v) /\ Has(cq[j], q, v) => i = j
             /\ \A i, j \in 1 .. Len(es) : Has(es[i], q, v) /\ Has(es[j], q, v) => i = j
             /\ ~ (InRing(q, v) /\ \E i \in 1 .. Len(es) : Has(es[i], q, v)))
            => \A i, j \in 1 .. Len(cq') : Has(cq'[i], q, v) /\ Has(cq'[j], q, v) => i = j
<1>1. /\ \A i \in 1 .. Len(cq) : cq'[i] = cq[i] /\ i \in 1 .. Len(cq')
      /\ \A i \in 1 .. Len(es) : cq'[Len(cq) + i] = es[i] /\ Len(cq) + i \in 1 .. Len(cq')
      /\ \A i \in 1 .. Len(cq') :
           i \in 1 .. Len(cq) \/ \E j \in 1 .. Len(es) : i = Len(cq) + j
  BY Posted
<1> HIDE DEF Has
<1>2. InRing(q, v)' <=> InRing(q, v) \/ \E i \in 1 .. Len(es) : Has(es[i], q, v)
  BY <1>1 DEF InRing
<1>3. ASSUME \A i, j \in 1 .. Len(cq) : Has(cq[i], q, v) /\ Has(cq[j], q, v) => i = j,
             \A i, j \in 1 .. Len(es) : Has(es[i], q, v) /\ Has(es[j], q, v) => i = j,
             ~ (InRing(q, v) /\ \E i \in 1 .. Len(es) : Has(es[i], q, v)),
             NEW i \in 1 .. Len(cq'), NEW j \in 1 .. Len(cq'),
             Has(cq'[i], q, v), Has(cq'[j], q, v)
      PROVE  i = j
  <2>1. CASE i \in 1 .. Len(cq) /\ j \in 1 .. Len(cq)
    BY <1>1, <1>3, <2>1
  <2>2. ASSUME NEW k \in 1 .. Len(es), NEW l \in 1 .. Len(es), i = Len(cq) + k, j = Len(cq) + l
        PROVE  i = j
    <3>1. Has(es[k], q, v) /\ Has(es[l], q, v)
      BY <1>1, <1>3, <2>2
    <3>2. QED
      BY <1>3, <2>2, <3>1
  <2>3. ASSUME NEW k \in 1 .. Len(cq), NEW l \in 1 .. Len(es), k \in {i, j},
               Len(cq) + l \in {i, j}
        PROVE  FALSE
    <3>1. Has(cq[k], q, v) /\ Has(es[l], q, v)
      BY <1>1, <1>3, <2>3
    <3>2. QED
      BY <1>3, <3>1 DEF InRing
  <2>4. QED
    BY <1>1, <2>1, <2>2, <2>3
<1>4. QED
  BY <1>2, <1>3

\* The requests of the queue from the n-th on, and those before.
LEMMA QueueShrinks ==
  ASSUME TypeOK, NEW n \in 1 .. Len(queue), queue' = SubSeq(queue, n + 1, Len(queue)),
         NEW q, NEW v
  PROVE  /\ InQueue(q, v) <=> InQueue(q, v)' \/ \E i \in 1 .. n : Has(queue[i], q, v)
         /\ (\A i, j \in 1 .. Len(queue) : Has(queue[i], q, v) /\ Has(queue[j], q, v) => i = j)
            => /\ \A i, j \in 1 .. Len(queue') :
                    Has(queue'[i], q, v) /\ Has(queue'[j], q, v) => i = j
               /\ ~ (InQueue(q, v)' /\ \E i \in 1 .. n : Has(queue[i], q, v))
<1>1. /\ Len(queue') = Len(queue) - n /\ Len(queue) \in Nat
      /\ \A i \in 1 .. (Len(queue) - n) : queue'[i] = queue[n + i]
  BY Sizes, Divided
<1> HIDE DEF Has
<1>2. /\ \A i \in 1 .. Len(queue') : n + i \in 1 .. Len(queue) /\ queue'[i] = queue[n + i]
      /\ \A i \in 1 .. n : i \in 1 .. Len(queue)
      /\ \A i \in 1 .. n, j \in 1 .. Len(queue') : i # n + j
      /\ \A i, j \in 1 .. Len(queue') : n + i = n + j => i = j
  BY <1>1
<1>3. ASSUME NEW i \in 1 .. Len(queue), i \notin 1 .. n PROVE \E j \in 1 .. Len(queue') : i = n + j
  <2>1. i - n \in 1 .. Len(queue') /\ i = n + (i - n)
    BY <1>1, <1>3
  <2>2. QED
    BY <2>1
<1>4. InQueue(q, v) => InQueue(q, v)' \/ \E i \in 1 .. n : Has(queue[i], q, v)
  <2>1. SUFFICES ASSUME NEW i \in 1 .. Len(queue), Has(queue[i], q, v), i \notin 1 .. n
                 PROVE  InQueue(q, v)'
    BY DEF InQueue
  <2>2. PICK j \in 1 .. Len(queue') : i = n + j
    BY <1>3, <2>1
  <2>3. Has(queue'[j], q, v)
    BY <1>2, <2>1, <2>2
  <2>4. QED
    BY <2>3 DEF InQueue
<1>5. InQueue(q, v)' => \E j \in 1 .. Len(queue') : Has(queue[n + j], q, v)
  BY <1>2 DEF InQueue
<1>6. InQueue(q, v) <=> InQueue(q, v)' \/ \E i \in 1 .. n : Has(queue[i], q, v)
  BY <1>2, <1>4, <1>5 DEF InQueue
<1>7. ASSUME \A i, j \in 1 .. Len(queue) : Has(queue[i], q, v) /\ Has(queue[j], q, v) => i = j
      PROVE  /\ \A i, j \in 1 .. Len(queue') :
                  Has(queue'[i], q, v) /\ Has(queue'[j], q, v) => i = j
             /\ ~ (InQueue(q, v)' /\ \E i \in 1 .. n : Has(queue[i], q, v))
  <2>1. ASSUME NEW i \in 1 .. Len(queue'), NEW j \in 1 .. Len(queue'),
               Has(queue'[i], q, v), Has(queue'[j], q, v)
        PROVE  i = j
    <3>1. n + i = n + j
      BY <1>2, <1>7, <2>1
    <3>2. QED
      BY <1>2, <3>1
  <2>2. ASSUME NEW i \in 1 .. n, Has(queue[i], q, v), NEW j \in 1 .. Len(queue'),
               Has(queue[n + j], q, v)
        PROVE  FALSE
    <3>1. i = n + j
      BY <1>2, <1>7, <2>2
    <3>2. QED
      BY <1>2, <3>1
  <2>3. QED
    BY <1>5, <2>1, <2>2
<1>8. QED
  BY <1>6, <1>7

\* The requests up to n leave the queue as a chain.
LEMMA Chained ==
  ASSUME TypeOK, NEW n \in 1 .. Len(queue), queue' = SubSeq(queue, n + 1, Len(queue)),
         chains' = chains \cup {SubSeq(queue, 1, n)}, cq' = cq, NEW q, NEW v
  PROVE  (One(q, v) => One(q, v)') /\ (Some(q, v)' <=> Some(q, v))
<1>1. PICK c : /\ c = SubSeq(queue, 1, n) /\ Len(c) = n
               /\ \A i \in 1 .. Len(c) : c[i] = queue[i] /\ i \in 1 .. Len(queue)
  <2>1. /\ Len(SubSeq(queue, 1, n)) = n /\ Len(queue) \in Nat
        /\ \A i \in 1 .. n : SubSeq(queue, 1, n)[i] = queue[i]
    BY Sizes, Divided
  <2>2. \A i \in 1 .. n : i \in 1 .. Len(queue)
    BY <2>1
  <2>3. QED
    BY <2>1, <2>2
<1>2. chains' = chains \cup {c}
  BY <1>1
<1> DEFINE Moved == \E i \in 1 .. n : Has(queue[i], q, v)
<1> HIDE DEF Has
<1>3. /\ InQueue(q, v) <=> InQueue(q, v)' \/ Moved
      /\ One(q, v) => /\ \A i, j \in 1 .. Len(queue') :
                           Has(queue'[i], q, v) /\ Has(queue'[j], q, v) => i = j
                      /\ ~ (InQueue(q, v)' /\ Moved)
  BY QueueShrinks DEF One
<1>4. InRing(q, v)' <=> InRing(q, v)
  BY DEF InRing
<1>5. Moved <=> \E i \in 1 .. Len(c) : Has(c[i], q, v)
  BY <1>1
<1>6. InChain(q, v)' <=> InChain(q, v) \/ Moved
  BY <1>2, <1>5 DEF InChain
<1>7. ASSUME One(q, v), NEW d \in chains', NEW e \in chains', NEW i \in 1 .. Len(d),
             NEW j \in 1 .. Len(e), Has(d[i], q, v), Has(e[j], q, v)
      PROVE  d = e /\ i = j
  <2>1. CASE d \in chains /\ e \in chains
    BY <1>7, <2>1 DEF One
  <2>2. CASE d = c /\ e = c
    BY <1>1, <1>7, <2>2 DEF One
  <2>3. CASE (d = c /\ e \in chains) \/ (d \in chains /\ e = c)
    <3>1. Moved /\ InChain(q, v)
      BY <1>5, <1>7, <2>3 DEF InChain
    <3>2. QED
      BY <1>3, <1>7, <3>1 DEF One
  <2>4. QED
    BY <1>2, <2>1, <2>2, <2>3
<1>8. One(q, v) => One(q, v)'
  <2>1. SUFFICES ASSUME One(q, v) PROVE One(q, v)'
    OBVIOUS
  <2>2. \A d, e \in chains' : \A i \in 1 .. Len(d), j \in 1 .. Len(e) :
          Has(d[i], q, v) /\ Has(e[j], q, v) => d = e /\ i = j
    BY <1>7, <2>1
  <2>3. \A i, j \in 1 .. Len(cq') : Has(cq'[i], q, v) /\ Has(cq'[j], q, v) => i = j
    BY <2>1 DEF One
  <2>4. /\ ~ (InQueue(q, v)' /\ InChain(q, v)')
        /\ ~ (InQueue(q, v)' /\ InRing(q, v)')
        /\ ~ (InChain(q, v)' /\ InRing(q, v)')
    BY <1>3, <1>4, <1>6, <2>1 DEF One
  <2>5. QED
    BY <1>3, <2>1, <2>2, <2>3, <2>4 DEF One
<1>9. QED
  BY <1>3, <1>4, <1>6, <1>8 DEF Some

\* The requests up to n leave the queue and are answered.
LEMMA Answered ==
  ASSUME TypeOK, NEW n \in 1 .. Len(queue), queue' = SubSeq(queue, n + 1, Len(queue)),
         chains' = chains, NEW es \in Seq(Cqes), cq' = cq \o es, Len(es) = n, NEW q, NEW v,
         \A i \in 1 .. n : Has(es[i], q, v) <=> Has(queue[i], q, v)
  PROVE  (One(q, v) => One(q, v)') /\ (Some(q, v)' <=> Some(q, v))
<1> DEFINE Moved == \E i \in 1 .. n : Has(queue[i], q, v)
<1> HIDE DEF Has
<1>1. /\ InQueue(q, v) <=> InQueue(q, v)' \/ Moved
      /\ One(q, v) => /\ \A i, j \in 1 .. Len(queue') :
                           Has(queue'[i], q, v) /\ Has(queue'[j], q, v) => i = j
                      /\ ~ (InQueue(q, v)' /\ Moved)
  BY QueueShrinks DEF One
<1>2. Moved <=> \E i \in 1 .. Len(es) : Has(es[i], q, v)
  OBVIOUS
<1>3. InRing(q, v)' <=> InRing(q, v) \/ Moved
  BY <1>2, RingGrows
<1>4. InChain(q, v)' <=> InChain(q, v)
  BY DEF InChain
<1>5. ASSUME One(q, v) PROVE One(q, v)'
  <2>1. \A i, j \in 1 .. Len(es) : Has(es[i], q, v) /\ Has(es[j], q, v) => i = j
    <3>1. \A i \in 1 .. n : i \in 1 .. Len(queue)
      BY Sizes
    <3>2. QED
      BY <1>5, <3>1 DEF One
  <2>2. ~ (InRing(q, v) /\ Moved)
    BY <1>1, <1>5 DEF One
  <2>3. \A i, j \in 1 .. Len(cq') : Has(cq'[i], q, v) /\ Has(cq'[j], q, v) => i = j
    BY <1>2, <1>5, <2>1, <2>2, RingGrows DEF One
  <2>4. /\ ~ (InQueue(q, v)' /\ InChain(q, v)')
        /\ ~ (InQueue(q, v)' /\ InRing(q, v)')
        /\ ~ (InChain(q, v)' /\ InRing(q, v)')
    BY <1>1, <1>3, <1>4, <1>5 DEF One
  <2>5. QED
    BY <1>1, <1>5, <2>3, <2>4 DEF One
<1>6. QED
  BY <1>1, <1>3, <1>4, <1>5 DEF Some

\* A chain leaves the kernel.
LEMMA ChainLeaves ==
  ASSUME NEW c \in chains, chains' = chains \ {c}, NEW q, NEW v
  PROVE  /\ InChain(q, v) <=> InChain(q, v)' \/ \E i \in 1 .. Len(c) : Has(c[i], q, v)
         /\ One(q, v) =>
              /\ \A d, e \in chains' : \A i \in 1 .. Len(d), j \in 1 .. Len(e) :
                   Has(d[i], q, v) /\ Has(e[j], q, v) => d = e /\ i = j
              /\ ~ (InChain(q, v)' /\ \E i \in 1 .. Len(c) : Has(c[i], q, v))
<1> HIDE DEF Has
<1>1. InChain(q, v) <=> InChain(q, v)' \/ \E i \in 1 .. Len(c) : Has(c[i], q, v)
  BY DEF InChain
<1>2. One(q, v) => \A d, e \in chains' : \A i \in 1 .. Len(d), j \in 1 .. Len(e) :
                     Has(d[i], q, v) /\ Has(e[j], q, v) => d = e /\ i = j
  BY DEF One
<1>3. ASSUME One(q, v), NEW d \in chains', NEW j \in 1 .. Len(d), Has(d[j], q, v),
             NEW i \in 1 .. Len(c), Has(c[i], q, v)
      PROVE  FALSE
  BY <1>3 DEF One
<1>4. QED
  BY <1>1, <1>2, <1>3 DEF InChain

\* Answers es are those of the requests of c, in order p.
Permutes(p, es, c) ==
  /\ \A i \in 1 .. Len(es) : p[i] \in 1 .. Len(c)
  /\ \A i, j \in 1 .. Len(es) : p[i] = p[j] => i = j
  /\ \A j \in 1 .. Len(c) : \E i \in 1 .. Len(es) : p[i] = j

Alike(p, es, c, q, v) == \A i \in 1 .. Len(es) : Has(es[i], q, v) <=> Has(c[p[i]], q, v)

\* A chain is answered, in any order.
LEMMA ChainAnswered ==
  ASSUME TypeOK, NEW c \in chains, chains' = chains \ {c}, queue' = queue,
         NEW es \in Seq(Cqes), cq' = cq \o es, NEW q, NEW v, NEW p,
         Permutes(p, es, c), Alike(p, es, c, q, v)
  PROVE  (One(q, v) => One(q, v)') /\ (Some(q, v)' <=> Some(q, v))
<1> DEFINE Moved == \E i \in 1 .. Len(c) : Has(c[i], q, v)
<1> HIDE DEF Has
<1>1. /\ InChain(q, v) <=> InChain(q, v)' \/ Moved
      /\ One(q, v) =>
           /\ \A d, e \in chains' : \A i \in 1 .. Len(d), j \in 1 .. Len(e) :
                Has(d[i], q, v) /\ Has(e[j], q, v) => d = e /\ i = j
           /\ ~ (InChain(q, v)' /\ Moved)
  BY ChainLeaves
<1>2. Moved <=> \E i \in 1 .. Len(es) : Has(es[i], q, v)
  BY DEF Permutes, Alike
<1>3. InRing(q, v)' <=> InRing(q, v) \/ Moved
  BY <1>2, RingGrows
<1>4. InQueue(q, v)' <=> InQueue(q, v)
  BY DEF InQueue
<1>5. ASSUME One(q, v) PROVE One(q, v)'
  <2>1. \A i, j \in 1 .. Len(es) : Has(es[i], q, v) /\ Has(es[j], q, v) => i = j
    <3>1. SUFFICES ASSUME NEW i \in 1 .. Len(es), NEW j \in 1 .. Len(es),
                          Has(es[i], q, v), Has(es[j], q, v)
                   PROVE  i = j
      OBVIOUS
    <3>2. /\ Has(c[p[i]], q, v) /\ Has(c[p[j]], q, v)
          /\ p[i] \in 1 .. Len(c) /\ p[j] \in 1 .. Len(c)
      BY <3>1 DEF Permutes, Alike
    <3>3. \A k, l \in 1 .. Len(c) : Has(c[k], q, v) /\ Has(c[l], q, v) => k = l
      BY <1>5 DEF One
    <3>4. p[i] = p[j]
      BY <3>2, <3>3
    <3>5. QED
      BY <3>4 DEF Permutes
  <2>2. Moved => InChain(q, v)
    BY <1>1
  <2>3. \A i, j \in 1 .. Len(cq') : Has(cq'[i], q, v) /\ Has(cq'[j], q, v) => i = j
    BY <1>2, <1>5, <2>1, <2>2, RingGrows DEF One
  <2>4. /\ ~ (InQueue(q, v)' /\ InChain(q, v)')
        /\ ~ (InQueue(q, v)' /\ InRing(q, v)')
        /\ ~ (InChain(q, v)' /\ InRing(q, v)')
    BY <1>1, <1>3, <1>4, <1>5 DEF One
  <2>5. QED
    BY <1>1, <1>5, <2>3, <2>4 DEF One
<1>6. QED
  BY <1>1, <1>3, <1>4, <1>5 DEF Some

\* The head of a chain is answered and the rest goes on.
LEMMA HeadAnswered ==
  ASSUME TypeOK, NEW c \in chains, Len(c) > 1, chains' = (chains \ {c}) \cup {Tail(c)},
         queue' = queue, NEW f \in Cqes, cq' = cq \o <<f>>, NEW q, NEW v,
         Has(f, q, v) <=> Has(c[1], q, v)
  PROVE  (One(q, v) => One(q, v)') /\ (Some(q, v)' <=> Some(q, v))
<1>1. PICK r : /\ r = Tail(c) /\ Len(r) = Len(c) - 1 /\ Len(c) \in Nat
               /\ \A i \in 1 .. (Len(c) - 1) : r[i] = c[i + 1]
  <2>1. c \in Seq(Sqes) /\ c # <<>>
    BY DEF TypeOK
  <2>2. QED
    BY <2>1, Behead
<1>2. chains' = (chains \ {c}) \cup {r} /\ r # c
  BY <1>1
<1>3. PICK es \in Seq(Cqes) : es = <<f>>
  <2>1. <<f>> \in Seq(Cqes)
    OBVIOUS
  <2>2. QED
    BY <2>1
<1>4. Len(es) = 1 /\ es[1] = f
  BY <1>3
<1> DEFINE Gone == Has(c[1], q, v)
           Left == \E i \in 1 .. Len(r) : Has(r[i], q, v)
           Other == \E d \in chains \ {c} : \E i \in 1 .. Len(d) : Has(d[i], q, v)
<1> HIDE DEF Has
<1>5. /\ \A i \in 1 .. Len(r) : r[i] = c[i + 1] /\ i + 1 \in 1 .. Len(c)
      /\ \A i \in 1 .. Len(c) : i = 1 \/ \E j \in 1 .. Len(r) : i = j + 1
      /\ 1 \in 1 .. Len(c) /\ \A j \in 1 .. Len(r) : j + 1 # 1
      /\ \A i, j \in 1 .. Len(r) : i + 1 = j + 1 => i = j
  <2>1. ASSUME NEW i \in 1 .. Len(c), i # 1 PROVE \E j \in 1 .. Len(r) : i = j + 1
    <3>1. i - 1 \in 1 .. Len(r) /\ i = (i - 1) + 1
      BY <1>1, <2>1
    <3>2. QED
      BY <3>1
  <2>2. QED
    BY <1>1, <2>1
<1>6. (\E i \in 1 .. Len(c) : Has(c[i], q, v)) <=> Gone \/ Left
  BY <1>5
<1>7. InChain(q, v) <=> Gone \/ Left \/ Other
  BY <1>6 DEF InChain
<1>8. InChain(q, v)' <=> Left \/ Other
  BY <1>2 DEF InChain
<1>9. InRing(q, v)' <=> InRing(q, v) \/ Gone
  <2>1. (\E i \in 1 .. Len(es) : Has(es[i], q, v)) <=> Gone
    BY <1>4
  <2>2. QED
    BY <1>3, <2>1, RingGrows
<1>10. InQueue(q, v)' <=> InQueue(q, v)
  BY DEF InQueue
<1>11. ASSUME One(q, v) PROVE One(q, v)'
  <2>1. ~ (Gone /\ Left) /\ ~ (Gone /\ Other) /\ ~ (Left /\ Other)
    <3>1. ASSUME NEW j \in 1 .. Len(r), Has(r[j], q, v), Gone PROVE FALSE
      <4>1. j + 1 = 1
        BY <1>5, <1>11, <3>1 DEF One
      <4>2. QED
        BY <1>5, <4>1
    <3>2. ASSUME Gone \/ Left, NEW d \in chains \ {c}, NEW i \in 1 .. Len(d), Has(d[i], q, v)
          PROVE  FALSE
      BY <1>6, <1>11, <3>2 DEF One
    <3>3. QED
      BY <3>1, <3>2
  <2>2. ASSUME NEW d \in chains', NEW e \in chains', NEW i \in 1 .. Len(d), NEW j \in 1 .. Len(e),
               Has(d[i], q, v), Has(e[j], q, v)
        PROVE  d = e /\ i = j
    <3>1. CASE d # r /\ e # r
      BY <1>2, <1>11, <2>2, <3>1 DEF One
    <3>2. CASE d = r /\ e = r
      <4>1. i + 1 = j + 1
        BY <1>5, <1>11, <2>2, <3>2 DEF One
      <4>2. QED
        BY <1>5, <3>2, <4>1, <2>2
    <3>3. CASE (d = r /\ e # r) \/ (d # r /\ e = r)
      BY <1>2, <2>1, <2>2, <3>3
    <3>4. QED
      BY <3>1, <3>2, <3>3
  <2>3. \A i, j \in 1 .. Len(cq') : Has(cq'[i], q, v) /\ Has(cq'[j], q, v) => i = j
    <3>1. \A i, j \in 1 .. Len(es) : Has(es[i], q, v) /\ Has(es[j], q, v) => i = j
      BY <1>4
    <3>2. ~ (InRing(q, v) /\ \E i \in 1 .. Len(es) : Has(es[i], q, v))
      BY <1>4, <1>7, <1>11 DEF One
    <3>3. QED
      BY <1>3, <1>11, <3>1, <3>2, RingGrows DEF One
  <2>4. /\ ~ (InQueue(q, v)' /\ InChain(q, v)')
        /\ ~ (InQueue(q, v)' /\ InRing(q, v)')
        /\ ~ (InChain(q, v)' /\ InRing(q, v)')
    BY <1>7, <1>8, <1>9, <1>10, <1>11, <2>1 DEF One
  <2>5. QED
    BY <1>11, <2>2, <2>3, <2>4 DEF One
<1>12. QED
  BY <1>7, <1>8, <1>9, <1>10, <1>11 DEF Some

\* An answer leaves the ring.
LEMMA RingShrinks ==
  ASSUME TypeOK, cq # <<>>, cq' = Tail(cq), UNCHANGED <<queue, chains>>, NEW q, NEW v
  PROVE  /\ ~ Has(cq[1], q, v) => (One(q, v) => One(q, v)') /\ (Some(q, v)' <=> Some(q, v))
         /\ Has(cq[1], q, v) /\ One(q, v) => One(q, v)' /\ ~ Some(q, v)'
<1>1. /\ Len(cq') = Len(cq) - 1 /\ Len(cq) \in Nat \ {0}
      /\ \A i \in 1 .. (Len(cq) - 1) : cq'[i] = cq[i + 1]
  BY Sizes, Behead
<1> HIDE DEF Has
<1>2. /\ \A i \in 1 .. Len(cq') : cq'[i] = cq[i + 1] /\ i + 1 \in 1 .. Len(cq)
      /\ 1 \in 1 .. Len(cq) /\ \A i \in 1 .. Len(cq') : i + 1 # 1
      /\ \A i, j \in 1 .. Len(cq') : i + 1 = j + 1 => i = j
  BY <1>1
<1>3. ASSUME NEW i \in 1 .. Len(cq), i # 1 PROVE \E j \in 1 .. Len(cq') : i = j + 1
  <2>1. i - 1 \in 1 .. Len(cq') /\ i = (i - 1) + 1
    BY <1>1, <1>3
  <2>2. QED
    BY <2>1
<1>4. InRing(q, v) <=> InRing(q, v)' \/ Has(cq[1], q, v)
  <2>1. ASSUME NEW i \in 1 .. Len(cq), Has(cq[i], q, v), i # 1 PROVE InRing(q, v)'
    <3>1. PICK j \in 1 .. Len(cq') : i = j + 1
      BY <1>3, <2>1
    <3>2. Has(cq'[j], q, v)
      BY <1>2, <2>1, <3>1
    <3>3. QED
      BY <3>2 DEF InRing
  <2>2. InRing(q, v)' => \E j \in 1 .. Len(cq') : Has(cq[j + 1], q, v)
    BY <1>2 DEF InRing
  <2>3. QED
    BY <1>2, <2>1, <2>2 DEF InRing
<1>5. (InQueue(q, v)' <=> InQueue(q, v)) /\ (InChain(q, v)' <=> InChain(q, v))
  BY DEF InQueue, InChain
<1>6. ASSUME One(q, v) PROVE One(q, v)' /\ ~ (InRing(q, v)' /\ Has(cq[1], q, v))
  <2>1. ASSUME NEW i \in 1 .. Len(cq'), NEW j \in 1 .. Len(cq'),
               Has(cq'[i], q, v), Has(cq'[j], q, v)
        PROVE  i = j
    <3>1. i + 1 = j + 1
      BY <1>2, <1>6, <2>1 DEF One
    <3>2. QED
      BY <1>2, <3>1
  <2>2. ASSUME NEW i \in 1 .. Len(cq'), Has(cq'[i], q, v), Has(cq[1], q, v) PROVE FALSE
    <3>1. i + 1 = 1
      BY <1>2, <1>6, <2>2 DEF One
    <3>2. QED
      BY <1>2, <3>1
  <2>3. ~ (InRing(q, v)' /\ Has(cq[1], q, v))
    BY <2>2 DEF InRing
  <2>4. /\ ~ (InQueue(q, v)' /\ InChain(q, v)')
        /\ ~ (InQueue(q, v)' /\ InRing(q, v)')
        /\ ~ (InChain(q, v)' /\ InRing(q, v)')
    BY <1>4, <1>5, <1>6 DEF One
  <2>5. QED
    BY <1>6, <2>1, <2>3, <2>4 DEF One
<1>7. QED
  BY <1>4, <1>5, <1>6 DEF Some, One

\* A chain of one request is answered together with the chain it cancels.
LEMMA TwoAnswered ==
  ASSUME TypeOK, NEW c \in chains, NEW d \in chains, c # d, Len(c) = 1,
         chains' = chains \ {c, d}, queue' = queue,
         NEW es \in Seq(Cqes), cq' = cq \o es, Len(es) = Len(d) + 1, NEW q, NEW v,
         \A i \in 1 .. Len(d) : Has(es[i], q, v) <=> Has(d[i], q, v),
         Has(es[Len(d) + 1], q, v) <=> Has(c[1], q, v)
  PROVE  (One(q, v) => One(q, v)') /\ (Some(q, v)' <=> Some(q, v))
<1> DEFINE Moved == Has(c[1], q, v) \/ \E i \in 1 .. Len(d) : Has(d[i], q, v)
           Other == \E e \in chains \ {c, d} : \E i \in 1 .. Len(e) : Has(e[i], q, v)
<1> HIDE DEF Has
<1>1. /\ Len(d) \in Nat \ {0} /\ 1 \in 1 .. Len(c) /\ \A i \in 1 .. Len(c) : i = 1
      /\ \A i \in 1 .. Len(es) : i \in 1 .. Len(d) \/ i = Len(d) + 1
      /\ \A i \in 1 .. Len(d) : i \in 1 .. Len(es)
      /\ Len(d) + 1 \in 1 .. Len(es)
  BY Sizes
<1>2. Moved <=> \E i \in 1 .. Len(es) : Has(es[i], q, v)
  BY <1>1
<1>3. InRing(q, v)' <=> InRing(q, v) \/ Moved
  BY <1>2, RingGrows
<1>4. InQueue(q, v)' <=> InQueue(q, v)
  BY DEF InQueue
<1>5. (InChain(q, v) <=> Moved \/ Other) /\ (InChain(q, v)' <=> Other)
  BY <1>1 DEF InChain
<1>6. ASSUME One(q, v) PROVE One(q, v)'
  <2>1. \A i, j \in 1 .. Len(es) : Has(es[i], q, v) /\ Has(es[j], q, v) => i = j
    <3>1. \A i, j \in 1 .. Len(d) : Has(d[i], q, v) /\ Has(d[j], q, v) => i = j
      BY <1>6 DEF One
    <3>2. ~ (Has(c[1], q, v) /\ \E i \in 1 .. Len(d) : Has(d[i], q, v))
      BY <1>1, <1>6 DEF One
    <3>3. QED
      BY <1>1, <3>1, <3>2
  <2>2. ~ (Moved /\ Other)
    <3>1. ASSUME NEW e \in chains \ {c, d}, NEW i \in 1 .. Len(e), Has(e[i], q, v), Moved
          PROVE  FALSE
      BY <1>1, <1>6, <3>1 DEF One
    <3>2. QED
      BY <3>1
  <2>3. \A i, j \in 1 .. Len(cq') : Has(cq'[i], q, v) /\ Has(cq'[j], q, v) => i = j
    BY <1>2, <1>5, <1>6, <2>1, RingGrows DEF One
  <2>4. /\ ~ (InQueue(q, v)' /\ InChain(q, v)')
        /\ ~ (InQueue(q, v)' /\ InRing(q, v)')
        /\ ~ (InChain(q, v)' /\ InRing(q, v)')
    BY <1>3, <1>4, <1>5, <1>6, <2>2 DEF One
  <2>5. QED
    BY <1>6, <2>3, <2>4 DEF One
<1>7. QED
  BY <1>3, <1>4, <1>5, <1>6 DEF Some

\* Something new comes up the ring with the k-th answer.
LEMMA Enters ==
  ASSUME TypeOK, queue' = queue, NEW es \in Seq(Cqes), cq' = cq \o es, NEW q, NEW v,
         ~ Some(q, v), ~ InChain(q, v)', NEW k \in 1 .. Len(es),
         \A i \in 1 .. Len(es) : Has(es[i], q, v) <=> i = k
  PROVE  One(q, v)' /\ Some(q, v)'
<1> HIDE DEF Has
<1>1. ~ InQueue(q, v)' /\ ~ InChain(q, v)' /\ ~ InRing(q, v)
  BY DEF Some, InQueue
<1>2. InRing(q, v)' <=> InRing(q, v) \/ \E i \in 1 .. Len(es) : Has(es[i], q, v)
  BY RingGrows
<1>3. \A i, j \in 1 .. Len(cq') : Has(cq'[i], q, v) /\ Has(cq'[j], q, v) => i = j
  <2>1. /\ \A i, j \in 1 .. Len(cq) : Has(cq[i], q, v) /\ Has(cq[j], q, v) => i = j
        /\ \A i, j \in 1 .. Len(es) : Has(es[i], q, v) /\ Has(es[j], q, v) => i = j
    BY <1>1 DEF InRing
  <2>2. QED
    BY <1>1, <2>1, RingGrows
<1>4. /\ \A i, j \in 1 .. Len(queue') : Has(queue'[i], q, v) /\ Has(queue'[j], q, v) => i = j
      /\ \A d, e \in chains' : \A i \in 1 .. Len(d), j \in 1 .. Len(e) :
           Has(d[i], q, v) /\ Has(e[j], q, v) => d = e /\ i = j
  BY <1>1 DEF InQueue, InChain
<1>5. QED
  BY <1>1, <1>2, <1>3, <1>4 DEF One, Some

\* What a chain of one request has goes no further.
LEMMA Leaves ==
  ASSUME TypeOK, queue' = queue, NEW c \in chains, Len(c) = 1, chains' = chains \ {c},
         NEW es \in Seq(Cqes), cq' = cq \o es, NEW q, NEW v, One(q, v), Has(c[1], q, v),
         \A i \in 1 .. Len(es) : ~ Has(es[i], q, v)
  PROVE  One(q, v)' /\ ~ Some(q, v)'
<1> HIDE DEF Has
<1>1. 1 \in 1 .. Len(c)
  OBVIOUS
<1>2. InChain(q, v) /\ ~ InChain(q, v)'
  BY <1>1, ChainLeaves DEF InChain
<1>3. ~ InQueue(q, v)' /\ ~ InRing(q, v)
  BY <1>2 DEF One, InQueue
<1>4. ~ InRing(q, v)'
  BY <1>3, RingGrows
<1>5. QED
  BY <1>2, <1>3, <1>4 DEF One, Some, InQueue, InChain, InRing

-----------------------------------------------------------------------------
(* What the SQEs and CQEs are.                                              *)

\* A receive on its way belongs to the thread that allocated its completion; any other
\* request is the one its thread waits for, and has not been answered yet.
Fits(s) ==
  IF s.op = "recv" THEN s.at \in Addresses /\ allocated[s.at] = s.by
  ELSE pc[s.by] = s.op /\ answer[s.by] = None

SqeBid(s) == s.bid # None <=> s.op = "provide"
CqeBid(s) == s.bid # None => s.op \in {"recv", "provide"}

\* In a chain, only the last request is not a receive.
ChainShape(c) == \A i \in 1 .. Len(c) : c[i].op = "recv" <=> i < Len(c)

CarrierInv ==
  /\ \A i \in 1 .. Len(queue) : Fits(queue[i]) /\ SqeBid(queue[i])
  /\ \A c \in chains : ChainShape(c) /\ \A i \in 1 .. Len(c) : Fits(c[i]) /\ SqeBid(c[i])
  /\ \A i \in 1 .. Len(cq) : Fits(cq[i]) /\ CqeBid(cq[i])

\* Answer e is of request s, and has its buffer, unless it goes way r with buffer b or
\* takes it away.
Gives(e, s, r, b) ==
  /\ e.op = s.op /\ e.by = s.by /\ e.at = s.at
  /\ CqeBid(e)
  /\ e.bid # s.bid =>
       /\ {e.bid, s.bid} \subseteq {b, None}
       /\ r = IF s.op = "recv" THEN "up" ELSE "down"

Keeps(q, v) == (One(q, v) => One(q, v)') /\ (Some(q, v)' <=> Some(q, v))

\* What is carried, but for buffer b on its way r.
Shared(q, v, r, b) ==
  q \in {"at", "by"} \/ (q \in {"up", "down"} /\ v # None /\ ~ (q = r /\ v = b))

\* What the steps of the worker and the kernel leave of the carriers.
Carried(r, b) ==
  /\ queue' \in Seq(Sqes) /\ chains' \subseteq (Seq(Sqes) \ {<<>>}) /\ cq' \in Seq(Cqes)
  /\ CarrierInv'
  /\ \A q, v : Shared(q, v, r, b) => Keeps(q, v)

\* An answer has what its request has.
LEMMA GivesKeys ==
  ASSUME NEW e, NEW s, NEW r, NEW b, Gives(e, s, r, b)
  PROVE  /\ \A q, v : Shared(q, v, r, b) => (Has(e, q, v) <=> Has(s, q, v))
         /\ Fits(e) <=> Fits(s)
         /\ CqeBid(e)
BY DEF Gives, Has, Fits, Shared

\* Answers like those of the ring make a ring like the ring.
LEMMA RingFits ==
  ASSUME TypeOK, CarrierInv, UNCHANGED <<pc, answer, allocated>>,
         NEW es \in Seq(Cqes), cq' = cq \o es,
         \A i \in 1 .. Len(es) : Fits(es[i]) /\ CqeBid(es[i])
  PROVE  /\ cq' \in Seq(Cqes)
         /\ \A i \in 1 .. Len(cq') : Fits(cq'[i]) /\ CqeBid(cq'[i])
<1>1. cq' \in Seq(Cqes)
  BY Sizes, Concatenated
<1>2. ASSUME NEW i \in 1 .. Len(cq') PROVE Fits(cq'[i]) /\ CqeBid(cq'[i])
  <2>1. /\ \A k \in 1 .. Len(cq) : cq'[k] = cq[k]
        /\ \A k \in 1 .. Len(es) : cq'[Len(cq) + k] = es[k]
        /\ i \in 1 .. Len(cq) \/ \E k \in 1 .. Len(es) : i = Len(cq) + k
    BY Posted
  <2>2. CASE i \in 1 .. Len(cq)
    BY <2>1, <2>2 DEF CarrierInv
  <2>3. ASSUME NEW k \in 1 .. Len(es), i = Len(cq) + k PROVE Fits(cq'[i]) /\ CqeBid(cq'[i])
    BY <2>1, <2>3
  <2>4. QED
    BY <2>1, <2>2, <2>3
<1>3. QED
  BY <1>1, <1>2

\* CarrierInv after a step that leaves the threads and the heap alone.
LEMMA CarrierFrame ==
  ASSUME UNCHANGED <<pc, answer, allocated>>,
         \A i \in 1 .. Len(queue') : Fits(queue'[i]) /\ SqeBid(queue'[i]),
         \A c \in chains' : ChainShape(c) /\ \A i \in 1 .. Len(c) : Fits(c[i]) /\ SqeBid(c[i]),
         \A i \in 1 .. Len(cq') : Fits(cq'[i]) /\ CqeBid(cq'[i])
  PROVE  CarrierInv'
BY DEF CarrierInv, Fits, ChainShape, SqeBid, CqeBid

\* A chain is answered, in any order: what is carried stays.
LEMMA ChainEffect ==
  ASSUME TypeOK, CarrierInv, UNCHANGED <<pc, answer, allocated>>,
         NEW c \in chains, chains' = chains \ {c}, queue' = queue,
         NEW es \in Seq(Cqes), cq' = cq \o es, NEW r, NEW b, NEW p,
         Permutes(p, es, c), \A i \in 1 .. Len(es) : Gives(es[i], c[p[i]], r, b)
  PROVE  Carried(r, b)
<1>1. \A i \in 1 .. Len(es) : Fits(es[i]) /\ CqeBid(es[i])
  BY GivesKeys DEF CarrierInv, Permutes
<1>2. /\ cq' \in Seq(Cqes)
      /\ \A i \in 1 .. Len(cq') : Fits(cq'[i]) /\ CqeBid(cq'[i])
  BY <1>1, RingFits
<1>3. CarrierInv'
  <2>1. /\ \A i \in 1 .. Len(queue') : Fits(queue'[i]) /\ SqeBid(queue'[i])
        /\ \A d \in chains' : ChainShape(d) /\ \A i \in 1 .. Len(d) : Fits(d[i]) /\ SqeBid(d[i])
    BY DEF CarrierInv
  <2>2. QED
    BY <1>2, <2>1, CarrierFrame
<1>4. ASSUME NEW q, NEW v, Shared(q, v, r, b) PROVE Keeps(q, v)
  <2>1. Alike(p, es, c, q, v)
    BY <1>4, GivesKeys DEF Alike
  <2>2. (One(q, v) => One(q, v)') /\ (Some(q, v)' <=> Some(q, v))
    BY <2>1, ChainAnswered
  <2>3. QED
    BY <2>2 DEF Keeps
<1>5. queue' \in Seq(Sqes) /\ chains' \subseteq (Seq(Sqes) \ {<<>>})
  BY DEF TypeOK
<1>6. QED
  BY <1>2, <1>3, <1>4, <1>5 DEF Carried

\* The head of a chain is answered and the rest goes on: what is carried stays.
LEMMA HeadEffect ==
  ASSUME TypeOK, CarrierInv, UNCHANGED <<pc, answer, allocated>>,
         NEW c \in chains, Len(c) > 1, chains' = (chains \ {c}) \cup {Tail(c)}, queue' = queue,
         NEW f \in Cqes, cq' = cq \o <<f>>, NEW r, NEW b, Gives(f, c[1], r, b)
  PROVE  Carried(r, b)
<1>1. c \in Seq(Sqes) /\ c # <<>> /\ 1 \in 1 .. Len(c)
  BY Sizes DEF TypeOK
<1>2. /\ <<f>> \in Seq(Cqes) /\ Len(<<f>>) = 1 /\ <<f>>[1] = f
  OBVIOUS
<1>3. /\ cq' \in Seq(Cqes)
      /\ \A i \in 1 .. Len(cq') : Fits(cq'[i]) /\ CqeBid(cq'[i])
  <2>1. Fits(f) /\ CqeBid(f)
    BY <1>1, GivesKeys DEF CarrierInv
  <2>2. \A i \in 1 .. Len(<<f>>) : Fits(<<f>>[i]) /\ CqeBid(<<f>>[i])
    BY <1>2, <2>1
  <2>3. QED
    BY <1>2, <2>2, RingFits
<1>4. /\ Tail(c) \in Seq(Sqes) /\ Len(Tail(c)) = Len(c) - 1 /\ Len(c) \in Nat
      /\ \A i \in 1 .. (Len(c) - 1) : Tail(c)[i] = c[i + 1]
  BY <1>1, Behead
<1>5. queue' \in Seq(Sqes) /\ chains' \subseteq (Seq(Sqes) \ {<<>>})
  <2>1. PICK d : d = Tail(c)
    OBVIOUS
  <2>2. d \in Seq(Sqes) /\ Len(d) = Len(c) - 1 /\ chains' = (chains \ {c}) \cup {d}
    BY <1>4, <2>1
  <2>3. d # <<>>
    BY <1>4, <2>2
  <2>4. QED
    BY <2>2, <2>3 DEF TypeOK
<1>6. CarrierInv'
  <2>1. ASSUME NEW i \in 1 .. Len(Tail(c))
        PROVE  /\ Fits(Tail(c)[i]) /\ SqeBid(Tail(c)[i])
               /\ Tail(c)[i].op = "recv" <=> i < Len(Tail(c))
    <3>1. i + 1 \in 1 .. Len(c) /\ Tail(c)[i] = c[i + 1]
      BY <1>4
    <3>2. i + 1 < Len(c) <=> i < Len(Tail(c))
      BY <1>4
    <3>3. QED
      BY <3>1, <3>2 DEF CarrierInv, ChainShape
  <2>2. ChainShape(Tail(c))
    BY <2>1 DEF ChainShape
  <2>3. /\ \A i \in 1 .. Len(queue') : Fits(queue'[i]) /\ SqeBid(queue'[i])
        /\ \A d \in chains' : ChainShape(d) /\ \A i \in 1 .. Len(d) : Fits(d[i]) /\ SqeBid(d[i])
    BY <2>1, <2>2 DEF CarrierInv
  <2>4. QED
    BY <1>3, <2>3, CarrierFrame
<1>7. ASSUME NEW q, NEW v, Shared(q, v, r, b) PROVE Keeps(q, v)
  <2>1. Has(f, q, v) <=> Has(c[1], q, v)
    BY <1>7, GivesKeys
  <2>2. QED
    BY <2>1, HeadAnswered DEF Keeps
<1>8. QED
  BY <1>3, <1>5, <1>6, <1>7 DEF Carried

\* A request that cancels a chain and this chain are answered: what is carried stays.
LEMMA TwoEffect ==
  ASSUME TypeOK, CarrierInv, UNCHANGED <<pc, answer, allocated>>,
         NEW c \in chains, NEW d \in chains, c # d, Len(c) = 1,
         chains' = chains \ {c, d}, queue' = queue,
         NEW es \in Seq(Cqes), cq' = cq \o es, Len(es) = Len(d) + 1, NEW r, NEW b,
         \A i \in 1 .. Len(d) : Gives(es[i], d[i], r, b), Gives(es[Len(d) + 1], c[1], r, b)
  PROVE  Carried(r, b)
<1>1. /\ Len(d) \in Nat \ {0} /\ 1 \in 1 .. Len(c)
      /\ \A i \in 1 .. Len(es) : i \in 1 .. Len(d) \/ i = Len(d) + 1
  BY Sizes
<1>2. \A i \in 1 .. Len(es) : Fits(es[i]) /\ CqeBid(es[i])
  <2>1. \A i \in 1 .. Len(d) : Fits(es[i]) /\ CqeBid(es[i])
    BY GivesKeys DEF CarrierInv
  <2>2. Fits(es[Len(d) + 1]) /\ CqeBid(es[Len(d) + 1])
    BY <1>1, GivesKeys DEF CarrierInv
  <2>3. QED
    BY <1>1, <2>1, <2>2
<1>3. /\ cq' \in Seq(Cqes)
      /\ \A i \in 1 .. Len(cq') : Fits(cq'[i]) /\ CqeBid(cq'[i])
  BY <1>2, RingFits
<1>4. CarrierInv'
  <2>1. /\ \A i \in 1 .. Len(queue') : Fits(queue'[i]) /\ SqeBid(queue'[i])
        /\ \A e \in chains' : ChainShape(e) /\ \A i \in 1 .. Len(e) : Fits(e[i]) /\ SqeBid(e[i])
    BY DEF CarrierInv
  <2>2. QED
    BY <1>3, <2>1, CarrierFrame
<1>5. ASSUME NEW q, NEW v, Shared(q, v, r, b) PROVE Keeps(q, v)
  <2>1. /\ \A i \in 1 .. Len(d) : Has(es[i], q, v) <=> Has(d[i], q, v)
        /\ Has(es[Len(d) + 1], q, v) <=> Has(c[1], q, v)
    BY <1>5, GivesKeys
  <2>2. QED
    BY <2>1, TwoAnswered DEF Keeps
<1>6. queue' \in Seq(Sqes) /\ chains' \subseteq (Seq(Sqes) \ {<<>>})
  BY DEF TypeOK
<1>7. QED
  BY <1>3, <1>4, <1>5, <1>6 DEF Carried

\* The worker submits the requests up to n, and the kernel takes them or refuses them: what
\* is carried stays.
LEMMA SubmitEffect ==
  ASSUME TypeOK, CarrierInv, UNCHANGED <<pc, answer, allocated>>,
         NEW n \in 1 .. Len(queue), queue' = SubSeq(queue, n + 1, Len(queue)),
         ~ Linked(queue[n]), \A i \in 1 .. n - 1 : Linked(queue[i]),
         \/ chains' = chains \cup {SubSeq(queue, 1, n)} /\ cq' = cq
         \/ chains' = chains /\ \E es \in Seq(Cqes) :
              /\ cq' = cq \o es /\ Len(es) = n
              /\ \A i \in 1 .. n : Gives(es[i], queue[i], "none", None)
  PROVE  Carried("none", None)
<1>1. /\ queue' \in Seq(Sqes) /\ Len(queue') = Len(queue) - n /\ Len(queue) \in Nat
      /\ \A i \in 1 .. (Len(queue) - n) : queue'[i] = queue[n + i]
      /\ SubSeq(queue, 1, n) \in Seq(Sqes) /\ Len(SubSeq(queue, 1, n)) = n
      /\ \A i \in 1 .. n : SubSeq(queue, 1, n)[i] = queue[i]
  BY Sizes, Divided
<1>3. \A i \in 1 .. Len(queue') : Fits(queue'[i]) /\ SqeBid(queue'[i])
  <2>1. SUFFICES ASSUME NEW i \in 1 .. Len(queue')
                 PROVE  Fits(queue'[i]) /\ SqeBid(queue'[i])
    OBVIOUS
  <2>2. n + i \in 1 .. Len(queue) /\ queue'[i] = queue[n + i]
    BY <1>1
  <2>3. QED
    BY <2>2 DEF CarrierInv
<1>4. \A i \in 1 .. n : i \in 1 .. Len(queue)
  BY <1>1
<1>5. CASE chains' = chains \cup {SubSeq(queue, 1, n)} /\ cq' = cq
  <2>1. PICK c : c = SubSeq(queue, 1, n)
    OBVIOUS
  <2>2. /\ c \in Seq(Sqes) /\ Len(c) = n /\ c # <<>>
        /\ \A i \in 1 .. Len(c) : c[i] = queue[i]
    BY <1>1, <2>1
  <2>3. ChainShape(c)
    <3>1. SUFFICES ASSUME NEW i \in 1 .. n PROVE queue[i].op = "recv" <=> i < n
      BY <2>2 DEF ChainShape
    <3>2. i = n \/ i \in 1 .. n - 1
      OBVIOUS
    <3>3. QED
      BY <3>1, <3>2 DEF Linked
  <2>4. \A i \in 1 .. Len(c) : Fits(c[i]) /\ SqeBid(c[i])
    BY <1>4, <2>2 DEF CarrierInv
  <2>5. chains' = chains \cup {c} /\ cq' = cq
    BY <1>5, <2>1
  <2>6. CarrierInv'
    <3>1. \A i \in 1 .. Len(cq') : Fits(cq'[i]) /\ CqeBid(cq'[i])
      BY <2>5 DEF CarrierInv
    <3>2. \A d \in chains' : ChainShape(d) /\ \A i \in 1 .. Len(d) : Fits(d[i]) /\ SqeBid(d[i])
      BY <2>3, <2>4, <2>5 DEF CarrierInv
    <3>3. QED
      BY <1>3, <3>1, <3>2, CarrierFrame
  <2>7. chains' \subseteq (Seq(Sqes) \ {<<>>}) /\ cq' \in Seq(Cqes)
    BY <2>2, <2>5 DEF TypeOK
  <2>8. \A q, v : Keeps(q, v)
    BY <1>5, Chained DEF Keeps
  <2>9. QED
    BY <1>1, <2>6, <2>7, <2>8 DEF Carried
<1>6. ASSUME chains' = chains, NEW es \in Seq(Cqes), cq' = cq \o es, Len(es) = n,
             \A i \in 1 .. n : Gives(es[i], queue[i], "none", None)
      PROVE  Carried("none", None)
  <2>1. \A i \in 1 .. Len(es) : Fits(es[i]) /\ CqeBid(es[i])
    BY <1>4, <1>6, GivesKeys DEF CarrierInv
  <2>2. /\ cq' \in Seq(Cqes)
        /\ \A i \in 1 .. Len(cq') : Fits(cq'[i]) /\ CqeBid(cq'[i])
    BY <1>6, <2>1, RingFits
  <2>3. CarrierInv'
    <3>1. \A d \in chains' : ChainShape(d) /\ \A i \in 1 .. Len(d) : Fits(d[i]) /\ SqeBid(d[i])
      BY <1>6 DEF CarrierInv
    <3>2. QED
      BY <1>3, <2>2, <3>1, CarrierFrame
  <2>4. chains' \subseteq (Seq(Sqes) \ {<<>>})
    BY <1>6 DEF TypeOK
  <2>5. ASSUME NEW q, NEW v, Shared(q, v, "none", None) PROVE Keeps(q, v)
    <3>1. \A i \in 1 .. n : Has(es[i], q, v) <=> Has(queue[i], q, v)
      BY <1>6, <2>5, GivesKeys
    <3>2. QED
      BY <1>6, <3>1, Answered DEF Keeps
  <2>6. QED
    BY <1>1, <2>2, <2>3, <2>4, <2>5 DEF Carried
<1>7. QED
  BY <1>5, <1>6

-----------------------------------------------------------------------------
(* The invariant.                                                           *)

\* An address, a turn and a buffer are carried once.
OnceInv ==
  /\ \A a \in Addresses : One("at", a)
  /\ \A t \in Threads : One("by", t)
  /\ \A b \in Buffers : One("up", b) /\ One("down", b)

\* An answer is the one its thread waits for; a future has a value only after its completion
\* is deleted, even when another one is at the same address.
ThreadInv ==
  \A t \in Threads :
    /\ answer[t] # None =>
         /\ answer[t].op = pc[t] /\ answer[t].by = t
         /\ answer[t].bid # None => answer[t].op = "provide"
    /\ pc[t] \in {"idle", "use", "provide"} => token[t] = None /\ value[t] = None
    /\ value[t] # None => token[t] # None /\ allocated[token[t]] # t
    /\ pc[t] = "use" <=> buffer[t] # None

\* The places of a buffer: on its way up or down, in a future, in the answer of a hand-back,
\* and so on.
Places == {"kernel", "up", "down", "value", "buffer", "answer", "lost"}

At(b, x) ==
  \/ x = "kernel" /\ b \in group
  \/ x \in {"up", "down"} /\ Some(x, b)
  \/ x = "value" /\ \E t \in Threads : value[t] = b
  \/ x = "buffer" /\ \E t \in Threads : buffer[t] = b
  \/ x = "answer" /\ \E t \in Threads : answer[t] # None /\ answer[t].bid = b
  \/ x = "lost" /\ \E l \in lost : l.bid = b

OnePlace(b) == \E w \in Places : \A x \in Places : At(b, x) <=> x = w

\* Of the threads, at most one has it, and no two lost it.
Single(b) ==
  /\ \A t, u \in Threads : value[t] = b /\ value[u] = b => t = u
  /\ \A t, u \in Threads : buffer[t] = b /\ buffer[u] = b => t = u
  /\ \A t, u \in Threads :
       answer[t] # None /\ answer[u] # None /\ answer[t].bid = b /\ answer[u].bid = b => t = u
  /\ \A l, m \in lost : l.bid = b /\ m.bid = b => l = m

BufferInv == \A b \in Buffers : OnePlace(b) /\ Single(b)

BuffersInv == TypeOK /\ CarrierInv /\ OnceInv /\ ThreadInv /\ BufferInv

\* Where a buffer goes in one step: no other way, and no two buffers at a time.
Ways == {<<"kernel", "up">>, <<"up", "value">>, <<"value", "buffer">>, <<"buffer", "down">>,
         <<"down", "kernel">>, <<"down", "answer">>, <<"up", "lost">>, <<"value", "lost">>,
         <<"answer", "lost">>}

Unmoved(b) == \A x \in Places : At(b, x)' <=> At(b, x)
Moved(b)   == \E v, w \in Places : <<v, w>> \in Ways /\ At(b, v) /\ At(b, w)'
Travels    == \E e : (\A b \in Buffers : b = e \/ Unmoved(b)) /\ (e \in Buffers => Moved(e))

\* No address or turn comes to an SQE or CQE or leaves the last of them.
Steady == \A v : \A q \in {"at", "by"} : Some(q, v)' <=> Some(q, v)

\* A buffer goes from one place to another.
LEMMA Moves ==
  ASSUME NEW b, NEW v \in Places, NEW w \in Places, v # w, OnePlace(b),
         At(b, v), ~ At(b, v)', At(b, w)',
         \A x \in Places : x \notin {v, w} => (At(b, x)' <=> At(b, x))
  PROVE  OnePlace(b)'
<1> HIDE DEF At
<1>1. \A x \in Places : At(b, x) <=> x = v
  BY DEF OnePlace
<1>2. \A x \in Places : At(b, x)' <=> x = w
  BY <1>1
<1>3. QED
  BY <1>2 DEF OnePlace, Places

\* A buffer stays where it is.
LEMMA Stays ==
  ASSUME NEW b, OnePlace(b), \A x \in Places : At(b, x)' <=> At(b, x)
  PROVE  OnePlace(b)'
<1> HIDE DEF At
<1> QED
  BY DEF OnePlace, Places

\* A buffer is in no other place than one.
LEMMA NowhereElse ==
  ASSUME NEW b, NEW v \in Places, OnePlace(b), At(b, v)
  PROVE  \A x \in Places : x # v => ~ At(b, x)
<1> HIDE DEF At
<1> QED
  BY DEF OnePlace

\* What the worker and the kernel do keeps the invariant.
LEMMA CarriedKeeps ==
  ASSUME BuffersInv, UNCHANGED <<threadVars, allocated, lost>>, NEW r, NEW e \in Buffers \cup {None},
         Carried(r, e), e \in Buffers => r \in {"up", "down"} /\ One(r, e)' /\ OnePlace(e)' /\ Moved(e),
         group' \subseteq Buffers, \A b \in Buffers : b # e => (b \in group' <=> b \in group),
         bare' \subseteq Threads, misread' \subseteq Threads, late' \subseteq Threads,
         mixed' \subseteq Threads
  PROVE  BuffersInv' /\ Travels /\ Steady
<1>1. TypeOK'
  BY DEF BuffersInv, TypeOK, Carried, threadVars
<1>2. CarrierInv'
  BY DEF Carried
<1>3. ThreadInv'
  BY DEF BuffersInv, ThreadInv, threadVars
<1>4. \A b \in Buffers : Single(b)'
  BY DEF BuffersInv, BufferInv, Single, threadVars
<1> HIDE DEF Keeps
<1>5. \A q, v : Shared(q, v, r, e) => Keeps(q, v)
  BY DEF Carried
<1>6. OnceInv'
  <2>1. \A a \in Addresses : Keeps("at", a)
    BY <1>5 DEF Shared
  <2>2. \A t \in Threads : Keeps("by", t)
    BY <1>5 DEF Shared
  <2>3. \A b \in Buffers, q \in {"up", "down"} : (q = r /\ b = e) \/ Keeps(q, b)
    BY <1>5, BuffersAssumption DEF Shared
  <2>4. \A b \in Buffers, q \in {"up", "down"} : One(q, b)'
    BY <2>3 DEF BuffersInv, OnceInv, Keeps
  <2>5. QED
    BY <2>1, <2>2, <2>4 DEF BuffersInv, OnceInv, Keeps
<1>7. ASSUME NEW b \in Buffers PROVE OnePlace(b)' /\ (b = e \/ Unmoved(b))
  <2>1. CASE b = e
    BY <2>1
  <2>2. CASE b # e
    <3>1. (Some("up", b)' <=> Some("up", b)) /\ (Some("down", b)' <=> Some("down", b))
      BY <1>5, <2>2, BuffersAssumption DEF Shared, Keeps
    <3>2. \A x \in Places : At(b, x)' <=> At(b, x)
      BY <2>2, <3>1 DEF At, threadVars
    <3>3. QED
      BY <2>2, <3>2, Stays DEF BuffersInv, BufferInv, Unmoved
  <2>3. QED
    BY <2>1, <2>2
<1>8. BuffersInv'
  BY <1>1, <1>2, <1>3, <1>4, <1>6, <1>7 DEF BuffersInv, BufferInv
<1>9. Steady
  BY <1>5 DEF Shared, Keeps, Steady
<1>10. QED
  BY <1>7, <1>8, <1>9 DEF Travels

-----------------------------------------------------------------------------
(* The kernel.                                                              *)

\* What the actions of the kernel take from the invariant.
LEMMA ChainFacts ==
  ASSUME BuffersInv, NEW c \in chains
  PROVE  /\ c \in Seq(Sqes) /\ c # <<>> /\ Len(c) \in Nat \ {0} /\ 1 \in 1 .. Len(c)
         /\ \A i \in 1 .. Len(c) : c[i] \in Sqes /\ SqeBid(c[i])
         /\ \A i \in 1 .. Len(c) : c[i].op = "recv" <=> i < Len(c)
         /\ c[1].op = "recv" => Len(c) > 1
         /\ Guarded(c) => Len(c) = 2
         /\ c[1].op # "recv" => Len(c) = 1
         /\ \A i \in 1 .. Len(c) : c[i].by \in Threads
         /\ Bare(c) \subseteq Threads
<1>1. c \in Seq(Sqes) /\ c # <<>> /\ Len(c) \in Nat \ {0} /\ 1 \in 1 .. Len(c)
  BY Sizes DEF BuffersInv, TypeOK
<1>2. \A i \in 1 .. Len(c) : c[i] \in Sqes /\ SqeBid(c[i])
  BY Sizes DEF BuffersInv, CarrierInv
<1>3. \A i \in 1 .. Len(c) : c[i].op = "recv" <=> i < Len(c)
  BY DEF BuffersInv, CarrierInv, ChainShape
<1>4. /\ c[1].op = "recv" => Len(c) > 1
      /\ c[1].op # "recv" => Len(c) = 1
  <2>1. c[1].op = "recv" <=> 1 < Len(c)
    BY <1>1, <1>3
  <2>2. \A n \in Nat \ {0} : IF 1 < n THEN n > 1 ELSE n = 1
    OBVIOUS
  <2>3. QED
    BY <1>1, <2>1, <2>2
<1>5. ASSUME Guarded(c) PROVE Len(c) = 2
  <2>1. Len(c) > 1 /\ c[2].op = "timeout" /\ 2 \in 1 .. Len(c)
    BY <1>1, <1>5 DEF Guarded
  <2>2. ~ (2 < Len(c))
    BY <1>3, <2>1
  <2>3. \A n \in Nat : n > 1 /\ ~ (2 < n) => n = 2
    OBVIOUS
  <2>4. QED
    BY <1>1, <2>1, <2>2, <2>3
<1>6. \A i \in 1 .. Len(c) : c[i].by \in Threads
  BY <1>2 DEF Sqes
<1>7. Bare(c) \subseteq Threads
  BY <1>6 DEF Bare, Elements
<1>8. QED
  BY <1>1, <1>2, <1>3, <1>4, <1>5, <1>6, <1>7

\* An answer to SQE s, that selects no buffer and gives none back.
LEMMA PlainAnswer ==
  ASSUME NEW s \in Sqes, SqeBid(s), NEW res \in Results, NEW r, NEW b
  PROVE  /\ Answer(s, res, s.bid) \in Cqes /\ Gives(Answer(s, res, s.bid), s, r, b)
         /\ s.op # "provide" =>
              Answer(s, res, None) \in Cqes /\ Gives(Answer(s, res, None), s, r, b)
BY DEF Sqes, Cqes, Answer, Gives, SqeBid, CqeBid

\* The answer to a receive that selects buffer b.
LEMMA SelectingAnswer ==
  ASSUME NEW s \in Sqes, SqeBid(s), s.op = "recv", NEW res \in Results, NEW b \in Buffers
  PROVE  /\ Answer(s, res, b) \in Cqes /\ Gives(Answer(s, res, b), s, "up", b)
         /\ Has(Answer(s, res, b), "up", b)
BY DEF Sqes, Cqes, Answer, Gives, SqeBid, CqeBid, Has

\* The answer to a hand-back that has run.
LEMMA ProvidedAnswer ==
  ASSUME NEW s \in Sqes, s.op = "provide", NEW res \in Results
  PROVE  /\ Answer(s, res, None) \in Cqes /\ Gives(Answer(s, res, None), s, "down", s.bid)
         /\ s.bid # None => ~ Has(Answer(s, res, None), "down", s.bid)
BY DEF Sqes, Cqes, Answer, Gives, CqeBid, Has

\* No SQE has a buffer on its way up.
LEMMA NoneUp ==
  ASSUME CarrierInv, NEW b \in Buffers
  PROVE  ~ InQueue("up", b) /\ ~ InChain("up", b)
BY BuffersAssumption DEF CarrierInv, SqeBid, Has, InQueue, InChain

LEMMA NoneUpNext ==
  ASSUME CarrierInv', NEW b \in Buffers
  PROVE  ~ InQueue("up", b)' /\ ~ InChain("up", b)'
BY BuffersAssumption DEF CarrierInv, SqeBid, Has, InQueue, InChain

\* The two requests of a chain are answered in either order.
LEMMA PairEffect ==
  ASSUME BuffersInv, UNCHANGED <<pc, answer, allocated>>,
         NEW c \in chains, Len(c) = 2, chains' = chains \ {c}, queue' = queue,
         NEW e \in Cqes, NEW f \in Cqes, Post(<<e, f>>), NEW r, NEW b,
         Gives(e, c[1], r, b), Gives(f, c[2], r, b)
  PROVE  /\ Carried(r, b)
         /\ b \in Buffers /\ ~ Some("up", b) /\ Has(e, "up", b) /\ ~ Has(f, "up", b)
              => One("up", b)' /\ Some("up", b)'
<1>0. TypeOK /\ CarrierInv
  BY DEF BuffersInv
<1> DEFINE Order(es, p) ==
        /\ cq' = cq \o es /\ Len(es) = 2 /\ p[1] \in {1, 2} /\ p[2] \in {1, 2} /\ p[1] # p[2]
        /\ es[1] = (IF p[1] = 1 THEN e ELSE f) /\ es[2] = (IF p[2] = 1 THEN e ELSE f)
<1>1. \E es \in Seq(Cqes) : \E p : Order(es, p)
  <2>1. CASE cq' = cq \o <<e, f>>
    <3>1. <<e, f>> \in Seq(Cqes) /\ Len(<<e, f>>) = 2 /\ <<e, f>>[1] = e /\ <<e, f>>[2] = f
      OBVIOUS
    <3>2. <<1, 2>>[1] = 1 /\ <<1, 2>>[2] = 2
      OBVIOUS
    <3>3. WITNESS <<e, f>> \in Seq(Cqes)
    <3>4. WITNESS <<1, 2>>
    <3>5. QED
      BY <2>1, <3>1, <3>2
  <2>2. CASE cq' = cq \o <<f, e>>
    <3>1. <<f, e>> \in Seq(Cqes) /\ Len(<<f, e>>) = 2 /\ <<f, e>>[1] = f /\ <<f, e>>[2] = e
      OBVIOUS
    <3>2. <<2, 1>>[1] = 2 /\ <<2, 1>>[2] = 1
      OBVIOUS
    <3>3. WITNESS <<f, e>> \in Seq(Cqes)
    <3>4. WITNESS <<2, 1>>
    <3>5. QED
      BY <2>2, <3>1, <3>2
  <2>3. QED
    BY <2>1, <2>2 DEF Post
<1>2a. PICK es \in Seq(Cqes) : \E p : Order(es, p)
  BY <1>1
<1>2. PICK p : Order(es, p)
  BY <1>2a
<1>3. /\ \A i \in 1 .. Len(es) : i \in {1, 2} /\ p[i] \in 1 .. Len(c)
      /\ \A i \in 1 .. Len(c) : i \in {1, 2}
      /\ 1 \in 1 .. Len(es) /\ 2 \in 1 .. Len(es)
  BY <1>2
<1>4. Permutes(p, es, c)
  BY <1>2, <1>3 DEF Permutes
<1>5. \A i \in 1 .. Len(es) : Gives(es[i], c[p[i]], r, b)
  BY <1>2, <1>3
<1>6. Carried(r, b)
  BY <1>0, <1>2, <1>4, <1>5, ChainEffect
<1>7. ASSUME b \in Buffers, ~ Some("up", b), Has(e, "up", b), ~ Has(f, "up", b)
      PROVE  One("up", b)' /\ Some("up", b)'
  <2>1. ~ InChain("up", b)'
    BY <1>6, <1>7, NoneUpNext DEF Carried
  <2>2. PICK k \in 1 .. Len(es) : \A i \in 1 .. Len(es) : Has(es[i], "up", b) <=> i = k
    <3> HIDE DEF Has
    <3> QED
      BY <1>2, <1>3, <1>7
  <2>3. QED
    BY <1>0, <1>2, <1>7, <2>1, <2>2, Enters
<1>8. QED
  BY <1>6, <1>7

\* Receives keeps the invariant.
LEMMA ReceivesKeeps ==
  ASSUME BuffersInv, NEW c \in chains, Receives(c)
  PROVE  BuffersInv' /\ Travels /\ Steady
<1>1. PICK b \in group : /\ RecvAnswered(c, "ok", b) /\ group' = group \ {b}
                         /\ UNCHANGED <<threadVars, queue, allocated, lost, misread, mixed>>
  BY DEF Receives
<1>2. b \in Buffers /\ TypeOK /\ CarrierInv
  BY DEF BuffersInv, TypeOK
<1>3. /\ c \in Seq(Sqes) /\ Len(c) > 1 /\ Len(c) \in Nat /\ c # <<>>
      /\ c[1] \in Sqes /\ SqeBid(c[1]) /\ c[1].op = "recv"
      /\ Guarded(c) => Len(c) = 2 /\ c[2] \in Sqes /\ SqeBid(c[2]) /\ c[2].op = "timeout"
                       /\ c[2].by \in Threads
      /\ c[1].by \in Threads
  BY <1>1, ChainFacts DEF RecvAnswered, Guarded
<1>4. At(b, "kernel") /\ OnePlace(b) /\ ~ At(b, "up")
  BY <1>1, <1>2, NowhereElse DEF BuffersInv, BufferInv, At, Places
<1>5. ~ Some("up", b)
  BY <1>4 DEF At
<1> DEFINE e == Answer(c[1], "ok", b)
<1>6. e \in Cqes /\ Gives(e, c[1], "up", b) /\ Has(e, "up", b)
  BY <1>2, <1>3, SelectingAnswer DEF Results
<1>7. UNCHANGED <<pc, answer, allocated>> /\ queue' = queue
  BY <1>1 DEF threadVars
<1>8. Carried("up", b) /\ One("up", b)' /\ Some("up", b)' /\ late' \subseteq Threads
  <2>1. CASE Guarded(c)
    <3>1. PICK t \in {Disarmed, "ETIME", "other"} :
            /\ Post(<<e, Answer(c[2], t, None)>>) /\ Replace(c, {})
            /\ late' = IF t = Disarmed THEN late ELSE late \cup {c[1].by, c[2].by}
      BY <1>1, <2>1 DEF RecvAnswered
    <3>2. /\ Answer(c[2], t, None) \in Cqes /\ Gives(Answer(c[2], t, None), c[2], "up", b)
          /\ ~ Has(Answer(c[2], t, None), "up", b)
      <4>1. /\ Answer(c[2], t, None) \in Cqes /\ Gives(Answer(c[2], t, None), c[2], "up", b)
        BY <1>3, <2>1, <3>1, PlainAnswer DEF Results, Disarmed
      <4>2. QED
        BY <1>2, <1>3, <2>1, <4>1, BuffersAssumption DEF Has, Answer
    <3>3. chains' = chains \ {c}
      BY <3>1 DEF Replace
    <3>4. late' \subseteq Threads
      BY <1>2, <1>3, <2>1, <3>1 DEF TypeOK
    <3>5. Carried("up", b) /\ One("up", b)' /\ Some("up", b)'
      BY <1>2, <1>3, <1>5, <1>6, <1>7, <2>1, <3>1, <3>2, <3>3, PairEffect
    <3>6. QED
      BY <3>4, <3>5
  <2>2. CASE ~ Guarded(c)
    <3>1. Post(<<e>>) /\ Replace(c, {Tail(c)} \ {<<>>}) /\ late' = late
      BY <1>1, <2>2 DEF RecvAnswered
    <3>2. <<e>> \in Seq(Cqes) /\ Len(<<e>>) = 1 /\ <<e>>[1] = e
      BY <1>6
    <3>3. cq' = cq \o <<e>>
      BY <3>1, <3>2 DEF Post
    <3>4. chains' = (chains \ {c}) \cup {Tail(c)}
      <4>1. PICK d : d = Tail(c) /\ Len(d) = Len(c) - 1
        BY <1>3, Behead
      <4>2. Len(d) # 0
        BY <1>3, <4>1
      <4>3. d # <<>>
        BY <4>2
      <4>4. QED
        BY <3>1, <4>1, <4>3 DEF Replace
    <3>5. Carried("up", b)
      BY <1>2, <1>3, <1>6, <1>7, <3>3, <3>4, HeadEffect
    <3>6. ~ InChain("up", b)'
      BY <1>2, <3>5, NoneUpNext DEF Carried
    <3>7. 1 \in 1 .. Len(<<e>>) /\ \A i \in 1 .. Len(<<e>>) : Has(<<e>>[i], "up", b) <=> i = 1
      BY <1>6, <3>2
    <3>8. One("up", b)' /\ Some("up", b)'
      BY <1>2, <1>5, <1>7, <3>2, <3>3, <3>6, <3>7, Enters
    <3>9. QED
      BY <1>2, <3>1, <3>5, <3>8 DEF TypeOK
  <2>3. QED
    BY <2>1, <2>2
<1>9. OnePlace(b)'
  <2>1. At(b, "up")' /\ ~ At(b, "kernel")'
    BY <1>1, <1>8 DEF At
  <2>2. \A x \in Places : x \notin {"kernel", "up"} => (At(b, x)' <=> At(b, x))
    <3>1. Some("down", b)' <=> Some("down", b)
      BY <1>2, <1>8, BuffersAssumption DEF Carried, Shared, Keeps
    <3>2. QED
      BY <1>1, <3>1 DEF At, threadVars
  <2>3. "kernel" \in Places /\ "up" \in Places
    BY DEF Places
  <2>4. QED
    BY <1>4, <2>1, <2>2, <2>3, Moves
<1>10. bare' = bare /\ misread' = misread /\ mixed' = mixed
  BY <1>1 DEF RecvAnswered
<1>11. /\ bare' \subseteq Threads /\ misread' \subseteq Threads /\ mixed' \subseteq Threads
       /\ group' \subseteq Buffers /\ \A d \in Buffers : d # b => (d \in group' <=> d \in group)
  BY <1>1, <1>2, <1>10 DEF TypeOK
<1>12. Moved(b)
  <2>1. At(b, "up")' /\ {"kernel", "up"} \subseteq Places /\ <<"kernel", "up">> \in Ways
    BY <1>8 DEF At, Places, Ways
  <2>2. QED
    BY <1>4, <2>1 DEF Moved
<1>13. QED
  BY <1>1, <1>2, <1>8, <1>9, <1>11, <1>12, CarriedKeeps

\* The requests of a chain are answered in their order.
LEMMA WholeEffect ==
  ASSUME TypeOK, CarrierInv, UNCHANGED <<pc, answer, allocated>>,
         NEW c \in chains, chains' = chains \ {c}, queue' = queue,
         NEW es \in Seq(Cqes), cq' = cq \o es, Len(es) = Len(c), NEW r, NEW b,
         \A i \in 1 .. Len(c) : Gives(es[i], c[i], r, b)
  PROVE  Carried(r, b)
<1>1. PICK p : p = [i \in 1 .. Len(c) |-> i]
  OBVIOUS
<1>2. \A i \in 1 .. Len(c) : p[i] = i
  BY <1>1
<1>3. Permutes(p, es, c)
  BY <1>2 DEF Permutes
<1>4. \A i \in 1 .. Len(es) : Gives(es[i], c[p[i]], r, b)
  BY <1>2
<1>5. QED
  BY <1>3, <1>4, ChainEffect

\* A chain is cancelled after its head was answered: the answers to all of it.
LEMMA CancelledTail ==
  ASSUME BuffersInv, NEW c \in chains, Len(c) > 1, NEW res \in Results, NEW r, NEW b
  PROVE  \E es \in Seq(Cqes) :
           /\ es = <<Answer(c[1], res, None)>> \o Cancelled(Tail(c)) /\ Len(es) = Len(c)
           /\ \A i \in 1 .. Len(c) : Gives(es[i], c[i], r, b)
<1>1. /\ c \in Seq(Sqes) /\ c # <<>> /\ Len(c) \in Nat
      /\ \A i \in 1 .. Len(c) : c[i] \in Sqes /\ SqeBid(c[i])
      /\ c[1].op = "recv"
  <2>1. Len(c) \in Nat /\ 1 \in 1 .. Len(c) /\ 1 < Len(c)
    BY ChainFacts
  <2>2. QED
    BY <2>1, ChainFacts
<1>2. PICK d : /\ d = Tail(c) /\ Len(d) = Len(c) - 1
               /\ \A i \in 1 .. Len(d) : d[i] = c[i + 1] /\ i + 1 \in 1 .. Len(c)
  <2>1. /\ Len(Tail(c)) = Len(c) - 1
        /\ \A i \in 1 .. (Len(c) - 1) : Tail(c)[i] = c[i + 1]
    BY <1>1, Behead
  <2>2. \A i \in 1 .. (Len(c) - 1) : i + 1 \in 1 .. Len(c)
    BY <1>1
  <2>3. QED
    BY <2>1, <2>2
<1> DEFINE first == Answer(c[1], res, None)
<1>3. first \in Cqes /\ Gives(first, c[1], r, b)
  <2>1. 1 \in 1 .. Len(c)
    BY <1>1
  <2>2. QED
    BY <1>1, <2>1, PlainAnswer
<1>4. PICK f : /\ f = Cancelled(d) /\ f \in Seq(Cqes) /\ Len(f) = Len(d)
               /\ \A i \in 1 .. Len(d) : Gives(f[i], d[i], r, b)
  <2>1. \A i \in 1 .. Len(d) : d[i] \in Sqes /\ SqeBid(d[i])
    BY <1>1, <1>2
  <2>2. \A i \in 1 .. Len(d) : /\ Answer(d[i], "ECANCELED", d[i].bid) \in Cqes
                               /\ Gives(Answer(d[i], "ECANCELED", d[i].bid), d[i], r, b)
    BY <2>1, PlainAnswer DEF Results
  <2>3. Len(d) \in Nat
    BY <1>1, <1>2
  <2>4. Cancelled(d) \in Seq(Cqes) /\ Len(Cancelled(d)) = Len(d)
    BY <2>2, <2>3 DEF Cancelled
  <2>5. \A i \in 1 .. Len(d) : Cancelled(d)[i] = Answer(d[i], "ECANCELED", d[i].bid)
    BY DEF Cancelled
  <2>6. QED
    BY <2>2, <2>4, <2>5
<1>5. PICK h : h = <<first>> /\ h \in Seq(Cqes) /\ Len(h) = 1 /\ h[1] = first
  <2>1. <<first>> \in Seq(Cqes) /\ Len(<<first>>) = 1 /\ <<first>>[1] = first
    BY <1>3
  <2>2. QED
    BY <2>1
<1>6. PICK es : es = h \o f /\ es \in Seq(Cqes) /\ Len(es) = Len(h) + Len(f)
                /\ (\A i \in 1 .. Len(h) : es[i] = h[i])
                /\ (\A i \in 1 .. Len(f) : es[Len(h) + i] = f[i])
  <2>1. /\ h \o f \in Seq(Cqes) /\ Len(h \o f) = Len(h) + Len(f)
        /\ (\A i \in 1 .. Len(h) : (h \o f)[i] = h[i])
        /\ (\A i \in 1 .. Len(f) : (h \o f)[Len(h) + i] = f[i])
    BY <1>4, <1>5, Concatenated
  <2>2. QED
    BY <2>1
<1>7. Len(es) = Len(c)
  <2>1. Len(es) = 1 + (Len(c) - 1)
    BY <1>2, <1>4, <1>5, <1>6
  <2>2. \A n \in Nat : 1 + (n - 1) = n
    OBVIOUS
  <2>3. QED
    BY <1>1, <2>1, <2>2
<1>8. ASSUME NEW i \in 1 .. Len(c) PROVE Gives(es[i], c[i], r, b)
  <2>1. CASE i = 1
    BY <1>3, <1>5, <1>6, <2>1
  <2>2. CASE i # 1
    <3>1. PICK j \in 1 .. Len(d) : i = 1 + j /\ i = j + 1
      <4>1. i - 1 \in 1 .. Len(d) /\ i = 1 + (i - 1) /\ i = (i - 1) + 1
        BY <1>1, <1>2, <2>2
      <4>2. QED
        BY <4>1
    <3>2. es[i] = f[j] /\ c[i] = d[j]
      BY <1>2, <1>4, <1>5, <1>6, <3>1
    <3>3. QED
      BY <1>4, <3>2
  <2>3. QED
    BY <2>1, <2>2
<1>9. es = <<Answer(c[1], res, None)>> \o Cancelled(Tail(c))
  BY <1>2, <1>4, <1>5, <1>6
<1>10. QED
  BY <1>6, <1>7, <1>8, <1>9

\* The steps of the kernel by which no buffer moves.
LEMMA PlainKeeps ==
  ASSUME BuffersInv, UNCHANGED <<threadVars, allocated, lost, group>>,
         Carried("none", None), bare' \subseteq Threads, misread' \subseteq Threads,
         late' \subseteq Threads, mixed' \subseteq Threads
  PROVE  BuffersInv' /\ Travels /\ Steady
<1>1. group' \subseteq Buffers /\ \A b \in Buffers : b \in group' <=> b \in group
  BY DEF BuffersInv, TypeOK
<1>2. None \notin Buffers
  BY BuffersAssumption
<1>3. QED
  BY <1>1, <1>2, CarriedKeeps

\* RecvFails keeps the invariant.
LEMMA RecvFailsKeeps ==
  ASSUME BuffersInv, NEW c \in chains, RecvFails(c)
  PROVE  BuffersInv' /\ Travels /\ Steady
<1>1. /\ RecvAnswered(c, "other", None)
      /\ UNCHANGED <<threadVars, queue, group, allocated, lost, misread, mixed>>
  BY DEF RecvFails
<1>2. TypeOK /\ CarrierInv
  BY DEF BuffersInv
<1>3. /\ c[1] \in Sqes /\ SqeBid(c[1]) /\ c[1].op = "recv" /\ Len(c) > 1
      /\ Guarded(c) => Len(c) = 2 /\ c[2] \in Sqes /\ SqeBid(c[2]) /\ c[2].op = "timeout"
                       /\ c[2].by \in Threads
      /\ c[1].by \in Threads /\ Bare(c) \subseteq Threads
  BY <1>1, ChainFacts DEF RecvAnswered, Guarded
<1> DEFINE e == Answer(c[1], "other", None)
<1>4. e \in Cqes /\ Gives(e, c[1], "none", None)
  BY <1>3, PlainAnswer DEF Results
<1>5. UNCHANGED <<pc, answer, allocated>> /\ queue' = queue
  BY <1>1 DEF threadVars
<1>6. Carried("none", None) /\ late' \subseteq Threads
  <2>1. CASE Guarded(c)
    <3>1. PICK t \in {Disarmed, "ETIME", "other"} :
            /\ Post(<<e, Answer(c[2], t, None)>>) /\ Replace(c, {})
            /\ late' = IF t = Disarmed THEN late ELSE late \cup {c[1].by, c[2].by}
      BY <1>1, <2>1 DEF RecvAnswered
    <3>2. /\ Answer(c[2], t, None) \in Cqes
          /\ Gives(Answer(c[2], t, None), c[2], "none", None)
      BY <1>3, <2>1, <3>1, PlainAnswer DEF Results, Disarmed
    <3>3. chains' = chains \ {c}
      BY <3>1 DEF Replace
    <3>4. late' \subseteq Threads
      BY <1>2, <1>3, <2>1, <3>1 DEF TypeOK
    <3>5. Carried("none", None)
      BY <1>3, <1>4, <1>5, <2>1, <3>1, <3>2, <3>3, PairEffect
    <3>6. QED
      BY <3>4, <3>5
  <2>2. CASE ~ Guarded(c)
    <3>1. /\ cq' = cq \o <<e>> \o Cancelled(Tail(c)) /\ Replace(c, {}) /\ late' = late
      BY <1>1, <2>2 DEF RecvAnswered
    <3>2. PICK es \in Seq(Cqes) :
            /\ es = <<e>> \o Cancelled(Tail(c)) /\ Len(es) = Len(c)
            /\ \A i \in 1 .. Len(c) : Gives(es[i], c[i], "none", None)
      BY <1>3, CancelledTail DEF Results
    <3>3. cq' = cq \o es
      BY <3>1, <3>2, Associates
    <3>4. chains' = chains \ {c}
      BY <3>1 DEF Replace
    <3>5. Carried("none", None)
      BY <1>2, <1>5, <3>2, <3>3, <3>4, WholeEffect
    <3>6. QED
      BY <1>2, <3>1, <3>5 DEF TypeOK
  <2>3. QED
    BY <2>1, <2>2
<1>7. bare' \subseteq Threads /\ misread' = misread /\ mixed' = mixed
  BY <1>1, <1>2, <1>3 DEF RecvAnswered, TypeOK
<1>8. QED
  BY <1>1, <1>2, <1>6, <1>7, PlainKeeps DEF TypeOK

\* Expire keeps the invariant.
LEMMA ExpireKeeps ==
  ASSUME BuffersInv, NEW c \in chains, Expire(c)
  PROVE  BuffersInv' /\ Travels /\ Steady
<1>1. TypeOK /\ CarrierInv
  BY DEF BuffersInv
<1>2. /\ c[1] \in Sqes /\ SqeBid(c[1]) /\ c[1].op = "recv" /\ Len(c) = 2
      /\ c[2] \in Sqes /\ SqeBid(c[2]) /\ c[2].op = "timeout" /\ Bare(c) \subseteq Threads
  BY ChainFacts DEF Expire, Guarded
<1> DEFINE e == Answer(c[1], "ECANCELED", None)
           f == Answer(c[2], "ETIME", None)
<1>3. /\ e \in Cqes /\ Gives(e, c[1], "none", None)
      /\ f \in Cqes /\ Gives(f, c[2], "none", None)
  BY <1>2, PlainAnswer DEF Results
<1>4. UNCHANGED <<pc, answer, allocated>> /\ queue' = queue
  BY DEF Expire, threadVars
<1>5. Post(<<e, f>>) /\ chains' = chains \ {c}
  BY DEF Expire, Replace
<1>6. Carried("none", None)
  BY <1>2, <1>3, <1>4, <1>5, PairEffect
<1>7. /\ bare' \subseteq Threads
      /\ UNCHANGED <<threadVars, group, allocated, lost, misread, late, mixed>>
  BY <1>1, <1>2 DEF Expire, TypeOK
<1>8. QED
  BY <1>1, <1>6, <1>7, PlainKeeps DEF TypeOK

\* Provides keeps the invariant.
LEMMA ProvidesKeeps ==
  ASSUME BuffersInv, NEW c \in chains, Provides(c)
  PROVE  BuffersInv' /\ Travels /\ Steady
<1>1. TypeOK /\ CarrierInv
  BY DEF BuffersInv
<1>2. /\ c[1] \in Sqes /\ SqeBid(c[1]) /\ c[1].op = "provide" /\ Len(c) = 1
  BY ChainFacts DEF Provides
<1>3. PICK b \in Buffers : b = c[1].bid /\ b # None
  BY <1>2 DEF Sqes, SqeBid
<1> DEFINE e == Answer(c[1], "ok", None)
<1>4. e \in Cqes /\ Gives(e, c[1], "down", b) /\ ~ Has(e, "down", b)
  BY <1>2, <1>3, ProvidedAnswer DEF Results
<1>5. <<e>> \in Seq(Cqes) /\ Len(<<e>>) = 1 /\ <<e>>[1] = e
  BY <1>4
<1>6. /\ UNCHANGED <<pc, answer, allocated>> /\ queue' = queue
      /\ cq' = cq \o <<e>> /\ chains' = chains \ {c}
  BY <1>5 DEF Provides, threadVars, Post, Replace
<1>7. Carried("down", b)
  <2>1. \A i \in 1 .. Len(c) : Gives(<<e>>[i], c[i], "down", b)
    BY <1>2, <1>4, <1>5
  <2>2. QED
    BY <1>1, <1>2, <1>5, <1>6, <2>1, WholeEffect
<1>8. Has(c[1], "down", b) /\ 1 \in 1 .. Len(c)
  BY <1>2, <1>3 DEF Has
<1>9. One("down", b)' /\ ~ Some("down", b)'
  <2>1. One("down", b)
    BY DEF BuffersInv, OnceInv
  <2>2. \A i \in 1 .. Len(<<e>>) : ~ Has(<<e>>[i], "down", b)
    BY <1>4, <1>5
  <2>3. QED
    BY <1>1, <1>2, <1>5, <1>6, <1>8, <2>1, <2>2, Leaves
<1>10. Some("down", b)
  BY <1>8 DEF Some, InChain
<1>11. OnePlace(b)'
  <2>1. OnePlace(b) /\ At(b, "down") /\ ~ At(b, "down")' /\ At(b, "kernel")'
    BY <1>3, <1>9, <1>10 DEF BuffersInv, BufferInv, At, Provides
  <2>2. Some("up", b)' <=> Some("up", b)
    BY <1>3, <1>7 DEF Carried, Shared, Keeps
  <2>3. \A x \in Places : x \notin {"down", "kernel"} => (At(b, x)' <=> At(b, x))
    BY <2>2 DEF At, Provides, threadVars
  <2>4. "kernel" \in Places /\ "down" \in Places
    BY DEF Places
  <2>5. QED
    BY <2>1, <2>3, <2>4, Moves
<1>12. /\ group' \subseteq Buffers /\ \A d \in Buffers : d # b => (d \in group' <=> d \in group)
       /\ UNCHANGED <<threadVars, allocated, lost>> /\ UNCHANGED <<bare, misread, late, mixed>>
  BY <1>1, <1>3 DEF Provides, TypeOK, history
<1>13. Moved(b)
  <2>1. At(b, "down") /\ At(b, "kernel")' /\ {"down", "kernel"} \subseteq Places
    BY <1>3, <1>10 DEF At, Provides, Places
  <2>2. <<"down", "kernel">> \in Ways
    BY DEF Ways
  <2>3. QED
    BY <2>1, <2>2 DEF Moved
<1>14. QED
  BY <1>1, <1>7, <1>9, <1>11, <1>12, <1>13, CarriedKeeps DEF TypeOK

\* Cancels keeps the invariant.
LEMMA CancelsKeeps ==
  ASSUME BuffersInv, NEW c \in chains, Cancels(c)
  PROVE  BuffersInv' /\ Travels /\ Steady
<1>1. TypeOK /\ CarrierInv
  BY DEF BuffersInv
<1>2. /\ c[1] \in Sqes /\ SqeBid(c[1]) /\ c[1].op = "cancel" /\ Len(c) = 1
  BY ChainFacts DEF Cancels
<1>3. /\ UNCHANGED <<pc, answer, allocated>> /\ queue' = queue
      /\ UNCHANGED <<threadVars, group, allocated, lost, misread, late, mixed>>
  BY DEF Cancels, threadVars
<1>4. Carried("none", None) /\ bare' \subseteq Threads
  <2>1. CASE Running(c[1].at) = {}
    <3> DEFINE e == Answer(c[1], "other", None)
    <3>1. e \in Cqes /\ Gives(e, c[1], "none", None)
      BY <1>2, PlainAnswer DEF Results
    <3>2. <<e>> \in Seq(Cqes) /\ Len(<<e>>) = 1 /\ <<e>>[1] = e
      BY <3>1
    <3>3. cq' = cq \o <<e>> /\ chains' = chains \ {c} /\ bare' = bare
      BY <2>1, <3>2 DEF Cancels, Post, Replace
    <3>4. \A i \in 1 .. Len(c) : Gives(<<e>>[i], c[i], "none", None)
      BY <1>2, <3>1, <3>2
    <3>5. Carried("none", None)
      BY <1>1, <1>2, <1>3, <3>2, <3>3, <3>4, WholeEffect
    <3>6. QED
      BY <1>1, <3>3, <3>5 DEF TypeOK
  <2>2. CASE Running(c[1].at) # {}
    <3> DEFINE e == Answer(c[1], "ok", None)
    <3>1. PICK d \in chains : /\ d[1].op = "recv" /\ chains' = chains \ {c, d}
                              /\ cq' = cq \o Cancelled(d) \o <<e>> /\ bare' = bare \cup Bare(d)
      BY <2>2 DEF Cancels, Running
    <3>2. e \in Cqes /\ Gives(e, c[1], "none", None)
      BY <1>2, PlainAnswer DEF Results
    <3>3. PICK h : h = <<e>> /\ h \in Seq(Cqes) /\ Len(h) = 1 /\ h[1] = e
      <4>1. <<e>> \in Seq(Cqes) /\ Len(<<e>>) = 1 /\ <<e>>[1] = e
        BY <3>2
      <4>2. QED
        BY <4>1
    <3>4. PICK f : /\ f = Cancelled(d) /\ f \in Seq(Cqes) /\ Len(f) = Len(d)
                   /\ \A i \in 1 .. Len(d) : Gives(f[i], d[i], "none", None)
      <4>1. \A i \in 1 .. Len(d) : d[i] \in Sqes /\ SqeBid(d[i])
        BY ChainFacts
      <4>2. \A i \in 1 .. Len(d) : /\ Answer(d[i], "ECANCELED", d[i].bid) \in Cqes
                                   /\ Gives(Answer(d[i], "ECANCELED", d[i].bid), d[i], "none", None)
        BY <4>1, PlainAnswer DEF Results
      <4>3. Len(d) \in Nat
        BY ChainFacts
      <4>4. Cancelled(d) \in Seq(Cqes) /\ Len(Cancelled(d)) = Len(d)
        BY <4>2, <4>3 DEF Cancelled
      <4>5. \A i \in 1 .. Len(d) : Cancelled(d)[i] = Answer(d[i], "ECANCELED", d[i].bid)
        BY DEF Cancelled
      <4>6. QED
        BY <4>2, <4>4, <4>5
    <3>5. PICK es : es = f \o h /\ es \in Seq(Cqes) /\ Len(es) = Len(d) + 1
                    /\ (\A i \in 1 .. Len(d) : es[i] = f[i])
                    /\ es[Len(d) + 1] = e
      <4>1. /\ f \o h \in Seq(Cqes) /\ Len(f \o h) = Len(f) + Len(h)
            /\ (\A i \in 1 .. Len(f) : (f \o h)[i] = f[i])
            /\ (\A i \in 1 .. Len(h) : (f \o h)[Len(f) + i] = h[i])
        BY <3>3, <3>4, Concatenated
      <4>2. 1 \in 1 .. Len(h)
        BY <3>3
      <4>3. (f \o h)[Len(f) + 1] = h[1]
        BY <4>1, <4>2
      <4>4. /\ Len(f \o h) = Len(d) + 1 /\ (f \o h)[Len(d) + 1] = e
            /\ (\A i \in 1 .. Len(d) : (f \o h)[i] = f[i])
        BY <3>3, <3>4, <4>1, <4>3
      <4>5. QED
        BY <4>1, <4>4
    <3>6. cq' = cq \o es
      <4>1. cq \in Seq(Cqes)
        BY <1>1, Sizes
      <4>2. cq' = cq \o f \o h
        BY <3>1, <3>3, <3>4
      <4>3. QED
        BY <3>3, <3>4, <3>5, <4>1, <4>2, Associates
    <3>7. c # d
      BY <1>2, <3>1
    <3>8. /\ \A i \in 1 .. Len(d) : Gives(es[i], d[i], "none", None)
          /\ Gives(es[Len(d) + 1], c[1], "none", None)
      BY <3>2, <3>4, <3>5
    <3>9. Carried("none", None)
      BY <1>1, <1>2, <1>3, <3>1, <3>5, <3>6, <3>7, <3>8, TwoEffect
    <3>10. Bare(d) \subseteq Threads
      BY ChainFacts
    <3>11. QED
      BY <1>1, <3>1, <3>9, <3>10 DEF TypeOK
  <2>3. QED
    BY <2>1, <2>2
<1>5. QED
  BY <1>1, <1>3, <1>4, PlainKeeps DEF TypeOK

-----------------------------------------------------------------------------
(* The worker.                                                              *)

\* SubmitToKernel keeps the invariant.
LEMMA SubmitToKernelKeeps ==
  ASSUME BuffersInv, SubmitToKernel
  PROVE  BuffersInv' /\ Travels /\ Steady
<1>1. TypeOK /\ CarrierInv
  BY DEF BuffersInv
<1>2. PICK n \in 1 .. Len(queue) :
        LET c == SubSeq(queue, 1, n) IN
        /\ ~ Linked(queue[n])
        /\ \A i \in 1 .. n - 1 : Linked(queue[i])
        /\ queue' = SubSeq(queue, n + 1, Len(queue))
        /\ \/ /\ chains' = chains \cup {c}
              /\ UNCHANGED <<cq, bare, misread>>
           \/ /\ cq' = cq \o Refused(c)
              /\ bare' = bare \cup Bare(c)
              /\ misread' = IF n > 1 THEN misread \cup {c[n].by} ELSE misread
              /\ UNCHANGED chains
        /\ UNCHANGED <<threadVars, group, allocated, lost, late, mixed>>
  BY DEF SubmitToKernel
<1>3. PICK c : /\ c = SubSeq(queue, 1, n) /\ Len(c) = n
               /\ \A i \in 1 .. n : c[i] = queue[i] /\ c[i] \in Sqes /\ SqeBid(c[i])
  <2>1. /\ Len(SubSeq(queue, 1, n)) = n
        /\ \A i \in 1 .. n : SubSeq(queue, 1, n)[i] = queue[i] /\ i \in 1 .. Len(queue)
    BY <1>1, Sizes, Divided
  <2>2. \A i \in 1 .. Len(queue) : queue[i] \in Sqes /\ SqeBid(queue[i])
    BY <1>1, Sizes DEF CarrierInv
  <2>3. QED
    BY <2>1, <2>2
<1>4. /\ UNCHANGED <<pc, answer, allocated>>
      /\ UNCHANGED <<threadVars, group, allocated, lost, late, mixed>>
  BY <1>2 DEF threadVars
<1>5. CASE chains' = chains \cup {c} /\ UNCHANGED <<cq, bare, misread>>
  <2>1. Carried("none", None)
    BY <1>1, <1>2, <1>3, <1>4, <1>5, SubmitEffect
  <2>2. QED
    BY <1>1, <1>4, <1>5, <2>1, PlainKeeps DEF TypeOK
<1>6. CASE /\ cq' = cq \o Refused(c) /\ bare' = bare \cup Bare(c) /\ chains' = chains
           /\ misread' = IF n > 1 THEN misread \cup {c[n].by} ELSE misread
  <2>1. PICK es \in Seq(Cqes) : /\ es = Refused(c) /\ Len(es) = n
                                /\ \A i \in 1 .. n : Gives(es[i], queue[i], "none", None)
    <3> DEFINE res(i) == IF i = Len(c) THEN "other" ELSE "ECANCELED"
    <3>1. \A i \in 1 .. n : res(i) \in Results
      BY DEF Results
    <3> HIDE DEF res
    <3>2. \A i \in 1 .. n : /\ Answer(c[i], res(i), c[i].bid) \in Cqes
                            /\ Gives(Answer(c[i], res(i), c[i].bid), c[i], "none", None)
      BY <1>3, <3>1, PlainAnswer
    <3>3. PICK es : es = [i \in 1 .. n |-> Answer(c[i], res(i), c[i].bid)]
      OBVIOUS
    <3>4. es \in Seq(Cqes) /\ Len(es) = n
      BY <3>2, <3>3
    <3>5. \A i \in 1 .. n : es[i] = Answer(c[i], res(i), c[i].bid)
      BY <3>3
    <3>6. es = Refused(c)
      BY <1>3, <3>3 DEF Refused, res
    <3>7. QED
      BY <1>3, <3>2, <3>4, <3>5, <3>6
  <2>2. Carried("none", None)
    BY <1>1, <1>2, <1>4, <1>6, <2>1, SubmitEffect
  <2>3. \A i \in 1 .. n : c[i].by \in Threads
    BY <1>3 DEF Sqes
  <2>4. Bare(c) \subseteq Threads /\ c[n].by \in Threads
    BY <1>3, <2>3 DEF Bare, Elements
  <2>5. bare' \subseteq Threads /\ misread' \subseteq Threads
    BY <1>1, <1>6, <2>4 DEF TypeOK
  <2>6. QED
    BY <1>1, <1>4, <2>2, <2>5, PlainKeeps DEF TypeOK
<1>7. QED
  BY <1>2, <1>3, <1>5, <1>6

\* Fits, after the step.
FitsNext(s) ==
  IF s.op = "recv" THEN s.at \in Addresses /\ allocated'[s.at] = s.by
  ELSE pc'[s.by] = s.op /\ answer'[s.by] = None

\* CarrierInv after a step.
LEMMA CarrierNext ==
  ASSUME \A i \in 1 .. Len(queue') : FitsNext(queue'[i]) /\ SqeBid(queue'[i]),
         \A c \in chains' : ChainShape(c) /\ \A i \in 1 .. Len(c) : FitsNext(c[i]) /\ SqeBid(c[i]),
         \A i \in 1 .. Len(cq') : FitsNext(cq'[i]) /\ CqeBid(cq'[i])
  PROVE  CarrierInv'
BY DEF CarrierInv, Fits, FitsNext, ChainShape, SqeBid, CqeBid

\* Whatever fits is an element of one of the three.
LEMMA CarriersAre ==
  ASSUME NEW q, NEW v
  PROVE  /\ \A i \in 1 .. Len(queue') : Has(queue'[i], q, v) => Some(q, v)'
         /\ \A c \in chains' : \A i \in 1 .. Len(c) : Has(c[i], q, v) => Some(q, v)'
         /\ \A i \in 1 .. Len(cq') : Has(cq'[i], q, v) => Some(q, v)'
<1> HIDE DEF Has
<1> QED
  BY DEF Some, InQueue, InChain, InRing

\* The first answer of the ring, and what is left without it.
LEMMA HeadGone ==
  ASSUME BuffersInv, HandleCqe, NEW c, c = Head(cq)
  PROVE  /\ c \in Cqes /\ Fits(c) /\ CqeBid(c)
         /\ cq' \in Seq(Cqes) /\ \A i \in 1 .. Len(cq') : Fits(cq'[i]) /\ CqeBid(cq'[i])
         /\ OnceInv'
         /\ \A q, v : ~ Has(c, q, v) => (Some(q, v)' <=> Some(q, v))
         /\ c.op = "recv" => ~ Some("at", c.at)'
         /\ c.op # "recv" => ~ Some("by", c.by)'
         /\ c.op = "recv" /\ c.bid \in Buffers => Some("up", c.bid) /\ ~ Some("up", c.bid)'
         /\ c.op # "recv" /\ c.bid \in Buffers => Some("down", c.bid) /\ ~ Some("down", c.bid)'
<1>1. TypeOK /\ CarrierInv /\ OnceInv
  BY DEF BuffersInv
<1>2. cq # <<>> /\ cq' = Tail(cq) /\ UNCHANGED <<queue, chains>>
  BY DEF HandleCqe
<1>3. /\ cq' \in Seq(Cqes) /\ Len(cq') = Len(cq) - 1 /\ Len(cq) \in Nat \ {0} /\ c = cq[1]
      /\ \A i \in 1 .. (Len(cq) - 1) : cq'[i] = cq[i + 1]
  BY <1>1, <1>2, Sizes, Behead
<1>4. 1 \in 1 .. Len(cq)
  BY <1>3
<1>5. c \in Cqes /\ Fits(c) /\ CqeBid(c)
  BY <1>1, <1>3, <1>4, Sizes DEF CarrierInv
<1>6. ASSUME NEW i \in 1 .. Len(cq') PROVE Fits(cq'[i]) /\ CqeBid(cq'[i])
  <2>1. cq'[i] = cq[i + 1] /\ i + 1 \in 1 .. Len(cq)
    BY <1>3
  <2>2. QED
    BY <1>1, <2>1 DEF CarrierInv
<1>7. ASSUME NEW q, NEW v
      PROVE  /\ ~ Has(c, q, v) => (One(q, v) => One(q, v)') /\ (Some(q, v)' <=> Some(q, v))
             /\ Has(c, q, v) /\ One(q, v) => One(q, v)' /\ ~ Some(q, v)'
             /\ Has(c, q, v) => Some(q, v)
  <2> HIDE DEF Has
  <2>1. /\ ~ Has(cq[1], q, v) => (One(q, v) => One(q, v)') /\ (Some(q, v)' <=> Some(q, v))
        /\ Has(cq[1], q, v) /\ One(q, v) => One(q, v)' /\ ~ Some(q, v)'
    BY <1>1, <1>2, RingShrinks
  <2>2. Has(cq[1], q, v) => Some(q, v)
    BY <1>4 DEF Some, InRing
  <2>3. QED
    BY <1>3, <2>1, <2>2
<1>8. OnceInv'
  <2> HIDE DEF Has
  <2>1. \A q, v : One(q, v) => One(q, v)'
    BY <1>7
  <2>2. QED
    BY <1>1, <2>1 DEF OnceInv
<1>9. c.op = "recv" => Has(c, "at", c.at) /\ One("at", c.at)
  BY <1>1, <1>5 DEF Has, Fits, OnceInv
<1>10. c.op # "recv" => Has(c, "by", c.by) /\ One("by", c.by)
  BY <1>1, <1>5 DEF Has, Cqes, OnceInv
<1>11. c.bid \in Buffers =>
         /\ c.op = "recv" => Has(c, "up", c.bid)
         /\ c.op # "recv" => Has(c, "down", c.bid)
         /\ One("up", c.bid) /\ One("down", c.bid)
  BY <1>1 DEF Has, OnceInv
<1> HIDE DEF Has
<1>12. QED
  BY <1>3, <1>5, <1>6, <1>7, <1>8, <1>9, <1>10, <1>11

\* A receive answered without a buffer: nothing but the answer goes.
LEMMA BareKeeps ==
  ASSUME BuffersInv, HandleCqe, Head(cq).op = "recv", Head(cq).bid = None
  PROVE  BuffersInv' /\ Travels
<1>1. PICK c : c = Head(cq)
  OBVIOUS
<1>2. TypeOK /\ CarrierInv
  BY DEF BuffersInv
<1>3. /\ UNCHANGED <<threadVars, queue, chains, group, allocated, lost, history>>
  BY <1>1 DEF HandleCqe, CompleteWith, threadVars
<1>4. c \in Cqes /\ cq' \in Seq(Cqes) /\ OnceInv'
  BY <1>1, HeadGone
<1>5. TypeOK'
  BY <1>2, <1>3, <1>4 DEF TypeOK, threadVars, history
<1>6. CarrierInv'
  <2>1. \A i \in 1 .. Len(cq') : Fits(cq'[i]) /\ CqeBid(cq'[i])
    BY <1>1, HeadGone
  <2>2. QED
    BY <1>2, <1>3, <2>1, CarrierFrame DEF CarrierInv, threadVars
<1>7. ThreadInv'
  BY <1>3 DEF BuffersInv, ThreadInv, threadVars
<1>8. ASSUME NEW b \in Buffers PROVE OnePlace(b)' /\ Single(b)' /\ Unmoved(b)
  <2>1. ~ Has(c, "up", b) /\ ~ Has(c, "down", b)
    BY <1>1, BuffersAssumption DEF Has
  <2>2. (Some("up", b)' <=> Some("up", b)) /\ (Some("down", b)' <=> Some("down", b))
    BY <1>1, <2>1, HeadGone
  <2>3. \A x \in Places : At(b, x)' <=> At(b, x)
    BY <1>3, <2>2 DEF At, threadVars
  <2>4. OnePlace(b) /\ Single(b)
    BY DEF BuffersInv, BufferInv
  <2>5. QED
    BY <1>3, <2>3, <2>4, Stays DEF Single, Unmoved, threadVars
<1>9. None \notin Buffers
  BY BuffersAssumption
<1>10. Travels
  BY <1>8, <1>9 DEF Travels
<1>11. QED
  BY <1>4, <1>5, <1>6, <1>7, <1>8, <1>10 DEF BuffersInv, BufferInv

\* A receive answered with a buffer: its completion is completed and deleted.
LEMMA CompletedKeeps ==
  ASSUME BuffersInv, HandleCqe, Head(cq).op = "recv", Head(cq).bid # None
  PROVE  BuffersInv' /\ Travels
<1>1. PICK c : c = Head(cq)
  OBVIOUS
<1>2. TypeOK /\ CarrierInv /\ ThreadInv
  BY DEF BuffersInv
<1>3. c \in Cqes /\ cq' \in Seq(Cqes) /\ OnceInv' /\ Fits(c) /\ ~ Some("at", c.at)'
  BY <1>1, HeadGone
<1>4. PICK b \in Buffers, a \in Addresses, t \in Threads :
        b = c.bid /\ a = c.at /\ t = c.by /\ allocated[a] = t
  BY <1>1, <1>3 DEF Fits, Cqes
<1>5. /\ UNCHANGED <<pc, token, answer, buffer, queue, chains, group, history>>
      /\ allocated' = [allocated EXCEPT ![a] = None]
      /\ \/ token[t] = a /\ value' = [value EXCEPT ![t] = b] /\ lost' = lost
         \/ token[t] # a /\ lost' = lost \cup {[by |-> t, bid |-> b]} /\ value' = value
  BY <1>1, <1>4, BuffersAssumption DEF HandleCqe, CompleteWith, Deliver, Delete, Losing
<1>6. /\ None \notin Threads \cup Buffers \cup Addresses
      /\ token[t] = a => value[t] = None
  BY <1>2, <1>4, BuffersAssumption DEF ThreadInv
<1>7. TypeOK'
  BY <1>2, <1>3, <1>5 DEF TypeOK, history
<1>8. CarrierInv'
  <2>1. \A i \in 1 .. Len(cq') : Fits(cq'[i]) /\ CqeBid(cq'[i])
    BY <1>1, HeadGone
  <2>2. \A s : Fits(s) /\ ~ Has(s, "at", a) => FitsNext(s)
    BY <1>2, <1>5 DEF Fits, FitsNext, Has, TypeOK
  <2>3. \A i \in 1 .. Len(cq') : FitsNext(cq'[i])
    BY <1>3, <1>4, <2>1, <2>2, CarriersAre
  <2>4. \A i \in 1 .. Len(queue') : FitsNext(queue'[i]) /\ SqeBid(queue'[i])
    <3>1. \A i \in 1 .. Len(queue') : Fits(queue'[i]) /\ SqeBid(queue'[i])
      BY <1>2, <1>5 DEF CarrierInv
    <3>2. QED
      BY <1>3, <1>4, <2>2, <3>1, CarriersAre
  <2>5. \A d \in chains' : ChainShape(d) /\ \A i \in 1 .. Len(d) : FitsNext(d[i]) /\ SqeBid(d[i])
    <3>1. \A d \in chains' : ChainShape(d) /\ \A i \in 1 .. Len(d) : Fits(d[i]) /\ SqeBid(d[i])
      BY <1>2, <1>5 DEF CarrierInv
    <3>2. QED
      BY <1>3, <1>4, <2>2, <3>1, CarriersAre
  <2>6. QED
    BY <2>1, <2>3, <2>4, <2>5, CarrierNext
<1>9. ThreadInv'
  <2>1. ASSUME NEW u \in Threads, value'[u] # None
        PROVE  token'[u] # None /\ allocated'[token'[u]] # u
    BY <1>2, <1>4, <1>5, <1>6, <2>1 DEF ThreadInv, TypeOK
  <2>2. ASSUME NEW u \in Threads, pc'[u] \in {"idle", "use", "provide"}
        PROVE  token'[u] = None /\ value'[u] = None
    BY <1>2, <1>4, <1>5, <1>6, <2>2 DEF ThreadInv, TypeOK
  <2>3. QED
    BY <1>2, <1>5, <2>1, <2>2 DEF ThreadInv
<1>10. OnePlace(b) /\ At(b, "up") /\ ~ At(b, "up")' /\ "up" \in Places
  BY <1>1, <1>4, HeadGone DEF BuffersInv, BufferInv, At, Places
<1>11. \A x \in Places : x # "up" => ~ At(b, x)
  BY <1>10, NowhereElse
<1>12. /\ \A d \in Buffers : Some("down", d)' <=> Some("down", d)
       /\ \A d \in Buffers : d # b => (Some("up", d)' <=> Some("up", d))
  <2>1. /\ \A d \in Buffers : ~ Has(c, "down", d)
        /\ \A d \in Buffers : d # b => ~ Has(c, "up", d)
    BY <1>1, <1>4 DEF Has
  <2>2. QED
    BY <1>1, <2>1, HeadGone
<1>13. ASSUME NEW d \in Buffers, d # b PROVE OnePlace(d)' /\ Single(d)' /\ Unmoved(d)
  <2>1. \A u \in Threads : value'[u] = d <=> value[u] = d
    BY <1>2, <1>4, <1>5, <1>6, <1>13 DEF TypeOK
  <2>2. \A l : l.bid = d => (l \in lost' <=> l \in lost)
    BY <1>5, <1>13
  <2>3. \A x \in Places : At(d, x)' <=> At(d, x)
    BY <1>5, <1>12, <1>13, <2>1, <2>2 DEF At
  <2>4. OnePlace(d) /\ Single(d)
    BY DEF BuffersInv, BufferInv
  <2>5. QED
    BY <1>5, <2>1, <2>2, <2>3, <2>4, Stays DEF Single, Unmoved
<1>14. CASE token[t] = a
  <2>1. value' = [value EXCEPT ![t] = b] /\ lost' = lost
    BY <1>5, <1>14
  <2>2. \A u \in Threads : value'[u] = b <=> u = t
    <3>1. \A u \in Threads : value[u] # b
      BY <1>11 DEF At, Places
    <3>2. QED
      BY <1>2, <2>1, <3>1 DEF TypeOK
  <2>3. OnePlace(b)'
    <3>1. At(b, "value")' /\ "value" \in Places
      BY <2>2 DEF At, Places
    <3>2. \A x \in Places : x \notin {"up", "value"} => (At(b, x)' <=> At(b, x))
      BY <1>5, <1>12, <2>1 DEF At
    <3>3. QED
      BY <1>10, <3>1, <3>2, Moves
  <2>4. Single(b)'
    BY <1>5, <2>1, <2>2 DEF Single, BuffersInv, BufferInv
  <2>5. Moved(b)
    BY <1>10, <2>2 DEF At, Moved, Places, Ways
  <2>6. Travels
    BY <1>13, <2>5 DEF Travels
  <2>7. QED
    BY <1>3, <1>7, <1>8, <1>9, <1>13, <2>3, <2>4, <2>6 DEF BuffersInv, BufferInv
<1>15. CASE token[t] # a
  <2>1. lost' = lost \cup {[by |-> t, bid |-> b]} /\ value' = value
    BY <1>5, <1>15
  <2>2. \A l \in lost' : l.bid = b <=> l = [by |-> t, bid |-> b]
    <3>1. \A l \in lost : l.bid # b
      BY <1>11 DEF At, Places
    <3>2. QED
      BY <2>1, <3>1
  <2>3. OnePlace(b)'
    <3>1. At(b, "lost")' /\ "lost" \in Places
      <4>1. [by |-> t, bid |-> b] \in lost' /\ [by |-> t, bid |-> b].bid = b
        BY <2>1
      <4>2. QED
        BY <4>1 DEF At, Places
    <3>2. \A x \in Places : x \notin {"up", "lost"} => (At(b, x)' <=> At(b, x))
      BY <1>5, <1>12, <2>1 DEF At
    <3>3. QED
      BY <1>10, <3>1, <3>2, Moves
  <2>4. Single(b)'
    BY <1>5, <2>1, <2>2 DEF Single, BuffersInv, BufferInv
  <2>5. Moved(b)
    <3>1. At(b, "lost")' /\ {"up", "lost"} \subseteq Places /\ <<"up", "lost">> \in Ways
      <4>1. [by |-> t, bid |-> b] \in lost' /\ [by |-> t, bid |-> b].bid = b
        BY <2>1
      <4>2. QED
        BY <4>1 DEF At, Places, Ways
    <3>2. QED
      BY <1>10, <3>1 DEF Moved
  <2>6. Travels
    BY <1>13, <2>5 DEF Travels
  <2>7. QED
    BY <1>3, <1>7, <1>8, <1>9, <1>13, <2>3, <2>4, <2>6 DEF BuffersInv, BufferInv
<1>16. QED
  BY <1>14, <1>15

\* Another request answered: the answer goes to its thread.
LEMMA ReturnedKeeps ==
  ASSUME BuffersInv, HandleCqe, Head(cq).op # "recv"
  PROVE  BuffersInv' /\ Travels
<1>1. PICK c : c = Head(cq)
  OBVIOUS
<1>2. TypeOK /\ CarrierInv /\ ThreadInv
  BY DEF BuffersInv
<1>3. /\ c \in Cqes /\ cq' \in Seq(Cqes) /\ OnceInv' /\ Fits(c) /\ CqeBid(c)
      /\ ~ Some("by", c.by)' /\ c.op # "recv"
  BY <1>1, HeadGone
<1>4. PICK t \in Threads : t = c.by /\ pc[t] = c.op /\ answer[t] = None
  BY <1>3 DEF Fits, Cqes
<1>5. /\ UNCHANGED <<pc, token, value, buffer, queue, chains, group, allocated, lost, history>>
      /\ answer' = [answer EXCEPT ![t] = c]
  BY <1>1, <1>4 DEF HandleCqe
<1>6. c # None /\ answer'[t] = c /\ \A u \in Threads : u # t => answer'[u] = answer[u]
  <2>1. c # None
    BY <1>3, AnswersAssumption
  <2>2. QED
    BY <1>2, <1>5, <2>1 DEF TypeOK
<1>7. TypeOK'
  BY <1>2, <1>3, <1>5 DEF TypeOK, history
<1>8. CarrierInv'
  <2>1. \A i \in 1 .. Len(cq') : Fits(cq'[i]) /\ CqeBid(cq'[i])
    BY <1>1, HeadGone
  <2>2. \A s : Fits(s) /\ ~ Has(s, "by", t) /\ s.by \in Threads => FitsNext(s)
    BY <1>5, <1>6 DEF Fits, FitsNext, Has
  <2>3. \A i \in 1 .. Len(cq') : FitsNext(cq'[i])
    <3>1. \A i \in 1 .. Len(cq') : cq'[i].by \in Threads
      <4>1. ASSUME NEW s \in Seq(Cqes), NEW i \in 1 .. Len(s) PROVE s[i] \in Cqes
        OBVIOUS
      <4>2. \A e \in Cqes : e.by \in Threads
        BY DEF Cqes
      <4>3. QED
        BY <1>3, <4>1, <4>2
    <3>2. QED
      BY <1>3, <1>4, <2>1, <2>2, <3>1, CarriersAre
  <2>4. \A i \in 1 .. Len(queue') : FitsNext(queue'[i]) /\ SqeBid(queue'[i])
    <3>1. \A i \in 1 .. Len(queue') : /\ Fits(queue'[i]) /\ SqeBid(queue'[i])
                                      /\ queue'[i].by \in Threads
      BY <1>2, <1>5, Sizes DEF CarrierInv, Sqes
    <3>2. QED
      BY <1>3, <1>4, <2>2, <3>1, CarriersAre
  <2>5. \A d \in chains' : ChainShape(d) /\ \A i \in 1 .. Len(d) : FitsNext(d[i]) /\ SqeBid(d[i])
    <3>1. \A d \in chains' : /\ ChainShape(d)
                             /\ \A i \in 1 .. Len(d) : Fits(d[i]) /\ SqeBid(d[i]) /\ d[i].by \in Threads
      BY <1>2, <1>5, Sizes DEF CarrierInv, Sqes
    <3>2. QED
      BY <1>3, <1>4, <2>2, <3>1, CarriersAre
  <2>6. QED
    BY <2>1, <2>3, <2>4, <2>5, CarrierNext
<1>9. ThreadInv'
  <2>1. c.bid # None => c.op = "provide"
    BY <1>3 DEF CqeBid
  <2>2. QED
    BY <1>2, <1>4, <1>5, <1>6, <2>1 DEF ThreadInv
<1>10. ASSUME NEW d \in Buffers, d # c.bid PROVE OnePlace(d)' /\ Single(d)' /\ Unmoved(d)
  <2>1. ~ Has(c, "up", d) /\ ~ Has(c, "down", d)
    BY <1>10 DEF Has
  <2>2. (Some("up", d)' <=> Some("up", d)) /\ (Some("down", d)' <=> Some("down", d))
    BY <1>1, <2>1, HeadGone
  <2>3. \A u \in Threads : answer'[u] # None /\ answer'[u].bid = d
                             <=> answer[u] # None /\ answer[u].bid = d
    BY <1>4, <1>6, <1>10
  <2>4. \A x \in Places : At(d, x)' <=> At(d, x)
    BY <1>5, <2>2, <2>3 DEF At
  <2>5. OnePlace(d) /\ Single(d)
    BY DEF BuffersInv, BufferInv
  <2>6. QED
    BY <1>5, <2>3, <2>4, <2>5, Stays DEF Single, Unmoved
<1>11. ASSUME c.bid \in Buffers PROVE OnePlace(c.bid)' /\ Single(c.bid)' /\ Moved(c.bid)
  <2>1. PICK b \in Buffers : b = c.bid
    BY <1>11
  <2>2. OnePlace(b) /\ Single(b) /\ At(b, "down") /\ ~ At(b, "down")' /\ "down" \in Places
    BY <1>1, <1>3, <2>1, HeadGone DEF BuffersInv, BufferInv, At, Places
  <2>3. \A x \in Places : x # "down" => ~ At(b, x)
    BY <2>2, NowhereElse
  <2>4. At(b, "answer")' /\ "answer" \in Places
    BY <1>6, <2>1 DEF At, Places
  <2>5. Some("up", b)' <=> Some("up", b)
    <3>1. ~ Has(c, "up", b)
      BY <1>3 DEF Has
    <3>2. QED
      BY <1>1, <3>1, HeadGone
  <2>6. \A x \in Places : x \notin {"down", "answer"} => (At(b, x)' <=> At(b, x))
    BY <1>5, <2>5 DEF At
  <2>7. \A u \in Threads : answer'[u] # None /\ answer'[u].bid = b => u = t
    <3>1. \A u \in Threads : ~ (answer[u] # None /\ answer[u].bid = b)
      BY <2>3 DEF At, Places
    <3>2. QED
      BY <1>6, <3>1
  <2>8. OnePlace(b)' /\ Single(b)'
    BY <1>5, <2>2, <2>4, <2>6, <2>7, Moves DEF Single
  <2>9. <<"down", "answer">> \in Ways
    BY DEF Ways
  <2>10. Moved(b)
    BY <2>2, <2>4, <2>9 DEF Moved
  <2>11. QED
    BY <2>1, <2>8, <2>10
<1>12. Travels
  BY <1>10, <1>11 DEF Travels
<1>13. QED
  BY <1>3, <1>7, <1>8, <1>9, <1>10, <1>11, <1>12 DEF BuffersInv, BufferInv

-----------------------------------------------------------------------------
(* The threads.                                                             *)

\* A thread that does not wait for an answer has no request on its way but its receives.
LEMMA TurnFree ==
  ASSUME BuffersInv, NEW t \in Threads,
         pc[t] \notin {"timeout", "cancel", "provide"} \/ answer[t] # None
  PROVE  ~ Some("by", t)
<1>1. TypeOK /\ CarrierInv
  BY DEF BuffersInv
<1>2. \A s : (s \in Sqes \/ s \in Cqes) /\ Fits(s) => ~ Has(s, "by", t)
  BY DEF Fits, Has, Sqes, Cqes, Ops
<1>3. ~ InQueue("by", t) /\ ~ InRing("by", t)
  BY <1>1, <1>2, Sizes DEF CarrierInv, InQueue, InRing
<1>4. ~ InChain("by", t)
  BY <1>1, <1>2, Sizes DEF CarrierInv, InChain
<1>5. QED
  BY <1>3, <1>4 DEF Some

\* A thread goes on without a new request.
LEMMA QuietCarriers ==
  ASSUME BuffersInv, NEW t \in Threads, ~ Some("by", t),
         UNCHANGED <<queue, chains, cq, allocated>>,
         \A u \in Threads : u # t => pc'[u] = pc[u] /\ answer'[u] = answer[u]
  PROVE  /\ CarrierInv' /\ OnceInv'
         /\ \A q, v : Some(q, v)' <=> Some(q, v)
<1>1. TypeOK /\ CarrierInv
  BY DEF BuffersInv
<1>2. \A s : Fits(s) /\ ~ Has(s, "by", t) /\ s.by \in Threads => FitsNext(s)
  BY DEF Fits, FitsNext, Has
<1>3. \A q, v : (Some(q, v)' <=> Some(q, v)) /\ (One(q, v) => One(q, v)')
  <2> HIDE DEF Has
  <2> QED
    BY DEF Some, One, InQueue, InChain, InRing
<1>4. ~ Some("by", t)'
  BY <1>3
<1>5. \A i \in 1 .. Len(queue') : FitsNext(queue'[i]) /\ SqeBid(queue'[i])
  <2>1. \A i \in 1 .. Len(queue') : /\ Fits(queue'[i]) /\ SqeBid(queue'[i])
                                    /\ queue'[i].by \in Threads
    BY <1>1, Sizes DEF CarrierInv, Sqes
  <2>2. QED
    BY <1>2, <1>4, <2>1, CarriersAre
<1>6. \A d \in chains' : ChainShape(d) /\ \A i \in 1 .. Len(d) : FitsNext(d[i]) /\ SqeBid(d[i])
  <2>1. \A d \in chains' : /\ ChainShape(d)
                           /\ \A i \in 1 .. Len(d) : Fits(d[i]) /\ SqeBid(d[i]) /\ d[i].by \in Threads
    BY <1>1, Sizes DEF CarrierInv, Sqes
  <2>2. QED
    BY <1>2, <1>4, <2>1, CarriersAre
<1>7. \A i \in 1 .. Len(cq') : FitsNext(cq'[i]) /\ CqeBid(cq'[i])
  <2>1. \A i \in 1 .. Len(cq') : /\ Fits(cq'[i]) /\ CqeBid(cq'[i])
                                 /\ cq'[i].by \in Threads
    BY <1>1, Sizes DEF CarrierInv, Cqes
  <2>2. QED
    BY <1>2, <1>4, <2>1, CarriersAre
<1>8. OnceInv'
  BY <1>3 DEF BuffersInv, OnceInv
<1>9. QED
  BY <1>3, <1>5, <1>6, <1>7, <1>8, CarrierNext

\* A thread makes a request.
LEMMA SubmitCarriers ==
  ASSUME BuffersInv, NEW t \in Threads, ~ Some("by", t), UNCHANGED <<chains, cq>>,
         NEW s \in Sqes, queue' = Append(queue, s), s.by = t, FitsNext(s), SqeBid(s),
         s.op = "recv" => ~ Some("at", s.at), s.bid # None => ~ Some("down", s.bid),
         \A a \in Addresses : allocated[a] # None => allocated'[a] = allocated[a],
         \A u \in Threads : u # t => pc'[u] = pc[u] /\ answer'[u] = answer[u]
  PROVE  /\ CarrierInv' /\ OnceInv' /\ queue' \in Seq(Sqes)
         /\ \A b \in Buffers : Some("up", b)' <=> Some("up", b)
         /\ \A b \in Buffers : Some("down", b)' <=> Some("down", b) \/ b = s.bid
<1>1. TypeOK /\ CarrierInv /\ OnceInv /\ None \notin Threads \cup Buffers
  BY BuffersAssumption DEF BuffersInv
<1>2. \A e : Fits(e) /\ ~ Has(e, "by", t) /\ e.by \in Threads => FitsNext(e)
  BY <1>1 DEF Fits, FitsNext, Has
<1>3. \A q, v : /\ ~ Has(s, q, v) => (One(q, v) => One(q, v)') /\ (Some(q, v)' <=> Some(q, v))
                /\ Has(s, q, v) /\ ~ Some(q, v) => One(q, v)' /\ Some(q, v)'
  <2> HIDE DEF Has
  <2> QED
    BY <1>1, Appended
<1>4. /\ \A a \in Addresses : Has(s, "at", a) => ~ Some("at", a)
      /\ \A u \in Threads : Has(s, "by", u) => ~ Some("by", u)
      /\ \A b \in Buffers : ~ Has(s, "up", b) /\ (Has(s, "down", b) <=> b = s.bid)
      /\ \A b \in Buffers : Has(s, "down", b) => ~ Some("down", b)
  BY <1>1 DEF Has, SqeBid
<1>5. /\ \A b \in Buffers : Some("up", b)' <=> Some("up", b)
      /\ \A b \in Buffers : Some("down", b)' <=> Some("down", b) \/ b = s.bid
  <2> HIDE DEF Has
  <2> QED
    BY <1>3, <1>4
<1>6. OnceInv'
  <2> HIDE DEF Has
  <2>1. \A a \in Addresses : One("at", a)'
    BY <1>1, <1>3, <1>4 DEF OnceInv
  <2>2. \A u \in Threads : One("by", u)'
    BY <1>1, <1>3, <1>4 DEF OnceInv
  <2>3. \A b \in Buffers : One("up", b)' /\ One("down", b)'
    BY <1>1, <1>3, <1>4 DEF OnceInv
  <2>4. QED
    BY <2>1, <2>2, <2>3 DEF OnceInv
<1>7. /\ queue' \in Seq(Sqes) /\ \A i \in 1 .. Len(queue') :
           queue'[i] = s \/ \E j \in 1 .. Len(queue) : queue'[i] = queue[j]
  <2>1. queue \in Seq(Sqes) /\ Len(queue) \in Nat
    BY <1>1, Sizes
  <2>2. /\ queue' \in Seq(Sqes) /\ Len(queue') = Len(queue) + 1
        /\ \A i \in 1 .. Len(queue) : queue'[i] = queue[i]
        /\ queue'[Len(queue) + 1] = s
    BY <2>1
  <2>3. \A i \in 1 .. Len(queue') : i \in 1 .. Len(queue) \/ i = Len(queue) + 1
    BY <2>1, <2>2
  <2>4. QED
    BY <2>2, <2>3
<1>8. \A i \in 1 .. Len(queue') : FitsNext(queue'[i]) /\ SqeBid(queue'[i])
  <2>1. ASSUME NEW j \in 1 .. Len(queue) PROVE FitsNext(queue[j]) /\ SqeBid(queue[j])
    <3>1. Fits(queue[j]) /\ SqeBid(queue[j]) /\ queue[j].by \in Threads
      BY <1>1, Sizes DEF CarrierInv, Sqes
    <3>2. ~ Has(queue[j], "by", t)
      BY DEF Some, InQueue
    <3>3. QED
      BY <1>2, <3>1, <3>2
  <2>2. QED
    BY <1>7, <2>1
<1>9. \A d \in chains' : ChainShape(d) /\ \A i \in 1 .. Len(d) : FitsNext(d[i]) /\ SqeBid(d[i])
  <2>1. \A d \in chains : /\ ChainShape(d)
                          /\ \A i \in 1 .. Len(d) : Fits(d[i]) /\ SqeBid(d[i]) /\ d[i].by \in Threads
    BY <1>1, Sizes DEF CarrierInv, Sqes
  <2>2. \A d \in chains : \A i \in 1 .. Len(d) : ~ Has(d[i], "by", t)
    BY DEF Some, InChain
  <2>3. QED
    BY <1>2, <2>1, <2>2
<1>10. \A i \in 1 .. Len(cq') : FitsNext(cq'[i]) /\ CqeBid(cq'[i])
  <2>1. \A i \in 1 .. Len(cq) : Fits(cq[i]) /\ CqeBid(cq[i]) /\ cq[i].by \in Threads
    BY <1>1, Sizes DEF CarrierInv, Cqes
  <2>2. \A i \in 1 .. Len(cq) : ~ Has(cq[i], "by", t)
    BY DEF Some, InRing
  <2>3. QED
    BY <1>2, <2>1, <2>2
<1>11. QED
  BY <1>5, <1>6, <1>7, <1>8, <1>9, <1>10, CarrierNext

\* A thread goes on and no buffer moves but e, if any.
LEMMA ThreadKeeps ==
  ASSUME BuffersInv, TypeOK', CarrierInv', OnceInv', ThreadInv', NEW e,
         \A b \in Buffers : b = e \/ Unmoved(b),
         e \in Buffers => OnePlace(e)' /\ Moved(e), \A b \in Buffers : Single(b)'
  PROVE  BuffersInv' /\ Travels
<1>1. ASSUME NEW b \in Buffers PROVE OnePlace(b)'
  <2>1. CASE b = e
    BY <2>1
  <2>2. CASE b # e
    BY <2>2, Stays DEF BuffersInv, BufferInv, Unmoved
  <2>3. QED
    BY <2>1, <2>2
<1>2. BuffersInv'
  BY <1>1 DEF BuffersInv, BufferInv
<1>3. QED
  BY <1>2 DEF Travels

\* Recv keeps the invariant.
LEMMA RecvKeeps ==
  ASSUME BuffersInv, NEW t \in Threads, Recv(t)
  PROVE  BuffersInv' /\ Travels
<1>1. /\ TypeOK /\ CarrierInv /\ ThreadInv /\ pc[t] = "idle"
      /\ None \notin Threads \cup Buffers \cup Addresses
  BY BuffersAssumption DEF BuffersInv, Recv
<1>2. PICK a \in Addresses :
        /\ allocated[a] = None /\ allocated' = [allocated EXCEPT ![a] = t]
        /\ token' = [token EXCEPT ![t] = a] /\ Submit(t, "recv", a, None)
  BY DEF Recv, Free
<1>3. UNCHANGED <<value, answer, buffer, chains, group, cq, lost, late>> /\ pc' = [pc EXCEPT ![t] = "link"]
  BY DEF Recv, kernelVars, Goto
<1> DEFINE s == [op |-> "recv", by |-> t, at |-> a, bid |-> None]
<1>4. s \in Sqes /\ queue' = Append(queue, s)
  BY <1>2 DEF Sqes, Ops, Submit
<1>5. ~ Some("by", t)
  BY <1>1, TurnFree
<1>6. ~ Some("at", a)
  <2>1. \A e : (e \in Sqes \/ e \in Cqes) /\ Fits(e) => ~ Has(e, "at", a)
    BY <1>1, <1>2 DEF Fits, Has, Sqes, Cqes
  <2>2. ~ InQueue("at", a) /\ ~ InRing("at", a)
    BY <1>1, <2>1, Sizes DEF CarrierInv, InQueue, InRing
  <2>3. ~ InChain("at", a)
    BY <1>1, <2>1, Sizes DEF CarrierInv, InChain
  <2>4. QED
    BY <2>2, <2>3 DEF Some
<1>7. FitsNext(s) /\ SqeBid(s)
  BY <1>1, <1>2 DEF FitsNext, SqeBid, TypeOK
<1>8. /\ \A d \in Addresses : allocated[d] # None => allocated'[d] = allocated[d]
      /\ \A u \in Threads : u # t => pc'[u] = pc[u] /\ answer'[u] = answer[u]
  BY <1>1, <1>2, <1>3 DEF TypeOK
<1>9. /\ CarrierInv' /\ OnceInv' /\ queue' \in Seq(Sqes)
      /\ \A b \in Buffers : Some("up", b)' <=> Some("up", b)
      /\ \A b \in Buffers : Some("down", b)' <=> Some("down", b)
  <2>1. UNCHANGED <<chains, cq>> /\ s.by = t /\ s.op = "recv" /\ s.at = a /\ s.bid = None
    BY <1>3
  <2>2. /\ CarrierInv' /\ OnceInv' /\ queue' \in Seq(Sqes)
        /\ \A b \in Buffers : Some("up", b)' <=> Some("up", b)
        /\ \A b \in Buffers : Some("down", b)' <=> Some("down", b) \/ b = s.bid
    BY <1>4, <1>5, <1>6, <1>7, <1>8, <2>1, SubmitCarriers
  <2>3. QED
    BY <1>1, <2>1, <2>2
<1>10. TypeOK'
  <2>1. bare' \subseteq Threads /\ misread' \subseteq Threads /\ mixed' \subseteq Threads
    BY <1>1, <1>2 DEF Recv, Submit, OpenFor, TypeOK
  <2>2. QED
    BY <1>1, <1>2, <1>3, <1>9, <2>1 DEF TypeOK
<1>11. ThreadInv'
  <2>1. answer[t] = None /\ value[t] = None /\ buffer[t] = None
    BY <1>1 DEF ThreadInv, TypeOK, Cqes, Ops
  <2>2. QED
    BY <1>1, <1>2, <1>3, <2>1 DEF ThreadInv, TypeOK
<1>12. \A b \in Buffers : Unmoved(b)
  BY <1>3, <1>9 DEF At, Unmoved
<1>13. \A b \in Buffers : Single(b)'
  BY <1>3 DEF BuffersInv, BufferInv, Single
<1>14. QED
  BY <1>1, <1>9, <1>10, <1>11, <1>12, <1>13, ThreadKeeps

\* LinkTimeout keeps the invariant.
LEMMA LinkTimeoutKeeps ==
  ASSUME BuffersInv, NEW t \in Threads, LinkTimeout(t)
  PROVE  BuffersInv' /\ Travels
<1>1. /\ TypeOK /\ CarrierInv /\ ThreadInv /\ pc[t] = "link"
      /\ None \notin Threads \cup Buffers \cup Addresses
  BY BuffersAssumption DEF BuffersInv, LinkTimeout
<1>2. /\ UNCHANGED <<token, value, answer, buffer, chains, group, cq, allocated, lost, bare, misread, late>>
      /\ pc' = [pc EXCEPT ![t] = "timeout"] /\ Submit(t, "timeout", None, None)
  BY DEF LinkTimeout, kernelVars, Goto
<1> DEFINE s == [op |-> "timeout", by |-> t, at |-> None, bid |-> None]
<1>3. s \in Sqes /\ queue' = Append(queue, s)
  BY <1>2 DEF Sqes, Ops, Submit
<1>4. ~ Some("by", t)
  BY <1>1, TurnFree
<1>5. answer[t] = None
  BY <1>1 DEF ThreadInv, TypeOK, Cqes, Ops
<1>6. FitsNext(s) /\ SqeBid(s)
  BY <1>1, <1>2, <1>5 DEF FitsNext, SqeBid, TypeOK
<1>7. \A u \in Threads : u # t => pc'[u] = pc[u] /\ answer'[u] = answer[u]
  BY <1>1, <1>2 DEF TypeOK
<1>8. /\ CarrierInv' /\ OnceInv' /\ queue' \in Seq(Sqes)
      /\ \A b \in Buffers : Some("up", b)' <=> Some("up", b)
      /\ \A b \in Buffers : Some("down", b)' <=> Some("down", b)
  <2>1. UNCHANGED <<chains, cq>> /\ s.by = t /\ s.op # "recv" /\ s.bid = None
    BY <1>2
  <2>2. /\ CarrierInv' /\ OnceInv' /\ queue' \in Seq(Sqes)
        /\ \A b \in Buffers : Some("up", b)' <=> Some("up", b)
        /\ \A b \in Buffers : Some("down", b)' <=> Some("down", b) \/ b = s.bid
    BY <1>2, <1>3, <1>4, <1>6, <1>7, <2>1, SubmitCarriers
  <2>3. QED
    BY <1>1, <2>1, <2>2
<1>9. TypeOK'
  <2>1. mixed' \subseteq Threads
    BY <1>1, <1>2 DEF Submit, OpenFor, TypeOK
  <2>2. QED
    BY <1>1, <1>2, <1>8, <2>1 DEF TypeOK
<1>10. ThreadInv'
  BY <1>1, <1>2, <1>5 DEF ThreadInv, TypeOK
<1>11. \A b \in Buffers : Unmoved(b)
  BY <1>2, <1>8 DEF At, Unmoved
<1>12. \A b \in Buffers : Single(b)'
  BY <1>2 DEF BuffersInv, BufferInv, Single
<1>13. QED
  BY <1>1, <1>8, <1>9, <1>10, <1>11, <1>12, ThreadKeeps

\* TimedOut keeps the invariant.
LEMMA TimedOutKeeps ==
  ASSUME BuffersInv, NEW t \in Threads, TimedOut(t)
  PROVE  BuffersInv' /\ Travels
<1>1. /\ TypeOK /\ CarrierInv /\ ThreadInv /\ pc[t] = "timeout" /\ answer[t] # None
      /\ None \notin Threads \cup Buffers \cup Addresses
  BY BuffersAssumption DEF BuffersInv, TimedOut, Waits
<1>2. PICK a \in Addresses \cup {None} : a = token[t]
  BY <1>1 DEF TypeOK
<1>3. /\ UNCHANGED <<token, value, buffer, chains, group, cq, allocated, lost, bare, misread, late>>
      /\ pc' = [pc EXCEPT ![t] = "cancel"] /\ Submit(t, "cancel", a, None)
      /\ answer' = [answer EXCEPT ![t] = None]
  BY <1>2 DEF TimedOut, Waits, kernelVars, Goto
<1> DEFINE s == [op |-> "cancel", by |-> t, at |-> a, bid |-> None]
<1>4. s \in Sqes /\ queue' = Append(queue, s)
  BY <1>3 DEF Sqes, Ops, Submit
<1>5. ~ Some("by", t)
  BY <1>1, TurnFree
<1>6. answer[t].bid = None
  BY <1>1 DEF ThreadInv
<1>7. FitsNext(s) /\ SqeBid(s)
  BY <1>1, <1>3 DEF FitsNext, SqeBid, TypeOK
<1>8. \A u \in Threads : u # t => pc'[u] = pc[u] /\ answer'[u] = answer[u]
  BY <1>1, <1>3 DEF TypeOK
<1>9. /\ CarrierInv' /\ OnceInv' /\ queue' \in Seq(Sqes)
      /\ \A b \in Buffers : Some("up", b)' <=> Some("up", b)
      /\ \A b \in Buffers : Some("down", b)' <=> Some("down", b)
  <2>1. UNCHANGED <<chains, cq>> /\ s.by = t /\ s.op # "recv" /\ s.bid = None
    BY <1>3
  <2>2. /\ CarrierInv' /\ OnceInv' /\ queue' \in Seq(Sqes)
        /\ \A b \in Buffers : Some("up", b)' <=> Some("up", b)
        /\ \A b \in Buffers : Some("down", b)' <=> Some("down", b) \/ b = s.bid
    BY <1>3, <1>4, <1>5, <1>7, <1>8, <2>1, SubmitCarriers
  <2>3. QED
    BY <1>1, <2>1, <2>2
<1>10. TypeOK'
  <2>1. mixed' \subseteq Threads
    BY <1>1, <1>3 DEF Submit, OpenFor, TypeOK
  <2>2. QED
    BY <1>1, <1>3, <1>9, <2>1 DEF TypeOK
<1>11. ThreadInv'
  BY <1>1, <1>3 DEF ThreadInv, TypeOK
<1>12. \A b \in Buffers : \A u \in Threads :
         answer'[u] # None /\ answer'[u].bid = b <=> answer[u] # None /\ answer[u].bid = b
  BY <1>1, <1>3, <1>6 DEF TypeOK
<1>13. \A b \in Buffers : Unmoved(b) /\ Single(b)'
  BY <1>3, <1>9, <1>12 DEF At, Unmoved, BuffersInv, BufferInv, Single
<1>14. QED
  BY <1>1, <1>9, <1>10, <1>11, <1>13, ThreadKeeps

\* A thread whose receive was answered in time, or that gives up, takes an answer that has
\* no buffer.
LEMMA AnswerTaken ==
  ASSUME BuffersInv, NEW t \in Threads, Waits(t, pc[t]), pc[t] # "provide"
  PROVE  \A b \in Buffers : \A u \in Threads :
           answer'[u] # None /\ answer'[u].bid = b <=> answer[u] # None /\ answer[u].bid = b
<1>1. TypeOK /\ ThreadInv /\ None \notin Buffers
  BY BuffersAssumption DEF BuffersInv
<1>2. answer[t].bid = None /\ answer' = [answer EXCEPT ![t] = None]
  BY <1>1 DEF ThreadInv, Waits
<1>3. QED
  BY <1>1, <1>2 DEF TypeOK

\* CancelReturns and UnexpectedTimeout keep the invariant.
LEMMA RetryKeeps ==
  ASSUME BuffersInv, NEW t \in Threads, pc[t] \in {"timeout", "cancel"}, Waits(t, pc[t]), Retry(t)
  PROVE  BuffersInv' /\ Travels
<1>1. /\ TypeOK /\ CarrierInv /\ ThreadInv /\ answer[t] # None
      /\ None \notin Threads \cup Buffers \cup Addresses
  BY BuffersAssumption DEF BuffersInv, Waits
<1>2. /\ UNCHANGED <<buffer, queue, chains, group, cq, allocated, history>>
      /\ pc' = [pc EXCEPT ![t] = "idle"] /\ answer' = [answer EXCEPT ![t] = None]
      /\ token' = [token EXCEPT ![t] = None] /\ value' = [value EXCEPT ![t] = None]
      /\ lost' = lost \cup Losing(t, value[t])
  BY DEF Retry, Waits, DropFuture, kernelVars, Goto
<1>3. \A u \in Threads : u # t => pc'[u] = pc[u] /\ answer'[u] = answer[u] /\ value'[u] = value[u]
  BY <1>1, <1>2 DEF TypeOK
<1>4. ~ Some("by", t)
  BY <1>1, TurnFree
<1>5. /\ CarrierInv' /\ OnceInv'
      /\ \A q, v : Some(q, v)' <=> Some(q, v)
  BY <1>2, <1>3, <1>4, QuietCarriers
<1>6. \A b \in Buffers : \A u \in Threads :
        answer'[u] # None /\ answer'[u].bid = b <=> answer[u] # None /\ answer[u].bid = b
  BY AnswerTaken
<1>7. Losing(t, value[t]) \subseteq [by : Threads, bid : Buffers]
  BY <1>1 DEF Losing, TypeOK
<1>8. TypeOK'
  BY <1>1, <1>2, <1>7 DEF TypeOK, history
<1>9. ThreadInv'
  BY <1>1, <1>2 DEF ThreadInv, TypeOK
<1>10. \A b \in Buffers : b # value[t] => Unmoved(b) /\ Single(b)'
  <2>1. SUFFICES ASSUME NEW b \in Buffers, b # value[t] PROVE Unmoved(b) /\ Single(b)'
    OBVIOUS
  <2>2. \A u \in Threads : value'[u] = b <=> value[u] = b
    BY <1>1, <1>2, <1>3, <2>1 DEF TypeOK
  <2>3. \A l : l.bid = b => (l \in lost' <=> l \in lost)
    BY <1>2, <2>1 DEF Losing
  <2>4. Single(b)
    BY DEF BuffersInv, BufferInv
  <2>5. QED
    BY <1>2, <1>5, <1>6, <2>2, <2>3, <2>4 DEF At, Unmoved, Single
<1>11. CASE value[t] = None
  BY <1>1, <1>5, <1>8, <1>9, <1>10, <1>11, ThreadKeeps
<1>12. CASE value[t] # None
  <2>1. PICK b \in Buffers : b = value[t]
    BY <1>1, <1>12 DEF TypeOK
  <2>2. OnePlace(b) /\ Single(b) /\ At(b, "value") /\ "value" \in Places
    BY <2>1 DEF BuffersInv, BufferInv, At, Places
  <2>3. \A x \in Places : x # "value" => ~ At(b, x)
    BY <2>2, NowhereElse
  <2>4. \A u \in Threads : value'[u] # b
    BY <1>1, <1>2, <1>3, <2>1, <2>2 DEF Single, TypeOK
  <2>5. PICK l : l = [by |-> t, bid |-> b] /\ l.bid = b
    <3>1. [by |-> t, bid |-> b].bid = b
      OBVIOUS
    <3>2. QED
      BY <3>1
  <2>6. lost' = lost \cup {l}
    BY <1>1, <1>2, <2>1, <2>5 DEF Losing
  <2>7. \A m \in lost : m.bid # b
    BY <2>3 DEF At, Places
  <2>8. At(b, "lost")' /\ ~ At(b, "value")' /\ "lost" \in Places /\ <<"value", "lost">> \in Ways
    BY <2>4, <2>5, <2>6 DEF At, Places, Ways
  <2>9. \A x \in Places : x \notin {"value", "lost"} => (At(b, x)' <=> At(b, x))
    BY <1>2, <1>5, <1>6 DEF At
  <2>10. OnePlace(b)' /\ Moved(b)
    BY <2>2, <2>8, <2>9, Moves DEF Moved
  <2>11. Single(b)'
    BY <1>2, <1>6, <2>2, <2>4, <2>5, <2>6, <2>7 DEF Single
  <2>12. QED
    BY <1>5, <1>8, <1>9, <1>10, <2>1, <2>10, <2>11, ThreadKeeps
<1>13. QED
  BY <1>11, <1>12

\* InTime keeps the invariant.
LEMMA InTimeKeeps ==
  ASSUME BuffersInv, NEW t \in Threads, InTime(t)
  PROVE  BuffersInv' /\ Travels
<1>1. /\ TypeOK /\ CarrierInv /\ ThreadInv /\ answer[t] # None /\ pc[t] = "timeout"
      /\ Waits(t, pc[t]) /\ None \notin Threads \cup Buffers \cup Addresses
  BY BuffersAssumption DEF BuffersInv, InTime, Waits
<1>2. /\ UNCHANGED <<token, value, buffer, queue, chains, group, cq, allocated, lost, history>>
      /\ pc' = [pc EXCEPT ![t] = "get"] /\ answer' = [answer EXCEPT ![t] = None]
  BY DEF InTime, Waits, kernelVars, Goto
<1>3. \A u \in Threads : u # t => pc'[u] = pc[u] /\ answer'[u] = answer[u]
  BY <1>1, <1>2 DEF TypeOK
<1>4. ~ Some("by", t)
  BY <1>1, TurnFree
<1>5. /\ CarrierInv' /\ OnceInv'
      /\ \A q, v : Some(q, v)' <=> Some(q, v)
  BY <1>2, <1>3, <1>4, QuietCarriers
<1>6. \A b \in Buffers : \A u \in Threads :
        answer'[u] # None /\ answer'[u].bid = b <=> answer[u] # None /\ answer[u].bid = b
  BY <1>1, AnswerTaken
<1>7. TypeOK'
  BY <1>1, <1>2 DEF TypeOK, history
<1>8. ThreadInv'
  BY <1>1, <1>2 DEF ThreadInv, TypeOK
<1>9. \A b \in Buffers : Unmoved(b) /\ Single(b)'
  BY <1>2, <1>5, <1>6 DEF At, Unmoved, BuffersInv, BufferInv, Single
<1>10. QED
  BY <1>1, <1>5, <1>7, <1>8, <1>9, ThreadKeeps

\* GetReturns keeps the invariant.
LEMMA GetReturnsKeeps ==
  ASSUME BuffersInv, NEW t \in Threads, GetReturns(t)
  PROVE  BuffersInv' /\ Travels
<1>1. /\ TypeOK /\ CarrierInv /\ ThreadInv /\ pc[t] = "get"
      /\ None \notin Threads \cup Buffers \cup Addresses
  BY BuffersAssumption DEF BuffersInv, GetReturns
<1>2. PICK b \in Buffers : b = value[t]
  BY <1>1 DEF GetReturns, TypeOK
<1>3. /\ UNCHANGED <<answer, queue, chains, group, cq, allocated, lost, history>>
      /\ pc' = [pc EXCEPT ![t] = "use"] /\ buffer' = [buffer EXCEPT ![t] = b]
      /\ token' = [token EXCEPT ![t] = None] /\ value' = [value EXCEPT ![t] = None]
  BY <1>2 DEF GetReturns, DropFuture, kernelVars, Goto
<1>4. \A u \in Threads : u # t => /\ pc'[u] = pc[u] /\ answer'[u] = answer[u]
                                  /\ value'[u] = value[u] /\ buffer'[u] = buffer[u]
  BY <1>1, <1>3 DEF TypeOK
<1>5. ~ Some("by", t)
  BY <1>1, TurnFree
<1>6. /\ CarrierInv' /\ OnceInv'
      /\ \A q, v : Some(q, v)' <=> Some(q, v)
  BY <1>3, <1>4, <1>5, QuietCarriers
<1>7. TypeOK'
  BY <1>1, <1>3 DEF TypeOK, history
<1>8. answer[t] = None
  BY <1>1 DEF ThreadInv, TypeOK, Cqes, Ops
<1>9. ThreadInv'
  BY <1>1, <1>3, <1>8 DEF ThreadInv, TypeOK
<1>10. buffer[t] = None /\ buffer'[t] = b /\ value'[t] = None
  BY <1>1, <1>3 DEF ThreadInv, TypeOK
<1>11. ASSUME NEW d \in Buffers, d # b PROVE Unmoved(d) /\ Single(d)'
  <2>1. \A u \in Threads : (value'[u] = d <=> value[u] = d) /\ (buffer'[u] = d <=> buffer[u] = d)
    BY <1>1, <1>2, <1>4, <1>10, <1>11
  <2>2. Single(d)
    BY DEF BuffersInv, BufferInv
  <2>3. QED
    BY <1>3, <1>6, <2>1, <2>2 DEF At, Unmoved, Single
<1>12. OnePlace(b) /\ Single(b) /\ At(b, "value") /\ "value" \in Places
  BY <1>2 DEF BuffersInv, BufferInv, At, Places
<1>13. \A x \in Places : x # "value" => ~ At(b, x)
  BY <1>12, NowhereElse
<1>14. /\ \A u \in Threads : value'[u] # b
       /\ \A u \in Threads : buffer'[u] = b <=> u = t
  <2>1. \A u \in Threads : buffer[u] # b
    BY <1>13 DEF At, Places
  <2>2. QED
    BY <1>1, <1>2, <1>4, <1>10, <1>12, <2>1 DEF Single
<1>15. At(b, "buffer")' /\ ~ At(b, "value")' /\ "buffer" \in Places /\ <<"value", "buffer">> \in Ways
  BY <1>14 DEF At, Places, Ways
<1>16. \A x \in Places : x \notin {"value", "buffer"} => (At(b, x)' <=> At(b, x))
  BY <1>3, <1>6 DEF At
<1>17. OnePlace(b)' /\ Moved(b)
  BY <1>12, <1>15, <1>16, Moves DEF Moved
<1>18. Single(b)'
  BY <1>3, <1>12, <1>14 DEF Single
<1>19. QED
  BY <1>6, <1>7, <1>9, <1>11, <1>17, <1>18, ThreadKeeps

\* ProvideBuffer keeps the invariant.
LEMMA ProvideBufferKeeps ==
  ASSUME BuffersInv, NEW t \in Threads, ProvideBuffer(t)
  PROVE  BuffersInv' /\ Travels
<1>1. /\ TypeOK /\ CarrierInv /\ ThreadInv /\ pc[t] = "use"
      /\ None \notin Threads \cup Buffers \cup Addresses
  BY BuffersAssumption DEF BuffersInv, ProvideBuffer
<1>2. PICK b \in Buffers : b = buffer[t]
  BY <1>1 DEF ThreadInv, TypeOK
<1>3. /\ UNCHANGED <<token, value, answer, chains, group, cq, allocated, lost, bare, misread, late>>
      /\ pc' = [pc EXCEPT ![t] = "provide"] /\ Submit(t, "provide", None, b)
      /\ buffer' = [buffer EXCEPT ![t] = None]
  BY <1>2 DEF ProvideBuffer, kernelVars, Goto
<1> DEFINE s == [op |-> "provide", by |-> t, at |-> None, bid |-> b]
<1>4. s \in Sqes /\ queue' = Append(queue, s)
  BY <1>3 DEF Sqes, Ops, Submit
<1>5. ~ Some("by", t)
  BY <1>1, TurnFree
<1>6. answer[t] = None
  BY <1>1 DEF ThreadInv, TypeOK, Cqes, Ops
<1>7. FitsNext(s) /\ SqeBid(s)
  BY <1>1, <1>3, <1>6 DEF FitsNext, SqeBid, TypeOK
<1>8. \A u \in Threads : u # t => pc'[u] = pc[u] /\ answer'[u] = answer[u] /\ buffer'[u] = buffer[u]
  BY <1>1, <1>3 DEF TypeOK
<1>9. OnePlace(b) /\ Single(b) /\ At(b, "buffer") /\ "buffer" \in Places
  BY <1>2 DEF BuffersInv, BufferInv, At, Places
<1>10. \A x \in Places : x # "buffer" => ~ At(b, x)
  BY <1>9, NowhereElse
<1>11. ~ Some("down", b)
  BY <1>10 DEF At, Places
<1>12. /\ CarrierInv' /\ OnceInv' /\ queue' \in Seq(Sqes)
       /\ \A d \in Buffers : Some("up", d)' <=> Some("up", d)
       /\ \A d \in Buffers : Some("down", d)' <=> Some("down", d) \/ d = b
  <2>1. UNCHANGED <<chains, cq>> /\ s.by = t /\ s.op # "recv" /\ s.bid = b
    BY <1>3
  <2>2. QED
    BY <1>3, <1>4, <1>5, <1>7, <1>8, <1>11, <2>1, SubmitCarriers
<1>13. TypeOK'
  <2>1. mixed' \subseteq Threads
    BY <1>1, <1>3 DEF Submit, OpenFor, TypeOK
  <2>2. QED
    BY <1>1, <1>3, <1>12, <2>1 DEF TypeOK
<1>14. ThreadInv'
  BY <1>1, <1>3, <1>6 DEF ThreadInv, TypeOK
<1>15. ASSUME NEW d \in Buffers, d # b PROVE Unmoved(d) /\ Single(d)'
  <2>1. \A u \in Threads : buffer'[u] = d <=> buffer[u] = d
    BY <1>1, <1>2, <1>3, <1>8, <1>15 DEF TypeOK
  <2>2. Single(d)
    BY DEF BuffersInv, BufferInv
  <2>3. Some("down", d)' <=> Some("down", d)
    BY <1>12, <1>15
  <2>4. QED
    BY <1>3, <1>12, <2>1, <2>2, <2>3 DEF At, Unmoved, Single
<1>16. \A u \in Threads : buffer'[u] # b
  BY <1>1, <1>2, <1>3, <1>8, <1>9 DEF Single, TypeOK
<1>17. At(b, "down")' /\ ~ At(b, "buffer")' /\ "down" \in Places /\ <<"buffer", "down">> \in Ways
  BY <1>12, <1>16 DEF At, Places, Ways
<1>18. \A x \in Places : x \notin {"buffer", "down"} => (At(b, x)' <=> At(b, x))
  BY <1>3, <1>12 DEF At
<1>19. OnePlace(b)' /\ Moved(b)
  BY <1>9, <1>17, <1>18, Moves DEF Moved
<1>20. Single(b)'
  BY <1>3, <1>9, <1>16 DEF Single
<1>21. QED
  BY <1>12, <1>13, <1>14, <1>15, <1>19, <1>20, ThreadKeeps

\* ProvideReturns keeps the invariant.
LEMMA ProvideReturnsKeeps ==
  ASSUME BuffersInv, NEW t \in Threads, ProvideReturns(t)
  PROVE  BuffersInv' /\ Travels
<1>1. /\ TypeOK /\ CarrierInv /\ ThreadInv /\ answer[t] # None /\ pc[t] = "provide"
      /\ None \notin Threads \cup Buffers \cup Addresses
  BY BuffersAssumption DEF BuffersInv, ProvideReturns, Waits
<1>2. /\ UNCHANGED <<token, value, buffer, queue, chains, group, cq, allocated, history>>
      /\ pc' = [pc EXCEPT ![t] = "idle"] /\ answer' = [answer EXCEPT ![t] = None]
      /\ lost' = lost \cup Losing(t, answer[t].bid)
  BY DEF ProvideReturns, Waits, kernelVars, Goto
<1>3. \A u \in Threads : u # t => pc'[u] = pc[u] /\ answer'[u] = answer[u]
  BY <1>1, <1>2 DEF TypeOK
<1>4. ~ Some("by", t)
  BY <1>1, TurnFree
<1>5. /\ CarrierInv' /\ OnceInv'
      /\ \A q, v : Some(q, v)' <=> Some(q, v)
  BY <1>2, <1>3, <1>4, QuietCarriers
<1>6. answer'[t] = None /\ answer[t].bid \in Buffers \cup {None}
  BY <1>1, <1>2 DEF TypeOK, Cqes
<1>7. Losing(t, answer[t].bid) \subseteq [by : Threads, bid : Buffers]
  BY <1>6 DEF Losing
<1>8. TypeOK'
  BY <1>1, <1>2, <1>7 DEF TypeOK, history
<1>9. ThreadInv'
  BY <1>1, <1>2 DEF ThreadInv, TypeOK
<1>10. \A b \in Buffers : b # answer[t].bid => Unmoved(b) /\ Single(b)'
  <2>1. SUFFICES ASSUME NEW b \in Buffers, b # answer[t].bid PROVE Unmoved(b) /\ Single(b)'
    OBVIOUS
  <2>2. \A u \in Threads : answer'[u] # None /\ answer'[u].bid = b
                             <=> answer[u] # None /\ answer[u].bid = b
    BY <1>3, <1>6, <2>1
  <2>3. \A l : l.bid = b => (l \in lost' <=> l \in lost)
    BY <1>2, <2>1 DEF Losing
  <2>4. Single(b)
    BY DEF BuffersInv, BufferInv
  <2>5. QED
    BY <1>2, <1>5, <2>2, <2>3, <2>4 DEF At, Unmoved, Single
<1>11. CASE answer[t].bid = None
  BY <1>1, <1>5, <1>8, <1>9, <1>10, <1>11, ThreadKeeps
<1>12. CASE answer[t].bid # None
  <2>1. PICK b \in Buffers : b = answer[t].bid
    BY <1>6, <1>12
  <2>2. OnePlace(b) /\ Single(b) /\ At(b, "answer") /\ "answer" \in Places
    BY <1>1, <2>1 DEF BuffersInv, BufferInv, At, Places
  <2>3. \A x \in Places : x # "answer" => ~ At(b, x)
    BY <2>2, NowhereElse
  <2>4. \A u \in Threads : ~ (answer'[u] # None /\ answer'[u].bid = b)
    BY <1>1, <1>3, <1>6, <2>1, <2>2 DEF Single
  <2>5. PICK l : l = [by |-> t, bid |-> b] /\ l.bid = b
    <3>1. [by |-> t, bid |-> b].bid = b
      OBVIOUS
    <3>2. QED
      BY <3>1
  <2>6. lost' = lost \cup {l}
    BY <1>1, <1>2, <2>1, <2>5 DEF Losing
  <2>7. \A m \in lost : m.bid # b
    BY <2>3 DEF At, Places
  <2>8. At(b, "lost")' /\ ~ At(b, "answer")' /\ "lost" \in Places /\ <<"answer", "lost">> \in Ways
    BY <2>4, <2>5, <2>6 DEF At, Places, Ways
  <2>9. \A x \in Places : x \notin {"answer", "lost"} => (At(b, x)' <=> At(b, x))
    BY <1>2, <1>5 DEF At
  <2>10. OnePlace(b)' /\ Moved(b)
    BY <2>2, <2>8, <2>9, Moves DEF Moved
  <2>11. Single(b)'
    BY <1>2, <2>2, <2>4, <2>5, <2>6, <2>7 DEF Single
  <2>12. QED
    BY <1>5, <1>8, <1>9, <1>10, <2>1, <2>10, <2>11, ThreadKeeps
<1>13. QED
  BY <1>11, <1>12

-----------------------------------------------------------------------------
(* The theorems.                                                            *)

\* The initial state.
LEMMA BuffersStart == Init => BuffersInv
<1>1. SUFFICES ASSUME Init PROVE BuffersInv
  OBVIOUS
<1>2. queue = <<>> /\ cq = <<>> /\ Len(queue) = 0 /\ Len(cq) = 0 /\ chains = {}
  BY <1>1 DEF Init
<1>3. TypeOK
  BY <1>1 DEF Init, TypeOK
<1>4. CarrierInv
  BY <1>2 DEF CarrierInv
<1>5. \A q, v : One(q, v) /\ ~ Some(q, v)
  BY <1>2 DEF One, Some, InQueue, InChain, InRing
<1>6. OnceInv
  BY <1>5 DEF OnceInv
<1>7. ThreadInv
  BY <1>1, <1>3 DEF Init, ThreadInv
<1>8. ASSUME NEW b \in Buffers PROVE OnePlace(b) /\ Single(b)
  <2>1. \A t \in Threads : value[t] # b /\ buffer[t] # b /\ answer[t] = None
    BY <1>1, BuffersAssumption DEF Init
  <2>2. \A x \in Places : At(b, x) <=> x = "kernel"
    BY <1>1, <1>5, <2>1 DEF Init, At, Places
  <2>3. "kernel" \in Places
    BY DEF Places
  <2>4. QED
    BY <1>1, <2>1, <2>2, <2>3 DEF Init, OnePlace, Single
<1>9. QED
  BY <1>3, <1>4, <1>6, <1>7, <1>8 DEF BuffersInv, BufferInv

\* Every step keeps the invariant, and moves at most one buffer.
LEMMA BuffersStep == BuffersInv /\ [Next]_vars => BuffersInv' /\ Travels
<1>1. ASSUME BuffersInv, NEW t \in Threads, ThreadStep(t) PROVE BuffersInv' /\ Travels
  <2>1. CASE CancelReturns(t)
    BY <1>1, <2>1, RetryKeeps DEF CancelReturns, Waits
  <2>2. CASE UnexpectedTimeout(t)
    BY <1>1, <2>2, RetryKeeps DEF UnexpectedTimeout, Waits
  <2>3. QED
    BY <1>1, <2>1, <2>2, LinkTimeoutKeeps, TimedOutKeeps, InTimeKeeps, GetReturnsKeeps,
       ProvideReturnsKeeps DEF ThreadStep
<1>2. ASSUME BuffersInv, Worker PROVE BuffersInv' /\ Travels
  BY <1>2, SubmitToKernelKeeps, BareKeeps, CompletedKeeps, ReturnedKeeps DEF Worker
<1>3. ASSUME BuffersInv, Kernel PROVE BuffersInv' /\ Travels
  BY <1>3, ReceivesKeeps, RecvFailsKeeps, ExpireKeeps, ProvidesKeeps, CancelsKeeps DEF Kernel
<1>4. ASSUME BuffersInv, UNCHANGED vars PROVE BuffersInv' /\ Travels
  <2>1. Carried("none", None)
    BY <1>4 DEF BuffersInv, TypeOK, CarrierInv, Carried, Keeps, One, Some, InQueue, InChain, InRing,
                Fits, SqeBid, CqeBid, ChainShape, Has, vars, threadVars, kernelVars, history
  <2>2. QED
    BY <1>4, <2>1, PlainKeeps DEF BuffersInv, TypeOK, vars, threadVars, kernelVars, history
<1>5. QED
  BY <1>1, <1>2, <1>3, <1>4, RecvKeeps, ProvideBufferKeeps DEF Next

\* BuffersInv is an invariant of the receive loop: the types; the thread that each SQE
\* and CQE is of; one carrier for an address, a turn or a buffer; one place for a buffer.
THEOREM BuffersInvariant == Safety => []BuffersInv
<1>1. Init => BuffersInv
  BY BuffersStart
<1>2. BuffersInv /\ [Next]_vars => BuffersInv'
  BY BuffersStep
<1>3. QED
  BY <1>1, <1>2, PTL DEF Safety

\* The variables keep their types, whatever chains the queue is cut into.
THEOREM BuffersTypeCorrect == Safety => []TypeOK
<1>1. BuffersInv => TypeOK
  BY DEF BuffersInv
<1>2. QED
  BY <1>1, BuffersInvariant, PTL

\* The size of a set with at most one element.
LEMMA AtMostOne ==
  ASSUME NEW S, \A x, y \in S : x = y
  PROVE  Cardinality(S) = IF S = {} THEN 0 ELSE 1
<1>1. CASE S = {}
  BY <1>1, FS_EmptySet
<1>2. CASE S # {}
  <2>1. PICK x : x \in S
    BY <1>2
  <2>2. S = {x}
    BY <2>1
  <2>3. Cardinality({x}) = 1
    BY FS_Singleton
  <2>4. QED
    BY <1>2, <2>2, <2>3
<1>3. QED
  BY <1>1, <1>2

\* The sets of OneOwner, by the place of the buffer.
LEMMA WhoHas ==
  ASSUME BuffersInv, NEW b \in Buffers
  PROVE  /\ Received(b) # {} <=> At(b, "up") \/ At(b, "value")
         /\ Applied(b) # {} <=> At(b, "buffer")
         /\ Returned(b) # {} <=> At(b, "down") \/ At(b, "answer")
         /\ Lost(b) # {} <=> At(b, "lost")
<1>1. TypeOK /\ CarrierInv /\ b # None
  BY BuffersAssumption DEF BuffersInv
<1>2. At(b, "up") <=> InRing("up", b)
  BY <1>1, NoneUp DEF At, Some
<1>3. At(b, "up") <=> \E i \in 1 .. Len(cq) : cq[i].op = "recv" /\ cq[i].bid = b
  BY <1>2 DEF InRing, Has
<1>4. Received(b) # {} <=> At(b, "up") \/ At(b, "value")
  BY <1>3 DEF Received, InCq, At
<1>5. Applied(b) # {} <=> At(b, "buffer")
  BY DEF Applied, At
<1>6. InQueue("down", b) \/ InChain("down", b)
        <=> \E s \in Elements(queue) \cup InChains : s.bid = b
  BY <1>1 DEF CarrierInv, SqeBid, InQueue, InChain, Has, Elements, InChains
<1>7. InRing("down", b) <=> \E i \in 1 .. Len(cq) : cq[i].op = "provide" /\ cq[i].bid = b
  BY <1>1 DEF CarrierInv, CqeBid, InRing, Has
<1>8. Returned(b) # {} <=> At(b, "down") \/ At(b, "answer")
  BY <1>6, <1>7 DEF Returned, InCq, At, Some
<1>9. Lost(b) # {} <=> At(b, "lost")
  BY DEF Lost, At
<1>10. QED
  BY <1>4, <1>5, <1>8, <1>9

\* No two of one kind have a buffer.
LEMMA HadOnce ==
  ASSUME BuffersInv, NEW b \in Buffers
  PROVE  /\ \A x, y \in Received(b) : x = y
         /\ \A x, y \in Applied(b) : x = y
         /\ \A x, y \in Returned(b) : x = y
         /\ \A x, y \in Lost(b) : x = y
<1>1. TypeOK /\ CarrierInv /\ b # None /\ OnePlace(b) /\ Single(b) /\ One("up", b) /\ One("down", b)
  BY BuffersAssumption DEF BuffersInv, BufferInv, OnceInv
<1>2. ASSUME NEW v \in Places, NEW w \in Places, At(b, v), At(b, w) PROVE v = w
  BY <1>1, <1>2, NowhereElse
<1>3. ASSUME NEW x \in Received(b), NEW y \in Received(b) PROVE x = y
  <2> DEFINE Up(i) == i \in 1 .. Len(cq) /\ Has(cq[i], "up", b)
             Held(t) == t \in Threads /\ value[t] = b
  <2>1. (Up(x) \/ Held(x)) /\ (Up(y) \/ Held(y))
    BY <1>3 DEF Received, InCq, Has
  <2>2. \A i : Up(i) => At(b, "up")
    BY DEF At, Some, InRing
  <2>3. \A t : Held(t) => At(b, "value")
    BY DEF At
  <2>4. ~ (At(b, "up") /\ At(b, "value"))
    BY <1>2 DEF Places
  <2>5. \A i, j : Up(i) /\ Up(j) => i = j
    BY <1>1 DEF One
  <2>6. \A t, u : Held(t) /\ Held(u) => t = u
    BY <1>1 DEF Single
  <2>7. QED
    BY <2>1, <2>2, <2>3, <2>4, <2>5, <2>6
<1>4. ASSUME NEW x \in Returned(b), NEW y \in Returned(b) PROVE x = y
  <2> DEFINE Sent(s) == \/ \E i \in 1 .. Len(queue) : s = queue[i] /\ Has(queue[i], "down", b)
                        \/ \E c \in chains : \E i \in 1 .. Len(c) : s = c[i] /\ Has(c[i], "down", b)
             Down(i) == i \in 1 .. Len(cq) /\ Has(cq[i], "down", b)
             Held(t) == t \in Threads /\ answer[t] # None /\ answer[t].bid = b
  <2>1. ASSUME NEW z \in Returned(b) PROVE Sent(z) \/ Down(z) \/ Held(z)
    <3>1. CASE z \in Elements(queue) /\ z.bid = b
      BY <1>1, <3>1 DEF CarrierInv, SqeBid, Elements, Has
    <3>2. CASE z \in InChains /\ z.bid = b
      BY <1>1, <3>2 DEF CarrierInv, SqeBid, InChains, Elements, Has
    <3>3. CASE z \in InCq("provide") /\ cq[z].bid = b
      BY <3>3 DEF InCq, Has
    <3>4. QED
      BY <2>1, <3>1, <3>2, <3>3 DEF Returned
  <2>2. \A s, i : Sent(s) /\ Down(i) => FALSE
    BY <1>1 DEF One, InQueue, InChain, InRing
  <2>3. \A s, r : Sent(s) /\ Sent(r) => s = r
    BY <1>1 DEF One, InQueue, InChain
  <2>4. \A i, j : Down(i) /\ Down(j) => i = j
    BY <1>1 DEF One
  <2>5. \A s : Sent(s) \/ Down(s) => At(b, "down")
    BY DEF At, Some, InQueue, InChain, InRing
  <2>6. \A t : Held(t) => At(b, "answer")
    BY DEF At
  <2>7. ~ (At(b, "down") /\ At(b, "answer"))
    BY <1>2 DEF Places
  <2>8. \A t, u : Held(t) /\ Held(u) => t = u
    BY <1>1 DEF Single
  <2>9. (Sent(x) \/ Down(x) \/ Held(x)) /\ (Sent(y) \/ Down(y) \/ Held(y))
    BY <1>4, <2>1
  <2> HIDE DEF Sent, Down, Held
  <2>10. QED
    BY <2>2, <2>3, <2>4, <2>5, <2>6, <2>7, <2>8, <2>9
<1>5. \A x, y \in Applied(b) : x = y
  BY <1>1 DEF Single, Applied
<1>6. \A x, y \in Lost(b) : x = y
  BY <1>1 DEF Single, Lost
<1>7. QED
  BY <1>3, <1>4, <1>5, <1>6

\* A buffer is in one place only: with the kernel, on its way up, with one thread, on its way
\* down, or lost, once.  So it is never selected for two receives, nor handed back twice.
THEOREM BuffersHaveOneOwner == Safety => []OneOwner
<1>1. ASSUME BuffersInv, NEW b \in Buffers
      PROVE  Cardinality({b} \cap group) + Cardinality(Received(b)) + Cardinality(Applied(b))
               + Cardinality(Returned(b)) + Cardinality(Lost(b)) = 1
  <2> DEFINE Size(S) == IF S = {} THEN 0 ELSE 1
  <2>1. /\ Cardinality({b} \cap group) = Size({b} \cap group)
        /\ Cardinality(Received(b)) = Size(Received(b))
        /\ Cardinality(Applied(b)) = Size(Applied(b))
        /\ Cardinality(Returned(b)) = Size(Returned(b))
        /\ Cardinality(Lost(b)) = Size(Lost(b))
    <3>1. \A x, y \in {b} \cap group : x = y
      OBVIOUS
    <3>2. QED
      BY <1>1, <3>1, AtMostOne, HadOnce
  <2>2. PICK w \in Places : \A x \in Places : At(b, x) <=> x = w
    BY <1>1 DEF BuffersInv, BufferInv, OnePlace
  <2>3. {b} \cap group # {} <=> w = "kernel"
    BY <2>2 DEF At, Places
  <2>4. /\ Received(b) # {} <=> w \in {"up", "value"}
        /\ Applied(b) # {} <=> w = "buffer"
        /\ Returned(b) # {} <=> w \in {"down", "answer"}
        /\ Lost(b) # {} <=> w = "lost"
    <3> HIDE DEF At
    <3> QED
      BY <1>1, <2>2, WhoHas DEF Places
  <2>5. QED
    BY <2>1, <2>2, <2>3, <2>4 DEF Places
<1>2. BuffersInv => OneOwner
  BY <1>1 DEF OneOwner
<1>3. QED
  BY <1>2, BuffersInvariant, PTL

\* The owner of a buffer, as the mapping of Ownership has it, and by its place.
Owner(b) ==
  IF b \in group THEN "kernel"
  ELSE IF Applied(b) # {} THEN "application"
  ELSE IF Returned(b) # {} THEN "returned"
  ELSE IF Received(b) # {} THEN "received"
  ELSE "lost"

OwnerIn(w) ==
  IF w = "kernel" THEN "kernel"
  ELSE IF w = "buffer" THEN "application"
  ELSE IF w \in {"down", "answer"} THEN "returned"
  ELSE IF w \in {"up", "value"} THEN "received"
  ELSE "lost"

LEMMA OwnerByPlace ==
  BuffersInv => \A b \in Buffers : \A w \in Places : At(b, w) => Owner(b) = OwnerIn(w)
<1>1. SUFFICES ASSUME BuffersInv, NEW b \in Buffers, NEW w \in Places, At(b, w)
               PROVE  Owner(b) = OwnerIn(w)
  OBVIOUS
<1>2. \A x \in Places : x # w => ~ At(b, x)
  BY <1>1, NowhereElse DEF BuffersInv, BufferInv
<1>3. b \in group <=> w = "kernel"
  BY <1>1, <1>2 DEF At, Places
<1>4. /\ Received(b) # {} <=> w \in {"up", "value"}
      /\ Applied(b) # {} <=> w = "buffer"
      /\ Returned(b) # {} <=> w \in {"down", "answer"}
  <2> HIDE DEF At
  <2> QED
    BY <1>1, <1>2, WhoHas DEF Places
<1>5. QED
  BY <1>1, <1>3, <1>4 DEF Owner, OwnerIn, Places

LEMMA OwnerByPlaceNext ==
  (BuffersInv => \A b \in Buffers : \A w \in Places : At(b, w) => Owner(b) = OwnerIn(w))'
BY OwnerByPlace, PTL

\* A step of the loop is a step of ownership, or none.
LEMMA OwnerStep ==
  BuffersInv /\ BuffersInv' /\ Travels => [Ownership!Next]_(Ownership!vars)
<1>1. SUFFICES ASSUME BuffersInv, BuffersInv', Travels
               PROVE  [Ownership!Next]_(Ownership!vars)
  OBVIOUS
<1>2. PICK e : (\A b \in Buffers : b = e \/ Unmoved(b)) /\ (e \in Buffers => Moved(e))
  BY <1>1 DEF Travels
<1>3. ASSUME NEW b \in Buffers, b # e PROVE Owner(b)' = Owner(b)
  <2>1. PICK w \in Places : At(b, w)
    BY <1>1 DEF BuffersInv, BufferInv, OnePlace
  <2>2. At(b, w)'
    BY <1>2, <1>3, <2>1 DEF Unmoved
  <2>3. QED
    BY <1>1, <2>1, <2>2, OwnerByPlace, OwnerByPlaceNext
<1> DEFINE f == [b \in Buffers |-> Owner(b)]
<1>4. CASE e \notin Buffers
  <2>1. f' = f
    BY <1>3, <1>4
  <2>2. QED
    BY <2>1 DEF Owner, Ownership!vars
<1>5. CASE e \in Buffers
  <2>1. PICK v \in Places, w \in Places : <<v, w>> \in Ways /\ At(e, v) /\ At(e, w)'
    BY <1>2, <1>5 DEF Moved
  <2>2. Owner(e) = OwnerIn(v) /\ Owner(e)' = OwnerIn(w)
    BY <1>1, <1>5, <2>1, OwnerByPlace, OwnerByPlaceNext
  <2>3. f' = [f EXCEPT ![e] = OwnerIn(w)] /\ f[e] = OwnerIn(v)
    BY <1>3, <1>5, <2>2
  <2>4. \/ OwnerIn(v) = OwnerIn(w)
        \/ OwnerIn(v) = "kernel" /\ OwnerIn(w) = "received"
        \/ OwnerIn(v) = "received" /\ OwnerIn(w) = "application"
        \/ OwnerIn(v) = "application" /\ OwnerIn(w) = "returned"
        \/ OwnerIn(v) = "returned" /\ OwnerIn(w) = "kernel"
        \/ OwnerIn(v) \in {"received", "returned"} /\ OwnerIn(w) = "lost"
    BY <2>1 DEF Ways, OwnerIn
  <2>5. CASE OwnerIn(v) = OwnerIn(w)
    <3>1. f' = f
      BY <2>3, <2>5
    <3>2. QED
      BY <3>1 DEF Owner, Ownership!vars
  <2>6. CASE OwnerIn(v) # OwnerIn(w)
    <3>1. \/ f[e] = "kernel" /\ f' = [f EXCEPT ![e] = "received"]
          \/ f[e] = "received" /\ f' = [f EXCEPT ![e] = "application"]
          \/ f[e] = "application" /\ f' = [f EXCEPT ![e] = "returned"]
          \/ f[e] = "returned" /\ f' = [f EXCEPT ![e] = "kernel"]
          \/ f[e] = "received" /\ f' = [f EXCEPT ![e] = "lost"]
          \/ f[e] = "returned" /\ f' = [f EXCEPT ![e] = "lost"]
      BY <2>3, <2>4, <2>6
    <3>2. Ownership!Next
      BY <1>5, <3>1 DEF Owner, Ownership!Next, Ownership!Select, Ownership!Deliver,
         Ownership!Return, Ownership!Provide, Ownership!Lose, Ownership!Passes
    <3>3. QED
      BY <3>2
  <2>7. QED
    BY <2>5, <2>6
<1>6. QED
  BY <1>4, <1>5

\* Ownership passes as BufferOwnership says, one buffer at a time: from the kernel up to the
\* application and down again, or up or down to nobody; a lost buffer stays lost.
THEOREM BuffersChangeOwner == Safety => ImplementsOwnership
<1>1. Init => Ownership!Init
  <2>1. SUFFICES ASSUME Init PROVE Ownership!Init
    OBVIOUS
  <2>2. \A b \in Buffers : b \in group
    BY <2>1 DEF Init
  <2>3. QED
    BY <2>2 DEF Ownership!Init
<1>2. BuffersInv /\ [Next]_vars => [Ownership!Next]_(Ownership!vars)
  BY BuffersStep, OwnerStep
<1>3. QED
  BY <1>1, <1>2, BuffersInvariant, PTL DEF Safety, ImplementsOwnership, Ownership!Spec
=============================================================================
