-------------------------- MODULE BufferRacesProofs --------------------------
(***************************************************************************)
(* Proofs about ProvidedBuffers: what the linked timeout of a receive can  *)
(* and cannot do, for every number of threads, buffers and addresses.      *)
(*                                                                         *)
(* A thread that is in neither of the two races keeps its receive and its  *)
(* timeout side by side, from the queue to the kernel, so that the kernel  *)
(* answers them together.  What follows is about the order and the         *)
(* contents of these answers: when the timeout says that it has cancelled  *)
(* the receive, the answer of the receive has no buffer, its completion    *)
(* stays allocated, and Cancel still names it.                             *)
(*                                                                         *)
(* The last section is about what a thread waits for: the answer to its    *)
(* request is on its way until it has come, races or not.                  *)
(***************************************************************************)
EXTENDS ProvidedBuffersProofs

\* In neither race: no receive of t was answered after its timer, and no request of another
\* thread came between its receive and its timeout.
Clean(t) == t \notin late \cup mixed

\* Request i of s is one of a receive and its timeout, side by side, or has no receive
\* before it.
Paired(s, i) ==
  /\ s[i].op = "recv" /\ i < Len(s) => s[i + 1].op = "timeout" /\ s[i + 1].by = s[i].by
  /\ s[i].op = "timeout" => i > 1 /\ s[i - 1].op = "recv"
  /\ i > 1 /\ s[i - 1].op = "recv" => s[i].op = "timeout" /\ s[i - 1].by = s[i].by

\* The queue may end with a receive whose thread is about to add the timeout.
QueueInv ==
  /\ \A i \in 1 .. Len(queue) : Clean(queue[i].by) =>
       /\ Paired(queue, i)
       /\ queue[i].op = "recv" /\ i = Len(queue) => pc[queue[i].by] = "link"
  /\ \A t \in Threads : Clean(t) /\ pc[t] = "link" =>
       queue # <<>> /\ queue[Len(queue)].op = "recv" /\ queue[Len(queue)].by = t

ChainInv == \A c \in chains : \A i \in 1 .. Len(c) : Clean(c[i].by) => Paired(c, i)

\* The only receive of t on its way is the one whose future it holds.
OwnInv(t) ==
  \A a \in Addresses : allocated[a] = t /\ Some("at", a) =>
    a = token[t] /\ pc[t] \in {"link", "timeout", "cancel", "get"}

\* Cancel names that receive.
Aimed(s, t) == s.by = t /\ s.op = "cancel" => s.at = token[t]

AimInv(t) ==
  /\ \A i \in 1 .. Len(queue) : Aimed(queue[i], t)
  /\ \A c \in chains : \A i \in 1 .. Len(c) : Aimed(c[i], t)

\* Answers: of a receive of t; of a timeout that has fired, or was refused; after which there
\* is none of a receive.
OfRecv(e, t) == e.op = "recv" /\ e.by = t
Told(e)      == e.op = "timeout" /\ e.res # "ECANCELED"
Odd(e)       == e.op = "timeout" /\ e.res \notin {"ETIME", "ECANCELED"}
Ends(e)      == e.op = "cancel" \/ Odd(e)

\* A hand-back keeps no buffer, and a timeout is refused for its time only, which the kernel
\* misread for the threads of M.
Sound(e, M) ==
  /\ e.op = "provide" => e.bid = None
  /\ Odd(e) => e.by \in M

\* The completion whose future t holds is allocated.
Holds(t) == token[t] \in Addresses /\ allocated[token[t]] = t

\* The receive of t has been answered without a buffer, as t knows or will know.
Fired(t) ==
  \/ pc[t] = "cancel"
  \/ answer[t] # None /\ Told(answer[t])
  \/ \E j \in 1 .. Len(cq) : cq[j].by = t /\ Told(cq[j])

RingInv(t) ==
  /\ \A i \in 1 .. Len(cq) : cq[i].by = t => Sound(cq[i], misread)
  /\ answer[t] # None => Sound(answer[t], misread)
  /\ Fired(t) => /\ Holds(t)
                 /\ \A i \in 1 .. Len(cq) : OfRecv(cq[i], t) => cq[i].bid = None
  /\ \A i, j \in 1 .. Len(cq) : OfRecv(cq[i], t) /\ cq[j].by = t /\ Ends(cq[j]) => i < j
  /\ answer[t] # None /\ Ends(answer[t]) => \A i \in 1 .. Len(cq) : ~ OfRecv(cq[i], t)

RacesInv ==
  /\ QueueInv /\ ChainInv /\ LostOnlyToRaces
  /\ \A t \in Threads : Clean(t) => OwnInv(t) /\ AimInv(t) /\ RingInv(t)

-----------------------------------------------------------------------------
(* A receive and its timeout.                                               *)

\* Both are on their way to the kernel, and nothing of the thread on its way back.
Fresh(t) ==
  /\ pc[t] = "timeout" /\ answer[t] = None /\ Holds(t)
  /\ \A i \in 1 .. Len(cq) : cq[i].by # t

LEMMA BothBefore ==
  ASSUME BuffersInv, NEW t \in Threads, OwnInv(t),
         NEW s, NEW u, Fits(s), Fits(u), s.op = "recv", s.by = t, u.op = "timeout", u.by = t,
         InQueue("at", s.at) \/ InChain("at", s.at), InQueue("by", t) \/ InChain("by", t)
  PROVE  Fresh(t)
<1>1. s.at \in Addresses /\ allocated[s.at] = t /\ pc[t] = "timeout" /\ answer[t] = None
  BY DEF Fits
<1>2. s.at = token[t]
  BY <1>1 DEF OwnInv, Some
<1>3. ~ InRing("at", s.at) /\ ~ InRing("by", t)
  BY <1>1 DEF BuffersInv, OnceInv, One
<1>4. ASSUME NEW i \in 1 .. Len(cq), cq[i].by = t PROVE FALSE
  <2>1. Fits(cq[i])
    BY DEF BuffersInv, CarrierInv
  <2>2. CASE cq[i].op = "recv"
    <3>1. cq[i].at \in Addresses /\ allocated[cq[i].at] = t
      BY <1>4, <2>1, <2>2 DEF Fits
    <3>2. InRing("at", cq[i].at)
      BY <2>2 DEF InRing, Has
    <3>3. cq[i].at = token[t]
      BY <3>1, <3>2 DEF OwnInv, Some
    <3>4. QED
      BY <1>2, <1>3, <3>2, <3>3
  <2>3. CASE cq[i].op # "recv"
    BY <1>3, <1>4, <2>3 DEF InRing, Has
  <2>4. QED
    BY <2>2, <2>3
<1>5. QED
  BY <1>1, <1>2, <1>4 DEF Fresh, Holds

\* Requests of which only the last is not a receive, with one of a thread in neither race: its
\* receive and its timeout, or that one request.
LEMMA CleanPair ==
  ASSUME NEW c, Len(c) \in Nat \ {0}, \A k \in 1 .. Len(c) : c[k].op = "recv" <=> k < Len(c),
         \A k \in 1 .. Len(c) : Clean(c[k].by) => Paired(c, k),
         NEW i \in 1 .. Len(c), Clean(c[i].by)
  PROVE  IF c[i].op \in {"recv", "timeout"}
         THEN /\ Len(c) = 2 /\ c[1].op = "recv" /\ c[2].op = "timeout"
              /\ c[1].by = c[i].by /\ c[2].by = c[i].by
         ELSE Len(c) = 1
<1>1. Paired(c, i)
  OBVIOUS
<1>2. i > 1 => /\ i - 1 \in 1 .. Len(c) /\ i - 1 < Len(c) /\ (i - 1) + 1 = i
               /\ c[i - 1].op = "recv"
  OBVIOUS
<1>3. i < Len(c) => i + 1 \in 1 .. Len(c) /\ (i + 1) - 1 = i /\ i + 1 > 1
  OBVIOUS
<1>4. CASE c[i].op = "recv"
  <2>1. i < Len(c) /\ ~ (i > 1)
    BY <1>1, <1>2, <1>4 DEF Paired
  <2>2. i = 1
    BY <2>1
  <2>3. c[i + 1].op = "timeout" /\ c[i + 1].by = c[i].by
    BY <1>1, <1>4, <2>1 DEF Paired
  <2>4. ~ (2 < Len(c)) /\ 2 \in 1 .. Len(c)
    BY <1>3, <2>1, <2>2, <2>3
  <2>5. Len(c) = 2
    <3>1. \A n \in Nat : ~ (2 < n) /\ 2 \in 1 .. n => n = 2
      OBVIOUS
    <3>2. QED
      BY <2>4, <3>1
  <2>6. QED
    BY <1>4, <2>2, <2>3, <2>5
<1>5. CASE c[i].op = "timeout"
  <2>1. i > 1 /\ c[i - 1].op = "recv" /\ c[i - 1].by = c[i].by
    BY <1>1, <1>5 DEF Paired
  <2>2. ~ (i < Len(c)) /\ i = Len(c)
    BY <1>5
  <2>3. Paired(c, i - 1)
    BY <1>2, <2>1
  <2>4. ASSUME i - 1 > 1 PROVE FALSE
    <3>1. (i - 1) - 1 \in 1 .. Len(c) /\ (i - 1) - 1 < Len(c)
      BY <2>4
    <3>2. c[(i - 1) - 1].op = "recv"
      BY <3>1
    <3>3. QED
      BY <2>1, <2>3, <2>4, <3>2 DEF Paired
  <2>5. i = 2
    BY <2>1, <2>4
  <2>6. i - 1 = 1
    BY <2>5
  <2>7. QED
    BY <1>5, <2>1, <2>2, <2>5, <2>6
<1>6. CASE c[i].op \notin {"recv", "timeout"}
  <2>1. ~ (i < Len(c)) /\ ~ (i > 1)
    BY <1>1, <1>2, <1>6 DEF Paired
  <2>2. \A n \in Nat : \A k \in 1 .. n : ~ (k < n) /\ ~ (k > 1) => n = 1
    OBVIOUS
  <2>3. Len(c) = 1
    BY <2>1, <2>2
  <2>4. QED
    BY <1>6, <2>3
<1>7. QED
  BY <1>4, <1>5, <1>6

\* The same of a chain in the kernel.
LEMMA CleanChain ==
  ASSUME BuffersInv, RacesInv, NEW c \in chains, NEW i \in 1 .. Len(c), Clean(c[i].by)
  PROVE  IF c[i].op \in {"recv", "timeout"}
         THEN /\ Len(c) = 2 /\ c[1].op = "recv" /\ c[2].op = "timeout"
              /\ c[1].by = c[i].by /\ c[2].by = c[i].by /\ Fresh(c[i].by)
         ELSE Len(c) = 1
<1>1. /\ Len(c) \in Nat \ {0} /\ \A k \in 1 .. Len(c) : c[k].op = "recv" <=> k < Len(c)
      /\ c[i].by \in Threads
  BY ChainFacts
<1>2. \A k \in 1 .. Len(c) : Clean(c[k].by) => Paired(c, k)
  BY DEF RacesInv, ChainInv
<1>3. IF c[i].op \in {"recv", "timeout"}
      THEN /\ Len(c) = 2 /\ c[1].op = "recv" /\ c[2].op = "timeout"
           /\ c[1].by = c[i].by /\ c[2].by = c[i].by
      ELSE Len(c) = 1
  BY <1>1, <1>2, CleanPair
<1>4. ASSUME c[i].op \in {"recv", "timeout"} PROVE Fresh(c[i].by)
  <2>1. Len(c) = 2 /\ c[1].op = "recv" /\ c[2].op = "timeout" /\ c[1].by = c[i].by /\ c[2].by = c[i].by
    BY <1>3, <1>4
  <2>2. 1 \in 1 .. Len(c) /\ 2 \in 1 .. Len(c)
    BY <2>1
  <2>3. Fits(c[1]) /\ Fits(c[2])
    BY <2>2 DEF BuffersInv, CarrierInv
  <2>4. InChain("at", c[1].at) /\ InChain("by", c[i].by)
    BY <2>1, <2>2 DEF InChain, Has
  <2>5. OwnInv(c[i].by)
    BY <1>1 DEF RacesInv
  <2>6. QED
    BY <1>1, <2>1, <2>3, <2>4, <2>5, BothBefore
<1>5. QED
  BY <1>3, <1>4

-----------------------------------------------------------------------------
(* The answers of the kernel, as a sequence that comes to the ring.          *)

LEMMA PostedOne ==
  ASSUME NEW e \in Cqes, Post(<<e>>)
  PROVE  \E es \in Seq(Cqes) : /\ cq' = cq \o es /\ Len(es) = 1
                               /\ \A k \in 1 .. Len(es) : es[k] = e
<1>1. <<e>> \in Seq(Cqes) /\ Len(<<e>>) = 1 /\ \A k \in 1 .. Len(<<e>>) : <<e>>[k] = e
  OBVIOUS
<1>2. cq' = cq \o <<e>>
  BY <1>1 DEF Post
<1>3. QED
  BY <1>1, <1>2

LEMMA PostedPair ==
  ASSUME NEW e \in Cqes, NEW f \in Cqes, Post(<<e, f>>)
  PROVE  \E es \in Seq(Cqes) : cq' = cq \o es /\ \A k \in 1 .. Len(es) : es[k] \in {e, f}
<1>1. \A x, y \in Cqes :
        /\ <<x, y>> \in Seq(Cqes) /\ Len(<<x, y>>) = 2 /\ <<x, y>>[1] = x /\ <<x, y>>[2] = y
        /\ \A k \in 1 .. Len(<<x, y>>) : <<x, y>>[k] \in {x, y}
  OBVIOUS
<1>2. CASE cq' = cq \o <<e, f>>
  BY <1>1, <1>2
<1>3. CASE cq' = cq \o <<f, e>>
  <2>1. <<f, e>> \in Seq(Cqes) /\ \A k \in 1 .. Len(<<f, e>>) : <<f, e>>[k] \in {e, f}
    BY <1>1
  <2>2. QED
    BY <1>3, <2>1
<1>4. QED
  BY <1>1, <1>2, <1>3 DEF Post

\* A receive that failed, and the rest of its chain.
LEMMA PostedFailure ==
  ASSUME BuffersInv, NEW c \in chains, Len(c) > 1, NEW r \in Results,
         cq' = cq \o <<Answer(c[1], r, None)>> \o Cancelled(Tail(c))
  PROVE  \E es \in Seq(Cqes) : /\ cq' = cq \o es /\ Len(es) = Len(c)
                               /\ \A i \in 1 .. Len(c) : Gives(es[i], c[i], "none", None)
<1> DEFINE e == Answer(c[1], r, None)
<1>1. c[1] \in Sqes /\ c \in Seq(Sqes) /\ c # <<>>
  BY ChainFacts
<1>2. PICK es \in Seq(Cqes) :
        /\ es = <<e>> \o Cancelled(Tail(c)) /\ Len(es) = Len(c)
        /\ \A i \in 1 .. Len(c) : Gives(es[i], c[i], "none", None)
  BY CancelledTail
<1>3. cq \in Seq(Cqes) /\ <<e>> \in Seq(Cqes)
  <2>1. e \in Cqes
    BY <1>1 DEF Answer, Sqes, Cqes
  <2>2. QED
    BY <2>1, Sizes DEF BuffersInv
<1>4. Cancelled(Tail(c)) \in Seq(Cqes)
  <2>1. PICK d : d = Tail(c) /\ Len(d) \in Nat /\ \A i \in 1 .. Len(d) : d[i] \in Sqes
    <3>1. Tail(c) \in Seq(Sqes)
      BY <1>1, Behead
    <3>2. ASSUME NEW d \in Seq(Sqes) PROVE Len(d) \in Nat /\ \A i \in 1 .. Len(d) : d[i] \in Sqes
      OBVIOUS
    <3>3. QED
      BY <3>1, <3>2
  <2>2. \A i \in 1 .. Len(d) : Answer(d[i], "ECANCELED", d[i].bid) \in Cqes
    BY <2>1 DEF Answer, Sqes, Cqes, Results
  <2>3. Cancelled(d) \in Seq(Cqes)
    BY <2>1, <2>2 DEF Cancelled
  <2>4. QED
    BY <2>1, <2>3
<1>5. cq' = cq \o es
  BY <1>2, <1>3, <1>4, Associates
<1>6. QED
  BY <1>2, <1>5

\* A chain that is cancelled, and its cancellation.
LEMMA PostedCancel ==
  ASSUME BuffersInv, NEW d \in chains, NEW e \in Cqes, cq' = cq \o Cancelled(d) \o <<e>>
  PROVE  \E es \in Seq(Cqes) :
           /\ cq' = cq \o es /\ Len(es) = Len(d) + 1 /\ es[Len(d) + 1] = e
           /\ \A i \in 1 .. Len(d) :
                /\ es[i].op = d[i].op /\ es[i].by = d[i].by /\ es[i].at = d[i].at
                /\ es[i].res = "ECANCELED"
<1>1. Len(d) \in Nat /\ \A i \in 1 .. Len(d) : d[i] \in Sqes
  BY ChainFacts
<1>2. PICK h : h = <<e>> /\ h \in Seq(Cqes) /\ Len(h) = 1 /\ h[1] = e
  <2>1. <<e>> \in Seq(Cqes) /\ Len(<<e>>) = 1 /\ <<e>>[1] = e
    OBVIOUS
  <2>2. QED
    BY <2>1
<1>3. PICK f : /\ f = Cancelled(d) /\ f \in Seq(Cqes) /\ Len(f) = Len(d)
               /\ \A i \in 1 .. Len(d) :
                    /\ f[i].op = d[i].op /\ f[i].by = d[i].by /\ f[i].at = d[i].at
                    /\ f[i].res = "ECANCELED"
  <2>1. \A i \in 1 .. Len(d) : Answer(d[i], "ECANCELED", d[i].bid) \in Cqes
    BY <1>1 DEF Answer, Sqes, Cqes, Results
  <2>2. Cancelled(d) \in Seq(Cqes) /\ Len(Cancelled(d)) = Len(d)
    BY <1>1, <2>1 DEF Cancelled
  <2>3. \A i \in 1 .. Len(d) : Cancelled(d)[i] = Answer(d[i], "ECANCELED", d[i].bid)
    BY DEF Cancelled
  <2>4. \A s, r, b : /\ Answer(s, r, b).op = s.op /\ Answer(s, r, b).by = s.by
                     /\ Answer(s, r, b).at = s.at /\ Answer(s, r, b).res = r
    BY DEF Answer
  <2>5. QED
    BY <2>2, <2>3, <2>4
<1>4. PICK es : /\ es = f \o h /\ es \in Seq(Cqes) /\ Len(es) = Len(d) + 1
                /\ es[Len(d) + 1] = e /\ \A i \in 1 .. Len(d) : es[i] = f[i]
  <2>1. /\ f \o h \in Seq(Cqes) /\ Len(f \o h) = Len(f) + Len(h)
        /\ (\A i \in 1 .. Len(f) : (f \o h)[i] = f[i])
        /\ (\A i \in 1 .. Len(h) : (f \o h)[Len(f) + i] = h[i])
    BY <1>2, <1>3, Concatenated
  <2>2. 1 \in 1 .. Len(h)
    BY <1>2
  <2>3. (f \o h)[Len(f) + 1] = h[1]
    BY <2>1, <2>2
  <2>4. /\ Len(f \o h) = Len(d) + 1 /\ (f \o h)[Len(d) + 1] = e
        /\ (\A i \in 1 .. Len(d) : (f \o h)[i] = f[i])
    BY <1>2, <1>3, <2>1, <2>3
  <2>5. QED
    BY <2>1, <2>4
<1>5. cq' = cq \o es
  <2>1. cq \in Seq(Cqes)
    BY Sizes DEF BuffersInv
  <2>2. cq' = cq \o f \o h
    BY <1>2, <1>3
  <2>3. f \in Seq(Cqes) /\ h \in Seq(Cqes) /\ es = f \o h
    BY <1>2, <1>3, <1>4
  <2>4. cq \o f \o h = cq \o (f \o h)
    BY ONLY <2>1, <2>3, Associates
  <2>5. QED
    BY ONLY <2>2, <2>3, <2>4
<1>6. /\ Len(es) = Len(d) + 1 /\ es[Len(d) + 1] = e
      /\ \A i \in 1 .. Len(d) :
           /\ es[i].op = d[i].op /\ es[i].by = d[i].by /\ es[i].at = d[i].at
           /\ es[i].res = "ECANCELED"
  BY ONLY <1>3, <1>4, ZenonT(30)
<1>7. QED
  BY ONLY <1>4, <1>5, <1>6, ZenonT(30)

\* A chain that is refused.
LEMMA RefusedAnswers ==
  ASSUME NEW c
  PROVE  \A k \in 1 .. Len(c) :
           /\ Refused(c)[k].op = c[k].op /\ Refused(c)[k].by = c[k].by
           /\ Refused(c)[k].at = c[k].at /\ Refused(c)[k].bid = c[k].bid
           /\ Refused(c)[k].res = IF k = Len(c) THEN "other" ELSE "ECANCELED"
<1>1. \A k \in 1 .. Len(c) :
        Refused(c)[k] = Answer(c[k], IF k = Len(c) THEN "other" ELSE "ECANCELED", c[k].bid)
  BY DEF Refused
<1>2. \A s, r, b : /\ Answer(s, r, b).op = s.op /\ Answer(s, r, b).by = s.by
                   /\ Answer(s, r, b).at = s.at /\ Answer(s, r, b).res = r
                   /\ Answer(s, r, b).bid = b
  BY DEF Answer
<1>3. QED
  BY <1>1, <1>2

-----------------------------------------------------------------------------
(* Answers come to the ring.                                                *)

\* The answers to a receive of t and to its timeout: only a receive without a buffer comes
\* with a timeout that has fired, and before one that was refused.
Matched(es, t) ==
  /\ \A k, l \in 1 .. Len(es) :
       es[k].by = t /\ Told(es[k]) /\ OfRecv(es[l], t) => es[l].bid = None
  /\ \A k, l \in 1 .. Len(es) :
       es[k].by = t /\ Ends(es[k]) /\ OfRecv(es[l], t) => l < k

\* None is about a receive of t, or both are.
Posts(es, t) ==
  \/ \A k \in 1 .. Len(es) : es[k].by = t => es[k].op \in {"cancel", "provide"}
  \/ Fresh(t) /\ Matched(es, t)

LEMMA RingPosted ==
  ASSUME TypeOK, NEW t \in Threads, RingInv(t), UNCHANGED <<threadVars, allocated>>,
         misread \subseteq misread', NEW es \in Seq(Cqes), cq' = cq \o es, Posts(es, t),
         \A k \in 1 .. Len(es) : es[k].by = t => Sound(es[k], misread')
  PROVE  RingInv(t)'
<1>1. UNCHANGED <<pc, token, answer>>
  BY DEF threadVars
<1>2. /\ Len(cq) \in Nat /\ Len(es) \in Nat /\ Len(cq') = Len(cq) + Len(es)
      /\ \A i \in 1 .. Len(cq) : cq'[i] = cq[i] /\ i \in 1 .. Len(cq')
      /\ \A k \in 1 .. Len(es) : cq'[Len(cq) + k] = es[k] /\ Len(cq) + k \in 1 .. Len(cq')
      /\ \A i \in 1 .. Len(cq') : i \in 1 .. Len(cq) \/ \E k \in 1 .. Len(es) : i = Len(cq) + k
  BY Sizes, Posted
<1>3. \A e : Sound(e, misread) => Sound(e, misread')
  BY DEF Sound, Odd
<1>4. /\ \A i \in 1 .. Len(cq') : cq'[i].by = t => Sound(cq'[i], misread')
      /\ answer'[t] # None => Sound(answer'[t], misread')
  <2>1. ASSUME NEW i \in 1 .. Len(cq'), cq'[i].by = t PROVE Sound(cq'[i], misread')
    <3>1. CASE i \in 1 .. Len(cq)
      BY <1>2, <1>3, <2>1, <3>1 DEF RingInv
    <3>2. CASE \E k \in 1 .. Len(es) : i = Len(cq) + k
      BY <1>2, <2>1, <3>2
    <3>3. QED
      BY <1>2, <3>1, <3>2
  <2>2. answer'[t] # None => Sound(answer'[t], misread')
    BY <1>1, <1>3 DEF RingInv
  <2>3. QED
    BY <2>1, <2>2
<1>5. CASE \A k \in 1 .. Len(es) : es[k].by = t => es[k].op \in {"cancel", "provide"}
  <2>1. \A k \in 1 .. Len(es) : ~ OfRecv(es[k], t) /\ ~ (es[k].by = t /\ Told(es[k]))
    BY <1>5 DEF OfRecv, Told
  <2>2. \A i \in 1 .. Len(cq') : OfRecv(cq'[i], t) => i \in 1 .. Len(cq) /\ OfRecv(cq[i], t)
    BY <1>2, <2>1
  <2>3. Fired(t)' => Fired(t)
    <3>1. ASSUME NEW j \in 1 .. Len(cq'), cq'[j].by = t, Told(cq'[j])
          PROVE  j \in 1 .. Len(cq) /\ Told(cq[j]) /\ cq[j].by = t
      BY <1>2, <2>1, <3>1
    <3>2. QED
      BY <1>1, <3>1 DEF Fired, Told
  <2>4. Fired(t)' => /\ Holds(t)'
                     /\ \A i \in 1 .. Len(cq') : OfRecv(cq'[i], t) => cq'[i].bid = None
    BY <1>1, <1>2, <2>2, <2>3 DEF RingInv, Holds
  <2>5. ASSUME NEW i \in 1 .. Len(cq'), NEW j \in 1 .. Len(cq'),
               OfRecv(cq'[i], t), cq'[j].by = t, Ends(cq'[j])
        PROVE  i < j
    <3>1. i \in 1 .. Len(cq) /\ OfRecv(cq[i], t)
      BY <2>2, <2>5
    <3>2. CASE j \in 1 .. Len(cq)
      BY <1>2, <2>5, <3>1, <3>2 DEF RingInv
    <3>3. CASE \E k \in 1 .. Len(es) : j = Len(cq) + k
      BY <1>2, <3>1, <3>3
    <3>4. QED
      BY <1>2, <3>2, <3>3
  <2>6. answer'[t] # None /\ Ends(answer'[t]) => \A i \in 1 .. Len(cq') : ~ OfRecv(cq'[i], t)
    BY <1>1, <2>2 DEF RingInv
  <2>7. QED
    BY <1>4, <2>4, <2>5, <2>6 DEF RingInv, OfRecv, Ends, Odd, Sound, Fired
<1>6. CASE Fresh(t) /\ Matched(es, t)
  <2>1. /\ pc'[t] = "timeout" /\ answer'[t] = None /\ Holds(t)'
        /\ \A i \in 1 .. Len(cq) : cq[i].by # t
    BY <1>1, <1>6 DEF Fresh, Holds
  <2>2. \A i \in 1 .. Len(cq') : cq'[i].by = t => \E k \in 1 .. Len(es) : i = Len(cq) + k
    BY <1>2, <2>1
  <2>3. ASSUME Fired(t)', NEW i \in 1 .. Len(cq'), OfRecv(cq'[i], t) PROVE cq'[i].bid = None
    <3>1. PICK j \in 1 .. Len(cq') : cq'[j].by = t /\ Told(cq'[j])
      BY <2>1, <2>3 DEF Fired, Told
    <3>2. PICK k \in 1 .. Len(es) : j = Len(cq) + k
      BY <2>2, <3>1
    <3>3. PICK l \in 1 .. Len(es) : i = Len(cq) + l
      BY <2>2, <2>3 DEF OfRecv
    <3>4. es[k].by = t /\ Told(es[k]) /\ OfRecv(es[l], t) /\ cq'[i] = es[l]
      BY <1>2, <2>3, <3>1, <3>2, <3>3
    <3>5. QED
      BY <1>6, <3>4 DEF Matched
  <2>4. ASSUME NEW i \in 1 .. Len(cq'), NEW j \in 1 .. Len(cq'),
               OfRecv(cq'[i], t), cq'[j].by = t, Ends(cq'[j])
        PROVE  i < j
    <3>1. PICK k \in 1 .. Len(es) : j = Len(cq) + k
      BY <2>2, <2>4
    <3>2. PICK l \in 1 .. Len(es) : i = Len(cq) + l
      BY <2>2, <2>4 DEF OfRecv
    <3>3. es[k].by = t /\ Ends(es[k]) /\ OfRecv(es[l], t)
      BY <1>2, <2>4, <3>1, <3>2
    <3>4. l < k
      BY <1>6, <3>3 DEF Matched
    <3>5. QED
      BY <1>2, <3>1, <3>2, <3>4
  <2>5. QED
    BY <1>4, <2>1, <2>3, <2>4 DEF RingInv, OfRecv, Ends, Odd, Sound, Fired
<1>7. QED
  BY <1>5, <1>6 DEF Posts

\* A step of the kernel: the queue stays, and what is left in the kernel was there or is of
\* threads in a race.
LEMMA KernelRaces ==
  ASSUME BuffersInv, RacesInv, Steady, UNCHANGED <<threadVars, queue, allocated, lost, mixed>>,
         late \subseteq late', misread \subseteq misread', NEW es \in Seq(Cqes), cq' = cq \o es,
         \A d \in chains' : d \in chains \/ \A i \in 1 .. Len(d) : ~ Clean(d[i].by),
         \A t \in Threads : Clean(t)' => Posts(es, t),
         \A k \in 1 .. Len(es) : Clean(es[k].by)' => Sound(es[k], misread')
  PROVE  RacesInv'
<1>1. UNCHANGED <<pc, token, answer>>
  BY DEF threadVars
<1>2. \A t : Clean(t)' => Clean(t)
  BY DEF Clean
<1>3. QueueInv'
  BY <1>1, <1>2 DEF RacesInv, QueueInv, Paired
<1>4. ChainInv'
  BY <1>2 DEF RacesInv, ChainInv, Paired
<1>5. LostOnlyToRaces'
  BY DEF RacesInv, LostOnlyToRaces
<1>6. ASSUME NEW t \in Threads, Clean(t)' PROVE OwnInv(t)' /\ AimInv(t)' /\ RingInv(t)'
  <2>1. OwnInv(t) /\ AimInv(t) /\ RingInv(t) /\ Clean(t)
    BY <1>2, <1>6 DEF RacesInv
  <2>2. OwnInv(t)'
    BY <1>1, <2>1 DEF OwnInv, Steady
  <2>3. AimInv(t)'
    BY <1>1, <2>1 DEF AimInv, Aimed
  <2>4. RingInv(t)'
    BY <1>6, <2>1, RingPosted DEF BuffersInv
  <2>5. QED
    BY <2>2, <2>3, <2>4
<1>7. QED
  BY <1>3, <1>4, <1>5, <1>6 DEF RacesInv

-----------------------------------------------------------------------------
(* The kernel.                                                              *)

\* Answers of threads in a race.
LEMMA OthersRace ==
  ASSUME BuffersInv, RacesInv, Steady, UNCHANGED <<threadVars, queue, allocated, lost, mixed>>,
         late \subseteq late', misread \subseteq misread', NEW es \in Seq(Cqes), cq' = cq \o es,
         \A d \in chains' : d \in chains \/ \A i \in 1 .. Len(d) : ~ Clean(d[i].by),
         \A k \in 1 .. Len(es) : ~ Clean(es[k].by)
  PROVE  RacesInv'
<1>1. \A t : Clean(t)' => Clean(t)
  BY DEF Clean
<1>2. \A t \in Threads : Clean(t)' => Posts(es, t)
  BY <1>1 DEF Posts
<1>3. \A k \in 1 .. Len(es) : Clean(es[k].by)' => Sound(es[k], misread')
  BY <1>1
<1>4. QED
  BY <1>2, <1>3, KernelRaces

\* A receive and its timeout are answered, in either order.
LEMMA PairRaces ==
  ASSUME BuffersInv, RacesInv, Steady,
         UNCHANGED <<threadVars, queue, allocated, lost, misread, mixed>>, late \subseteq late',
         NEW c \in chains, Guarded(c), chains' = chains \ {c},
         NEW e \in Cqes, NEW f \in Cqes, Post(<<e, f>>),
         e.op = "recv", e.by = c[1].by, f.op = "timeout", f.by = c[2].by,
         \/ {c[1].by, c[2].by} \subseteq late'
         \/ f.res = "ECANCELED"
         \/ f.res = "ETIME" /\ e.bid = None
  PROVE  RacesInv'
<1>1. PICK es \in Seq(Cqes) : cq' = cq \o es /\ \A k \in 1 .. Len(es) : es[k] \in {e, f}
  BY PostedPair
<1>2. /\ c[1].op = "recv" /\ c[2].op = "timeout" /\ 1 \in 1 .. Len(c) /\ 2 \in 1 .. Len(c)
  <2>1. Len(c) = 2
    BY ChainFacts
  <2>2. 1 \in 1 .. Len(c) /\ 2 \in 1 .. Len(c) /\ 1 < Len(c)
    BY <2>1
  <2>3. c[1].op = "recv"
    BY <2>2, ChainFacts
  <2>4. QED
    BY <2>2, <2>3 DEF Guarded
<1>3. \A t : Clean(t)' => Clean(t) /\ t \notin late'
  BY DEF Clean
<1>4. ASSUME NEW t, Clean(t)', t \in {c[1].by, c[2].by}
      PROVE  Fresh(t) /\ (f.res = "ECANCELED" \/ (f.res = "ETIME" /\ e.bid = None))
  <2>1. c[1].by = t /\ c[2].by = t /\ Fresh(t)
    <3>1. CASE t = c[1].by
      BY <1>2, <1>3, <1>4, <3>1, CleanChain
    <3>2. CASE t = c[2].by
      BY <1>2, <1>3, <1>4, <3>2, CleanChain
    <3>3. QED
      BY <1>4, <3>1, <3>2
  <2>2. QED
    BY <1>3, <1>4, <2>1
<1>5. ASSUME NEW t \in Threads, Clean(t)' PROVE Posts(es, t)
  <2>1. CASE t \in {c[1].by, c[2].by}
    <3>1. Fresh(t) /\ (f.res = "ECANCELED" \/ (f.res = "ETIME" /\ e.bid = None))
      BY <1>4, <1>5, <2>1
    <3>2. Matched(es, t)
      BY <1>1, <3>1 DEF Matched, Told, Ends, Odd, OfRecv
    <3>3. QED
      BY <3>1, <3>2 DEF Posts
  <2>2. CASE t \notin {c[1].by, c[2].by}
    BY <1>1, <2>2 DEF Posts
  <2>3. QED
    BY <2>1, <2>2
<1>6. ASSUME NEW k \in 1 .. Len(es), Clean(es[k].by)' PROVE Sound(es[k], misread')
  BY <1>1, <1>4, <1>6 DEF Sound, Odd
<1>7. QED
  BY <1>1, <1>5, <1>6, KernelRaces

\* No thread of a chain whose receive has no timeout behind it is in neither race.
LEMMA OpenChain ==
  ASSUME BuffersInv, RacesInv, NEW c \in chains, c[1].op = "recv", ~ Guarded(c)
  PROVE  \A i \in 1 .. Len(c) : ~ Clean(c[i].by)
<1>1. SUFFICES ASSUME NEW i \in 1 .. Len(c), Clean(c[i].by) PROVE FALSE
  OBVIOUS
<1>2. Len(c) > 1
  BY ChainFacts
<1>3. (Len(c) = 2 /\ c[2].op = "timeout") \/ Len(c) = 1
  BY <1>1, CleanChain
<1>4. QED
  BY <1>2, <1>3 DEF Guarded

\* Receives and RecvFails keep the threads in neither race as they are.
LEMMA AnsweredRaces ==
  ASSUME BuffersInv, RacesInv, Steady, NEW c \in chains,
         NEW r \in {"ok", "other"}, NEW b \in Buffers \cup {None}, r = "other" => b = None,
         RecvAnswered(c, r, b), UNCHANGED <<threadVars, queue, allocated, lost, misread, mixed>>
  PROVE  RacesInv'
<1>1. /\ c[1] \in Sqes /\ c[1].op = "recv" /\ SqeBid(c[1]) /\ Len(c) > 1 /\ Len(c) \in Nat
      /\ Guarded(c) => c[2] \in Sqes /\ SqeBid(c[2])
      /\ c \in Seq(Sqes) /\ c # <<>> /\ r \in Results
  BY ChainFacts DEF RecvAnswered, Guarded, Results
<1> DEFINE e == Answer(c[1], r, b)
<1>2. e \in Cqes /\ e.op = "recv" /\ e.by = c[1].by /\ e.bid = b
  BY <1>1 DEF Answer, Sqes, Cqes, Results
<1>3. CASE Guarded(c)
  <2>1. PICK t \in {Disarmed, "ETIME", "other"} :
          /\ Post(<<e, Answer(c[2], t, None)>>) /\ Replace(c, {})
          /\ late' = IF t = Disarmed THEN late ELSE late \cup {c[1].by, c[2].by}
    BY <1>3 DEF RecvAnswered
  <2> DEFINE f == Answer(c[2], t, None)
  <2>2. f \in Cqes /\ f.op = "timeout" /\ f.by = c[2].by /\ f.res = t
    BY <1>1, <1>3, <2>1 DEF Answer, Sqes, Cqes, Results, Guarded, Disarmed
  <2>3. chains' = chains \ {c} /\ late \subseteq late'
    BY <2>1 DEF Replace
  <2>4. {c[1].by, c[2].by} \subseteq late' \/ f.res = "ECANCELED"
    BY <2>1, <2>2 DEF Disarmed
  <2> HIDE DEF e, f
  <2>5. QED
    BY <1>2, <1>3, <2>1, <2>2, <2>3, <2>4, PairRaces DEF e, f
<1>4. CASE ~ Guarded(c)
  <2>1. \A i \in 1 .. Len(c) : ~ Clean(c[i].by)
    BY <1>1, <1>4, OpenChain
  <2>2. late' = late
    BY <1>4 DEF RecvAnswered
  <2>3. CASE r = "ok"
    <3>1. Post(<<e>>) /\ Replace(c, {Tail(c)} \ {<<>>})
      BY <1>4, <2>3 DEF RecvAnswered
    <3>2. PICK es \in Seq(Cqes) : /\ cq' = cq \o es /\ Len(es) = 1
                                  /\ \A k \in 1 .. Len(es) : es[k] = e
      BY <1>2, <3>1, PostedOne
    <3>3. \A k \in 1 .. Len(es) : ~ Clean(es[k].by)
      <4>1. 1 \in 1 .. Len(c)
        BY <1>1
      <4>2. QED
        BY <1>2, <2>1, <3>2, <4>1
    <3>4. \A d \in chains' : d \in chains \/ \A i \in 1 .. Len(d) : ~ Clean(d[i].by)
      <4>1. \A d \in chains' : d \in chains \/ d = Tail(c)
        BY <3>1 DEF Replace
      <4>2. \A i \in 1 .. Len(Tail(c)) : i + 1 \in 1 .. Len(c) /\ Tail(c)[i] = c[i + 1]
        <5>1. Len(Tail(c)) = Len(c) - 1 /\ \A i \in 1 .. (Len(c) - 1) : Tail(c)[i] = c[i + 1]
          BY <1>1, Behead
        <5>2. QED
          BY <1>1, <5>1
      <4>3. \A i \in 1 .. Len(Tail(c)) : ~ Clean(Tail(c)[i].by)
        BY <2>1, <4>2
      <4>4. QED
        BY <4>1, <4>3
    <3>5. QED
      BY <2>2, <3>2, <3>3, <3>4, OthersRace
  <2>4. CASE r = "other"
    <3>1. cq' = cq \o <<e>> \o Cancelled(Tail(c)) /\ Replace(c, {}) /\ b = None
      BY <1>4, <2>4 DEF RecvAnswered
    <3>2. PICK es \in Seq(Cqes) :
            /\ cq' = cq \o es /\ Len(es) = Len(c)
            /\ \A i \in 1 .. Len(c) : Gives(es[i], c[i], "none", None)
      BY <1>1, <3>1, PostedFailure
    <3>3. \A k \in 1 .. Len(es) : ~ Clean(es[k].by)
      BY <2>1, <3>2 DEF Gives
    <3>4. \A d \in chains' : d \in chains
      BY <3>1 DEF Replace
    <3>5. QED
      BY <2>2, <3>2, <3>3, <3>4, OthersRace
  <2>5. QED
    BY <2>3, <2>4
<1>5. QED
  BY <1>3, <1>4

\* Receives, RecvFails and Expire.
LEMMA ReceivesRaces ==
  ASSUME BuffersInv, RacesInv, NEW c \in chains, Receives(c) \/ RecvFails(c) \/ Expire(c)
  PROVE  RacesInv'
<1>1. Steady
  BY ReceivesKeeps, RecvFailsKeeps, ExpireKeeps
<1>2. CASE Receives(c)
  <2>1. PICK b \in group : /\ RecvAnswered(c, "ok", b)
                           /\ UNCHANGED <<threadVars, queue, allocated, lost, misread, mixed>>
    BY <1>2 DEF Receives
  <2>2. b \in Buffers \cup {None}
    BY DEF BuffersInv, TypeOK
  <2>3. QED
    BY <1>1, <2>1, <2>2, AnsweredRaces
<1>3. CASE RecvFails(c)
  <2>1. /\ RecvAnswered(c, "other", None)
        /\ UNCHANGED <<threadVars, queue, allocated, lost, misread, mixed>>
    BY <1>3 DEF RecvFails
  <2>2. QED
    BY <1>1, <2>1, AnsweredRaces
<1>4. CASE Expire(c)
  <2> DEFINE e == Answer(c[1], "ECANCELED", None)
             f == Answer(c[2], "ETIME", None)
  <2>1. /\ Guarded(c) /\ Post(<<e, f>>) /\ chains' = chains \ {c}
        /\ UNCHANGED <<threadVars, queue, allocated, lost, misread, late, mixed>>
    BY <1>4 DEF Expire, Replace
  <2>2. c[1] \in Sqes /\ c[2] \in Sqes /\ c[1].op = "recv" /\ c[2].op = "timeout"
    <3>1. Len(c) = 2
      BY <2>1, ChainFacts
    <3>2. 1 \in 1 .. Len(c) /\ 2 \in 1 .. Len(c)
      BY <3>1
    <3>3. QED
      BY <1>4, <3>2, ChainFacts DEF Expire, Guarded
  <2>3. /\ e \in Cqes /\ e.op = "recv" /\ e.by = c[1].by /\ e.bid = None
        /\ f \in Cqes /\ f.op = "timeout" /\ f.by = c[2].by /\ f.res = "ETIME"
    BY <2>2 DEF Answer, Sqes, Cqes, Results
  <2> HIDE DEF e, f
  <2>4. QED
    BY <1>1, <2>1, <2>3, PairRaces
<1>5. QED
  BY <1>2, <1>3, <1>4

\* Provides: the answer to a hand-back that has run has no buffer.
LEMMA ProvidesRaces ==
  ASSUME BuffersInv, RacesInv, NEW c \in chains, Provides(c)
  PROVE  RacesInv'
<1>1. Steady
  BY ProvidesKeeps
<1>2. c[1] \in Sqes /\ c[1].op = "provide"
  BY ChainFacts DEF Provides
<1> DEFINE e == Answer(c[1], "ok", None)
<1>3. e \in Cqes /\ e.op = "provide" /\ e.bid = None
  BY <1>2 DEF Answer, Sqes, Cqes, Results
<1>4. PICK es \in Seq(Cqes) : cq' = cq \o es /\ \A k \in 1 .. Len(es) : es[k] = e
  BY <1>3, PostedOne DEF Provides
<1>5. /\ chains' = chains \ {c}
      /\ UNCHANGED <<threadVars, queue, allocated, lost, misread, late, mixed>>
  BY DEF Provides, Replace, history
<1>6. \A t \in Threads : Posts(es, t)
  BY <1>3, <1>4 DEF Posts
<1>7. \A k \in 1 .. Len(es) : Sound(es[k], misread')
  BY <1>3, <1>4 DEF Sound, Odd
<1>8. QED
  BY <1>1, <1>4, <1>5, <1>6, <1>7, KernelRaces

\* Cancels: a chain that is cancelled is answered before its cancellation.
LEMMA CancelsRaces ==
  ASSUME BuffersInv, RacesInv, NEW c \in chains, Cancels(c)
  PROVE  RacesInv'
<1>1. Steady
  BY CancelsKeeps
<1>2. c[1] \in Sqes /\ c[1].op = "cancel"
  BY ChainFacts DEF Cancels
<1>3. UNCHANGED <<threadVars, queue, allocated, lost, misread, late, mixed>>
  BY DEF Cancels
<1>4. \A t : Clean(t)' <=> Clean(t)
  BY <1>3 DEF Clean
<1>5. CASE Running(c[1].at) = {}
  <2> DEFINE e == Answer(c[1], "other", None)
  <2>1. e \in Cqes /\ e.op = "cancel"
    BY <1>2 DEF Answer, Sqes, Cqes, Results
  <2>2. PICK es \in Seq(Cqes) : cq' = cq \o es /\ \A k \in 1 .. Len(es) : es[k] = e
    BY <1>5, <2>1, PostedOne DEF Cancels
  <2>3. chains' = chains \ {c}
    BY <1>5 DEF Cancels, Replace
  <2>4. \A t \in Threads : Posts(es, t)
    BY <2>1, <2>2 DEF Posts
  <2>5. \A k \in 1 .. Len(es) : Sound(es[k], misread')
    BY <2>1, <2>2 DEF Sound, Odd
  <2>6. QED
    BY <1>1, <1>3, <2>2, <2>3, <2>4, <2>5, KernelRaces
<1>6. CASE Running(c[1].at) # {}
  <2> DEFINE e == Answer(c[1], "ok", None)
  <2>1. PICK d \in chains : /\ d[1].op = "recv" /\ chains' = chains \ {c, d}
                            /\ cq' = cq \o Cancelled(d) \o <<e>>
    BY <1>6 DEF Cancels, Running
  <2>2. /\ Len(d) > 1 /\ Len(d) \in Nat
        /\ \A i \in 1 .. Len(d) : d[i] \in Sqes
    BY <2>1, ChainFacts
  <2>3. e \in Cqes /\ e.op = "cancel"
    BY <1>2 DEF Answer, Sqes, Cqes, Results
  <2>4. PICK es \in Seq(Cqes) :
          /\ cq' = cq \o es /\ Len(es) = Len(d) + 1 /\ es[Len(d) + 1] = e
          /\ \A i \in 1 .. Len(d) : /\ es[i].op = d[i].op /\ es[i].by = d[i].by
                                    /\ es[i].res = "ECANCELED"
    <3>1. \E es \in Seq(Cqes) :
            /\ cq' = cq \o es /\ Len(es) = Len(d) + 1 /\ es[Len(d) + 1] = e
            /\ \A i \in 1 .. Len(d) :
                 /\ es[i].op = d[i].op /\ es[i].by = d[i].by /\ es[i].at = d[i].at
                 /\ es[i].res = "ECANCELED"
      BY <2>1, <2>3, PostedCancel
    <3>2. QED
      BY <3>1
  <2>5. \A k \in 1 .. Len(es) : \/ es[k].op = "cancel" /\ k = Len(d) + 1
                                \/ /\ k \in 1 .. Len(d) /\ es[k].res = "ECANCELED"
                                   /\ es[k].op = d[k].op /\ es[k].by = d[k].by
    <3>1. \A k \in 1 .. Len(es) : k = Len(d) + 1 \/ k \in 1 .. Len(d)
      BY <2>2, <2>4
    <3>2. QED
      BY <2>3, <2>4, <3>1
  <2>6. ASSUME NEW k \in 1 .. Len(d), Clean(d[k].by)
        PROVE  Fresh(d[k].by) /\ \A i \in 1 .. Len(d) : d[i].op \in {"recv", "timeout"}
    <3>1. Len(d) = 2 /\ d[1].op = "recv" /\ d[2].op = "timeout" /\ Fresh(d[k].by)
      BY <2>2, <2>6, CleanChain
    <3>2. \A i \in 1 .. Len(d) : i \in {1, 2}
      BY <3>1
    <3>3. QED
      BY <3>1, <3>2
  <2>7. ASSUME NEW t \in Threads, Clean(t)' PROVE Posts(es, t)
    <3>1. CASE \E k \in 1 .. Len(d) : d[k].by = t
      <4>1. Fresh(t) /\ \A i \in 1 .. Len(d) : d[i].op \in {"recv", "timeout"}
        BY <1>4, <2>6, <2>7, <3>1
      <4>2. \A k \in 1 .. Len(es) : ~ Told(es[k])
        BY <2>5 DEF Told
      <4>3. \A k, l \in 1 .. Len(es) : Ends(es[k]) /\ OfRecv(es[l], t) => l < k
        <5>1. \A k \in 1 .. Len(es) : Ends(es[k]) => k = Len(d) + 1
          BY <2>5, <4>1 DEF Ends, Odd
        <5>2. \A l \in 1 .. Len(es) : OfRecv(es[l], t) => l \in 1 .. Len(d)
          BY <2>5 DEF OfRecv
        <5>3. \A l \in 1 .. Len(d) : l < Len(d) + 1
          BY <2>2
        <5>4. QED
          BY <5>1, <5>2, <5>3
      <4>4. QED
        BY <4>1, <4>2, <4>3 DEF Posts, Matched
    <3>2. CASE ~ \E k \in 1 .. Len(d) : d[k].by = t
      BY <2>5, <3>2 DEF Posts
    <3>3. QED
      BY <3>1, <3>2
  <2>8. ASSUME NEW k \in 1 .. Len(es), Clean(es[k].by)' PROVE Sound(es[k], misread')
    BY <1>4, <2>5, <2>6, <2>8 DEF Sound, Odd
  <2>9. QED
    BY <1>1, <1>3, <2>1, <2>4, <2>7, <2>8, KernelRaces
<1>7. QED
  BY <1>5, <1>6

-----------------------------------------------------------------------------
(* The worker.                                                              *)

\* The queue without the requests up to the end of a chain.
LEMMA QueueShortens ==
  ASSUME BuffersInv, QueueInv, UNCHANGED <<pc, late, mixed>>, NEW n \in 1 .. Len(queue),
         queue[n].op # "recv", queue' = SubSeq(queue, n + 1, Len(queue))
  PROVE  /\ QueueInv'
         /\ \A i \in 1 .. Len(queue') : \E j \in 1 .. Len(queue) : queue'[i] = queue[j]
<1>1. /\ Len(queue) \in Nat /\ Len(queue') = Len(queue) - n
      /\ \A i \in 1 .. (Len(queue) - n) : queue'[i] = queue[n + i]
  BY Sizes, Divided DEF BuffersInv
<1>2. \A i \in 1 .. Len(queue') : queue'[i] = queue[n + i] /\ n + i \in 1 .. Len(queue)
  BY <1>1
<1>3. \A t : Clean(t)' <=> Clean(t)
  BY DEF Clean
<1>4. ASSUME NEW i \in 1 .. Len(queue'), Clean(queue[i].by)'
      PROVE  Paired(queue, i)' /\ (queue'[i].op = "recv" /\ i = Len(queue') => pc'[queue'[i].by] = "link")
  <2>1. n + i \in 1 .. Len(queue) /\ queue'[i] = queue[n + i]
    BY <1>2
  <2>2. Clean(queue[n + i].by)
    BY <1>4, <2>1 DEF Clean
  <2>3. /\ Paired(queue, n + i)
        /\ queue[n + i].op = "recv" /\ n + i = Len(queue) => pc[queue[n + i].by] = "link"
    BY <2>1, <2>2 DEF QueueInv
  <2>4. \A l, m \in Nat : \A k \in 1 .. (l - m) :
          /\ k = l - m => m + k = l
          /\ k < l - m => m + k < l /\ k + 1 \in 1 .. (l - m) /\ m + (k + 1) = (m + k) + 1
          /\ k > 1 => m + k > 1 /\ k - 1 \in 1 .. (l - m) /\ m + (k - 1) = (m + k) - 1
          /\ ~ (k > 1) => (m + k) - 1 = m
    OBVIOUS
  <2>5. /\ i = Len(queue') => n + i = Len(queue)
        /\ i < Len(queue') => /\ n + i < Len(queue) /\ i + 1 \in 1 .. Len(queue')
                              /\ n + (i + 1) = (n + i) + 1
        /\ i > 1 => /\ n + i > 1 /\ i - 1 \in 1 .. Len(queue')
                    /\ n + (i - 1) = (n + i) - 1
        /\ ~ (i > 1) => (n + i) - 1 = n
    BY <1>1, <2>4
  <2>6. /\ i < Len(queue') => queue'[i + 1] = queue[(n + i) + 1]
        /\ i > 1 => queue'[i - 1] = queue[(n + i) - 1]
    BY <1>2, <2>5
  <2>7. Paired(queue, i)'
    BY <2>1, <2>3, <2>5, <2>6 DEF Paired
  <2>8. queue'[i].op = "recv" /\ i = Len(queue') => pc'[queue'[i].by] = "link"
    BY <2>1, <2>3, <2>5
  <2>9. QED
    BY <2>7, <2>8
<1>5. ASSUME NEW t \in Threads, Clean(t)', pc'[t] = "link"
      PROVE  queue' # <<>> /\ queue'[Len(queue')].op = "recv" /\ queue'[Len(queue')].by = t
  <2>1. queue # <<>> /\ queue[Len(queue)].op = "recv" /\ queue[Len(queue)].by = t
    BY <1>3, <1>5 DEF QueueInv
  <2>2. n # Len(queue)
    BY <2>1
  <2>3. Len(queue') \in 1 .. Len(queue') /\ n + Len(queue') = Len(queue) /\ Len(queue') # 0
    BY <1>1, <2>2
  <2>4. queue'[Len(queue')] = queue[Len(queue)]
    BY <1>2, <2>3
  <2>5. queue' # <<>>
    BY <2>3
  <2>6. QED
    BY <2>1, <2>4, <2>5
<1>6. QED
  BY <1>2, <1>4, <1>5 DEF QueueInv

\* The kernel refuses a timeout of a thread in neither race only together with its receive.
LEMMA RefusedRaces ==
  ASSUME BuffersInv, RacesInv, NEW c, Len(c) \in Nat \ {0}, Len(c) <= Len(queue),
         \A i \in 1 .. Len(c) : c[i] = queue[i] /\ (c[i].op = "recv" <=> i < Len(c)),
         \A i \in 1 .. Len(c) : Clean(c[i].by) => Paired(c, i),
         c[Len(c)].op = "timeout", NEW es, es = Refused(c), Len(es) = Len(c),
         misread' = IF Len(c) > 1 THEN misread \cup {c[Len(c)].by} ELSE misread
  PROVE  /\ \A t \in Threads : Clean(t) => Posts(es, t)
         /\ \A k \in 1 .. Len(es) : Clean(es[k].by) => Sound(es[k], misread')
<1>1. /\ TypeOK /\ CarrierInv
      /\ Len(queue) \in Nat /\ \A i \in 1 .. Len(c) : i \in 1 .. Len(queue)
  BY Sizes DEF BuffersInv
<1>2. \A k \in 1 .. Len(es) :
        /\ es[k].op = c[k].op /\ es[k].by = c[k].by /\ es[k].bid = c[k].bid
        /\ es[k].res = IF k = Len(c) THEN "other" ELSE "ECANCELED"
  BY RefusedAnswers
<1>3. ASSUME NEW k \in 1 .. Len(c), Clean(c[k].by)
      PROVE  /\ Len(c) = 2 /\ c[1].op = "recv" /\ c[2].op = "timeout" /\ c[1].bid = None
             /\ c[1].by = c[k].by /\ c[2].by = c[k].by /\ Fresh(c[k].by)
  <2>1. IF c[k].op \in {"recv", "timeout"}
        THEN /\ Len(c) = 2 /\ c[1].op = "recv" /\ c[2].op = "timeout"
             /\ c[1].by = c[k].by /\ c[2].by = c[k].by
        ELSE Len(c) = 1
    BY <1>3, CleanPair
  <2>2. ASSUME Len(c) = 1 PROVE c[k].op = "timeout"
    BY <2>2
  <2>3. /\ Len(c) = 2 /\ c[1].op = "recv" /\ c[2].op = "timeout"
        /\ c[1].by = c[k].by /\ c[2].by = c[k].by
    BY <2>1, <2>2
  <2>4. 1 \in 1 .. Len(c) /\ 2 \in 1 .. Len(c)
    BY <2>3
  <2>5. Fits(c[1]) /\ Fits(c[2]) /\ SqeBid(c[1])
    BY <1>1, <2>4 DEF CarrierInv
  <2>6. InQueue("at", c[1].at) /\ InQueue("by", c[k].by)
    <3>1. Has(queue[1], "at", c[1].at) /\ Has(queue[2], "by", c[k].by)
      BY <2>3, <2>4 DEF Has
    <3>2. QED
      BY <1>1, <2>4, <3>1 DEF InQueue
  <2>7. c[k].by \in Threads
    BY <1>1, Sizes DEF Sqes
  <2>8. OwnInv(c[k].by)
    BY <1>3, <2>7 DEF RacesInv
  <2>9. Fresh(c[k].by)
    BY <2>3, <2>5, <2>6, <2>7, <2>8, BothBefore
  <2>10. QED
    BY <2>3, <2>5, <2>9 DEF SqeBid
<1>4. ASSUME NEW t \in Threads, Clean(t) PROVE Posts(es, t)
  <2>1. CASE \E k \in 1 .. Len(c) : c[k].by = t
    <3>1. /\ Len(c) = 2 /\ c[1].op = "recv" /\ c[2].op = "timeout" /\ c[1].bid = None /\ Fresh(t)
      BY <1>3, <1>4, <2>1
    <3>2. \A k \in 1 .. Len(es) : \/ k = 1 /\ es[k].op = "recv" /\ es[k].bid = None
                                  \/ k = 2 /\ es[k].op = "timeout"
      <4>1. \A k \in 1 .. Len(es) : k = 1 \/ k = 2
        BY <3>1
      <4>2. QED
        BY <1>2, <3>1, <4>1
    <3>3. Matched(es, t)
      BY <3>2 DEF Matched, Told, Ends, Odd, OfRecv
    <3>4. QED
      BY <3>1, <3>3 DEF Posts
  <2>2. CASE ~ \E k \in 1 .. Len(c) : c[k].by = t
    BY <1>2, <2>2 DEF Posts
  <2>3. QED
    BY <2>1, <2>2
<1>5. ASSUME NEW k \in 1 .. Len(es), Clean(es[k].by) PROVE Sound(es[k], misread')
  <2>1. /\ Len(c) = 2 /\ c[1].op = "recv" /\ c[2].op = "timeout" /\ c[2].by = c[k].by
    BY <1>2, <1>3, <1>5
  <2>2. k = 1 \/ k = 2
    BY <2>1
  <2>3. es[k].op \in {"recv", "timeout"} /\ es[k].by \in misread'
    BY <1>2, <2>1, <2>2
  <2>4. QED
    BY <2>3 DEF Sound, Odd
<1>6. QED
  BY <1>4, <1>5

\* SubmitToKernel: a receive and its timeout are submitted together, or refused together.
LEMMA SubmitToKernelRaces ==
  ASSUME BuffersInv, RacesInv, SubmitToKernel
  PROVE  RacesInv'
<1>1. Steady /\ TypeOK
  BY SubmitToKernelKeeps DEF BuffersInv
<1>2. PICK n \in 1 .. Len(queue) :
        LET c == SubSeq(queue, 1, n) IN
        /\ ~ Linked(queue[n])
        /\ \A i \in 1 .. n - 1 : Linked(queue[i])
        /\ queue' = SubSeq(queue, n + 1, Len(queue))
        /\ \/ /\ chains' = chains \cup {c}
              /\ UNCHANGED <<cq, bare, misread>>
           \/ /\ c[n].op = "timeout"
              /\ cq' = cq \o Refused(c)
              /\ misread' = IF n > 1 THEN misread \cup {c[n].by} ELSE misread
              /\ UNCHANGED chains
        /\ UNCHANGED <<threadVars, group, allocated, lost, late, mixed>>
  BY DEF SubmitToKernel
<1>3. /\ Len(queue) \in Nat /\ n \in Nat \ {0} /\ n <= Len(queue)
      /\ \A i \in 1 .. n : i \in 1 .. Len(queue) /\ (i = n \/ i \in 1 .. n - 1)
      /\ \A i \in 1 .. n : i < n <=> i # n
  BY <1>1, Sizes
<1>4. PICK c : /\ c = SubSeq(queue, 1, n) /\ Len(c) = n /\ c \in Seq(Sqes)
               /\ \A i \in 1 .. n : c[i] = queue[i]
  <2>1. /\ Len(SubSeq(queue, 1, n)) = n /\ SubSeq(queue, 1, n) \in Seq(Sqes)
        /\ \A i \in 1 .. n : SubSeq(queue, 1, n)[i] = queue[i]
    BY <1>1, Sizes, Divided
  <2>2. QED
    BY <2>1
<1>5. \A i \in 1 .. n : c[i].op = "recv" <=> i < n
  BY <1>2, <1>3, <1>4 DEF Linked
<1>6. ASSUME NEW i \in 1 .. n, Clean(c[i].by) PROVE Paired(c, i)
  <2>1. Paired(queue, i)
    BY <1>3, <1>4, <1>6 DEF RacesInv, QueueInv
  <2>2. /\ i < n => i < Len(queue) /\ i + 1 \in 1 .. n
        /\ i > 1 => i - 1 \in 1 .. n
    BY <1>3
  <2>3. /\ c[i] = queue[i]
        /\ i < n => c[i + 1] = queue[i + 1]
        /\ i > 1 => c[i - 1] = queue[i - 1]
    BY <1>4, <2>2
  <2>4. QED
    BY <1>4, <2>1, <2>2, <2>3 DEF Paired
<1>7. UNCHANGED <<pc, token, answer>>
  BY <1>2 DEF threadVars
<1>8. \A t : Clean(t)' <=> Clean(t)
  BY <1>2 DEF Clean
<1>9. QueueInv' /\ \A i \in 1 .. Len(queue') : \E j \in 1 .. Len(queue) : queue'[i] = queue[j]
  <2>1. queue[n].op # "recv" /\ queue' = SubSeq(queue, n + 1, Len(queue))
    BY <1>2 DEF Linked
  <2>2. UNCHANGED <<pc, late, mixed>> /\ QueueInv
    BY <1>2, <1>7 DEF RacesInv
  <2>3. QED
    BY <2>1, <2>2, QueueShortens
<1>10. \A d \in chains' : d \in chains \/ d = c
  BY <1>2, <1>4
<1>11. ChainInv'
  <2>1. ASSUME NEW d \in chains', NEW i \in 1 .. Len(d), Clean(d[i].by) PROVE Paired(d, i)
    BY <1>4, <1>6, <1>10, <2>1 DEF RacesInv, ChainInv
  <2>2. QED
    BY <1>8, <2>1 DEF ChainInv, Paired
<1>12. LostOnlyToRaces'
  BY <1>2 DEF RacesInv, LostOnlyToRaces
<1>13. ASSUME NEW t \in Threads, Clean(t)' PROVE OwnInv(t)' /\ AimInv(t)' /\ RingInv(t)'
  <2>1. OwnInv(t) /\ AimInv(t) /\ RingInv(t) /\ Clean(t)
    BY <1>8, <1>13 DEF RacesInv
  <2>2. OwnInv(t)'
    BY <1>1, <1>2, <1>7, <2>1 DEF OwnInv, Steady
  <2>3. AimInv(t)'
    <3>1. \A s : Aimed(s, t)' <=> Aimed(s, t)
      BY <1>7 DEF Aimed
    <3>2. \A i \in 1 .. Len(queue') : Aimed(queue'[i], t)
      BY <1>9, <2>1 DEF AimInv
    <3>3. \A d \in chains' : \A i \in 1 .. Len(d) : Aimed(d[i], t)
      BY <1>3, <1>4, <1>10, <2>1 DEF AimInv
    <3>4. QED
      BY <1>7, <3>2, <3>3 DEF AimInv, Aimed
  <2>4. CASE UNCHANGED <<cq, bare, misread>>
    <3>1. RingInv(t)'
      BY <1>2, <1>7, <2>1, <2>4 DEF RingInv, Holds, Fired, OfRecv, Ends, Odd, Told, Sound
    <3>2. QED
      BY <2>2, <2>3, <3>1
  <2>5. CASE /\ c[n].op = "timeout" /\ cq' = cq \o Refused(c)
             /\ misread' = IF n > 1 THEN misread \cup {c[n].by} ELSE misread
    <3>1. PICK es \in Seq(Cqes) : es = Refused(c) /\ Len(es) = n
      <4>1. \A i \in 1 .. n : c[i] \in Sqes
        BY <1>4
      <4>2. \A i \in 1 .. n : Answer(c[i], IF i = n THEN "other" ELSE "ECANCELED", c[i].bid) \in Cqes
        BY <4>1 DEF Answer, Sqes, Cqes, Results
      <4>3. Refused(c) = [i \in 1 .. n |-> Answer(c[i], IF i = n THEN "other" ELSE "ECANCELED", c[i].bid)]
        BY <1>4 DEF Refused
      <4>4. Refused(c) \in Seq(Cqes) /\ Len(Refused(c)) = n
        BY <1>3, <4>2, <4>3
      <4>5. QED
        BY <4>4
    <3>2. /\ Len(c) \in Nat \ {0} /\ Len(c) <= Len(queue) /\ c[Len(c)].op = "timeout"
          /\ \A i \in 1 .. Len(c) : c[i] = queue[i] /\ (c[i].op = "recv" <=> i < Len(c))
          /\ Len(es) = Len(c)
          /\ misread' = IF Len(c) > 1 THEN misread \cup {c[Len(c)].by} ELSE misread
      BY <1>3, <1>4, <1>5, <2>5, <3>1
    <3>3. \A i \in 1 .. Len(c) : Clean(c[i].by) => Paired(c, i)
      BY <1>4, <1>6
    <3>4. /\ \A u \in Threads : Clean(u) => Posts(es, u)
          /\ \A k \in 1 .. Len(es) : Clean(es[k].by) => Sound(es[k], misread')
      BY <3>1, <3>2, <3>3, RefusedRaces
    <3>5. misread \subseteq misread'
      BY <2>5
    <3>6. RingInv(t)'
      BY <1>1, <1>2, <2>1, <2>5, <3>1, <3>4, <3>5, RingPosted
    <3>7. QED
      BY <2>2, <2>3, <3>6
  <2>6. QED
    BY <1>2, <1>4, <2>4, <2>5
<1>14. QED
  BY <1>9, <1>11, <1>12, <1>13 DEF RacesInv

\* An answer leaves the ring, perhaps for t to read.
LEMMA RingTaken ==
  ASSUME TypeOK, NEW t \in Threads, RingInv(t), cq # <<>>, cq' = Tail(cq),
         UNCHANGED <<pc, token, misread>>, Fired(t) => Holds(t)',
         answer'[t] = answer[t] \/ (answer'[t] = cq[1] /\ cq[1].by = t)
  PROVE  RingInv(t)'
<1>1. /\ Len(cq) \in Nat \ {0} /\ Len(cq') = Len(cq) - 1
      /\ \A i \in 1 .. (Len(cq) - 1) : cq'[i] = cq[i + 1]
  BY Sizes, Behead
<1>2. /\ 1 \in 1 .. Len(cq)
      /\ \A i \in 1 .. Len(cq') : /\ i + 1 \in 1 .. Len(cq) /\ cq'[i] = cq[i + 1]
                                  /\ ~ (i + 1 < 1)
      /\ \A i, j \in 1 .. Len(cq') : i + 1 < j + 1 => i < j
  BY <1>1
<1>3. /\ \A i \in 1 .. Len(cq') : cq'[i].by = t => Sound(cq'[i], misread)
      /\ answer'[t] # None => Sound(answer'[t], misread)
  BY <1>2 DEF RingInv
<1>4. Fired(t)' => Fired(t)
  <2>1. ASSUME NEW j \in 1 .. Len(cq'), cq'[j].by = t, Told(cq'[j]) PROVE Fired(t)
    BY <1>2, <2>1 DEF Fired
  <2>2. ASSUME answer'[t] # None, Told(answer'[t]) PROVE Fired(t)
    BY <1>2, <2>2 DEF Fired
  <2>3. QED
    BY <2>1, <2>2 DEF Fired, Told
<1>5. Fired(t)' => Holds(t)' /\ \A i \in 1 .. Len(cq') : OfRecv(cq'[i], t) => cq'[i].bid = None
  BY <1>2, <1>4 DEF RingInv
<1>6. \A i, j \in 1 .. Len(cq') : OfRecv(cq'[i], t) /\ cq'[j].by = t /\ Ends(cq'[j]) => i < j
  <2>1. SUFFICES ASSUME NEW i \in 1 .. Len(cq'), NEW j \in 1 .. Len(cq'),
                        OfRecv(cq'[i], t), cq'[j].by = t, Ends(cq'[j])
                 PROVE  i < j
    OBVIOUS
  <2>2. i + 1 < j + 1
    BY <1>2, <2>1 DEF RingInv
  <2>3. QED
    BY <1>2, <2>2
<1>7. answer'[t] # None /\ Ends(answer'[t]) => \A i \in 1 .. Len(cq') : ~ OfRecv(cq'[i], t)
  <2>1. CASE answer'[t] = answer[t]
    BY <1>2, <2>1 DEF RingInv
  <2>2. CASE answer'[t] = cq[1] /\ cq[1].by = t
    BY <1>2, <2>2 DEF RingInv
  <2>3. QED
    BY <2>1, <2>2
<1>8. QED
  BY <1>3, <1>5, <1>6, <1>7 DEF RingInv, OfRecv, Ends, Odd, Sound

\* HandleCqe: an answer after which there is none of a receive is the last of its thread; no
\* buffer of a thread in neither race goes to a future the thread has dropped.
LEMMA HandleCqeRaces ==
  ASSUME BuffersInv, RacesInv, HandleCqe
  PROVE  RacesInv'
<1>1. TypeOK
  BY DEF BuffersInv
<1>2. /\ cq # <<>> /\ cq' = Tail(cq)
      /\ UNCHANGED <<pc, token, queue, chains, bare, misread, late, mixed>>
  BY DEF HandleCqe, history
<1>3. PICK c : c = Head(cq) /\ c = cq[1] /\ 1 \in 1 .. Len(cq)
  <2>1. Head(cq) = cq[1] /\ 1 \in 1 .. Len(cq)
    <3>1. Head(cq) = cq[1] /\ Len(cq) \in Nat \ {0}
      BY <1>1, <1>2, Sizes, Behead
    <3>2. QED
      BY <3>1
  <2>2. QED
    BY <2>1
<1>4. /\ c \in Cqes /\ Fits(c)
      /\ \A q, v : ~ Has(c, q, v) => (Some(q, v)' <=> Some(q, v))
      /\ c.op = "recv" => ~ Some("at", c.at)'
  BY <1>3, HeadGone
<1>5. \A t : Clean(t)' <=> Clean(t)
  BY <1>2 DEF Clean
<1>6. QueueInv' /\ ChainInv' /\ \A t \in Threads : AimInv(t) => AimInv(t)'
  BY <1>2, <1>5 DEF RacesInv, QueueInv, ChainInv, AimInv, Aimed, Paired
<1>7. c.op = "recv" => /\ c.at \in Addresses /\ c.by \in Threads /\ allocated[c.at] = c.by
                       /\ Some("at", c.at)
  BY <1>3, <1>4 DEF Fits, Cqes, Some, InRing, Has
<1>8. \/ UNCHANGED <<allocated, lost, answer>>
      \/ /\ c.op = "recv" /\ c.bid # None /\ UNCHANGED answer
         /\ allocated' = [allocated EXCEPT ![c.at] = None]
         /\ lost' = lost \/ (token[c.by] # c.at /\ lost' = lost \cup {[by |-> c.by, bid |-> c.bid]})
      \/ /\ c.op # "recv" /\ UNCHANGED <<allocated, lost>>
         /\ answer' = [answer EXCEPT ![c.by] = c]
  BY <1>3, <1>7 DEF HandleCqe, CompleteWith, Deliver, Delete, Losing
<1>9. \A a \in Addresses : Some("at", a)' => Some("at", a)
  BY <1>4 DEF Has
<1>10. \A a \in Addresses : allocated'[a] = None \/ allocated'[a] = allocated[a]
  BY <1>1, <1>8 DEF TypeOK
<1>11. None \notin Threads
  BY BuffersAssumption
<1>12. LostOnlyToRaces'
  <2>1. CASE lost' = lost
    BY <1>2, <2>1 DEF RacesInv, LostOnlyToRaces
  <2>2. CASE c.op = "recv" /\ token[c.by] # c.at /\ lost' = lost \cup {[by |-> c.by, bid |-> c.bid]}
    <3>1. ~ Clean(c.by)
      BY <1>7, <2>2 DEF RacesInv, OwnInv
    <3>2. [by |-> c.by, bid |-> c.bid].by = c.by
      OBVIOUS
    <3>3. QED
      BY <1>2, <2>2, <3>1, <3>2 DEF RacesInv, LostOnlyToRaces, Clean
  <2>3. QED
    BY <1>8, <2>1, <2>2
<1>13. ASSUME NEW t \in Threads, Clean(t)' PROVE OwnInv(t)' /\ AimInv(t)' /\ RingInv(t)'
  <2>1. OwnInv(t) /\ AimInv(t) /\ RingInv(t)
    BY <1>5, <1>13 DEF RacesInv
  <2>2. OwnInv(t)'
    BY <1>2, <1>9, <1>10, <1>11, <2>1 DEF OwnInv
  <2>3. Fired(t) => Holds(t)'
    <3>1. ASSUME Fired(t) PROVE Holds(t)'
      <4>1. Holds(t) /\ \A i \in 1 .. Len(cq) : OfRecv(cq[i], t) => cq[i].bid = None
        BY <2>1, <3>1 DEF RingInv
      <4>2. c.op = "recv" /\ c.bid # None => c.at # token[t]
        BY <1>3, <1>7, <4>1 DEF OfRecv, Holds
      <4>3. QED
        BY <1>1, <1>2, <1>8, <4>1, <4>2 DEF Holds, TypeOK
    <3>2. QED
      BY <3>1
  <2>4. answer'[t] = answer[t] \/ (answer'[t] = cq[1] /\ cq[1].by = t)
    BY <1>1, <1>3, <1>8 DEF TypeOK
  <2>5. RingInv(t)'
    BY <1>1, <1>2, <2>1, <2>3, <2>4, RingTaken
  <2>6. QED
    BY <1>6, <2>1, <2>2, <2>5
<1>14. QED
  BY <1>6, <1>12, <1>13 DEF RacesInv

-----------------------------------------------------------------------------
(* The threads.                                                             *)

\* A thread in neither race whose other request has been answered has no receive left in the
\* queue or the kernel.
LEMMA NoReceive ==
  ASSUME BuffersInv, RacesInv, NEW t \in Threads, Clean(t), pc[t] # "link", ~ Some("by", t)
  PROVE  /\ \A i \in 1 .. Len(queue) : ~ OfRecv(queue[i], t)
         /\ \A c \in chains : \A i \in 1 .. Len(c) : ~ OfRecv(c[i], t)
<1>1. ASSUME NEW i \in 1 .. Len(queue), OfRecv(queue[i], t) PROVE FALSE
  <2>1. /\ Paired(queue, i) /\ i # Len(queue)
        /\ Len(queue) \in Nat
    BY <1>1, Sizes DEF RacesInv, QueueInv, OfRecv, BuffersInv
  <2>2. i < Len(queue) /\ i + 1 \in 1 .. Len(queue)
    BY <2>1
  <2>3. Has(queue[i + 1], "by", t)
    BY <1>1, <2>1, <2>2 DEF Paired, OfRecv, Has
  <2>4. QED
    BY <2>2, <2>3 DEF Some, InQueue
<1>2. ASSUME NEW c \in chains, NEW i \in 1 .. Len(c), OfRecv(c[i], t) PROVE FALSE
  <2>1. Len(c) = 2 /\ c[2].op = "timeout" /\ c[2].by = t
    BY <1>2, CleanChain DEF OfRecv
  <2>2. 2 \in 1 .. Len(c) /\ Has(c[2], "by", t)
    BY <2>1 DEF Has
  <2>3. QED
    BY <2>2 DEF Some, InChain
<1>3. QED
  BY <1>1, <1>2

\* So its receives are in the ring, if any.
LEMMA ReceiveInRing ==
  ASSUME BuffersInv, RacesInv, NEW t \in Threads, Clean(t), pc[t] # "link", ~ Some("by", t),
         NEW a \in Addresses, allocated[a] = t, Some("at", a)
  PROVE  \E i \in 1 .. Len(cq) : OfRecv(cq[i], t)
<1>1. \A s : Fits(s) /\ Has(s, "at", a) => OfRecv(s, t)
  BY DEF Fits, Has, OfRecv
<1>2. CarrierInv
  BY DEF BuffersInv
<1> HIDE DEF Has
<1>3. ~ InQueue("at", a) /\ ~ InChain("at", a)
  BY <1>1, <1>2, NoReceive DEF InQueue, InChain, CarrierInv
<1>4. InRing("at", a)
  BY <1>3 DEF Some
<1>5. QED
  BY <1>1, <1>2, <1>4 DEF InRing, CarrierInv

\* The other threads keep what they have when t goes on.
LEMMA OthersKeep ==
  ASSUME BuffersInv, NEW t \in Threads, NEW u \in Threads, u # t, OwnInv(u), AimInv(u), RingInv(u),
         UNCHANGED <<chains, cq>>, pc'[u] = pc[u], token'[u] = token[u], answer'[u] = answer[u],
         misread \ {t} \subseteq misread',
         \A a \in Addresses : \/ allocated'[a] = allocated[a]
                              \/ allocated[a] = None /\ allocated'[a] = t,
         \A a \in Addresses : Some("at", a)' => Some("at", a) \/ allocated'[a] = t,
         \A i \in 1 .. Len(queue') : \/ queue'[i].by = t
                                     \/ \E j \in 1 .. Len(queue) : queue'[i] = queue[j]
  PROVE  OwnInv(u)' /\ AimInv(u)' /\ RingInv(u)'
<1>1. None \notin Threads
  BY BuffersAssumption
<1>2. OwnInv(u)'
  BY <1>1 DEF OwnInv
<1>3. AimInv(u)'
  BY DEF AimInv, Aimed
<1>4. \A e : e.by = u /\ Sound(e, misread) => Sound(e, misread')
  BY DEF Sound, Odd
<1>5. Fired(u)' => Fired(u)
  BY DEF Fired, Told
<1>6. Fired(u) => Holds(u)'
  BY <1>1 DEF RingInv, Holds
<1>7. answer[u] # None => Sound(answer[u], misread')
  <2>1. answer[u] # None => Sound(answer[u], misread) /\ answer[u].by = u
    BY DEF RingInv, BuffersInv, ThreadInv
  <2>2. QED
    BY <1>4, <2>1
<1>8. QED
  BY <1>2, <1>3, <1>4, <1>5, <1>6, <1>7 DEF RingInv, OfRecv, Ends, Odd, Sound

\* The ring holds nothing of a thread that has no request on its way but receives.
LEMMA OwnRing ==
  ASSUME BuffersInv, NEW t \in Threads, ~ Some("by", t), cq' = cq, answer'[t] = None,
         pc'[t] = "cancel" => RingInv(t) /\ Fired(t) /\ Holds(t)'
  PROVE  RingInv(t)'
<1>1. \A i \in 1 .. Len(cq) : cq[i].by = t => cq[i].op = "recv"
  BY DEF Some, InRing, Has
<1>2. Fired(t)' => pc'[t] = "cancel"
  BY <1>1 DEF Fired, Told
<1>3. Fired(t)' => Holds(t)' /\ \A i \in 1 .. Len(cq) : OfRecv(cq[i], t) => cq[i].bid = None
  BY <1>2 DEF RingInv
<1>4. QED
  BY <1>1, <1>3 DEF RingInv, OfRecv, Ends, Odd, Sound

\* A thread goes on without a new request.
LEMMA QuietRaces ==
  ASSUME BuffersInv, RacesInv, NEW t \in Threads, pc[t] # "link", ~ Some("by", t),
         UNCHANGED <<queue, chains, cq, allocated, misread, late, mixed>>,
         answer'[t] = None, pc'[t] \notin {"link", "cancel"},
         \A u \in Threads : u # t => /\ pc'[u] = pc[u] /\ token'[u] = token[u]
                                     /\ answer'[u] = answer[u],
         Clean(t) => \A a \in Addresses : allocated[a] = t /\ Some("at", a) =>
                       a = token'[t] /\ pc'[t] = "get",
         LostOnlyToRaces'
  PROVE  RacesInv'
<1>1. \A u : Clean(u)' <=> Clean(u)
  BY DEF Clean
<1>2. \A q, v : Some(q, v)' <=> Some(q, v)
  <2> HIDE DEF Has
  <2> QED
    BY DEF Some, InQueue, InChain, InRing
<1>3. \A i \in 1 .. Len(queue) : queue[i].by \in Threads
  BY Sizes DEF BuffersInv, Sqes
<1>4. QueueInv'
  BY <1>1, <1>3 DEF RacesInv, QueueInv, Paired
<1>5. ChainInv'
  BY <1>1 DEF RacesInv, ChainInv, Paired
<1>6. ASSUME NEW u \in Threads, Clean(u)', u # t PROVE OwnInv(u)' /\ AimInv(u)' /\ RingInv(u)'
  <2>1. OwnInv(u) /\ AimInv(u) /\ RingInv(u)
    BY <1>1, <1>6 DEF RacesInv
  <2>2. QED
    BY <1>2, <1>6, <2>1, OthersKeep
<1>7. ASSUME Clean(t)' PROVE OwnInv(t)' /\ AimInv(t)' /\ RingInv(t)'
  <2>1. OwnInv(t)'
    BY <1>1, <1>2, <1>7 DEF OwnInv
  <2>2. AimInv(t)'
    BY DEF AimInv, Aimed, Some, InQueue, InChain, Has
  <2>3. RingInv(t)'
    BY OwnRing
  <2>4. QED
    BY <2>1, <2>2, <2>3
<1>8. QED
  BY <1>4, <1>5, <1>6, <1>7 DEF RacesInv

\* A request of t comes into the queue: in no chain of a thread in neither race but the chain
\* of its own receive.
LEMMA QueueLengthens ==
  ASSUME BuffersInv, QueueInv, NEW t \in Threads, NEW s \in Sqes, s.by = t,
         queue' = Append(queue, s), late' = late,
         mixed' = (IF OpenFor(t) = {} THEN mixed ELSE mixed \cup {t} \cup OpenFor(t)),
         \A u \in Threads : u # t => pc'[u] = pc[u],
         s.op = "recv" <=> pc'[t] = "link", s.op = "timeout" <=> pc[t] = "link"
  PROVE  QueueInv'
<1>1. /\ Len(queue) \in Nat /\ Len(queue') = Len(queue) + 1
      /\ \A i \in 1 .. Len(queue) : queue'[i] = queue[i] /\ queue[i].by \in Threads
      /\ queue'[Len(queue) + 1] = s
      /\ \A i \in 1 .. Len(queue') : i \in 1 .. Len(queue) \/ i = Len(queue) + 1
  <2>1. Len(queue) \in Nat /\ \A i \in 1 .. Len(queue) : queue[i].by \in Threads
    BY Sizes DEF BuffersInv, Sqes
  <2>2. /\ Len(queue') = Len(queue) + 1 /\ queue'[Len(queue) + 1] = s
        /\ \A i \in 1 .. Len(queue) : queue'[i] = queue[i]
    BY Sizes DEF BuffersInv
  <2>3. QED
    BY <2>1, <2>2
<1>2. \A u : Clean(u)' => Clean(u)
  BY DEF Clean
<1>3. ASSUME queue # <<>>, queue[Len(queue)].op = "recv",
             NEW w, w = t \/ w = queue[Len(queue)].by, Clean(w)'
      PROVE  s.op = "timeout" /\ queue[Len(queue)].by = t
  <2>1. Len(queue) \in 1 .. Len(queue)
    BY <1>1, <1>3, Sizes DEF BuffersInv
  <2>2. PICK u \in Threads : u = queue[Len(queue)].by
    BY <1>1, <2>1
  <2>3. u = t
    <3>1. u # t => u \in OpenFor(t)
      BY <1>3, <2>2 DEF OpenFor, Linked
    <3>2. u # t => t \in mixed' /\ u \in mixed'
      BY <3>1
    <3>3. QED
      BY <1>3, <2>2, <3>2 DEF Clean
  <2>4. Clean(t)
    BY <1>2, <1>3, <2>2, <2>3
  <2>5. pc[t] = "link"
    BY <1>3, <2>1, <2>2, <2>3, <2>4 DEF QueueInv
  <2>6. QED
    BY <2>2, <2>3, <2>5
<1>4. ASSUME NEW i \in 1 .. Len(queue), Clean(queue[i].by)' PROVE Paired(queue, i)'
  <2>1. Clean(queue[i].by)
    BY <1>1, <1>4 DEF Clean
  <2>2. Paired(queue, i)
    BY <2>1 DEF QueueInv
  <2>3. /\ i < Len(queue) => i + 1 \in 1 .. Len(queue)
        /\ i > 1 => i - 1 \in 1 .. Len(queue)
        /\ i < Len(queue) \/ i = Len(queue)
    BY <1>1
  <2>4. i = Len(queue) /\ queue[i].op = "recv" => s.op = "timeout" /\ queue[i].by = t
    <3>1. ASSUME i = Len(queue), queue[i].op = "recv" PROVE s.op = "timeout" /\ queue[i].by = t
      <4>1. queue # <<>>
        BY <3>1
      <4>2. PICK w : w = queue[i].by
        OBVIOUS
      <4>3. Clean(w)'
        BY <1>1, <1>4, <4>2 DEF Clean
      <4>4. QED
        BY <1>3, <3>1, <4>1, <4>2, <4>3
    <3>2. QED
      BY <3>1
  <2>5. QED
    BY <1>1, <2>2, <2>3, <2>4 DEF Paired
<1>5. ASSUME NEW i, i = Len(queue) + 1, Clean(t)'
      PROVE  Paired(queue, i)' /\ (queue'[i].op = "recv" => pc'[queue'[i].by] = "link")
  <2>1. Clean(t) /\ queue'[i] = s /\ i = Len(queue')
    BY <1>1, <1>2, <1>5
  <2>2. s.op = "timeout" => queue # <<>> /\ queue[Len(queue)].op = "recv"
    BY <2>1 DEF QueueInv
  <2>3. i - 1 = Len(queue) /\ (i > 1 <=> Len(queue) # 0) /\ ~ (i < Len(queue'))
    BY <1>1, <1>5
  <2>4. Len(queue) # 0 <=> queue # <<>>
    BY Sizes DEF BuffersInv
  <2>5. queue # <<>> => queue'[i - 1] = queue[Len(queue)]
    BY <1>1, <2>3, <2>4
  <2>6. QED
    BY <1>3, <1>5, <2>1, <2>2, <2>3, <2>4, <2>5 DEF Paired
<1>6. ASSUME NEW u \in Threads, Clean(u)', pc'[u] = "link"
      PROVE  queue' # <<>> /\ queue'[Len(queue')].op = "recv" /\ queue'[Len(queue')].by = u
  <2>1. CASE u = t
    BY <1>1, <1>6, <2>1
  <2>2. CASE u # t
    <3>1. queue # <<>> /\ queue[Len(queue)].op = "recv" /\ queue[Len(queue)].by = u
      BY <1>2, <1>6, <2>2 DEF QueueInv
    <3>2. queue[Len(queue)].by = t
      BY <1>3, <1>6, <3>1
    <3>3. QED
      BY <2>2, <3>1, <3>2
  <2>3. QED
    BY <2>1, <2>2
<1>7. \A i \in 1 .. Len(queue') : Clean(queue[i].by)' =>
        Paired(queue, i)' /\ (queue'[i].op = "recv" /\ i = Len(queue') => pc'[queue'[i].by] = "link")
  <2>1. SUFFICES ASSUME NEW i \in 1 .. Len(queue'), Clean(queue[i].by)'
                 PROVE  /\ Paired(queue, i)'
                        /\ queue'[i].op = "recv" /\ i = Len(queue') => pc'[queue'[i].by] = "link"
    OBVIOUS
  <2>2. CASE i \in 1 .. Len(queue)
    <3>1. i # Len(queue')
      BY <1>1, <2>2
    <3>2. QED
      BY <1>4, <2>1, <2>2, <3>1
  <2>3. CASE i = Len(queue) + 1
    <3>1. Clean(t)'
      BY <1>1, <2>1, <2>3 DEF Clean
    <3>2. QED
      BY <1>5, <2>3, <3>1
  <2>4. QED
    BY <1>1, <2>2, <2>3
<1>8. QED
  BY <1>6, <1>7 DEF QueueInv

\* A thread goes on with a new request.
LEMMA SubmitRaces ==
  ASSUME BuffersInv, RacesInv, NEW t \in Threads, ~ Some("by", t),
         UNCHANGED <<chains, cq, lost, late>>,
         NEW s \in Sqes, s.by = t, queue' = Append(queue, s),
         mixed' = (IF OpenFor(t) = {} THEN mixed ELSE mixed \cup {t} \cup OpenFor(t)),
         misread \ {t} \subseteq misread', answer'[t] = None,
         \A u \in Threads : u # t => /\ pc'[u] = pc[u] /\ token'[u] = token[u]
                                     /\ answer'[u] = answer[u],
         s.op = "recv" <=> pc'[t] = "link", s.op = "timeout" <=> pc[t] = "link",
         s.op = "recv" => allocated'[s.at] = t, s.op = "cancel" => s.at = token'[t],
         \A a \in Addresses : \/ allocated'[a] = allocated[a]
                              \/ allocated[a] = None /\ allocated'[a] = t,
         Clean(t) => OwnInv(t)',
         Clean(t) /\ pc'[t] = "cancel" => Fired(t) /\ Holds(t)'
  PROVE  RacesInv'
<1>1. TypeOK
  BY DEF BuffersInv
<1>2. \A u : Clean(u)' => Clean(u)
  BY DEF Clean
<1>3. QueueInv'
  BY QueueLengthens DEF RacesInv
<1>4. ChainInv'
  BY <1>2 DEF RacesInv, ChainInv, Paired
<1>5. LostOnlyToRaces'
  BY DEF RacesInv, LostOnlyToRaces
<1>6. \A i \in 1 .. Len(queue') : queue'[i] = s \/ \E j \in 1 .. Len(queue) : queue'[i] = queue[j]
  <2>1. Len(queue) \in Nat /\ queue \in Seq(Sqes)
    BY <1>1, Sizes
  <2>2. /\ Len(queue') = Len(queue) + 1 /\ queue'[Len(queue) + 1] = s
        /\ \A i \in 1 .. Len(queue) : queue'[i] = queue[i]
    BY <2>1
  <2>3. \A i \in 1 .. Len(queue') : i \in 1 .. Len(queue) \/ i = Len(queue) + 1
    BY <2>1, <2>2
  <2>4. QED
    BY <2>2, <2>3
<1>7. \A a \in Addresses : Some("at", a)' => Some("at", a) \/ allocated'[a] = t
  <2>1. \A a \in Addresses : Has(s, "at", a) => allocated'[a] = t
    BY DEF Has
  <2>2. \A a \in Addresses : ~ Has(s, "at", a) => (Some("at", a)' <=> Some("at", a))
    <3> HIDE DEF Has
    <3> QED
      BY <1>1, Appended
  <2>3. QED
    BY <2>1, <2>2
<1>8. ASSUME NEW u \in Threads, Clean(u)', u # t PROVE OwnInv(u)' /\ AimInv(u)' /\ RingInv(u)'
  <2>1. OwnInv(u) /\ AimInv(u) /\ RingInv(u)
    BY <1>2, <1>8 DEF RacesInv
  <2>2. \A i \in 1 .. Len(queue') : \/ queue'[i].by = t
                                    \/ \E j \in 1 .. Len(queue) : queue'[i] = queue[j]
    BY <1>6
  <2>3. QED
    BY <1>7, <1>8, <2>1, <2>2, OthersKeep
<1>9. ASSUME Clean(t)' PROVE OwnInv(t)' /\ AimInv(t)' /\ RingInv(t)'
  <2>1. Clean(t) /\ OwnInv(t)'
    BY <1>2, <1>9
  <2>2. AimInv(t)'
    <3>1. /\ \A i \in 1 .. Len(queue) : queue[i].by = t => queue[i].op = "recv"
          /\ \A c \in chains : \A i \in 1 .. Len(c) : c[i].by = t => c[i].op = "recv"
      BY DEF Some, InQueue, InChain, Has
    <3>2. QED
      BY <1>6, <3>1 DEF AimInv, Aimed
  <2>3. pc'[t] = "cancel" => RingInv(t) /\ Fired(t) /\ Holds(t)'
    BY <2>1 DEF RacesInv
  <2>4. RingInv(t)'
    BY <2>3, OwnRing
  <2>5. QED
    BY <2>1, <2>2, <2>4
<1>10. QED
  BY <1>3, <1>4, <1>5, <1>8, <1>9 DEF RacesInv

\* Recv, of a thread that has no receive on its way.
LEMMA RecvRaces ==
  ASSUME BuffersInv, RacesInv, NEW t \in Threads, Recv(t)
  PROVE  RacesInv'
<1>1. /\ TypeOK /\ ThreadInv /\ pc[t] = "idle"
      /\ None \notin Threads \cup Buffers \cup Addresses
  BY BuffersAssumption DEF BuffersInv, Recv
<1>2. PICK a \in Addresses :
        /\ allocated[a] = None /\ allocated' = [allocated EXCEPT ![a] = t]
        /\ token' = [token EXCEPT ![t] = a] /\ Submit(t, "recv", a, None)
  BY DEF Recv, Free
<1>3. /\ UNCHANGED <<answer, chains, cq, lost, late>> /\ pc' = [pc EXCEPT ![t] = "link"]
      /\ misread' = misread \ {t}
  BY DEF Recv, kernelVars, Goto
<1>4. PICK s \in Sqes : /\ s.op = "recv" /\ s.by = t /\ s.at = a
                        /\ queue' = Append(queue, s)
  <2>1. [op |-> "recv", by |-> t, at |-> a, bid |-> None] \in Sqes
    BY DEF Sqes, Ops
  <2>2. QED
    BY <1>2, <2>1 DEF Submit
<1>5. mixed' = (IF OpenFor(t) = {} THEN mixed ELSE mixed \cup {t} \cup OpenFor(t))
  BY <1>2 DEF Submit
<1>6. ~ Some("by", t)
  BY <1>1, TurnFree
<1>7. answer[t] = None
  BY <1>1 DEF ThreadInv, TypeOK, Cqes, Ops
<1>8. /\ token'[t] = a /\ pc'[t] = "link" /\ allocated'[a] = t
      /\ \A d \in Addresses : d # a => allocated'[d] = allocated[d]
      /\ \A u \in Threads : u # t => pc'[u] = pc[u] /\ token'[u] = token[u]
  BY <1>1, <1>2, <1>3 DEF TypeOK
<1>9. Clean(t) => OwnInv(t)'
  <2>1. SUFFICES ASSUME Clean(t), NEW d \in Addresses, allocated'[d] = t, Some("at", d)', d # a
                 PROVE  FALSE
    BY <1>8 DEF OwnInv
  <2>2. ~ Has(s, "at", d)
    BY <1>4, <2>1 DEF Has
  <2>3. Some("at", d)
    <3> HIDE DEF Has
    <3> QED
      BY <1>1, <1>3, <1>4, <2>1, <2>2, Appended
  <2>4. OwnInv(t) /\ allocated[d] = t
    BY <1>8, <2>1 DEF RacesInv
  <2>5. QED
    BY <1>1, <2>3, <2>4 DEF OwnInv
<1>10. /\ UNCHANGED <<chains, cq, lost, late>> /\ misread \ {t} \subseteq misread'
       /\ answer'[t] = None /\ \A u \in Threads : answer'[u] = answer[u]
       /\ \A d \in Addresses : \/ allocated'[d] = allocated[d]
                               \/ allocated[d] = None /\ allocated'[d] = t
  BY <1>2, <1>3, <1>7, <1>8
<1>11. /\ s.op = "recv" <=> pc'[t] = "link"
       /\ s.op = "timeout" <=> pc[t] = "link"
       /\ s.op = "recv" => allocated'[s.at] = t
       /\ s.op = "cancel" => s.at = token'[t]
       /\ pc'[t] # "cancel"
  BY <1>1, <1>4, <1>8
<1>12. QED
  BY <1>4, <1>5, <1>6, <1>8, <1>9, <1>10, <1>11, SubmitRaces

\* LinkTimeout.
LEMMA LinkTimeoutRaces ==
  ASSUME BuffersInv, RacesInv, NEW t \in Threads, LinkTimeout(t)
  PROVE  RacesInv'
<1>1. /\ TypeOK /\ ThreadInv /\ pc[t] = "link"
      /\ None \notin Threads \cup Buffers \cup Addresses
  BY BuffersAssumption DEF BuffersInv, LinkTimeout
<1>2. /\ UNCHANGED <<token, answer, chains, cq, allocated, lost, misread, late>>
      /\ pc' = [pc EXCEPT ![t] = "timeout"] /\ Submit(t, "timeout", None, None)
  BY DEF LinkTimeout, kernelVars, Goto
<1>3. PICK s \in Sqes : s.op = "timeout" /\ s.by = t /\ queue' = Append(queue, s)
  <2>1. [op |-> "timeout", by |-> t, at |-> None, bid |-> None] \in Sqes
    BY DEF Sqes, Ops
  <2>2. QED
    BY <1>2, <2>1 DEF Submit
<1>4. mixed' = (IF OpenFor(t) = {} THEN mixed ELSE mixed \cup {t} \cup OpenFor(t))
  BY <1>2 DEF Submit
<1>5. ~ Some("by", t)
  BY <1>1, TurnFree
<1>6. answer[t] = None
  BY <1>1 DEF ThreadInv, TypeOK, Cqes, Ops
<1>7. pc'[t] = "timeout" /\ \A u \in Threads : u # t => pc'[u] = pc[u]
  BY <1>1, <1>2 DEF TypeOK
<1>8. Clean(t) => OwnInv(t)'
  <2>1. SUFFICES ASSUME Clean(t), NEW d \in Addresses, allocated[d] = t, Some("at", d)'
                 PROVE  d = token[t]
    BY <1>2, <1>7 DEF OwnInv
  <2>2. ~ Has(s, "at", d)
    BY <1>3 DEF Has
  <2>3. Some("at", d)
    <3> HIDE DEF Has
    <3> QED
      BY <1>1, <1>2, <1>3, <2>1, <2>2, Appended
  <2>4. QED
    BY <2>1, <2>3 DEF RacesInv, OwnInv
<1>9. QED
  BY <1>1, <1>2, <1>3, <1>4, <1>5, <1>6, <1>7, <1>8, SubmitRaces

\* TimedOut: the timeout has cancelled the receive, whose completion is allocated.
LEMMA TimedOutRaces ==
  ASSUME BuffersInv, RacesInv, NEW t \in Threads, TimedOut(t)
  PROVE  RacesInv'
<1>1. /\ TypeOK /\ ThreadInv /\ pc[t] = "timeout" /\ answer[t] # None
      /\ answer[t].res = "ETIME" /\ None \notin Threads \cup Buffers \cup Addresses
  BY BuffersAssumption DEF BuffersInv, TimedOut, Waits
<1>2. /\ UNCHANGED <<token, chains, cq, allocated, lost, misread, late>>
      /\ pc' = [pc EXCEPT ![t] = "cancel"] /\ Submit(t, "cancel", token[t], None)
      /\ answer' = [answer EXCEPT ![t] = None]
  BY DEF TimedOut, Waits, kernelVars, Goto
<1>3. PICK s \in Sqes : /\ s.op = "cancel" /\ s.by = t /\ s.at = token[t]
                        /\ queue' = Append(queue, s)
  <2>1. [op |-> "cancel", by |-> t, at |-> token[t], bid |-> None] \in Sqes
    BY <1>1 DEF Sqes, Ops, TypeOK
  <2>2. QED
    BY <1>2, <2>1 DEF Submit
<1>4. mixed' = (IF OpenFor(t) = {} THEN mixed ELSE mixed \cup {t} \cup OpenFor(t))
  BY <1>2 DEF Submit
<1>5. ~ Some("by", t)
  BY <1>1, TurnFree
<1>6. /\ answer'[t] = None /\ pc'[t] = "cancel"
      /\ \A u \in Threads : u # t => pc'[u] = pc[u] /\ answer'[u] = answer[u]
  BY <1>1, <1>2 DEF TypeOK
<1>7. Clean(t) => OwnInv(t)'
  <2>1. SUFFICES ASSUME Clean(t), NEW d \in Addresses, allocated[d] = t, Some("at", d)'
                 PROVE  d = token[t]
    BY <1>2, <1>6 DEF OwnInv
  <2>2. ~ Has(s, "at", d)
    BY <1>3 DEF Has
  <2>3. Some("at", d)
    <3> HIDE DEF Has
    <3> QED
      BY <1>1, <1>2, <1>3, <2>1, <2>2, Appended
  <2>4. QED
    BY <2>1, <2>3 DEF RacesInv, OwnInv
<1>8. Clean(t) => Fired(t) /\ Holds(t)'
  <2>1. Told(answer[t])
    BY <1>1 DEF Told, ThreadInv
  <2>2. Fired(t)
    BY <1>1, <2>1 DEF Fired
  <2>3. Clean(t) => Holds(t)
    BY <2>2 DEF RacesInv, RingInv
  <2>4. QED
    BY <1>2, <2>2, <2>3 DEF Holds
<1>9. QED
  BY <1>1, <1>2, <1>3, <1>4, <1>5, <1>6, <1>7, <1>8, SubmitRaces

\* ProvideBuffer.
LEMMA ProvideBufferRaces ==
  ASSUME BuffersInv, RacesInv, NEW t \in Threads, ProvideBuffer(t)
  PROVE  RacesInv'
<1>1. /\ TypeOK /\ ThreadInv /\ pc[t] = "use"
      /\ None \notin Threads \cup Buffers \cup Addresses
  BY BuffersAssumption DEF BuffersInv, ProvideBuffer
<1>2. /\ UNCHANGED <<token, answer, chains, cq, allocated, lost, misread, late>>
      /\ pc' = [pc EXCEPT ![t] = "provide"] /\ Submit(t, "provide", None, buffer[t])
  BY DEF ProvideBuffer, kernelVars, Goto
<1>3. PICK s \in Sqes : s.op = "provide" /\ s.by = t /\ queue' = Append(queue, s)
  <2>1. [op |-> "provide", by |-> t, at |-> None, bid |-> buffer[t]] \in Sqes
    BY <1>1 DEF Sqes, Ops, TypeOK
  <2>2. QED
    BY <1>2, <2>1 DEF Submit
<1>4. mixed' = (IF OpenFor(t) = {} THEN mixed ELSE mixed \cup {t} \cup OpenFor(t))
  BY <1>2 DEF Submit
<1>5. ~ Some("by", t)
  BY <1>1, TurnFree
<1>6. answer[t] = None
  BY <1>1 DEF ThreadInv, TypeOK, Cqes, Ops
<1>7. pc'[t] = "provide" /\ \A u \in Threads : u # t => pc'[u] = pc[u]
  BY <1>1, <1>2 DEF TypeOK
<1>8. Clean(t) => OwnInv(t)'
  <2>1. SUFFICES ASSUME Clean(t), NEW d \in Addresses, allocated[d] = t, Some("at", d)'
                 PROVE  FALSE
    BY <1>2 DEF OwnInv
  <2>2. ~ Has(s, "at", d)
    BY <1>3 DEF Has
  <2>3. Some("at", d)
    <3> HIDE DEF Has
    <3> QED
      BY <1>1, <1>2, <1>3, <2>1, <2>2, Appended
  <2>4. QED
    BY <1>1, <2>1, <2>3 DEF RacesInv, OwnInv
<1>9. QED
  BY <1>1, <1>2, <1>3, <1>4, <1>5, <1>6, <1>7, <1>8, SubmitRaces

\* CancelReturns and UnexpectedTimeout: the receive has been answered without a buffer.
LEMMA RetryRaces ==
  ASSUME BuffersInv, RacesInv, NEW t \in Threads, CancelReturns(t) \/ UnexpectedTimeout(t)
  PROVE  RacesInv'
<1>1. /\ TypeOK /\ ThreadInv /\ answer[t] # None /\ answer' = [answer EXCEPT ![t] = None]
      /\ pc[t] = "cancel" \/ (pc[t] = "timeout" /\ answer[t].res \notin {"ETIME", "ECANCELED"})
  BY DEF BuffersInv, CancelReturns, UnexpectedTimeout, Waits
<1>2. /\ UNCHANGED <<queue, chains, cq, allocated, misread, late, mixed>>
      /\ pc' = [pc EXCEPT ![t] = "idle"] /\ token' = [token EXCEPT ![t] = None]
      /\ lost' = lost \cup Losing(t, value[t])
  BY DEF CancelReturns, UnexpectedTimeout, Retry, DropFuture, kernelVars, history, Goto
<1>3. Fired(t) /\ Ends(answer[t])
  BY <1>1 DEF Fired, Told, Ends, Odd, ThreadInv
<1>4. pc[t] # "link" /\ ~ Some("by", t)
  BY <1>1, TurnFree
<1>5. /\ answer'[t] = None /\ pc'[t] = "idle"
      /\ \A u \in Threads : u # t => /\ pc'[u] = pc[u] /\ token'[u] = token[u]
                                     /\ answer'[u] = answer[u]
  BY <1>1, <1>2 DEF TypeOK
<1>6. Clean(t) => \A a \in Addresses : ~ (allocated[a] = t /\ Some("at", a))
  <2>1. Clean(t) => \A i \in 1 .. Len(cq) : ~ OfRecv(cq[i], t)
    BY <1>1, <1>3 DEF RacesInv, RingInv
  <2>2. QED
    BY <1>4, <2>1, ReceiveInRing
<1>7. LostOnlyToRaces'
  <2>1. Clean(t) => Losing(t, value[t]) = {}
    <3>1. Clean(t) => Holds(t)
      BY <1>3 DEF RacesInv, RingInv
    <3>2. Clean(t) => value[t] = None
      BY <1>1, <3>1 DEF Holds, ThreadInv
    <3>3. QED
      BY <3>2 DEF Losing
  <2>2. \A l \in Losing(t, value[t]) : l.by = t
    BY DEF Losing
  <2>3. QED
    BY <1>2, <2>1, <2>2 DEF RacesInv, LostOnlyToRaces, Clean
<1>8. QED
  BY <1>2, <1>4, <1>5, <1>6, <1>7, QuietRaces

\* InTime: the receive keeps its future.
LEMMA InTimeRaces ==
  ASSUME BuffersInv, RacesInv, NEW t \in Threads, InTime(t)
  PROVE  RacesInv'
<1>1. /\ TypeOK /\ pc[t] = "timeout" /\ answer[t] # None
      /\ answer' = [answer EXCEPT ![t] = None]
  BY DEF BuffersInv, InTime, Waits
<1>2. /\ UNCHANGED <<token, queue, chains, cq, allocated, lost, misread, late, mixed>>
      /\ pc' = [pc EXCEPT ![t] = "get"]
  BY DEF InTime, kernelVars, history, Goto
<1>3. ~ Some("by", t)
  BY <1>1, TurnFree
<1>4. /\ answer'[t] = None /\ pc'[t] = "get"
      /\ \A u \in Threads : u # t => /\ pc'[u] = pc[u] /\ token'[u] = token[u]
                                     /\ answer'[u] = answer[u]
  BY <1>1, <1>2 DEF TypeOK
<1>5. Clean(t) => \A a \in Addresses : allocated[a] = t /\ Some("at", a) => a = token'[t]
  BY <1>2 DEF RacesInv, OwnInv
<1>6. LostOnlyToRaces'
  BY <1>2 DEF RacesInv, LostOnlyToRaces
<1>7. QED
  BY <1>1, <1>2, <1>3, <1>4, <1>5, <1>6, QuietRaces

\* GetReturns: the completion of the receive is deleted, and no other is on its way.
LEMMA GetReturnsRaces ==
  ASSUME BuffersInv, RacesInv, NEW t \in Threads, GetReturns(t)
  PROVE  RacesInv'
<1>1. /\ TypeOK /\ ThreadInv /\ pc[t] = "get" /\ value[t] # None
      /\ None \notin Threads \cup Buffers \cup Addresses
  BY BuffersAssumption DEF BuffersInv, GetReturns
<1>2. /\ UNCHANGED <<answer, queue, chains, cq, allocated, lost, misread, late, mixed>>
      /\ pc' = [pc EXCEPT ![t] = "use"] /\ token' = [token EXCEPT ![t] = None]
  BY DEF GetReturns, DropFuture, kernelVars, history, Goto
<1>3. ~ Some("by", t)
  BY <1>1, TurnFree
<1>4. answer[t] = None
  BY <1>1 DEF ThreadInv, TypeOK, Cqes, Ops
<1>5. /\ pc'[t] = "use"
      /\ \A u \in Threads : u # t => pc'[u] = pc[u] /\ token'[u] = token[u]
  BY <1>1, <1>2 DEF TypeOK
<1>6. Clean(t) => \A a \in Addresses : ~ (allocated[a] = t /\ Some("at", a))
  BY <1>1 DEF RacesInv, OwnInv, ThreadInv
<1>7. LostOnlyToRaces'
  BY <1>2 DEF RacesInv, LostOnlyToRaces
<1>8. QED
  BY <1>1, <1>2, <1>3, <1>4, <1>5, <1>6, <1>7, QuietRaces

\* ProvideReturns: the answer of a hand-back of its own chain keeps no buffer.
LEMMA ProvideReturnsRaces ==
  ASSUME BuffersInv, RacesInv, NEW t \in Threads, ProvideReturns(t)
  PROVE  RacesInv'
<1>1. /\ TypeOK /\ ThreadInv /\ pc[t] = "provide" /\ answer[t] # None
      /\ answer' = [answer EXCEPT ![t] = None]
  BY DEF BuffersInv, ProvideReturns, Waits
<1>2. /\ UNCHANGED <<token, queue, chains, cq, allocated, misread, late, mixed>>
      /\ pc' = [pc EXCEPT ![t] = "idle"] /\ lost' = lost \cup Losing(t, answer[t].bid)
  BY DEF ProvideReturns, kernelVars, history, Goto
<1>3. ~ Some("by", t)
  BY <1>1, TurnFree
<1>4. /\ answer'[t] = None /\ pc'[t] = "idle"
      /\ \A u \in Threads : u # t => pc'[u] = pc[u] /\ answer'[u] = answer[u]
  BY <1>1, <1>2 DEF TypeOK
<1>5. Clean(t) => \A a \in Addresses : ~ (allocated[a] = t /\ Some("at", a))
  BY <1>1 DEF RacesInv, OwnInv
<1>6. LostOnlyToRaces'
  <2>1. Clean(t) => answer[t].bid = None
    BY <1>1 DEF RacesInv, RingInv, Sound, Odd, ThreadInv
  <2>2. Clean(t) => Losing(t, answer[t].bid) = {}
    BY <2>1 DEF Losing
  <2>3. \A l \in Losing(t, answer[t].bid) : l.by = t
    BY DEF Losing
  <2>4. QED
    BY <1>2, <2>2, <2>3 DEF RacesInv, LostOnlyToRaces, Clean
<1>7. QED
  BY <1>1, <1>2, <1>3, <1>4, <1>5, <1>6, QuietRaces

-----------------------------------------------------------------------------
(* The theorems.                                                            *)

\* The initial state.
LEMMA RacesStart == Init => RacesInv
<1>1. SUFFICES ASSUME Init PROVE RacesInv
  OBVIOUS
<1>2. /\ queue = <<>> /\ cq = <<>> /\ Len(queue) = 0 /\ Len(cq) = 0 /\ chains = {} /\ lost = {}
      /\ \A t \in Threads : pc[t] = "idle" /\ answer[t] = None
  BY <1>1 DEF Init
<1>3. \A q, v : ~ Some(q, v)
  BY <1>2 DEF Some, InQueue, InChain, InRing
<1>4. QueueInv /\ ChainInv /\ LostOnlyToRaces
  BY <1>2 DEF QueueInv, ChainInv, LostOnlyToRaces
<1>5. ASSUME NEW t \in Threads PROVE OwnInv(t) /\ AimInv(t) /\ RingInv(t)
  BY <1>2, <1>3 DEF OwnInv, AimInv, RingInv, Fired
<1>6. QED
  BY <1>4, <1>5 DEF RacesInv

\* Every step keeps the invariant.
LEMMA RacesStep == BuffersInv /\ RacesInv /\ [Next]_vars => RacesInv'
<1>1. ASSUME BuffersInv, RacesInv, NEW t \in Threads, ThreadStep(t) PROVE RacesInv'
  BY <1>1, LinkTimeoutRaces, TimedOutRaces, RetryRaces, InTimeRaces, GetReturnsRaces,
     ProvideReturnsRaces DEF ThreadStep
<1>2. ASSUME BuffersInv, RacesInv, Worker PROVE RacesInv'
  BY <1>2, SubmitToKernelRaces, HandleCqeRaces DEF Worker
<1>3. ASSUME BuffersInv, RacesInv, Kernel PROVE RacesInv'
  BY <1>3, ReceivesRaces, ProvidesRaces, CancelsRaces DEF Kernel
<1>4. ASSUME RacesInv, UNCHANGED vars PROVE RacesInv'
  <2>1. /\ UNCHANGED <<pc, token, answer, queue, chains, cq, allocated, lost>>
        /\ UNCHANGED <<misread, late, mixed>>
    BY <1>4 DEF vars, threadVars, kernelVars, history
  <2>2. \A t : Clean(t)' <=> Clean(t)
    BY <2>1 DEF Clean
  <2>3. QueueInv' /\ ChainInv' /\ LostOnlyToRaces'
    BY <1>4, <2>1, <2>2 DEF RacesInv, QueueInv, ChainInv, LostOnlyToRaces, Paired
  <2>4. \A t \in Threads : OwnInv(t) => OwnInv(t)'
    BY <2>1 DEF OwnInv, Some, InQueue, InChain, InRing, Has
  <2>5. \A t \in Threads : AimInv(t) => AimInv(t)'
    BY <2>1 DEF AimInv, Aimed
  <2>6. \A t \in Threads : RingInv(t) => RingInv(t)'
    BY <2>1 DEF RingInv, Fired, Holds, OfRecv, Told, Ends, Odd, Sound
  <2>7. QED
    BY <1>4, <2>2, <2>3, <2>4, <2>5, <2>6 DEF RacesInv
<1>5. QED
  BY <1>1, <1>2, <1>3, <1>4, RecvRaces, ProvideBufferRaces DEF Next

\* RacesInv is an invariant of the receive loop: a thread in neither race keeps its receive and
\* its timeout side by side until the kernel answers them together; when the timeout says that
\* it has cancelled the receive, the completion is still allocated and Cancel names it.
THEOREM RacesInvariant == Safety => []RacesInv
<1>1. Init => RacesInv
  BY RacesStart
<1>2. BuffersInv /\ RacesInv /\ [Next]_vars => RacesInv'
  BY RacesStep
<1>3. QED
  BY <1>1, <1>2, BuffersInvariant, PTL DEF Safety

\* Dropping a future, or an answer nobody looks at, loses a buffer only to a thread whose
\* receive was answered after its timer, or whose chain another thread's request got into.
THEOREM BuffersLostOnlyToRaces == Safety => []LostOnlyToRaces
<1>1. RacesInv => LostOnlyToRaces
  BY DEF RacesInv
<1>2. QED
  BY <1>1, RacesInvariant, PTL

\* The linked timeout has no answer but -ETIME and -ECANCELED for ops::Recv, except in the two
\* races and for a timespec that is gone when the kernel reads it.
THEOREM TimeoutsAreExpected == Safety => []TimeoutAsExpected
<1>1. BuffersInv /\ RacesInv => TimeoutAsExpected
  <2>1. SUFFICES ASSUME BuffersInv, RacesInv, NEW t \in Threads, pc[t] = "timeout",
                        answer[t] # None, answer[t].res \notin {"ETIME", "ECANCELED"},
                        Clean(t)
                 PROVE  t \in misread
    BY DEF TimeoutAsExpected, Clean
  <2>2. answer[t].op = "timeout" /\ answer[t].by = t
    BY <2>1 DEF BuffersInv, ThreadInv
  <2>3. QED
    BY <2>1, <2>2 DEF RacesInv, RingInv, Sound, Odd
<1>2. QED
  BY <1>1, BuffersInvariant, RacesInvariant, PTL

\* The AsyncCancel of ops::Recv never names another thread's completion that was allocated at
\* the same address meanwhile, but in the two races.
THEOREM CancelNamesItsReceive == Safety => []CancelsItsOwn
<1>1. BuffersInv /\ RacesInv => CancelsItsOwn
  <2>1. ASSUME BuffersInv, RacesInv, NEW s \in Sqes, s.op = "cancel", Fits(s), Clean(s.by),
               Aimed(s, s.by)
        PROVE  allocated[s.at] = s.by
    <3>1. s.by \in Threads
      BY DEF Sqes
    <3>2. Fired(s.by)
      BY <2>1 DEF Fits, Fired
    <3>3. Holds(s.by)
      BY <2>1, <3>1, <3>2 DEF RacesInv, RingInv
    <3>4. QED
      BY <2>1, <3>3 DEF Aimed, Holds
  <2>2. ASSUME BuffersInv, RacesInv, NEW s \in Elements(queue) \cup InChains, Clean(s.by)
        PROVE  s \in Sqes /\ Fits(s) /\ Aimed(s, s.by)
    <3>1. TypeOK /\ CarrierInv
      BY <2>2 DEF BuffersInv
    <3>2. CASE s \in Elements(queue)
      <4>1. PICK i \in 1 .. Len(queue) : s = queue[i]
        BY <3>2 DEF Elements
      <4>2. s \in Sqes /\ Fits(s) /\ s.by \in Threads
        BY <3>1, <4>1, Sizes DEF CarrierInv, Sqes
      <4>3. QED
        BY <2>2, <4>1, <4>2 DEF RacesInv, AimInv
    <3>3. CASE s \in InChains
      <4>1. PICK c \in chains : \E i \in 1 .. Len(c) : s = c[i]
        BY <3>3 DEF InChains, Elements
      <4>2. PICK i \in 1 .. Len(c) : s = c[i]
        BY <4>1
      <4>3. s \in Sqes /\ Fits(s) /\ s.by \in Threads
        BY <3>1, <4>2, Sizes DEF CarrierInv, Sqes
      <4>4. QED
        BY <2>2, <4>2, <4>3 DEF RacesInv, AimInv
    <3>4. QED
      BY <2>2, <3>2, <3>3
  <2>3. QED
    BY <2>1, <2>2 DEF CancelsItsOwn, Clean
<1>2. QED
  BY <1>1, BuffersInvariant, RacesInvariant, PTL

-----------------------------------------------------------------------------
(* What a thread waits for is on its way.                                   *)

\* The receive of a CQE without a buffer is one of bare, if its thread still holds its future.
Explained(e, B) == e.op = "recv" /\ e.bid = None /\ token[e.by] = e.at => e.by \in B

BareInv == \A i \in 1 .. Len(cq) : Explained(cq[i], bare)

\* A thread waits for the answer to its request; it expects a value of its receive, unless
\* this was answered without a buffer.
Waiting(t)   == pc[t] \in {"timeout", "cancel", "provide"} /\ answer[t] = None
Expecting(t) == pc[t] \in {"link", "timeout", "cancel", "get"} /\ value[t] = None /\ t \notin bare

NobodyWaitsForNothing ==
  \A t \in Threads :
    /\ Waiting(t) => Some("by", t)
    /\ Expecting(t) => Holds(t) /\ Some("at", token[t])

WaitInv == BareInv /\ NobodyWaitsForNothing

\* The kernel answers: a receive without a buffer only if it notes its thread.
LEMMA KernelWaits ==
  ASSUME TypeOK, WaitInv, Steady, UNCHANGED <<threadVars, allocated>>, bare \subseteq bare',
         NEW es \in Seq(Cqes), cq' = cq \o es, \A k \in 1 .. Len(es) : Explained(es[k], bare')
  PROVE  WaitInv'
<1>1. UNCHANGED <<pc, token, value, answer>>
  BY DEF threadVars
<1>2. BareInv'
  <2>1. /\ \A i \in 1 .. Len(cq) : cq'[i] = cq[i]
        /\ \A k \in 1 .. Len(es) : cq'[Len(cq) + k] = es[k]
        /\ \A i \in 1 .. Len(cq') : i \in 1 .. Len(cq) \/ \E k \in 1 .. Len(es) : i = Len(cq) + k
    BY Posted
  <2>2. ASSUME NEW i \in 1 .. Len(cq') PROVE Explained(cq'[i], bare')
    <3>1. CASE i \in 1 .. Len(cq)
      BY <2>1, <3>1 DEF WaitInv, BareInv, Explained
    <3>2. CASE \E k \in 1 .. Len(es) : i = Len(cq) + k
      BY <2>1, <3>2
    <3>3. QED
      BY <2>1, <3>1, <3>2
  <2>3. QED
    BY <1>1, <2>2 DEF BareInv, Explained
<1>3. \A v : (Some("at", v)' <=> Some("at", v)) /\ (Some("by", v)' <=> Some("by", v))
  BY DEF Steady
<1>4. \A t \in Threads : /\ Waiting(t)' => Waiting(t)
                         /\ Expecting(t)' => Expecting(t)
                         /\ Holds(t) => Holds(t)'
  BY <1>1 DEF Waiting, Expecting, Holds
<1>5. NobodyWaitsForNothing'
  BY <1>1, <1>3, <1>4 DEF WaitInv, NobodyWaitsForNothing
<1>6. QED
  BY <1>2, <1>5 DEF WaitInv

\* The answer to a receive of c, when the threads of c are noted.
LEMMA BareExplains ==
  ASSUME NEW c, NEW i \in 1 .. Len(c), NEW e, e.op = c[i].op, e.by = c[i].by, e.at = c[i].at,
         NEW B, Bare(c) \subseteq B
  PROVE  Explained(e, B)
BY DEF Explained, Bare, Elements

\* Receives and RecvFails keep the invariant.
LEMMA AnsweredWaits ==
  ASSUME BuffersInv, WaitInv, Steady, UNCHANGED <<threadVars, allocated>>,
         NEW c \in chains, NEW r \in {"ok", "other"}, NEW b \in Buffers \cup {None},
         r = "ok" <=> b # None, RecvAnswered(c, r, b)
  PROVE  WaitInv'
<1>1. /\ c[1] \in Sqes /\ c[1].op = "recv" /\ Len(c) > 1 /\ Len(c) \in Nat /\ 1 \in 1 .. Len(c)
      /\ Guarded(c) => c[2] \in Sqes
      /\ TypeOK /\ r \in Results
  BY ChainFacts DEF RecvAnswered, Guarded, BuffersInv, Results
<1> DEFINE e == Answer(c[1], r, b)
<1>2. e \in Cqes /\ e.op = "recv" /\ e.by = c[1].by /\ e.at = c[1].at /\ e.bid = b
  BY <1>1 DEF Answer, Sqes, Cqes, Results
<1>3. bare \subseteq bare' /\ (r = "other" => Bare(c) \subseteq bare')
  BY DEF RecvAnswered
<1>4. Explained(e, bare')
  <2>1. CASE r = "ok"
    BY <1>2, <2>1 DEF Explained
  <2>2. CASE r = "other"
    BY <1>1, <1>2, <1>3, <2>2, BareExplains
  <2>3. QED
    BY <2>1, <2>2
<1>5. CASE Guarded(c)
  <2>1. PICK t \in {Disarmed, "ETIME", "other"} : Post(<<e, Answer(c[2], t, None)>>)
    BY <1>5 DEF RecvAnswered
  <2>2. PICK f \in Cqes : f = Answer(c[2], t, None) /\ f.op = "timeout"
    <3>1. Answer(c[2], t, None) \in Cqes /\ Answer(c[2], t, None).op = "timeout"
      BY <1>1, <1>5 DEF Answer, Sqes, Cqes, Results, Guarded, Disarmed
    <3>2. QED
      BY <3>1
  <2>3. PICK es \in Seq(Cqes) : cq' = cq \o es /\ \A k \in 1 .. Len(es) : es[k] \in {e, f}
    <3> HIDE DEF e
    <3>1. Post(<<e, f>>) /\ e \in Cqes
      BY <1>2, <2>1, <2>2
    <3>2. QED
      BY <3>1, PostedPair
  <2>4. Explained(f, bare')
    BY <2>2 DEF Explained
  <2>5. \A k \in 1 .. Len(es) : Explained(es[k], bare')
    <3>1. \A k \in 1 .. Len(es) : es[k] = e \/ es[k] = f
      BY <2>3
    <3>2. QED
      BY <1>4, <2>4, <3>1
  <2>6. QED
    BY <1>1, <1>3, <2>3, <2>5, KernelWaits
<1>6. CASE ~ Guarded(c) /\ r = "ok"
  <2>1. PICK es \in Seq(Cqes) : /\ cq' = cq \o es
                                /\ \A k \in 1 .. Len(es) : es[k] = e
    BY <1>2, <1>6, PostedOne DEF RecvAnswered
  <2>2. QED
    BY <1>1, <1>3, <1>4, <2>1, KernelWaits
<1>7. CASE ~ Guarded(c) /\ r = "other"
  <2>1. cq' = cq \o <<e>> \o Cancelled(Tail(c)) /\ b = None
    BY <1>7 DEF RecvAnswered
  <2>2. PICK es \in Seq(Cqes) : /\ cq' = cq \o es /\ Len(es) = Len(c)
                                /\ \A i \in 1 .. Len(c) : Gives(es[i], c[i], "none", None)
    BY <1>1, <2>1, PostedFailure
  <2>3. \A k \in 1 .. Len(es) : Explained(es[k], bare')
    BY <1>3, <1>7, <2>2, BareExplains DEF Gives
  <2>4. QED
    BY <1>1, <1>3, <2>2, <2>3, KernelWaits
<1>8. QED
  BY <1>5, <1>6, <1>7

\* The kernel keeps the invariant.
LEMMA KernelKeepsWaits ==
  ASSUME BuffersInv, WaitInv, Kernel
  PROVE  WaitInv'
<1>1. PICK c \in chains : Receives(c) \/ RecvFails(c) \/ Expire(c) \/ Provides(c) \/ Cancels(c)
  BY DEF Kernel
<1>2. Steady
  BY <1>1, ReceivesKeeps, RecvFailsKeeps, ExpireKeeps, ProvidesKeeps, CancelsKeeps
<1>3. UNCHANGED <<threadVars, allocated>> /\ TypeOK
  BY <1>1 DEF Receives, RecvFails, Expire, Provides, Cancels, BuffersInv
<1>4. CASE Receives(c)
  <2>1. PICK b \in group : RecvAnswered(c, "ok", b)
    BY <1>4 DEF Receives
  <2>2. b \in Buffers /\ b # None
    BY BuffersAssumption DEF BuffersInv, TypeOK
  <2>3. QED
    BY <1>2, <1>3, <2>1, <2>2, AnsweredWaits
<1>5. CASE RecvFails(c)
  <2>1. RecvAnswered(c, "other", None)
    BY <1>5 DEF RecvFails
  <2>2. QED
    BY <1>2, <1>3, <2>1, AnsweredWaits
<1>6. CASE Expire(c)
  <2>1. c[1] \in Sqes /\ c[2] \in Sqes /\ c[2].op = "timeout" /\ 1 \in 1 .. Len(c)
    <3>1. Len(c) = 2
      BY <1>6, ChainFacts DEF Expire
    <3>2. 1 \in 1 .. Len(c) /\ 2 \in 1 .. Len(c)
      BY <3>1
    <3>3. QED
      BY <1>6, <3>2, ChainFacts DEF Expire, Guarded
  <2>2. PICK e \in Cqes : /\ e = Answer(c[1], "ECANCELED", None)
                          /\ e.op = c[1].op /\ e.by = c[1].by /\ e.at = c[1].at
    <3> DEFINE a == Answer(c[1], "ECANCELED", None)
    <3>1. a \in Cqes /\ a.op = c[1].op /\ a.by = c[1].by /\ a.at = c[1].at
      BY <2>1 DEF Answer, Sqes, Cqes, Results
    <3>2. QED
      BY <3>1
  <2>3. PICK f \in Cqes : f = Answer(c[2], "ETIME", None) /\ f.op = "timeout"
    <3>1. Answer(c[2], "ETIME", None) \in Cqes /\ Answer(c[2], "ETIME", None).op = "timeout"
      BY <2>1 DEF Answer, Sqes, Cqes, Results
    <3>2. QED
      BY <3>1
  <2>4. Post(<<e, f>>) /\ bare' = bare \cup Bare(c)
    BY <1>6, <2>2, <2>3 DEF Expire
  <2>5. PICK es \in Seq(Cqes) : cq' = cq \o es /\ \A k \in 1 .. Len(es) : es[k] \in {e, f}
    BY <2>4, PostedPair
  <2>6. Explained(e, bare') /\ Explained(f, bare')
    <3>1. Explained(e, bare')
      BY <2>1, <2>2, <2>4, BareExplains
    <3>2. QED
      BY <2>3, <3>1 DEF Explained
  <2>7. \A k \in 1 .. Len(es) : Explained(es[k], bare')
    <3>1. \A k \in 1 .. Len(es) : es[k] = e \/ es[k] = f
      BY <2>5
    <3>2. QED
      BY <2>6, <3>1
  <2>8. QED
    BY <1>2, <1>3, <2>4, <2>5, <2>7, KernelWaits
<1>7. CASE Provides(c)
  <2>1. PICK e \in Cqes : e = Answer(c[1], "ok", None) /\ e.op = "provide"
    BY <1>7, ChainFacts DEF Provides, Answer, Sqes, Cqes, Results
  <2>2. Post(<<e>>) /\ bare' = bare
    BY <1>7, <2>1 DEF Provides, history
  <2>3. PICK es \in Seq(Cqes) : cq' = cq \o es /\ \A k \in 1 .. Len(es) : es[k] = e
    BY <2>2, PostedOne
  <2>4. \A k \in 1 .. Len(es) : Explained(es[k], bare')
    BY <2>1, <2>3 DEF Explained
  <2>5. QED
    BY <1>2, <1>3, <2>2, <2>3, <2>4, KernelWaits
<1>8. CASE Cancels(c) /\ Running(c[1].at) = {}
  <2>1. PICK e \in Cqes : e = Answer(c[1], "other", None) /\ e.op = "cancel"
    BY <1>8, ChainFacts DEF Cancels, Answer, Sqes, Cqes, Results
  <2>2. Post(<<e>>) /\ bare' = bare
    BY <1>8, <2>1 DEF Cancels
  <2>3. PICK es \in Seq(Cqes) : cq' = cq \o es /\ \A k \in 1 .. Len(es) : es[k] = e
    BY <2>2, PostedOne
  <2>4. \A k \in 1 .. Len(es) : Explained(es[k], bare')
    BY <2>1, <2>3 DEF Explained
  <2>5. QED
    BY <1>2, <1>3, <2>2, <2>3, <2>4, KernelWaits
<1>9. CASE Cancels(c) /\ Running(c[1].at) # {}
  <2>1. PICK e \in Cqes : e = Answer(c[1], "ok", None) /\ e.op = "cancel"
    BY <1>9, ChainFacts DEF Cancels, Answer, Sqes, Cqes, Results
  <2>2. PICK d \in chains : /\ cq' = cq \o Cancelled(d) \o <<e>>
                            /\ bare' = bare \cup Bare(d)
    BY <1>9, <2>1 DEF Cancels, Running
  <2>3. PICK es \in Seq(Cqes) :
          /\ cq' = cq \o es /\ Len(es) = Len(d) + 1 /\ es[Len(d) + 1] = e
          /\ \A i \in 1 .. Len(d) :
               /\ es[i].op = d[i].op /\ es[i].by = d[i].by /\ es[i].at = d[i].at
               /\ es[i].res = "ECANCELED"
    BY <2>2, PostedCancel
  <2>4. \A k \in 1 .. Len(es) : k \in 1 .. Len(d) \/ k = Len(d) + 1
    <3>1. Len(d) \in Nat
      BY ChainFacts
    <3>2. QED
      BY <2>3, <3>1
  <2>5. \A k \in 1 .. Len(d) : Explained(es[k], bare')
    BY <2>2, <2>3, BareExplains
  <2>6. \A k \in 1 .. Len(es) : Explained(es[k], bare')
    <3>1. Explained(e, bare')
      BY <2>1 DEF Explained
    <3>2. QED
      BY <2>3, <2>4, <2>5, <3>1
  <2>7. QED
    BY <1>2, <1>3, <2>2, <2>3, <2>6, KernelWaits
<1>10. QED
  BY <1>1, <1>4, <1>5, <1>6, <1>7, <1>8, <1>9

\* A chain enters the kernel, which starts it or refuses it.
LEMMA SubmitToKernelWaits ==
  ASSUME BuffersInv, WaitInv, SubmitToKernel
  PROVE  WaitInv'
<1>1. Steady /\ TypeOK
  BY SubmitToKernelKeeps DEF BuffersInv
<1>2. PICK n \in 1 .. Len(queue) :
        LET c == SubSeq(queue, 1, n) IN
        /\ \/ UNCHANGED <<cq, bare>>
           \/ cq' = cq \o Refused(c) /\ bare' = bare \cup Bare(c)
        /\ UNCHANGED <<threadVars, allocated>>
  BY DEF SubmitToKernel
<1>3. PICK c \in Seq(Sqes) : c = SubSeq(queue, 1, n)
  BY <1>1, Sizes, Divided
<1>4. CASE UNCHANGED <<cq, bare>>
  <2>1. PICK es \in Seq(Cqes) : cq' = cq \o es /\ Len(es) = 0
    <3>1. <<>> \in Seq(Cqes) /\ cq' = cq \o <<>> /\ Len(<<>>) = 0
      BY <1>1, <1>4, Sizes
    <3>2. QED
      BY <3>1
  <2>2. bare \subseteq bare' /\ \A k \in 1 .. Len(es) : Explained(es[k], bare')
    BY <1>4, <2>1
  <2>3. QED
    BY <1>1, <1>2, <2>1, <2>2, KernelWaits
<1>5. CASE cq' = cq \o Refused(c) /\ bare' = bare \cup Bare(c)
  <2>1. \A k \in 1 .. Len(c) : c[k] \in Sqes
    BY <1>3
  <2>2. PICK es \in Seq(Cqes) : es = Refused(c) /\ Len(es) = Len(c)
    <3>1. \A k \in 1 .. Len(c) :
            Answer(c[k], IF k = Len(c) THEN "other" ELSE "ECANCELED", c[k].bid) \in Cqes
      BY <2>1 DEF Answer, Sqes, Cqes, Results
    <3>2. Refused(c) \in Seq(Cqes) /\ Len(Refused(c)) = Len(c)
      BY <1>3, <3>1 DEF Refused
    <3>3. QED
      BY <3>2
  <2>3. \A k \in 1 .. Len(c) : es[k].op = c[k].op /\ es[k].by = c[k].by /\ es[k].at = c[k].at
    BY <2>2, RefusedAnswers
  <2>4. Bare(c) \subseteq bare' /\ bare \subseteq bare'
    BY <1>5
  <2>5. \A k \in 1 .. Len(c) : Explained(es[k], bare')
    BY <2>3, <2>4, BareExplains
  <2>6. QED
    BY <1>1, <1>2, <1>5, <2>2, <2>4, <2>5, KernelWaits
<1>6. QED
  BY <1>2, <1>3, <1>4, <1>5

\* HandleCqe: an answer without a buffer comes only to a thread noted in bare, and any other
\* reaches the future of the thread that waits for it.
LEMMA HandleCqeWaits ==
  ASSUME BuffersInv, WaitInv, HandleCqe
  PROVE  WaitInv'
<1>1. TypeOK /\ None \notin Threads \cup Buffers \cup Addresses /\ None \notin Cqes
  BY BuffersAssumption, AnswersAssumption DEF BuffersInv
<1>2. /\ cq # <<>> /\ cq' = Tail(cq)
      /\ UNCHANGED <<pc, token, queue, chains, bare>>
  BY DEF HandleCqe, history
<1>3. /\ Len(cq) \in Nat \ {0} /\ Len(cq') = Len(cq) - 1 /\ Head(cq) = cq[1]
      /\ \A i \in 1 .. (Len(cq) - 1) : cq'[i] = cq[i + 1]
  BY <1>1, <1>2, Sizes, Behead
<1>4. PICK c : c = Head(cq) /\ c = cq[1] /\ 1 \in 1 .. Len(cq)
  <2>1. 1 \in 1 .. Len(cq)
    BY <1>3
  <2>2. QED
    BY <1>3, <2>1
<1>5. /\ c \in Cqes /\ Fits(c)
      /\ \A q, v : ~ Has(c, q, v) => (Some(q, v)' <=> Some(q, v))
  BY <1>4, HeadGone
<1>6. BareInv'
  <2>1. ASSUME NEW i \in 1 .. Len(cq') PROVE Explained(cq'[i], bare')
    <3>1. cq'[i] = cq[i + 1] /\ i + 1 \in 1 .. Len(cq)
      BY <1>3
    <3>2. QED
      BY <1>2, <3>1 DEF WaitInv, BareInv, Explained
  <2>2. QED
    BY <1>2, <2>1 DEF BareInv, Explained
<1>7. c.op = "recv" => c.at \in Addresses /\ c.by \in Threads /\ allocated[c.at] = c.by
  BY <1>5 DEF Fits, Cqes
<1>8. \/ /\ c.op = "recv" /\ c.bid # None /\ UNCHANGED answer
         /\ allocated' = [allocated EXCEPT ![c.at] = None]
         /\ IF token[c.by] = c.at THEN value' = [value EXCEPT ![c.by] = c.bid]
                                  ELSE UNCHANGED value
      \/ c.op = "recv" /\ c.bid = None /\ UNCHANGED <<answer, value, allocated>>
      \/ /\ c.op # "recv" /\ UNCHANGED <<value, allocated>>
         /\ answer' = [answer EXCEPT ![c.by] = c]
  BY <1>4, <1>7 DEF HandleCqe, CompleteWith, Deliver, Delete
<1>9. ASSUME NEW t \in Threads, Waiting(t)' PROVE Some("by", t)'
  <2>1. answer[t] = None /\ ~ (c.op # "recv" /\ c.by = t)
    BY <1>1, <1>5, <1>8, <1>9 DEF Waiting, TypeOK
  <2>2. Some("by", t) /\ ~ Has(c, "by", t)
    BY <1>2, <1>9, <2>1 DEF Waiting, WaitInv, NobodyWaitsForNothing, Has
  <2>3. QED
    BY <1>5, <2>2
<1>10. ASSUME NEW t \in Threads, Expecting(t)' PROVE Holds(t)' /\ Some("at", token[t])'
  <2>1. value[t] = None /\ ~ (c.op = "recv" /\ c.bid # None /\ token[c.by] = c.at /\ c.by = t)
    BY <1>1, <1>7, <1>8, <1>10 DEF Expecting, TypeOK
  <2>2. Holds(t) /\ Some("at", token[t]) /\ t \notin bare
    BY <1>2, <1>10, <2>1 DEF Expecting, WaitInv, NobodyWaitsForNothing
  <2>3. ~ (c.op = "recv" /\ c.at = token[t])
    <3>1. ASSUME c.op = "recv", c.at = token[t] PROVE FALSE
      <4>1. c.by = t
        BY <1>7, <2>2, <3>1 DEF Holds
      <4>2. c.bid = None
        BY <2>1, <3>1, <4>1
      <4>3. t \in bare
        BY <1>4, <3>1, <4>1, <4>2 DEF WaitInv, BareInv, Explained
      <4>4. QED
        BY <2>2, <4>3
    <3>2. QED
      BY <3>1
  <2>4. ~ Has(c, "at", token[t])
    BY <2>3 DEF Has
  <2>5. Holds(t)'
    BY <1>1, <1>2, <1>7, <1>8, <2>2, <2>3 DEF Holds, TypeOK
  <2>6. QED
    BY <1>2, <1>5, <2>2, <2>4, <2>5
<1>11. QED
  BY <1>6, <1>9, <1>10 DEF WaitInv, NobodyWaitsForNothing

\* A request that enters the queue carries what it has, and takes nothing away.
LEMMA SubmitCarries ==
  ASSUME TypeOK, NEW s \in Sqes, queue' = Append(queue, s), UNCHANGED <<chains, cq>>,
         NEW q, NEW v, Some(q, v) \/ Has(s, q, v)
  PROVE  Some(q, v)'
<1>1. /\ Len(queue) + 1 \in 1 .. Len(queue') /\ queue'[Len(queue) + 1] = s
      /\ \A i \in 1 .. Len(queue) : queue'[i] = queue[i] /\ i \in 1 .. Len(queue')
  BY DEF TypeOK
<1> HIDE DEF Has
<1>2. InQueue(q, v) \/ Has(s, q, v) => InQueue(q, v)'
  BY <1>1 DEF InQueue
<1>3. QED
  BY <1>2 DEF Some, InChain, InRing

\* Thread t takes a step, and the others wait as before.
LEMMA ThreadWaits ==
  ASSUME BuffersInv, WaitInv, NEW t \in Threads, cq' = cq, bare \ {t} \subseteq bare',
         \A u \in Threads : u # t => /\ pc'[u] = pc[u] /\ token'[u] = token[u]
                                     /\ value'[u] = value[u] /\ answer'[u] = answer[u],
         \A a \in Addresses : \/ allocated'[a] = allocated[a]
                              \/ allocated[a] = None /\ allocated'[a] = t,
         \A q, v : Some(q, v) => Some(q, v)',
         \A i \in 1 .. Len(cq) : OfRecv(cq[i], t) /\ cq[i].at = token'[t] =>
           token'[t] = token[t] /\ UNCHANGED bare,
         Waiting(t)' => Some("by", t)',
         Expecting(t)' => Holds(t)' /\ Some("at", token[t])'
  PROVE  WaitInv'
<1>1. None \notin Threads
  BY BuffersAssumption
<1>2. \A i \in 1 .. Len(cq) : cq[i].by \in Threads
  BY Sizes DEF BuffersInv, Cqes
<1>3. BareInv'
  <2>1. ASSUME NEW i \in 1 .. Len(cq) PROVE Explained(cq[i], bare)'
    <3>1. Explained(cq[i], bare)
      BY <2>1 DEF WaitInv, BareInv
    <3>2. CASE cq[i].by = t
      BY <3>1, <3>2 DEF Explained, OfRecv
    <3>3. CASE cq[i].by # t
      BY <1>2, <3>1, <3>3 DEF Explained
    <3>4. QED
      BY <3>2, <3>3
  <2>2. QED
    BY <2>1 DEF BareInv, Explained
<1>4. ASSUME NEW u \in Threads, u # t
      PROVE  /\ Waiting(u)' => Some("by", u)'
             /\ Expecting(u)' => Holds(u)' /\ Some("at", token[u])'
  <2>1. pc'[u] = pc[u] /\ token'[u] = token[u] /\ value'[u] = value[u] /\ answer'[u] = answer[u]
    BY <1>4
  <2>2. Waiting(u)' => Some("by", u)'
    BY <2>1 DEF Waiting, WaitInv, NobodyWaitsForNothing
  <2>3. Expecting(u)' => Holds(u) /\ Some("at", token[u])
    BY <1>4, <2>1 DEF Expecting, WaitInv, NobodyWaitsForNothing
  <2>4. Holds(u) => Holds(u)'
    BY <1>1, <2>1 DEF Holds
  <2>5. Some("at", token[u]) => Some("at", token[u])'
    <3>1. PICK a : a = token[u]
      OBVIOUS
    <3>2. Some("at", a) => Some("at", a)'
      OBVIOUS
    <3>3. QED
      BY <2>1, <3>1, <3>2
  <2>6. QED
    BY <2>2, <2>3, <2>4, <2>5
<1>5. QED
  BY <1>3, <1>4 DEF WaitInv, NobodyWaitsForNothing

\* Recv: the new completion is at an address that no answer names.
LEMMA RecvWaits ==
  ASSUME BuffersInv, WaitInv, NEW t \in Threads, Recv(t)
  PROVE  WaitInv'
<1>1. TypeOK /\ CarrierInv /\ None \notin Threads
  BY BuffersAssumption DEF BuffersInv
<1>2. PICK a \in Addresses :
        /\ allocated[a] = None /\ allocated' = [allocated EXCEPT ![a] = t]
        /\ token' = [token EXCEPT ![t] = a] /\ Submit(t, "recv", a, None)
  BY DEF Recv, Free
<1>3. /\ UNCHANGED <<value, answer, chains, cq>> /\ pc' = [pc EXCEPT ![t] = "link"]
      /\ bare' = bare \ {t}
  BY DEF Recv, kernelVars, Goto
<1>4. PICK s \in Sqes : s.op = "recv" /\ s.at = a /\ queue' = Append(queue, s)
  <2>1. [op |-> "recv", by |-> t, at |-> a, bid |-> None] \in Sqes
    BY DEF Sqes, Ops
  <2>2. QED
    BY <1>2, <2>1 DEF Submit
<1>5. Has(s, "at", a)
  BY <1>4 DEF Has
<1>6. (\A q, v : Some(q, v) => Some(q, v)') /\ Some("at", a)'
  <2> HIDE DEF Has
  <2> QED
    BY <1>1, <1>3, <1>4, <1>5, SubmitCarries
<1>7. /\ token'[t] = a /\ pc'[t] = "link" /\ allocated'[a] = t
      /\ \A d \in Addresses : \/ allocated'[d] = allocated[d]
                              \/ allocated[d] = None /\ allocated'[d] = t
      /\ \A u \in Threads : u # t => /\ pc'[u] = pc[u] /\ token'[u] = token[u]
                                     /\ value'[u] = value[u] /\ answer'[u] = answer[u]
  BY <1>1, <1>2, <1>3 DEF TypeOK
<1>8. \A i \in 1 .. Len(cq) : OfRecv(cq[i], t) => cq[i].at # a
  BY <1>1, <1>2 DEF OfRecv, CarrierInv, Fits
<1>9. ~ Waiting(t)' /\ Holds(t)' /\ Some("at", token[t])' /\ bare \ {t} \subseteq bare' /\ cq' = cq
  BY <1>3, <1>6, <1>7 DEF Waiting, Holds
<1>10. QED
  BY <1>6, <1>7, <1>8, <1>9, ThreadWaits

\* Any other request carries the turn of its thread.
LEMMA TurnWaits ==
  ASSUME BuffersInv, WaitInv, NEW t \in Threads, NEW s \in Sqes, s.op # "recv", s.by = t,
         queue' = Append(queue, s), UNCHANGED <<token, value, chains, cq, allocated, bare>>,
         \A u \in Threads : u # t => pc'[u] = pc[u] /\ answer'[u] = answer[u],
         pc'[t] = "provide" \/ pc[t] \in {"link", "timeout"}
  PROVE  WaitInv'
<1>1. Has(s, "by", t)
  BY DEF Has
<1>2. (\A q, v : Some(q, v) => Some(q, v)') /\ Some("by", t)'
  <2> HIDE DEF Has
  <2> QED
    BY <1>1, SubmitCarries DEF BuffersInv
<1>3. Expecting(t)' => Holds(t)' /\ Some("at", token[t])'
  <2>1. Expecting(t)' => Expecting(t)
    BY DEF Expecting
  <2>2. Expecting(t) => Holds(t) /\ Some("at", token[t])
    BY DEF WaitInv, NobodyWaitsForNothing
  <2>3. Holds(t) => Holds(t)'
    BY DEF Holds
  <2>4. QED
    BY <1>2, <2>1, <2>2, <2>3
<1>4. QED
  BY <1>2, <1>3, ThreadWaits

\* A thread that goes on waits for its receive, or for nothing.
LEMMA QuietWaits ==
  ASSUME BuffersInv, WaitInv, NEW t \in Threads,
         UNCHANGED <<queue, chains, cq, allocated, bare>>,
         \A u \in Threads : u # t => /\ pc'[u] = pc[u] /\ token'[u] = token[u]
                                     /\ value'[u] = value[u] /\ answer'[u] = answer[u],
         token'[t] \in {token[t], None},
         \/ pc'[t] \in {"idle", "use"}
         \/ pc[t] = "timeout" /\ pc'[t] = "get" /\ token'[t] = token[t] /\ value'[t] = value[t]
  PROVE  WaitInv'
<1>1. \A q, v : Some(q, v) => Some(q, v)'
  <2> HIDE DEF Has
  <2> QED
    BY DEF Some, InQueue, InChain, InRing
<1>2. ~ Waiting(t)'
  BY DEF Waiting
<1>3. Expecting(t)' => Holds(t)' /\ Some("at", token[t])'
  <2>1. Expecting(t)' => Expecting(t) /\ token'[t] = token[t]
    BY DEF Expecting
  <2>2. Expecting(t) => Holds(t) /\ Some("at", token[t])
    BY DEF WaitInv, NobodyWaitsForNothing
  <2>3. Holds(t) /\ token'[t] = token[t] => Holds(t)'
    BY DEF Holds
  <2>4. QED
    BY <1>1, <2>1, <2>2, <2>3
<1>4. \A i \in 1 .. Len(cq) : OfRecv(cq[i], t) /\ cq[i].at = token'[t] => token'[t] = token[t]
  BY BuffersAssumption DEF BuffersInv, CarrierInv, Fits, OfRecv
<1>5. QED
  BY <1>1, <1>2, <1>3, <1>4, ThreadWaits

\* LinkTimeout, TimedOut and ProvideBuffer.
LEMMA RequestWaits ==
  ASSUME BuffersInv, WaitInv, NEW t \in Threads, LinkTimeout(t) \/ TimedOut(t) \/ ProvideBuffer(t)
  PROVE  WaitInv'
<1>1. TypeOK
  BY DEF BuffersInv
<1>2. \E op \in {"timeout", "cancel", "provide"} :
        \E a \in Addresses \cup {None}, b \in Buffers \cup {None} : Submit(t, op, a, b)
  BY <1>1 DEF LinkTimeout, TimedOut, ProvideBuffer, TypeOK
<1>3. PICK s \in Sqes : s.op # "recv" /\ s.by = t /\ queue' = Append(queue, s)
  <2>1. PICK op \in {"timeout", "cancel", "provide"} :
          \E a \in Addresses \cup {None}, b \in Buffers \cup {None} : Submit(t, op, a, b)
    BY <1>2
  <2>2. PICK a \in Addresses \cup {None} : \E b \in Buffers \cup {None} : Submit(t, op, a, b)
    BY <2>1
  <2>3. PICK b \in Buffers \cup {None} : Submit(t, op, a, b)
    BY <2>2
  <2>4. [op |-> op, by |-> t, at |-> a, bid |-> b] \in Sqes
    BY DEF Sqes, Ops
  <2>5. QED
    BY <2>3, <2>4 DEF Submit
<1>4. /\ UNCHANGED <<token, value, chains, cq, allocated, bare>>
      /\ \A u \in Threads : u # t => pc'[u] = pc[u] /\ answer'[u] = answer[u]
      /\ pc'[t] = "provide" \/ pc[t] \in {"link", "timeout"}
  BY <1>1 DEF LinkTimeout, TimedOut, ProvideBuffer, Waits, Goto, kernelVars, TypeOK
<1>5. QED
  BY <1>3, <1>4, TurnWaits

\* The steps of a thread that make no request.
LEMMA GoesOnWaits ==
  ASSUME BuffersInv, WaitInv, NEW t \in Threads,
         \/ CancelReturns(t) \/ UnexpectedTimeout(t) \/ InTime(t)
         \/ GetReturns(t) \/ ProvideReturns(t)
  PROVE  WaitInv'
<1>1. TypeOK
  BY DEF BuffersInv
<1>2. UNCHANGED <<queue, chains, cq, allocated, bare>>
  BY DEF CancelReturns, UnexpectedTimeout, Retry, InTime, GetReturns, ProvideReturns, kernelVars,
         history
<1>3. \A u \in Threads : u # t => /\ pc'[u] = pc[u] /\ token'[u] = token[u]
                                  /\ value'[u] = value[u] /\ answer'[u] = answer[u]
  BY <1>1 DEF CancelReturns, UnexpectedTimeout, Retry, InTime, GetReturns, ProvideReturns, Waits,
              Goto, DropFuture, TypeOK
<1>4. /\ token'[t] \in {token[t], None}
      /\ \/ pc'[t] \in {"idle", "use"}
         \/ pc[t] = "timeout" /\ pc'[t] = "get" /\ token'[t] = token[t] /\ value'[t] = value[t]
  BY <1>1 DEF CancelReturns, UnexpectedTimeout, Retry, InTime, GetReturns, ProvideReturns, Waits,
              Goto, DropFuture, TypeOK
<1>5. QED
  BY <1>2, <1>3, <1>4, QuietWaits

\* Every step keeps the invariant.
LEMMA WaitStep == BuffersInv /\ WaitInv /\ [Next]_vars => WaitInv'
<1>1. ASSUME BuffersInv, WaitInv, NEW t \in Threads, ThreadStep(t) PROVE WaitInv'
  BY <1>1, RequestWaits, GoesOnWaits DEF ThreadStep
<1>2. ASSUME BuffersInv, WaitInv, Worker PROVE WaitInv'
  BY <1>2, SubmitToKernelWaits, HandleCqeWaits DEF Worker
<1>3. ASSUME WaitInv, UNCHANGED vars PROVE WaitInv'
  <2>1. /\ UNCHANGED <<pc, token, value, answer, queue, chains, cq, allocated, bare>>
    BY <1>3 DEF vars, threadVars, kernelVars, history
  <2>2. \A q, v : Some(q, v)' <=> Some(q, v)
    <3> HIDE DEF Has
    <3> QED
      BY <2>1 DEF Some, InQueue, InChain, InRing
  <2>3. BareInv'
    BY <1>3, <2>1 DEF WaitInv, BareInv, Explained
  <2>4. \A t \in Threads : /\ Waiting(t)' => Waiting(t)
                           /\ Expecting(t)' => Expecting(t)
                           /\ Holds(t) => Holds(t)'
    BY <2>1 DEF Waiting, Expecting, Holds
  <2>5. NobodyWaitsForNothing'
    BY <1>3, <2>1, <2>2, <2>4 DEF WaitInv, NobodyWaitsForNothing
  <2>6. QED
    BY <2>3, <2>5 DEF WaitInv
<1>4. QED
  BY <1>1, <1>2, <1>3, RecvWaits, RequestWaits, KernelKeepsWaits DEF Next

\* No future waits for an answer that nobody will give: the request a thread waits for is in the
\* queue, the kernel or the ring until the thread has its answer, and so is its receive, whose
\* completion stays allocated, unless the kernel answered it without a buffer.  That one
\* HandleCqe drops, and a thread that waits for it waits for ever.
THEOREM AnswersCome == Safety => []NobodyWaitsForNothing
<1>1. Init => WaitInv
  <2>1. ASSUME Init PROVE Len(cq) = 0 /\ \A t \in Threads : pc[t] = "idle"
    BY <2>1 DEF Init
  <2>2. QED
    BY <2>1 DEF WaitInv, BareInv, NobodyWaitsForNothing, Waiting, Expecting
<1>2. BuffersInv /\ WaitInv /\ [Next]_vars => WaitInv'
  BY WaitStep
<1>3. WaitInv => NobodyWaitsForNothing
  BY DEF WaitInv
<1>4. QED
  BY <1>1, <1>2, <1>3, BuffersInvariant, PTL DEF Safety
=============================================================================
