-------------------------- MODULE DirectRingProofs --------------------------
(***************************************************************************)
(* Theorems about DirectRing, for every number of threads and requests,    *)
(* every ring size and batch limit, and every kind of kernel.              *)
(*                                                                         *)
(* The core is OnePlace: a request that was submitted is in one place of   *)
(* five, and one that was not is in none.  It makes the SQEs a submit      *)
(* consumes new to the kernel, which the count of pending CQEs relies on.  *)
(***************************************************************************)
EXTENDS DirectRing, FiniteSetTheorems, TLAPS

\* The five places.
Handed(r)  == r = hand
Queued(r)  == \E i \in 1 .. Len(sq) : sq[i] = r
Running(r) == r \in in_kernel
Due(r)     == \E i \in (seen + 1) .. Len(cq) : cq[i] = r
Done(r)    == r \in resolved

Somewhere(r) == Handed(r) \/ Queued(r) \/ Running(r) \/ Due(r) \/ Done(r)

\* No two of the places.
Apart(r) ==
  /\ Handed(r)  => ~ (Queued(r) \/ Running(r) \/ Due(r) \/ Done(r))
  /\ Queued(r)  => ~ (Running(r) \/ Due(r) \/ Done(r))
  /\ Running(r) => ~ (Due(r) \/ Done(r))
  /\ Due(r)     => ~ Done(r)

OnePlace == \A r \in Requests : Apart(r) /\ (r \in Accepted <=> Somewhere(r))

\* No request has two SQEs or two CQEs; the CQEs handled have resolved their requests.
Distinct ==
  /\ \A i, j \in 1 .. Len(sq) : sq[i] = sq[j] => i = j
  /\ \A i, j \in 1 .. Len(cq) : cq[i] = cq[j] => i = j
  /\ \A i \in 1 .. seen : cq[i] \in resolved

\* Where the holder of mutex_ is, and what it has in its hands.
ControlInv ==
  /\ step \in {"get_sqe", "prepare", "fail"} => hand # None
  /\ step = "outside" => hand = None
  /\ step # "handle" => batch = 0
  /\ taken = IF hand = None \/ step = "fail" THEN Len(accepted) ELSE Len(accepted) - 1

\* Only the newest SQE may be blank, and only while it is being prepared.
BlankInv ==
  /\ step = "prepare" => Len(sq) > 0 /\ sq[Len(sq)] = Blank
  /\ \A i \in 1 .. Len(sq) : sq[i] = Blank => step = "prepare" /\ i = Len(sq)

\* PendingCountSound speaks of a cardinality.
CountInv == IsFiniteSet(in_kernel) /\ PendingCountSound

DirectInv == TypeOK /\ ControlInv /\ BlankInv /\ OnePlace /\ Distinct /\ CountInv

\* What nobody signals is in the batch, or is about to be fetched.
SignalInv ==
  event_fd \/ unsignalled \/ Len(cq) = batch \/ (step = "process" /\ hand = None)

-----------------------------------------------------------------------------
(* Facts about sequences and sets.                                          *)

\* What is left of a sequence behind its first k elements.
LEMMA DropSome ==
  ASSUME NEW S, NEW s \in Seq(S), NEW k \in 0 .. Len(s)
  PROVE  /\ SubSeq(s, k + 1, Len(s)) \in Seq(S)
         /\ Len(SubSeq(s, k + 1, Len(s))) = Len(s) - k
         /\ \A i \in 1 .. (Len(s) - k) : SubSeq(s, k + 1, Len(s))[i] = s[k + i]
OBVIOUS

\* The first k elements of a sequence without repetitions are k.
LEMMA FirstCount ==
  ASSUME NEW S, NEW s \in Seq(S), NEW k \in 0 .. Len(s),
         \A i, j \in 1 .. Len(s) : s[i] = s[j] => i = j,
         NEW T, \A t : t \in T <=> \E i \in 1 .. k : s[i] = t
  PROVE  IsFiniteSet(T) /\ Cardinality(T) = k
<1> DEFINE f == [i \in 1 .. k |-> s[i]]
<1>1. f \in Bijection(1 .. k, T)
  <2>1. f \in [1 .. k -> T]
    OBVIOUS
  <2>2. \A i, j \in 1 .. k : f[i] = f[j] => i = j
    OBVIOUS
  <2>3. \A t \in T : \E i \in 1 .. k : f[i] = t
    OBVIOUS
  <2>4. QED
    BY <2>1, <2>2, <2>3 DEF Bijection, Injection, Surjection, IsInjective
<1>2. IsFiniteSet(1 .. k) /\ Cardinality(1 .. k) = k
  BY FS_Interval
<1>3. ExistsBijection(1 .. k, T)
  BY <1>1 DEF ExistsBijection
<1>4. QED
  BY <1>2, <1>3, FS_Bijection

\* The cardinality of a union of disjoint finite sets.
LEMMA DisjointUnion ==
  ASSUME NEW S, NEW T, IsFiniteSet(S), IsFiniteSet(T), S \cap T = {}
  PROVE  IsFiniteSet(S \cup T) /\ Cardinality(S \cup T) = Cardinality(S) + Cardinality(T)
<1>1. Cardinality(S \cap T) = 0
  BY FS_EmptySet
<1>2. QED
  BY <1>1, FS_Union, FS_CardinalityType

\* A sequence with one more element.
LEMMA AppendOne ==
  ASSUME NEW S, NEW s \in Seq(S), NEW e \in S
  PROVE  /\ Append(s, e) \in Seq(S)
         /\ Len(Append(s, e)) = Len(s) + 1
         /\ \A i \in 1 .. Len(s) : Append(s, e)[i] = s[i]
         /\ Append(s, e)[Len(s) + 1] = e
OBVIOUS

\* A sequence whose last element is another one.
LEMMA ReplaceLast ==
  ASSUME NEW S, NEW s \in Seq(S), NEW e \in S, Len(s) > 0
  PROVE  /\ [s EXCEPT ![Len(s)] = e] \in Seq(S)
         /\ Len([s EXCEPT ![Len(s)] = e]) = Len(s)
         /\ \A i \in 1 .. Len(s) : [s EXCEPT ![Len(s)] = e][i] =
                                   IF i = Len(s) THEN e ELSE s[i]
OBVIOUS

-----------------------------------------------------------------------------
(* Types, control, and the blank SQE.                                       *)

ShapeInv == TypeOK /\ ControlInv /\ BlankInv

\* A submit leaves the shape alone, when no SQE is being prepared.
LEMMA SubmitShape ==
  ASSUME ShapeInv, SubmitToKernel, step # "prepare"
  PROVE  /\ sq' \in Seq(Requests \cup {Blank}) /\ Len(sq') <= SqSize
         /\ in_kernel' \subseteq Requests
         /\ pending' \in Int
         /\ \A i \in 1 .. Len(sq') : sq'[i] # Blank
         /\ UNCHANGED <<cq, unsignalled, event_fd>>
<1> USE DirectAssumption
<1>0. \A i \in 1 .. Len(sq) : sq[i] # Blank
  BY DEF ShapeInv, BlankInv
<1>1. CASE SubmitBusy
  BY <1>0, <1>1 DEF SubmitBusy, ringVars, ShapeInv, TypeOK
<1>2. ASSUME NEW n \in 0 .. Len(sq), SubmitConsumed(n)
      PROVE  /\ sq' \in Seq(Requests \cup {Blank}) /\ Len(sq') <= SqSize
             /\ in_kernel' \subseteq Requests
             /\ pending' \in Int
             /\ \A i \in 1 .. Len(sq') : sq'[i] # Blank
             /\ UNCHANGED <<cq, unsignalled, event_fd>>
  <2>1. sq' = SubSeq(sq, n + 1, Len(sq)) /\ sq \in Seq(Requests \cup {Blank})
    BY <1>2 DEF SubmitConsumed, ShapeInv, TypeOK
  <2>2. /\ sq' \in Seq(Requests \cup {Blank})
        /\ Len(sq') = Len(sq) - n
        /\ \A i \in 1 .. Len(sq') : sq'[i] = sq[n + i]
    BY <2>1, DropSome
  <2>3. Len(sq) \in Nat /\ Len(sq) <= SqSize
    BY <2>1 DEF ShapeInv, TypeOK
  <2>4. First(n) \subseteq Requests
    BY <1>0, <2>1, <2>3 DEF First
  <2>5. \A i \in 1 .. Len(sq') : sq'[i] # Blank
    BY <1>0, <2>2, <2>3
  <2>6. in_kernel' \subseteq Requests /\ pending' \in Int
    BY <1>2, <2>4 DEF SubmitConsumed, ShapeInv, TypeOK
  <2>7. Len(sq') <= SqSize
    BY <2>2, <2>3
  <2>8. UNCHANGED <<cq, unsignalled, event_fd>>
    BY <1>2 DEF SubmitConsumed
  <2>9. QED
    BY <2>2, <2>5, <2>6, <2>7, <2>8
<1>3. QED
  BY <1>1, <1>2 DEF SubmitToKernel

\* Every step keeps the types, the control of the holder, and what is blank.
LEMMA ShapeKept ==
  ASSUME ShapeInv, [Next]_vars
  PROVE  ShapeInv'
<1> USE DirectAssumption DEF ShapeInv, TypeOK, ControlInv, BlankInv, Steps, Goto, Leave,
    MutexFree, RingFull, history, cqeVars, ringVars
<1>1. ASSUME NEW r \in Requests, SubmitIoRequest(r) PROVE ShapeInv'
  <2>1. accepted' \in Seq(Requests) /\ Len(accepted') = Len(accepted) + 1
    BY <1>1, AppendOne DEF SubmitIoRequest
  <2>2. QED
    BY <1>1, <2>1 DEF SubmitIoRequest
<1>2. CASE FlushSubmissionRing
  BY <1>2, SubmitShape DEF FlushSubmissionRing
<1>3. CASE ProcessComplitionsRing
  BY <1>3 DEF ProcessComplitionsRing
<1>4. CASE GetSqe
  <2>1. /\ sq' \in Seq(Requests \cup {Blank})
        /\ Len(sq') = Len(sq) + 1
        /\ \A i \in 1 .. Len(sq) : sq'[i] = sq[i]
        /\ sq'[Len(sq) + 1] = Blank
    BY <1>4, AppendOne DEF GetSqe
  <2>2. Len(sq') <= SqSize /\ Len(sq) \in Nat
    BY <1>4, <2>1 DEF GetSqe
  <2>3. \A i \in 1 .. Len(sq') : sq'[i] = Blank => i = Len(sq')
    BY <1>4, <2>1, <2>2 DEF GetSqe
  <2>4. QED
    BY <1>4, <2>1, <2>2, <2>3 DEF GetSqe
<1>5. CASE PrepareSqe
  <2>1. hand \in Requests /\ Len(sq) > 0 /\ sq \in Seq(Requests \cup {Blank})
    BY <1>5 DEF PrepareSqe
  <2>2. /\ sq' \in Seq(Requests \cup {Blank})
        /\ Len(sq') = Len(sq)
        /\ \A i \in 1 .. Len(sq) : sq'[i] = IF i = Len(sq) THEN hand ELSE sq[i]
    BY <1>5, <2>1, ReplaceLast DEF PrepareSqe
  <2>3. \A i \in 1 .. Len(sq') : sq'[i] # Blank
    BY <1>5, <2>1, <2>2 DEF PrepareSqe
  <2>4. taken' \in 0 .. Len(accepted) /\ taken' = Len(accepted)
    BY <1>5, <2>1 DEF PrepareSqe
  <2>5. TypeOK'
    BY <1>5, <2>2, <2>4 DEF PrepareSqe
  <2>6. ControlInv'
    BY <1>5, <2>4 DEF PrepareSqe
  <2>7. BlankInv'
    BY <1>5, <2>3 DEF PrepareSqe
  <2>8. QED
    BY <2>5, <2>6, <2>7
<1>6. CASE GetSqeFull
  BY <1>6, SubmitShape DEF GetSqeFull
<1>7. CASE GetSqeRetry
  BY <1>7 DEF GetSqeRetry
<1>8. CASE GetSqeGivesUp
  BY <1>8 DEF GetSqeGivesUp
<1>9. CASE SetException
  BY <1>9 DEF SetException
<1>10. CASE NothingToProcess
  BY <1>10 DEF NothingToProcess
<1>11. CASE FetchBatch
  BY <1>11 DEF FetchBatch
<1>12. CASE HandleCqe
  BY <1>12 DEF HandleCqe
<1>13. CASE AdvanceCq
  <2>1. cq' \in Seq(Requests) /\ Len(cq') \in Nat
    BY <1>13, DropSome DEF AdvanceCq
  <2>2. QED
    BY <1>13, <2>1 DEF AdvanceCq
<1>14. CASE ProcessReturns
  BY <1>14 DEF ProcessReturns
<1>15. ASSUME NEW r \in Requests, KernelCompletes(r) PROVE ShapeInv'
  <2>1. cq' \in Seq(Requests) /\ Len(cq') = Len(cq) + 1
    BY <1>15, AppendOne DEF KernelCompletes
  <2>2. QED
    BY <1>15, <2>1 DEF KernelCompletes
<1>16. CASE KernelSignals
  BY <1>16 DEF KernelSignals
<1>17. CASE UNCHANGED vars
  BY <1>17 DEF vars
<1>18. QED
  BY <1>1, <1>2, <1>3, <1>4, <1>5, <1>6, <1>7, <1>8, <1>9, <1>10, <1>11, <1>12, <1>13, <1>14,
     <1>15, <1>16, <1>17 DEF Next, InsideStep

-----------------------------------------------------------------------------
(* One place for every request.                                             *)

PlaceInv == OnePlace /\ Distinct

\* What a request's places become decides whether it has one.
LEMMA PlacesFollow ==
  ASSUME OnePlace, Accepted' = Accepted,
         \A r \in Requests : Apart(r)' /\ (Somewhere(r)' <=> Somewhere(r))
  PROVE  OnePlace'
BY DEF OnePlace

\* What changes nothing about the places keeps them.
LEMMA PlacesKept ==
  ASSUME PlaceInv, UNCHANGED <<hand, sq, in_kernel, cq, seen, accepted, resolved>>
  PROVE  PlaceInv'
BY DEF PlaceInv, OnePlace, Distinct, Apart, Somewhere, Handed, Queued, Running, Due, Done,
       Accepted

\* A submit moves requests from the ring to the kernel.
LEMMA SubmitPlaces ==
  ASSUME ShapeInv, PlaceInv, SubmitToKernel,
         UNCHANGED <<hand, seen, accepted, resolved>>
  PROVE  PlaceInv'
<1>1. CASE SubmitBusy
  BY <1>1, PlacesKept DEF SubmitBusy, ringVars
<1>2. ASSUME NEW n \in 0 .. Len(sq), SubmitConsumed(n) PROVE PlaceInv'
  <2>1. /\ sq \in Seq(Requests \cup {Blank}) /\ Len(sq) \in Nat
        /\ sq' = SubSeq(sq, n + 1, Len(sq))
        /\ in_kernel' = in_kernel \cup {sq[i] : i \in 1 .. n}
        /\ cq' = cq
    BY <1>2 DEF SubmitConsumed, First, ShapeInv, TypeOK
  <2>2. Len(sq') = Len(sq) - n /\ \A i \in 1 .. Len(sq') : sq'[i] = sq[n + i]
    BY <2>1, DropSome
  <2>3. Accepted' = Accepted
    BY DEF Accepted
  <2>4. ASSUME NEW r \in Requests
        PROVE  Apart(r)' /\ (Somewhere(r)' <=> Somewhere(r))
    <3>1. Queued(r)' <=> \E i \in (n + 1) .. Len(sq) : sq[i] = r
      <4>0. Len(sq) \in Nat /\ n \in Nat /\ n <= Len(sq) /\ Len(sq') = Len(sq) - n
        BY <2>1, <2>2
      <4>1. \A i \in 1 .. Len(sq') : n + i \in (n + 1) .. Len(sq)
        BY <4>0
      <4>2. ASSUME NEW i \in (n + 1) .. Len(sq)
            PROVE  i - n \in 1 .. Len(sq') /\ sq'[i - n] = sq[i]
        <5>1. i - n \in 1 .. Len(sq') /\ n + (i - n) = i
          BY <4>0
        <5>2. sq'[i - n] = sq[n + (i - n)]
          BY <2>2, <5>1
        <5>3. QED
          BY <5>1, <5>2
      <4>3. QED
        BY <2>2, <4>1, <4>2 DEF Queued
    <3>2. Running(r)' <=> Running(r) \/ \E i \in 1 .. n : sq[i] = r
      BY <2>1 DEF Running
    <3>3. /\ Queued(r) <=> \/ \E i \in 1 .. n : sq[i] = r
                           \/ \E i \in (n + 1) .. Len(sq) : sq[i] = r
          /\ ~ (/\ \E i \in 1 .. n : sq[i] = r
                /\ \E i \in (n + 1) .. Len(sq) : sq[i] = r)
      BY <2>1 DEF Queued, PlaceInv, Distinct
    <3>4. (Handed(r)' <=> Handed(r)) /\ (Due(r)' <=> Due(r)) /\ (Done(r)' <=> Done(r))
      BY <2>1 DEF Handed, Due, Done
    <3>5. Apart(r)
      BY DEF PlaceInv, OnePlace
    <3>6. QED
      BY <3>1, <3>2, <3>3, <3>4, <3>5 DEF Apart, Somewhere
  <2>5. OnePlace'
    BY <2>3, <2>4, PlacesFollow DEF PlaceInv
  <2>6. ASSUME NEW i \in 1 .. Len(sq'), NEW j \in 1 .. Len(sq'), sq'[i] = sq'[j]
        PROVE  i = j
    <3>0. Len(sq) \in Nat /\ n \in 0 .. Len(sq) /\ Len(sq') = Len(sq) - n
      BY <2>1, <2>2
    <3>1. n \in Nat /\ n + i \in 1 .. Len(sq) /\ n + j \in 1 .. Len(sq)
      BY <3>0
    <3>2. sq[n + i] = sq[n + j]
      BY <2>2, <2>6
    <3>3. n + i = n + j
      BY <3>1, <3>2 DEF PlaceInv, Distinct
    <3>4. QED
      BY <3>1, <3>3
  <2>7. QED
    BY <2>1, <2>5, <2>6 DEF PlaceInv, Distinct
<1>3. QED
  BY <1>1, <1>2 DEF SubmitToKernel

\* Every step keeps each request in one place.
LEMMA PlaceKept ==
  ASSUME ShapeInv, PlaceInv, [Next]_vars
  PROVE  PlaceInv'
<1> USE DirectAssumption
<1>1. ASSUME NEW q \in Requests, SubmitIoRequest(q) PROVE PlaceInv'
  <2>1. /\ hand = None /\ hand' = q /\ q \notin Accepted
        /\ UNCHANGED <<sq, in_kernel, cq, seen, resolved>>
    BY <1>1 DEF SubmitIoRequest, MutexFree, ShapeInv, ControlInv, ringVars, cqeVars
  <2>2. Accepted' = Accepted \cup {q}
    <3>1. accepted' = Append(accepted, q) /\ accepted \in Seq(Requests)
      BY <1>1 DEF SubmitIoRequest, ShapeInv, TypeOK
    <3>2. /\ Len(accepted') = Len(accepted) + 1 /\ Len(accepted) \in Nat
          /\ \A i \in 1 .. Len(accepted) : accepted'[i] = accepted[i]
          /\ accepted'[Len(accepted) + 1] = q
      BY <3>1, AppendOne
    <3>3. QED
      BY <3>2 DEF Accepted
  <2>3. QED
    BY <2>1, <2>2 DEF PlaceInv, OnePlace, Distinct, Apart, Somewhere, Handed, Queued, Running,
                      Due, Done
<1>2. CASE FlushSubmissionRing
  BY <1>2, SubmitPlaces DEF FlushSubmissionRing, cqeVars, history
<1>3. CASE ProcessComplitionsRing
  BY <1>3, PlacesKept DEF ProcessComplitionsRing, cqeVars, history
<1>4. CASE GetSqe
  <2>1. /\ sq \in Seq(Requests \cup {Blank}) /\ Len(sq) \in Nat
        /\ sq' = Append(sq, Blank)
        /\ UNCHANGED <<hand, in_kernel, cq, seen, accepted, resolved>>
    BY <1>4 DEF GetSqe, ShapeInv, TypeOK, cqeVars, history
  <2>2. /\ Len(sq') = Len(sq) + 1
        /\ \A i \in 1 .. Len(sq) : sq'[i] = sq[i]
        /\ sq'[Len(sq) + 1] = Blank
    BY <2>1, AppendOne
  <2>3. \A i \in 1 .. Len(sq) : sq[i] # Blank
    BY <1>4 DEF GetSqe, ShapeInv, BlankInv
  <2>4. \A r \in Requests : Queued(r)' <=> Queued(r)
    BY <2>1, <2>2 DEF Queued
  <2>5. OnePlace'
    BY <2>1, <2>4 DEF PlaceInv, OnePlace, Apart, Somewhere, Handed, Running, Due, Done, Accepted
  <2>6. QED
    BY <2>1, <2>2, <2>3, <2>5 DEF PlaceInv, Distinct
<1>5. CASE PrepareSqe
  <2>1. /\ sq \in Seq(Requests \cup {Blank})
        /\ Len(sq) \in Nat /\ Len(sq) > 0 /\ sq[Len(sq)] = Blank
        /\ hand \in Requests /\ hand' = None
        /\ UNCHANGED <<in_kernel, cq, seen, accepted, resolved>>
    BY <1>5 DEF PrepareSqe, ShapeInv, TypeOK, ControlInv, BlankInv, cqeVars, history
  <2>2. /\ Len(sq') = Len(sq)
        /\ sq'[Len(sq)] = hand
        /\ \A i \in 1 .. Len(sq) : i # Len(sq) => sq'[i] = sq[i]
    BY <1>5, <2>1, ReplaceLast DEF PrepareSqe
  <2>3. ASSUME NEW r \in Requests PROVE Queued(r)' <=> Queued(r) \/ Handed(r)
    <3>1. Queued(r)' => Queued(r) \/ Handed(r)
      BY <2>1, <2>2 DEF Queued, Handed
    <3>2. Queued(r) => \E i \in 1 .. Len(sq) : i # Len(sq) /\ sq[i] = r
      BY <2>1 DEF Queued
    <3>3. Handed(r) => Queued(r)'
      BY <2>1, <2>2 DEF Queued, Handed
    <3>4. Queued(r) => Queued(r)'
      BY <2>2, <3>2 DEF Queued
    <3>5. QED
      BY <3>1, <3>3, <3>4
  <2>4. ~ Queued(hand)
    BY <2>1 DEF PlaceInv, OnePlace, Apart, Handed
  <2>5. OnePlace'
    BY <2>1, <2>3 DEF PlaceInv, OnePlace, Apart, Somewhere, Handed, Running, Due, Done, Accepted
  <2>6. \A i, j \in 1 .. Len(sq') : sq'[i] = sq'[j] => i = j
    <3>1. \A i \in 1 .. Len(sq) : sq[i] # hand
      BY <2>4 DEF Queued
    <3>2. QED
      BY <2>2, <3>1 DEF PlaceInv, Distinct
  <2>7. QED
    BY <2>1, <2>5, <2>6 DEF PlaceInv, Distinct
<1>6. CASE GetSqeFull
  BY <1>6, SubmitPlaces DEF GetSqeFull, cqeVars, history
<1>7. CASE GetSqeRetry
  BY <1>7, PlacesKept DEF GetSqeRetry, ringVars, cqeVars, history
<1>8. CASE GetSqeGivesUp
  BY <1>8, PlacesKept DEF GetSqeGivesUp, ringVars, cqeVars
<1>9. CASE SetException
  <2>1. /\ hand' = None /\ resolved' = resolved \cup {hand}
        /\ UNCHANGED <<sq, in_kernel, cq, seen, accepted>>
    BY <1>9 DEF SetException, ringVars, cqeVars, history
  <2>2. QED
    BY <2>1 DEF PlaceInv, OnePlace, Distinct, Apart, Somewhere, Handed, Queued, Running, Due,
                Done, Accepted
<1>10. CASE NothingToProcess
  BY <1>10, PlacesKept DEF NothingToProcess, ringVars, cqeVars, history
<1>11. CASE FetchBatch
  BY <1>11, PlacesKept DEF FetchBatch, ringVars, history
<1>12. CASE HandleCqe
  <2>1. /\ seen \in Nat /\ Len(cq) \in Nat /\ seen < Len(cq)
        /\ seen' = seen + 1
        /\ resolved' = resolved \cup {cq[seen + 1]}
        /\ UNCHANGED <<hand, sq, in_kernel, cq, accepted>>
    BY <1>12 DEF HandleCqe, ShapeInv, TypeOK, ringVars, history
  <2>2. ASSUME NEW r \in Requests
        PROVE  Apart(r)' /\ (Somewhere(r)' <=> Somewhere(r))
    <3>1. Due(r) <=> r = cq[seen + 1] \/ Due(r)'
      BY <2>1 DEF Due
    <3>2. ~ (r = cq[seen + 1] /\ Due(r)')
      BY <2>1 DEF Due, PlaceInv, Distinct
    <3>3. Done(r)' <=> Done(r) \/ r = cq[seen + 1]
      BY <2>1 DEF Done
    <3>4. (Handed(r)' <=> Handed(r)) /\ (Queued(r)' <=> Queued(r)) /\ (Running(r)' <=> Running(r))
      BY <2>1 DEF Handed, Queued, Running
    <3>5. Apart(r)
      BY DEF PlaceInv, OnePlace
    <3>6. QED
      BY <3>1, <3>2, <3>3, <3>4, <3>5 DEF Apart, Somewhere
  <2>3. OnePlace'
    BY <2>1, <2>2, PlacesFollow DEF PlaceInv, Accepted
  <2>4. QED
    BY <2>1, <2>3 DEF PlaceInv, Distinct
<1>13. CASE AdvanceCq
  <2>1. /\ cq \in Seq(Requests) /\ seen \in 0 .. Len(cq) /\ Len(cq) \in Nat
        /\ cq' = SubSeq(cq, seen + 1, Len(cq)) /\ seen' = 0
        /\ UNCHANGED <<hand, sq, in_kernel, accepted, resolved>>
    BY <1>13 DEF AdvanceCq, ShapeInv, TypeOK, history
  <2>2. Len(cq') = Len(cq) - seen /\ \A i \in 1 .. Len(cq') : cq'[i] = cq[seen + i]
    BY <2>1, DropSome
  <2>3. \A r \in Requests : Due(r)' <=> Due(r)
    <3>0. seen \in Nat /\ Len(cq) \in Nat /\ seen <= Len(cq) /\ Len(cq') = Len(cq) - seen
      BY <2>1, <2>2
    <3>1. \A i \in 1 .. Len(cq') : seen + i \in (seen + 1) .. Len(cq)
      BY <3>0
    <3>2. ASSUME NEW i \in (seen + 1) .. Len(cq)
          PROVE  i - seen \in 1 .. Len(cq') /\ cq'[i - seen] = cq[i]
      <4>1. i - seen \in 1 .. Len(cq') /\ seen + (i - seen) = i
        BY <3>0
      <4>2. cq'[i - seen] = cq[seen + (i - seen)]
        BY <2>2, <4>1
      <4>3. QED
        BY <4>1, <4>2
    <3>3. seen' = 0 /\ Len(cq') \in Nat
      BY <2>1, <2>2
    <3>4. ASSUME NEW r \in Requests, Due(r) PROVE Due(r)'
      <4>1. PICK i \in (seen + 1) .. Len(cq) : cq[i] = r
        BY <3>4 DEF Due
      <4>2. i - seen \in (seen' + 1) .. Len(cq') /\ cq'[i - seen] = r
        BY <3>2, <3>3, <4>1
      <4>3. QED
        BY <4>2 DEF Due
    <3>5. ASSUME NEW r \in Requests, Due(r)' PROVE Due(r)
      <4>1. PICK i \in (seen' + 1) .. Len(cq') : cq'[i] = r
        BY <3>5 DEF Due
      <4>2. seen + i \in (seen + 1) .. Len(cq) /\ cq[seen + i] = r
        BY <2>2, <3>1, <3>3, <4>1
      <4>3. QED
        BY <4>2 DEF Due
    <3>6. QED
      BY <3>4, <3>5
  <2>4. OnePlace'
    BY <2>1, <2>3 DEF PlaceInv, OnePlace, Apart, Somewhere, Handed, Queued, Running, Done,
                      Accepted
  <2>5. ASSUME NEW i \in 1 .. Len(cq'), NEW j \in 1 .. Len(cq'), cq'[i] = cq'[j]
        PROVE  i = j
    <3>0. Len(cq) \in Nat /\ seen \in 0 .. Len(cq) /\ Len(cq') = Len(cq) - seen
      BY <2>1, <2>2
    <3>1. seen \in Nat /\ seen + i \in 1 .. Len(cq) /\ seen + j \in 1 .. Len(cq)
      BY <3>0
    <3>2. cq[seen + i] = cq[seen + j]
      BY <2>2, <2>5
    <3>3. seen + i = seen + j
      BY <3>1, <3>2 DEF PlaceInv, Distinct
    <3>4. QED
      BY <3>1, <3>3
  <2>6. \A i \in 1 .. seen' : cq'[i] \in resolved'
    BY <2>1
  <2>7. QED
    BY <2>1, <2>4, <2>5, <2>6 DEF PlaceInv, Distinct
<1>14. CASE ProcessReturns
  BY <1>14, PlacesKept DEF ProcessReturns, ringVars, cqeVars, history
<1>15. ASSUME NEW q \in Requests, KernelCompletes(q) PROVE PlaceInv'
  <2>1. /\ cq \in Seq(Requests) /\ seen \in 0 .. Len(cq) /\ Len(cq) \in Nat
        /\ q \in in_kernel
        /\ in_kernel' = in_kernel \ {q}
        /\ cq' = Append(cq, q)
        /\ UNCHANGED <<hand, sq, seen, accepted, resolved>>
    BY <1>15 DEF KernelCompletes, ShapeInv, TypeOK, cqeVars, history
  <2>2. /\ Len(cq') = Len(cq) + 1
        /\ \A i \in 1 .. Len(cq) : cq'[i] = cq[i]
        /\ cq'[Len(cq) + 1] = q
    BY <2>1, AppendOne
  <2>3. \A r \in Requests : Due(r)' <=> Due(r) \/ r = q
    BY <2>1, <2>2 DEF Due
  <2>4. Apart(q)
    BY DEF PlaceInv, OnePlace
  <2>5. \A i \in 1 .. Len(cq) : cq[i] # q
    BY <2>1, <2>4 DEF Apart, Running, Due, Done, PlaceInv, Distinct
  <2>6. OnePlace'
    BY <2>1, <2>3 DEF PlaceInv, OnePlace, Apart, Somewhere, Handed, Queued, Running, Done,
                      Accepted
  <2>7. \A i, j \in 1 .. Len(cq') : cq'[i] = cq'[j] => i = j
    BY <2>1, <2>2, <2>5 DEF PlaceInv, Distinct
  <2>8. \A i \in 1 .. seen' : cq'[i] \in resolved'
    BY <2>1, <2>2 DEF PlaceInv, Distinct
  <2>9. QED
    BY <2>1, <2>6, <2>7, <2>8 DEF PlaceInv, Distinct
<1>16. CASE KernelSignals
  BY <1>16, PlacesKept DEF KernelSignals, cqeVars, history
<1>17. CASE UNCHANGED vars
  BY <1>17, PlacesKept DEF vars, ringVars, cqeVars, history
<1>18. QED
  BY <1>1, <1>2, <1>3, <1>4, <1>5, <1>6, <1>7, <1>8, <1>9, <1>10, <1>11, <1>12, <1>13, <1>14,
     <1>15, <1>16, <1>17 DEF Next, InsideStep

-----------------------------------------------------------------------------
(* The count of pending CQEs.                                               *)

\* A submit adds the number of the SQEs it consumes, all of them new to the kernel.
LEMMA SubmitCounts ==
  ASSUME ShapeInv, PlaceInv, CountInv, SubmitToKernel, step # "prepare", seen' = seen
  PROVE  CountInv'
<1>1. CASE SubmitBusy
  BY <1>1 DEF SubmitBusy, ringVars, CountInv, PendingCountSound
<1>2. ASSUME NEW n \in 0 .. Len(sq), SubmitConsumed(n) PROVE CountInv'
  <2>1. /\ in_kernel' = in_kernel \cup First(n)
        /\ pending' = pending + n
        /\ cq' = cq
    BY <1>2 DEF SubmitConsumed
  <2>2. sq \in Seq(Requests \cup {Blank}) /\ \A i, j \in 1 .. Len(sq) : sq[i] = sq[j] => i = j
    BY DEF ShapeInv, TypeOK, PlaceInv, Distinct
  <2>3. IsFiniteSet(First(n)) /\ Cardinality(First(n)) = n
    <3>1. \A t : t \in First(n) <=> \E i \in 1 .. n : sq[i] = t
      BY DEF First
    <3>2. QED
      BY <2>2, <3>1, FirstCount
  <2>4. ASSUME NEW i \in 1 .. n PROVE sq[i] \notin in_kernel
    <3>1. i \in 1 .. Len(sq) /\ sq[i] \in Requests
      BY <2>2 DEF ShapeInv, BlankInv
    <3>2. Apart(sq[i]) /\ Queued(sq[i])
      BY <3>1 DEF PlaceInv, OnePlace, Queued
    <3>3. QED
      BY <3>2 DEF Apart, Running
  <2>5. in_kernel \cap First(n) = {}
    BY <2>4 DEF First
  <2>6. /\ IsFiniteSet(in_kernel')
        /\ Cardinality(in_kernel') = Cardinality(in_kernel) + n
    BY <2>1, <2>3, <2>5, DisjointUnion DEF CountInv
  <2>7. Cardinality(in_kernel) \in Nat /\ Len(cq) \in Nat /\ seen \in Nat
    BY FS_CardinalityType DEF CountInv, ShapeInv, TypeOK
  <2>8. QED
    BY <2>1, <2>6, <2>7 DEF CountInv, PendingCountSound
<1>3. QED
  BY <1>1, <1>2 DEF SubmitToKernel

\* Every step keeps the count of pending CQEs exact.
LEMMA CountKept ==
  ASSUME ShapeInv, PlaceInv, CountInv, [Next]_vars
  PROVE  CountInv'
<1>0. /\ Cardinality(in_kernel) \in Nat /\ IsFiniteSet(in_kernel)
      /\ cq \in Seq(Requests) /\ Len(cq) \in Nat /\ seen \in Nat
  BY FS_CardinalityType DEF CountInv, ShapeInv, TypeOK
<1>1. ASSUME UNCHANGED <<pending, in_kernel, cq, seen>> PROVE CountInv'
  BY <1>1 DEF CountInv, PendingCountSound
<1>2. CASE FlushSubmissionRing
  BY <1>2, SubmitCounts DEF FlushSubmissionRing, MutexFree, cqeVars
<1>3. CASE GetSqeFull
  BY <1>3, SubmitCounts DEF GetSqeFull, cqeVars
<1>4. CASE HandleCqe
  <2>1. seen' = seen + 1 /\ pending' = pending - 1 /\ UNCHANGED <<in_kernel, cq>>
    BY <1>4 DEF HandleCqe, ringVars
  <2>2. QED
    BY <1>0, <2>1 DEF CountInv, PendingCountSound
<1>5. CASE AdvanceCq
  <2>1. seen \in 0 .. Len(cq)
    BY DEF ShapeInv, TypeOK
  <2>2. cq' = SubSeq(cq, seen + 1, Len(cq)) /\ seen' = 0 /\ UNCHANGED <<pending, in_kernel>>
    BY <1>5 DEF AdvanceCq
  <2>3. Len(cq') = Len(cq) - seen
    BY <1>0, <2>1, <2>2, DropSome
  <2>4. Len(cq') - seen' = Len(cq) - seen
    BY <1>0, <2>1, <2>2, <2>3
  <2>5. QED
    BY <2>2, <2>4 DEF CountInv, PendingCountSound
<1>6. ASSUME NEW r \in Requests, KernelCompletes(r) PROVE CountInv'
  <2>1. /\ r \in in_kernel /\ in_kernel' = in_kernel \ {r}
        /\ cq' = Append(cq, r)
        /\ UNCHANGED <<pending, seen>>
    BY <1>6 DEF KernelCompletes, cqeVars
  <2>2. Len(cq') = Len(cq) + 1
    BY <1>0, <2>1, AppendOne
  <2>3. IsFiniteSet(in_kernel') /\ Cardinality(in_kernel') = Cardinality(in_kernel) - 1
    BY <1>0, <2>1, FS_RemoveElement
  <2>4. QED
    BY <1>0, <2>1, <2>2, <2>3 DEF CountInv, PendingCountSound
<1>7. QED
  BY <1>1, <1>2, <1>3, <1>4, <1>5, <1>6
  DEF Next, InsideStep, SubmitIoRequest, ProcessComplitionsRing, GetSqe, PrepareSqe, GetSqeRetry,
      GetSqeGivesUp, SetException, NothingToProcess, FetchBatch, ProcessReturns, KernelSignals,
      vars, ringVars, cqeVars

-----------------------------------------------------------------------------
(* The invariant, and what it shows.                                        *)

\* The invariants hold initially.
LEMMA DirectStarts ==
  ASSUME Init
  PROVE  DirectInv /\ SignalInv
<1> USE DirectAssumption DEF Init
<1>1. TypeOK /\ ControlInv /\ BlankInv
  <2>1. /\ sq \in Seq(Requests \cup {Blank}) /\ cq \in Seq(Requests)
        /\ accepted \in Seq(Requests)
        /\ Len(sq) = 0 /\ Len(cq) = 0 /\ Len(accepted) = 0
    OBVIOUS
  <2> HIDE DEF Init
  <2>2. TypeOK
    <3>1. /\ Len(sq) <= SqSize /\ batch \in 0 .. Len(cq) /\ seen \in 0 .. batch
          /\ tries \in 0 .. MaxTry /\ pending \in Int /\ taken \in 0 .. Len(accepted)
      BY <2>1 DEF Init
    <3>2. /\ kernel \in Kernels /\ step \in Steps /\ hand \in Requests \cup {None}
          /\ in_kernel \subseteq Requests /\ resolved \subseteq Requests
      BY DEF Init, Steps
    <3>3. unsignalled \in BOOLEAN /\ event_fd \in BOOLEAN
      BY DEF Init
    <3>4. QED
      BY <2>1, <3>1, <3>2, <3>3 DEF TypeOK
  <2>3. ControlInv /\ BlankInv
    BY <2>1 DEF Init, ControlInv, BlankInv
  <2>4. QED
    BY <2>2, <2>3
<1>2. OnePlace /\ Distinct
  BY DEF OnePlace, Distinct, Apart, Somewhere, Handed, Queued, Running, Due, Done, Accepted
<1>3. CountInv
  BY FS_EmptySet DEF CountInv, PendingCountSound
<1>4. SignalInv
  BY DEF SignalInv
<1>5. QED
  BY <1>1, <1>2, <1>3, <1>4 DEF DirectInv

\* DirectInv is an invariant of the direct mode: types, the control of the thread that
\* holds mutex_, one place for every request, and the count of pending CQEs.
THEOREM DirectInvariant == Safety => []DirectInv
<1>1. Init => DirectInv
  BY DirectStarts
<1>2. DirectInv /\ [Next]_vars => DirectInv'
  BY ShapeKept, PlaceKept, CountKept DEF DirectInv, ShapeInv, PlaceInv
<1>3. QED
  BY <1>1, <1>2, PTL DEF Safety

\* The variables of the direct mode keep their types; the ring never overflows.
THEOREM DirectTypeCorrect == Safety => []TypeOK
<1>1. DirectInv => TypeOK
  BY DEF DirectInv
<1>2. QED
  BY <1>1, DirectInvariant, PTL

\* Whatever threads flush and process, the kernel is never given an SQE that
\* SubmitIoRequest has got and not yet prepared.
THEOREM SqesAreWhole == Safety => []NoBlankSqe
<1>1. DirectInv => NoBlankSqe
  BY DirectAssumption DEF DirectInv, TypeOK, NoBlankSqe
<1>2. QED
  BY <1>1, DirectInvariant, PTL

\* submission_pending_count_ is exact under any mixture of calls.
THEOREM DirectCountIsSound == Safety => []PendingCountSound
<1>1. DirectInv => PendingCountSound
  BY DEF DirectInv, CountInv
<1>2. QED
  BY <1>1, DirectInvariant, PTL

\* No request that was submitted is lost or doubled: it is in the hands of its caller, in
\* one SQE, with the kernel, in one CQE, or resolved, and in one of these only.
THEOREM RequestsAreKept == Safety => []EveryRequestInOnePlace
<1>1. ASSUME DirectInv, NEW r \in Accepted PROVE Places(r) = 1
  <2>1. r \in Requests
    BY <1>1 DEF Accepted, DirectInv, TypeOK
  <2>2. Apart(r) /\ Somewhere(r)
    BY <1>1, <2>1 DEF DirectInv, OnePlace
  <2> DEFINE Q == {i \in 1 .. Len(sq) : sq[i] = r}
             C == {i \in (seen + 1) .. Len(cq) : cq[i] = r}
  <2>3. Cardinality(Q) = Count(Queued(r))
    <3>1. CASE Queued(r)
      <4>1. PICK i \in 1 .. Len(sq) : sq[i] = r
        BY <3>1 DEF Queued
      <4>2. Q = {i}
        BY <1>1, <4>1 DEF DirectInv, Distinct
      <4>3. QED
        BY <3>1, <4>2, FS_Singleton DEF Count
    <3>2. CASE ~ Queued(r)
      <4>1. Q = {}
        BY <3>2 DEF Queued
      <4>2. QED
        BY <3>2, <4>1, FS_EmptySet DEF Count
    <3>3. QED
      BY <3>1, <3>2
  <2>4. Cardinality(C) = Count(Due(r))
    <3>1. CASE Due(r)
      <4>1. PICK i \in (seen + 1) .. Len(cq) : cq[i] = r
        BY <3>1 DEF Due
      <4>2. \A j \in (seen + 1) .. Len(cq) : j \in 1 .. Len(cq)
        BY <1>1 DEF DirectInv, TypeOK
      <4>3. C = {i}
        BY <1>1, <4>1, <4>2 DEF DirectInv, Distinct
      <4>4. QED
        BY <3>1, <4>3, FS_Singleton DEF Count
    <3>2. CASE ~ Due(r)
      <4>1. C = {}
        BY <3>2 DEF Due
      <4>2. QED
        BY <3>2, <4>1, FS_EmptySet DEF Count
    <3>3. QED
      BY <3>1, <3>2
  <2>5. Places(r) = Count(Handed(r)) + Count(Queued(r)) + Count(Running(r)) + Count(Due(r))
                    + Count(Done(r))
    BY <2>3, <2>4 DEF Places, Handed, Running, Done
  <2>6. QED
    BY <2>2, <2>5 DEF Apart, Somewhere, Count
<1>2. DirectInv => EveryRequestInOnePlace
  BY <1>1 DEF EveryRequestInOnePlace
<1>3. QED
  BY <1>2, DirectInvariant, PTL

-----------------------------------------------------------------------------
(* The eventfd.                                                             *)

\* Batches hold every CQE there can be.
BatchesHoldAll == IsFiniteSet(Requests) /\ Cardinality(Requests) <= MaxDrain

\* The completion ring never holds more than a batch.
LEMMA CqFits ==
  ASSUME BatchesHoldAll, DirectInv
  PROVE  Len(cq) <= MaxDrain
<1> DEFINE T == {cq[i] : i \in 1 .. Len(cq)}
<1>1. /\ cq \in Seq(Requests) /\ Len(cq) \in 0 .. Len(cq)
      /\ \A i, j \in 1 .. Len(cq) : cq[i] = cq[j] => i = j
  BY DEF DirectInv, TypeOK, Distinct
<1>2. T \in SUBSET Requests /\ \A t : t \in T <=> \E i \in 1 .. Len(cq) : cq[i] = t
  BY <1>1
<1> HIDE DEF T
<1>3. Cardinality(T) = Len(cq)
  BY <1>1, <1>2, FirstCount
<1>4. Cardinality(T) <= Cardinality(Requests)
  BY <1>2, FS_Subset DEF BatchesHoldAll
<1>5. Cardinality(Requests) \in Nat
  BY FS_CardinalityType DEF BatchesHoldAll
<1>6. QED
  BY <1>1, <1>3, <1>4, <1>5, DirectAssumption DEF BatchesHoldAll

\* Every step keeps signalled what no batch holds.
LEMMA SignalKept ==
  ASSUME BatchesHoldAll, DirectInv, SignalInv, [Next]_vars
  PROVE  SignalInv'
<1> USE DEF SignalInv, Goto, Leave, MutexFree, ringVars, cqeVars
<1>0. /\ cq \in Seq(Requests) /\ Len(cq) \in Nat /\ Len(cq) <= MaxDrain
      /\ step # "handle" => batch = 0
      /\ step \in {"get_sqe", "prepare", "fail"} => hand # None
      /\ batch \in 0 .. Len(cq)
  BY CqFits DEF DirectInv, TypeOK, ControlInv
<1>1. ASSUME SubmitToKernel PROVE UNCHANGED <<cq, unsignalled, event_fd>>
  BY <1>1 DEF SubmitToKernel, SubmitConsumed, SubmitBusy
<1>2. ASSUME NEW r \in Requests, SubmitIoRequest(r) PROVE SignalInv'
  <2>1. step = "outside" /\ UNCHANGED <<cq, batch, event_fd, unsignalled>>
    BY <1>2 DEF SubmitIoRequest
  <2>2. event_fd \/ unsignalled \/ Len(cq) = batch
    BY <2>1
  <2>3. QED
    BY <2>1, <2>2
<1>3. CASE FlushSubmissionRing
  BY <1>1, <1>3 DEF FlushSubmissionRing
<1>4. CASE ProcessComplitionsRing
  BY <1>4 DEF ProcessComplitionsRing, DirectInv, ControlInv
<1>5. CASE GetSqe
  BY <1>5 DEF GetSqe
<1>6. CASE PrepareSqe
  BY <1>6 DEF PrepareSqe
<1>7. CASE GetSqeFull
  BY <1>1, <1>7 DEF GetSqeFull
<1>8. CASE GetSqeRetry
  BY <1>8 DEF GetSqeRetry
<1>9. CASE GetSqeGivesUp
  BY <1>9 DEF GetSqeGivesUp
<1>10. CASE SetException
  BY <1>10 DEF SetException
<1>11. CASE NothingToProcess
  BY <1>0, <1>11 DEF NothingToProcess
<1>12. CASE FetchBatch
  <2>1. Len(cq') = batch'
    BY <1>0, <1>12, DirectAssumption DEF FetchBatch
  <2>2. QED
    BY <2>1
<1>13. CASE HandleCqe
  BY <1>13 DEF HandleCqe
<1>14. CASE AdvanceCq
  <2>1. Len(cq') = Len(cq) - batch
    BY <1>0, <1>14, DropSome DEF AdvanceCq
  <2>2. step = "handle" /\ batch' = 0 /\ UNCHANGED <<event_fd, unsignalled>>
    BY <1>14 DEF AdvanceCq
  <2>3. Len(cq') = batch' \/ event_fd \/ unsignalled
    BY <1>0, <2>1, <2>2
  <2>4. QED
    BY <2>2, <2>3
<1>15. CASE ProcessReturns
  BY <1>15 DEF ProcessReturns
<1>16. ASSUME NEW r \in Requests, KernelCompletes(r) PROVE SignalInv'
  BY <1>16 DEF KernelCompletes
<1>17. CASE KernelSignals
  BY <1>17 DEF KernelSignals
<1>18. CASE UNCHANGED vars
  BY <1>18 DEF vars
<1>19. QED
  BY <1>2, <1>3, <1>4, <1>5, <1>6, <1>7, <1>8, <1>9, <1>10, <1>11, <1>12, <1>13, <1>14, <1>15,
     <1>16, <1>17, <1>18 DEF Next, InsideStep

\* With batches that hold every CQE, a CQE that waits while nobody is inside IoUring has a
\* signal, given or about to be: reading the eventfd before the ring loses none.
THEOREM NoSignalIsLost == BatchesHoldAll /\ Safety => []NoCqeWithoutSignal
<1>1. Init => SignalInv
  BY DirectStarts
<1>2. BatchesHoldAll /\ DirectInv /\ SignalInv /\ [Next]_vars => SignalInv'
  BY SignalKept
<1>3. DirectInv /\ SignalInv => NoCqeWithoutSignal
  <2>1. SUFFICES ASSUME DirectInv, SignalInv, step = "outside", cq # <<>>
                 PROVE  event_fd \/ unsignalled
    BY DEF NoCqeWithoutSignal, MutexFree
  <2>2. batch = 0 /\ Len(cq) # 0
    BY <2>1 DEF DirectInv, TypeOK, ControlInv
  <2>3. QED
    BY <2>1, <2>2 DEF SignalInv
<1>4. SUFFICES ASSUME BatchesHoldAll PROVE Safety => []NoCqeWithoutSignal
  OBVIOUS
<1>5. QED
  BY <1>1, <1>2, <1>3, <1>4, DirectInvariant, PTL DEF Safety

-----------------------------------------------------------------------------
(* The service of RequestService.                                           *)

\* What SubmitIoRequest has in hand is the newest request.
HandInv == hand # None => Len(accepted) > 0 /\ accepted[Len(accepted)] = hand

\* Only SubmitIoRequest takes a request in hand.
LEMMA HandKept ==
  ASSUME DirectInv, HandInv, [Next]_vars
  PROVE  HandInv'
<1> USE DEF HandInv, history
<1>1. ASSUME NEW r \in Requests, SubmitIoRequest(r) PROVE HandInv'
  <2>1. accepted' = Append(accepted, r) /\ hand' = r /\ accepted \in Seq(Requests)
    BY <1>1 DEF SubmitIoRequest, DirectInv, TypeOK
  <2>2. /\ Len(accepted') = Len(accepted) + 1 /\ Len(accepted) \in Nat
        /\ accepted'[Len(accepted) + 1] = r
    BY <2>1, AppendOne
  <2>3. QED
    BY <2>1, <2>2
<1>2. ASSUME hand' \in {hand, None}, accepted' = accepted PROVE HandInv'
  BY <1>2
<1>3. QED
  BY <1>1, <1>2
  DEF Next, InsideStep, FlushSubmissionRing, ProcessComplitionsRing, GetSqe, PrepareSqe,
      GetSqeFull, GetSqeRetry, GetSqeGivesUp, SetException, NothingToProcess, FetchBatch,
      HandleCqe, AdvanceCq, ProcessReturns, KernelSignals, KernelCompletes, vars

\* A request that is resolved is one that was taken up, and was not resolved before.
LEMMA DirectResolves ==
  ASSUME DirectInv, HandInv, NEW r \in Requests, r \in Accepted,
         resolved' = resolved \cup {r}, r \notin resolved,
         r # hand \/ step = "fail", UNCHANGED <<accepted, taken>>
  PROVE  Service!Resolve(r)
<1>1. PICK i \in 1 .. Len(accepted) : accepted[i] = r
  BY DEF Accepted
<1>2. Len(accepted) \in Nat
      /\ (taken = IF hand = None \/ step = "fail" THEN Len(accepted) ELSE Len(accepted) - 1)
  BY DEF DirectInv, TypeOK, ControlInv
<1>3. i \in 1 .. taken
  BY <1>1, <1>2 DEF HandInv
<1>4. r \in Service!TakenSet
  BY <1>1, <1>3 DEF Service!TakenSet
<1>5. QED
  BY <1>4 DEF Service!Resolve

\* Every step is one of the service or leaves it alone.
LEMMA DirectServes ==
  ASSUME DirectInv, HandInv, [Next]_vars
  PROVE  [Service!ServiceNext]_(Service!serviceVars)
<1> USE DEF Service!serviceVars, Service!ServiceNext, history
<1>1. ASSUME NEW r \in Requests, SubmitIoRequest(r) PROVE Service!Accept(r)
  BY <1>1 DEF SubmitIoRequest, Accepted, Service!Accept, Service!AcceptedSet
<1>2. ASSUME hand # None, step # "fail", taken' = taken + 1, UNCHANGED <<accepted, resolved>>
      PROVE  Service!Take
  BY <1>2 DEF Service!Take, DirectInv, TypeOK, ControlInv
<1>3. CASE PrepareSqe
  BY <1>2, <1>3 DEF PrepareSqe, DirectInv, ControlInv
<1>4. CASE GetSqeGivesUp
  BY <1>2, <1>4 DEF GetSqeGivesUp
<1>5. CASE SetException
  <2>1. hand \in Requests
    BY <1>5 DEF SetException, DirectInv, TypeOK, ControlInv
  <2>2. hand \in Accepted /\ hand \notin resolved
    BY <2>1 DEF DirectInv, OnePlace, Apart, Somewhere, Handed, Done
  <2>3. Service!Resolve(hand)
    BY <1>5, <2>1, <2>2, DirectResolves DEF SetException
  <2>4. QED
    BY <2>1, <2>3
<1>6. CASE HandleCqe
  <2>1. /\ cq \in Seq(Requests) /\ Len(cq) \in Nat /\ seen \in Nat
        /\ batch <= Len(cq) /\ batch \in Nat /\ seen < batch
    BY <1>6 DEF HandleCqe, DirectInv, TypeOK
  <2>2. seen + 1 \in (seen + 1) .. Len(cq) /\ cq[seen + 1] \in Requests
    BY <2>1
  <2>3. PICK r \in Requests : r = cq[seen + 1]
    BY <2>2
  <2>4. Due(r)
    BY <2>2, <2>3 DEF Due
  <2>5. r \in Accepted /\ r \notin resolved /\ r # hand
    BY <2>4 DEF DirectInv, OnePlace, Apart, Somewhere, Handed, Done
  <2>6. Service!Resolve(r)
    BY <1>6, <2>3, <2>5, DirectResolves DEF HandleCqe
  <2>7. QED
    BY <2>6
<1>7. ASSUME UNCHANGED <<accepted, taken, resolved>>
      PROVE  UNCHANGED Service!serviceVars
  BY <1>7
<1>8. QED
  BY <1>1, <1>3, <1>4, <1>5, <1>6, <1>7
  DEF Next, InsideStep, FlushSubmissionRing, ProcessComplitionsRing, GetSqe, GetSqeFull,
      GetSqeRetry, NothingToProcess, FetchBatch, AdvanceCq, ProcessReturns, KernelSignals,
      KernelCompletes, vars

\* The direct mode implements the service, its safety: requests are taken up in the order
\* in which SubmitIoRequest got them, and each is resolved once, and only when it has had
\* an SQE or been refused one.
THEOREM DirectImplementsService == Safety => Service!ServiceSafety
<1>1. Init => DirectInv /\ HandInv /\ Service!ServiceInit
  BY DirectStarts DEF Init, HandInv, Service!ServiceInit
<1>2. DirectInv /\ HandInv /\ [Next]_vars => HandInv'
  BY HandKept
<1>3. DirectInv /\ HandInv /\ [Next]_vars => [Service!ServiceNext]_(Service!serviceVars)
  BY DirectServes
<1>4. QED
  BY <1>1, <1>2, <1>3, DirectInvariant, PTL DEF Safety, Service!ServiceSafety
=============================================================================
