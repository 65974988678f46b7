--------------------------- MODULE FileTableProofs ---------------------------
(***************************************************************************)
(* Proofs about FileTable, for every number of threads, descriptors and    *)
(* slots.                                                                  *)
(***************************************************************************)
EXTENDS FileTable, FiniteSetTheorems, SequenceTheorems, TLAPS

\* A thread that holds files_mutex_ is between its change of the container and its
\* change of the kernel's table: the slot is filled in the one and not yet in the
\* other, or the other way round.
Registering == updating # None /\ doing[updating] = "register"

HolderInv ==
  updating # None =>
    /\ doing[updating] # "nothing"
    /\ IF Registering THEN free_ids[slot] = Fd(updating) ELSE free_ids[slot] = INVALID_ID

\* What the kernel's table holds for a slot with this entry in free_ids_.
Backing(file) == IF file \in {INVALID_ID} \cup Rejected THEN NoFile ELSE file

TableInv ==
  table # NoTable =>
    \A i \in Index :
      table[i] = IF updating = None \/ i # slot THEN Backing(free_ids[i])
                 ELSE IF Registering THEN NoFile
                 ELSE Backing(Fd(updating))

\* No read is on its way of a descriptor in a call that may unregister it.
QuietInv == \A t \in Threads : \A fd \in AtRisk(t) : read[fd] = NoRead

\* The slot an SQE names is still the one of its descriptor.
ReadInv == \A fd \in Fds : read[fd] \in Index => fd \in Mapped /\ fd_to_index[fd] = read[fd]

FileInv == TypeOK /\ SlotsAgree /\ HolderInv /\ TableInv /\ QuietInv /\ ReadInv

-----------------------------------------------------------------------------
(* Add's search.                                                            *)

\* As long as the size differs from the capacity, which is what RegisterFile tests, a
\* slot is free.
LEMMA SlotIsFree ==
  ASSUME TypeOK, SlotsAgree, Cardinality(Mapped) # Slots
  PROVE  FreeIndexes # {}
<1>1. IsFiniteSet(Index) /\ Cardinality(Index) = Slots
  BY FileAssumption, FS_Interval DEF Index
<1>2. fd_to_index \in Injection(Mapped, Index)
  BY DEF TypeOK, SlotsAgree, Injection, IsInjective, Mapped
<1>3. ASSUME FreeIndexes = {} PROVE fd_to_index \in Surjection(Mapped, Index)
  BY <1>3 DEF TypeOK, SlotsAgree, Surjection, FreeIndexes
<1>4. QED
  BY <1>1, <1>2, <1>3, FS_Injection

\* A set of slots that is not empty has a least member.
LEMMA LeastIndex ==
  ASSUME NEW S \in SUBSET Index, S # {}
  PROVE  \E i \in S : \A j \in S : i <= j
<1> DEFINE R == {ss \in Nat \X Nat : ss[1] < ss[2]}
<1>1. IsWellFoundedOn(R, Nat)
  BY NatLessThanWellFounded DEF OpToRel
<1>2. S \subseteq Nat
  BY FileAssumption DEF Index
<1>3. PICK i \in S : \A j \in S : ~ (<<j, i>> \in R)
  BY <1>1, <1>2, WFMin
<1>4. ASSUME NEW j \in S PROVE i <= j
  <2>1. i \in Nat /\ j \in Nat
    BY <1>2
  <2>2. j < i => <<j, i>> \in R
    BY <2>1
  <2>3. QED
    BY <1>3, <2>1, <2>2
<1>5. QED
  BY <1>4

\* Add's search ends at a free slot.
LEMMA FirstFreeIsFree ==
  ASSUME TypeOK, SlotsAgree, Cardinality(Mapped) # Slots
  PROVE  FirstFree \in Index /\ free_ids[FirstFree] = INVALID_ID
<1>1. \E i \in FreeIndexes : \A j \in FreeIndexes : i <= j
  BY SlotIsFree, LeastIndex DEF FreeIndexes
<1>2. FirstFree \in FreeIndexes
  BY <1>1 DEF FirstFree
<1>3. QED
  BY <1>2 DEF FreeIndexes

-----------------------------------------------------------------------------
(* The steps of FileInv, one lemma per kind of step.                        *)

\* The types of the variables of the calls.
CallsTyped ==
  /\ doing \in [Threads -> Calls]
  /\ todo \in [Threads -> Seq(Fds)]
  /\ done \in [Threads -> Seq(Fds)]
  /\ before \in [Threads -> SUBSET Fds]
  /\ \A t \in Threads : doing[t] = "nothing" <=> todo[t] = <<>>

\* The empty vector has no element.
LEMMA NoElements == Elements(<<>>) = {}
<1>1. Len(<<>>) = 0
  OBVIOUS
<1>2. QED
  BY <1>1 DEF Elements

\* A thread that moves on, returns or rolls back puts no other descriptor at risk.
LEMMA CallMoves ==
  ASSUME CallsTyped, NEW t \in Threads, doing[t] # "nothing",
         MoveOn(t) \/ RegisterFailed(t)
  PROVE  /\ CallsTyped'
         /\ \A u \in Threads \ {t} : /\ doing'[u] = doing[u]
                                     /\ todo'[u] = todo[u]
                                     /\ done'[u] = done[u]
         /\ \A u \in Threads : AtRisk(u)' \subseteq AtRisk(u)
<1>1. /\ todo[t] \in Seq(Fds) /\ todo[t] # <<>>
      /\ done[t] \in Seq(Fds)
      /\ Len(todo[t]) \in Nat \ {0} /\ Len(done[t]) \in Nat
  BY DEF CallsTyped
<1>2. Fd(t) \in Fds /\ Tail(todo[t]) \in Seq(Fds) /\ Append(done[t], Fd(t)) \in Seq(Fds)
  BY <1>1 DEF Fd
<1>3. CASE Return(t)
  <2>1. CallsTyped'
    <3>1. /\ doing' = [doing EXCEPT ![t] = "nothing"]
          /\ todo' = [todo EXCEPT ![t] = <<>>]
          /\ done' = [done EXCEPT ![t] = <<>>]
          /\ before' = [before EXCEPT ![t] = {}]
      BY <1>3 DEF Return
    <3>2. <<>> \in Seq(Fds) /\ {} \in SUBSET Fds
      OBVIOUS
    <3>3. todo' \in [Threads -> Seq(Fds)] /\ done' \in [Threads -> Seq(Fds)]
      BY <3>1, <3>2 DEF CallsTyped
    <3>4. doing' \in [Threads -> Calls] /\ before' \in [Threads -> SUBSET Fds]
      BY <3>1, <3>2 DEF CallsTyped, Calls
    <3>5. \A u \in Threads : doing'[u] = "nothing" <=> todo'[u] = <<>>
      BY <3>1 DEF CallsTyped
    <3>6. QED
      BY <3>3, <3>4, <3>5 DEF CallsTyped
  <2>2. \A u \in Threads \ {t} : doing'[u] = doing[u] /\ todo'[u] = todo[u] /\ done'[u] = done[u]
    BY <1>3 DEF CallsTyped, Return
  <2>3. todo'[t] = <<>> /\ done'[t] = <<>> /\ doing'[t] = "nothing"
    BY <1>3 DEF CallsTyped, Return
  <2>4. \A u \in Threads : AtRisk(u)' \subseteq AtRisk(u)
    <3>1. AtRisk(t)' = {}
      BY <2>3, NoElements DEF AtRisk
    <3>2. \A u \in Threads \ {t} : AtRisk(u)' = AtRisk(u)
      BY <2>2 DEF AtRisk
    <3>3. QED
      BY <3>1, <3>2
  <2>5. QED
    BY <2>1, <2>2, <2>4
<1>4. CASE MoveOn(t) /\ ~ Return(t)
  <2>1. /\ todo' = [todo EXCEPT ![t] = Tail(todo[t])]
        /\ done' = [done EXCEPT ![t] = Append(done[t], Fd(t))]
        /\ Tail(todo[t]) # <<>>
        /\ doing' = doing /\ before' = before
    BY <1>4 DEF MoveOn
  <2>2. todo'[t] = Tail(todo[t]) /\ done'[t] = Append(done[t], Fd(t)) /\ doing'[t] = doing[t]
    BY <2>1 DEF CallsTyped
  <2>3. \A u \in Threads \ {t} : doing'[u] = doing[u] /\ todo'[u] = todo[u] /\ done'[u] = done[u]
    BY <2>1 DEF CallsTyped
  <2>4. CallsTyped'
    BY <1>2, <2>1, <2>2, <2>3 DEF CallsTyped
  <2>5. /\ Len(todo'[t]) = Len(todo[t]) - 1
        /\ Len(done'[t]) = Len(done[t]) + 1
    BY <1>1, <1>2, <2>2
  <2>6. Elements(todo'[t]) \subseteq Elements(todo[t])
    <3>1. \A k \in 1 .. Len(todo'[t]) : todo'[t][k] = todo[t][k + 1] /\ k + 1 \in 1 .. Len(todo[t])
      BY <1>1, <2>2, <2>5
    <3>2. QED
      BY <3>1 DEF Elements
  <2>7. Elements(done'[t]) \subseteq Elements(done[t]) \cup Elements(todo[t])
    <3>1. \A k \in 1 .. Len(done'[t]) :
             \/ k \in 1 .. Len(done[t]) /\ done'[t][k] = done[t][k]
             \/ done'[t][k] = todo[t][1]
      BY <1>1, <1>2, <2>2, <2>5 DEF Fd
    <3>2. 1 \in 1 .. Len(todo[t])
      BY <1>1
    <3>3. QED
      BY <3>1, <3>2 DEF Elements
  <2>8. Len(todo'[t]) + Len(done'[t]) = Len(todo[t]) + Len(done[t])
    <3> DEFINE a == Len(todo[t])
               b == Len(done[t])
    <3>1. a \in Nat /\ b \in Nat /\ Len(todo'[t]) = a - 1 /\ Len(done'[t]) = b + 1
      BY <1>1, <2>5
    <3> HIDE DEF a, b
    <3>2. Len(todo'[t]) + Len(done'[t]) = a + b
      BY <3>1
    <3>3. QED
      BY <3>2 DEF a, b
  <2>9. AtRisk(t)' \subseteq AtRisk(t)
    BY <2>2, <2>6, <2>7, <2>8 DEF AtRisk
  <2>10. \A u \in Threads \ {t} : AtRisk(u)' = AtRisk(u)
    BY <2>3 DEF AtRisk
  <2>11. QED
    BY <2>3, <2>4, <2>9, <2>10
<1>5. CASE RegisterFailed(t) /\ ~ Return(t)
  <2>1. /\ doing' = [doing EXCEPT ![t] = "roll back"]
        /\ todo' = [todo EXCEPT ![t] = done[t]]
        /\ done' = [done EXCEPT ![t] = <<>>]
        /\ done[t] # <<>>
        /\ before' = before
    BY <1>5 DEF RegisterFailed
  <2>2. todo'[t] = done[t] /\ done'[t] = <<>> /\ doing'[t] = "roll back"
    BY <2>1 DEF CallsTyped
  <2>3. \A u \in Threads \ {t} : doing'[u] = doing[u] /\ todo'[u] = todo[u] /\ done'[u] = done[u]
    BY <2>1 DEF CallsTyped
  <2>4. CallsTyped'
    <3>1. \A u \in Threads : doing'[u] = "nothing" <=> todo'[u] = <<>>
      BY <2>1, <2>2, <2>3 DEF CallsTyped
    <3>2. QED
      <4>1. <<>> \in Seq(Fds)
        OBVIOUS
      <4>2. todo' \in [Threads -> Seq(Fds)]
        BY <1>1, <2>1 DEF CallsTyped
      <4>3. done' \in [Threads -> Seq(Fds)]
        BY <2>1, <4>1 DEF CallsTyped
      <4>4. doing' \in [Threads -> Calls] /\ before' \in [Threads -> SUBSET Fds]
        BY <2>1 DEF CallsTyped, Calls
      <4>5. QED
        BY <3>1, <4>2, <4>3, <4>4 DEF CallsTyped
  <2>5. Len(todo[t]) + Len(done[t]) # 1
    <3>1. \A x \in Seq(Fds) : x # <<>> => Len(x) \in Nat \ {0}
      OBVIOUS
    <3>2. Len(done[t]) \in Nat \ {0}
      BY <1>1, <2>1, <3>1
    <3>3. \A a, b \in Nat \ {0} : a + b # 1
      OBVIOUS
    <3>4. QED
      BY <1>1, <3>2, <3>3
  <2>6. AtRisk(t) = Elements(todo[t]) \cup Elements(done[t])
    BY <2>5 DEF AtRisk
  <2>7. AtRisk(t)' = Elements(done[t])
    BY <2>2, NoElements DEF AtRisk
  <2>8. \A u \in Threads \ {t} : AtRisk(u)' = AtRisk(u)
    BY <2>3 DEF AtRisk
  <2>9. QED
    BY <2>3, <2>4, <2>6, <2>7, <2>8
<1>6. QED
  BY <1>3, <1>4, <1>5 DEF MoveOn, RegisterFailed

\* A call begins.
LEMMA BeginStep ==
  ASSUME FileInv, NEW t \in Threads, NEW what \in {"register", "unregister"},
         NEW fds \in Seq(Fds) \ {<<>>}, Begin(t, what, fds)
  PROVE  FileInv'
<1>1. /\ doing[t] = "nothing"
      /\ doing' = [doing EXCEPT ![t] = what]
      /\ todo' = [todo EXCEPT ![t] = fds]
      /\ before' = [before EXCEPT ![t] = Mapped \cap Owns[t]]
      /\ \A fd \in AtRisk(t)' : read[fd] = NoRead
      /\ UNCHANGED <<done, fd_to_index, free_ids, table, updating, slot, read>>
  BY DEF Begin, OnItsWay
<1>2. CallsTyped /\ Mapped \subseteq Fds
  BY DEF FileInv, TypeOK, CallsTyped
<1>3. CallsTyped'
  <2>1. doing' \in [Threads -> Calls] /\ todo' \in [Threads -> Seq(Fds)] /\ done' \in [Threads -> Seq(Fds)]
    BY <1>1, <1>2 DEF CallsTyped, Calls
  <2>2. before' \in [Threads -> SUBSET Fds]
    BY <1>1, <1>2 DEF CallsTyped
  <2>3. \A u \in Threads : doing'[u] = "nothing" <=> todo'[u] = <<>>
    BY <1>1, <1>2 DEF CallsTyped
  <2>4. QED
    BY <2>1, <2>2, <2>3 DEF CallsTyped
<1>4. \A u \in Threads \ {t} : /\ doing'[u] = doing[u]
                               /\ todo'[u] = todo[u]
                               /\ done'[u] = done[u]
                               /\ AtRisk(u)' = AtRisk(u)
  BY <1>1, <1>2 DEF CallsTyped, AtRisk
<1>5. TypeOK'
  BY <1>1, <1>3 DEF FileInv, TypeOK, CallsTyped, Mapped
<1>6. updating # None => updating \in Threads \ {t}
  BY <1>1 DEF FileInv, HolderInv, TypeOK
<1>7. HolderInv' /\ TableInv'
  BY <1>1, <1>4, <1>6 DEF FileInv, HolderInv, TableInv, Registering, Fd, Backing
<1>8. QuietInv'
  BY <1>1, <1>4 DEF FileInv, QuietInv
<1>9. SlotsAgree' /\ ReadInv'
  BY <1>1 DEF FileInv, SlotsAgree, ReadInv, Mapped
<1>10. QED
  BY <1>5, <1>7, <1>8, <1>9 DEF FileInv

\* RegisterFile fills a free slot.
LEMMA RegisterStep ==
  ASSUME FileInv, NEW t \in Threads, RegisterFile(t)
  PROVE  FileInv'
<1>1. /\ doing[t] = "register"
      /\ updating = None
      /\ Fd(t) \notin Mapped
      /\ Cardinality(Mapped) # Slots
      /\ slot' = FirstFree
      /\ fd_to_index' = [f \in Mapped \cup {Fd(t)} |-> IF f = Fd(t) THEN FirstFree ELSE fd_to_index[f]]
      /\ free_ids' = [free_ids EXCEPT ![FirstFree] = Fd(t)]
      /\ updating' = t
      /\ UNCHANGED <<table, callVars, read>>
  BY DEF RegisterFile, Add
<1>2. UNCHANGED <<doing, todo, done, before>>
  BY <1>1 DEF callVars
<1>3. FirstFree \in Index /\ free_ids[FirstFree] = INVALID_ID
  BY <1>1, FirstFreeIsFree DEF FileInv
<1>4. Fd(t) \in Fds /\ Fd(t) # INVALID_ID
  BY <1>1, FileAssumption DEF FileInv, TypeOK, Fd, INVALID_ID
<1>5. Mapped' = Mapped \cup {Fd(t)}
  BY <1>1 DEF Mapped
<1>6. TypeOK'
  <2>1. Mapped' \subseteq Fds /\ fd_to_index' \in [Mapped' -> Index]
    BY <1>1, <1>3, <1>4, <1>5 DEF FileInv, TypeOK
  <2>2. free_ids' \in [Index -> Fds \cup {INVALID_ID}] /\ slot' \in Index
    BY <1>1, <1>3, <1>4 DEF FileInv, TypeOK
  <2>3. QED
    BY <1>1, <1>2, <2>1, <2>2 DEF FileInv, TypeOK
<1>7. SlotsAgree'
  <2>1. \A fd \in Mapped' : free_ids'[fd_to_index'[fd]] = fd
    <3>1. free_ids \in [Index -> Fds \cup {INVALID_ID}]
      BY DEF FileInv, TypeOK
    <3>2. free_ids'[FirstFree] = Fd(t) /\ fd_to_index'[Fd(t)] = FirstFree
      BY <1>1, <1>3, <3>1
    <3>3. ASSUME NEW fd \in Mapped PROVE free_ids'[fd_to_index'[fd]] = fd
      <4>1. fd # Fd(t) /\ fd_to_index'[fd] = fd_to_index[fd]
        BY <1>1, <3>3
      <4>2. fd_to_index[fd] \in Index /\ free_ids[fd_to_index[fd]] = fd /\ fd # INVALID_ID
        BY <3>3, FileAssumption DEF FileInv, TypeOK, SlotsAgree, INVALID_ID
      <4>3. fd_to_index[fd] # FirstFree
        BY <1>3, <4>2
      <4>4. QED
        BY <1>1, <3>1, <4>1, <4>2, <4>3
    <3>4. QED
      BY <1>5, <3>2, <3>3
  <2>2. ASSUME NEW i \in Index, free_ids'[i] # INVALID_ID
        PROVE  free_ids'[i] \in Mapped' /\ fd_to_index'[free_ids'[i]] = i
    BY <1>1, <1>3, <1>4, <1>5, <2>2 DEF FileInv, SlotsAgree, TypeOK
  <2>3. QED
    BY <2>1, <2>2 DEF SlotsAgree
<1>8. t # None
  BY FileAssumption
<1>9. HolderInv'
  BY <1>1, <1>2, <1>3, <1>8 DEF HolderInv, Registering, Fd, FileInv, TypeOK
<1>10. TableInv'
  BY <1>1, <1>2, <1>3, <1>8 DEF FileInv, TableInv, TypeOK, Registering, Backing
<1>11. QuietInv'
  BY <1>1, <1>2 DEF FileInv, QuietInv, AtRisk
<1>12. ReadInv'
  BY <1>1, <1>5 DEF FileInv, ReadInv
<1>13. QED
  BY <1>6, <1>7, <1>9, <1>10, <1>11, <1>12 DEF FileInv

\* UnregisterFile frees the slot.
LEMMA UnregisterStep ==
  ASSUME FileInv, NEW t \in Threads, UnregisterFile(t)
  PROVE  FileInv'
<1>1. /\ doing[t] \in {"unregister", "roll back"}
      /\ updating = None
      /\ Fd(t) \in Mapped
      /\ slot' = fd_to_index[Fd(t)]
      /\ fd_to_index' = [f \in Mapped \ {Fd(t)} |-> fd_to_index[f]]
      /\ free_ids' = [free_ids EXCEPT ![fd_to_index[Fd(t)]] = INVALID_ID]
      /\ updating' = t
      /\ UNCHANGED <<table, callVars, read>>
  BY DEF UnregisterFile, Unregisters, Remove
<1>2. UNCHANGED <<doing, todo, done, before>>
  BY <1>1 DEF callVars
<1>3. fd_to_index[Fd(t)] \in Index /\ free_ids[fd_to_index[Fd(t)]] = Fd(t)
  BY <1>1 DEF FileInv, TypeOK, SlotsAgree
<1>4. Mapped' = Mapped \ {Fd(t)}
  BY <1>1 DEF Mapped
<1>5. TypeOK'
  <2>1. Mapped' \subseteq Fds /\ fd_to_index' \in [Mapped' -> Index]
    BY <1>1, <1>4 DEF FileInv, TypeOK
  <2>2. free_ids' \in [Index -> Fds \cup {INVALID_ID}] /\ slot' \in Index
    BY <1>1, <1>3 DEF FileInv, TypeOK
  <2>3. QED
    BY <1>1, <1>2, <2>1, <2>2 DEF FileInv, TypeOK
<1>6. SlotsAgree'
  <2>1. \A fd \in Mapped' : free_ids'[fd_to_index'[fd]] = fd
    BY <1>1, <1>3, <1>4 DEF FileInv, SlotsAgree, TypeOK
  <2>2. ASSUME NEW i \in Index, free_ids'[i] # INVALID_ID
        PROVE  free_ids'[i] \in Mapped' /\ fd_to_index'[free_ids'[i]] = i
    BY <1>1, <1>3, <1>4, <2>2 DEF FileInv, SlotsAgree, TypeOK
  <2>3. QED
    BY <2>1, <2>2 DEF SlotsAgree
<1>7. t # None
  BY FileAssumption
<1>8. ~ Registering'
  BY <1>1, <1>2 DEF Registering
<1>9. HolderInv'
  BY <1>1, <1>2, <1>3, <1>8 DEF HolderInv, FileInv, TypeOK
<1>10. TableInv'
  BY <1>1, <1>2, <1>3, <1>7, <1>8 DEF FileInv, TableInv, TypeOK, Backing, Fd
<1>11. QuietInv'
  BY <1>1, <1>2 DEF FileInv, QuietInv, AtRisk
<1>12. ReadInv'
  <2>1. todo[t] \in Seq(Fds) /\ todo[t] # <<>>
    BY <1>1 DEF FileInv, TypeOK
  <2>2. 1 \in 1 .. Len(todo[t]) /\ Fd(t) = todo[t][1]
    BY <2>1 DEF Fd
  <2>3. Fd(t) \in AtRisk(t)
    BY <1>1, <2>2 DEF AtRisk, Elements
  <2>4. read[Fd(t)] = NoRead /\ NoRead \notin Index
    BY <2>3, FileAssumption DEF FileInv, QuietInv, Index
  <2>5. QED
    BY <1>1, <1>4, <2>4 DEF FileInv, ReadInv
<1>13. QED
  BY <1>5, <1>6, <1>9, <1>10, <1>11, <1>12 DEF FileInv

\* A step that only moves a call on, or fails it, with files_mutex_ free before and after.
LEMMA CallStep ==
  ASSUME FileInv, NEW t \in Threads, doing[t] # "nothing", updating = None,
         MoveOn(t) \/ RegisterFailed(t),
         UNCHANGED <<fd_to_index, free_ids, table, updating, slot, read>>
  PROVE  FileInv'
<1>1. CallsTyped
  BY DEF FileInv, TypeOK, CallsTyped
<1>2. CallsTyped' /\ \A u \in Threads : AtRisk(u)' \subseteq AtRisk(u)
  BY <1>1, CallMoves
<1>3. TypeOK'
  BY <1>2 DEF FileInv, TypeOK, CallsTyped, Mapped
<1>4. SlotsAgree' /\ ReadInv' /\ HolderInv'
  BY DEF FileInv, SlotsAgree, ReadInv, Mapped, HolderInv
<1>5. TableInv'
  BY DEF FileInv, TableInv, Backing
<1>6. QuietInv'
  BY <1>2 DEF FileInv, QuietInv
<1>7. QED
  BY <1>3, <1>4, <1>5, <1>6 DEF FileInv

\* The kernel's table follows, or does not, and files_mutex_ is released.
LEMMA UpdateStep ==
  ASSUME FileInv, NEW t \in Threads, RegisterUpdate(t) \/ UnregisterUpdate(t)
  PROVE  FileInv'
<1>1. /\ updating = t /\ t # None
      /\ doing[t] # "nothing"
      /\ MoveOn(t) \/ RegisterFailed(t)
      /\ updating' = None
      /\ UNCHANGED <<fd_to_index, free_ids, slot, read>>
  BY FileAssumption DEF RegisterUpdate, UnregisterUpdate
<1>2. CallsTyped
  BY DEF FileInv, TypeOK, CallsTyped
<1>3. CallsTyped' /\ \A u \in Threads : AtRisk(u)' \subseteq AtRisk(u)
  BY <1>1, <1>2, CallMoves
<1>4. SlotsAgree' /\ ReadInv' /\ HolderInv'
  BY <1>1 DEF FileInv, SlotsAgree, ReadInv, Mapped, HolderInv
<1>5. QuietInv'
  BY <1>1, <1>3 DEF FileInv, QuietInv
<1>6. slot \in Index /\ table \in [Index -> Fds \cup {NoFile}] \cup {NoTable}
  BY DEF FileInv, TypeOK
<1>7. NoTable \notin [Index -> Fds \cup {NoFile}] /\ 0 \in Index
  BY FileAssumption DEF NoTable, Index
<1>8. table' \in [Index -> Fds \cup {NoFile}] \cup {NoTable} /\ TableInv'
  <2>1. CASE table = NoTable
    <3>1. slot \notin DOMAIN table
      BY <2>1 DEF NoTable
    <3>2. table' = table
      BY <3>1 DEF RegisterUpdate, UnregisterUpdate, KernelUpdates
    <3>3. QED
      BY <1>6, <2>1, <3>2 DEF TableInv
  <2>2. CASE table # NoTable
    <3>1. table \in [Index -> Fds \cup {NoFile}] /\ slot \in DOMAIN table
      BY <1>6, <2>2
    <3>2. \A i \in Index : i # slot => table[i] = Backing(free_ids[i])
      BY <1>1, <2>2 DEF FileInv, TableInv
    <3>3. CASE RegisterUpdate(t)
      <4>1. Registering /\ free_ids[slot] = Fd(t) /\ table[slot] = NoFile
        BY <1>1, <1>6, <2>2, <3>3 DEF RegisterUpdate, Registering, FileInv, HolderInv, TableInv
      <4>2. Fd(t) \in Fds /\ Fd(t) # INVALID_ID
        BY <1>1, <1>2, FileAssumption DEF CallsTyped, Fd, INVALID_ID
      <4>3. table' = IF Fd(t) \in Rejected THEN table ELSE [table EXCEPT ![slot] = Fd(t)]
        BY <3>1, <3>3 DEF RegisterUpdate, KernelUpdates
      <4>4. table' \in [Index -> Fds \cup {NoFile}]
        BY <3>1, <4>2, <4>3
      <4>5. \A i \in Index : table'[i] = Backing(free_ids[i])
        BY <1>6, <3>1, <3>2, <4>1, <4>2, <4>3 DEF Backing
      <4>6. QED
        BY <1>1, <4>4, <4>5 DEF TableInv, Backing
    <3>4. CASE UnregisterUpdate(t)
      <4>1. ~ Registering /\ free_ids[slot] = INVALID_ID
        BY <1>1, <3>4 DEF UnregisterUpdate, Registering, FileInv, HolderInv
      <4>2. table' = [table EXCEPT ![slot] = NoFile]
        BY <3>1, <3>4 DEF UnregisterUpdate, KernelUpdates
      <4>3. table' \in [Index -> Fds \cup {NoFile}]
        BY <3>1, <4>2
      <4>4. \A i \in Index : table'[i] = Backing(free_ids[i])
        BY <1>6, <3>1, <3>2, <4>1, <4>2 DEF Backing
      <4>5. QED
        BY <1>1, <4>3, <4>4 DEF TableInv, Backing
    <3>5. QED
      BY <3>3, <3>4
  <2>3. QED
    BY <2>1, <2>2
<1>9. TypeOK'
  BY <1>1, <1>3, <1>8 DEF FileInv, TypeOK, CallsTyped, Mapped
<1>10. QED
  BY <1>4, <1>5, <1>8, <1>9 DEF FileInv

\* The whole table is unregistered.
LEMMA UnregisterAllStep ==
  ASSUME FileInv, UnregisterFiles \/ \E t \in Threads : UnregisterFileEmpty(t)
  PROVE  FileInv'
<1>1. /\ table' = NoTable
      /\ updating = None /\ updating' = None
      /\ UNCHANGED <<slot, read>>
      /\ \/ UNCHANGED <<fd_to_index, free_ids>>
         \/ CleanUp
      /\ \/ UNCHANGED callVars
         \/ \E t \in Threads : doing[t] # "nothing" /\ MoveOn(t)
      /\ Mapped = {} \/ \A fd \in Fds : read[fd] = NoRead
  <2>1. (\A u \in Threads : doing[u] = "nothing") => updating = None
    BY DEF FileInv, HolderInv, TypeOK
  <2>2. QED
    BY <2>1 DEF UnregisterFileEmpty, UnregisterFiles, UnregisterAll, Unregisters, OnItsWay
<1>2. CallsTyped
  BY DEF FileInv, TypeOK, CallsTyped
<1>3. CallsTyped' /\ \A u \in Threads : AtRisk(u)' \subseteq AtRisk(u)
  <2>1. CASE UNCHANGED callVars
    BY <1>2, <2>1 DEF callVars, CallsTyped, AtRisk
  <2>2. CASE \E t \in Threads : doing[t] # "nothing" /\ MoveOn(t)
    BY <1>2, <2>2, CallMoves
  <2>3. QED
    BY <1>1, <2>1, <2>2
<1>4. \A fd \in Fds : read[fd] \notin Index
  BY <1>1, FileAssumption DEF FileInv, ReadInv, Index
<1>5. QuietInv' /\ ReadInv' /\ HolderInv' /\ TableInv'
  BY <1>1, <1>3, <1>4 DEF FileInv, QuietInv, ReadInv, HolderInv, TableInv
<1>6. /\ Mapped' \subseteq Fds
      /\ fd_to_index' \in [Mapped' -> Index]
      /\ free_ids' \in [Index -> Fds \cup {INVALID_ID}]
      /\ SlotsAgree'
  <2>1. CASE UNCHANGED <<fd_to_index, free_ids>>
    BY <2>1 DEF FileInv, TypeOK, SlotsAgree, Mapped
  <2>2. CASE CleanUp
    <3>1. Mapped' = {}
      BY <2>2 DEF CleanUp, Mapped
    <3>2. QED
      BY <2>2, <3>1 DEF CleanUp, SlotsAgree, Mapped
  <2>3. QED
    BY <1>1, <2>1, <2>2
<1>7. TypeOK'
  BY <1>1, <1>3, <1>6 DEF FileInv, TypeOK, CallsTyped
<1>8. QED
  BY <1>5, <1>6, <1>7 DEF FileInv

\* A read is queued, prepared or performed.
LEMMA ReadStep ==
  ASSUME FileInv, NEW fd \in Fds, Reads(fd)
  PROVE  FileInv'
<1>1. UNCHANGED <<fd_to_index, free_ids, table, callVars, updating, slot>>
  BY DEF Reads, QueueRead, LookUp, KernelReads
<1>2. UNCHANGED <<doing, todo, done, before>>
  BY <1>1 DEF callVars
<1>3. \A u \in Threads : AtRisk(u)' = AtRisk(u)
  BY <1>2 DEF AtRisk
<1>4. /\ SlotsAgree'
      /\ HolderInv'
      /\ TableInv'
  BY <1>1, <1>2 DEF FileInv, SlotsAgree, HolderInv, TableInv, Registering, Fd, Backing, Mapped
<1>5. read \in [Fds -> {NoRead, Queued} \cup Index] /\ (\A u \in Threads : \A f \in AtRisk(u) : read[f] = NoRead)
  BY DEF FileInv, TypeOK, QuietInv
<1>6. /\ NoRead \notin Index
      /\ Queued \notin Index
      /\ Queued # NoRead
  BY FileAssumption DEF Index
<1>7. \E new \in {NoRead, Queued} \cup Index :
        /\ read' = [read EXCEPT ![fd] = new]
        /\ new \in Index => fd \in Mapped /\ new = fd_to_index[fd]
        /\ new = NoRead \/ \A u \in Threads : fd \notin AtRisk(u)
  <2>1. CASE read' = [read EXCEPT ![fd] = NoRead]
    <3>1. NoRead \in {NoRead, Queued} \cup Index
      OBVIOUS
    <3>2. QED
      BY <1>6, <2>1, <3>1
  <2>2. CASE QueueRead(fd)
    <3>1. /\ read' = [read EXCEPT ![fd] = Queued]
          /\ \A u \in Threads : fd \notin AtRisk(u)
      BY <2>2 DEF QueueRead
    <3>2. Queued \in {NoRead, Queued} \cup Index
      OBVIOUS
    <3>3. QED
      BY <1>6, <3>1, <3>2
  <2>3. CASE fd \in Mapped /\ read[fd] = Queued /\ read' = [read EXCEPT ![fd] = fd_to_index[fd]]
    <3>1. \A u \in Threads : fd \notin AtRisk(u)
      BY <1>5, <1>6, <2>3
    <3>2. fd_to_index[fd] \in {NoRead, Queued} \cup Index
      BY <2>3 DEF FileInv, TypeOK
    <3>3. QED
      BY <2>3, <3>1, <3>2
  <2>4. QED
    BY <2>1, <2>2, <2>3 DEF Reads, LookUp, KernelReads
<1>8. PICK new \in {NoRead, Queued} \cup Index :
        /\ read' = [read EXCEPT ![fd] = new]
        /\ new \in Index => fd \in Mapped /\ new = fd_to_index[fd]
        /\ new = NoRead \/ \A u \in Threads : fd \notin AtRisk(u)
  BY <1>7
<1>9. read' \in [Fds -> {NoRead, Queued} \cup Index]
  BY <1>5, <1>8
<1>10. TypeOK'
  BY <1>1, <1>2, <1>9 DEF FileInv, TypeOK, Mapped
<1>11. QuietInv'
  <2>1. ASSUME NEW u \in Threads, NEW f \in AtRisk(u) PROVE read'[f] = NoRead
    <3>1. read[f] = NoRead /\ f \in Fds
      <4>1. todo[u] \in Seq(Fds) /\ done[u] \in Seq(Fds)
        BY DEF FileInv, TypeOK
      <4>2. Elements(todo[u]) \subseteq Fds /\ Elements(done[u]) \subseteq Fds
        BY <4>1 DEF Elements
      <4>3. QED
        BY <1>5, <4>2 DEF AtRisk
    <3>2. f = fd => new = NoRead
      BY <1>8
    <3>3. QED
      BY <1>5, <1>8, <3>1, <3>2
  <2>2. QED
    BY <1>3, <2>1 DEF QuietInv
<1>12. ReadInv'
  BY <1>1, <1>5, <1>8 DEF FileInv, ReadInv, Mapped
<1>13. QED
  BY <1>4, <1>10, <1>11, <1>12 DEF FileInv

-----------------------------------------------------------------------------

\* Init establishes the invariant: an empty container and a table of empty slots.
LEMMA FileInitially == Init => FileInv
<1> SUFFICES ASSUME Init PROVE FileInv
  OBVIOUS
<1>1. Mapped = {} /\ 0 \in Index
  BY FileAssumption DEF Init, Mapped, Index
<1>2. TypeOK
  <2>1. <<>> \in Seq(Fds) /\ {} \in SUBSET Fds
    OBVIOUS
  <2>2. /\ todo \in [Threads -> Seq(Fds)] /\ done \in [Threads -> Seq(Fds)]
        /\ doing \in [Threads -> Calls] /\ before \in [Threads -> SUBSET Fds]
    BY <2>1 DEF Init, Calls
  <2>3. fd_to_index \in [Mapped -> Index]
    BY <1>1 DEF Init, Mapped
  <2>4. \A t \in Threads : doing[t] = "nothing" <=> todo[t] = <<>>
    BY DEF Init
  <2>5. /\ free_ids \in [Index -> Fds \cup {INVALID_ID}]
        /\ table \in [Index -> Fds \cup {NoFile}]
        /\ read \in [Fds -> {NoRead, Queued} \cup Index]
    BY DEF Init
  <2>6. updating = None /\ slot = 0
    BY DEF Init
  <2>7. QED
    BY <1>1, <2>2, <2>3, <2>4, <2>5, <2>6 DEF TypeOK
<1>3. SlotsAgree
  BY <1>1 DEF Init, SlotsAgree
<1>4. HolderInv /\ TableInv
  BY DEF Init, HolderInv, TableInv, Backing
<1>5. QuietInv
  <2>1. \A t \in Threads : AtRisk(t) = {}
    BY NoElements DEF Init, AtRisk
  <2>2. QED
    BY <2>1 DEF QuietInv
<1>6. ReadInv
  BY FileAssumption DEF Init, ReadInv, Index
<1>7. QED
  BY <1>2, <1>3, <1>4, <1>5, <1>6 DEF FileInv

\* Every step keeps the invariant.
LEMMA FileInductive == FileInv /\ [Next]_vars => FileInv'
<1> SUFFICES ASSUME FileInv, [Next]_vars PROVE FileInv'
  OBVIOUS
<1>1. ASSUME NEW t \in Threads, CallSteps(t) PROVE FileInv'
  <2>1. CASE \E fds \in Lists : CallRegisterFiles(t, fds)
    BY <2>1, BeginStep, FileAssumption DEF CallRegisterFiles
  <2>2. CASE \E fd \in Owns[t] : CallUnregisterFile(t, fd)
    <3>1. PICK fd \in Owns[t] : Begin(t, "unregister", <<fd>>)
      BY <2>2 DEF CallUnregisterFile
    <3>2. fd \in Fds
      BY FileAssumption
    <3>3. <<fd>> \in Seq(Fds) \ {<<>>}
      BY <3>2
    <3>4. QED
      BY <3>1, <3>3, BeginStep
  <2>3. CASE RegisterFile(t)
    BY <2>3, RegisterStep
  <2>4. CASE RegisterFileRefused(t)
    BY <2>4, CallStep DEF RegisterFileRefused
  <2>5. CASE RegisterUpdate(t) \/ UnregisterUpdate(t)
    BY <2>5, UpdateStep
  <2>6. CASE UnregisterFile(t)
    BY <2>6, UnregisterStep
  <2>7. CASE UnregisterFileNotFound(t)
    BY <2>7, CallStep DEF UnregisterFileNotFound, Unregisters
  <2>8. CASE UnregisterFileEmpty(t)
    BY <2>8, UnregisterAllStep
  <2>9. QED
    BY <1>1, <2>1, <2>2, <2>3, <2>4, <2>5, <2>6, <2>7, <2>8 DEF CallSteps
<1>2. CASE UnregisterFiles
  BY <1>2, UnregisterAllStep
<1>3. ASSUME NEW fd \in Fds, Reads(fd) PROVE FileInv'
  BY <1>3, ReadStep
<1>4. CASE UNCHANGED vars
  <2>1. UNCHANGED <<fd_to_index, free_ids, table, doing, todo, done, before, updating, slot, read>>
    BY <1>4 DEF vars, callVars
  <2>2. TypeOK'
    BY <2>1 DEF FileInv, TypeOK, Mapped
  <2>3. SlotsAgree' /\ HolderInv' /\ ReadInv'
    BY <2>1 DEF FileInv, SlotsAgree, HolderInv, ReadInv, Registering, Fd, Mapped
  <2>4. TableInv' /\ QuietInv'
    BY <2>1 DEF FileInv, TableInv, QuietInv, AtRisk, Registering, Fd, Backing
  <2>5. QED
    BY <2>2, <2>3, <2>4 DEF FileInv
<1>5. QED
  BY <1>1, <1>2, <1>3, <1>4 DEF Next

\* The invariant holds in every behaviour.
THEOREM FilesInvariant == Spec => []FileInv
<1>1. QED
  BY FileInitially, FileInductive, PTL DEF Spec

\* Every variable keeps its type: the slots of the container are slots of the table.
THEOREM FilesTypeCorrect == Spec => []TypeOK
<1>1. FileInv => TypeOK
  BY DEF FileInv
<1>2. QED
  BY <1>1, FilesInvariant, PTL

\* fd_to_index_ and free_ids_ stay inverse to each other.
THEOREM ContainerIsConsistent == Spec => []SlotsAgree
<1>1. FileInv => SlotsAgree
  BY DEF FileInv
<1>2. QED
  BY <1>1, FilesInvariant, PTL

\* With files_mutex_ free, the kernel's table is what the container says.
THEOREM KernelFollowsContainer == Spec => []KernelAgrees
<1>1. FileInv => KernelAgrees
  BY DEF FileInv, TableInv, KernelAgrees, Backing
<1>2. QED
  BY <1>1, FilesInvariant, PTL

\* No read reaches another file than the one asked for.
THEOREM ReadsAreSafe == Spec => []ReadsReachTheirFile
<1>1. FileInv => ReadsReachTheirFile
  <2> SUFFICES ASSUME FileInv, NEW fd \in Fds, read[fd] \in Index, table # NoTable
               PROVE  table[read[fd]] \in {fd, NoFile}
    BY DEF ReadsReachTheirFile
  <2>1. free_ids[read[fd]] = fd /\ fd # INVALID_ID
    BY FileAssumption DEF FileInv, ReadInv, SlotsAgree, INVALID_ID
  <2>2. updating # None /\ read[fd] = slot => Registering
    BY <2>1 DEF FileInv, HolderInv
  <2>3. QED
    BY <2>1, <2>2 DEF FileInv, TableInv, Backing
<1>2. QED
  BY <1>1, FilesInvariant, PTL

-----------------------------------------------------------------------------
(* What a RegisterFiles has done so far.                                    *)

\* No two threads register or unregister the same descriptor.
OwnersApart == \A t, u \in Threads : t # u => Owns[t] \cap Owns[u] = {}

Distinct(s) == \A i, j \in 1 .. Len(s) : s[i] = s[j] => i = j

\* The descriptors of a vector that the call of t has mapped and not unmapped again.
Added(t) ==
  IF doing[t] = "register" THEN Elements(done[t]) \cup (IF updating = t THEN {Fd(t)} ELSE {})
  ELSE IF updating = t THEN Elements(Tail(todo[t])) ELSE Elements(todo[t])

Accepted(S) == S \ Rejected

\* These, and what was mapped when the call began, is what is mapped now, but for what the
\* kernel refuses; and each of these was not mapped, and is in the vector once.
CallOf(t) ==
  doing[t] \in {"register", "roll back"} /\ table # NoTable =>
    /\ Accepted(Mapped \cap Owns[t]) = Accepted(before[t] \cup Added(t))
    /\ doing[t] = "register" =>
         /\ Distinct(done[t]) /\ Elements(done[t]) \cap (before[t] \cup Rejected) = {}
         /\ updating = t => Fd(t) \notin Accepted(before[t] \cup Elements(done[t]))
    /\ doing[t] = "roll back" =>
         /\ Distinct(todo[t]) /\ Elements(todo[t]) \cap (before[t] \cup Rejected) = {}

\* The vectors of a call are of its thread's descriptors; a new call starts with none done.
VectorOf(t) ==
  /\ Elements(todo[t]) \cup Elements(done[t]) \subseteq Owns[t]
  /\ doing[t] = "nothing" => done[t] = <<>>

HistoryInv == \A t \in Threads : CallOf(t) /\ VectorOf(t)

\* The head of a vector, and the rest.
LEMMA VectorHead ==
  ASSUME NEW s \in Seq(Fds), s # <<>>
  PROVE  /\ Elements(s) = {Head(s)} \cup Elements(Tail(s))
         /\ Distinct(s) => Distinct(Tail(s)) /\ Head(s) \notin Elements(Tail(s))
<1>1. /\ Len(s) \in Nat \ {0} /\ Len(Tail(s)) = Len(s) - 1 /\ Head(s) = s[1]
      /\ \A k \in 1 .. Len(Tail(s)) : Tail(s)[k] = s[k + 1]
  OBVIOUS
<1>2. /\ 1 \in 1 .. Len(s)
      /\ \A k \in 1 .. Len(Tail(s)) : k + 1 \in 1 .. Len(s) /\ k + 1 # 1
      /\ \A k \in 1 .. Len(s) : k # 1 => k - 1 \in 1 .. Len(Tail(s)) /\ (k - 1) + 1 = k
      /\ \A k, l \in 1 .. Len(Tail(s)) : k + 1 = l + 1 => k = l
  BY <1>1
<1>3. \A k \in 1 .. Len(s) : k # 1 => Tail(s)[k - 1] = s[k]
  BY <1>1, <1>2
<1>4. Elements(s) = {Head(s)} \cup Elements(Tail(s))
  BY <1>1, <1>2, <1>3 DEF Elements
<1>5. Distinct(s) => Distinct(Tail(s)) /\ Head(s) \notin Elements(Tail(s))
  BY <1>1, <1>2 DEF Distinct, Elements
<1>6. QED
  BY <1>4, <1>5

\* One more element.
LEMMA VectorGrows ==
  ASSUME NEW s \in Seq(Fds), NEW x \in Fds
  PROVE  /\ Elements(Append(s, x)) = Elements(s) \cup {x}
         /\ Distinct(s) /\ x \notin Elements(s) => Distinct(Append(s, x))
<1>1. /\ Len(s) \in Nat /\ Len(Append(s, x)) = Len(s) + 1
      /\ Append(s, x)[Len(s) + 1] = x
      /\ \A k \in 1 .. Len(s) : Append(s, x)[k] = s[k]
  OBVIOUS
<1>2. /\ \A k \in 1 .. Len(Append(s, x)) : k \in 1 .. Len(s) \/ k = Len(s) + 1
      /\ \A k \in 1 .. Len(s) : k \in 1 .. Len(Append(s, x)) /\ k # Len(s) + 1
      /\ Len(s) + 1 \in 1 .. Len(Append(s, x))
  BY <1>1
<1>3. Elements(Append(s, x)) = Elements(s) \cup {x}
  BY <1>1, <1>2 DEF Elements
<1>4. Distinct(s) /\ x \notin Elements(s) => Distinct(Append(s, x))
  BY <1>1, <1>2 DEF Distinct, Elements
<1>5. QED
  BY <1>3, <1>4

\* What other threads, reads and the kernel do leaves the call of t alone.
LEMMA CallKept ==
  ASSUME NEW t \in Threads, CallOf(t), VectorOf(t),
         doing'[t] = doing[t], todo'[t] = todo[t], done'[t] = done[t], before'[t] = before[t],
         updating' = t <=> updating = t, table' # NoTable => table # NoTable,
         table' = NoTable \/ Mapped' \cap Owns[t] = Mapped \cap Owns[t]
  PROVE  CallOf(t)' /\ VectorOf(t)'
<1>1. Added(t)' = Added(t) /\ Fd(t)' = Fd(t)
  BY DEF Added, Fd
<1>2. VectorOf(t)'
  BY DEF VectorOf
<1>3. CallOf(t)'
  BY <1>1 DEF CallOf, Accepted
<1>4. QED
  BY <1>2, <1>3

\* The vector of t moves on or its call fails: no new descriptor comes into it.
LEMMA VectorKept ==
  ASSUME TypeOK, NEW t \in Threads, doing[t] # "nothing", MoveOn(t) \/ RegisterFailed(t), VectorOf(t)
  PROVE  VectorOf(t)'
<1>1. todo[t] \in Seq(Fds) /\ todo[t] # <<>> /\ done[t] \in Seq(Fds) /\ Fd(t) \in Fds
  BY DEF TypeOK, Fd
<1>2. /\ Elements(todo[t]) = {Fd(t)} \cup Elements(Tail(todo[t]))
      /\ Elements(Append(done[t], Fd(t))) = Elements(done[t]) \cup {Fd(t)}
      /\ Elements(<<>>) = {}
  BY <1>1, VectorHead, VectorGrows, NoElements DEF Fd
<1>3. \/ todo'[t] = <<>> /\ done'[t] = <<>>
      \/ todo'[t] = Tail(todo[t]) /\ done'[t] = Append(done[t], Fd(t)) /\ doing'[t] # "nothing"
      \/ todo'[t] = done[t] /\ done'[t] = <<>>
  BY DEF MoveOn, RegisterFailed, Return, TypeOK
<1>4. QED
  BY <1>2, <1>3 DEF VectorOf

\* What AllOrNothing says of thread t.
Honest(t) == table # NoTable /\ Fails(t) => Accepted(Mapped' \cap Owns[t]) = Accepted(before[t])

\* A thread moves on or fails alone.
LEMMA MovesAlone ==
  ASSUME TypeOK, NEW t \in Threads, MoveOn(t) \/ RegisterFailed(t)
  PROVE  \A u \in Threads \ {t} : /\ doing'[u] = doing[u] /\ todo'[u] = todo[u]
                                  /\ done'[u] = done[u] /\ before'[u] = before[u]
BY DEF MoveOn, RegisterFailed, Return, TypeOK

\* A step of the call of t, as far as other threads are concerned.
LEMMA OthersKept ==
  ASSUME FileInv, OwnersApart, HistoryInv, NEW t \in Threads,
         \A u \in Threads \ {t} : /\ doing'[u] = doing[u] /\ todo'[u] = todo[u]
                                  /\ done'[u] = done[u] /\ before'[u] = before[u],
         {updating, updating'} \subseteq {t, None},
         table' # NoTable => /\ table # NoTable
                             /\ \A fd \in Fds \ Owns[t] : fd \in Mapped' <=> fd \in Mapped,
         CallOf(t)', VectorOf(t)', Honest(t)
  PROVE  HistoryInv' /\ \A u \in Threads : Honest(u)
<1>1. ASSUME NEW u \in Threads, u # t PROVE CallOf(u)' /\ VectorOf(u)' /\ Honest(u)
  <2>1. Owns[u] \subseteq Fds \ Owns[t]
    BY <1>1, FileAssumption DEF OwnersApart
  <2>2. updating' = u <=> updating = u
    BY <1>1, FileAssumption
  <2>3. table' = NoTable \/ Mapped' \cap Owns[u] = Mapped \cap Owns[u]
    BY <2>1
  <2>4. CallOf(u)' /\ VectorOf(u)'
    BY <1>1, <2>2, <2>3, CallKept DEF HistoryInv
  <2>5. Honest(u)
    BY <1>1 DEF Honest, Fails
  <2>6. QED
    BY <2>4, <2>5
<1>2. QED
  BY <1>1 DEF HistoryInv

\* A call begins: nothing of it is done.
LEMMA BeginKept ==
  ASSUME FileInv, OwnersApart, HistoryInv, NEW t \in Threads, NEW what \in {"register", "unregister"},
         NEW fds \in Seq(Fds) \ {<<>>}, Begin(t, what, fds)
  PROVE  HistoryInv' /\ \A u \in Threads : Honest(u)
<1>1. /\ doing[t] = "nothing" /\ Elements(fds) \subseteq Owns[t]
      /\ doing' = [doing EXCEPT ![t] = what] /\ todo' = [todo EXCEPT ![t] = fds]
      /\ before' = [before EXCEPT ![t] = Mapped \cap Owns[t]] /\ done' = done
      /\ UNCHANGED <<fd_to_index, free_ids, table, updating, slot, read>>
  BY DEF Begin
<1>2. TypeOK /\ done[t] = <<>> /\ Len(<<>>) = 0 /\ Mapped' = Mapped
  BY <1>1 DEF FileInv, HistoryInv, VectorOf, Mapped
<1>3. updating # t /\ {updating, updating'} \subseteq Threads \cup {None}
  BY <1>1, <1>2, FileAssumption DEF FileInv, HolderInv, TypeOK
<1>4. /\ doing'[t] = what /\ todo'[t] = fds /\ before'[t] = Mapped \cap Owns[t]
      /\ \A u \in Threads \ {t} : /\ doing'[u] = doing[u] /\ todo'[u] = todo[u]
                                  /\ done'[u] = done[u] /\ before'[u] = before[u]
  BY <1>1, <1>2 DEF TypeOK
<1>5. Elements(done[t]) = {} /\ Distinct(done[t])
  BY <1>2, NoElements DEF Distinct
<1>6. CallOf(t)'
  BY <1>1, <1>2, <1>3, <1>4, <1>5 DEF CallOf, Added, Accepted
<1>7. VectorOf(t)'
  BY <1>1, <1>4, <1>5 DEF VectorOf
<1>8. ASSUME NEW u \in Threads PROVE CallOf(u)' /\ VectorOf(u)' /\ Honest(u)
  <2>1. CASE u = t
    BY <1>1, <1>6, <1>7, <2>1 DEF Honest, Fails
  <2>2. CASE u # t
    <3>1. CallOf(u)' /\ VectorOf(u)'
      BY <1>1, <1>2, <1>4, <2>2, CallKept DEF HistoryInv
    <3>2. QED
      BY <1>4, <2>2, <3>1 DEF Honest, Fails
  <2>3. QED
    BY <2>1, <2>2
<1>9. QED
  BY <1>8 DEF HistoryInv

\* What the steps of a call take from the invariant.
LEMMA CallFacts ==
  ASSUME FileInv, HistoryInv, NEW t \in Threads, doing[t] # "nothing"
  PROVE  /\ TypeOK /\ CallOf(t) /\ VectorOf(t) /\ t # None
         /\ todo[t] \in Seq(Fds) \ {<<>>} /\ done[t] \in Seq(Fds)
         /\ Fd(t) \in Fds /\ Fd(t) \in Owns[t] /\ Fd(t) \in Elements(todo[t])
         /\ Elements(todo[t]) = {Fd(t)} \cup Elements(Tail(todo[t])) /\ Elements(<<>>) = {}
         /\ Distinct(todo[t]) => Distinct(Tail(todo[t])) /\ Fd(t) \notin Elements(Tail(todo[t]))
<1>1. TypeOK /\ CallOf(t) /\ VectorOf(t) /\ t # None
  BY FileAssumption DEF FileInv, HistoryInv
<1>2. todo[t] \in Seq(Fds) \ {<<>>} /\ done[t] \in Seq(Fds) /\ Fd(t) \in Fds
  BY <1>1 DEF TypeOK, Fd
<1>3. /\ Elements(todo[t]) = {Fd(t)} \cup Elements(Tail(todo[t]))
      /\ Distinct(todo[t]) => Distinct(Tail(todo[t])) /\ Fd(t) \notin Elements(Tail(todo[t]))
  BY <1>2, VectorHead DEF Fd
<1>4. QED
  BY <1>1, <1>2, <1>3, NoElements DEF VectorOf

\* A call that changes the container.
LEMMA ContainerKept ==
  ASSUME FileInv, OwnersApart, HistoryInv, NEW t \in Threads, RegisterFile(t) \/ UnregisterFile(t)
  PROVE  HistoryInv' /\ \A u \in Threads : Honest(u)
<1>1. /\ doing[t] # "nothing" /\ updating = None /\ updating' = t
      /\ UNCHANGED <<table, doing, todo, done, before>>
  BY DEF RegisterFile, UnregisterFile, Unregisters, callVars
<1>2. /\ TypeOK /\ CallOf(t) /\ VectorOf(t) /\ t # None /\ Fd(t) \in Owns[t]
      /\ Fd(t) \in Elements(todo[t]) /\ Elements(todo[t]) = {Fd(t)} \cup Elements(Tail(todo[t]))
      /\ Distinct(todo[t]) => Fd(t) \notin Elements(Tail(todo[t]))
  BY <1>1, CallFacts
<1>3. Fd(t)' = Fd(t) /\ VectorOf(t)' /\ Honest(t)
  BY <1>1, <1>2 DEF Fd, VectorOf, Honest, Fails
<1>4. CASE RegisterFile(t)
  <2>1. doing[t] = "register" /\ Fd(t) \notin Mapped /\ Mapped' = Mapped \cup {Fd(t)}
    BY <1>4 DEF RegisterFile, Add, Mapped
  <2>2. Added(t) = Elements(done[t]) /\ Added(t)' = Elements(done[t]) \cup {Fd(t)}
    BY <1>1, <1>2, <1>3, <2>1 DEF Added
  <2>3. CallOf(t)'
    BY <1>1, <1>2, <1>3, <2>1, <2>2 DEF CallOf, Accepted
  <2>4. \A fd \in Fds \ Owns[t] : fd \in Mapped' <=> fd \in Mapped
    BY <1>2, <2>1
  <2>5. QED
    BY <1>1, <1>3, <2>3, <2>4, OthersKept
<1>5. CASE UnregisterFile(t)
  <2>1. doing[t] \in {"unregister", "roll back"} /\ Mapped' = Mapped \ {Fd(t)}
    BY <1>5 DEF UnregisterFile, Unregisters, Remove, Mapped
  <2>2. Added(t) = Elements(todo[t]) /\ Added(t)' = Elements(Tail(todo[t]))
    BY <1>1, <1>2, <2>1 DEF Added
  <2>3. CallOf(t)'
    <3>1. CASE doing[t] = "unregister" \/ table = NoTable
      BY <1>1, <3>1 DEF CallOf
    <3>2. CASE doing[t] = "roll back" /\ table # NoTable
      <4>1. /\ Accepted(Mapped \cap Owns[t]) = Accepted(before[t] \cup Elements(todo[t]))
            /\ Distinct(todo[t]) /\ Elements(todo[t]) \cap (before[t] \cup Rejected) = {}
        BY <1>2, <2>2, <3>2 DEF CallOf
      <4>2. Fd(t) \notin before[t] \cup Rejected \cup Elements(Tail(todo[t]))
        BY <1>2, <4>1
      <4>3. Accepted(Mapped' \cap Owns[t]) = Accepted(before[t] \cup Elements(Tail(todo[t])))
        BY <1>2, <2>1, <4>1, <4>2 DEF Accepted
      <4>4. Distinct(todo[t])' /\ (Elements(todo[t]) \cap (before[t] \cup Rejected) = {})'
        BY <1>1, <4>1
      <4>5. QED
        BY <1>1, <2>2, <3>2, <4>3, <4>4 DEF CallOf, Accepted
    <3>3. QED
      BY <2>1, <3>1, <3>2
  <2>4. \A fd \in Fds \ Owns[t] : fd \in Mapped' <=> fd \in Mapped
    BY <1>2, <2>1
  <2>5. QED
    BY <1>1, <1>3, <2>3, <2>4, OthersKept
<1>6. QED
  BY <1>4, <1>5

\* RegisterFiles gives up: with nothing done yet it returns, and else what is done is left
\* to undo.
LEMMA FailedKept ==
  ASSUME FileInv, OwnersApart, HistoryInv, NEW t \in Threads, doing[t] = "register",
         RegisterFailed(t), {updating, updating'} \subseteq {t, None}, updating' # t,
         UNCHANGED <<fd_to_index, table>>, updating = t => Fd(t) \in Rejected \/ table = NoTable
  PROVE  HistoryInv' /\ \A u \in Threads : Honest(u)
<1>1. /\ TypeOK /\ CallOf(t) /\ VectorOf(t) /\ t # None /\ Elements(<<>>) = {} /\ Mapped' = Mapped
  BY CallFacts DEF Mapped
<1>2. \A u \in Threads \ {t} : /\ doing'[u] = doing[u] /\ todo'[u] = todo[u]
                               /\ done'[u] = done[u] /\ before'[u] = before[u]
  BY <1>1, MovesAlone
<1>3. VectorOf(t)'
  BY <1>1, VectorKept
<1>4. table # NoTable => Accepted(Mapped \cap Owns[t]) = Accepted(before[t] \cup Elements(done[t]))
  BY <1>1 DEF CallOf, Added, Accepted
<1>5. CASE done[t] = <<>>
  <2>1. doing'[t] = "nothing"
    BY <1>1, <1>5 DEF RegisterFailed, Return, TypeOK
  <2>2. CallOf(t)'
    BY <2>1 DEF CallOf
  <2>3. Honest(t)
    BY <1>1, <1>4, <1>5 DEF Honest
  <2>4. QED
    BY <1>1, <1>2, <1>3, <2>2, <2>3, OthersKept
<1>6. CASE done[t] # <<>>
  <2>1. doing'[t] = "roll back" /\ todo'[t] = done[t] /\ done'[t] = <<>> /\ before'[t] = before[t]
    BY <1>1, <1>6 DEF RegisterFailed, TypeOK
  <2>2. Added(t)' = Elements(done[t])
    BY <2>1 DEF Added
  <2>3. Accepted(Mapped \cap Owns[t])' = Accepted(Mapped \cap Owns[t])
    BY <1>1 DEF Accepted
  <2>4. CallOf(t)'
    BY <1>1, <1>4, <2>1, <2>2, <2>3 DEF CallOf, Accepted
  <2>5. Honest(t)
    BY <2>1 DEF Honest, Fails
  <2>6. QED
    BY <1>1, <1>2, <1>3, <2>4, <2>5, OthersKept
<1>7. QED
  BY <1>5, <1>6

\* The kernel takes a descriptor, and RegisterFiles goes on.
LEMMA TakenKept ==
  ASSUME FileInv, OwnersApart, HistoryInv, NEW t \in Threads, doing[t] = "register",
         MoveOn(t), updating = t, updating' = None, UNCHANGED fd_to_index,
         Fd(t) \notin Rejected, table # NoTable, table'[slot] = Fd(t)
  PROVE  HistoryInv' /\ \A u \in Threads : Honest(u)
<1>1. /\ TypeOK /\ CallOf(t) /\ VectorOf(t) /\ t # None /\ Mapped' = Mapped
      /\ done[t] \in Seq(Fds) /\ Fd(t) \in Fds
  BY CallFacts DEF Mapped
<1>2. \A u \in Threads \ {t} : /\ doing'[u] = doing[u] /\ todo'[u] = todo[u]
                               /\ done'[u] = done[u] /\ before'[u] = before[u]
  BY <1>1, MovesAlone
<1>3. VectorOf(t)'
  BY <1>1, VectorKept
<1>4. Honest(t)
  BY DEF Honest, Fails
<1>5. CASE Tail(todo[t]) = <<>>
  <2>1. doing'[t] = "nothing"
    BY <1>1, <1>5 DEF MoveOn, Return, TypeOK
  <2>2. CallOf(t)'
    BY <2>1 DEF CallOf
  <2>3. QED
    BY <1>1, <1>2, <1>3, <1>4, <2>2, OthersKept
<1>6. CASE Tail(todo[t]) # <<>>
  <2>1. doing'[t] = "register" /\ done'[t] = Append(done[t], Fd(t)) /\ before'[t] = before[t]
    BY <1>1, <1>6 DEF MoveOn, TypeOK
  <2>2. /\ Accepted(Mapped \cap Owns[t]) = Accepted(before[t] \cup (Elements(done[t]) \cup {Fd(t)}))
        /\ Distinct(done[t]) /\ Elements(done[t]) \cap (before[t] \cup Rejected) = {}
        /\ Fd(t) \notin before[t] \cup Elements(done[t])
    BY <1>1 DEF CallOf, Added, Accepted
  <2>3. Elements(done'[t]) = Elements(done[t]) \cup {Fd(t)} /\ Distinct(done'[t])
    BY <1>1, <2>1, <2>2, VectorGrows
  <2>4. Added(t)' = Elements(done[t]) \cup {Fd(t)}
    BY <1>1, <2>1, <2>3 DEF Added
  <2>5. Accepted(Mapped \cap Owns[t])' = Accepted(Mapped \cap Owns[t])
    BY <1>1 DEF Accepted
  <2>6. CallOf(t)'
    BY <1>1, <2>1, <2>2, <2>3, <2>4, <2>5 DEF CallOf, Accepted
  <2>7. QED
    BY <1>1, <1>2, <1>3, <1>4, <2>6, OthersKept
<1>7. QED
  BY <1>5, <1>6

\* A descriptor is unregistered, and the call goes on.
LEMMA UndoneKept ==
  ASSUME FileInv, OwnersApart, HistoryInv, NEW t \in Threads, UnregisterUpdate(t)
  PROVE  HistoryInv' /\ \A u \in Threads : Honest(u)
<1>1. /\ doing[t] \in {"unregister", "roll back"} /\ updating = t /\ updating' = None
      /\ MoveOn(t) /\ UNCHANGED fd_to_index
  BY DEF UnregisterUpdate
<1>2. /\ TypeOK /\ CallOf(t) /\ VectorOf(t) /\ t # None /\ Mapped' = Mapped /\ Elements(<<>>) = {}
      /\ Elements(todo[t]) = {Fd(t)} \cup Elements(Tail(todo[t]))
      /\ Distinct(todo[t]) => Distinct(Tail(todo[t]))
  BY <1>1, CallFacts DEF Mapped
<1>3. \A u \in Threads \ {t} : /\ doing'[u] = doing[u] /\ todo'[u] = todo[u]
                               /\ done'[u] = done[u] /\ before'[u] = before[u]
  BY <1>1, <1>2, MovesAlone
<1>4. VectorOf(t)'
  BY <1>1, <1>2, VectorKept
<1>5. table' # NoTable => table # NoTable
  BY DEF UnregisterUpdate, KernelUpdates, NoTable
<1>6. doing[t] = "roll back" /\ table # NoTable =>
        /\ Accepted(Mapped \cap Owns[t]) = Accepted(before[t] \cup Elements(Tail(todo[t])))
        /\ Distinct(Tail(todo[t])) /\ Elements(Tail(todo[t])) \cap (before[t] \cup Rejected) = {}
  BY <1>1, <1>2 DEF CallOf, Added
<1>7. CASE Tail(todo[t]) = <<>>
  <2>1. doing'[t] = "nothing"
    BY <1>1, <1>2, <1>7 DEF MoveOn, Return, TypeOK
  <2>2. CallOf(t)'
    BY <2>1 DEF CallOf
  <2>3. Honest(t)
    BY <1>1, <1>2, <1>6, <1>7 DEF Honest, Fails
  <2>4. QED
    BY <1>1, <1>2, <1>3, <1>4, <1>5, <2>2, <2>3, OthersKept
<1>8. CASE Tail(todo[t]) # <<>>
  <2>1. doing'[t] = doing[t] /\ todo'[t] = Tail(todo[t]) /\ before'[t] = before[t]
    BY <1>1, <1>2, <1>8 DEF MoveOn, TypeOK
  <2>2. Added(t)' = Elements(Tail(todo[t]))
    BY <1>1, <1>2, <2>1 DEF Added
  <2>3. Accepted(Mapped \cap Owns[t])' = Accepted(Mapped \cap Owns[t])
    BY <1>2 DEF Accepted
  <2>4. CallOf(t)'
    BY <1>1, <1>5, <1>6, <2>1, <2>2, <2>3 DEF CallOf, Accepted
  <2>5. Honest(t)
    BY <1>1, <2>1 DEF Honest, Fails
  <2>6. QED
    BY <1>1, <1>2, <1>3, <1>4, <1>5, <2>4, <2>5, OthersKept
<1>9. QED
  BY <1>7, <1>8

\* A descriptor is not mapped, or nothing is: in a roll back neither can be.
LEMMA NotFoundKept ==
  ASSUME FileInv, OwnersApart, HistoryInv, NEW t \in Threads,
         UnregisterFileNotFound(t) \/ UnregisterFileEmpty(t)
  PROVE  HistoryInv' /\ \A u \in Threads : Honest(u)
<1>1. /\ doing[t] \in {"unregister", "roll back"} /\ updating = None /\ updating' = None
      /\ MoveOn(t) /\ Fd(t) \notin Mapped
      /\ table' = NoTable \/ (table' = table /\ UNCHANGED fd_to_index)
  BY DEF UnregisterFileNotFound, UnregisterFileEmpty, Unregisters, UnregisterAll
<1>2. /\ TypeOK /\ CallOf(t) /\ VectorOf(t) /\ t # None
      /\ Fd(t) \in Owns[t] /\ Fd(t) \in Elements(todo[t])
  BY <1>1, CallFacts
<1>3. ~ (doing[t] = "roll back" /\ table # NoTable)
  <2>1. SUFFICES ASSUME doing[t] = "roll back", table # NoTable PROVE FALSE
    OBVIOUS
  <2>2. /\ Accepted(Mapped \cap Owns[t]) = Accepted(before[t] \cup Elements(todo[t]))
        /\ Fd(t) \notin Rejected
    BY <1>1, <1>2, <2>1 DEF CallOf, Added
  <2>3. QED
    BY <1>1, <1>2, <2>2 DEF Accepted
<1>4. \A u \in Threads \ {t} : /\ doing'[u] = doing[u] /\ todo'[u] = todo[u]
                               /\ done'[u] = done[u] /\ before'[u] = before[u]
  BY <1>1, <1>2, MovesAlone
<1>5. VectorOf(t)'
  BY <1>1, <1>2, VectorKept
<1>6. doing'[t] \in {doing[t], "nothing"}
  BY <1>1, <1>2 DEF MoveOn, Return, TypeOK
<1>7. CallOf(t)' /\ Honest(t)
  BY <1>1, <1>3, <1>6 DEF CallOf, Honest, Fails
<1>8. table' # NoTable => /\ table # NoTable
                          /\ \A fd \in Fds \ Owns[t] : fd \in Mapped' <=> fd \in Mapped
  BY <1>1 DEF Mapped
<1>9. QED
  BY <1>1, <1>2, <1>4, <1>5, <1>7, <1>8, OthersKept

\* The thread is between two calls as UnregisterFiles runs, and a read is none of its business.
LEMMA OutsideKept ==
  ASSUME FileInv, HistoryInv,
         UnregisterFiles \/ (\E fd \in Fds : Reads(fd)) \/ UNCHANGED vars
  PROVE  HistoryInv' /\ \A t \in Threads : Honest(t)
<1>1. /\ UNCHANGED <<doing, todo, done, before, updating>>
      /\ table' = NoTable \/ UNCHANGED <<table, fd_to_index>>
  <2>1. CASE UnregisterFiles
    BY <2>1 DEF UnregisterFiles, UnregisterAll, callVars
  <2>2. CASE \E fd \in Fds : Reads(fd)
    BY <2>2 DEF Reads, QueueRead, LookUp, KernelReads, callVars
  <2>3. CASE UNCHANGED vars
    BY <2>3 DEF vars, callVars
  <2>4. QED
    BY <2>1, <2>2, <2>3
<1>2. ASSUME NEW t \in Threads PROVE CallOf(t)' /\ VectorOf(t)'
  <2>1. CallOf(t) /\ VectorOf(t)
    BY DEF HistoryInv
  <2>2. table' = NoTable \/ Mapped' \cap Owns[t] = Mapped \cap Owns[t]
    BY <1>1 DEF Mapped
  <2>3. table' # NoTable => table # NoTable
    BY <1>1
  <2>4. /\ doing'[t] = doing[t] /\ todo'[t] = todo[t] /\ done'[t] = done[t] /\ before'[t] = before[t]
        /\ updating' = t <=> updating = t
    BY <1>1
  <2>5. QED
    BY <2>1, <2>2, <2>3, <2>4, CallKept
<1>3. \A t \in Threads : Honest(t)
  BY <1>1 DEF Honest, Fails
<1>4. QED
  BY <1>2, <1>3 DEF HistoryInv

\* No call has begun.
LEMMA HistoryStarts == Init => HistoryInv
<1> SUFFICES ASSUME Init, NEW t \in Threads PROVE CallOf(t) /\ VectorOf(t)
  BY DEF HistoryInv
<1>1. doing[t] = "nothing" /\ todo[t] = <<>> /\ done[t] = <<>>
  BY DEF Init
<1>2. QED
  BY <1>1, NoElements DEF CallOf, VectorOf

\* Every step keeps the history, and a call that fails leaves nothing behind.
LEMMA HistoryStep ==
  ASSUME OwnersApart, FileInv, HistoryInv, [Next]_vars
  PROVE  HistoryInv' /\ \A t \in Threads : Honest(t)
<1>1. ASSUME NEW t \in Threads, CallSteps(t) PROVE HistoryInv' /\ \A u \in Threads : Honest(u)
  <2>1. CASE \E fds \in Lists : CallRegisterFiles(t, fds)
    BY <2>1, BeginKept, FileAssumption DEF CallRegisterFiles
  <2>2. CASE \E fd \in Owns[t] : CallUnregisterFile(t, fd)
    <3>1. PICK fd \in Owns[t] : Begin(t, "unregister", <<fd>>)
      BY <2>2 DEF CallUnregisterFile
    <3>2. fd \in Fds
      BY FileAssumption
    <3>3. <<fd>> \in Seq(Fds) \ {<<>>}
      BY <3>2
    <3>4. QED
      BY <3>1, <3>3, BeginKept
  <2>3. CASE RegisterFile(t) \/ UnregisterFile(t)
    BY <2>3, ContainerKept
  <2>4. CASE RegisterFileRefused(t)
    <3>1. /\ doing[t] = "register" /\ updating = None /\ updating' = None
          /\ RegisterFailed(t) /\ UNCHANGED <<fd_to_index, table>>
      BY <2>4 DEF RegisterFileRefused
    <3>2. t # None
      BY FileAssumption
    <3>3. QED
      BY <3>1, <3>2, FailedKept
  <2>5. CASE RegisterUpdate(t)
    <3>1. /\ doing[t] = "register" /\ updating = t /\ updating' = None /\ UNCHANGED fd_to_index
          /\ t # None /\ TypeOK
      BY <2>5, FileAssumption DEF RegisterUpdate, FileInv
    <3>2. CASE slot \in DOMAIN table /\ Fd(t) \notin Rejected
      <4>1. MoveOn(t) /\ table' = [table EXCEPT ![slot] = Fd(t)]
        BY <2>5, <3>2 DEF RegisterUpdate, KernelUpdates
      <4>2. table # NoTable
        BY <3>2 DEF NoTable
      <4>3. table'[slot] = Fd(t)
        BY <3>1, <3>2, <4>1, <4>2 DEF TypeOK
      <4>4. QED
        BY <3>1, <3>2, <4>1, <4>2, <4>3, TakenKept
    <3>3. CASE ~ (slot \in DOMAIN table /\ Fd(t) \notin Rejected)
      <4>1. RegisterFailed(t) /\ UNCHANGED table
        BY <2>5, <3>3 DEF RegisterUpdate
      <4>2. Fd(t) \in Rejected \/ table = NoTable
        BY <3>1, <3>3 DEF TypeOK
      <4>3. QED
        BY <3>1, <4>1, <4>2, FailedKept
    <3>4. QED
      BY <3>2, <3>3
  <2>6. CASE UnregisterUpdate(t)
    BY <2>6, UndoneKept
  <2>7. CASE UnregisterFileNotFound(t) \/ UnregisterFileEmpty(t)
    BY <2>7, NotFoundKept
  <2>8. QED
    BY <1>1, <2>1, <2>2, <2>3, <2>4, <2>5, <2>6, <2>7 DEF CallSteps
<1>2. CASE UnregisterFiles \/ (\E fd \in Fds : Reads(fd)) \/ UNCHANGED vars
  BY <1>2, OutsideKept
<1>3. QED
  BY <1>1, <1>2 DEF Next

\* A RegisterFiles that fails, whether its first descriptor is refused or a roll back has
\* undone the others, returns with the thread's descriptors registered as it found them, when
\* no two threads register the same descriptor.
THEOREM FilesAreAllOrNothing == OwnersApart /\ Spec => AllOrNothing
<1> SUFFICES ASSUME OwnersApart PROVE Spec => AllOrNothing
  OBVIOUS
<1>1. FileInv /\ HistoryInv /\ [Next]_vars => HistoryInv'
  BY HistoryStep
<1>2. FileInv /\ HistoryInv /\ [Next]_vars =>
        [\A t \in Threads : table # NoTable /\ Fails(t) =>
           (Mapped' \cap Owns[t]) \ Rejected = before[t] \ Rejected]_vars
  BY HistoryStep DEF Honest, Accepted
<1>3. QED
  BY HistoryStarts, FilesInvariant, <1>1, <1>2, PTL DEF Spec, AllOrNothing
=============================================================================
