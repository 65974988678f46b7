------------------------------ MODULE FileTable ------------------------------
(***************************************************************************)
(* Registered files: IoUringFileFdContainer, the functions of IoUring that *)
(* keep it in step with the kernel's table of fixed files, and the reads   *)
(* and writes that go through it (src/iouring/io_uring.cc, io_uring.h).    *)
(*                                                                         *)
(* RegisterFile changes the container, then the kernel's table, then       *)
(* releases files_mutex_: two steps, with updating in between, because     *)
(* Read and Write look a descriptor up without the mutex when they prepare *)
(* an SQE.  The kernel resolves the slot later, when it consumes the SQE.  *)
(* RegisterFiles is a loop of RegisterFile that gives the mutex back       *)
(* between two, so one descriptor and a vector of one are the same call.   *)
(*                                                                         *)
(* What the application must see to is a guard here: a thread registers    *)
(* and unregisters only its own descriptors; no read of a descriptor is on *)
(* its way in a call that may unregister it, as UnregisterFile and, in its *)
(* roll back, RegisterFiles of several may; and UnregisterFiles, which     *)
(* takes no lock, runs while no other call and no read is under way.       *)
(***************************************************************************)
EXTENDS Integers, Sequences, FiniteSets

CONSTANTS
  Threads,   \* application threads
  Fds,       \* open file descriptors
  Owns,      \* Owns[t]: the descriptors thread t registers and unregisters
  Lists,     \* the vectors given to RegisterFiles
  Rejected,  \* descriptors io_uring_register_files_update refuses
  Slots,     \* max_fd_slots_, the number of fixed files
  NoFile,    \* an empty slot of the kernel's table
  None, NoRead, Queued

ASSUME FileAssumption ==
  /\ Fds \subseteq Nat
  /\ Owns \in [Threads -> SUBSET Fds]
  /\ Lists \subseteq Seq(Fds) \ {<<>>}
  /\ Rejected \subseteq Fds
  /\ Slots \in Nat \ {0}
  /\ NoFile \notin Fds
  /\ None \notin Threads
  /\ NoRead \notin Nat
  /\ Queued \notin Nat \cup {NoRead}

INVALID_ID == -1

Index == 0 .. Slots - 1

VARIABLES
  fd_to_index,  \* fd_to_index_, a function on the descriptors it maps
  free_ids,     \* free_ids_: the descriptor of a slot, or INVALID_ID
  table,        \* the kernel's table; without a slot once it is unregistered
  doing,        \* what a thread is doing with the vector it was given
  todo,         \* the rest of the vector, the element it is at first
  done,         \* the elements before that
  before,       \* what the thread had mapped when the call began (for AllOrNothing)
  updating,     \* the thread that has changed the container and not yet the kernel's
                \* table; it holds files_mutex_
  slot,         \* the slot it changes
  read          \* the read of a descriptor: none on its way (or one that names the
                \* descriptor itself), queued, or the slot its SQE names

callVars == <<doing, todo, done, before>>

vars == <<fd_to_index, free_ids, table, callVars, updating, slot, read>>

Mapped == DOMAIN fd_to_index

NoTable == [i \in {} |-> NoFile]

Calls == {"nothing", "register", "roll back", "unregister"}

TypeOK ==
  /\ Mapped \subseteq Fds
  /\ fd_to_index \in [Mapped -> Index]
  /\ free_ids \in [Index -> Fds \cup {INVALID_ID}]
  /\ table \in [Index -> Fds \cup {NoFile}] \cup {NoTable}
  /\ doing \in [Threads -> Calls]
  /\ todo \in [Threads -> Seq(Fds)]
  /\ done \in [Threads -> Seq(Fds)]
  /\ before \in [Threads -> SUBSET Fds]
  /\ \A t \in Threads : doing[t] = "nothing" <=> todo[t] = <<>>
  /\ updating \in Threads \cup {None}
  /\ slot \in Index
  /\ read \in [Fds -> {NoRead, Queued} \cup Index]

\* The constructor registers a table of Slots empty files.
Init ==
  /\ fd_to_index = [fd \in {} |-> 0]
  /\ free_ids = [i \in Index |-> INVALID_ID]
  /\ table = [i \in Index |-> NoFile]
  /\ doing = [t \in Threads |-> "nothing"]
  /\ todo = [t \in Threads |-> <<>>]
  /\ done = [t \in Threads |-> <<>>]
  /\ before = [t \in Threads |-> {}]
  /\ updating = None
  /\ slot = 0
  /\ read = [fd \in Fds |-> NoRead]

-----------------------------------------------------------------------------
(* The container.                                                           *)

FreeIndexes == {i \in Index : free_ids[i] = INVALID_ID}

\* Mutant: slots are handed out by count.
FirstFreeByCount == Cardinality(Mapped)

\* Add's index.  Its callers see to it that there is a free one.
FirstFree == CHOOSE i \in FreeIndexes : \A j \in FreeIndexes : i <= j

\* Mutant: the index in the mapping is the one behind the slot taken.
AddIndexBehind(fd) ==
  /\ fd_to_index' = [f \in Mapped \cup {fd} |->
                        IF f = fd THEN FirstFree + 1 ELSE fd_to_index[f]]
  /\ free_ids' = [free_ids EXCEPT ![FirstFree] = fd]

Add(fd) ==
  /\ fd_to_index' = [f \in Mapped \cup {fd} |-> IF f = fd THEN FirstFree ELSE fd_to_index[f]]
  /\ free_ids' = [free_ids EXCEPT ![FirstFree] = fd]

\* Mutant: the slot is not freed.
RemoveKeepsId(fd) ==
  /\ fd_to_index' = [f \in Mapped \ {fd} |-> fd_to_index[f]]
  /\ UNCHANGED free_ids

Remove(fd) ==
  /\ fd_to_index' = [f \in Mapped \ {fd} |-> fd_to_index[f]]
  /\ free_ids' = [free_ids EXCEPT ![fd_to_index[fd]] = INVALID_ID]

CleanUp ==
  /\ fd_to_index' = [fd \in {} |-> 0]
  /\ free_ids' = [i \in Index |-> INVALID_ID]

-----------------------------------------------------------------------------
(* A call moves through its vector.                                         *)

Fd(t) == Head(todo[t])

Elements(seq) == {seq[k] : k \in 1 .. Len(seq)}

\* The descriptors a call may unregister: those of UnregisterFile, and of a
\* RegisterFiles of more than one.
AtRisk(t) ==
  IF doing[t] = "register" /\ Len(todo[t]) + Len(done[t]) = 1
  THEN {}
  ELSE Elements(todo[t]) \cup Elements(done[t])

OnItsWay(fd) == read[fd] # NoRead

Begin(t, what, fds) ==
  /\ doing[t] = "nothing"
  /\ Elements(fds) \subseteq Owns[t]
  /\ doing' = [doing EXCEPT ![t] = what]
  /\ todo' = [todo EXCEPT ![t] = fds]
  /\ before' = [before EXCEPT ![t] = Mapped \cap Owns[t]]
  /\ UNCHANGED done
  /\ \A fd \in AtRisk(t)' : ~ OnItsWay(fd)
  /\ UNCHANGED <<fd_to_index, free_ids, table, updating, slot, read>>

CallRegisterFiles(t, fds) == Begin(t, "register", fds)

CallUnregisterFile(t, fd) == Begin(t, "unregister", <<fd>>)

Return(t) ==
  /\ doing' = [doing EXCEPT ![t] = "nothing"]
  /\ todo' = [todo EXCEPT ![t] = <<>>]
  /\ done' = [done EXCEPT ![t] = <<>>]
  /\ before' = [before EXCEPT ![t] = {}]

\* On to the next element of the vector, or back to the application.
MoveOn(t) ==
  IF Tail(todo[t]) = <<>>
  THEN Return(t)
  ELSE /\ todo' = [todo EXCEPT ![t] = Tail(@)]
       /\ done' = [done EXCEPT ![t] = Append(@, Fd(t))]
       /\ UNCHANGED <<doing, before>>

\* Mutant: the elements already registered stay registered.
RegisterFailedKeeps(t) == Return(t)

\* RegisterFiles gives up and unregisters the elements before this one.
RegisterFailed(t) ==
  IF done[t] = <<>>
  THEN Return(t)
  ELSE /\ doing' = [doing EXCEPT ![t] = "roll back"]
       /\ todo' = [todo EXCEPT ![t] = done[t]]
       /\ done' = [done EXCEPT ![t] = <<>>]
       /\ UNCHANGED before

-----------------------------------------------------------------------------
(* RegisterFile.                                                            *)

RegisterFile(t) ==
  /\ doing[t] = "register"
  /\ updating = None
  /\ Fd(t) \notin Mapped
  /\ Cardinality(Mapped) # Slots
  /\ slot' = FirstFree
  /\ Add(Fd(t))
  /\ updating' = t
  /\ UNCHANGED <<table, callVars, read>>

\* Mapped already, or no slot left.
RegisterFileRefused(t) ==
  /\ doing[t] = "register"
  /\ updating = None
  /\ Fd(t) \in Mapped \/ Cardinality(Mapped) = Slots
  /\ RegisterFailed(t)
  /\ UNCHANGED <<fd_to_index, free_ids, table, updating, slot, read>>

\* io_uring_register_files_update for one slot; without a table it fails.
KernelUpdates(file) ==
  table' = IF slot \in DOMAIN table THEN [table EXCEPT ![slot] = file] ELSE table

\* The kernel takes the descriptor, or it does not: then the mapping stays.
RegisterUpdate(t) ==
  /\ doing[t] = "register"
  /\ updating = t
  /\ IF slot \in DOMAIN table /\ Fd(t) \notin Rejected
     THEN KernelUpdates(Fd(t)) /\ MoveOn(t)
     ELSE UNCHANGED table /\ RegisterFailed(t)
  /\ updating' = None
  /\ UNCHANGED <<fd_to_index, free_ids, slot, read>>

-----------------------------------------------------------------------------
(* UnregisterFile, alone or as RegisterFiles rolls back, and UnregisterFiles. *)

Unregisters(t) == doing[t] \in {"unregister", "roll back"} /\ updating = None

UnregisterFile(t) ==
  /\ Unregisters(t)
  /\ Fd(t) \in Mapped
  /\ slot' = fd_to_index[Fd(t)]
  /\ Remove(Fd(t))
  /\ updating' = t
  /\ UNCHANGED <<table, callVars, read>>

\* Mutant: the kernel keeps the file.
UnregisterUpdateNothing(t) ==
  /\ doing[t] \in {"unregister", "roll back"}
  /\ updating = t
  /\ MoveOn(t)
  /\ updating' = None
  /\ UNCHANGED <<table, fd_to_index, free_ids, slot, read>>

UnregisterUpdate(t) ==
  /\ doing[t] \in {"unregister", "roll back"}
  /\ updating = t
  /\ KernelUpdates(NoFile)
  /\ MoveOn(t)
  /\ updating' = None
  /\ UNCHANGED <<fd_to_index, free_ids, slot, read>>

UnregisterFileNotFound(t) ==
  /\ Unregisters(t)
  /\ Mapped # {}
  /\ Fd(t) \notin Mapped
  /\ MoveOn(t)
  /\ UNCHANGED <<fd_to_index, free_ids, table, updating, slot, read>>

\* io_uring_unregister_files fails when there is no table, and then nothing is
\* cleaned up.
UnregisterAll ==
  /\ table' = NoTable
  /\ IF table = NoTable THEN UNCHANGED <<fd_to_index, free_ids>> ELSE CleanUp

\* With nothing mapped UnregisterFile unregisters the whole table.
UnregisterFileEmpty(t) ==
  /\ Unregisters(t)
  /\ Mapped = {}
  /\ UnregisterAll
  /\ MoveOn(t)
  /\ UNCHANGED <<updating, slot, read>>

UnregisterFiles ==
  /\ \A t \in Threads : doing[t] = "nothing"
  /\ \A fd \in Fds : ~ OnItsWay(fd)
  /\ UnregisterAll
  /\ UNCHANGED <<callVars, updating, slot, read>>

-----------------------------------------------------------------------------
(* Reads and writes.                                                        *)

\* The application does not read a descriptor it may be unregistering.
QueueRead(fd) ==
  /\ read[fd] = NoRead
  /\ \A t \in Threads : fd \notin AtRisk(t)
  /\ read' = [read EXCEPT ![fd] = Queued]
  /\ UNCHANGED <<fd_to_index, free_ids, table, callVars, updating, slot>>

\* The worker prepares the SQE.  A search of fd_to_index_ while another thread
\* changes it may miss the descriptor.
LookUp(fd) ==
  /\ read[fd] = Queued
  /\ \/ fd \in Mapped /\ read' = [read EXCEPT ![fd] = fd_to_index[fd]]
     \/ /\ fd \notin Mapped \/ updating # None
        /\ read' = [read EXCEPT ![fd] = NoRead]
  /\ UNCHANGED <<fd_to_index, free_ids, table, callVars, updating, slot>>

KernelReads(fd) ==
  /\ read[fd] \in Index
  /\ read' = [read EXCEPT ![fd] = NoRead]
  /\ UNCHANGED <<fd_to_index, free_ids, table, callVars, updating, slot>>

-----------------------------------------------------------------------------

CallSteps(t) ==
  \/ \E fds \in Lists : CallRegisterFiles(t, fds)
  \/ \E fd \in Owns[t] : CallUnregisterFile(t, fd)
  \/ RegisterFile(t)   \/ RegisterFileRefused(t) \/ RegisterUpdate(t)
  \/ UnregisterFile(t) \/ UnregisterUpdate(t)
  \/ UnregisterFileNotFound(t) \/ UnregisterFileEmpty(t)

Reads(fd) == QueueRead(fd) \/ LookUp(fd) \/ KernelReads(fd)

Next ==
  \/ \E t \in Threads : CallSteps(t)
  \/ UnregisterFiles
  \/ \E fd \in Fds : Reads(fd)

Spec == Init /\ [][Next]_vars

-----------------------------------------------------------------------------

\* fd_to_index_ and free_ids_ are one bijection between the mapped descriptors and
\* the slots in use, which RegisterFile's test of the size relies on.
SlotsAgree ==
  /\ \A fd \in Mapped : free_ids[fd_to_index[fd]] = fd
  /\ \A i \in Index : free_ids[i] # INVALID_ID =>
       free_ids[i] \in Mapped /\ fd_to_index[free_ids[i]] = i

\* Whenever files_mutex_ is free and the table exists, a slot holds the descriptor
\* the container maps to it; only a refused descriptor is mapped to an empty slot.
KernelAgrees ==
  updating = None /\ table # NoTable =>
    \A i \in Index :
      table[i] = IF free_ids[i] \in {INVALID_ID} \cup Rejected THEN NoFile ELSE free_ids[i]

\* The slot named by an SQE on its way never holds another file than the one the
\* caller asked for, though Read looks the slot up without the mutex and the kernel
\* resolves it later.
ReadsReachTheirFile ==
  \A fd \in Fds : read[fd] \in Index /\ table # NoTable => table[read[fd]] \in {fd, NoFile}

\* The step with which a RegisterFiles that fails returns.
Fails(t) ==
  /\ doing'[t] = "nothing"
  /\ \/ doing[t] = "roll back"
     \/ doing[t] = "register" /\ ~ (updating = t /\ table'[slot] = Fd(t))

\* A RegisterFiles that fails leaves the thread's descriptors registered as they
\* were, those the kernel refuses apart, as long as there is a table.
AllOrNothing ==
  [][\A t \in Threads :
       table # NoTable /\ Fails(t) =>
         (Mapped' \cap Owns[t]) \ Rejected = before[t] \ Rejected]_vars

\* docs/API.md:5, "first unregister all the fds and re-register along with new
\* fd(s)": the kernel still has the slot that RegisterFile is about to fill.
CanRegisterAgain == updating # None => slot \in DOMAIN table
=============================================================================
