--------------------------- MODULE RequestService ---------------------------
(***************************************************************************)
(* What IoUring::SubmitIoRequest promises its callers, without threads,    *)
(* rings or locks: the requests are taken up in the order in which they    *)
(* were accepted, a request that was taken up is resolved once (its        *)
(* callback runs and its future gets a value), never before and never      *)
(* twice, and until the service is closed every accepted request is        *)
(* resolved some day.  IoUring.tla implements this specification.          *)
(***************************************************************************)
EXTENDS Naturals, Sequences

CONSTANT Requests

VARIABLES
  accepted,   \* the accepted requests, in order
  taken,      \* how many of them have been taken up
  resolved,   \* the requests whose future has a value
  closed      \* has the service been closed?

serviceVars == <<accepted, taken, resolved, closed>>

AcceptedSet == {accepted[i] : i \in 1 .. Len(accepted)}
TakenSet    == {accepted[i] : i \in 1 .. taken}

ServiceInit ==
  /\ accepted = <<>>
  /\ taken = 0
  /\ resolved = {}
  /\ closed = FALSE

Accept(r) ==
  /\ r \notin AcceptedSet
  /\ accepted' = Append(accepted, r)
  /\ UNCHANGED <<taken, resolved, closed>>

Take ==
  /\ ~ closed
  /\ taken < Len(accepted)
  /\ taken' = taken + 1
  /\ UNCHANGED <<accepted, resolved, closed>>

Resolve(r) ==
  /\ r \in TakenSet \ resolved
  /\ resolved' = resolved \cup {r}
  /\ UNCHANGED <<accepted, taken, closed>>

Close ==
  /\ ~ closed
  /\ closed' = TRUE
  /\ UNCHANGED <<accepted, taken, resolved>>

ServiceNext ==
  \/ Take
  \/ Close
  \/ \E r \in Requests : Accept(r) \/ Resolve(r)

ServiceSafety == ServiceInit /\ [][ServiceNext]_serviceVars

ServiceFairness ==
  /\ WF_serviceVars(Take)
  /\ \A r \in Requests : WF_serviceVars(~ closed /\ Resolve(r))

ServiceSpec == ServiceSafety /\ ServiceFairness
=============================================================================
