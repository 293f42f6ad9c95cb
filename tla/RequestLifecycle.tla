-------------------------- MODULE RequestLifecycle --------------------------
(***************************************************************************)
(* What the 2.1 protocol promises about one request id, whoever submits or *)
(* reads it and whatever dies meanwhile: it is claimed once for one        *)
(* request, it is executed at most once, its result is committed at most   *)
(* once, and it ends completed with that very result, or rejected without  *)
(* having run. A started request whose owner is gone waits for an operator *)
(* as recovery_required, and may still turn out to have completed.         *)
(***************************************************************************)
EXTENDS Naturals

CONSTANTS Request, Digest, NoDigest, Result, NoResult

VARIABLES
  phase,       \* [Request -> Phase]
  bytes,       \* [Request -> the canonical request bytes it is claimed for]
  executions,  \* [Request -> Nat], how often the solver was started
  result       \* [Request -> the committed result, or NoResult]

lifecycle == <<phase, bytes, executions, result>>

Phase == {"absent", "pending", "started", "recovery_required", "completed", "rejected"}

LifecycleInit ==
  /\ phase = [r \in Request |-> "absent"]
  /\ bytes = [r \in Request |-> NoDigest]
  /\ executions = [r \in Request |-> 0]
  /\ result = [r \in Request |-> NoResult]

Advance(r, from, to) ==
  /\ phase[r] \in from
  /\ phase' = [phase EXCEPT ![r] = to]

\* The request id is bound to the bytes d for good.
ClaimRequest(r, d) ==
  /\ Advance(r, {"absent"}, "pending")
  /\ bytes' = [bytes EXCEPT ![r] = d]
  /\ UNCHANGED <<executions, result>>

\* The runtime no longer builds the manifest the request pins.
RejectRequest(r) ==
  /\ Advance(r, {"pending"}, "rejected")
  /\ UNCHANGED <<bytes, executions, result>>

StartRequest(r) ==
  /\ Advance(r, {"pending"}, "started")
  /\ UNCHANGED <<bytes, executions, result>>

\* The solver runs for a started request, once.
ExecuteOnce(r) ==
  /\ phase[r] \in {"started", "recovery_required"}
  /\ executions[r] = 0
  /\ executions' = [executions EXCEPT ![r] = 1]
  /\ UNCHANGED <<phase, bytes, result>>

\* The result of that execution is committed.
Commit(r, o) ==
  /\ phase[r] \in {"started", "recovery_required"}
  /\ executions[r] = 1 /\ result[r] = NoResult
  /\ result' = [result EXCEPT ![r] = o]
  /\ UNCHANGED <<phase, bytes, executions>>

\* Nobody is known to work on the request any more.
LoseOwner(r) ==
  /\ Advance(r, {"started"}, "recovery_required")
  /\ UNCHANGED <<bytes, executions, result>>

\* The committed result is sealed.
Complete(r) ==
  /\ result[r] # NoResult
  /\ Advance(r, {"started", "recovery_required"}, "completed")
  /\ UNCHANGED <<bytes, executions, result>>

LifecycleNext ==
  \E r \in Request :
    \/ \E d \in Digest : ClaimRequest(r, d)
    \/ \E o \in Result : Commit(r, o)
    \/ RejectRequest(r) \/ StartRequest(r) \/ ExecuteOnce(r)
    \/ LoseOwner(r) \/ Complete(r)

LifecycleSpec == LifecycleInit /\ [][LifecycleNext]_lifecycle

=============================================================================
