---------------------------- MODULE RequestClaims ----------------------------
(***************************************************************************)
(* The durable values of the resumable 2.1 protocol and the rules by which *)
(* one claim may follow another: what a simulation-request claim holds,    *)
(* which rewrites the request store accepts, which claims still reserve a  *)
(* slot of the run storage and how many slots are in use.                  *)
(* There are no variables here: ResumableRequests applies these operators  *)
(* to the files it reads and writes.                                       *)
(***************************************************************************)
EXTENDS Naturals, FiniteSets

CONSTANTS
  Request,   \* request ids: the caller's idempotency keys
  Digest,    \* request_sha256 values: the canonical request bytes
  RunId,     \* run_id values that crypto.randomUUID can return
  NoDigest,  \* no bytes are claimed
  NoRun      \* no run_id

ASSUME ClaimConstants ==
  /\ NoDigest \notin Digest
  /\ NoRun \notin RunId

-----------------------------------------------------------------------------
(* What the files hold.                                                    *)

\* A run that the solver or the normalizer did not complete is "failed"; the
\* timed_out status is treated like failed by every rule modelled here.
Outcome == {"succeeded", "failed"}

\* Artifact files of a run directory, in the order submit writes them.
Artifact == {"inputs", "diagnostics", "result", "evidence"}

\* The exact artifact set of a sealed run: the solver CSV is evidence only
\* after a successful, versioned normalization.
ArtifactsOf(status) ==
  IF status = "succeeded" THEN Artifact ELSE Artifact \ {"result"}

RunRecord == [run : RunId, digest : Digest, status : Outcome]

NoRecord == [run |-> NoRun, digest |-> NoDigest, status |-> "failed"]

ClaimState ==
  {"claimed", "promoting", "running", "recovery_required", "completed", "rejected"}

\* run_json_sha256 and run_json_bytes are the seal: they stand for the exact
\* run.json, so the model keeps the record they are computed from.
Claim ==
  [state : ClaimState \cup {"absent"}, digest : Digest \cup {NoDigest},
   run : RunId \cup {NoRun}, seal : RunRecord \cup {NoRecord}]

NoClaim ==
  [state |-> "absent", digest |-> NoDigest, run |-> NoRun, seal |-> NoRecord]

Claimed(d) ==
  [state |-> "claimed", digest |-> d, run |-> NoRun, seal |-> NoRecord]

Promoting(c, u) ==
  [state |-> "promoting", digest |-> c.digest, run |-> u, seal |-> c.seal]

Running(c) == [c EXCEPT !.state = "running"]

RecoveryRequired(c) == [c EXCEPT !.state = "recovery_required"]

\* A plausible slip: the state is spread over the claim, the seal forgotten.
CompletedUnsealed(c, record) == [c EXCEPT !.state = "completed"]

Completed(c, record) ==
  [state |-> "completed", digest |-> c.digest, run |-> c.run, seal |-> record]

\* A rejected claim keeps the run_id of an abandoned promotion.
Rejected(c) == [c EXCEPT !.state = "rejected"]

Terminal(c) == c.state \in {"completed", "rejected"}

\* slot_reserved of a claim that parseClaim accepts.
SlotReserved(c) == c.state \in {"claimed", "promoting"}

Started(c) == c.state \in {"running", "recovery_required", "completed"}

\* What parseClaim demands of the fields that go with a state.
WellFormed(c) ==
  /\ c.digest = NoDigest <=> c.state = "absent"
  /\ c.state \in {"absent", "claimed"} => c.run = NoRun
  /\ c.state = "promoting" \/ Started(c) => c.run \in RunId
  /\ c.seal # NoRecord <=> c.state = "completed"

-----------------------------------------------------------------------------
(* Which rewrites writeClaim accepts over the claim on disk.               *)

\* The rewrite is let through; a byte-identical terminal claim is a no-op.
Writable(existing, new) ==
  \/ Terminal(existing) /\ existing = new
  \/ /\ existing.state \in {"running", "recovery_required"}
     /\ new.state \in {"completed", "recovery_required"}

-----------------------------------------------------------------------------
(* Capacity: run directories, and claims not known to be linked to one.    *)

\* A plausible slip: a promoting claim is taken to be its run directory
\* before that directory exists.
NonReservingWhilePromoting(c, dirs) == c.state # "claimed"

\* A claim that proves it takes no slot besides its own run directory.
NonReserving(c, dirs) ==
  \/ c.state = "rejected"
  \/ (c.state = "promoting" \/ Started(c)) /\ c.run \in dirs

ReservingClaims(claims, dirs) ==
  {r \in DOMAIN claims : claims[r].state # "absent" /\ ~ NonReserving(claims[r], dirs)}

UsedSlots(claims, dirs) ==
  Cardinality(dirs) + Cardinality(ReservingClaims(claims, dirs))

=============================================================================
