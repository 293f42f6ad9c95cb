-------------------------- MODULE ResumableRequests --------------------------
(***************************************************************************)
(* The 2.1 submit / request_get protocol of ResumableSimulationService over *)
(* RequestStore, CapacityCoordinator and the two kinds of kernel locks.    *)
(*                                                                         *)
(* A process of this module is one call in one server or client process:   *)
(* every call runs against the same runs directory, and its state is lost  *)
(* when its process dies. One action stands for the code between two       *)
(* durable or externally visible effects. An operation of the capacity     *)
(* coordinator takes the global lock and looks, in one action, and then    *)
(* makes its durable writes, one action each: calls that read a claim      *)
(* without the lock see the states in between, and the helper that holds   *)
(* the lock may be gone before the write.                                  *)
(***************************************************************************)
EXTENDS RequestClaims

CONSTANTS
  Proc,            \* concurrent calls, each in a process that may die
  Free, Orphan,    \* lock states: not held; held by a helper without parent
  MaxRuns,         \* MAX_STORED_RUNS
  MaxFaults,       \* bound: process deaths and I/O exceptions
  MaxHelperLosses  \* bound: lock helpers that die under a live parent

ASSUME ProtocolConstants ==
  /\ Free \notin Proc /\ Orphan \notin Proc /\ Free # Orphan
  /\ MaxRuns \in Nat
  /\ MaxFaults \in Nat /\ MaxHelperLosses \in Nat

VARIABLES
  \* the runs directory, shared by every process
  claim,     \* [Request -> Claim], the capacity-claims files
  dirs,      \* the run directories that exist
  files,     \* [RunId -> SUBSET Artifact], artifacts in each run directory
  ledger,    \* [Request -> run.json or NoRecord]
  \* kernel locks
  lock,      \* [Request -> holder], the request locks
  glock,     \* holder of the capacity coordinator's global lock
  \* the calls
  pc,        \* where each call is
  req,       \* its request_id
  digest,    \* its request_sha256
  seen,      \* the claim it read last
  mine,      \* expectedSource of its CapacityReservation, or NoClaim
  run,       \* the run_id it works on, and answers with
  outcome,   \* status of its simulation
  reply,     \* status of its result, or the error it throws
  \* history and bounds
  launches,  \* [Request -> Nat], how often OpenModelica was started
  faults,    \* process deaths and exceptions so far
  losses,    \* lock helpers lost so far
  exclusive  \* none of these held the coordinator's global lock

store == <<claim, dirs, files, ledger>>
locks == <<lock, glock>>
call  == <<req, digest, seen, mine, run, outcome>>
spent == <<faults, losses, exclusive>>
vars  == <<claim, dirs, files, ledger, lock, glock, pc, req, digest, seen, mine,
           run, outcome, reply, launches, faults, losses, exclusive>>

-----------------------------------------------------------------------------
(* Where a call can be.                                                    *)

\* About to take the coordinator's global lock.
Coordinated == {"claim", "reserve", "adopt", "reject", "promote", "seal", "recover"}

\* Inside promoteRequest or rejectRequest, which compared the claim.
Replacing == {"cleanup", "rejecting", "promoting", "mkdir", "start"}

\* Under the global lock, with a durable write to come.
InCoordinator == {"counted", "sealing", "recovering"} \cup Replacing

\* submit, after its claim became running.
Executing == {"inputs", "execute", "log", "normalize", "evidence", "publish"}

\* submit, under the request lock.
Submitting ==
  {"recheck", "resume", "adopt", "engine", "reject", "promote"}
    \cup Replacing \cup Executing

\* statusFromClaim and reconcileCompleted.
Reading ==
  {"get", "status", "probe", "unprobe", "takeover", "reread", "reledger", "reconcile"}

Label ==
  {"idle", "done", "lock"} \cup Coordinated \cup InCoordinator \cup Submitting
    \cup Reading

\* How a call ends: the status it answers with, or why it throws.
Answer ==
  {"none", "pending", "running", "completed", "rejected", "recovery_required",
   "collision", "capacity", "changed", "incompatible", "drift", "absent",
   "integrity", "immutable", "busy", "fault"}

Goto(p, label) == pc' = [pc EXCEPT ![p] = label]

Say(p, answer) ==
  /\ pc' = [pc EXCEPT ![p] = "done"]
  /\ reply' = [reply EXCEPT ![p] = answer]

\* The claim file of the call's request becomes c.
SetClaim(p, c) == claim' = [claim EXCEPT ![req[p]] = c]

OnDisk(p) == claim[req[p]]
RunJson(p) == ledger[req[p]]

\* withGlobalLock: the helper of the coordinator's lock is spawned.
Enter(p) == glock = Free /\ glock' = p

\* And killed, if it lives: another call's helper stays.
LockLeft(p) == IF glock = p THEN Free ELSE glock

\* Run ids that a freshly generated one differs from.
UsedIds ==
  dirs \cup {claim[r].run : r \in Request} \cup {run[q] : q \in Proc}

-----------------------------------------------------------------------------
Init ==
  /\ claim = [r \in Request |-> NoClaim]
  /\ dirs = {}
  /\ files = [u \in RunId |-> {}]
  /\ ledger = [r \in Request |-> NoRecord]
  /\ lock = [r \in Request |-> Free]
  /\ glock = Free
  /\ pc = [p \in Proc |-> "idle"]
  /\ req \in [Proc -> Request]
  /\ digest = [p \in Proc |-> NoDigest]
  /\ seen = [p \in Proc |-> NoClaim]
  /\ mine = [p \in Proc |-> NoClaim]
  /\ run = [p \in Proc |-> NoRun]
  /\ outcome = [p \in Proc |-> "failed"]
  /\ reply = [p \in Proc |-> "none"]
  /\ launches = [r \in Request |-> 0]
  /\ faults = 0
  /\ losses = 0
  /\ exclusive = TRUE

-----------------------------------------------------------------------------
(* submit: claim the request (claimOrRead).                                *)

\* submit(request) with caller-owned bytes d for request id r; the catalogue
\* and the parameters validated before the claim leave no trace.
Submit(p, r, d) ==
  /\ pc[p] = "idle"
  /\ Goto(p, "claim")
  /\ req' = [req EXCEPT ![p] = r]
  /\ digest' = [digest EXCEPT ![p] = d]
  /\ UNCHANGED <<store, locks, seen, mine, run, outcome, reply, launches, spent>>

\* readDurableClaim, also after a lost election: the claim on disk decides.
ReadDurableClaim(p) ==
  /\ pc[p] = "claim" /\ glock = Free
  /\ \/ /\ OnDisk(p) = NoClaim
        /\ Goto(p, "reserve")
        /\ UNCHANGED <<seen, reply>>
     \/ /\ OnDisk(p) # NoClaim
        /\ OnDisk(p).digest # digest[p]
        /\ Say(p, "collision")
        /\ UNCHANGED seen
     \/ /\ OnDisk(p).digest = digest[p]
        /\ OnDisk(p).state = "rejected"
        /\ Say(p, "rejected")
        /\ UNCHANGED seen
     \/ /\ OnDisk(p).digest = digest[p]
        /\ OnDisk(p).state # "rejected"
        /\ seen' = [seen EXCEPT ![p] = OnDisk(p)]
        /\ Goto(p, "lock")
        /\ UNCHANGED reply
  /\ UNCHANGED <<store, locks, req, digest, mine, run, outcome, launches, spent>>

CapacityLeft(claims, ds) == UsedSlots(claims, ds) < MaxRuns

\* reserve("request", id): the existence check and the count; the loser of an
\* election re-reads the winner.
Reserve(p) ==
  /\ pc[p] = "reserve" /\ glock = Free
  /\ \/ /\ OnDisk(p) # NoClaim
        /\ Goto(p, "claim")
        /\ UNCHANGED <<glock, reply>>
     \/ /\ OnDisk(p) = NoClaim
        /\ ~ CapacityLeft(claim, dirs)
        /\ Say(p, "capacity")
        /\ UNCHANGED glock
     \/ /\ OnDisk(p) = NoClaim
        /\ CapacityLeft(claim, dirs)
        /\ Enter(p)
        /\ Goto(p, "counted")
        /\ UNCHANGED reply
  /\ UNCHANGED <<store, lock, call, launches, spent>>

\* The claimed claim, on the strength of that count.
WriteClaimed(p) ==
  /\ pc[p] = "counted"
  /\ SetClaim(p, Claimed(digest[p]))
  /\ seen' = [seen EXCEPT ![p] = Claimed(digest[p])]
  /\ mine' = [mine EXCEPT ![p] = Claimed(digest[p])]
  /\ glock' = LockLeft(p)
  /\ Goto(p, "lock")
  /\ UNCHANGED <<dirs, files, ledger, lock, req, digest, run, outcome, reply,
                 launches, spent>>

-----------------------------------------------------------------------------
(* submit: under the request lock, up to the durable running claim.        *)

\* A plausible slip: the helper's exit status is not looked at, so the lock
\* is believed to be taken although another helper holds it.
LockObtainedAlways(p) == TRUE

LockObtained(p) == lock[req[p]] = Free

\* A plausible slip: flock without LOCK_NB waits for the holder.
AcquireBlocking(p) ==
  /\ pc[p] = "lock" /\ LockObtained(p)
  /\ lock' = [lock EXCEPT ![req[p]] = p]
  /\ Goto(p, "recheck")
  /\ UNCHANGED <<store, glock, call, reply, launches, spent>>

\* locks.acquire: flock with LOCK_NB; the loser only reports.
AcquireRequestLock(p) ==
  /\ pc[p] = "lock"
  /\ \/ /\ LockObtained(p)
        /\ lock' = [lock EXCEPT ![req[p]] = p]
        /\ Goto(p, "recheck")
     \/ /\ ~ LockObtained(p)
        /\ Goto(p, "status")
        /\ UNCHANGED lock
  /\ UNCHANGED <<store, glock, call, reply, launches, spent>>

\* readClaim under the lock replaces the claim read before it.
Recheck(p) ==
  /\ pc[p] = "recheck"
  /\ seen' = [seen EXCEPT ![p] = OnDisk(p)]
  /\ Goto(p, "resume")
  /\ UNCHANGED <<store, locks, req, digest, mine, run, outcome, reply, launches, spent>>

\* A plausible slip: a started claim without run.json is executed once more.
MayExecuteStarted(c) == ~ Terminal(c)

\* The claim has not started OpenModelica and still holds its slot.
MayExecute(c) == SlotReserved(c)

\* recoveryResult: only an owner-lost running claim becomes recovery_required.
RecoveryResult(p) ==
  \/ seen[p].state = "running" /\ Goto(p, "recover") /\ UNCHANGED reply
  \/ seen[p].state = "recovery_required" /\ Say(p, "recovery_required")
  \/ /\ seen[p].state \notin {"running", "recovery_required"}
     /\ Say(p, "integrity")

\* A durable run.json wins over every claim state; otherwise only a claim
\* that never started may go on, with its own or an adopted reservation.
Resume(p) ==
  /\ pc[p] = "resume"
  /\ \/ /\ RunJson(p) # NoRecord
        /\ Goto(p, "reconcile")
        /\ UNCHANGED reply
     \/ /\ RunJson(p) = NoRecord
        /\ seen[p].state = "rejected"
        /\ Say(p, "rejected")
     \/ /\ RunJson(p) = NoRecord
        /\ MayExecute(seen[p])
        /\ Goto(p, IF mine[p] # NoClaim THEN "engine" ELSE "adopt")
        /\ UNCHANGED reply
     \/ /\ RunJson(p) = NoRecord
        /\ seen[p].state # "rejected" /\ ~ MayExecute(seen[p])
        /\ RecoveryResult(p)
  /\ UNCHANGED <<store, locks, call, launches, spent>>

\* adoptRequestReservation compares the claim on disk with the one read.
Adopt(p) ==
  /\ pc[p] = "adopt" /\ glock = Free
  /\ \/ /\ OnDisk(p) = seen[p]
        /\ mine' = [mine EXCEPT ![p] = seen[p]]
        /\ Goto(p, "engine")
        /\ UNCHANGED reply
     \/ /\ OnDisk(p) # seen[p]
        /\ Say(p, "changed")
        /\ UNCHANGED mine
  /\ UNCHANGED <<store, locks, req, digest, seen, run, outcome, launches, spent>>

\* A plausible slip: every promotion mints a new run_id.
PromotionIds(c) == RunId \ UsedIds

\* The run_id to promote: a claim left promoting keeps its own.
RunIdFor(c) == IF c.state = "promoting" THEN {c.run} ELSE RunId \ UsedIds

\* The engine and the kit files, probed now, build the pinned manifest.
EngineMatches(p) ==
  /\ pc[p] = "engine"
  /\ \E u \in RunIdFor(seen[p]) : run' = [run EXCEPT ![p] = u]
  /\ Goto(p, "promote")
  /\ UNCHANGED <<store, locks, req, digest, seen, mine, outcome, reply, launches, spent>>

\* They build another manifest than the one the request pins.
EngineDrifted(p) ==
  /\ pc[p] = "engine"
  /\ Goto(p, "reject")
  /\ UNCHANGED <<store, locks, call, reply, launches, spent>>

\* The probe fails or assertRuntimeCompatible refuses: the claim stays as it is.
EngineUnusable(p) ==
  /\ pc[p] = "engine"
  /\ Say(p, "incompatible")
  /\ UNCHANGED <<store, locks, call, launches, spent>>

\* A plausible slip: compare-and-replace without the comparison.
NotCompared(p) == TRUE

\* The claim on disk is byte for byte the one the reservation expects.
Unchanged(p) == OnDisk(p) = mine[p]

\* rejectRequest compares; an abandoned promotion has a directory to remove.
Reject(p) ==
  /\ pc[p] = "reject" /\ glock = Free
  /\ \/ /\ Unchanged(p)
        /\ Enter(p)
        /\ Goto(p, IF seen[p].state = "promoting" THEN "cleanup" ELSE "rejecting")
        /\ UNCHANGED reply
     \/ ~ Unchanged(p) /\ Say(p, "changed") /\ UNCHANGED glock
  /\ UNCHANGED <<store, lock, call, launches, spent>>

\* A plausible slip: the abandoned run directory is left behind.
LeaveAbandoned(p) ==
  /\ pc[p] = "cleanup"
  /\ Goto(p, "rejecting")
  /\ UNCHANGED <<store, locks, call, reply, launches, spent>>

\* Remove the abandoned directory, which throws unless it is empty or gone.
RemoveAbandoned(p) ==
  /\ pc[p] = "cleanup"
  /\ \/ /\ files[seen[p].run] = {}
        /\ dirs' = dirs \ {seen[p].run}
        /\ Goto(p, "rejecting")
        /\ UNCHANGED <<glock, reply>>
     \/ /\ files[seen[p].run] # {}
        /\ glock' = LockLeft(p)
        /\ Say(p, "integrity")
        /\ UNCHANGED dirs
  /\ UNCHANGED <<claim, files, ledger, lock, call, launches, spent>>

\* The terminal rejected claim, which frees the slot.
WriteRejected(p) ==
  /\ pc[p] = "rejecting"
  /\ SetClaim(p, Rejected(seen[p]))
  /\ glock' = LockLeft(p)
  /\ Say(p, "rejected")
  /\ UNCHANGED <<dirs, files, ledger, lock, call, launches, spent>>

\* promoteRequest compares.
Promote(p) ==
  /\ pc[p] = "promote" /\ glock = Free
  /\ \/ Unchanged(p) /\ Enter(p) /\ Goto(p, "promoting") /\ UNCHANGED reply
     \/ ~ Unchanged(p) /\ Say(p, "changed") /\ UNCHANGED glock
  /\ UNCHANGED <<store, lock, call, launches, spent>>

\* The run_id is published before its directory.
WritePromoting(p) ==
  /\ pc[p] = "promoting"
  /\ SetClaim(p, Promoting(seen[p], run[p]))
  /\ Goto(p, "mkdir")
  /\ UNCHANGED <<dirs, files, ledger, locks, call, reply, launches, spent>>

MakeRunDirectory(p) ==
  /\ pc[p] = "mkdir"
  /\ dirs' = dirs \cup {run[p]}
  /\ Goto(p, "start")
  /\ UNCHANGED <<claim, files, ledger, locks, call, reply, launches, spent>>

\* The running claim is durable before any artifact or the solver; submit goes
\* on with the claim it returns.
WriteRunning(p) ==
  LET runningClaim == Running(Promoting(seen[p], run[p]))
  IN  /\ pc[p] = "start"
      /\ SetClaim(p, runningClaim)
      /\ seen' = [seen EXCEPT ![p] = runningClaim]
      /\ glock' = LockLeft(p)
      /\ Goto(p, "inputs")
      /\ UNCHANGED <<dirs, files, ledger, lock, req, digest, mine, run, outcome,
                     reply, launches, spent>>

-----------------------------------------------------------------------------
(* submit: the execution.                                                  *)

WriteArtifact(p, a) == files' = [files EXCEPT ![run[p]] = @ \cup {a}]

\* request.json, parameters, model, scenario, schema and script; a source that
\* no longer is what the manifest sealed throws, and the claim stays running.
WriteInputs(p) ==
  /\ pc[p] = "inputs"
  /\ \/ WriteArtifact(p, "inputs") /\ Goto(p, "execute") /\ UNCHANGED reply
     \/ Say(p, "drift") /\ UNCHANGED files
  /\ UNCHANGED <<claim, dirs, ledger, locks, call, launches, spent>>

\* workspace.execute: whatever the runner throws is a failed execution.
Execute(p) ==
  /\ pc[p] = "execute"
  /\ launches' = [launches EXCEPT ![req[p]] = @ + 1]
  /\ \E o \in Outcome : outcome' = [outcome EXCEPT ![p] = o]
  /\ Goto(p, "log")
  /\ UNCHANGED <<store, locks, req, digest, seen, mine, run, reply, spent>>

WriteDiagnostics(p) ==
  /\ pc[p] = "log"
  /\ WriteArtifact(p, "diagnostics")
  /\ Goto(p, IF outcome[p] = "succeeded" THEN "normalize" ELSE "evidence")
  /\ UNCHANGED <<claim, dirs, ledger, locks, call, reply, launches, spent>>

\* The solver CSV is kept once it normalizes; otherwise the run is failed. (What
\* a failed run keeps when only the write of the CSV throws is in SealedRun.)
Normalize(p) ==
  /\ pc[p] = "normalize"
  /\ \/ WriteArtifact(p, "result") /\ UNCHANGED outcome
     \/ outcome' = [outcome EXCEPT ![p] = "failed"] /\ UNCHANGED files
  /\ Goto(p, "evidence")
  /\ UNCHANGED <<claim, dirs, ledger, locks, req, digest, seen, mine, run, reply,
                 launches, spent>>

\* A plausible slip: evidence.json is left to a later write.
PublishEarly(p) ==
  /\ pc[p] = "evidence"
  /\ ledger' = [ledger EXCEPT ![req[p]] =
                  [run |-> run[p], digest |-> digest[p], status |-> outcome[p]]]
  /\ Goto(p, "seal")
  /\ UNCHANGED <<claim, dirs, files, locks, call, reply, launches, spent>>

WriteEvidence(p) ==
  /\ pc[p] = "evidence"
  /\ WriteArtifact(p, "evidence")
  /\ Goto(p, "publish")
  /\ UNCHANGED <<claim, dirs, ledger, locks, call, reply, launches, spent>>

\* writeRunRecord: run.json is the commit point of the run.
WriteRunRecord(p) ==
  /\ pc[p] = "publish"
  /\ ledger' = [ledger EXCEPT ![req[p]] =
                  [run |-> run[p], digest |-> digest[p], status |-> outcome[p]]]
  /\ Goto(p, "seal")
  /\ UNCHANGED <<claim, dirs, files, locks, call, reply, launches, spent>>

\* A plausible slip: the claim on disk is overwritten whatever it is.
AcceptAnyRewrite(existing, new) == TRUE

\* The transition check of writeClaim, run on the claim found under the lock.
Accepts(existing, new) == Writable(existing, new)

\* writeClaim(new), up to its write: let through into the coordinator at
\* label, or done already, or refused.
Transition(p, new, label, answer) ==
  /\ glock = Free
  /\ \/ /\ Accepts(OnDisk(p), new) /\ OnDisk(p) # new
        /\ Enter(p)
        /\ Goto(p, label)
        /\ UNCHANGED reply
     \/ /\ Accepts(OnDisk(p), new) /\ OnDisk(p) = new
        /\ Say(p, answer)
        /\ UNCHANGED glock
     \/ /\ ~ Accepts(OnDisk(p), new)
        /\ Say(p, "immutable")
        /\ UNCHANGED glock
  /\ UNCHANGED <<store, lock, call, launches, spent>>

\* Its write.
Rewrite(p, new, answer) ==
  /\ SetClaim(p, new)
  /\ glock' = LockLeft(p)
  /\ Say(p, answer)
  /\ UNCHANGED <<dirs, files, ledger, lock, call, launches, spent>>

\* writeClaim(completed): the owner's seal, and a reader's reconciliation of
\* the run.json an owner left; both produce the same bytes.
Sealed(p) == Completed(seen[p], RunJson(p))

Seal(p) == pc[p] = "seal" /\ Transition(p, Sealed(p), "sealing", "completed")

WriteCompleted(p) == pc[p] = "sealing" /\ Rewrite(p, Sealed(p), "completed")

-----------------------------------------------------------------------------
(* request_get, and the submit that lost the request lock.                 *)

Get(p, r) ==
  /\ pc[p] = "idle"
  /\ Goto(p, "get")
  /\ req' = [req EXCEPT ![p] = r]
  /\ UNCHANGED <<store, locks, digest, seen, mine, run, outcome, reply, launches, spent>>

\* getRequest reads the claim without any lock.
ReadClaim(p) ==
  /\ pc[p] = "get"
  /\ \/ OnDisk(p) = NoClaim /\ Say(p, "absent") /\ UNCHANGED seen
     \/ /\ OnDisk(p) # NoClaim
        /\ seen' = [seen EXCEPT ![p] = OnDisk(p)]
        /\ Goto(p, "status")
        /\ UNCHANGED reply
  /\ UNCHANGED <<store, locks, req, digest, mine, run, outcome, launches, spent>>

\* statusFromClaim, first part: run.json is looked up for the claim read before.
StatusFromClaim(p) ==
  /\ pc[p] = "status"
  /\ \/ RunJson(p) # NoRecord /\ Goto(p, "reconcile") /\ UNCHANGED reply
     \/ /\ RunJson(p) = NoRecord
        /\ seen[p].state = "completed"
        /\ Say(p, "integrity")
     \/ /\ RunJson(p) = NoRecord
        /\ seen[p].state = "rejected"
        /\ Say(p, "rejected")
     \/ /\ RunJson(p) = NoRecord
        /\ ~ Terminal(seen[p])
        /\ Goto(p, "probe")
        /\ UNCHANGED reply
  /\ UNCHANGED <<store, locks, call, launches, spent>>

\* isHeld takes the lock to see whether it is held.
ProbeLock(p) ==
  /\ pc[p] = "probe"
  /\ \/ /\ LockObtained(p)
        /\ lock' = [lock EXCEPT ![req[p]] = p]
        /\ Goto(p, "unprobe")
        /\ UNCHANGED reply
     \/ ~ LockObtained(p) /\ Say(p, "running") /\ UNCHANGED lock
  /\ UNCHANGED <<store, glock, call, launches, spent>>

\* A plausible slip: the helper is left running when its call ends.
ReleaseForgotten(p) == lock

\* The request lock as the call leaves it: its helper, if it lives, is killed.
Released(p) ==
  [lock EXCEPT ![req[p]] = IF lock[req[p]] = p THEN Free ELSE lock[req[p]]]

\* The probe releases the lock again: nobody held it. A claim that never
\* started OpenModelica is left alone for a later submit.
Unprobe(p) ==
  /\ pc[p] = "unprobe"
  /\ lock' = Released(p)
  /\ \/ SlotReserved(seen[p]) /\ Say(p, "pending")
     \/ ~ SlotReserved(seen[p]) /\ Goto(p, "takeover") /\ UNCHANGED reply
  /\ UNCHANGED <<store, glock, call, launches, spent>>

\* The lock is taken for good before a started claim is judged ownerless.
TakeOver(p) ==
  /\ pc[p] = "takeover"
  /\ \/ /\ LockObtained(p)
        /\ lock' = [lock EXCEPT ![req[p]] = p]
        /\ Goto(p, "reread")
        /\ UNCHANGED reply
     \/ ~ LockObtained(p) /\ Say(p, "running") /\ UNCHANGED lock
  /\ UNCHANGED <<store, glock, call, launches, spent>>

\* Under the lock the claim is read again.
Reread(p) ==
  /\ pc[p] = "reread"
  /\ seen' = [seen EXCEPT ![p] = OnDisk(p)]
  /\ Goto(p, "reledger")
  /\ UNCHANGED <<store, locks, req, digest, mine, run, outcome, reply, launches, spent>>

\* And run.json: a run committed meanwhile is reconciled, never recovered.
Relookup(p) ==
  /\ pc[p] = "reledger"
  /\ \/ RunJson(p) # NoRecord /\ Goto(p, "reconcile") /\ UNCHANGED reply
     \/ RunJson(p) = NoRecord /\ RecoveryResult(p)
  /\ UNCHANGED <<store, locks, call, launches, spent>>

\* writeClaim(recovery_required).
Recover(p) ==
  /\ pc[p] = "recover"
  /\ Transition(p, RecoveryRequired(seen[p]), "recovering", "recovery_required")

WriteRecovery(p) ==
  pc[p] = "recovering" /\ Rewrite(p, RecoveryRequired(seen[p]), "recovery_required")

\* validateCompletedRun: run.json and its artifacts are those of claim c.
ValidRun(c, record) ==
  /\ record.digest = c.digest
  /\ ArtifactsOf(record.status) \subseteq files[record.run]
  /\ record.run = c.run

\* reconcileCompleted: judge the claim read before by the run.json read now.
Reconcile(p) ==
  /\ pc[p] = "reconcile"
  /\ run' = [run EXCEPT ![p] = RunJson(p).run]
  /\ \/ /\ ValidRun(seen[p], RunJson(p))
        /\ seen[p].state = "completed" /\ seen[p].seal = RunJson(p)
        /\ Say(p, "completed")
     \/ /\ ValidRun(seen[p], RunJson(p))
        /\ seen[p].state \in {"running", "recovery_required"}
        /\ Goto(p, "seal")
        /\ UNCHANGED reply
     \/ /\ \/ ~ ValidRun(seen[p], RunJson(p))
           \/ seen[p].state = "completed" /\ seen[p].seal # RunJson(p)
           \/ seen[p].state \in {"absent", "claimed", "promoting", "rejected"}
        /\ Say(p, "integrity")
  /\ UNCHANGED <<store, locks, req, digest, seen, mine, outcome, launches, spent>>

-----------------------------------------------------------------------------
(* The end of a call, exceptions and deaths.                               *)

\* The locals of a call that is over.
Forget(p) ==
  /\ digest' = [digest EXCEPT ![p] = NoDigest]
  /\ seen' = [seen EXCEPT ![p] = NoClaim]
  /\ mine' = [mine EXCEPT ![p] = NoClaim]
  /\ run' = [run EXCEPT ![p] = NoRun]
  /\ outcome' = [outcome EXCEPT ![p] = "failed"]
  /\ reply' = [reply EXCEPT ![p] = "none"]
  /\ pc' = [pc EXCEPT ![p] = "idle"]
  /\ UNCHANGED req

\* The finally block releases the request lock and the caller gets the reply.
Return(p) ==
  /\ pc[p] = "done"
  /\ lock' = Released(p)
  /\ Forget(p)
  /\ UNCHANGED <<store, glock, launches, spent>>

\* withGlobalLock gives up after 200 attempts while another helper holds it.
CoordinatorBusy(p) ==
  /\ pc[p] \in Coordinated /\ glock # Free
  /\ Say(p, "busy")
  /\ UNCHANGED <<store, locks, call, launches, spent>>

\* An I/O operation throws before its effect, or its fsync does after it (then
\* the call is at the next label already). Locks are released on the way out.
Throw(p) ==
  /\ pc[p] \notin {"idle", "done", "execute"}
  /\ faults < MaxFaults
  /\ faults' = faults + 1
  /\ Say(p, "fault")
  /\ glock' = LockLeft(p)
  /\ UNCHANGED <<store, lock, call, launches, losses, exclusive>>

\* The process dies: its calls are gone, its lock helpers are orphans.
Crash(p) ==
  /\ pc[p] # "idle"
  /\ faults < MaxFaults
  /\ faults' = faults + 1
  /\ lock' = [r \in Request |-> IF lock[r] = p THEN Orphan ELSE lock[r]]
  /\ glock' = IF glock = p THEN Orphan ELSE glock
  /\ Forget(p)
  /\ UNCHANGED <<store, launches, losses, exclusive>>

\* A plausible slip: the helper sleeps without looking at its parent.
OrphanStays(r) == FALSE /\ UNCHANGED vars

\* A helper notices once a second that its parent is gone, and exits.
OrphanExits(r) ==
  /\ lock[r] = Orphan
  /\ lock' = [lock EXCEPT ![r] = Free]
  /\ UNCHANGED <<store, glock, pc, call, reply, launches, spent>>

CoordinatorOrphanExits ==
  /\ glock = Orphan
  /\ glock' = Free
  /\ UNCHANGED <<store, lock, pc, call, reply, launches, spent>>

\* A request lock's helper dies while its parent lives: the kernel frees the
\* lock and the call does not notice.
HelperDies(r) ==
  /\ lock[r] \in Proc
  /\ losses < MaxHelperLosses
  /\ losses' = losses + 1
  /\ lock' = [lock EXCEPT ![r] = Free]
  /\ UNCHANGED <<store, glock, pc, call, reply, launches, faults, exclusive>>

\* The helper of the coordinator's lock is one like it: its call goes on to
\* write what it decided on, and another one may be let in.
CoordinatorHelperDies ==
  /\ glock \in Proc
  /\ losses < MaxHelperLosses
  /\ losses' = losses + 1
  /\ exclusive' = FALSE
  /\ glock' = Free
  /\ UNCHANGED <<store, lock, pc, call, reply, launches, faults>>

-----------------------------------------------------------------------------
(* One step of a call that is under way.                                   *)
Step(p) ==
  \/ ReadDurableClaim(p) \/ Reserve(p) \/ WriteClaimed(p) \/ AcquireRequestLock(p)
  \/ Recheck(p) \/ Resume(p) \/ Adopt(p)
  \/ EngineMatches(p) \/ EngineDrifted(p) \/ EngineUnusable(p)
  \/ Reject(p) \/ RemoveAbandoned(p) \/ WriteRejected(p)
  \/ Promote(p) \/ WritePromoting(p) \/ MakeRunDirectory(p) \/ WriteRunning(p)
  \/ WriteInputs(p) \/ Execute(p) \/ WriteDiagnostics(p) \/ Normalize(p)
  \/ WriteEvidence(p) \/ WriteRunRecord(p) \/ Seal(p) \/ WriteCompleted(p)
  \/ ReadClaim(p) \/ StatusFromClaim(p) \/ ProbeLock(p) \/ Unprobe(p)
  \/ TakeOver(p) \/ Reread(p) \/ Relookup(p) \/ Recover(p) \/ WriteRecovery(p)
  \/ Reconcile(p) \/ CoordinatorBusy(p) \/ Return(p)

Start(p) ==
  \/ \E r \in Request, d \in Digest : Submit(p, r, d)
  \/ \E r \in Request : Get(p, r)

Next ==
  \/ \E p \in Proc : Start(p) \/ Step(p) \/ Throw(p) \/ Crash(p)
  \/ \E r \in Request : OrphanExits(r) \/ HelperDies(r)
  \/ CoordinatorOrphanExits \/ CoordinatorHelperDies

Spec == Init /\ [][Next]_vars

\* A call that is under way goes on, whether or not it gets its locks, and an
\* orphaned helper exits: the runtime schedules its event loop and the helper
\* polls its parent. Nothing says that a call is ever made.
Fairness ==
  /\ \A p \in Proc : WF_vars(Step(p))
  /\ \A r \in Request : WF_vars(OrphanExits(r))
  /\ WF_vars(CoordinatorOrphanExits)

FairSpec == Spec /\ Fairness

\* Process p stands for a client that submits the same request again and
\* again, and whose engine matches the pinned manifest again and again.
RetryFairness(p, r, d) ==
  /\ SF_vars(Submit(p, r, d))
  /\ SF_vars(EngineMatches(p))

-----------------------------------------------------------------------------
(* Types: every file holds what its reader accepts, every claim is one that *)
(* parseClaim accepts.                                                     *)
TypeOK ==
  /\ claim \in [Request -> Claim]
  /\ \A r \in Request : WellFormed(claim[r])
  /\ dirs \subseteq RunId
  /\ files \in [RunId -> SUBSET Artifact]
  /\ ledger \in [Request -> RunRecord \cup {NoRecord}]
  /\ lock \in [Request -> Proc \cup {Free, Orphan}]
  /\ glock \in Proc \cup {Free, Orphan}
  /\ pc \in [Proc -> Label]
  /\ req \in [Proc -> Request]
  /\ digest \in [Proc -> Digest \cup {NoDigest}]
  /\ seen \in [Proc -> Claim]
  /\ mine \in [Proc -> Claim]
  /\ run \in [Proc -> RunId \cup {NoRun}]
  /\ outcome \in [Proc -> Outcome]
  /\ reply \in [Proc -> Answer]
  /\ launches \in [Request -> Nat]
  /\ faults \in Nat
  /\ losses \in Nat
  /\ exclusive \in BOOLEAN

-----------------------------------------------------------------------------
(* Safety. What the protocol promises rests on the coordinator, whose      *)
(* operations look and then write: they exclude each other for as long as  *)
(* no helper of its global lock dies under its parent. The helpers of the  *)
(* request locks may.                                                      *)

\* Call p executes request r: it published the running claim and has not
\* committed run.json.
Owns(p, r) == pc[p] \in Executing /\ req[p] = r

\* OpenModelica is started at most once for a request id: no retry, lost
\* election, adopted reservation, dead owner or lost request lock executes it
\* again, as long as the coordinator's operations exclude each other.
AtMostOneExecution == exclusive => \A r \in Request : launches[r] <= 1

\* Whoever executes a request does so for the run_id of its durable claim, in
\* that run's existing directory, and alone, also when its request lock is
\* lost under it.
ExecutionIsClaimed ==
  exclusive =>
    \A p \in Proc, r \in Request : Owns(p, r) =>
      /\ Started(claim[r]) /\ claim[r].run = run[p]
      /\ run[p] \in dirs
      /\ \A q \in Proc : Owns(q, r) => q = p

\* run.json is the commit record: from its first appearance it is the run of
\* the claim, for the claimed bytes, with every artifact it lists in place,
\* and a completed claim seals exactly it.
RunJsonIsWhole ==
  exclusive =>
    \A r \in Request :
      /\ ledger[r] # NoRecord => Started(claim[r]) /\ ValidRun(claim[r], ledger[r])
      /\ claim[r].state = "completed" => ledger[r] # NoRecord /\ claim[r].seal = ledger[r]

\* A rejected request never ran: no execution, no run.json, and the directory
\* of a promotion it abandoned is gone, so it holds no slot.
RejectedNeverRan ==
  exclusive =>
    \A r \in Request : claim[r].state = "rejected" =>
      /\ launches[r] = 0 /\ ledger[r] = NoRecord
      /\ claim[r].run \notin dirs

\* Directories and claims that may still get one never exceed the limit, also
\* while a promotion is half done or was left half done by a dead process: a
\* count under the global lock is still right when its claim is written.
CapacityNeverExceeded == exclusive => UsedSlots(claim, dirs) <= MaxRuns

\* No run directory is leaked: each one belongs to exactly one claim.
EveryDirectoryIsClaimed ==
  exclusive =>
    \A u \in dirs : \E r \in Request :
      /\ claim[r].run = u
      /\ \A s \in Request : claim[s].run = u => s = r

\* With lock helpers that live as long as their parents, a claim is marked
\* recovery_required only when no live call executes the request.
RecoveryMeansOwnerLost ==
  losses = 0 =>
    \A p \in Proc, r \in Request :
      claim[r].state = "recovery_required" => ~ Owns(p, r)

\* An answer is backed by the durable state when it is given: completed with
\* the run_id of the sealed claim, rejected by a rejected claim, and
\* recovery_required by a claim that had started; and without lost helpers
\* the transition check never refuses a writer that followed the protocol.
AnswersAreDurable ==
  exclusive =>
    \A p \in Proc :
      /\ reply[p] = "completed" =>
           OnDisk(p).state = "completed" /\ OnDisk(p).run = run[p]
      /\ reply[p] = "rejected" => OnDisk(p).state = "rejected"
      /\ reply[p] = "recovery_required" => Started(OnDisk(p))
      /\ losses = 0 => reply[p] # "immutable"

-----------------------------------------------------------------------------
(* The protocol implements RequestLifecycle.                               *)

PhaseOf(c) ==
  CASE SlotReserved(c) -> "pending"
    [] c.state = "running" -> "started"
    [] OTHER -> c.state

Lifecycle == INSTANCE RequestLifecycle WITH
  Result <- RunRecord,
  NoResult <- NoRecord,
  phase <- [r \in Request |-> PhaseOf(claim[r])],
  bytes <- [r \in Request |-> claim[r].digest],
  executions <- launches,
  result <- ledger

\* Every step of every call, and every death, is a step of the life-cycle of
\* one request or changes nothing it shows, in behaviours that lose no helper
\* of the coordinator's lock.
ImplementsLifecycle == Lifecycle!LifecycleSpec

-----------------------------------------------------------------------------
(* Liveness.                                                               *)

\* Every call ends: no path waits for a lock, and a dead owner's helpers go.
CallsReturn == \A p \in Proc : pc[p] # "idle" ~> pc[p] = "idle"

\* No lock outlives its owner for ever, on any error path.
LocksComeBack ==
  /\ \A r \in Request : lock[r] # Free ~> lock[r] = Free
  /\ glock # Free ~> glock = Free

Settled(c) == Terminal(c) \/ c.state = "recovery_required"

\* Nothing that dead or failed calls leave behind blocks a retry for ever:
\* once no other call interferes, the request that client p keeps submitting
\* is settled, whatever locks, promotions and reservations were abandoned.
RetrySettles(p, r) ==
  <>[](\A q \in Proc \ {p} : pc[q] = "idle")
    => (claim[r].state # "absent" ~> Settled(claim[r]))

-----------------------------------------------------------------------------
(* What docs and comments say of the program and its runs refute.          *)

\* Identical bytes under the same id "resolve to the same run or rejection":
\* on an undamaged store no call reports an integrity violation.
NoSpuriousIntegrityError == \A p \in Proc : reply[p] # "integrity"

=============================================================================
