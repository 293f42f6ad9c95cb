---------------------- MODULE ResumableRequests_proofs ----------------------
(***************************************************************************)
(* The 2.1 protocol, in three layers. ExecutionInv is inductive: types,    *)
(* what each call knows, the coordinator lock, the ownership of an         *)
(* execution and the count of executions. IdentityInv is inductive with    *)
(* it: run ids, directories and run.json belong to one claim. AnswerInv is *)
(* inductive with both: artifacts, seals, the request lock and answers.    *)
(* One lemma per action in the first two layers, with one step per part of *)
(* the invariant; an action that rewrites a claim first establishes what   *)
(* the new claim is. The third argues from who may write what.             *)
(* All of them are inductive while "exclusive" holds: no helper of the     *)
(* coordinator's lock was lost under its parent. The lemmas are about one  *)
(* step; the theorems carry the condition, as the properties do.           *)
(***************************************************************************)
EXTENDS ResumableRequestsInv, RequestClaims_proofs, TLAPS

\* The labels of the control points belong to Label.
LEMMA LabelValues ==
  /\ {"idle", "done", "lock", "claim", "reserve", "adopt", "reject", "promote"} \subseteq Label
  /\ {"seal", "recover", "recheck", "resume", "engine"} \subseteq Label
  /\ {"counted", "cleanup", "rejecting", "promoting", "mkdir", "start"} \subseteq Label
  /\ {"sealing", "recovering", "inputs", "execute", "log"} \subseteq Label
  /\ {"normalize", "evidence", "publish", "get", "status", "probe"} \subseteq Label
  /\ {"unprobe", "takeover", "reread", "reledger", "reconcile"} \subseteq Label
BY DEF Label, Coordinated, Submitting, InCoordinator, Replacing, Executing, Reading

\* A new call knows nothing yet and holds nothing.
LEMMA SubmitPreserves ==
  ASSUME ExecutionInv, NEW p \in Proc, NEW r \in Request, NEW d \in Digest, Submit(p, r, d)
  PROVE  ExecutionInv'
<1>1. TypeOK'
  BY LabelValues
     DEF ExecutionInv, TypeOK, Submit, Goto, store, locks, spent
<1>2. LocalOK'
  BY DEF ExecutionInv, TypeOK, LocalOK, Reserving, InCoordinator, Replacing, Submitting,
          Preparing, Executing, Promotable, Unclaimed, Submit, Goto, store
<1>3. KnownOK'
  BY ClaimShape
     DEF ExecutionInv, TypeOK, LocalOK, KnownOK, Reserving, InCoordinator, Replacing,
          Submitting, Executing, Promotable, Unclaimed, Submit, Goto, store
<1>4. CoordinatorOK'
  BY DEF ExecutionInv, TypeOK, CoordinatorOK, InCoordinator, Replacing, Submit, Goto,
          store, locks
<1>5. OwnerOK'
  BY DEF ExecutionInv, TypeOK, OwnerOK, Executing, Submit, Goto, store
<1>6. LaunchOK'
  BY DEF ExecutionInv, TypeOK, LaunchOK, Submit, Goto, store
<1> QED BY <1>1, <1>2, <1>3, <1>4, <1>5, <1>6 DEF ExecutionInv

\* A new request_get knows nothing yet and holds nothing.
LEMMA GetPreserves ==
  ASSUME ExecutionInv, NEW p \in Proc, NEW r \in Request, Get(p, r)
  PROVE  ExecutionInv'
<1>1. TypeOK'
  BY LabelValues
     DEF ExecutionInv, TypeOK, Get, Goto, store, locks, spent
<1>2. LocalOK'
  BY DEF ExecutionInv, TypeOK, LocalOK, Reserving, InCoordinator, Replacing, Submitting,
          Preparing, Executing, Promotable, Unclaimed, Get, Goto, store
<1>3. KnownOK'
  BY ClaimShape
     DEF ExecutionInv, TypeOK, LocalOK, KnownOK, Reserving, InCoordinator, Replacing,
          Submitting, Executing, Promotable, Unclaimed, Get, Goto, store
<1>4. CoordinatorOK'
  BY DEF ExecutionInv, TypeOK, CoordinatorOK, InCoordinator, Replacing, Get, Goto, store,
          locks
<1>5. OwnerOK'
  BY DEF ExecutionInv, TypeOK, OwnerOK, Executing, Get, Goto, store
<1>6. LaunchOK'
  BY DEF ExecutionInv, TypeOK, LaunchOK, Get, Goto, store
<1> QED BY <1>1, <1>2, <1>3, <1>4, <1>5, <1>6 DEF ExecutionInv

\* readDurableClaim of a submit hands on a claim for the caller's bytes.
LEMMA ReadDurableClaimPreserves ==
  ASSUME ExecutionInv, NEW p \in Proc, ReadDurableClaim(p)
  PROVE  ExecutionInv'
<1>1. /\ OnDisk(p) \in Claim /\ WellFormed(OnDisk(p)) /\ digest[p] \in Digest
  BY DEF ExecutionInv, TypeOK, LocalOK, Preparing, ReadDurableClaim, OnDisk
<1>2. pc'[p] = "lock" => seen'[p] # NoClaim
  BY <1>1, ClaimShape, ClaimConstants DEF ExecutionInv, TypeOK, ReadDurableClaim, Goto, Say
<1>3. TypeOK'
  BY LabelValues
     DEF ExecutionInv, TypeOK, Answer, ReadDurableClaim, OnDisk, Goto, Say,
          store, locks, spent
<1>4. LocalOK'
  BY <1>1, <1>2, ClaimShape
     DEF ExecutionInv, TypeOK, LocalOK, Reserving, InCoordinator, Replacing, Submitting, Preparing,
         Executing, Promotable, Unclaimed, ReadDurableClaim, Goto, Say, store
<1>5. KnownOK'
  BY DEF ExecutionInv, TypeOK, KnownOK, Reserving, InCoordinator, Replacing, Submitting,
          Executing, Promotable, ReadDurableClaim, OnDisk, Goto, Say, store
<1>6. CoordinatorOK'
  BY DEF ExecutionInv, TypeOK, CoordinatorOK, InCoordinator, Replacing, ReadDurableClaim,
          OnDisk, Goto, Say, store, locks
<1>7. OwnerOK'
  BY DEF ExecutionInv, TypeOK, OwnerOK, Executing, ReadDurableClaim, OnDisk,
          Goto, Say, store
<1>8. LaunchOK'
  BY DEF ExecutionInv, TypeOK, LaunchOK, ReadDurableClaim, OnDisk, Goto, Say,
          store
<1> QED BY <1>3, <1>4, <1>5, <1>6, <1>7, <1>8 DEF ExecutionInv

\* An election is won only for a request without a claim.
LEMMA ReservePreserves ==
  ASSUME ExecutionInv, NEW p \in Proc, Reserve(p)
  PROVE  ExecutionInv'
<1>1. /\ pc[p] = "reserve" /\ glock = Free /\ digest[p] \in Digest
      /\ UNCHANGED <<claim, dirs, files, ledger, lock, req, digest, seen, mine, run, outcome,
                     launches, faults, losses, exclusive>>
  BY DEF ExecutionInv, LocalOK, Preparing, Reserve, store, call, spent
<1>2. \/ /\ claim[req[p]] = NoClaim
         /\ pc' = [pc EXCEPT ![p] = "counted"] /\ glock' = p
         /\ reply' = reply
      \/ /\ glock' = glock
         /\ \/ pc' = [pc EXCEPT ![p] = "claim"] /\ reply' = reply
            \/ pc' = [pc EXCEPT ![p] = "done"] /\ reply' = [reply EXCEPT ![p] = "capacity"]
  BY DEF Reserve, Enter, Goto, Say, OnDisk
<1>3. TypeOK'
  BY <1>1, <1>2, LabelValues DEF ExecutionInv, TypeOK, Answer
<1>4. LocalOK'
  BY <1>1, <1>2
     DEF ExecutionInv, TypeOK, LocalOK, Reserving, Replacing, Submitting, Preparing,
         Executing, Promotable, Unclaimed
<1>5. KnownOK'
  BY <1>1, <1>2
     DEF ExecutionInv, TypeOK, KnownOK, Reserving, Replacing, Submitting, Executing,
         Promotable
<1>6. CoordinatorOK'
  BY <1>1, <1>2, ProtocolConstants
     DEF ExecutionInv, TypeOK, CoordinatorOK, InCoordinator, Replacing
<1>7. OwnerOK'
  BY <1>1, <1>2 DEF ExecutionInv, TypeOK, OwnerOK, Executing
<1>8. LaunchOK'
  BY <1>1, <1>2 DEF ExecutionInv, TypeOK, LaunchOK
<1> QED BY <1>3, <1>4, <1>5, <1>6, <1>7, <1>8 DEF ExecutionInv

\* There still is no claim when the winner writes its own.
LEMMA WriteClaimedPreserves ==
  ASSUME ExecutionInv, NEW p \in Proc, WriteClaimed(p)
  PROVE  ExecutionInv'
<1> DEFINE new == Claimed(digest[p])
<1>1. /\ new \in Claim /\ WellFormed(new) /\ new # NoClaim /\ SlotReserved(new)
      /\ new.digest = digest[p] /\ new.run = NoRun /\ new.state # "promoting"
  BY ClaimedValues DEF ExecutionInv, TypeOK, LocalOK, Preparing, WriteClaimed
<1>2. /\ pc[p] = "counted" /\ digest[p] \in Digest
      /\ claim' = [claim EXCEPT ![req[p]] = new]
      /\ seen' = [seen EXCEPT ![p] = new]
      /\ mine' = [mine EXCEPT ![p] = new]
      /\ pc' = [pc EXCEPT ![p] = "lock"]
      /\ UNCHANGED <<dirs, files, ledger, lock, req, digest, run, outcome, reply,
                     launches, faults, losses, exclusive>>
  BY DEF ExecutionInv, LocalOK, Preparing, WriteClaimed, SetClaim, Goto, spent
<1>3. claim[req[p]] = NoClaim /\ glock = p /\ glock' = Free
  BY <1>2 DEF ExecutionInv, CoordinatorOK, InCoordinator, WriteClaimed, LockLeft
<1> HIDE DEF new
<1>4. TypeOK'
  BY <1>1, <1>2, <1>3, LabelValues DEF ExecutionInv, TypeOK
<1>5. LocalOK'
  BY <1>1, <1>2, ClaimShape
     DEF ExecutionInv, TypeOK, LocalOK, Reserving, Replacing, Submitting, Preparing,
         Executing, Promotable, Unclaimed
<1>6. KnownOK'
  BY <1>1, <1>2, <1>3, ClaimShape
     DEF ExecutionInv, TypeOK, KnownOK, Reserving, Replacing, Submitting, Executing,
         Promotable
<1>7. CoordinatorOK'
  BY <1>2, <1>3, ProtocolConstants
     DEF ExecutionInv, TypeOK, CoordinatorOK, InCoordinator, Replacing
<1>8. OwnerOK'
  <2>1. ~ Started(NoClaim)
    BY ClaimShape
  <2> QED
    BY <1>1, <1>2, <1>3, <2>1 DEF ExecutionInv, TypeOK, OwnerOK, Executing
<1>9. LaunchOK'
  BY <1>1, <1>2, <1>3, ClaimShape DEF ExecutionInv, TypeOK, LaunchOK
<1> QED BY <1>4, <1>5, <1>6, <1>7, <1>8, <1>9 DEF ExecutionInv

\* The request lock is no part of what a call may write.
LEMMA AcquireRequestLockPreserves ==
  ASSUME ExecutionInv, NEW p \in Proc, AcquireRequestLock(p)
  PROVE  ExecutionInv'
<1>1. TypeOK'
  BY LabelValues
     DEF ExecutionInv, TypeOK, AcquireRequestLock, LockObtained, Goto, store,
          call, spent
<1>2. LocalOK'
  BY DEF ExecutionInv, TypeOK, LocalOK, Reserving, InCoordinator, Replacing, Submitting,
          Preparing, Executing, Promotable, Unclaimed, AcquireRequestLock,
          LockObtained, Goto, store, call
<1>3. KnownOK'
  BY DEF ExecutionInv, TypeOK, KnownOK, Reserving, InCoordinator, Replacing, Submitting,
          Executing, Promotable, AcquireRequestLock, LockObtained, Goto,
          store, call
<1>4. CoordinatorOK'
  BY DEF ExecutionInv, TypeOK, CoordinatorOK, InCoordinator, Replacing,
          AcquireRequestLock, LockObtained, Goto, store, call
<1>5. OwnerOK'
  BY DEF ExecutionInv, TypeOK, OwnerOK, Executing, AcquireRequestLock,
          LockObtained, Goto, store, call
<1>6. LaunchOK'
  BY DEF ExecutionInv, TypeOK, LaunchOK, AcquireRequestLock, LockObtained,
          Goto, store, call
<1> QED BY <1>1, <1>2, <1>3, <1>4, <1>5, <1>6 DEF ExecutionInv

\* The claim read again under the lock has the identity of the one before.
LEMMA RecheckPreserves ==
  ASSUME ExecutionInv, NEW p \in Proc, Recheck(p)
  PROVE  ExecutionInv'
<1>1. TypeOK'
  BY LabelValues
     DEF ExecutionInv, TypeOK, Recheck, OnDisk, Goto, store, locks, spent
<1>2. LocalOK'
  BY ClaimShape
     DEF ExecutionInv, TypeOK, LocalOK, KnownOK, Reserving, InCoordinator, Replacing,
          Submitting, Preparing, Executing, Promotable, Unclaimed, Recheck,
          OnDisk, Goto, store, locks, spent
<1>3. KnownOK'
  BY ClaimShape
     DEF ExecutionInv, TypeOK, LocalOK, KnownOK, Reserving, InCoordinator, Replacing,
          Submitting, Executing, Promotable, Unclaimed, Recheck, OnDisk, Goto,
          store
<1>4. CoordinatorOK'
  BY DEF ExecutionInv, TypeOK, CoordinatorOK, InCoordinator, Replacing, Recheck, OnDisk,
          Goto, store, locks
<1>5. OwnerOK'
  BY DEF ExecutionInv, TypeOK, OwnerOK, Executing, Recheck, OnDisk, Goto,
          store
<1>6. LaunchOK'
  BY DEF ExecutionInv, TypeOK, LaunchOK, Recheck, OnDisk, Goto, store
<1> QED BY <1>1, <1>2, <1>3, <1>4, <1>5, <1>6 DEF ExecutionInv

\* Under the request lock only a claim that never started goes on.
LEMMA ResumePreserves ==
  ASSUME ExecutionInv, NEW p \in Proc, Resume(p)
  PROVE  ExecutionInv'
<1>1. mine[p].state # "promoting"
  BY DEF ExecutionInv, KnownOK, Resume
<1>2. TypeOK'
  BY LabelValues
     DEF ExecutionInv, TypeOK, Answer, Resume, RunJson, Goto, Say, MayExecute,
          RecoveryResult, store, locks, call, spent
<1>3. LocalOK'
  BY DEF ExecutionInv, TypeOK, LocalOK, Reserving, InCoordinator, Replacing, Submitting,
          Preparing, Executing, Promotable, Unclaimed, Resume, RunJson, Goto,
          Say, MayExecute, RecoveryResult, store, call
<1>4. KnownOK'
  BY <1>1, ClaimShape
     DEF ExecutionInv, TypeOK, LocalOK, KnownOK, Reserving, InCoordinator, Replacing, Submitting,
         Executing, Promotable, Resume, RecoveryResult, Goto, Say, store, call
<1>5. CoordinatorOK'
  BY DEF ExecutionInv, TypeOK, CoordinatorOK, InCoordinator, Replacing, Resume, RunJson,
          Goto, Say, MayExecute, RecoveryResult, store, locks, call
<1>6. OwnerOK'
  BY DEF ExecutionInv, TypeOK, OwnerOK, Executing, Resume, RunJson, Goto, Say,
          MayExecute, RecoveryResult, store, call
<1>7. LaunchOK'
  BY DEF ExecutionInv, TypeOK, LaunchOK, Resume, RunJson, Goto, Say,
          MayExecute, RecoveryResult, store, call
<1> QED BY <1>2, <1>3, <1>4, <1>5, <1>6, <1>7 DEF ExecutionInv

\* An adopted reservation expects exactly the claim its call has read.
LEMMA AdoptPreserves ==
  ASSUME ExecutionInv, NEW p \in Proc, Adopt(p)
  PROVE  ExecutionInv'
<1>1. TypeOK'
  BY LabelValues
     DEF ExecutionInv, TypeOK, Answer, Adopt, OnDisk, Goto, Say, store, locks,
          spent
<1>2. LocalOK'
  BY DEF ExecutionInv, TypeOK, LocalOK, Reserving, InCoordinator, Replacing, Submitting,
          Preparing, Executing, Promotable, Unclaimed, Adopt, OnDisk, Goto,
          Say, store
<1>3. KnownOK'
  BY DEF ExecutionInv, TypeOK, KnownOK, Reserving, InCoordinator, Replacing, Submitting,
          Executing, Promotable, Adopt, OnDisk, Goto, Say, store
<1>4. CoordinatorOK'
  BY DEF ExecutionInv, TypeOK, CoordinatorOK, InCoordinator, Replacing, Adopt, OnDisk,
          Goto, Say, store, locks
<1>5. OwnerOK'
  BY DEF ExecutionInv, TypeOK, OwnerOK, Executing, Adopt, OnDisk, Goto, Say,
          store
<1>6. LaunchOK'
  BY DEF ExecutionInv, TypeOK, LaunchOK, Adopt, OnDisk, Goto, Say, store
<1> QED BY <1>1, <1>2, <1>3, <1>4, <1>5, <1>6 DEF ExecutionInv

\* The run_id to promote is the one of an abandoned promotion, or a fresh one.
LEMMA EngineMatchesPreserves ==
  ASSUME ExecutionInv, NEW p \in Proc, EngineMatches(p)
  PROVE  ExecutionInv'
<1>1. RunIdFor(seen[p]) \subseteq RunId
  BY ClaimShape DEF ExecutionInv, TypeOK, LocalOK, RunIdFor
<1>2. TypeOK'
  BY <1>1, LabelValues DEF ExecutionInv, TypeOK, EngineMatches, Goto, store, locks, spent
<1>3. LocalOK'
  BY ClaimShape
     DEF ExecutionInv, TypeOK, LocalOK, Reserving, InCoordinator, Replacing, Submitting,
          Preparing, Executing, Promotable, Unclaimed, EngineMatches,
          RunIdFor, Goto, store
<1>4. KnownOK'
  BY DEF ExecutionInv, TypeOK, KnownOK, Reserving, InCoordinator, Replacing, Submitting,
          Executing, Promotable, EngineMatches, RunIdFor, Goto, store
<1>5. CoordinatorOK'
  BY DEF ExecutionInv, TypeOK, CoordinatorOK, InCoordinator, Replacing, EngineMatches,
          RunIdFor, Goto, store, locks
<1>6. OwnerOK'
  BY DEF ExecutionInv, TypeOK, OwnerOK, Executing, EngineMatches, RunIdFor,
          Goto, store
<1>7. LaunchOK'
  BY DEF ExecutionInv, TypeOK, LaunchOK, EngineMatches, RunIdFor, Goto, store
<1> QED BY <1>2, <1>3, <1>4, <1>5, <1>6, <1>7 DEF ExecutionInv

\* A drifted manifest leaves the reservation as it is.
LEMMA EngineDriftedPreserves ==
  ASSUME ExecutionInv, NEW p \in Proc, EngineDrifted(p)
  PROVE  ExecutionInv'
<1>1. TypeOK'
  BY LabelValues
     DEF ExecutionInv, TypeOK, EngineDrifted, Goto, store, locks, call, spent
<1>2. LocalOK'
  BY DEF ExecutionInv, TypeOK, LocalOK, Reserving, InCoordinator, Replacing, Submitting,
          Preparing, Executing, Promotable, Unclaimed, EngineDrifted, Goto,
          store, call
<1>3. KnownOK'
  BY DEF ExecutionInv, TypeOK, KnownOK, Reserving, InCoordinator, Replacing, Submitting,
          Executing, Promotable, EngineDrifted, Goto, store, call
<1>4. CoordinatorOK'
  BY DEF ExecutionInv, TypeOK, CoordinatorOK, InCoordinator, Replacing, EngineDrifted,
          Goto, store, locks, call
<1>5. OwnerOK'
  BY DEF ExecutionInv, TypeOK, OwnerOK, Executing, EngineDrifted, Goto, store,
          call
<1>6. LaunchOK'
  BY DEF ExecutionInv, TypeOK, LaunchOK, EngineDrifted, Goto, store, call
<1> QED BY <1>1, <1>2, <1>3, <1>4, <1>5, <1>6 DEF ExecutionInv

\* An unusable engine leaves the claim as it is.
LEMMA EngineUnusablePreserves ==
  ASSUME ExecutionInv, NEW p \in Proc, EngineUnusable(p)
  PROVE  ExecutionInv'
<1>1. TypeOK'
  BY LabelValues
     DEF ExecutionInv, TypeOK, Answer, EngineUnusable, Say, store, locks,
          call, spent
<1>2. LocalOK'
  BY DEF ExecutionInv, TypeOK, LocalOK, Reserving, InCoordinator, Replacing, Submitting,
          Preparing, Executing, Promotable, Unclaimed, EngineUnusable, Say,
          store, call
<1>3. KnownOK'
  BY DEF ExecutionInv, TypeOK, KnownOK, Reserving, InCoordinator, Replacing, Submitting,
          Executing, Promotable, EngineUnusable, Say, store, call
<1>4. CoordinatorOK'
  BY DEF ExecutionInv, TypeOK, CoordinatorOK, InCoordinator, Replacing, EngineUnusable,
          Say, store, locks, call
<1>5. OwnerOK'
  BY DEF ExecutionInv, TypeOK, OwnerOK, Executing, EngineUnusable, Say, store,
          call
<1>6. LaunchOK'
  BY DEF ExecutionInv, TypeOK, LaunchOK, EngineUnusable, Say, store, call
<1> QED BY <1>1, <1>2, <1>3, <1>4, <1>5, <1>6 DEF ExecutionInv

\* The claim that a reservation compares equal is the one its call has read
\* last, and never started.
LEMMA ComparedClaim ==
  ASSUME ExecutionInv, NEW p \in Proc, pc[p] \in {"reject", "promote"},
         claim[req[p]] = mine[p]
  PROVE  /\ claim[req[p]] = seen[p] /\ SlotReserved(seen[p]) /\ ~ Started(seen[p])
         /\ seen[p].state = "promoting" => seen[p].run \in RunId
         /\ seen[p].state # "promoting" => seen[p].run = NoRun
<1>1. /\ SlotReserved(seen[p]) /\ WellFormed(seen[p]) /\ seen[p] # NoClaim
      /\ SlotReserved(mine[p]) /\ WellFormed(mine[p])
      /\ seen[p].run # NoRun => mine[p].run = seen[p].run
      /\ mine[p].digest = seen[p].digest
      /\ mine[p].state = "promoting" => mine[p] = seen[p]
      /\ seen[p] \in Claim /\ mine[p] \in Claim
  BY ClaimShape
     DEF ExecutionInv, TypeOK, LocalOK, KnownOK, Reserving, Unclaimed, Replacing
<1>2. CASE mine[p].state # "promoting"
  <2>1. mine[p].state = "claimed" /\ mine[p].run = NoRun /\ seen[p].run = NoRun
    BY <1>1, <1>2, ClaimShape
  <2>2. seen[p].state = "claimed"
    BY <1>1, <2>1, ClaimShape
  <2>3. mine[p].seal = NoRecord /\ seen[p].seal = NoRecord
    BY <1>1, <2>1, <2>2 DEF WellFormed
  <2> QED BY <1>1, <2>1, <2>2, <2>3, ClaimShape DEF Claim
<1> QED BY <1>1, <1>2, ClaimShape

\* A rejection goes on with the claim it compared.
LEMMA RejectPreserves ==
  ASSUME ExecutionInv, NEW p \in Proc, Reject(p)
  PROVE  ExecutionInv'
<1>1. /\ pc[p] = "reject" /\ glock = Free
      /\ UNCHANGED <<claim, dirs, files, ledger, lock, req, digest, seen, mine, run, outcome,
                     launches, faults, losses, exclusive>>
  BY DEF Reject, store, call, spent
<1>2. \/ /\ claim[req[p]] = mine[p] /\ glock' = p /\ reply' = reply
         /\ \/ pc' = [pc EXCEPT ![p] = "cleanup"] /\ seen[p].state = "promoting"
            \/ pc' = [pc EXCEPT ![p] = "rejecting"]
      \/ /\ glock' = glock
         /\ pc' = [pc EXCEPT ![p] = "done"] /\ reply' = [reply EXCEPT ![p] = "changed"]
  BY DEF Reject, Unchanged, OnDisk, Enter, Goto, Say
<1>3. claim[req[p]] = mine[p] => claim[req[p]] = seen[p]
  BY <1>1, ComparedClaim
<1>4. TypeOK'
  BY <1>1, <1>2, LabelValues DEF ExecutionInv, TypeOK, Answer
<1>5. LocalOK'
  BY <1>1, <1>2
     DEF ExecutionInv, TypeOK, LocalOK, Reserving, Replacing, Submitting, Preparing,
         Executing, Promotable, Unclaimed
<1>6. KnownOK'
  BY <1>1, <1>2
     DEF ExecutionInv, TypeOK, KnownOK, Reserving, Replacing, Submitting, Executing,
         Promotable
<1>7. CoordinatorOK'
  BY <1>1, <1>2, <1>3, ProtocolConstants
     DEF ExecutionInv, TypeOK, CoordinatorOK, InCoordinator, Replacing
<1>8. OwnerOK'
  BY <1>1, <1>2 DEF ExecutionInv, TypeOK, OwnerOK, Executing
<1>9. LaunchOK'
  BY <1>1, <1>2 DEF ExecutionInv, TypeOK, LaunchOK
<1> QED BY <1>4, <1>5, <1>6, <1>7, <1>8, <1>9 DEF ExecutionInv

\* The cleanup runs under the global lock and touches no claim.
LEMMA RemoveAbandonedPreserves ==
  ASSUME ExecutionInv, NEW p \in Proc, RemoveAbandoned(p)
  PROVE  ExecutionInv'
<1>1. /\ pc[p] = "cleanup" /\ glock = p
      /\ UNCHANGED <<claim, files, ledger, lock, req, digest, seen, mine, run, outcome,
                     launches, faults, losses, exclusive>>
  BY DEF ExecutionInv, CoordinatorOK, InCoordinator, Replacing, RemoveAbandoned, call, spent
<1>2. \/ /\ dirs' = dirs \ {seen[p].run} /\ glock' = glock /\ reply' = reply
         /\ pc' = [pc EXCEPT ![p] = "rejecting"]
      \/ /\ dirs' = dirs /\ glock' = Free
         /\ pc' = [pc EXCEPT ![p] = "done"] /\ reply' = [reply EXCEPT ![p] = "integrity"]
  BY <1>1 DEF RemoveAbandoned, LockLeft, Goto, Say
<1>3. TypeOK'
  BY <1>1, <1>2, LabelValues DEF ExecutionInv, TypeOK, Answer
<1>4. LocalOK'
  BY <1>1, <1>2
     DEF ExecutionInv, TypeOK, LocalOK, Reserving, Replacing, Submitting, Preparing,
         Executing, Promotable, Unclaimed
<1>5. KnownOK'
  BY <1>1, <1>2
     DEF ExecutionInv, TypeOK, KnownOK, Reserving, Replacing, Submitting, Executing,
         Promotable
<1>6. CoordinatorOK'
  BY <1>1, <1>2, ProtocolConstants
     DEF ExecutionInv, TypeOK, CoordinatorOK, InCoordinator, Replacing
<1>7. OwnerOK'
  BY <1>1, <1>2 DEF ExecutionInv, TypeOK, OwnerOK, Executing
<1>8. LaunchOK'
  BY <1>1, <1>2 DEF ExecutionInv, TypeOK, LaunchOK
<1> QED BY <1>3, <1>4, <1>5, <1>6, <1>7, <1>8 DEF ExecutionInv

\* The claim being rejected is still the one that was compared.
LEMMA WriteRejectedPreserves ==
  ASSUME ExecutionInv, NEW p \in Proc, WriteRejected(p)
  PROVE  ExecutionInv'
<1> DEFINE new == Rejected(seen[p])
<1>1. /\ new \in Claim /\ WellFormed(new) /\ new # NoClaim /\ ~ Started(new)
      /\ new.run = seen[p].run /\ new.digest = seen[p].digest
  BY RejectedValues DEF ExecutionInv, TypeOK, LocalOK, Reserving, Replacing, WriteRejected
<1>2. /\ pc[p] = "rejecting" /\ glock = p /\ glock' = Free
      /\ claim[req[p]] = seen[p] /\ SlotReserved(seen[p]) /\ ~ Started(seen[p])
      /\ UNCHANGED <<dirs, files, ledger, lock, req, digest, seen, mine, run, outcome,
                     launches, faults, losses, exclusive>>
  BY ClaimShape
     DEF ExecutionInv, TypeOK, LocalOK, CoordinatorOK, Reserving, InCoordinator, Replacing,
         WriteRejected, LockLeft, call, spent
<1>3. /\ claim' = [claim EXCEPT ![req[p]] = new]
      /\ pc' = [pc EXCEPT ![p] = "done"] /\ reply' = [reply EXCEPT ![p] = "rejected"]
  BY DEF WriteRejected, SetClaim, Say
<1> HIDE DEF new
<1>4. TypeOK'
  BY <1>1, <1>2, <1>3, LabelValues DEF ExecutionInv, TypeOK, Answer
<1>5. LocalOK'
  BY <1>1, <1>2, <1>3
     DEF ExecutionInv, TypeOK, LocalOK, Reserving, Replacing, Submitting, Preparing,
         Executing, Promotable, Unclaimed
<1>6. KnownOK'
  BY <1>1, <1>2, <1>3
     DEF ExecutionInv, TypeOK, KnownOK, Reserving, Replacing, Submitting, Executing,
         Promotable
<1>7. CoordinatorOK'
  BY <1>2, <1>3, ProtocolConstants
     DEF ExecutionInv, TypeOK, CoordinatorOK, InCoordinator, Replacing
<1>8. OwnerOK'
  BY <1>1, <1>2, <1>3 DEF ExecutionInv, TypeOK, OwnerOK, Executing
<1>9. LaunchOK'
  BY <1>1, <1>2, <1>3 DEF ExecutionInv, TypeOK, LaunchOK
<1> QED BY <1>4, <1>5, <1>6, <1>7, <1>8, <1>9 DEF ExecutionInv

\* A promotion goes on with the claim it compared.
LEMMA PromotePreserves ==
  ASSUME ExecutionInv, NEW p \in Proc, Promote(p)
  PROVE  ExecutionInv'
<1>1. /\ pc[p] = "promote" /\ glock = Free
      /\ UNCHANGED <<claim, dirs, files, ledger, lock, req, digest, seen, mine, run, outcome,
                     launches, faults, losses, exclusive>>
  BY DEF Promote, store, call, spent
<1>2. \/ /\ claim[req[p]] = mine[p] /\ glock' = p /\ reply' = reply
         /\ pc' = [pc EXCEPT ![p] = "promoting"]
      \/ /\ glock' = glock
         /\ pc' = [pc EXCEPT ![p] = "done"] /\ reply' = [reply EXCEPT ![p] = "changed"]
  BY DEF Promote, Unchanged, OnDisk, Enter, Goto, Say
<1>3. claim[req[p]] = mine[p] => claim[req[p]] = seen[p]
  BY <1>1, ComparedClaim
<1>4. TypeOK'
  BY <1>1, <1>2, LabelValues DEF ExecutionInv, TypeOK, Answer
<1>5. LocalOK'
  BY <1>1, <1>2
     DEF ExecutionInv, TypeOK, LocalOK, Reserving, Replacing, Submitting, Preparing,
         Executing, Promotable, Unclaimed
<1>6. KnownOK'
  BY <1>1, <1>2
     DEF ExecutionInv, TypeOK, KnownOK, Reserving, Replacing, Submitting, Executing,
         Promotable
<1>7. CoordinatorOK'
  BY <1>1, <1>2, <1>3, ProtocolConstants
     DEF ExecutionInv, TypeOK, CoordinatorOK, InCoordinator, Replacing
<1>8. OwnerOK'
  BY <1>1, <1>2 DEF ExecutionInv, TypeOK, OwnerOK, Executing
<1>9. LaunchOK'
  BY <1>1, <1>2 DEF ExecutionInv, TypeOK, LaunchOK
<1> QED BY <1>4, <1>5, <1>6, <1>7, <1>8, <1>9 DEF ExecutionInv

\* The promoting claim is written over the one that was compared.
LEMMA WritePromotingPreserves ==
  ASSUME ExecutionInv, NEW p \in Proc, WritePromoting(p)
  PROVE  ExecutionInv'
<1> DEFINE new == Promoting(seen[p], run[p])
<1>1. /\ new \in Claim /\ WellFormed(new) /\ new # NoClaim
      /\ ~ Started(new) /\ SlotReserved(new)
      /\ new.state = "promoting" /\ new.run = run[p] /\ new.digest = seen[p].digest
  BY PromotingValues, ClaimShape
     DEF ExecutionInv, TypeOK, LocalOK, Reserving, Replacing, Promotable, WritePromoting
<1>2. /\ pc[p] = "promoting" /\ glock = p
      /\ UNCHANGED <<dirs, files, ledger, lock, glock, req, digest, seen, mine, run,
                     outcome, reply, launches, faults, losses, exclusive>>
  BY DEF ExecutionInv, CoordinatorOK, InCoordinator, Replacing, WritePromoting, locks, call,
         spent
<1>3. /\ claim[req[p]] = seen[p] /\ seen[p] # NoClaim /\ ~ Started(seen[p])
      /\ seen[p].state = "promoting" => run[p] = seen[p].run
      /\ seen[p].run # NoRun => run[p] = seen[p].run
      /\ run[p] \in RunId
  BY <1>2, ClaimShape
     DEF ExecutionInv, TypeOK, LocalOK, KnownOK, CoordinatorOK, Reserving, Replacing,
         Promotable, Unclaimed
<1>4. /\ claim' = [claim EXCEPT ![req[p]] = new]
      /\ pc' = [pc EXCEPT ![p] = "mkdir"]
  BY DEF WritePromoting, SetClaim, Goto
<1>5. claim'[req[p]] = new
  BY <1>4 DEF ExecutionInv, TypeOK
<1>6. CoordinatorOK'
  BY <1>2, <1>4, <1>5, ProtocolConstants
     DEF ExecutionInv, TypeOK, CoordinatorOK, InCoordinator, Replacing
<1> HIDE DEF new
<1>7. TypeOK'
  BY <1>1, <1>2, <1>4, LabelValues DEF ExecutionInv, TypeOK
<1>8. LocalOK'
  BY <1>1, <1>2, <1>3, <1>4
     DEF ExecutionInv, TypeOK, LocalOK, Reserving, Replacing, Submitting, Preparing,
         Executing, Promotable, Unclaimed
<1>9. KnownOK'
  BY <1>1, <1>2, <1>3, <1>4
     DEF ExecutionInv, TypeOK, KnownOK, Reserving, Replacing, Submitting, Executing,
         Promotable
<1>10. OwnerOK'
  BY <1>1, <1>2, <1>3, <1>4 DEF ExecutionInv, TypeOK, OwnerOK, Executing
<1>11. LaunchOK'
  BY <1>1, <1>2, <1>3, <1>4 DEF ExecutionInv, TypeOK, LaunchOK
<1> QED BY <1>6, <1>7, <1>8, <1>9, <1>10, <1>11 DEF ExecutionInv

\* mkdir runs under the global lock, on the promoting claim just written.
LEMMA MakeRunDirectoryPreserves ==
  ASSUME ExecutionInv, NEW p \in Proc, MakeRunDirectory(p)
  PROVE  ExecutionInv'
<1>1. TypeOK'
  BY LabelValues, ClaimShape, PromotingValues
     DEF ExecutionInv, TypeOK, LocalOK, Reserving, InCoordinator, Replacing, Promotable,
          Executing, MakeRunDirectory, Goto, locks, call, spent
<1>2. LocalOK'
  BY DEF ExecutionInv, TypeOK, LocalOK, Reserving, InCoordinator, Replacing, Submitting,
          Preparing, Executing, Promotable, Unclaimed, MakeRunDirectory, Goto,
          call
<1>3. KnownOK'
  BY DEF ExecutionInv, TypeOK, KnownOK, Reserving, InCoordinator, Replacing, Submitting,
          Executing, Promotable, MakeRunDirectory, Goto, call
<1>4. CoordinatorOK'
  BY DEF ExecutionInv, TypeOK, CoordinatorOK, InCoordinator, Replacing, MakeRunDirectory,
          Goto, locks, call
<1>5. OwnerOK'
  BY DEF ExecutionInv, TypeOK, OwnerOK, Executing, MakeRunDirectory, Goto,
          call
<1>6. LaunchOK'
  BY DEF ExecutionInv, TypeOK, LaunchOK, MakeRunDirectory, Goto, call
<1> QED BY <1>1, <1>2, <1>3, <1>4, <1>5, <1>6 DEF ExecutionInv

\* The execution starts with the running form of the promoted claim.
LEMMA WriteRunningPreserves ==
  ASSUME ExecutionInv, NEW p \in Proc, WriteRunning(p)
  PROVE  ExecutionInv'
<1> DEFINE new == Running(Promoting(seen[p], run[p]))
<1>1. /\ new \in Claim /\ WellFormed(new) /\ new # NoClaim /\ Started(new)
      /\ new.run = run[p] /\ new.digest = seen[p].digest
  BY PromotingValues, RunningValues
     DEF ExecutionInv, TypeOK, LocalOK, Reserving, InCoordinator, Replacing, Promotable, WriteRunning
<1>2. /\ pc[p] = "start" /\ glock' = Free
      /\ claim' = [claim EXCEPT ![req[p]] = new]
      /\ seen' = [seen EXCEPT ![p] = new]
      /\ pc' = [pc EXCEPT ![p] = "inputs"]
      /\ UNCHANGED <<dirs, files, ledger, lock, req, digest, mine, run, outcome, reply,
                     launches, faults, losses, exclusive>>
  BY DEF ExecutionInv, CoordinatorOK, InCoordinator, Replacing, WriteRunning, SetClaim, Goto,
         LockLeft, spent
<1>3. /\ claim[req[p]] = Promoting(seen[p], run[p]) /\ glock = p
      /\ seen[p] # NoClaim /\ digest[p] \in Digest /\ run[p] \in RunId
      /\ seen[p].digest = digest[p]
  BY <1>2
     DEF ExecutionInv, LocalOK, KnownOK, CoordinatorOK, InCoordinator, Replacing, Preparing, Submitting,
         Promotable, Unclaimed
<1>4. /\ claim[req[p]].run = run[p] /\ claim[req[p]].digest = seen[p].digest
      /\ ~ Started(claim[req[p]])
  BY <1>2, <1>3, PromotingValues, ClaimShape
     DEF ExecutionInv, TypeOK, LocalOK, Reserving, InCoordinator, Replacing
<1> HIDE DEF new
<1>5. TypeOK'
  BY <1>1, <1>2, LabelValues DEF ExecutionInv, TypeOK
<1>6. LocalOK'
  BY <1>1, <1>2, <1>3
     DEF ExecutionInv, TypeOK, LocalOK, Reserving, InCoordinator, Replacing, Submitting, Preparing,
         Executing, Promotable, Unclaimed
<1>7. KnownOK'
  BY <1>1, <1>2, <1>3, <1>4
     DEF ExecutionInv, TypeOK, KnownOK, Reserving, InCoordinator, Replacing, Submitting, Executing,
         Promotable
<1>8. CoordinatorOK'
  BY <1>2, <1>3, ProtocolConstants DEF ExecutionInv, TypeOK, CoordinatorOK, InCoordinator, Replacing
<1>9. OwnerOK'
  BY <1>1, <1>2, <1>4 DEF ExecutionInv, TypeOK, OwnerOK, Executing
<1>10. LaunchOK'
  BY <1>1, <1>2, <1>4 DEF ExecutionInv, TypeOK, LaunchOK
<1> QED BY <1>5, <1>6, <1>7, <1>8, <1>9, <1>10 DEF ExecutionInv

\* Artifacts of the run directory touch no claim.
LEMMA WriteInputsPreserves ==
  ASSUME ExecutionInv, NEW p \in Proc, WriteInputs(p)
  PROVE  ExecutionInv'
<1>1. TypeOK'
  BY LabelValues
     DEF ExecutionInv, TypeOK, Answer, Artifact, WriteInputs, WriteArtifact,
          Goto, Say, locks, call, spent
<1>2. LocalOK'
  BY DEF ExecutionInv, TypeOK, LocalOK, Reserving, InCoordinator, Replacing, Submitting,
          Preparing, Executing, Promotable, Unclaimed, WriteInputs,
          WriteArtifact, Goto, Say, call
<1>3. KnownOK'
  BY DEF ExecutionInv, TypeOK, KnownOK, Reserving, InCoordinator, Replacing, Submitting,
          Executing, Promotable, WriteInputs, WriteArtifact, Goto, Say, call
<1>4. CoordinatorOK'
  BY DEF ExecutionInv, TypeOK, CoordinatorOK, InCoordinator, Replacing, WriteInputs,
          WriteArtifact, Goto, Say, locks, call
<1>5. OwnerOK'
  BY DEF ExecutionInv, TypeOK, OwnerOK, Executing, WriteInputs, WriteArtifact,
          Goto, Say, call
<1>6. LaunchOK'
  BY DEF ExecutionInv, TypeOK, LaunchOK, WriteInputs, WriteArtifact, Goto,
          Say, call
<1> QED BY <1>1, <1>2, <1>3, <1>4, <1>5, <1>6 DEF ExecutionInv

\* The one execution of a started claim, by its only owner.
LEMMA ExecutePreserves ==
  ASSUME ExecutionInv, NEW p \in Proc, Execute(p)
  PROVE  ExecutionInv'
<1>1. TypeOK'
  BY LabelValues
     DEF ExecutionInv, TypeOK, Execute, Goto, store, locks, spent
<1>2. LocalOK'
  BY DEF ExecutionInv, TypeOK, LocalOK, Reserving, InCoordinator, Replacing, Submitting,
          Preparing, Executing, Promotable, Unclaimed, Execute, Goto, store
<1>3. KnownOK'
  BY DEF ExecutionInv, TypeOK, KnownOK, Reserving, InCoordinator, Replacing, Submitting,
          Executing, Promotable, Execute, Goto, store
<1>4. CoordinatorOK'
  BY DEF ExecutionInv, TypeOK, CoordinatorOK, InCoordinator, Replacing, Execute, Goto,
          store, locks
<1>5. OwnerOK'
  BY DEF ExecutionInv, TypeOK, OwnerOK, Executing, Execute, Goto, store
<1>6. LaunchOK'
  BY ClaimShape
     DEF ExecutionInv, TypeOK, OwnerOK, LaunchOK, Executing, Execute, Goto,
          store
<1> QED BY <1>1, <1>2, <1>3, <1>4, <1>5, <1>6 DEF ExecutionInv

\* Artifacts of the run directory touch no claim.
LEMMA WriteDiagnosticsPreserves ==
  ASSUME ExecutionInv, NEW p \in Proc, WriteDiagnostics(p)
  PROVE  ExecutionInv'
<1>1. TypeOK'
  BY LabelValues
     DEF ExecutionInv, TypeOK, Artifact, WriteDiagnostics, WriteArtifact,
          Goto, locks, call, spent
<1>2. LocalOK'
  BY DEF ExecutionInv, TypeOK, LocalOK, Reserving, InCoordinator, Replacing, Submitting,
          Preparing, Executing, Promotable, Unclaimed, WriteDiagnostics,
          WriteArtifact, Goto, call
<1>3. KnownOK'
  BY DEF ExecutionInv, TypeOK, KnownOK, Reserving, InCoordinator, Replacing, Submitting,
          Executing, Promotable, WriteDiagnostics, WriteArtifact, Goto, call
<1>4. CoordinatorOK'
  BY DEF ExecutionInv, TypeOK, CoordinatorOK, InCoordinator, Replacing, WriteDiagnostics,
          WriteArtifact, Goto, locks, call
<1>5. OwnerOK'
  BY DEF ExecutionInv, TypeOK, OwnerOK, Executing, WriteDiagnostics,
          WriteArtifact, Goto, call
<1>6. LaunchOK'
  BY DEF ExecutionInv, TypeOK, LaunchOK, WriteDiagnostics, WriteArtifact,
          Goto, call
<1> QED BY <1>1, <1>2, <1>3, <1>4, <1>5, <1>6 DEF ExecutionInv

\* Normalizing decides the outcome, not who executes.
LEMMA NormalizePreserves ==
  ASSUME ExecutionInv, NEW p \in Proc, Normalize(p)
  PROVE  ExecutionInv'
<1>1. TypeOK'
  BY LabelValues
     DEF ExecutionInv, TypeOK, Artifact, Outcome, Normalize, WriteArtifact,
          Goto, locks, spent
<1>2. LocalOK'
  BY DEF ExecutionInv, TypeOK, LocalOK, Reserving, InCoordinator, Replacing, Submitting,
          Preparing, Executing, Promotable, Unclaimed, Normalize,
          WriteArtifact, Goto
<1>3. KnownOK'
  BY DEF ExecutionInv, TypeOK, KnownOK, Reserving, InCoordinator, Replacing, Submitting,
          Executing, Promotable, Normalize, WriteArtifact, Goto
<1>4. CoordinatorOK'
  BY DEF ExecutionInv, TypeOK, CoordinatorOK, InCoordinator, Replacing, Normalize,
          WriteArtifact, Goto, locks
<1>5. OwnerOK'
  BY DEF ExecutionInv, TypeOK, OwnerOK, Executing, Normalize, WriteArtifact,
          Goto
<1>6. LaunchOK'
  BY DEF ExecutionInv, TypeOK, LaunchOK, Normalize, WriteArtifact, Goto
<1> QED BY <1>1, <1>2, <1>3, <1>4, <1>5, <1>6 DEF ExecutionInv

\* Artifacts of the run directory touch no claim.
LEMMA WriteEvidencePreserves ==
  ASSUME ExecutionInv, NEW p \in Proc, WriteEvidence(p)
  PROVE  ExecutionInv'
<1>1. TypeOK'
  BY LabelValues
     DEF ExecutionInv, TypeOK, Artifact, WriteEvidence, WriteArtifact, Goto,
          locks, call, spent
<1>2. LocalOK'
  BY DEF ExecutionInv, TypeOK, LocalOK, Reserving, InCoordinator, Replacing, Submitting,
          Preparing, Executing, Promotable, Unclaimed, WriteEvidence,
          WriteArtifact, Goto, call
<1>3. KnownOK'
  BY DEF ExecutionInv, TypeOK, KnownOK, Reserving, InCoordinator, Replacing, Submitting,
          Executing, Promotable, WriteEvidence, WriteArtifact, Goto, call
<1>4. CoordinatorOK'
  BY DEF ExecutionInv, TypeOK, CoordinatorOK, InCoordinator, Replacing, WriteEvidence,
          WriteArtifact, Goto, locks, call
<1>5. OwnerOK'
  BY DEF ExecutionInv, TypeOK, OwnerOK, Executing, WriteEvidence,
          WriteArtifact, Goto, call
<1>6. LaunchOK'
  BY DEF ExecutionInv, TypeOK, LaunchOK, WriteEvidence, WriteArtifact, Goto,
          call
<1> QED BY <1>1, <1>2, <1>3, <1>4, <1>5, <1>6 DEF ExecutionInv

\* The commit record is one of the run and the bytes that the call works on.
LEMMA WriteRunRecordPreserves ==
  ASSUME ExecutionInv, NEW p \in Proc, WriteRunRecord(p)
  PROVE  ExecutionInv'
<1> DEFINE record == [run |-> run[p], digest |-> digest[p], status |-> outcome[p]]
<1>1. record \in RunRecord /\ record # NoRecord
  BY RecordValues
     DEF ExecutionInv, TypeOK, LocalOK, WriteRunRecord, Preparing, Submitting, Executing
<1>2. ledger' = [ledger EXCEPT ![req[p]] = record]
  BY DEF WriteRunRecord
<1> HIDE DEF record
<1>3. TypeOK'
  BY <1>1, <1>2, LabelValues
     DEF ExecutionInv, TypeOK, WriteRunRecord, Goto, store, locks, call, spent
<1>4. LocalOK'
  BY <1>1, <1>2, ClaimShape
     DEF ExecutionInv, TypeOK, LocalOK, Reserving, InCoordinator, Replacing, Submitting, Preparing,
         Executing, Promotable, Unclaimed, WriteRunRecord, Goto, store, call
<1>5. KnownOK'
  BY DEF ExecutionInv, TypeOK, KnownOK, Reserving, InCoordinator, Replacing, Submitting,
          Executing, Promotable, WriteRunRecord, Goto, call
<1>6. CoordinatorOK'
  BY DEF ExecutionInv, TypeOK, CoordinatorOK, InCoordinator, Replacing, WriteRunRecord,
          Goto, locks, call
<1>7. OwnerOK'
  BY DEF ExecutionInv, TypeOK, OwnerOK, Executing, WriteRunRecord, Goto, call
<1>8. LaunchOK'
  BY DEF ExecutionInv, TypeOK, LaunchOK, WriteRunRecord, Goto, call
<1> QED BY <1>3, <1>4, <1>5, <1>6, <1>7, <1>8 DEF ExecutionInv

\* A seal is let through over a started claim only.
LEMMA SealPreserves ==
  ASSUME ExecutionInv, NEW p \in Proc, Seal(p)
  PROVE  ExecutionInv'
<1>1. /\ pc[p] = "seal" /\ glock = Free
      /\ UNCHANGED <<claim, dirs, files, ledger, lock, req, digest, seen, mine, run, outcome,
                     launches, faults, losses, exclusive>>
  BY DEF Seal, Transition, store, call, spent
<1>2. \/ /\ claim[req[p]].state \in {"running", "recovery_required"}
         /\ pc' = [pc EXCEPT ![p] = "sealing"] /\ glock' = p /\ reply' = reply
      \/ /\ glock' = glock
         /\ pc' = [pc EXCEPT ![p] = "done"]
         /\ reply' \in {[reply EXCEPT ![p] = "completed"], [reply EXCEPT ![p] = "immutable"]}
  BY DEF Seal, Transition, Accepts, Writable, OnDisk, Enter, Goto, Say
<1>3. TypeOK'
  BY <1>1, <1>2, LabelValues DEF ExecutionInv, TypeOK, Answer
<1>4. LocalOK'
  BY <1>1, <1>2
     DEF ExecutionInv, TypeOK, LocalOK, Reserving, Replacing, Submitting, Preparing,
         Executing, Promotable, Unclaimed
<1>5. KnownOK'
  BY <1>1, <1>2
     DEF ExecutionInv, TypeOK, KnownOK, Reserving, Replacing, Submitting, Executing,
         Promotable
<1>6. CoordinatorOK'
  BY <1>1, <1>2, ProtocolConstants
     DEF ExecutionInv, TypeOK, CoordinatorOK, InCoordinator, Replacing
<1>7. OwnerOK'
  BY <1>1, <1>2 DEF ExecutionInv, TypeOK, OwnerOK, Executing
<1>8. LaunchOK'
  BY <1>1, <1>2 DEF ExecutionInv, TypeOK, LaunchOK
<1> QED BY <1>3, <1>4, <1>5, <1>6, <1>7, <1>8 DEF ExecutionInv

\* The seal keeps run_id and bytes of the claim on disk, whoever writes it.
LEMMA WriteCompletedPreserves ==
  ASSUME ExecutionInv, NEW p \in Proc, WriteCompleted(p)
  PROVE  ExecutionInv'
<1> DEFINE new == Sealed(p)
<1>1. /\ new \in Claim /\ WellFormed(new) /\ new # NoClaim /\ Started(new)
      /\ new.run = seen[p].run /\ new.digest = seen[p].digest
  BY CompletedValues DEF ExecutionInv, TypeOK, LocalOK, WriteCompleted, Sealed, RunJson
<1>2. new.run = claim[req[p]].run /\ new.digest = claim[req[p]].digest
  BY <1>1, ClaimShape DEF ExecutionInv, TypeOK, LocalOK, KnownOK, WriteCompleted, Unclaimed
<1>3. /\ pc[p] = "sealing" /\ glock = p /\ glock' = Free
      /\ UNCHANGED <<dirs, files, ledger, lock, req, digest, seen, mine, run, outcome,
                     launches, faults, losses, exclusive>>
  BY DEF ExecutionInv, CoordinatorOK, InCoordinator, WriteCompleted, Rewrite, LockLeft, call, spent
<1>4. /\ claim' = [claim EXCEPT ![req[p]] = new]
      /\ pc' = [pc EXCEPT ![p] = "done"] /\ reply' = [reply EXCEPT ![p] = "completed"]
  BY DEF WriteCompleted, Rewrite, SetClaim, Say
<1> HIDE DEF new
<1>5. TypeOK'
  BY <1>1, <1>3, <1>4, LabelValues DEF ExecutionInv, TypeOK, Answer
<1>6. LocalOK'
  BY <1>1, <1>3, <1>4
     DEF ExecutionInv, TypeOK, LocalOK, Reserving, Replacing, Submitting, Preparing,
         Executing, Promotable, Unclaimed
<1>7. KnownOK'
  BY <1>1, <1>2, <1>3, <1>4
     DEF ExecutionInv, TypeOK, KnownOK, Reserving, Replacing, Submitting, Executing,
         Promotable
<1>8. CoordinatorOK'
  BY <1>3, <1>4, ProtocolConstants
     DEF ExecutionInv, TypeOK, CoordinatorOK, InCoordinator, Replacing
<1>9. OwnerOK'
  BY <1>1, <1>2, <1>3, <1>4 DEF ExecutionInv, TypeOK, OwnerOK, Executing
<1>10. LaunchOK'
  <2>1. Started(claim[req[p]])
    BY <1>3, ClaimShape DEF ExecutionInv, TypeOK, CoordinatorOK
  <2> QED BY <1>1, <1>3, <1>4, <2>1 DEF ExecutionInv, TypeOK, LaunchOK
<1> QED BY <1>5, <1>6, <1>7, <1>8, <1>9, <1>10 DEF ExecutionInv

\* request_get works on a claim that exists.
LEMMA ReadClaimPreserves ==
  ASSUME ExecutionInv, NEW p \in Proc, ReadClaim(p)
  PROVE  ExecutionInv'
<1>1. TypeOK'
  BY LabelValues
     DEF ExecutionInv, TypeOK, Answer, ReadClaim, OnDisk, Say, Goto, store,
          locks, spent
<1>2. LocalOK'
  BY DEF ExecutionInv, TypeOK, LocalOK, Reserving, InCoordinator, Replacing, Submitting,
          Preparing, Executing, Promotable, Unclaimed, ReadClaim, OnDisk, Say,
          Goto, store
<1>3. KnownOK'
  BY DEF ExecutionInv, TypeOK, KnownOK, Reserving, InCoordinator, Replacing, Submitting,
          Executing, Promotable, ReadClaim, OnDisk, Say, Goto, store
<1>4. CoordinatorOK'
  BY DEF ExecutionInv, TypeOK, CoordinatorOK, InCoordinator, Replacing, ReadClaim,
          OnDisk, Say, Goto, store, locks
<1>5. OwnerOK'
  BY DEF ExecutionInv, TypeOK, OwnerOK, Executing, ReadClaim, OnDisk, Say,
          Goto, store
<1>6. LaunchOK'
  BY DEF ExecutionInv, TypeOK, LaunchOK, ReadClaim, OnDisk, Say, Goto, store
<1> QED BY <1>1, <1>2, <1>3, <1>4, <1>5, <1>6 DEF ExecutionInv

\* A run.json that is found is there to be reconciled.
LEMMA StatusFromClaimPreserves ==
  ASSUME ExecutionInv, NEW p \in Proc, StatusFromClaim(p)
  PROVE  ExecutionInv'
<1>1. TypeOK'
  BY LabelValues
     DEF ExecutionInv, TypeOK, Answer, StatusFromClaim, RunJson, Goto, Say,
          store, locks, call, spent
<1>2. LocalOK'
  BY DEF ExecutionInv, TypeOK, LocalOK, Reserving, InCoordinator, Replacing, Submitting,
          Preparing, Executing, Promotable, Unclaimed, StatusFromClaim,
          RunJson, Goto, Say, store, call
<1>3. KnownOK'
  BY DEF ExecutionInv, TypeOK, KnownOK, Reserving, InCoordinator, Replacing, Submitting,
          Executing, Promotable, StatusFromClaim, RunJson, Goto, Say, store,
          call
<1>4. CoordinatorOK'
  BY DEF ExecutionInv, TypeOK, CoordinatorOK, InCoordinator, Replacing, StatusFromClaim,
          RunJson, Goto, Say, store, locks, call
<1>5. OwnerOK'
  BY DEF ExecutionInv, TypeOK, OwnerOK, Executing, StatusFromClaim, RunJson,
          Goto, Say, store, call
<1>6. LaunchOK'
  BY DEF ExecutionInv, TypeOK, LaunchOK, StatusFromClaim, RunJson, Goto, Say,
          store, call
<1> QED BY <1>1, <1>2, <1>3, <1>4, <1>5, <1>6 DEF ExecutionInv

\* A probe writes no claim.
LEMMA ProbeLockPreserves ==
  ASSUME ExecutionInv, NEW p \in Proc, ProbeLock(p)
  PROVE  ExecutionInv'
<1>1. TypeOK'
  BY LabelValues
     DEF ExecutionInv, TypeOK, Answer, ProbeLock, LockObtained, Goto, Say,
          store, call, spent
<1>2. LocalOK'
  BY DEF ExecutionInv, TypeOK, LocalOK, Reserving, InCoordinator, Replacing, Submitting,
          Preparing, Executing, Promotable, Unclaimed, ProbeLock,
          LockObtained, Goto, Say, store, call
<1>3. KnownOK'
  BY DEF ExecutionInv, TypeOK, KnownOK, Reserving, InCoordinator, Replacing, Submitting,
          Executing, Promotable, ProbeLock, LockObtained, Goto, Say, store,
          call
<1>4. CoordinatorOK'
  BY DEF ExecutionInv, TypeOK, CoordinatorOK, InCoordinator, Replacing, ProbeLock,
          LockObtained, Goto, Say, store, call
<1>5. OwnerOK'
  BY DEF ExecutionInv, TypeOK, OwnerOK, Executing, ProbeLock, LockObtained,
          Goto, Say, store, call
<1>6. LaunchOK'
  BY DEF ExecutionInv, TypeOK, LaunchOK, ProbeLock, LockObtained, Goto, Say,
          store, call
<1> QED BY <1>1, <1>2, <1>3, <1>4, <1>5, <1>6 DEF ExecutionInv

\* A probe writes no claim.
LEMMA UnprobePreserves ==
  ASSUME ExecutionInv, NEW p \in Proc, Unprobe(p)
  PROVE  ExecutionInv'
<1>1. TypeOK'
  BY LabelValues
     DEF ExecutionInv, TypeOK, Answer, Unprobe, Released, Say, Goto, store,
          call, spent
<1>2. LocalOK'
  BY DEF ExecutionInv, TypeOK, LocalOK, Reserving, InCoordinator, Replacing, Submitting,
          Preparing, Executing, Promotable, Unclaimed, Unprobe, Released, Say,
          Goto, store, call
<1>3. KnownOK'
  BY DEF ExecutionInv, TypeOK, KnownOK, Reserving, InCoordinator, Replacing, Submitting,
          Executing, Promotable, Unprobe, Released, Say, Goto, store, call
<1>4. CoordinatorOK'
  BY DEF ExecutionInv, TypeOK, CoordinatorOK, InCoordinator, Replacing, Unprobe,
          Released, Say, Goto, store, call
<1>5. OwnerOK'
  BY DEF ExecutionInv, TypeOK, OwnerOK, Executing, Unprobe, Released, Say,
          Goto, store, call
<1>6. LaunchOK'
  BY DEF ExecutionInv, TypeOK, LaunchOK, Unprobe, Released, Say, Goto, store,
          call
<1> QED BY <1>1, <1>2, <1>3, <1>4, <1>5, <1>6 DEF ExecutionInv

\* A reader under the lock writes no claim yet.
LEMMA TakeOverPreserves ==
  ASSUME ExecutionInv, NEW p \in Proc, TakeOver(p)
  PROVE  ExecutionInv'
<1>1. TypeOK'
  BY LabelValues
     DEF ExecutionInv, TypeOK, Answer, TakeOver, LockObtained, Goto, Say,
          store, call, spent
<1>2. LocalOK'
  BY DEF ExecutionInv, TypeOK, LocalOK, Reserving, InCoordinator, Replacing, Submitting,
          Preparing, Executing, Promotable, Unclaimed, TakeOver, LockObtained,
          Goto, Say, store, call
<1>3. KnownOK'
  BY DEF ExecutionInv, TypeOK, KnownOK, Reserving, InCoordinator, Replacing, Submitting,
          Executing, Promotable, TakeOver, LockObtained, Goto, Say, store,
          call
<1>4. CoordinatorOK'
  BY DEF ExecutionInv, TypeOK, CoordinatorOK, InCoordinator, Replacing, TakeOver,
          LockObtained, Goto, Say, store, call
<1>5. OwnerOK'
  BY DEF ExecutionInv, TypeOK, OwnerOK, Executing, TakeOver, LockObtained,
          Goto, Say, store, call
<1>6. LaunchOK'
  BY DEF ExecutionInv, TypeOK, LaunchOK, TakeOver, LockObtained, Goto, Say,
          store, call
<1> QED BY <1>1, <1>2, <1>3, <1>4, <1>5, <1>6 DEF ExecutionInv

\* The claim read again under the lock has the identity of the one before.
LEMMA RereadPreserves ==
  ASSUME ExecutionInv, NEW p \in Proc, Reread(p)
  PROVE  ExecutionInv'
<1>1. TypeOK'
  BY LabelValues
     DEF ExecutionInv, TypeOK, Reread, OnDisk, Goto, store, locks, spent
<1>2. LocalOK'
  BY ClaimShape
     DEF ExecutionInv, TypeOK, LocalOK, KnownOK, Reserving, InCoordinator, Replacing,
          Submitting, Preparing, Executing, Promotable, Unclaimed, Reread,
          OnDisk, Goto, store, locks, spent
<1>3. KnownOK'
  BY DEF ExecutionInv, TypeOK, KnownOK, Reserving, InCoordinator, Replacing, Submitting,
          Executing, Promotable, Reread, OnDisk, Goto, store
<1>4. CoordinatorOK'
  BY DEF ExecutionInv, TypeOK, CoordinatorOK, InCoordinator, Replacing, Reread, OnDisk,
          Goto, store, locks
<1>5. OwnerOK'
  BY DEF ExecutionInv, TypeOK, OwnerOK, Executing, Reread, OnDisk, Goto, store
<1>6. LaunchOK'
  BY DEF ExecutionInv, TypeOK, LaunchOK, Reread, OnDisk, Goto, store
<1> QED BY <1>1, <1>2, <1>3, <1>4, <1>5, <1>6 DEF ExecutionInv

\* Only a running claim goes on to be marked for recovery.
LEMMA RelookupPreserves ==
  ASSUME ExecutionInv, NEW p \in Proc, Relookup(p)
  PROVE  ExecutionInv'
<1>1. TypeOK'
  BY LabelValues
     DEF ExecutionInv, TypeOK, Answer, Relookup, RunJson, Goto,
          RecoveryResult, store, locks, call, spent, Say
<1>2. LocalOK'
  BY DEF ExecutionInv, TypeOK, LocalOK, Reserving, InCoordinator, Replacing, Submitting,
          Preparing, Executing, Promotable, Unclaimed, Relookup, RunJson,
          Goto, RecoveryResult, store, call, Say
<1>3. KnownOK'
  BY DEF ExecutionInv, TypeOK, KnownOK, Reserving, InCoordinator, Replacing, Submitting,
          Executing, Promotable, Relookup, RunJson, Goto, RecoveryResult,
          store, call, Say
<1>4. CoordinatorOK'
  BY DEF ExecutionInv, TypeOK, CoordinatorOK, InCoordinator, Replacing, Relookup,
          RunJson, Goto, RecoveryResult, store, locks, call, Say
<1>5. OwnerOK'
  BY DEF ExecutionInv, TypeOK, OwnerOK, Executing, Relookup, RunJson, Goto,
          RecoveryResult, store, call, Say
<1>6. LaunchOK'
  BY DEF ExecutionInv, TypeOK, LaunchOK, Relookup, RunJson, Goto,
          RecoveryResult, store, call, Say
<1> QED BY <1>1, <1>2, <1>3, <1>4, <1>5, <1>6 DEF ExecutionInv

\* A recovery is let through over a started claim only.
LEMMA RecoverPreserves ==
  ASSUME ExecutionInv, NEW p \in Proc, Recover(p)
  PROVE  ExecutionInv'
<1>1. /\ pc[p] = "recover" /\ glock = Free
      /\ UNCHANGED <<claim, dirs, files, ledger, lock, req, digest, seen, mine, run, outcome,
                     launches, faults, losses, exclusive>>
  BY DEF Recover, Transition, store, call, spent
<1>2. \/ /\ claim[req[p]].state \in {"running", "recovery_required"}
         /\ pc' = [pc EXCEPT ![p] = "recovering"] /\ glock' = p /\ reply' = reply
      \/ /\ glock' = glock
         /\ pc' = [pc EXCEPT ![p] = "done"]
         /\ reply' \in {[reply EXCEPT ![p] = "recovery_required"], [reply EXCEPT ![p] = "immutable"]}
  BY DEF Recover, Transition, Accepts, Writable, OnDisk, Enter, Goto, Say
<1>3. TypeOK'
  BY <1>1, <1>2, LabelValues DEF ExecutionInv, TypeOK, Answer
<1>4. LocalOK'
  BY <1>1, <1>2
     DEF ExecutionInv, TypeOK, LocalOK, Reserving, Replacing, Submitting, Preparing,
         Executing, Promotable, Unclaimed
<1>5. KnownOK'
  BY <1>1, <1>2
     DEF ExecutionInv, TypeOK, KnownOK, Reserving, Replacing, Submitting, Executing,
         Promotable
<1>6. CoordinatorOK'
  BY <1>1, <1>2, ProtocolConstants
     DEF ExecutionInv, TypeOK, CoordinatorOK, InCoordinator, Replacing
<1>7. OwnerOK'
  BY <1>1, <1>2 DEF ExecutionInv, TypeOK, OwnerOK, Executing
<1>8. LaunchOK'
  BY <1>1, <1>2 DEF ExecutionInv, TypeOK, LaunchOK
<1> QED BY <1>3, <1>4, <1>5, <1>6, <1>7, <1>8 DEF ExecutionInv

\* A recovery claim keeps run_id and bytes of the claim on disk.
LEMMA WriteRecoveryPreserves ==
  ASSUME ExecutionInv, NEW p \in Proc, WriteRecovery(p)
  PROVE  ExecutionInv'
<1> DEFINE new == RecoveryRequired(seen[p])
<1>1. /\ new \in Claim /\ WellFormed(new) /\ new # NoClaim /\ Started(new)
      /\ new.run = seen[p].run /\ new.digest = seen[p].digest
  BY RecoveryValues DEF ExecutionInv, TypeOK, LocalOK, WriteRecovery
<1>2. new.run = claim[req[p]].run /\ new.digest = claim[req[p]].digest
  BY <1>1, ClaimShape DEF ExecutionInv, TypeOK, LocalOK, KnownOK, WriteRecovery, Unclaimed
<1>3. /\ pc[p] = "recovering" /\ glock = p /\ glock' = Free
      /\ UNCHANGED <<dirs, files, ledger, lock, req, digest, seen, mine, run, outcome,
                     launches, faults, losses, exclusive>>
  BY DEF ExecutionInv, CoordinatorOK, InCoordinator, WriteRecovery, Rewrite, LockLeft, call, spent
<1>4. /\ claim' = [claim EXCEPT ![req[p]] = new]
      /\ pc' = [pc EXCEPT ![p] = "done"] /\ reply' = [reply EXCEPT ![p] = "recovery_required"]
  BY DEF WriteRecovery, Rewrite, SetClaim, Say
<1> HIDE DEF new
<1>5. TypeOK'
  BY <1>1, <1>3, <1>4, LabelValues DEF ExecutionInv, TypeOK, Answer
<1>6. LocalOK'
  BY <1>1, <1>3, <1>4
     DEF ExecutionInv, TypeOK, LocalOK, Reserving, Replacing, Submitting, Preparing,
         Executing, Promotable, Unclaimed
<1>7. KnownOK'
  BY <1>1, <1>2, <1>3, <1>4
     DEF ExecutionInv, TypeOK, KnownOK, Reserving, Replacing, Submitting, Executing,
         Promotable
<1>8. CoordinatorOK'
  BY <1>3, <1>4, ProtocolConstants
     DEF ExecutionInv, TypeOK, CoordinatorOK, InCoordinator, Replacing
<1>9. OwnerOK'
  BY <1>1, <1>2, <1>3, <1>4 DEF ExecutionInv, TypeOK, OwnerOK, Executing
<1>10. LaunchOK'
  <2>1. Started(claim[req[p]])
    BY <1>3, ClaimShape DEF ExecutionInv, TypeOK, CoordinatorOK
  <2> QED BY <1>1, <1>3, <1>4, <2>1 DEF ExecutionInv, TypeOK, LaunchOK
<1> QED BY <1>5, <1>6, <1>7, <1>8, <1>9, <1>10 DEF ExecutionInv

\* A reader that is going to seal found the run of its claim in run.json.
LEMMA ReconcilePreserves ==
  ASSUME ExecutionInv, NEW p \in Proc, Reconcile(p)
  PROVE  ExecutionInv'
<1>1. RunJson(p).run \in RunId
  BY RecordValues DEF ExecutionInv, TypeOK, LocalOK, Reconcile, RunJson
<1>2. pc'[p] = "seal" => Started(seen[p]) /\ seen[p].run = RunJson(p).run
  BY LabelValues DEF ExecutionInv, TypeOK, Reconcile, Goto, Say, ValidRun, Started
<1>3. TypeOK'
  BY <1>1, LabelValues
     DEF ExecutionInv, TypeOK, Answer, Reconcile, Goto, Say, store, locks, spent
<1>4. LocalOK'
  BY <1>1, <1>2, ClaimShape
     DEF ExecutionInv, TypeOK, LocalOK, Reserving, InCoordinator, Replacing, Submitting, Preparing,
         Executing, Promotable, Unclaimed, Reconcile, Goto, Say, store, RunJson
<1>5. KnownOK'
  BY DEF ExecutionInv, TypeOK, KnownOK, Reserving, InCoordinator, Replacing, Submitting,
          Executing, Promotable, Reconcile, RunJson, Say, Goto, store
<1>6. CoordinatorOK'
  BY DEF ExecutionInv, TypeOK, CoordinatorOK, InCoordinator, Replacing, Reconcile,
          RunJson, Say, Goto, store, locks
<1>7. OwnerOK'
  BY DEF ExecutionInv, TypeOK, OwnerOK, Executing, Reconcile, RunJson, Say,
          Goto, store
<1>8. LaunchOK'
  BY DEF ExecutionInv, TypeOK, LaunchOK, Reconcile, RunJson, Say, Goto, store
<1> QED BY <1>3, <1>4, <1>5, <1>6, <1>7, <1>8 DEF ExecutionInv

\* A call that gives up changes nothing but its answer.
LEMMA CoordinatorBusyPreserves ==
  ASSUME ExecutionInv, NEW p \in Proc, CoordinatorBusy(p)
  PROVE  ExecutionInv'
<1>1. TypeOK'
  BY LabelValues
     DEF ExecutionInv, TypeOK, Answer, CoordinatorBusy, Say, store, locks,
          call, spent
<1>2. LocalOK'
  BY DEF ExecutionInv, TypeOK, LocalOK, Reserving, InCoordinator, Replacing, Submitting,
          Preparing, Executing, Promotable, Unclaimed, CoordinatorBusy, Say,
          store, call
<1>3. KnownOK'
  BY DEF ExecutionInv, TypeOK, KnownOK, Reserving, InCoordinator, Replacing, Submitting,
          Executing, Promotable, CoordinatorBusy, Say, store, call
<1>4. CoordinatorOK'
  BY ClaimShape, ProtocolConstants
     DEF ExecutionInv, TypeOK, LocalOK, KnownOK, CoordinatorOK, Coordinated,
          Reserving, InCoordinator, Replacing, Submitting, Preparing, Executing,
          Promotable, Unclaimed, CoordinatorBusy, Say, store, locks, call,
          spent
<1>5. OwnerOK'
  BY DEF ExecutionInv, TypeOK, OwnerOK, Executing, CoordinatorBusy, Say,
          store, call
<1>6. LaunchOK'
  BY DEF ExecutionInv, TypeOK, LaunchOK, CoordinatorBusy, Say, store, call
<1> QED BY <1>1, <1>2, <1>3, <1>4, <1>5, <1>6 DEF ExecutionInv

\* A call that is over holds nothing.
LEMMA ReturnPreserves ==
  ASSUME ExecutionInv, NEW p \in Proc, Return(p)
  PROVE  ExecutionInv'
<1>1. TypeOK'
  BY LabelValues, ClaimShape
     DEF ExecutionInv, TypeOK, Answer, Outcome, Return, Released, Forget,
          store, spent
<1>2. LocalOK'
  BY ClaimShape
     DEF ExecutionInv, TypeOK, LocalOK, Reserving, InCoordinator, Replacing, Submitting,
          Preparing, Executing, Promotable, Unclaimed, Return, Released,
          Forget, store
<1>3. KnownOK'
  BY ClaimShape
     DEF ExecutionInv, TypeOK, LocalOK, KnownOK, Reserving, InCoordinator, Replacing,
          Submitting, Executing, Promotable, Unclaimed, Return, Released,
          Forget, store
<1>4. CoordinatorOK'
  BY DEF ExecutionInv, TypeOK, CoordinatorOK, InCoordinator, Replacing, Return, Released,
          Forget, store
<1>5. OwnerOK'
  BY DEF ExecutionInv, TypeOK, OwnerOK, Executing, Return, Released, Forget,
          store
<1>6. LaunchOK'
  BY DEF ExecutionInv, TypeOK, LaunchOK, Return, Released, Forget, store
<1> QED BY <1>1, <1>2, <1>3, <1>4, <1>5, <1>6 DEF ExecutionInv

\* An exception releases the global lock and changes no file.
LEMMA ThrowPreserves ==
  ASSUME ExecutionInv, NEW p \in Proc, Throw(p)
  PROVE  ExecutionInv'
<1>1. TypeOK'
  BY LabelValues
     DEF ExecutionInv, TypeOK, Answer, Throw, Say, LockLeft, store, call
<1>2. LocalOK'
  BY DEF ExecutionInv, TypeOK, LocalOK, Reserving, InCoordinator, Replacing, Submitting,
          Preparing, Executing, Promotable, Unclaimed, Throw, Say, store, call
<1>3. KnownOK'
  BY DEF ExecutionInv, TypeOK, KnownOK, Reserving, InCoordinator, Replacing, Submitting,
          Executing, Promotable, Throw, Say, store, call
<1>4. CoordinatorOK'
  BY ClaimShape, ProtocolConstants
     DEF ExecutionInv, TypeOK, LocalOK, CoordinatorOK, InCoordinator, Replacing, Throw,
          Say, LockLeft, store, call
<1>5. OwnerOK'
  BY DEF ExecutionInv, TypeOK, OwnerOK, Executing, Throw, Say, store, call
<1>6. LaunchOK'
  BY DEF ExecutionInv, TypeOK, LaunchOK, Throw, Say, store, call
<1> QED BY <1>1, <1>2, <1>3, <1>4, <1>5, <1>6 DEF ExecutionInv

\* A death forgets the call; the coordinator lock is left to an orphan.
LEMMA CrashPreserves ==
  ASSUME ExecutionInv, NEW p \in Proc, Crash(p)
  PROVE  ExecutionInv'
<1>1. TypeOK'
  BY LabelValues, ClaimShape
     DEF ExecutionInv, TypeOK, Answer, Outcome, Crash, Forget, store
<1>2. LocalOK'
  BY ClaimShape
     DEF ExecutionInv, TypeOK, LocalOK, Reserving, InCoordinator, Replacing, Submitting,
          Preparing, Executing, Promotable, Unclaimed, Crash, Forget, store
<1>3. KnownOK'
  BY ClaimShape
     DEF ExecutionInv, TypeOK, LocalOK, KnownOK, Reserving, InCoordinator, Replacing,
          Submitting, Executing, Promotable, Unclaimed, Crash, Forget, store
<1>4. CoordinatorOK'
  BY ClaimShape, ProtocolConstants
     DEF ExecutionInv, TypeOK, LocalOK, CoordinatorOK, InCoordinator, Replacing, Crash,
          Forget, store
<1>5. OwnerOK'
  BY DEF ExecutionInv, TypeOK, OwnerOK, Executing, Crash, Forget, store
<1>6. LaunchOK'
  BY DEF ExecutionInv, TypeOK, LaunchOK, Crash, Forget, store
<1> QED BY <1>1, <1>2, <1>3, <1>4, <1>5, <1>6 DEF ExecutionInv

\* An orphaned helper holds no call.
LEMMA OrphanExitsPreserves ==
  ASSUME ExecutionInv, NEW r \in Request, OrphanExits(r)
  PROVE  ExecutionInv'
<1>1. TypeOK'
  BY LabelValues
     DEF ExecutionInv, TypeOK, OrphanExits, store, call, spent
<1>2. LocalOK'
  BY DEF ExecutionInv, TypeOK, LocalOK, Reserving, InCoordinator, Replacing, Submitting,
          Preparing, Executing, Promotable, Unclaimed, OrphanExits, store,
          call
<1>3. KnownOK'
  BY DEF ExecutionInv, TypeOK, KnownOK, Reserving, InCoordinator, Replacing, Submitting,
          Executing, Promotable, OrphanExits, store, call
<1>4. CoordinatorOK'
  BY DEF ExecutionInv, TypeOK, CoordinatorOK, InCoordinator, Replacing, OrphanExits,
          store, call
<1>5. OwnerOK'
  BY DEF ExecutionInv, TypeOK, OwnerOK, Executing, OrphanExits, store, call
<1>6. LaunchOK'
  BY DEF ExecutionInv, TypeOK, LaunchOK, OrphanExits, store, call
<1> QED BY <1>1, <1>2, <1>3, <1>4, <1>5, <1>6 DEF ExecutionInv

\* The orphan of the coordinator is no process inside it.
LEMMA CoordinatorOrphanExitsPreserves ==
  ASSUME ExecutionInv, CoordinatorOrphanExits
  PROVE  ExecutionInv'
<1>1. TypeOK'
  BY LabelValues
     DEF ExecutionInv, TypeOK, CoordinatorOrphanExits, store, call, spent
<1>2. LocalOK'
  BY DEF ExecutionInv, TypeOK, LocalOK, Reserving, InCoordinator, Replacing, Submitting,
          Preparing, Executing, Promotable, Unclaimed, CoordinatorOrphanExits,
          store, call
<1>3. KnownOK'
  BY DEF ExecutionInv, TypeOK, KnownOK, Reserving, InCoordinator, Replacing, Submitting,
          Executing, Promotable, CoordinatorOrphanExits, store, call
<1>4. CoordinatorOK'
  BY ClaimShape, ProtocolConstants
     DEF ExecutionInv, TypeOK, LocalOK, CoordinatorOK, InCoordinator, Replacing,
          CoordinatorOrphanExits, store, call
<1>5. OwnerOK'
  BY DEF ExecutionInv, TypeOK, OwnerOK, Executing, CoordinatorOrphanExits,
          store, call
<1>6. LaunchOK'
  BY DEF ExecutionInv, TypeOK, LaunchOK, CoordinatorOrphanExits, store, call
<1> QED BY <1>1, <1>2, <1>3, <1>4, <1>5, <1>6 DEF ExecutionInv

\* Losing the request lock under a live owner loses no exclusion of claims.
LEMMA HelperDiesPreserves ==
  ASSUME ExecutionInv, NEW r \in Request, HelperDies(r)
  PROVE  ExecutionInv'
<1>1. TypeOK'
  BY LabelValues
     DEF ExecutionInv, TypeOK, HelperDies, store, call
<1>2. LocalOK'
  BY DEF ExecutionInv, TypeOK, LocalOK, Reserving, InCoordinator, Replacing, Submitting,
          Preparing, Executing, Promotable, Unclaimed, HelperDies, store, call
<1>3. KnownOK'
  BY DEF ExecutionInv, TypeOK, KnownOK, Reserving, InCoordinator, Replacing, Submitting,
          Executing, Promotable, HelperDies, store, call
<1>4. CoordinatorOK'
  BY DEF ExecutionInv, TypeOK, CoordinatorOK, InCoordinator, Replacing, HelperDies,
          store, call
<1>5. OwnerOK'
  BY DEF ExecutionInv, TypeOK, OwnerOK, Executing, HelperDies, store, call
<1>6. LaunchOK'
  BY DEF ExecutionInv, TypeOK, LaunchOK, HelperDies, store, call
<1> QED BY <1>1, <1>2, <1>3, <1>4, <1>5, <1>6 DEF ExecutionInv

-----------------------------------------------------------------------------
\* Nothing is claimed, held or started at first.
LEMMA InitExecution == Init => ExecutionInv
<1> SUFFICES ASSUME Init PROVE ExecutionInv
  OBVIOUS
<1>1. TypeOK
  BY ClaimShape, LabelValues DEF Init, TypeOK, Answer, Outcome
<1>2. LocalOK
  BY ClaimShape
     DEF Init, LocalOK, Preparing, Reserving, InCoordinator, Replacing, Submitting, Executing, Promotable,
         Unclaimed
<1>3. KnownOK
  BY ClaimShape
     DEF Init, KnownOK, Reserving, InCoordinator, Replacing, Submitting, Executing, Promotable
<1>4. CoordinatorOK
  BY ProtocolConstants DEF Init, CoordinatorOK, InCoordinator, Replacing
<1>5. OwnerOK
  BY DEF Init, OwnerOK, Executing
<1>6. LaunchOK
  BY DEF Init, LaunchOK
<1> QED BY <1>1, <1>2, <1>3, <1>4, <1>5, <1>6 DEF ExecutionInv

\* A step that changes nothing keeps the invariant.
LEMMA StutterExecution == ExecutionInv /\ UNCHANGED vars => ExecutionInv'
BY DEF vars, ExecutionInv, TypeOK, LocalOK, KnownOK, CoordinatorOK, OwnerOK, LaunchOK

\* Every action of every call, and every death, keeps the invariant, but for
\* the loss of the coordinator's helper.
LEMMA NextExecution ==
  ASSUME ExecutionInv, Next, ~ CoordinatorHelperDies
  PROVE  ExecutionInv'
<1>1. ASSUME NEW p \in Proc, Start(p) PROVE ExecutionInv'
  BY <1>1, SubmitPreserves, GetPreserves DEF Start
<1>2. ASSUME NEW p \in Proc, Step(p) PROVE ExecutionInv'
  BY <1>2, ReadDurableClaimPreserves, ReservePreserves, WriteClaimedPreserves,
     AcquireRequestLockPreserves,
     RecheckPreserves, ResumePreserves, AdoptPreserves, EngineMatchesPreserves,
     EngineDriftedPreserves, EngineUnusablePreserves, RejectPreserves,
     RemoveAbandonedPreserves, WriteRejectedPreserves, PromotePreserves,
     WritePromotingPreserves, MakeRunDirectoryPreserves,
     WriteRunningPreserves, WriteInputsPreserves, ExecutePreserves,
     WriteDiagnosticsPreserves, NormalizePreserves, WriteEvidencePreserves,
     WriteRunRecordPreserves, SealPreserves, WriteCompletedPreserves, ReadClaimPreserves,
     StatusFromClaimPreserves, ProbeLockPreserves, UnprobePreserves, TakeOverPreserves,
     RereadPreserves, RelookupPreserves, RecoverPreserves, WriteRecoveryPreserves, ReconcilePreserves,
     CoordinatorBusyPreserves, ReturnPreserves
     DEF Step
<1>3. ASSUME NEW p \in Proc, Throw(p) \/ Crash(p) PROVE ExecutionInv'
  BY <1>3, ThrowPreserves, CrashPreserves
<1>4. ASSUME NEW r \in Request, OrphanExits(r) \/ HelperDies(r) PROVE ExecutionInv'
  BY <1>4, OrphanExitsPreserves, HelperDiesPreserves
<1>5. ASSUME CoordinatorOrphanExits PROVE ExecutionInv'
  BY <1>5, CoordinatorOrphanExitsPreserves
<1> QED BY <1>1, <1>2, <1>3, <1>4, <1>5 DEF Next

\* No other step touches what is known of the coordinator's helpers.
LEMMA ExclusionStays ==
  ASSUME Next, ~ CoordinatorHelperDies
  PROVE  exclusive' = exclusive
<1>1. ASSUME NEW p \in Proc, Start(p) PROVE exclusive' = exclusive
  BY <1>1, Zenon DEF Start, Submit, Get, spent
<1>2. ASSUME NEW p \in Proc, Step(p) PROVE UNCHANGED spent
  BY <1>2, Zenon
     DEF Step, ReadDurableClaim, Reserve, WriteClaimed, AcquireRequestLock, Recheck,
         Resume, Adopt, EngineMatches, EngineDrifted, EngineUnusable, Reject,
         RemoveAbandoned, WriteRejected, Promote, WritePromoting, MakeRunDirectory,
         WriteRunning, WriteInputs, Execute, WriteDiagnostics, Normalize, WriteEvidence,
         WriteRunRecord, Seal, WriteCompleted, ReadClaim, StatusFromClaim, ProbeLock,
         Unprobe, TakeOver, Reread, Relookup, Recover, WriteRecovery, Reconcile,
         CoordinatorBusy, Return, Transition, Rewrite
<1>3. ASSUME NEW p \in Proc, Throw(p) \/ Crash(p) PROVE exclusive' = exclusive
  BY <1>3, Zenon DEF Throw, Crash
<1>4. ASSUME NEW r \in Request, OrphanExits(r) \/ HelperDies(r)
      PROVE  exclusive' = exclusive
  BY <1>4, Zenon DEF OrphanExits, HelperDies, spent
<1>5. ASSUME CoordinatorOrphanExits PROVE exclusive' = exclusive
  BY <1>5, Zenon DEF CoordinatorOrphanExits, spent
<1>6. UNCHANGED spent => exclusive' = exclusive
  BY Zenon DEF spent
<1> QED BY <1>1, <1>2, <1>3, <1>4, <1>5, <1>6 DEF Next

\* What a lost helper of the coordinator has broken stays broken.
LEMMA ExclusionIsLostForGood ==
  ASSUME [Next]_vars, exclusive'
  PROVE  exclusive /\ ([Next /\ ~ CoordinatorHelperDies]_vars)
<1>1. ~ CoordinatorHelperDies
  BY DEF CoordinatorHelperDies
<1>2. exclusive' = exclusive
  BY <1>1, ExclusionStays DEF vars
<1> QED BY <1>1, <1>2, Zenon

\* While the coordinator's operations exclude each other, the inductive
\* invariant holds of every behaviour.
THEOREM ExecutionInvariant == Spec => [](exclusive => ExecutionInv)
<1>1. (exclusive => ExecutionInv) /\ [Next]_vars => (exclusive => ExecutionInv)'
  BY ExclusionIsLostForGood, NextExecution, StutterExecution
<1> QED BY <1>1, InitExecution, PTL DEF Spec

\* Type correctness: every claim, run.json and lock is one its reader accepts,
\* while the coordinator's operations exclude each other.
THEOREM TypeCorrect == Spec => [](exclusive => TypeOK)
<1>1. (exclusive => ExecutionInv) => (exclusive => TypeOK)
  BY DEF ExecutionInv
<1> QED BY <1>1, ExecutionInvariant, PTL

\* For any number of calls, requests, run ids, deaths and lost helpers of
\* request locks, OpenModelica is started at most once for a request id, as
\* long as no helper of the coordinator's lock is lost.
THEOREM ExecutedAtMostOnce == Spec => []AtMostOneExecution
<1>1. (exclusive => ExecutionInv) => AtMostOneExecution
  BY DEF ExecutionInv, LaunchOK, AtMostOneExecution
<1> QED BY <1>1, ExecutionInvariant, PTL

-----------------------------------------------------------------------------
(* Second layer: run ids, run directories and run.json belong to the claim *)
(* of one request. It builds on ExecutionInv, which holds before and after *)
(* each step.                                                              *)

\* No call enters a promotion or an execution, or a rejection with a directory
\* to remove, and those that are in one keep the request and the run they work
\* on.
NoEntry ==
  \A q \in Proc :
    /\ pc'[q] \in Promotable \cup Executing =>
         /\ pc[q] \in Promotable \cup Executing
         /\ run'[q] = run[q] /\ req'[q] = req[q]
    /\ pc'[q] \in Promotable => pc[q] \in Promotable
    /\ pc'[q] = "start" => pc[q] = "start"
    /\ pc'[q] = "rejecting" =>
         seen'[q] = seen[q] /\ (pc[q] = "rejecting" \/ seen[q].run \notin dirs)

\* A step that enters nothing and leaves the store alone keeps IdentityInv.
LEMMA IdentityFrame ==
  ASSUME IdentityInv, NoEntry, UNCHANGED <<claim, dirs, ledger>>
  PROVE  IdentityInv'
<1>1. RunIdOK'
  BY DEF IdentityInv, NoEntry, RunIdOK
<1>2. DirectoryOK'
  BY DEF IdentityInv, NoEntry, DirectoryOK, Promotable
<1>3. LedgerOK'
  BY DEF IdentityInv, LedgerOK
<1> QED BY <1>1, <1>2, <1>3 DEF IdentityInv

\* So does the rewrite of one claim that keeps its run_id, if a claim starts
\* only with its directory and is rejected only without one.
LEMMA IdentityRewrite ==
  ASSUME TypeOK, IdentityInv, NoEntry, UNCHANGED <<dirs, ledger>>,
         NEW r \in Request, NEW new \in Claim,
         claim' = [claim EXCEPT ![r] = new],
         new.run = claim[r].run,
         Started(claim[r]) => Started(new) /\ new.digest = claim[r].digest,
         Started(new) => Started(claim[r]) \/ new.run \in dirs,
         new.state = "rejected" => new.run \notin dirs
  PROVE  IdentityInv'
<1>1. \A s \in Request : claim'[s].run = claim[s].run
  BY DEF TypeOK
<1>2. RunIdOK'
  BY <1>1 DEF IdentityInv, NoEntry, RunIdOK
<1>3. DirectoryOK'
  BY <1>1 DEF TypeOK, IdentityInv, NoEntry, DirectoryOK, Promotable
<1>4. LedgerOK'
  BY <1>1 DEF TypeOK, IdentityInv, LedgerOK
<1> QED BY <1>2, <1>3, <1>4 DEF IdentityInv

\* No claim, directory or run.json changes.
LEMMA SubmitIdentity ==
  ASSUME ExecutionInv, IdentityInv, NEW p \in Proc, NEW r \in Request, NEW d \in Digest, Submit(p, r, d)
  PROVE  IdentityInv'
<1>1. NoEntry
  BY DEF ExecutionInv, TypeOK, NoEntry, Executing, Promotable, Submit, Goto
<1>2. UNCHANGED <<claim, dirs, ledger>>
  BY DEF Submit, store
<1> QED BY <1>1, <1>2, IdentityFrame

\* No claim, directory or run.json changes.
LEMMA GetIdentity ==
  ASSUME ExecutionInv, IdentityInv, NEW p \in Proc, NEW r \in Request, Get(p, r)
  PROVE  IdentityInv'
<1>1. NoEntry
  BY DEF ExecutionInv, TypeOK, NoEntry, Executing, Promotable, Get, Goto
<1>2. UNCHANGED <<claim, dirs, ledger>>
  BY DEF Get, store
<1> QED BY <1>1, <1>2, IdentityFrame

\* No claim, directory or run.json changes.
LEMMA ReadDurableClaimIdentity ==
  ASSUME ExecutionInv, IdentityInv, NEW p \in Proc, ReadDurableClaim(p)
  PROVE  IdentityInv'
<1>1. NoEntry
  BY DEF ExecutionInv, TypeOK, NoEntry, Executing, Promotable,
       ReadDurableClaim, Goto, Say
<1>2. UNCHANGED <<claim, dirs, ledger>>
  BY DEF ReadDurableClaim, store
<1> QED BY <1>1, <1>2, IdentityFrame

\* No claim, directory or run.json changes.
LEMMA AcquireRequestLockIdentity ==
  ASSUME ExecutionInv, IdentityInv, NEW p \in Proc, AcquireRequestLock(p)
  PROVE  IdentityInv'
<1>1. NoEntry
  BY DEF ExecutionInv, TypeOK, NoEntry, Executing, Promotable,
       AcquireRequestLock, Goto, call
<1>2. UNCHANGED <<claim, dirs, ledger>>
  BY DEF AcquireRequestLock, store
<1> QED BY <1>1, <1>2, IdentityFrame

\* No claim, directory or run.json changes.
LEMMA RecheckIdentity ==
  ASSUME ExecutionInv, IdentityInv, NEW p \in Proc, Recheck(p)
  PROVE  IdentityInv'
<1>1. NoEntry
  BY DEF ExecutionInv, TypeOK, NoEntry, Executing, Promotable, Recheck, Goto
<1>2. UNCHANGED <<claim, dirs, ledger>>
  BY DEF Recheck, store
<1> QED BY <1>1, <1>2, IdentityFrame

\* The decision under the lock enters no promotion.
LEMMA ResumeIdentity ==
  ASSUME ExecutionInv, IdentityInv, NEW p \in Proc, Resume(p)
  PROVE  IdentityInv'
<1>1. NoEntry
  BY DEF ExecutionInv, TypeOK, NoEntry, Executing, Promotable, Resume, Goto,
       Say, RecoveryResult, call
<1>2. UNCHANGED <<claim, dirs, ledger>>
  BY DEF Resume, store
<1> QED BY <1>1, <1>2, IdentityFrame

\* No claim, directory or run.json changes.
LEMMA AdoptIdentity ==
  ASSUME ExecutionInv, IdentityInv, NEW p \in Proc, Adopt(p)
  PROVE  IdentityInv'
<1>1. NoEntry
  BY DEF ExecutionInv, TypeOK, NoEntry, Executing, Promotable, Adopt, Goto,
       Say
<1>2. UNCHANGED <<claim, dirs, ledger>>
  BY DEF Adopt, store
<1> QED BY <1>1, <1>2, IdentityFrame

\* No claim, directory or run.json changes.
LEMMA EngineDriftedIdentity ==
  ASSUME ExecutionInv, IdentityInv, NEW p \in Proc, EngineDrifted(p)
  PROVE  IdentityInv'
<1>1. NoEntry
  BY DEF ExecutionInv, TypeOK, NoEntry, Executing, Promotable, EngineDrifted,
       Goto, call
<1>2. UNCHANGED <<claim, dirs, ledger>>
  BY DEF EngineDrifted, store
<1> QED BY <1>1, <1>2, IdentityFrame

\* No claim, directory or run.json changes.
LEMMA EngineUnusableIdentity ==
  ASSUME ExecutionInv, IdentityInv, NEW p \in Proc, EngineUnusable(p)
  PROVE  IdentityInv'
<1>1. NoEntry
  BY DEF ExecutionInv, TypeOK, NoEntry, Executing, Promotable, EngineUnusable,
       Say, call
<1>2. UNCHANGED <<claim, dirs, ledger>>
  BY DEF EngineUnusable, store
<1> QED BY <1>1, <1>2, IdentityFrame

\* No claim, directory or run.json changes.
LEMMA WriteInputsIdentity ==
  ASSUME ExecutionInv, IdentityInv, NEW p \in Proc, WriteInputs(p)
  PROVE  IdentityInv'
<1>1. NoEntry
  BY DEF ExecutionInv, TypeOK, NoEntry, Executing, Promotable, WriteInputs,
       Goto, Say, call
<1>2. UNCHANGED <<claim, dirs, ledger>>
  BY DEF WriteInputs, store
<1> QED BY <1>1, <1>2, IdentityFrame

\* The execution stays in its own run.
LEMMA ExecuteIdentity ==
  ASSUME ExecutionInv, IdentityInv, NEW p \in Proc, Execute(p)
  PROVE  IdentityInv'
<1>1. NoEntry
  BY DEF ExecutionInv, TypeOK, NoEntry, Executing, Promotable, Execute, Goto
<1>2. UNCHANGED <<claim, dirs, ledger>>
  BY DEF Execute, store
<1> QED BY <1>1, <1>2, IdentityFrame

\* No claim, directory or run.json changes.
LEMMA WriteDiagnosticsIdentity ==
  ASSUME ExecutionInv, IdentityInv, NEW p \in Proc, WriteDiagnostics(p)
  PROVE  IdentityInv'
<1>1. NoEntry
  BY DEF ExecutionInv, TypeOK, NoEntry, Executing, Promotable,
       WriteDiagnostics, Goto, call
<1>2. UNCHANGED <<claim, dirs, ledger>>
  BY DEF WriteDiagnostics, store
<1> QED BY <1>1, <1>2, IdentityFrame

\* No claim, directory or run.json changes.
LEMMA NormalizeIdentity ==
  ASSUME ExecutionInv, IdentityInv, NEW p \in Proc, Normalize(p)
  PROVE  IdentityInv'
<1>1. NoEntry
  BY DEF ExecutionInv, TypeOK, NoEntry, Executing, Promotable, Normalize, Goto
<1>2. UNCHANGED <<claim, dirs, ledger>>
  BY DEF Normalize, store
<1> QED BY <1>1, <1>2, IdentityFrame

\* No claim, directory or run.json changes.
LEMMA WriteEvidenceIdentity ==
  ASSUME ExecutionInv, IdentityInv, NEW p \in Proc, WriteEvidence(p)
  PROVE  IdentityInv'
<1>1. NoEntry
  BY DEF ExecutionInv, TypeOK, NoEntry, Executing, Promotable, WriteEvidence,
       Goto, call
<1>2. UNCHANGED <<claim, dirs, ledger>>
  BY DEF WriteEvidence, store
<1> QED BY <1>1, <1>2, IdentityFrame

\* No claim, directory or run.json changes.
LEMMA ReadClaimIdentity ==
  ASSUME ExecutionInv, IdentityInv, NEW p \in Proc, ReadClaim(p)
  PROVE  IdentityInv'
<1>1. NoEntry
  BY DEF ExecutionInv, TypeOK, NoEntry, Executing, Promotable, ReadClaim, Say,
       Goto
<1>2. UNCHANGED <<claim, dirs, ledger>>
  BY DEF ReadClaim, store
<1> QED BY <1>1, <1>2, IdentityFrame

\* No claim, directory or run.json changes.
LEMMA StatusFromClaimIdentity ==
  ASSUME ExecutionInv, IdentityInv, NEW p \in Proc, StatusFromClaim(p)
  PROVE  IdentityInv'
<1>1. NoEntry
  BY DEF ExecutionInv, TypeOK, NoEntry, Executing, Promotable,
       StatusFromClaim, Goto, Say, call
<1>2. UNCHANGED <<claim, dirs, ledger>>
  BY DEF StatusFromClaim, store
<1> QED BY <1>1, <1>2, IdentityFrame

\* No claim, directory or run.json changes.
LEMMA ProbeLockIdentity ==
  ASSUME ExecutionInv, IdentityInv, NEW p \in Proc, ProbeLock(p)
  PROVE  IdentityInv'
<1>1. NoEntry
  BY DEF ExecutionInv, TypeOK, NoEntry, Executing, Promotable, ProbeLock,
       Goto, Say, call
<1>2. UNCHANGED <<claim, dirs, ledger>>
  BY DEF ProbeLock, store
<1> QED BY <1>1, <1>2, IdentityFrame

\* No claim, directory or run.json changes.
LEMMA UnprobeIdentity ==
  ASSUME ExecutionInv, IdentityInv, NEW p \in Proc, Unprobe(p)
  PROVE  IdentityInv'
<1>1. NoEntry
  BY DEF ExecutionInv, TypeOK, NoEntry, Executing, Promotable, Unprobe, Say,
       Goto, call
<1>2. UNCHANGED <<claim, dirs, ledger>>
  BY DEF Unprobe, store
<1> QED BY <1>1, <1>2, IdentityFrame

\* No claim, directory or run.json changes.
LEMMA TakeOverIdentity ==
  ASSUME ExecutionInv, IdentityInv, NEW p \in Proc, TakeOver(p)
  PROVE  IdentityInv'
<1>1. NoEntry
  BY DEF ExecutionInv, TypeOK, NoEntry, Executing, Promotable, TakeOver, Goto,
       Say, call
<1>2. UNCHANGED <<claim, dirs, ledger>>
  BY DEF TakeOver, store
<1> QED BY <1>1, <1>2, IdentityFrame

\* No claim, directory or run.json changes.
LEMMA RereadIdentity ==
  ASSUME ExecutionInv, IdentityInv, NEW p \in Proc, Reread(p)
  PROVE  IdentityInv'
<1>1. NoEntry
  BY DEF ExecutionInv, TypeOK, NoEntry, Executing, Promotable, Reread, Goto
<1>2. UNCHANGED <<claim, dirs, ledger>>
  BY DEF Reread, store
<1> QED BY <1>1, <1>2, IdentityFrame

\* No claim, directory or run.json changes.
LEMMA RelookupIdentity ==
  ASSUME ExecutionInv, IdentityInv, NEW p \in Proc, Relookup(p)
  PROVE  IdentityInv'
<1>1. NoEntry
  BY DEF ExecutionInv, TypeOK, NoEntry, Executing, Promotable, Relookup, Goto,
       RecoveryResult, call, Say
<1>2. UNCHANGED <<claim, dirs, ledger>>
  BY DEF Relookup, store
<1> QED BY <1>1, <1>2, IdentityFrame

\* No claim, directory or run.json changes.
LEMMA ReconcileIdentity ==
  ASSUME ExecutionInv, IdentityInv, NEW p \in Proc, Reconcile(p)
  PROVE  IdentityInv'
<1>1. NoEntry
  BY DEF ExecutionInv, TypeOK, NoEntry, Executing, Promotable, Reconcile, Say,
       Goto
<1>2. UNCHANGED <<claim, dirs, ledger>>
  BY DEF Reconcile, store
<1> QED BY <1>1, <1>2, IdentityFrame

\* No claim, directory or run.json changes.
LEMMA CoordinatorBusyIdentity ==
  ASSUME ExecutionInv, IdentityInv, NEW p \in Proc, CoordinatorBusy(p)
  PROVE  IdentityInv'
<1>1. NoEntry
  BY DEF ExecutionInv, TypeOK, NoEntry, Executing, Promotable,
       CoordinatorBusy, Say, call
<1>2. UNCHANGED <<claim, dirs, ledger>>
  BY DEF CoordinatorBusy, store
<1> QED BY <1>1, <1>2, IdentityFrame

\* A call that is over is in no promotion.
LEMMA ReturnIdentity ==
  ASSUME ExecutionInv, IdentityInv, NEW p \in Proc, Return(p)
  PROVE  IdentityInv'
<1>1. NoEntry
  BY DEF ExecutionInv, TypeOK, NoEntry, Executing, Promotable, Return, Forget
<1>2. UNCHANGED <<claim, dirs, ledger>>
  BY DEF Return, store
<1> QED BY <1>1, <1>2, IdentityFrame

\* A failed call is in no promotion; what it published stays.
LEMMA ThrowIdentity ==
  ASSUME ExecutionInv, IdentityInv, NEW p \in Proc, Throw(p)
  PROVE  IdentityInv'
<1>1. NoEntry
  BY DEF ExecutionInv, TypeOK, NoEntry, Executing, Promotable, Throw, Say,
       call
<1>2. UNCHANGED <<claim, dirs, ledger>>
  BY DEF Throw, store
<1> QED BY <1>1, <1>2, IdentityFrame

\* A dead call is in no promotion; what it published stays.
LEMMA CrashIdentity ==
  ASSUME ExecutionInv, IdentityInv, NEW p \in Proc, Crash(p)
  PROVE  IdentityInv'
<1>1. NoEntry
  BY DEF ExecutionInv, TypeOK, NoEntry, Executing, Promotable, Crash, Forget
<1>2. UNCHANGED <<claim, dirs, ledger>>
  BY DEF Crash, store
<1> QED BY <1>1, <1>2, IdentityFrame

\* No claim, directory or run.json changes.
LEMMA OrphanExitsIdentity ==
  ASSUME ExecutionInv, IdentityInv, NEW r \in Request, OrphanExits(r)
  PROVE  IdentityInv'
<1>1. NoEntry
  BY DEF ExecutionInv, TypeOK, NoEntry, Executing, Promotable, OrphanExits,
       call
<1>2. UNCHANGED <<claim, dirs, ledger>>
  BY DEF OrphanExits, store
<1> QED BY <1>1, <1>2, IdentityFrame

\* No claim, directory or run.json changes.
LEMMA CoordinatorOrphanExitsIdentity ==
  ASSUME ExecutionInv, IdentityInv, CoordinatorOrphanExits
  PROVE  IdentityInv'
<1>1. NoEntry
  BY DEF ExecutionInv, TypeOK, NoEntry, Executing, Promotable,
       CoordinatorOrphanExits, call
<1>2. UNCHANGED <<claim, dirs, ledger>>
  BY DEF CoordinatorOrphanExits, store
<1> QED BY <1>1, <1>2, IdentityFrame

\* No claim, directory or run.json changes.
LEMMA HelperDiesIdentity ==
  ASSUME ExecutionInv, IdentityInv, NEW r \in Request, HelperDies(r)
  PROVE  IdentityInv'
<1>1. NoEntry
  BY DEF ExecutionInv, TypeOK, NoEntry, Executing, Promotable, HelperDies,
       call
<1>2. UNCHANGED <<claim, dirs, ledger>>
  BY DEF HelperDies, store
<1> QED BY <1>1, <1>2, IdentityFrame

\* An election writes nothing before its count.
LEMMA ReserveIdentity ==
  ASSUME ExecutionInv, IdentityInv, NEW p \in Proc, Reserve(p)
  PROVE  IdentityInv'
<1>1. NoEntry
  BY DEF ExecutionInv, TypeOK, NoEntry, Executing, Promotable, Reserve, Enter, Goto, Say, call
<1>2. UNCHANGED <<claim, dirs, ledger>>
  BY DEF Reserve, store
<1> QED BY <1>1, <1>2, IdentityFrame

\* A fresh claim has no run_id yet.
LEMMA WriteClaimedIdentity ==
  ASSUME ExecutionInv, IdentityInv, NEW p \in Proc, WriteClaimed(p)
  PROVE  IdentityInv'
<1> DEFINE new == Claimed(digest[p])
<1>1. /\ new \in Claim /\ new.run = NoRun /\ new.state = "claimed" /\ ~ Started(new)
  BY ClaimedValues, ClaimShape DEF ExecutionInv, TypeOK, LocalOK, Preparing, WriteClaimed
<1>2. NoEntry
  BY DEF ExecutionInv, TypeOK, NoEntry, Executing, Promotable, WriteClaimed, Goto
<1>3. /\ claim[req[p]] = NoClaim /\ claim' = [claim EXCEPT ![req[p]] = new]
      /\ UNCHANGED <<dirs, ledger>> /\ req[p] \in Request /\ TypeOK
  BY DEF ExecutionInv, TypeOK, CoordinatorOK, WriteClaimed, SetClaim
<1> HIDE DEF new
<1>4. claim[req[p]].run = NoRun /\ ~ Started(claim[req[p]])
  BY <1>3, ClaimShape
<1> QED BY <1>1, <1>2, <1>3, <1>4, IdentityRewrite

\* A run_id that was generated is nobody else's; an abandoned promotion's is
\* the one its claim holds.
LEMMA EngineMatchesIdentity ==
  ASSUME ExecutionInv, IdentityInv, NEW p \in Proc, EngineMatches(p)
  PROVE  IdentityInv'
<1>1. PICK u \in RunIdFor(seen[p]) : run' = [run EXCEPT ![p] = u]
  BY DEF EngineMatches
<1>2. /\ pc[p] = "engine" /\ pc' = [pc EXCEPT ![p] = "promote"]
      /\ UNCHANGED <<claim, dirs, ledger, req, seen>>
  BY DEF EngineMatches, Goto, store
<1>3. u \in RunId
  BY <1>1, <1>2, ClaimShape DEF ExecutionInv, TypeOK, LocalOK, RunIdFor
<1>4. \A r \in Request : claim[r].run = u => r = req[p]
  <2>1. CASE seen[p].state = "promoting"
    <3>1. u = seen[p].run /\ u # NoRun
      BY <1>1, <1>3, <2>1, ClaimConstants DEF RunIdFor
    <3>2. claim[req[p]].run = u
      BY <3>1 DEF ExecutionInv, KnownOK
    <3> QED BY <1>3, <3>2 DEF ExecutionInv, TypeOK, IdentityInv, RunIdOK
  <2>2. CASE seen[p].state # "promoting"
    BY <1>1, <2>2 DEF RunIdFor, UsedIds
  <2> QED BY <2>1, <2>2
<1>5. \A q \in Proc : pc[q] \in Promotable /\ run[q] = u => req[q] = req[p]
  <2>1. CASE seen[p].state = "promoting"
    <3>1. u = seen[p].run /\ u # NoRun
      BY <1>1, <1>3, <2>1, ClaimConstants DEF RunIdFor
    <3>2. claim[req[p]].run = u
      BY <3>1 DEF ExecutionInv, KnownOK
    <3> QED BY <1>3, <3>2 DEF ExecutionInv, TypeOK, IdentityInv, RunIdOK
  <2>2. CASE seen[p].state # "promoting"
    BY <1>1, <2>2 DEF RunIdFor, UsedIds
  <2> QED BY <2>1, <2>2
<1>6. RunIdOK'
  <2>1. /\ run'[p] = u /\ \A q \in Proc \ {p} : run'[q] = run[q] /\ pc'[q] = pc[q]
    BY <1>1, <1>2 DEF ExecutionInv, TypeOK
  <2> QED BY <1>2, <1>4, <1>5, <2>1 DEF IdentityInv, RunIdOK, Promotable, Executing
<1>7. DirectoryOK'
  BY <1>1, <1>2 DEF ExecutionInv, TypeOK, IdentityInv, DirectoryOK
<1>8. LedgerOK'
  BY <1>2 DEF IdentityInv, LedgerOK
<1> QED BY <1>6, <1>7, <1>8 DEF IdentityInv

\* A rejection without a promotion to clean up has no run.
LEMMA RejectIdentity ==
  ASSUME ExecutionInv, IdentityInv, NEW p \in Proc, Reject(p)
  PROVE  IdentityInv'
<1>1. /\ pc[p] = "reject" /\ UNCHANGED <<claim, dirs, ledger, req, seen, run>>
  BY DEF Reject, store, call
<1>2. \/ /\ claim[req[p]] = mine[p] /\ seen[p].state # "promoting"
         /\ pc' = [pc EXCEPT ![p] = "rejecting"]
      \/ pc' = [pc EXCEPT ![p] = "cleanup"]
      \/ pc' = [pc EXCEPT ![p] = "done"]
  BY DEF Reject, Unchanged, OnDisk, Goto, Say
<1>3. NoRun \notin dirs
  BY ClaimConstants DEF ExecutionInv, TypeOK
<1>4. claim[req[p]] = mine[p] /\ seen[p].state # "promoting" => seen[p].run \notin dirs
  BY <1>1, <1>3, ComparedClaim
<1>5. NoEntry
  BY <1>1, <1>2, <1>4 DEF ExecutionInv, TypeOK, NoEntry, Executing, Promotable
<1> QED BY <1>1, <1>5, IdentityFrame

\* A rejection removes only the directory of its own abandoned promotion.
LEMMA RemoveAbandonedIdentity ==
  ASSUME ExecutionInv, IdentityInv, NEW p \in Proc, RemoveAbandoned(p)
  PROVE  IdentityInv'
<1>1. /\ pc[p] = "cleanup" /\ req[p] \in Request /\ TypeOK
      /\ UNCHANGED <<claim, ledger, req, seen, run>>
  BY DEF ExecutionInv, TypeOK, RemoveAbandoned, call
<1>2. \/ dirs' = dirs \ {seen[p].run} /\ pc' = [pc EXCEPT ![p] = "rejecting"]
      \/ dirs' = dirs /\ pc' = [pc EXCEPT ![p] = "done"]
  BY DEF RemoveAbandoned, Goto, Say
<1>3. CASE dirs' = dirs /\ pc' = [pc EXCEPT ![p] = "done"]
  <2>1. NoEntry
    BY <1>1, <1>3 DEF TypeOK, NoEntry, Executing, Promotable
  <2> QED BY <1>1, <1>3, <2>1, IdentityFrame
<1>4. CASE dirs' = dirs \ {seen[p].run} /\ pc' = [pc EXCEPT ![p] = "rejecting"]
  <2>1. /\ claim[req[p]] = seen[p] /\ seen[p].state = "promoting"
        /\ \A q \in Proc \ {p} : pc[q] \notin {"start", "rejecting"}
    BY <1>1 DEF ExecutionInv, CoordinatorOK, InCoordinator, Replacing
  <2>2. ~ Started(claim[req[p]]) /\ seen[p].run \in RunId
    BY <1>1, <2>1, ClaimShape DEF TypeOK
  <2>3. RunIdOK'
    BY <1>1, <1>4 DEF TypeOK, IdentityInv, RunIdOK, Promotable, Executing
  <2>4. DirectoryOK'
    BY <1>1, <1>4, <2>1, <2>2 DEF TypeOK, IdentityInv, RunIdOK, DirectoryOK
  <2>5. LedgerOK'
    BY <1>1, <1>4 DEF IdentityInv, LedgerOK
  <2> QED BY <2>3, <2>4, <2>5 DEF IdentityInv
<1> QED BY <1>2, <1>3, <1>4

\* The directory of the rejected claim is gone, and was nobody else's.
LEMMA WriteRejectedIdentity ==
  ASSUME ExecutionInv, IdentityInv, NEW p \in Proc, WriteRejected(p)
  PROVE  IdentityInv'
<1> DEFINE new == Rejected(seen[p])
<1>1. /\ pc[p] = "rejecting" /\ req[p] \in Request /\ TypeOK /\ UNCHANGED <<dirs, ledger>>
      /\ claim' = [claim EXCEPT ![req[p]] = new]
  BY DEF ExecutionInv, TypeOK, WriteRejected, SetClaim
<1>2. /\ claim[req[p]] = seen[p] /\ SlotReserved(seen[p]) /\ seen[p].run \notin dirs
      /\ new \in Claim /\ new.run = seen[p].run /\ ~ Started(new) /\ ~ Started(seen[p])
  BY <1>1, RejectedValues, ClaimShape
     DEF ExecutionInv, TypeOK, LocalOK, CoordinatorOK, Reserving, InCoordinator,
         Replacing, IdentityInv, DirectoryOK
<1>3. NoEntry
  BY DEF ExecutionInv, TypeOK, NoEntry, Executing, Promotable, WriteRejected, Say, call
<1> HIDE DEF new
<1> QED BY <1>1, <1>2, <1>3, IdentityRewrite

\* A promotion goes on with the run_id it chose.
LEMMA PromoteIdentity ==
  ASSUME ExecutionInv, IdentityInv, NEW p \in Proc, Promote(p)
  PROVE  IdentityInv'
<1>1. NoEntry
  BY DEF ExecutionInv, TypeOK, NoEntry, Executing, Promotable, Promote, Goto, Say, Enter, call
<1>2. UNCHANGED <<claim, dirs, ledger>>
  BY DEF Promote, store
<1> QED BY <1>1, <1>2, IdentityFrame

\* The run_id of a promotion is new to every other claim and every execution.
LEMMA WritePromotingIdentity ==
  ASSUME ExecutionInv, IdentityInv, NEW p \in Proc, WritePromoting(p)
  PROVE  IdentityInv'
<1> DEFINE new == Promoting(seen[p], run[p])
<1>1. /\ pc[p] = "promoting" /\ req[p] \in Request /\ TypeOK
      /\ UNCHANGED <<dirs, ledger, req, seen, run>>
      /\ claim' = [claim EXCEPT ![req[p]] = new]
      /\ pc' = [pc EXCEPT ![p] = "mkdir"]
  BY DEF ExecutionInv, TypeOK, WritePromoting, SetClaim, Goto, call
<1>2. /\ new \in Claim /\ ~ Started(new) /\ new.run = run[p] /\ new.state = "promoting"
      /\ run[p] \in RunId
  BY <1>1, PromotingValues, ClaimShape
     DEF ExecutionInv, TypeOK, LocalOK, Reserving, Replacing, Promotable
<1>3. claim[req[p]] = seen[p] /\ SlotReserved(seen[p]) /\ WellFormed(seen[p])
  BY <1>1 DEF ExecutionInv, CoordinatorOK, LocalOK, Reserving, Replacing
<1> HIDE DEF new
<1>4. /\ ~ Started(claim[req[p]])
      /\ claim[req[p]].run # NoRun => claim[req[p]].run = run[p]
  BY <1>1, <1>3, ClaimShape
     DEF ExecutionInv, TypeOK, KnownOK, Promotable, WellFormed, SlotReserved
<1>5. /\ claim'[req[p]] = new
      /\ \A r \in Request \ {req[p]} : claim'[r] = claim[r]
      /\ pc'[p] = "mkdir" /\ \A q \in Proc \ {p} : pc'[q] = pc[q]
  BY <1>1 DEF TypeOK
<1>6. \A r \in Request : claim[r].run = run[p] => r = req[p]
  BY <1>1 DEF IdentityInv, RunIdOK, Promotable
<1>7. \A q \in Proc : pc[q] \in Promotable /\ run[q] = run[p] => req[q] = req[p]
  BY <1>1 DEF IdentityInv, RunIdOK, Promotable
<1>8. \A q \in Proc : pc[q] \in Executing =>
        req[q] # req[p] /\ claim[req[q]].run = run[q] /\ run[q] # run[p]
  BY <1>1, <1>4, <1>6 DEF ExecutionInv, OwnerOK, TypeOK
<1>9. RunIdOK'
  <2>1. \A r, s \in Request : claim'[r].run \in RunId /\ claim'[r].run = claim'[s].run => r = s
    BY <1>2, <1>5, <1>6 DEF IdentityInv, RunIdOK
  <2>2. \A q \in Proc : pc'[q] \in Promotable \cup Executing =>
          \A r \in Request : claim'[r].run = run'[q] => r = req'[q]
    BY <1>1, <1>2, <1>5, <1>6, <1>7, <1>8 DEF IdentityInv, RunIdOK, Promotable
  <2>3. \A q, t \in Proc :
          pc'[q] \in Promotable /\ pc'[t] \in Promotable /\ run'[q] = run'[t]
            => req'[q] = req'[t]
    BY <1>1, <1>5 DEF IdentityInv, RunIdOK, Promotable
  <2> QED BY <2>1, <2>2, <2>3 DEF RunIdOK
<1>10. DirectoryOK'
  <2>1. \A u \in dirs : \E r \in Request : claim'[r].run = u
    <3> SUFFICES ASSUME NEW u \in dirs PROVE \E r \in Request : claim'[r].run = u
      OBVIOUS
    <3>1. PICK r \in Request : claim[r].run = u
      BY DEF IdentityInv, DirectoryOK
    <3>2. u # NoRun
      BY <1>1, ClaimConstants DEF TypeOK
    <3> QED BY <1>2, <1>4, <1>5, <3>1, <3>2
  <2> QED BY <1>1, <1>2, <1>5, <2>1 DEF IdentityInv, DirectoryOK
<1>11. LedgerOK'
  BY <1>1, <1>4, <1>5 DEF IdentityInv, LedgerOK
<1> QED BY <1>9, <1>10, <1>11 DEF IdentityInv

\* The directory is made for the run_id just published in the claim.
LEMMA MakeRunDirectoryIdentity ==
  ASSUME ExecutionInv, IdentityInv, NEW p \in Proc, MakeRunDirectory(p)
  PROVE  IdentityInv'
<1>1. /\ pc[p] = "mkdir" /\ pc' = [pc EXCEPT ![p] = "start"]
      /\ dirs' = dirs \cup {run[p]} /\ UNCHANGED <<claim, ledger, req, seen, run>>
      /\ req[p] \in Request /\ TypeOK
  BY DEF ExecutionInv, TypeOK, MakeRunDirectory, Goto, call
<1>2. /\ claim[req[p]].run = run[p] /\ claim[req[p]].state = "promoting"
  BY <1>1, PromotingValues
     DEF ExecutionInv, TypeOK, LocalOK, CoordinatorOK, Reserving, InCoordinator, Replacing,
         Promotable
<1>3. \A q \in Proc : pc[q] # "rejecting"
  BY <1>1 DEF ExecutionInv, CoordinatorOK, InCoordinator, Replacing
<1>4. \A r \in Request : claim[r].run = run[p] => r = req[p]
  BY <1>1 DEF IdentityInv, RunIdOK, Promotable
<1>5. RunIdOK'
  BY <1>1 DEF TypeOK, IdentityInv, RunIdOK, Promotable, Executing
<1>6. DirectoryOK'
  BY <1>1, <1>2, <1>3, <1>4 DEF TypeOK, IdentityInv, DirectoryOK
<1>7. LedgerOK'
  BY <1>1 DEF IdentityInv, LedgerOK
<1> QED BY <1>5, <1>6, <1>7 DEF IdentityInv

\* The claim starts with its directory in place.
LEMMA WriteRunningIdentity ==
  ASSUME ExecutionInv, IdentityInv, NEW p \in Proc, WriteRunning(p)
  PROVE  IdentityInv'
<1> DEFINE new == Running(Promoting(seen[p], run[p]))
<1>1. /\ pc[p] = "start" /\ req[p] \in Request /\ TypeOK /\ UNCHANGED <<dirs, ledger>>
      /\ claim' = [claim EXCEPT ![req[p]] = new]
  BY DEF ExecutionInv, TypeOK, WriteRunning, SetClaim
<1>2. /\ claim[req[p]].run = run[p] /\ ~ Started(claim[req[p]])
      /\ new \in Claim /\ new.run = run[p] /\ Started(new) /\ run[p] \in dirs
      /\ new.state # "rejected"
  BY <1>1, PromotingValues, RunningValues, ClaimShape
     DEF ExecutionInv, TypeOK, LocalOK, CoordinatorOK, Reserving, InCoordinator, Replacing,
         Promotable, IdentityInv, DirectoryOK, Started
<1>3. NoEntry
  BY DEF ExecutionInv, TypeOK, NoEntry, Executing, Promotable, WriteRunning, Goto
<1> HIDE DEF new
<1> QED BY <1>1, <1>2, <1>3, IdentityRewrite

\* run.json is committed for the running claim of its owner.
LEMMA WriteRunRecordIdentity ==
  ASSUME ExecutionInv, IdentityInv, NEW p \in Proc, WriteRunRecord(p)
  PROVE  IdentityInv'
<1> DEFINE record == [run |-> run[p], digest |-> digest[p], status |-> outcome[p]]
<1>1. /\ pc[p] = "publish" /\ pc' = [pc EXCEPT ![p] = "seal"]
      /\ ledger' = [ledger EXCEPT ![req[p]] = record]
      /\ UNCHANGED <<claim, dirs, req, seen, run>> /\ TypeOK /\ req[p] \in Request
  BY DEF ExecutionInv, TypeOK, WriteRunRecord, Goto, call
<1>2. record.run = run[p] /\ record.digest = digest[p]
  OBVIOUS
<1>3. /\ Started(claim[req[p]]) /\ claim[req[p]].run = run[p]
      /\ claim[req[p]].digest = digest[p]
  BY <1>1
     DEF ExecutionInv, OwnerOK, KnownOK, LocalOK, Executing, Submitting, Unclaimed
<1> HIDE DEF record
<1>4. RunIdOK'
  BY <1>1 DEF TypeOK, IdentityInv, RunIdOK, Promotable, Executing
<1>5. DirectoryOK'
  BY <1>1 DEF TypeOK, IdentityInv, DirectoryOK
<1>6. LedgerOK'
  BY <1>1, <1>2, <1>3 DEF TypeOK, IdentityInv, LedgerOK
<1> QED BY <1>4, <1>5, <1>6 DEF IdentityInv

\* The transition check writes nothing.
LEMMA SealIdentity ==
  ASSUME ExecutionInv, IdentityInv, NEW p \in Proc, Seal(p)
  PROVE  IdentityInv'
<1>1. NoEntry
  BY DEF ExecutionInv, TypeOK, NoEntry, Executing, Promotable, Seal, Transition, Enter, Goto, Say, call
<1>2. UNCHANGED <<claim, dirs, ledger>>
  BY DEF Seal, Transition, store
<1> QED BY <1>1, <1>2, IdentityFrame

\* A seal is written over a started claim of the same run and bytes.
LEMMA WriteCompletedIdentity ==
  ASSUME ExecutionInv, IdentityInv, NEW p \in Proc, WriteCompleted(p)
  PROVE  IdentityInv'
<1> DEFINE new == Sealed(p)
<1>1. /\ pc[p] = "sealing" /\ req[p] \in Request /\ TypeOK /\ UNCHANGED <<dirs, ledger>>
      /\ claim' = [claim EXCEPT ![req[p]] = new]
  BY DEF ExecutionInv, TypeOK, WriteCompleted, Rewrite, SetClaim
<1>2. /\ new \in Claim /\ Started(new) /\ new.state # "rejected"
      /\ new.run = seen[p].run /\ new.digest = seen[p].digest
  BY <1>1, CompletedValues DEF ExecutionInv, TypeOK, LocalOK, RunJson, Started, Sealed
<1>3. /\ new.run = claim[req[p]].run /\ new.digest = claim[req[p]].digest
      /\ Started(claim[req[p]])
  BY <1>1, <1>2, ClaimShape
     DEF ExecutionInv, TypeOK, LocalOK, KnownOK, IdentityInv, LedgerOK
<1>4. NoEntry
  BY DEF ExecutionInv, TypeOK, NoEntry, Executing, Promotable, WriteCompleted, Rewrite, Say,
         call
<1> HIDE DEF new
<1> QED BY <1>1, <1>2, <1>3, <1>4, IdentityRewrite

\* The transition check writes nothing.
LEMMA RecoverIdentity ==
  ASSUME ExecutionInv, IdentityInv, NEW p \in Proc, Recover(p)
  PROVE  IdentityInv'
<1>1. NoEntry
  BY DEF ExecutionInv, TypeOK, NoEntry, Executing, Promotable, Recover, Transition, Enter, Goto, Say, call
<1>2. UNCHANGED <<claim, dirs, ledger>>
  BY DEF Recover, Transition, store
<1> QED BY <1>1, <1>2, IdentityFrame

\* A recovery claim is written over a started claim of the same run.
LEMMA WriteRecoveryIdentity ==
  ASSUME ExecutionInv, IdentityInv, NEW p \in Proc, WriteRecovery(p)
  PROVE  IdentityInv'
<1> DEFINE new == RecoveryRequired(seen[p])
<1>1. /\ pc[p] = "recovering" /\ req[p] \in Request /\ TypeOK /\ UNCHANGED <<dirs, ledger>>
      /\ claim' = [claim EXCEPT ![req[p]] = new]
  BY DEF ExecutionInv, TypeOK, WriteRecovery, Rewrite, SetClaim
<1>2. /\ new \in Claim /\ Started(new) /\ new.state = "recovery_required"
      /\ new.run = seen[p].run /\ new.digest = seen[p].digest
      /\ seen[p].run \in RunId /\ seen[p].run # NoRun /\ seen[p] # NoClaim
  BY <1>1, RecoveryValues, ClaimShape, ClaimConstants
     DEF ExecutionInv, TypeOK, LocalOK, Unclaimed, WellFormed
<1>3. new.run = claim[req[p]].run /\ new.digest = claim[req[p]].digest
  BY <1>2 DEF ExecutionInv, KnownOK
<1>4. Started(claim[req[p]])
  BY <1>1, ClaimShape DEF ExecutionInv, TypeOK, CoordinatorOK
<1>5. NoEntry
  BY DEF ExecutionInv, TypeOK, NoEntry, Executing, Promotable, WriteRecovery, Rewrite, Say,
         call
<1> HIDE DEF new
<1> QED BY <1>1, <1>2, <1>3, <1>4, <1>5, IdentityRewrite

-----------------------------------------------------------------------------
\* Nothing is claimed at first.
LEMMA InitIdentity == Init => IdentityInv
<1> SUFFICES ASSUME Init PROVE IdentityInv
  OBVIOUS
<1>1. RunIdOK
  BY ClaimConstants, ClaimShape DEF Init, RunIdOK, Promotable, Executing
<1>2. DirectoryOK
  BY ClaimShape DEF Init, DirectoryOK, NoClaim
<1>3. LedgerOK
  BY DEF Init, LedgerOK
<1> QED BY <1>1, <1>2, <1>3 DEF IdentityInv

\* A step that changes nothing keeps the invariant.
LEMMA StutterIdentity == IdentityInv /\ UNCHANGED vars => IdentityInv'
BY DEF vars, IdentityInv, RunIdOK, DirectoryOK, LedgerOK

\* Every action keeps the identity invariant, but for the loss of the
\* coordinator's helper.
LEMMA NextIdentity ==
  ASSUME ExecutionInv, IdentityInv, Next, ~ CoordinatorHelperDies
  PROVE  IdentityInv'
<1>1. ASSUME NEW p \in Proc, Start(p) PROVE IdentityInv'
  BY <1>1, SubmitIdentity, GetIdentity DEF Start
<1>2. ASSUME NEW p \in Proc, Step(p) PROVE IdentityInv'
  BY <1>2, ReadDurableClaimIdentity, ReserveIdentity, WriteClaimedIdentity,
     AcquireRequestLockIdentity,
     RecheckIdentity, ResumeIdentity, AdoptIdentity, EngineMatchesIdentity,
     EngineDriftedIdentity, EngineUnusableIdentity, RejectIdentity,
     RemoveAbandonedIdentity, WriteRejectedIdentity, PromoteIdentity,
     WritePromotingIdentity, MakeRunDirectoryIdentity,
     WriteRunningIdentity, WriteInputsIdentity, ExecuteIdentity,
     WriteDiagnosticsIdentity, NormalizeIdentity, WriteEvidenceIdentity,
     WriteRunRecordIdentity, SealIdentity, WriteCompletedIdentity, ReadClaimIdentity,
     StatusFromClaimIdentity, ProbeLockIdentity, UnprobeIdentity, TakeOverIdentity,
     RereadIdentity, RelookupIdentity, RecoverIdentity, WriteRecoveryIdentity, ReconcileIdentity,
     CoordinatorBusyIdentity, ReturnIdentity
     DEF Step
<1>3. ASSUME NEW p \in Proc, Throw(p) \/ Crash(p) PROVE IdentityInv'
  BY <1>3, ThrowIdentity, CrashIdentity
<1>4. ASSUME NEW r \in Request, OrphanExits(r) \/ HelperDies(r) PROVE IdentityInv'
  BY <1>4, OrphanExitsIdentity, HelperDiesIdentity
<1>5. ASSUME CoordinatorOrphanExits PROVE IdentityInv'
  BY <1>5, CoordinatorOrphanExitsIdentity
<1> QED BY <1>1, <1>2, <1>3, <1>4, <1>5 DEF Next

\* Run ids, directories and run.json keep to one request in every behaviour,
\* while the coordinator's operations exclude each other.
THEOREM IdentityInvariant == Spec => [](exclusive => IdentityInv)
<1>1. /\ exclusive => ExecutionInv
      /\ exclusive => IdentityInv
      /\ [Next]_vars
      => (exclusive => IdentityInv)'
  BY ExclusionIsLostForGood, NextIdentity, StutterIdentity
<1> QED BY <1>1, InitIdentity, ExecutionInvariant, PTL DEF Spec

\* Whoever executes a request does so alone, for the run_id of the durable
\* running claim and in that run's directory, whatever request locks were lost.
THEOREM ExecutionsAreClaimed == Spec => []ExecutionIsClaimed
<1>1. (exclusive => ExecutionInv) /\ (exclusive => IdentityInv) => ExecutionIsClaimed
  BY DEF ExecutionInv, OwnerOK, IdentityInv, DirectoryOK, ExecutionIsClaimed, Owns
<1> QED BY <1>1, ExecutionInvariant, IdentityInvariant, PTL

\* A rejected request was never executed, has no run.json and no directory, as
\* long as no helper of the coordinator's lock is lost.
THEOREM RejectedRequestsNeverRan == Spec => []RejectedNeverRan
<1>1. (exclusive => ExecutionInv) /\ (exclusive => IdentityInv) => RejectedNeverRan
  BY DEF ExecutionInv, LaunchOK, IdentityInv, DirectoryOK, LedgerOK, RejectedNeverRan,
         Started
<1> QED BY <1>1, ExecutionInvariant, IdentityInvariant, PTL

\* Every run directory belongs to exactly one claim: none is ever leaked, as
\* long as no helper of the coordinator's lock is lost.
THEOREM DirectoriesAreClaimed == Spec => []EveryDirectoryIsClaimed
<1>1. (exclusive => ExecutionInv) /\ (exclusive => IdentityInv) => EveryDirectoryIsClaimed
  <2> SUFFICES ASSUME ExecutionInv, IdentityInv, NEW u \in dirs
               PROVE \E r \in Request :
                       claim[r].run = u /\ \A s \in Request : claim[s].run = u => s = r
    BY DEF EveryDirectoryIsClaimed
  <2>1. u \in RunId
    BY DEF ExecutionInv, TypeOK
  <2> QED BY <2>1 DEF IdentityInv, RunIdOK, DirectoryOK
<1> QED BY <1>1, ExecutionInvariant, IdentityInvariant, PTL

-----------------------------------------------------------------------------
(* Third layer: run.json is whole when it appears, answers are backed by   *)
(* the durable state, and a claim is declared ownerless only when it is.   *)
(* After it come the refinement of RequestLifecycle and the capacity.      *)

(* What a step may do to the store.                                        *)

\* A claim as the life-cycle of its request lets it follow another one.
Follows(old, new) ==
  \/ new = old
  \/ old = NoClaim /\ \E d \in Digest : new = Claimed(d)
  \/ /\ SlotReserved(old) /\ new.digest = old.digest
     /\ SlotReserved(new) \/ new.state \in {"running", "rejected"}
  \/ /\ old.state \in {"running", "recovery_required"} /\ new.digest = old.digest
     /\ new.state \in {"completed", "recovery_required"}

\* The claims are rewritten by six actions only.
LEMMA ClaimWriters ==
  ASSUME Next, ~ CoordinatorHelperDies
  PROVE  \/ UNCHANGED claim
         \/ \E p \in Proc : \/ WriteClaimed(p) \/ WriteRejected(p) \/ WritePromoting(p)
                            \/ WriteRunning(p) \/ WriteCompleted(p) \/ WriteRecovery(p)
<1>1. ASSUME NEW p \in Proc, Start(p) \/ Throw(p) \/ Crash(p) PROVE UNCHANGED claim
  BY <1>1 DEF Start, Submit, Get, Throw, Crash, store
<1>2. ASSUME NEW r \in Request, OrphanExits(r) \/ HelperDies(r) PROVE UNCHANGED claim
  BY <1>2 DEF OrphanExits, HelperDies, store
<1>3. CoordinatorOrphanExits => UNCHANGED claim
  BY DEF CoordinatorOrphanExits, store
<1>4. ASSUME NEW p \in Proc, Step(p)
      PROVE  \/ UNCHANGED claim
             \/ WriteClaimed(p) \/ WriteRejected(p) \/ WritePromoting(p)
             \/ WriteRunning(p) \/ WriteCompleted(p) \/ WriteRecovery(p)
  BY <1>4
     DEF Step, ReadDurableClaim, Reserve, AcquireRequestLock, Recheck, Resume, Adopt,
         EngineMatches, EngineDrifted, EngineUnusable, Reject, RemoveAbandoned, Promote,
         MakeRunDirectory, WriteInputs, Execute, WriteDiagnostics, Normalize, WriteEvidence,
         WriteRunRecord, Seal, ReadClaim, StatusFromClaim, ProbeLock, Unprobe, TakeOver,
         Reread, Relookup, Recover, Transition, Reconcile, CoordinatorBusy, Return, store
<1> QED BY <1>1, <1>2, <1>3, <1>4 DEF Next

\* run.json is written by one action only.
LEMMA LedgerWriters ==
  ASSUME Next, ~ CoordinatorHelperDies
  PROVE  UNCHANGED ledger \/ \E p \in Proc : WriteRunRecord(p)
<1>1. ASSUME NEW p \in Proc, Start(p) \/ Throw(p) \/ Crash(p) PROVE UNCHANGED ledger
  BY <1>1 DEF Start, Submit, Get, Throw, Crash, store
<1>2. ASSUME NEW r \in Request, OrphanExits(r) \/ HelperDies(r) PROVE UNCHANGED ledger
  BY <1>2 DEF OrphanExits, HelperDies, store
<1>3. CoordinatorOrphanExits => UNCHANGED ledger
  BY DEF CoordinatorOrphanExits, store
<1>4. ASSUME NEW p \in Proc, Step(p) PROVE UNCHANGED ledger \/ WriteRunRecord(p)
  BY <1>4
     DEF Step, ReadDurableClaim, Reserve, WriteClaimed, AcquireRequestLock, Recheck, Resume,
         Adopt, EngineMatches, EngineDrifted, EngineUnusable, Reject, RemoveAbandoned,
         WriteRejected, Promote, WritePromoting, MakeRunDirectory, WriteRunning,
         WriteInputs, Execute, WriteDiagnostics, Normalize, WriteEvidence, Seal,
         WriteCompleted, ReadClaim, StatusFromClaim, ProbeLock, Unprobe, TakeOver, Reread,
         Relookup, Recover, WriteRecovery, Transition, Rewrite, Reconcile, CoordinatorBusy,
         Return, store
<1> QED BY <1>1, <1>2, <1>3, <1>4 DEF Next

\* OpenModelica is started by one action only.
LEMMA LaunchWriters ==
  ASSUME Next, ~ CoordinatorHelperDies
  PROVE  UNCHANGED launches \/ \E p \in Proc : Execute(p)
<1>1. ASSUME NEW p \in Proc, Start(p) \/ Throw(p) \/ Crash(p) PROVE UNCHANGED launches
  BY <1>1 DEF Start, Submit, Get, Throw, Crash
<1>2. ASSUME NEW r \in Request, OrphanExits(r) \/ HelperDies(r) PROVE UNCHANGED launches
  BY <1>2 DEF OrphanExits, HelperDies
<1>3. CoordinatorOrphanExits => UNCHANGED launches
  BY DEF CoordinatorOrphanExits
<1>4. ASSUME NEW p \in Proc, Step(p) PROVE UNCHANGED launches \/ Execute(p)
  BY <1>4
     DEF Step, ReadDurableClaim, Reserve, WriteClaimed, AcquireRequestLock, Recheck, Resume,
         Adopt, EngineMatches, EngineDrifted, EngineUnusable, Reject, RemoveAbandoned,
         WriteRejected, Promote, WritePromoting, MakeRunDirectory, WriteRunning,
         WriteInputs, WriteDiagnostics, Normalize, WriteEvidence, WriteRunRecord, Seal,
         WriteCompleted, ReadClaim, StatusFromClaim, ProbeLock, Unprobe, TakeOver, Reread,
         Relookup, Recover, WriteRecovery, Transition, Rewrite, Reconcile, CoordinatorBusy,
         Return
<1> QED BY <1>1, <1>2, <1>3, <1>4 DEF Next

\* Artifacts are only ever added to a run directory.
LEMMA FilesGrow ==
  ASSUME TypeOK, Next, ~ CoordinatorHelperDies
  PROVE  \A u \in RunId : files[u] \subseteq files'[u]
<1>1. ASSUME NEW p \in Proc, Start(p) \/ Throw(p) \/ Crash(p) PROVE UNCHANGED files
  BY <1>1 DEF Start, Submit, Get, Throw, Crash, store
<1>2. ASSUME NEW r \in Request, OrphanExits(r) \/ HelperDies(r) PROVE UNCHANGED files
  BY <1>2 DEF OrphanExits, HelperDies, store
<1>3. CoordinatorOrphanExits => UNCHANGED files
  BY DEF CoordinatorOrphanExits, store
<1>4. ASSUME NEW p \in Proc, Step(p)
      PROVE  \/ UNCHANGED files
             \/ \E a \in Artifact : WriteArtifact(p, a)
  BY <1>4
     DEF Step, ReadDurableClaim, Reserve, WriteClaimed, AcquireRequestLock, Recheck, Resume,
         Adopt, EngineMatches, EngineDrifted, EngineUnusable, Reject, RemoveAbandoned,
         WriteRejected, Promote, WritePromoting, MakeRunDirectory, WriteRunning,
         WriteInputs, Execute, WriteDiagnostics, Normalize, WriteEvidence, WriteRunRecord,
         Seal, WriteCompleted, ReadClaim, StatusFromClaim, ProbeLock, Unprobe, TakeOver,
         Reread, Relookup, Recover, WriteRecovery, Transition, Rewrite, Reconcile,
         CoordinatorBusy, Return, store, Artifact
<1>5. ASSUME NEW p \in Proc, NEW a \in Artifact, WriteArtifact(p, a)
      PROVE  \A u \in RunId : files[u] \subseteq files'[u]
  BY <1>5 DEF TypeOK, WriteArtifact
<1> QED BY <1>1, <1>2, <1>3, <1>4, <1>5 DEF Next

\* Every step rewrites claims as the life-cycle allows, one request at a time.
LEMMA ClaimsFollow ==
  ASSUME ExecutionInv, Next, ~ CoordinatorHelperDies
  PROVE  \A r \in Request : Follows(claim[r], claim'[r])
<1>1. ASSUME NEW p \in Proc, WriteClaimed(p)
      PROVE  \A r \in Request : Follows(claim[r], claim'[r])
  <2>1. digest[p] \in Digest /\ claim[req[p]] = NoClaim
    BY <1>1 DEF ExecutionInv, LocalOK, CoordinatorOK, Preparing, WriteClaimed
  <2> QED BY <1>1, <2>1 DEF ExecutionInv, TypeOK, WriteClaimed, SetClaim, Follows
<1>2. ASSUME NEW p \in Proc, WriteRejected(p)
      PROVE  \A r \in Request : Follows(claim[r], claim'[r])
  <2>1. claim[req[p]] = seen[p] /\ SlotReserved(seen[p])
    BY <1>2 DEF ExecutionInv, LocalOK, CoordinatorOK, Reserving, Replacing, WriteRejected
  <2>2. Rejected(seen[p]).state = "rejected" /\ Rejected(seen[p]).digest = seen[p].digest
    BY <2>1, RejectedValues DEF ExecutionInv, TypeOK, LocalOK
  <2> QED BY <1>2, <2>1, <2>2 DEF ExecutionInv, TypeOK, WriteRejected, SetClaim, Follows
<1>3. ASSUME NEW p \in Proc, WritePromoting(p)
      PROVE  \A r \in Request : Follows(claim[r], claim'[r])
  <2>1. /\ claim[req[p]] = seen[p] /\ SlotReserved(seen[p]) /\ run[p] \in RunId
        /\ seen[p] \in Claim /\ WellFormed(seen[p]) /\ seen[p] # NoClaim
    BY <1>3, ClaimShape
       DEF ExecutionInv, TypeOK, LocalOK, CoordinatorOK, Reserving, Replacing, Promotable,
           WritePromoting
  <2>2. LET n == Promoting(seen[p], run[p]) IN SlotReserved(n) /\ n.digest = seen[p].digest
    BY <2>1, PromotingValues
  <2> QED BY <1>3, <2>1, <2>2 DEF ExecutionInv, TypeOK, WritePromoting, SetClaim, Follows
<1>4. ASSUME NEW p \in Proc, WriteRunning(p)
      PROVE  \A r \in Request : Follows(claim[r], claim'[r])
  <2> DEFINE old == Promoting(seen[p], run[p])
  <2>1. claim[req[p]] = old /\ old.state = "promoting" /\ old \in Claim
    BY <1>4 DEF ExecutionInv, TypeOK, CoordinatorOK, WriteRunning, Promoting
  <2>2. Running(old).state = "running" /\ Running(old).digest = old.digest
    BY <2>1 DEF Running, Claim
  <2>3. SetClaim(p, Running(old))
    BY <1>4 DEF WriteRunning
  <2> HIDE DEF old
  <2> QED BY <2>1, <2>2, <2>3 DEF ExecutionInv, TypeOK, SetClaim, Follows, SlotReserved
<1>5. ASSUME NEW p \in Proc, WriteCompleted(p)
      PROVE  \A r \in Request : Follows(claim[r], claim'[r])
  <2> DEFINE new == Sealed(p)
  <2>1. /\ new.state = "completed" /\ new.digest = seen[p].digest /\ seen[p] # NoClaim
        /\ SetClaim(p, new) /\ claim[req[p]].state \in {"running", "recovery_required"}
    BY <1>5
       DEF WriteCompleted, Rewrite, Sealed, Completed, ExecutionInv, LocalOK, CoordinatorOK,
           Unclaimed
  <2>2. seen[p].digest = claim[req[p]].digest
    BY <2>1 DEF ExecutionInv, KnownOK
  <2> HIDE DEF new
  <2> QED BY <2>1, <2>2 DEF ExecutionInv, TypeOK, SetClaim, Follows
<1>6. ASSUME NEW p \in Proc, WriteRecovery(p)
      PROVE  \A r \in Request : Follows(claim[r], claim'[r])
  <2> DEFINE new == RecoveryRequired(seen[p])
  <2>1. /\ seen[p] \in Claim /\ seen[p] # NoClaim
        /\ SetClaim(p, new) /\ claim[req[p]].state \in {"running", "recovery_required"}
    BY <1>6
       DEF WriteRecovery, Rewrite, ExecutionInv, TypeOK, LocalOK, CoordinatorOK, Unclaimed
  <2>2. new.state = "recovery_required" /\ new.digest = seen[p].digest
    BY <2>1 DEF RecoveryRequired, Claim
  <2>3. seen[p].digest = claim[req[p]].digest
    BY <2>1 DEF ExecutionInv, KnownOK
  <2> HIDE DEF new
  <2> QED BY <2>1, <2>2, <2>3 DEF ExecutionInv, TypeOK, SetClaim, Follows
<1>7. UNCHANGED claim => \A r \in Request : Follows(claim[r], claim'[r])
  BY DEF Follows
<1> QED BY <1>1, <1>2, <1>3, <1>4, <1>5, <1>6, <1>7, ClaimWriters

-----------------------------------------------------------------------------
(* The artifacts of a run and its run.json.                                *)

\* No execution advances in this step, and none begins.
NoExecutionStep ==
  \A q \in Proc : pc'[q] \in Executing =>
    pc'[q] = pc[q] /\ req'[q] = req[q] /\ run'[q] = run[q] /\ outcome'[q] = outcome[q]

\* The seven actions that begin, advance or end an execution.
ExecutionStep(p) ==
  \/ WriteRunning(p) \/ WriteInputs(p) \/ Execute(p) \/ WriteDiagnostics(p)
  \/ Normalize(p) \/ WriteEvidence(p) \/ WriteRunRecord(p)

\* A step of any other kind leaves every execution where it is.
LEMMA ExecutionSteps ==
  ASSUME TypeOK, Next, ~ CoordinatorHelperDies
  PROVE  NoExecutionStep \/ \E p \in Proc : ExecutionStep(p)
<1>1. ASSUME NEW p \in Proc, Start(p) \/ Throw(p) \/ Crash(p) PROVE NoExecutionStep
  BY <1>1
     DEF Start, Submit, Get, Throw, Crash, Forget, Goto, Say, call, TypeOK, Executing,
         NoExecutionStep
<1>2. ASSUME NEW r \in Request, OrphanExits(r) \/ HelperDies(r) PROVE NoExecutionStep
  BY <1>2 DEF OrphanExits, HelperDies, call, NoExecutionStep
<1>3. CoordinatorOrphanExits => NoExecutionStep
  BY DEF CoordinatorOrphanExits, call, NoExecutionStep
<1>4. ASSUME NEW p \in Proc,
             \/ ReadDurableClaim(p) \/ Reserve(p) \/ WriteClaimed(p)
             \/ AcquireRequestLock(p) \/ Recheck(p) \/ Resume(p) \/ Adopt(p)
             \/ EngineMatches(p) \/ EngineDrifted(p) \/ EngineUnusable(p) \/ Reject(p)
             \/ RemoveAbandoned(p) \/ WriteRejected(p) \/ Promote(p) \/ WritePromoting(p)
             \/ MakeRunDirectory(p)
      PROVE  NoExecutionStep
  BY <1>4
     DEF ReadDurableClaim, Reserve, WriteClaimed, AcquireRequestLock, Recheck, Resume,
         RecoveryResult, Adopt, EngineMatches, EngineDrifted, EngineUnusable, Reject,
         RemoveAbandoned, WriteRejected, Promote, WritePromoting, MakeRunDirectory, Goto,
         Say, call, TypeOK, Executing, NoExecutionStep
<1>5. ASSUME NEW p \in Proc,
             \/ Seal(p) \/ WriteCompleted(p) \/ ReadClaim(p) \/ StatusFromClaim(p)
             \/ ProbeLock(p) \/ Unprobe(p) \/ TakeOver(p) \/ Reread(p) \/ Relookup(p)
             \/ Recover(p) \/ WriteRecovery(p) \/ Reconcile(p) \/ CoordinatorBusy(p)
             \/ Return(p)
      PROVE  NoExecutionStep
  BY <1>5
     DEF Seal, WriteCompleted, ReadClaim, StatusFromClaim, ProbeLock, Unprobe, TakeOver,
         Reread, Relookup, RecoveryResult, Recover, WriteRecovery, Transition, Rewrite,
         Reconcile, CoordinatorBusy, Return, Forget, Goto, Say, call, TypeOK, Executing,
         NoExecutionStep
<1> QED BY <1>1, <1>2, <1>3, <1>4, <1>5 DEF Next, Step, ExecutionStep

\* run.json is written once, by the execution that ends with it.
LEMMA LedgerStep ==
  ASSUME ExecutionInv, AnswerInv, Next, ~ CoordinatorHelperDies,
         NEW r \in Request, ledger'[r] # ledger[r]
  PROVE  \E p \in Proc :
           /\ pc[p] = "publish" /\ pc'[p] = "seal" /\ UNCHANGED <<claim, files>>
           /\ req[p] = r /\ ledger[r] = NoRecord
           /\ ledger'[r] = [run |-> run[p], digest |-> digest[p], status |-> outcome[p]]
           /\ ledger'[r] \in RunRecord
<1>1. PICK p \in Proc : WriteRunRecord(p)
  BY LedgerWriters
<1>2. /\ pc[p] = "publish" /\ pc[p] \in Executing /\ pc'[p] = "seal"
      /\ UNCHANGED <<claim, files>>
  BY <1>1 DEF WriteRunRecord, Executing, Goto, ExecutionInv, TypeOK
<1>3. /\ req[p] = r
      /\ ledger'[r] = [run |-> run[p], digest |-> digest[p], status |-> outcome[p]]
  BY <1>1 DEF WriteRunRecord, ExecutionInv, TypeOK
<1>4. run[p] \in RunId /\ digest[p] \in Digest /\ outcome[p] \in Outcome
  BY <1>2 DEF ExecutionInv, TypeOK, LocalOK, Preparing, Submitting
<1>5. ledger'[r] \in RunRecord /\ ledger[r] = NoRecord
  BY <1>2, <1>3, <1>4 DEF AnswerInv, FilesOK, RunRecord
<1> QED BY <1>2, <1>3, <1>5

\* An execution finds every artifact that it wrote before, and no run.json.
LEMMA FilesStep ==
  ASSUME ExecutionInv, IdentityInv, AnswerInv, Next, ~ CoordinatorHelperDies
  PROVE  FilesOK'
<1> USE DEF Executing
<1>1. TypeOK /\ TypeOK' /\ OwnerOK /\ ExecutionInv'
  BY NextExecution DEF ExecutionInv
<1>2. \A u \in RunId : files[u] \subseteq files'[u]
  BY <1>1, FilesGrow
<1>3. \A q \in Proc : pc[q] \in Executing => run[q] \in RunId
  BY DEF ExecutionInv, LocalOK
<1>4. ASSUME NoExecutionStep PROVE FilesOK'
  <2>1. ASSUME NEW q \in Proc, pc'[q] \in Executing PROVE ledger'[req'[q]] = NoRecord
    <3>1. /\ pc'[q] = pc[q] /\ req'[q] = req[q] /\ req[q] \in Request
          /\ ledger[req[q]] = NoRecord
      BY <1>1, <1>4, <2>1 DEF NoExecutionStep, AnswerInv, FilesOK, TypeOK
    <3>2. ASSUME NEW p \in Proc, pc[p] = "publish", pc'[p] = "seal", req[p] = req[q]
          PROVE  FALSE
      BY <2>1, <3>1, <3>2, <1>1 DEF OwnerOK
    <3>3. ledger'[req[q]] = ledger[req[q]]
      BY <3>1, <3>2, LedgerStep
    <3> QED BY <3>1, <3>3
  <2>2. launches' = launches
    BY <1>1, <1>4, LaunchWriters DEF NoExecutionStep, Execute, Goto, TypeOK
  <2> QED BY <1>2, <1>3, <1>4, <2>1, <2>2 DEF NoExecutionStep, AnswerInv, FilesOK
<1>5. ASSUME NEW p \in Proc, WriteRunning(p) PROVE FilesOK'
  <2>1. claim[req[p]].state = "promoting" /\ ~ Started(claim[req[p]])
    BY <1>5 DEF ExecutionInv, CoordinatorOK, WriteRunning, Promoting, Started
  <2>2. ledger[req[p]] = NoRecord
    BY <1>1, <2>1 DEF IdentityInv, LedgerOK, TypeOK
  <2> QED BY <1>1, <1>5, <2>2 DEF AnswerInv, FilesOK, WriteRunning, Goto, TypeOK
<1>6. ASSUME NEW p \in Proc, WriteInputs(p) PROVE FilesOK'
  BY <1>1, <1>2, <1>3, <1>6
     DEF AnswerInv, FilesOK, WriteInputs, WriteArtifact, Goto, Say, call, TypeOK
<1>7. ASSUME NEW p \in Proc, Execute(p) PROVE FilesOK'
  <2>1. launches[req[p]] = 0
    BY <1>7 DEF ExecutionInv, LaunchOK, Execute
  <2> QED BY <1>1, <1>7, <2>1 DEF AnswerInv, FilesOK, OwnerOK, Execute, Goto, store, TypeOK
<1>8. ASSUME NEW p \in Proc, WriteDiagnostics(p) PROVE FilesOK'
  BY <1>1, <1>2, <1>3, <1>8
     DEF AnswerInv, FilesOK, WriteDiagnostics, WriteArtifact, Goto, call, TypeOK
<1>9. ASSUME NEW p \in Proc, Normalize(p) PROVE FilesOK'
  BY <1>1, <1>2, <1>3, <1>9
     DEF AnswerInv, FilesOK, Normalize, WriteArtifact, Goto, TypeOK
<1>10. ASSUME NEW p \in Proc, WriteEvidence(p) PROVE FilesOK'
  BY <1>1, <1>2, <1>3, <1>10
     DEF AnswerInv, FilesOK, WriteEvidence, WriteArtifact, Goto, call, TypeOK
<1>11. ASSUME NEW p \in Proc, WriteRunRecord(p) PROVE FilesOK'
  BY <1>1, <1>11 DEF AnswerInv, FilesOK, OwnerOK, WriteRunRecord, Goto, call, TypeOK
<1> QED BY <1>1, <1>4, <1>5, <1>6, <1>7, <1>8, <1>9, <1>10, <1>11, ExecutionSteps
        DEF ExecutionStep

\* A claim becomes completed by the seal of the run.json that is there, and
\* ownerless by a call that decided so under the request lock.
LEMMA SettledBy ==
  ASSUME ExecutionInv, Next, ~ CoordinatorHelperDies,
         NEW r \in Request, claim'[r] # claim[r],
         claim'[r].state \in {"completed", "recovery_required"}
  PROVE  \/ \E p \in Proc :
              /\ pc[p] = "sealing" /\ req[p] = r /\ UNCHANGED ledger
              /\ claim'[r] = Completed(seen[p], ledger[r])
         \/ \E p \in Proc :
              /\ pc[p] = "recovering" /\ pc'[p] = "done" /\ req[p] = r
              /\ claim'[r] = RecoveryRequired(seen[p])
<1>1. PICK p \in Proc :
        \/ WriteClaimed(p) \/ WriteRejected(p) \/ WritePromoting(p)
        \/ WriteRunning(p) \/ WriteCompleted(p) \/ WriteRecovery(p)
  BY ClaimWriters
<1>2. CASE WriteCompleted(p)
  BY <1>2 DEF WriteCompleted, Rewrite, Sealed, SetClaim, RunJson, ExecutionInv, TypeOK
<1>3. CASE WriteRecovery(p)
  BY <1>3 DEF WriteRecovery, Rewrite, SetClaim, Say, ExecutionInv, TypeOK
<1>4. CASE WriteClaimed(p)
  BY <1>4 DEF WriteClaimed, SetClaim, Claimed, ExecutionInv, TypeOK
<1>5. CASE WriteRejected(p)
  <2>1. SlotReserved(seen[p]) /\ seen[p] \in Claim /\ WellFormed(seen[p])
    BY <1>5 DEF ExecutionInv, TypeOK, LocalOK, Reserving, Replacing, WriteRejected
  <2> QED BY <1>5, <2>1, RejectedValues DEF WriteRejected, SetClaim, ExecutionInv, TypeOK
<1>6. CASE WritePromoting(p)
  BY <1>6 DEF WritePromoting, SetClaim, Promoting, ExecutionInv, TypeOK
<1>7. CASE WriteRunning(p)
  <2> DEFINE old == Promoting(seen[p], run[p])
  <2>1. old \in Claim
    BY <1>7 DEF ExecutionInv, TypeOK, CoordinatorOK, WriteRunning
  <2>2. Running(old).state = "running"
    BY <2>1 DEF Running, Claim
  <2>3. claim' = [claim EXCEPT ![req[p]] = Running(old)]
    BY <1>7 DEF WriteRunning, SetClaim
  <2> HIDE DEF old
  <2> QED BY <2>2, <2>3 DEF ExecutionInv, TypeOK
<1> QED BY <1>1, <1>2, <1>3, <1>4, <1>5, <1>6, <1>7

\* run.json keeps its artifacts, and the seal of a completed claim its run.json.
LEMMA SealStep ==
  ASSUME ExecutionInv, AnswerInv, Next, ~ CoordinatorHelperDies
  PROVE  SealOK'
<1>1. TypeOK /\ TypeOK'
  BY NextExecution DEF ExecutionInv
<1>2. \A u \in RunId : files[u] \subseteq files'[u]
  BY <1>1, FilesGrow
<1>3. ASSUME NEW r \in Request, ledger'[r] # NoRecord
      PROVE  ArtifactsOf(ledger'[r].status) \subseteq files'[ledger'[r].run]
  <2>1. CASE ledger'[r] = ledger[r]
    <3>1. ledger[r].run \in RunId
      BY <1>1, <1>3, <2>1, RecordValues DEF TypeOK
    <3> QED BY <1>2, <1>3, <2>1, <3>1 DEF AnswerInv, SealOK
  <2>2. CASE ledger'[r] # ledger[r]
    <3>1. PICK p \in Proc :
            /\ pc[p] = "publish" /\ UNCHANGED files
            /\ ledger'[r] = [run |-> run[p], digest |-> digest[p], status |-> outcome[p]]
      BY <2>2, LedgerStep
    <3>2. ledger'[r].run = run[p] /\ ledger'[r].status = outcome[p] /\ pc[p] \in Executing
      BY <3>1 DEF Executing
    <3>3. ArtifactsOf(outcome[p]) \subseteq files[run[p]]
      BY <3>1, <3>2 DEF AnswerInv, FilesOK, ArtifactsOf, Artifact, Executing
    <3> QED BY <3>1, <3>2, <3>3
  <2> QED BY <2>1, <2>2
<1>4. ASSUME NEW r \in Request, claim'[r].state = "completed"
      PROVE  ledger'[r] # NoRecord /\ claim'[r].seal = ledger'[r]
  <2>1. CASE claim'[r] = claim[r]
    <3>1. ledger[r] # NoRecord /\ claim[r].seal = ledger[r]
      BY <1>4, <2>1 DEF AnswerInv, SealOK
    <3>2. ledger'[r] = ledger[r]
      BY <3>1, LedgerStep
    <3> QED BY <2>1, <3>1, <3>2
  <2>2. CASE claim'[r] # claim[r]
    <3>1. \/ \E p \in Proc : /\ pc[p] = "sealing" /\ req[p] = r /\ UNCHANGED ledger
                             /\ claim'[r] = Completed(seen[p], ledger[r])
          \/ \E p \in Proc : pc[p] = "recovering" /\ claim'[r] = RecoveryRequired(seen[p])
      BY <1>4, <2>2, SettledBy
    <3>2. ASSUME NEW p \in Proc, claim'[r] = RecoveryRequired(seen[p]) PROVE FALSE
      BY <1>1, <1>4, <3>2 DEF TypeOK, RecoveryRequired, Claim
    <3>3. ASSUME NEW p \in Proc, pc[p] = "sealing", req[p] = r, UNCHANGED ledger,
                 claim'[r] = Completed(seen[p], ledger[r])
          PROVE  ledger'[r] # NoRecord /\ claim'[r].seal = ledger'[r]
      BY <3>3 DEF Completed, ExecutionInv, LocalOK
    <3> QED BY <3>1, <3>2, <3>3
  <2> QED BY <2>1, <2>2
<1> QED BY <1>3, <1>4 DEF SealOK

-----------------------------------------------------------------------------
(* What a call has read.                                                   *)

\* A call knows the claim that it reads or writes in this step, or the one it
\* knew before, or none.
LEMMA SeenSources ==
  ASSUME ExecutionInv, Next, ~ CoordinatorHelperDies,
         NEW q \in Proc
  PROVE  \/ seen'[q] = NoClaim
         \/ seen'[q] = seen[q] /\ req'[q] = req[q]
         \/ seen'[q] = claim'[req'[q]]
<1>1. pc[q] = "idle" => seen[q] = NoClaim
  BY DEF ExecutionInv, KnownOK
<1> USE DEF ExecutionInv, TypeOK
<1>2. ASSUME NEW p \in Proc, Start(p)
      PROVE  seen'[q] = NoClaim \/ (seen'[q] = seen[q] /\ req'[q] = req[q])
  BY <1>1, <1>2 DEF Start, Get, Submit
<1>3. ASSUME NEW p \in Proc, Throw(p) \/ Crash(p) \/ Return(p)
      PROVE  seen'[q] = NoClaim \/ (seen'[q] = seen[q] /\ req'[q] = req[q])
  BY <1>3 DEF Throw, Crash, Return, Forget, call
<1>4. ASSUME NEW p \in Proc,
             ReadDurableClaim(p) \/ Recheck(p) \/ ReadClaim(p) \/ Reread(p)
      PROVE  (seen'[q] = seen[q] /\ req'[q] = req[q]) \/ seen'[q] = claim'[req'[q]]
  BY <1>4 DEF ReadDurableClaim, Recheck, ReadClaim, Reread, OnDisk, store
<1>5. ASSUME NEW p \in Proc, Reserve(p) \/ WriteClaimed(p) \/ WriteRunning(p)
      PROVE  (seen'[q] = seen[q] /\ req'[q] = req[q]) \/ seen'[q] = claim'[req'[q]]
  BY <1>5 DEF Reserve, WriteClaimed, WriteRunning, SetClaim, call
<1>6. ASSUME NEW p \in Proc,
             \/ AcquireRequestLock(p) \/ Resume(p) \/ Adopt(p) \/ EngineMatches(p)
             \/ EngineDrifted(p) \/ EngineUnusable(p) \/ Reject(p) \/ RemoveAbandoned(p)
             \/ WriteRejected(p) \/ Promote(p) \/ WritePromoting(p) \/ MakeRunDirectory(p)
             \/ WriteInputs(p) \/ Execute(p) \/ WriteDiagnostics(p) \/ Normalize(p)
             \/ WriteEvidence(p) \/ WriteRunRecord(p) \/ Seal(p) \/ WriteCompleted(p)
             \/ StatusFromClaim(p) \/ ProbeLock(p) \/ Unprobe(p) \/ TakeOver(p)
             \/ Relookup(p) \/ Recover(p) \/ WriteRecovery(p) \/ Reconcile(p)
             \/ CoordinatorBusy(p)
      PROVE  UNCHANGED <<seen, req>>
  BY <1>6
     DEF AcquireRequestLock, Resume, Adopt, EngineMatches, EngineDrifted, EngineUnusable,
         Reject, RemoveAbandoned, WriteRejected, Promote, WritePromoting, MakeRunDirectory,
         WriteInputs, Execute, WriteDiagnostics, Normalize, WriteEvidence, WriteRunRecord,
         Seal, WriteCompleted, StatusFromClaim, ProbeLock, Unprobe, TakeOver, Relookup,
         Recover, WriteRecovery, Transition, Rewrite, Reconcile, CoordinatorBusy, call
<1>7. ASSUME NEW r \in Request, OrphanExits(r) \/ HelperDies(r) PROVE UNCHANGED <<seen, req>>
  BY <1>7 DEF OrphanExits, HelperDies, call
<1>8. CoordinatorOrphanExits => UNCHANGED <<seen, req>>
  BY DEF CoordinatorOrphanExits, call
<1> QED BY <1>2, <1>3, <1>4, <1>5, <1>6, <1>7, <1>8 DEF Next, Step

\* No step takes an end that a call has read away from under it.
LEMMA SeenStep ==
  ASSUME ExecutionInv, AnswerInv, Next, ~ CoordinatorHelperDies
  PROVE  SeenOK'
<1>1. TypeOK /\ TypeOK'
  BY NextExecution DEF ExecutionInv
<1> SUFFICES ASSUME NEW q \in Proc
             PROVE  /\ Terminal(seen'[q]) => claim'[req'[q]] = seen'[q]
                    /\ Started(seen'[q]) => Started(claim'[req'[q]])
  BY DEF SeenOK, OnDisk
<1>2. CASE seen'[q] = NoClaim
  BY <1>2 DEF NoClaim, Terminal, Started
<1>3. CASE seen'[q] = claim'[req'[q]]
  BY <1>3
<1>4. CASE seen'[q] = seen[q] /\ req'[q] = req[q]
  <2>1. Follows(claim[req[q]], claim'[req[q]])
    BY <1>1, ClaimsFollow DEF TypeOK
  <2>2. Terminal(claim[req[q]]) => claim'[req[q]] = claim[req[q]]
    BY <2>1 DEF Follows, Terminal, NoClaim, SlotReserved
  <2>3. Started(claim[req[q]]) => Started(claim'[req[q]])
    BY <2>1 DEF Follows, Started, NoClaim, SlotReserved
  <2> QED BY <1>4, <2>2, <2>3 DEF AnswerInv, SeenOK, OnDisk
<1> QED BY <1>2, <1>3, <1>4, SeenSources

-----------------------------------------------------------------------------
(* The request lock.                                                       *)

\* A call gets under the lock only by taking it, and while its helper lives
\* nobody else takes the lock away.
LEMMA LockKept ==
  ASSUME ExecutionInv, Next, ~ CoordinatorHelperDies,
         NEW q \in Proc, pc'[q] \in UnderLock,
         pc[q] \in UnderLock => lock[req[q]] = q
  PROVE  (lock'[req'[q]] = q /\ losses' = losses) \/ losses' = losses + 1
<1> USE ProtocolConstants
    DEF ExecutionInv, TypeOK, UnderLock, Submitting, InCoordinator, Replacing, Executing
<1>1. ASSUME NEW p \in Proc, Start(p) PROVE lock'[req'[q]] = q /\ losses' = losses
  BY <1>1 DEF Start, Submit, Get, Goto, locks, spent
<1>2. ASSUME NEW p \in Proc, Throw(p) \/ Crash(p) PROVE lock'[req'[q]] = q /\ losses' = losses
  BY <1>2 DEF Throw, Crash, Forget, Say, call
<1>3. ASSUME NEW p \in Proc,
             AcquireRequestLock(p) \/ ProbeLock(p) \/ TakeOver(p) \/ Unprobe(p) \/ Return(p)
      PROVE  lock'[req'[q]] = q /\ losses' = losses
  BY <1>3
     DEF AcquireRequestLock, ProbeLock, TakeOver, Unprobe, Return, Forget, LockObtained,
         Released, Goto, Say, call, spent
<1>4. ASSUME NEW p \in Proc,
             \/ ReadDurableClaim(p) \/ Reserve(p) \/ WriteClaimed(p) \/ Recheck(p)
             \/ Resume(p) \/ Adopt(p) \/ EngineMatches(p) \/ EngineDrifted(p)
             \/ EngineUnusable(p) \/ Reject(p) \/ RemoveAbandoned(p) \/ WriteRejected(p)
             \/ Promote(p) \/ WritePromoting(p) \/ MakeRunDirectory(p) \/ WriteRunning(p)
             \/ WriteInputs(p) \/ Execute(p) \/ WriteDiagnostics(p) \/ Normalize(p)
      PROVE  lock'[req'[q]] = q /\ losses' = losses
  BY <1>4
     DEF ReadDurableClaim, Reserve, WriteClaimed, Recheck, Resume, RecoveryResult, Adopt,
         EngineMatches, EngineDrifted, EngineUnusable, Reject, RemoveAbandoned,
         WriteRejected, Promote, WritePromoting, MakeRunDirectory, WriteRunning,
         WriteInputs, Execute, WriteDiagnostics, Normalize, Goto, Say, call, locks, spent
<1>5. ASSUME NEW p \in Proc,
             \/ WriteEvidence(p) \/ WriteRunRecord(p) \/ Seal(p) \/ WriteCompleted(p)
             \/ ReadClaim(p) \/ StatusFromClaim(p) \/ Reread(p) \/ Relookup(p) \/ Recover(p)
             \/ WriteRecovery(p) \/ Reconcile(p) \/ CoordinatorBusy(p)
      PROVE  lock'[req'[q]] = q /\ losses' = losses
  BY <1>5
     DEF WriteEvidence, WriteRunRecord, Seal, WriteCompleted, ReadClaim, StatusFromClaim,
         Reread, Relookup, RecoveryResult, Recover, WriteRecovery, Transition, Rewrite,
         Reconcile, CoordinatorBusy, Goto, Say, call, locks, spent
<1>6. ASSUME NEW r \in Request, OrphanExits(r) PROVE lock'[req'[q]] = q /\ losses' = losses
  BY <1>6 DEF OrphanExits, call, spent
<1>7. ASSUME NEW r \in Request, HelperDies(r) PROVE losses' = losses + 1
  BY <1>7 DEF HelperDies
<1>8. CoordinatorOrphanExits => lock'[req'[q]] = q /\ losses' = losses
  BY DEF CoordinatorOrphanExits, call, spent
<1> QED BY <1>1, <1>2, <1>3, <1>4, <1>5, <1>6, <1>7, <1>8 DEF Next, Step

\* No step undoes the loss of a helper.
LEMMA LossesGrow ==
  ASSUME Next, ~ CoordinatorHelperDies
  PROVE  losses' = losses \/ losses' = losses + 1
<1>1. ASSUME NEW p \in Proc, Start(p) \/ Throw(p) \/ Crash(p) PROVE losses' = losses
  BY <1>1 DEF Start, Submit, Get, Throw, Crash, spent
<1>2. ASSUME NEW p \in Proc, Step(p) PROVE losses' = losses
  BY <1>2
     DEF Step, ReadDurableClaim, Reserve, WriteClaimed, AcquireRequestLock, Recheck, Resume,
         Adopt, EngineMatches, EngineDrifted, EngineUnusable, Reject, RemoveAbandoned,
         WriteRejected, Promote, WritePromoting, MakeRunDirectory, WriteRunning,
         WriteInputs, Execute, WriteDiagnostics, Normalize, WriteEvidence, WriteRunRecord,
         Seal, WriteCompleted, ReadClaim, StatusFromClaim, ProbeLock, Unprobe, TakeOver,
         Reread, Relookup, Recover, WriteRecovery, Transition, Rewrite, Reconcile,
         CoordinatorBusy, Return, spent
<1> QED BY <1>1, <1>2 DEF Next, OrphanExits, HelperDies, CoordinatorOrphanExits, spent

\* A call declares an owner lost only when it finds no run.json.
LEMMA RecoverEntry ==
  ASSUME ExecutionInv, Next, ~ CoordinatorHelperDies,
         NEW q \in Proc, pc'[q] \in {"recover", "recovering"}
  PROVE  /\ req'[q] = req[q]
         /\ pc[q] \in {"recover", "recovering"} \/ (ledger[req[q]] = NoRecord /\ UNCHANGED ledger)
<1> USE DEF ExecutionInv, TypeOK
<1>1. ASSUME NEW p \in Proc, Start(p) \/ Throw(p) \/ Crash(p)
      PROVE  req'[q] = req[q] /\ pc[q] \in {"recover", "recovering"}
  BY <1>1 DEF Start, Submit, Get, Throw, Crash, Forget, Goto, Say, call
<1>2. ASSUME NEW p \in Proc, Resume(p) \/ Relookup(p)
      PROVE  /\ req'[q] = req[q]
             /\ pc[q] \in {"recover", "recovering"} \/ (ledger[req[q]] = NoRecord /\ UNCHANGED ledger)
  BY <1>2 DEF Resume, Relookup, RecoveryResult, RunJson, Goto, Say, call, store
<1>3. ASSUME NEW p \in Proc,
             \/ ReadDurableClaim(p) \/ Reserve(p) \/ WriteClaimed(p)
             \/ AcquireRequestLock(p) \/ Recheck(p) \/ Adopt(p) \/ EngineMatches(p)
             \/ EngineDrifted(p) \/ EngineUnusable(p) \/ Reject(p) \/ RemoveAbandoned(p)
             \/ WriteRejected(p) \/ Promote(p) \/ WritePromoting(p) \/ MakeRunDirectory(p)
             \/ WriteRunning(p) \/ WriteInputs(p) \/ Execute(p) \/ WriteDiagnostics(p)
      PROVE  req'[q] = req[q] /\ pc[q] \in {"recover", "recovering"}
  BY <1>3
     DEF ReadDurableClaim, Reserve, WriteClaimed, AcquireRequestLock, Recheck, Adopt,
         EngineMatches, EngineDrifted, EngineUnusable, Reject, RemoveAbandoned,
         WriteRejected, Promote, WritePromoting, MakeRunDirectory, WriteRunning,
         WriteInputs, Execute, WriteDiagnostics, Goto, Say, call
<1>4. ASSUME NEW p \in Proc,
             \/ Normalize(p) \/ WriteEvidence(p) \/ WriteRunRecord(p) \/ Seal(p)
             \/ WriteCompleted(p) \/ ReadClaim(p) \/ StatusFromClaim(p) \/ ProbeLock(p)
             \/ Unprobe(p) \/ TakeOver(p) \/ Reread(p) \/ Recover(p) \/ WriteRecovery(p)
             \/ Reconcile(p) \/ CoordinatorBusy(p) \/ Return(p)
      PROVE  req'[q] = req[q] /\ pc[q] \in {"recover", "recovering"}
  BY <1>4
     DEF Normalize, WriteEvidence, WriteRunRecord, Seal, WriteCompleted, ReadClaim,
         StatusFromClaim, ProbeLock, Unprobe, TakeOver, Reread, Recover, WriteRecovery,
         Transition, Rewrite, Reconcile, CoordinatorBusy, Return, Forget, Goto, Say, call
<1>5. ASSUME NEW r \in Request, OrphanExits(r) \/ HelperDies(r)
      PROVE  req'[q] = req[q] /\ pc[q] \in {"recover", "recovering"}
  BY <1>5 DEF OrphanExits, HelperDies, call
<1>6. CoordinatorOrphanExits => req'[q] = req[q] /\ pc[q] \in {"recover", "recovering"}
  BY DEF CoordinatorOrphanExits, call
<1> QED BY <1>1, <1>2, <1>3, <1>4, <1>5, <1>6 DEF Next, Step

\* An execution begins with the running claim and keeps its request.
LEMMA ExecutionEntry ==
  ASSUME ExecutionInv, Next, ~ CoordinatorHelperDies,
         NEW q \in Proc, pc'[q] \in Executing
  PROVE  \/ pc[q] \in Executing /\ req'[q] = req[q]
         \/ claim'[req'[q]].state = "running"
<1> USE DEF Executing
<1>1. TypeOK
  BY DEF ExecutionInv
<1>2. ASSUME NoExecutionStep PROVE pc[q] \in Executing /\ req'[q] = req[q]
  BY <1>2 DEF NoExecutionStep
<1>3. ASSUME NEW p \in Proc, ExecutionStep(p), ~ WriteRunning(p)
      PROVE  pc[q] \in Executing /\ req'[q] = req[q]
  BY <1>1, <1>3
     DEF ExecutionStep, WriteInputs, Execute, WriteDiagnostics, Normalize, WriteEvidence,
         WriteRunRecord, Goto, Say, call, TypeOK
<1>4. ASSUME NEW p \in Proc, WriteRunning(p)
      PROVE  \/ pc[q] \in Executing /\ req'[q] = req[q]
             \/ claim'[req'[q]].state = "running"
  <2> DEFINE old == Promoting(seen[p], run[p])
  <2>1. old \in Claim
    BY <1>4 DEF ExecutionInv, TypeOK, CoordinatorOK, WriteRunning
  <2>2. Running(old).state = "running"
    BY <2>1 DEF Running, Claim
  <2>3. /\ claim' = [claim EXCEPT ![req[p]] = Running(old)]
        /\ UNCHANGED req /\ pc' = [pc EXCEPT ![p] = "inputs"]
    BY <1>4 DEF WriteRunning, SetClaim, Goto
  <2> HIDE DEF old
  <2> QED BY <1>1, <2>2, <2>3 DEF TypeOK
<1> QED BY <1>1, <1>2, <1>3, <1>4, ExecutionSteps

\* With every helper alive, whoever is under the lock of a request is alone.
LEMMA LockStep ==
  ASSUME ExecutionInv, AnswerInv, Next, ~ CoordinatorHelperDies
  PROVE  LockOK'
<1>1. TypeOK /\ TypeOK'
  BY NextExecution DEF ExecutionInv
<1> SUFFICES ASSUME losses' = 0, NEW q \in Proc
             PROVE  /\ pc'[q] \in UnderLock => lock'[req'[q]] = q
                    /\ pc'[q] \in {"recover", "recovering"} => ledger'[req'[q]] = NoRecord
                    /\ pc'[q] \in Executing => claim'[req'[q]].state # "recovery_required"
  BY DEF LockOK
<1>2. losses = 0 /\ losses' = losses
  BY <1>1, LossesGrow DEF TypeOK
<1>3. \A p \in Proc : pc[p] \in UnderLock => lock[req[p]] = p
  BY <1>2 DEF AnswerInv, LockOK
<1>4. \A p \in Proc : pc[p] \in UnderLock /\ pc[q] \in UnderLock /\ req[p] = req[q] => p = q
  BY <1>3
<1>5. pc'[q] \in UnderLock => lock'[req'[q]] = q
  BY <1>2, <1>3, LockKept
<1>6. ASSUME pc'[q] \in {"recover", "recovering"} PROVE ledger'[req'[q]] = NoRecord
  <2>1. /\ req'[q] = req[q] /\ req[q] \in Request
        /\ pc[q] \in {"recover", "recovering"} \/ (ledger[req[q]] = NoRecord /\ UNCHANGED ledger)
    BY <1>1, <1>6, RecoverEntry DEF TypeOK
  <2>2. CASE pc[q] \in {"recover", "recovering"}
    <3>1. ledger[req[q]] = NoRecord
      BY <1>2, <2>2 DEF AnswerInv, LockOK
    <3>2. ASSUME NEW p \in Proc, pc[p] = "publish", req[p] = req[q] PROVE FALSE
      BY <1>4, <2>2, <3>2 DEF UnderLock, Submitting, Executing
    <3>3. ledger'[req[q]] = ledger[req[q]]
      BY <2>1, <3>2, LedgerStep
    <3> QED BY <2>1, <3>1, <3>3
  <2> QED BY <2>1, <2>2
<1>7. ASSUME pc'[q] \in Executing PROVE claim'[req'[q]].state # "recovery_required"
  <2>1. CASE pc[q] \in Executing /\ req'[q] = req[q]
    <3>1. claim[req[q]].state # "recovery_required"
      BY <1>2, <2>1 DEF AnswerInv, LockOK
    <3>2. ASSUME NEW p \in Proc, pc[p] = "recovering", req[p] = req[q] PROVE FALSE
      BY <1>4, <2>1, <3>2 DEF UnderLock, Submitting, Executing
    <3>3. ASSUME NEW p \in Proc, NEW e, claim'[req[q]] = Completed(seen[p], e)
          PROVE  claim'[req[q]].state # "recovery_required"
      BY <3>3 DEF Completed
    <3> QED BY <1>1, <2>1, <3>1, <3>2, <3>3, SettledBy DEF TypeOK
  <2> QED BY <1>7, <2>1, ExecutionEntry
<1> QED BY <1>5, <1>6, <1>7

-----------------------------------------------------------------------------
(* Answers.                                                                *)

\* The call is over and its answer stands.
KeptAnswer(q) ==
  pc[q] = "done" /\ pc'[q] = "done" /\ reply'[q] = reply[q]
    /\ req'[q] = req[q] /\ run'[q] = run[q]

\* The call ends here, with an answer that it has just found or made true.
NewAnswer(q) ==
  /\ pc'[q] = "done" /\ req'[q] = req[q]
  /\ reply'[q] = "completed" =>
       \/ /\ pc[q] \in {"seal", "sealing"} /\ run'[q] = run[q]
          /\ claim'[req[q]] = Completed(seen[q], ledger[req[q]])
       \/ /\ seen[q].state = "completed" /\ run'[q] = seen[q].run /\ UNCHANGED claim
  /\ reply'[q] = "rejected" =>
       \/ claim'[req[q]] = Rejected(seen[q]) /\ pc[q] = "rejecting"
       \/ claim[req[q]].state = "rejected" /\ UNCHANGED claim
       \/ seen[q].state = "rejected" /\ UNCHANGED claim
  /\ reply'[q] = "recovery_required" =>
       \/ claim'[req[q]] = RecoveryRequired(seen[q])
       \/ seen[q].state = "recovery_required" /\ UNCHANGED claim
  /\ reply'[q] = "immutable" =>
       \/ pc[q] = "seal" /\ ~ Accepts(claim[req[q]], Completed(seen[q], ledger[req[q]]))
       \/ pc[q] = "recover" /\ ~ Accepts(claim[req[q]], RecoveryRequired(seen[q]))

\* These are all the ways to an answer.
LEMMA AnswerSources ==
  ASSUME ExecutionInv, AnswerInv, Next, ~ CoordinatorHelperDies,
         NEW q \in Proc
  PROVE  reply'[q] = "none" \/ KeptAnswer(q) \/ NewAnswer(q)
<1> DEFINE Answered == reply'[q] = "none" \/ KeptAnswer(q) \/ NewAnswer(q)
<1>1. reply[q] # "none" => pc[q] = "done"
  BY DEF AnswerInv, AnswerOK
<1>2. TypeOK
  BY DEF ExecutionInv
<1> USE DEF KeptAnswer, TypeOK
<1>3. ASSUME NEW p \in Proc, Start(p) PROVE Answered
  BY <1>1, <1>2, <1>3 DEF Start, Submit, Get, Goto
<1>4. ASSUME NEW p \in Proc, Throw(p) \/ Crash(p) \/ Return(p) PROVE Answered
  BY <1>1, <1>2, <1>4 DEF Throw, Crash, Return, Forget, Say, call, NewAnswer
<1>5. ASSUME NEW p \in Proc,
             \/ AcquireRequestLock(p) \/ Recheck(p) \/ EngineMatches(p)
             \/ EngineDrifted(p) \/ MakeRunDirectory(p) \/ WriteRunning(p) \/ Execute(p)
             \/ WriteDiagnostics(p) \/ Normalize(p) \/ WriteEvidence(p)
             \/ WriteRunRecord(p) \/ Reread(p)
      PROVE  Answered
  BY <1>1, <1>2, <1>5
     DEF AcquireRequestLock, Recheck, EngineMatches, EngineDrifted, MakeRunDirectory,
         WriteRunning, Execute, WriteDiagnostics, Normalize, WriteEvidence, WriteRunRecord,
         Reread, Goto, call
<1>6. ASSUME NEW p \in Proc,
             \/ Reserve(p) \/ WriteClaimed(p) \/ Adopt(p) \/ EngineUnusable(p) \/ Promote(p)
             \/ WritePromoting(p) \/ WriteInputs(p) \/ ReadClaim(p) \/ ProbeLock(p)
             \/ Unprobe(p) \/ TakeOver(p) \/ CoordinatorBusy(p)
      PROVE  Answered
  BY <1>1, <1>2, <1>6
     DEF Reserve, WriteClaimed, Adopt, EngineUnusable, Promote, WritePromoting, WriteInputs,
         ReadClaim, ProbeLock, Unprobe, TakeOver, CoordinatorBusy, Goto, Say, call,
         NewAnswer
<1>7. ASSUME NEW p \in Proc,
             \/ ReadDurableClaim(p) \/ Resume(p) \/ StatusFromClaim(p) \/ Relookup(p)
      PROVE  Answered
  BY <1>1, <1>2, <1>7
     DEF ReadDurableClaim, Resume, StatusFromClaim, Relookup, RecoveryResult, OnDisk, Goto,
         Say, call, store, NewAnswer
<1>8. ASSUME NEW p \in Proc, Reject(p) \/ RemoveAbandoned(p) \/ WriteRejected(p)
      PROVE  Answered
  BY <1>1, <1>2, <1>8
     DEF Reject, RemoveAbandoned, WriteRejected, SetClaim, Goto, Say, call, NewAnswer
<1>9. ASSUME NEW p \in Proc, Seal(p) \/ Recover(p) PROVE Answered
  BY <1>1, <1>2, <1>9
     DEF Seal, Recover, Transition, OnDisk, RunJson, Sealed, Goto, Say, store, call,
         NewAnswer
<1>13. ASSUME NEW p \in Proc, WriteCompleted(p) \/ WriteRecovery(p) PROVE Answered
  BY <1>1, <1>2, <1>13
     DEF WriteCompleted, WriteRecovery, Rewrite, SetClaim, RunJson, Sealed, Say, call,
         NewAnswer
<1>10. ASSUME NEW p \in Proc, Reconcile(p) PROVE Answered
  BY <1>1, <1>2, <1>10
     DEF Reconcile, ValidRun, RunJson, Goto, Say, store, NewAnswer
<1>11. ASSUME NEW r \in Request, OrphanExits(r) \/ HelperDies(r) PROVE Answered
  BY <1>1, <1>2, <1>11 DEF OrphanExits, HelperDies, call
<1>12. CoordinatorOrphanExits => Answered
  BY <1>1, <1>2 DEF CoordinatorOrphanExits, call
<1> QED BY <1>3, <1>4, <1>5, <1>6, <1>7, <1>8, <1>9, <1>10, <1>11, <1>12, <1>13
        DEF Next, Step

\* Seals and recovery claims are refused only to a call that lost its lock.
LEMMA NeverRefused ==
  ASSUME ExecutionInv, AnswerInv, losses = 0, NEW q \in Proc
  PROVE  /\ pc[q] = "seal" => Accepts(claim[req[q]], Completed(seen[q], ledger[req[q]]))
         /\ pc[q] = "recover" => Accepts(claim[req[q]], RecoveryRequired(seen[q]))
<1>1. /\ req[q] \in Request /\ claim[req[q]] \in Claim /\ seen[q] \in Claim
      /\ claim[req[q]].state = "completed" =>
           ledger[req[q]] # NoRecord /\ claim[req[q]].seal = ledger[req[q]]
  BY DEF ExecutionInv, TypeOK, AnswerInv, SealOK
<1>2. ASSUME pc[q] = "seal"
      PROVE  Accepts(claim[req[q]], Completed(seen[q], ledger[req[q]]))
  <2>1. /\ Started(seen[q]) /\ seen[q] # NoClaim /\ seen[q].run = run[q]
    BY <1>2 DEF ExecutionInv, LocalOK, Unclaimed
  <2>2. Started(claim[req[q]])
    BY <2>1 DEF AnswerInv, SeenOK, OnDisk
  <2>3. seen[q].run # NoRun
    BY <1>1, <2>1, ClaimShape DEF ExecutionInv, LocalOK
  <2>4. claim[req[q]].digest = seen[q].digest /\ claim[req[q]].run = seen[q].run
    BY <2>1, <2>3 DEF ExecutionInv, KnownOK
  <2>5. CASE claim[req[q]].state = "completed"
    BY <1>1, <2>4, <2>5 DEF Accepts, Writable, Terminal, Completed, Claim
  <2>6. CASE claim[req[q]].state \in {"running", "recovery_required"}
    BY <2>6 DEF Accepts, Writable, Completed
  <2> QED BY <2>2, <2>5, <2>6 DEF Started
<1>3. ASSUME pc[q] = "recover"
      PROVE  Accepts(claim[req[q]], RecoveryRequired(seen[q]))
  <2>1. seen[q].state = "running"
    BY <1>3 DEF ExecutionInv, LocalOK
  <2>2. Started(claim[req[q]])
    BY <2>1 DEF AnswerInv, SeenOK, OnDisk, Started
  <2>3. claim[req[q]].state # "completed"
    BY <1>1, <1>3 DEF AnswerInv, LockOK
  <2>4. RecoveryRequired(seen[q]).state = "recovery_required"
    BY <1>1 DEF RecoveryRequired, Claim
  <2> QED BY <2>2, <2>3, <2>4 DEF Accepts, Writable, Started
<1> QED BY <1>2, <1>3

\* Answers are true when they are given, and stay true.
LEMMA AnswerStep ==
  ASSUME ExecutionInv, AnswerInv, Next, ~ CoordinatorHelperDies, exclusive
  PROVE  AnswerOK'
<1>1. TypeOK /\ TypeOK'
  BY NextExecution DEF ExecutionInv
<1> SUFFICES ASSUME NEW q \in Proc, reply'[q] # "none"
             PROVE  /\ pc'[q] = "done"
                    /\ reply'[q] = "completed" =>
                         /\ claim'[req'[q]].state = "completed"
                         /\ claim'[req'[q]].run = run'[q]
                    /\ reply'[q] = "rejected" => claim'[req'[q]].state = "rejected"
                    /\ reply'[q] = "recovery_required" => Started(claim'[req'[q]])
                    /\ losses' = 0 => reply'[q] # "immutable"
  BY DEF AnswerOK, AnswersAreDurable, OnDisk
<1>2. KeptAnswer(q) \/ NewAnswer(q)
  BY AnswerSources
<1>3. pc'[q] = "done" /\ req'[q] = req[q] /\ req[q] \in Request
  BY <1>1, <1>2 DEF KeptAnswer, NewAnswer, TypeOK
<1>4. Follows(claim[req[q]], claim'[req[q]])
  BY <1>3, ClaimsFollow
<1>5. Terminal(claim[req[q]]) => claim'[req[q]] = claim[req[q]]
  BY <1>4 DEF Follows, Terminal, NoClaim, SlotReserved
<1>6. Started(claim[req[q]]) => Started(claim'[req[q]])
  BY <1>4 DEF Follows, Started, NoClaim, SlotReserved
<1>7. losses' = 0 => losses = 0
  BY <1>1, LossesGrow DEF TypeOK
<1>8. CASE KeptAnswer(q)
  <2>1. reply'[q] = reply[q] /\ run'[q] = run[q]
    BY <1>8 DEF KeptAnswer
  <2> QED BY <1>3, <1>5, <1>6, <1>7, <2>1
          DEF AnswerInv, AnswerOK, AnswersAreDurable, OnDisk, Terminal
<1>9. CASE NewAnswer(q)
  <2>1. /\ seen[q] \in Claim /\ WellFormed(seen[q])
        /\ Terminal(seen[q]) => claim[req[q]] = seen[q]
        /\ Started(seen[q]) => Started(claim[req[q]])
    BY <1>1 DEF TypeOK, ExecutionInv, LocalOK, AnswerInv, SeenOK, OnDisk
  <2>2. ASSUME reply'[q] = "completed"
        PROVE  claim'[req[q]].state = "completed" /\ claim'[req[q]].run = run'[q]
    <3>1. CASE /\ pc[q] \in {"seal", "sealing"} /\ run'[q] = run[q]
               /\ claim'[req[q]] = Completed(seen[q], ledger[req[q]])
      BY <3>1 DEF ExecutionInv, LocalOK, Completed
    <3>2. CASE seen[q].state = "completed" /\ run'[q] = seen[q].run /\ UNCHANGED claim
      BY <2>1, <3>2 DEF Terminal
    <3> QED BY <1>9, <2>2, <3>1, <3>2 DEF NewAnswer
  <2>3. ASSUME reply'[q] = "rejected" PROVE claim'[req[q]].state = "rejected"
    <3>1. CASE claim'[req[q]] = Rejected(seen[q]) /\ pc[q] = "rejecting"
      BY <2>1, <3>1 DEF Rejected, Claim
    <3>2. CASE claim[req[q]].state = "rejected" /\ UNCHANGED claim
      BY <3>2
    <3>3. CASE seen[q].state = "rejected" /\ UNCHANGED claim
      BY <2>1, <3>3 DEF Terminal
    <3> QED BY <1>9, <2>3, <3>1, <3>2, <3>3 DEF NewAnswer
  <2>4. ASSUME reply'[q] = "recovery_required" PROVE Started(claim'[req[q]])
    <3>1. CASE claim'[req[q]] = RecoveryRequired(seen[q])
      BY <2>1, <3>1 DEF RecoveryRequired, Claim, Started
    <3>2. CASE seen[q].state = "recovery_required" /\ UNCHANGED claim
      BY <2>1, <3>2 DEF Started
    <3> QED BY <1>9, <2>4, <3>1, <3>2 DEF NewAnswer
  <2>5. losses' = 0 => reply'[q] # "immutable"
    BY <1>7, <1>9, NeverRefused DEF NewAnswer
  <2> QED BY <1>3, <2>2, <2>3, <2>4, <2>5
<1> QED BY <1>2, <1>8, <1>9

-----------------------------------------------------------------------------
\* Nothing is read, locked or answered at first.
LEMMA InitAnswer == Init => AnswerInv
<1> SUFFICES ASSUME Init PROVE AnswerInv
  OBVIOUS
<1>1. FilesOK
  BY DEF Init, FilesOK, Executing
<1>2. SealOK
  BY DEF Init, SealOK, NoClaim
<1>3. SeenOK
  BY DEF Init, SeenOK, NoClaim, Terminal, Started
<1>4. LockOK
  BY DEF Init, LockOK, UnderLock, Submitting, InCoordinator, Replacing, Executing
<1>5. AnswerOK
  BY DEF Init, AnswerOK, AnswersAreDurable
<1> QED BY <1>1, <1>2, <1>3, <1>4, <1>5 DEF AnswerInv

\* A step that changes nothing keeps the invariant.
LEMMA StutterAnswer == AnswerInv /\ UNCHANGED vars => AnswerInv'
BY DEF vars, AnswerInv, FilesOK, SealOK, SeenOK, LockOK, AnswerOK, AnswersAreDurable, OnDisk

\* The artifacts, what calls have read, the locks and the answers agree in
\* every behaviour, while the coordinator's operations exclude each other.
THEOREM AnswerInvariant == Spec => [](exclusive => AnswerInv)
<1>1. ASSUME ExecutionInv, IdentityInv, AnswerInv, exclusive, Next, ~ CoordinatorHelperDies
      PROVE  AnswerInv'
  BY <1>1, FilesStep, SealStep, SeenStep, LockStep, AnswerStep DEF AnswerInv
<1>2. /\ exclusive => ExecutionInv
      /\ exclusive => IdentityInv
      /\ exclusive => AnswerInv
      /\ [Next]_vars
      => (exclusive => AnswerInv)'
  BY <1>1, ExclusionIsLostForGood, StutterAnswer
<1> QED BY <1>2, InitAnswer, ExecutionInvariant, IdentityInvariant, PTL DEF Spec

\* From its first appearance run.json is whole: the run of the started claim,
\* for the claimed bytes, with every artifact in place, sealed by completion,
\* as long as no helper of the coordinator's lock is lost.
THEOREM CommittedRunsAreWhole == Spec => []RunJsonIsWhole
<1>1. (exclusive => IdentityInv) /\ (exclusive => AnswerInv) => RunJsonIsWhole
  BY DEF IdentityInv, LedgerOK, AnswerInv, SealOK, RunJsonIsWhole, ValidRun
<1> QED BY <1>1, IdentityInvariant, AnswerInvariant, PTL

\* The coordinator's helper is one of those that losses counts.
LossesCounted == losses \in Nat /\ (losses = 0 => exclusive)

\* So it is not lost while none is.
LEMMA HelpersCounted == Spec => []LossesCounted
<1>1. Init => LossesCounted
  BY DEF Init, LossesCounted
<1>2. LossesCounted /\ [Next]_vars => LossesCounted'
  <2> SUFFICES ASSUME LossesCounted, [Next]_vars PROVE LossesCounted'
    OBVIOUS
  <2>1. CASE CoordinatorHelperDies
    BY <2>1 DEF CoordinatorHelperDies, LossesCounted
  <2>2. CASE Next /\ ~ CoordinatorHelperDies
    <3>1. losses' = losses \/ losses' = losses + 1
      BY <2>2, LossesGrow
    <3>2. exclusive' = exclusive
      BY <2>2, ExclusionStays
    <3> QED BY <3>1, <3>2 DEF LossesCounted
  <2>3. CASE UNCHANGED vars
    BY <2>3 DEF vars, LossesCounted
  <2> QED BY <2>1, <2>2, <2>3
<1> QED BY <1>1, <1>2, PTL DEF Spec

\* While no lock helper is lost, a claim is marked recovery_required only when
\* no live call executes the request.
THEOREM RecoveryNeedsALostOwner == Spec => []RecoveryMeansOwnerLost
<1>1. (exclusive => AnswerInv) /\ LossesCounted => RecoveryMeansOwnerLost
  BY DEF AnswerInv, LockOK, LossesCounted, RecoveryMeansOwnerLost, Owns
<1> QED BY <1>1, AnswerInvariant, HelpersCounted, PTL

\* Every answer is backed by the durable state, however its call raced with
\* others and whatever request locks were lost, and the transition check
\* refuses no call that kept its lock; all of it as long as no helper of the
\* coordinator's lock is lost.
THEOREM AnswersStayDurable == Spec => []AnswersAreDurable
<1>1. (exclusive => AnswerInv) => AnswersAreDurable
  BY DEF AnswerInv, AnswerOK, AnswersAreDurable
<1> QED BY <1>1, AnswerInvariant, PTL

-----------------------------------------------------------------------------
(* The protocol implements RequestLifecycle.                               *)

\* The phases of the claims that a life-cycle step may meet.
LEMMA Phases ==
  ASSUME NEW c \in Claim, WellFormed(c)
  PROVE  /\ SlotReserved(c) => PhaseOf(c) = "pending"
         /\ c.state = "running" => PhaseOf(c) = "started"
         /\ c.state \in {"absent", "recovery_required", "completed", "rejected"} =>
              PhaseOf(c) = c.state
BY DEF PhaseOf, SlotReserved

\* The initial store shows the initial life-cycle.
LEMMA InitRefines == Init => Lifecycle!LifecycleInit
<1>1. PhaseOf(NoClaim) = "absent" /\ NoClaim.digest = NoDigest
  BY DEF PhaseOf, NoClaim, SlotReserved
<1> QED BY <1>1 DEF Init, Lifecycle!LifecycleInit

\* A step rewrites at most one claim, and then neither a run.json nor the count
\* of executions.
LEMMA OneClaim ==
  ASSUME ExecutionInv, Next, ~ CoordinatorHelperDies, claim' # claim
  PROVE  /\ \E r \in Request, new \in Claim : claim' = [claim EXCEPT ![r] = new]
         /\ UNCHANGED <<ledger, launches>>
<1>1. PICK p \in Proc :
        \/ WriteClaimed(p) \/ WriteRejected(p) \/ WritePromoting(p)
        \/ WriteRunning(p) \/ WriteCompleted(p) \/ WriteRecovery(p)
  BY ClaimWriters
<1>2. TypeOK /\ TypeOK' /\ req[p] \in Request
  BY NextExecution DEF ExecutionInv, TypeOK
<1>3. /\ \E new : claim' = [claim EXCEPT ![req[p]] = new]
      /\ UNCHANGED <<ledger, launches>>
  BY <1>1
     DEF WriteClaimed, WriteRejected, WritePromoting, WriteRunning, WriteCompleted,
         WriteRecovery, Rewrite, SetClaim
<1>4. PICK new : claim' = [claim EXCEPT ![req[p]] = new]
  BY <1>3
<1>5. claim'[req[p]] = new /\ claim'[req[p]] \in Claim
  BY <1>2, <1>4 DEF TypeOK
<1> QED BY <1>2, <1>3, <1>4, <1>5

\* The rewrite of a claim is a step of its request's life-cycle, or none.
LEMMA ClaimRefines ==
  ASSUME ExecutionInv, AnswerInv, Next, ~ CoordinatorHelperDies, claim' # claim
  PROVE  Lifecycle!LifecycleNext \/ UNCHANGED Lifecycle!lifecycle
<1>1. TypeOK /\ TypeOK' /\ SealOK'
  BY NextExecution, SealStep DEF ExecutionInv
<1>2. PICK r \in Request, new \in Claim : claim' = [claim EXCEPT ![r] = new]
  BY OneClaim
<1>3. UNCHANGED <<ledger, launches>>
  BY OneClaim
<1> DEFINE old == claim[r]
<1>4. /\ old \in Claim /\ WellFormed(old) /\ WellFormed(new) /\ claim'[r] = new
      /\ Follows(old, new)
  BY <1>1, <1>2, ClaimsFollow DEF TypeOK
<1>5. /\ [s \in Request |-> PhaseOf(claim'[s])] =
           [[s \in Request |-> PhaseOf(claim[s])] EXCEPT ![r] = PhaseOf(new)]
      /\ [s \in Request |-> claim'[s].digest] =
           [[s \in Request |-> claim[s].digest] EXCEPT ![r] = new.digest]
  BY <1>1, <1>2 DEF TypeOK
<1>6. new.digest = old.digest =>
        [s \in Request |-> claim'[s].digest] = [s \in Request |-> claim[s].digest]
  BY <1>1, <1>2 DEF TypeOK
<1>7. PhaseOf(new) = PhaseOf(old) =>
        [s \in Request |-> PhaseOf(claim'[s])] = [s \in Request |-> PhaseOf(claim[s])]
  BY <1>1, <1>2 DEF TypeOK
<1> HIDE DEF old
<1>8. CASE new = old
  BY <1>1, <1>2, <1>4, <1>8 DEF TypeOK, old
<1>9. ASSUME old = NoClaim, NEW d \in Digest, new = Claimed(d)
      PROVE  Lifecycle!ClaimRequest(r, d)
  <2>1. PhaseOf(old) = "absent" /\ PhaseOf(new) = "pending" /\ new.digest = d
    BY <1>9 DEF PhaseOf, NoClaim, Claimed, SlotReserved
  <2> QED BY <1>3, <1>5, <2>1 DEF Lifecycle!ClaimRequest, Lifecycle!Advance, old
<1>10. ASSUME SlotReserved(old), new.digest = old.digest, SlotReserved(new)
       PROVE  UNCHANGED Lifecycle!lifecycle
  BY <1>3, <1>4, <1>6, <1>7, <1>10, Phases DEF Lifecycle!lifecycle
<1>11. ASSUME SlotReserved(old), new.digest = old.digest, new.state = "running"
       PROVE  Lifecycle!StartRequest(r)
  <2>1. PhaseOf(old) = "pending" /\ PhaseOf(new) = "started"
    BY <1>4, <1>11, Phases
  <2> QED BY <1>3, <1>5, <1>6, <1>11, <2>1
          DEF Lifecycle!StartRequest, Lifecycle!Advance, old
<1>12. ASSUME SlotReserved(old), new.digest = old.digest, new.state = "rejected"
       PROVE  Lifecycle!RejectRequest(r)
  <2>1. PhaseOf(old) = "pending" /\ PhaseOf(new) = "rejected"
    BY <1>4, <1>12, Phases
  <2> QED BY <1>3, <1>5, <1>6, <1>12, <2>1
          DEF Lifecycle!RejectRequest, Lifecycle!Advance, old
<1>13. ASSUME old.state \in {"running", "recovery_required"}, new.digest = old.digest,
              new.state = "completed"
       PROVE  Lifecycle!Complete(r)
  <2>1. PhaseOf(old) \in {"started", "recovery_required"} /\ PhaseOf(new) = "completed"
    BY <1>4, <1>13, Phases
  <2>2. ledger[r] # NoRecord
    BY <1>1, <1>3, <1>4, <1>13 DEF SealOK
  <2> QED BY <1>3, <1>5, <1>6, <1>13, <2>1, <2>2
          DEF Lifecycle!Complete, Lifecycle!Advance, old
<1>14. ASSUME old.state = "running", new.digest = old.digest,
              new.state = "recovery_required"
       PROVE  Lifecycle!LoseOwner(r)
  <2>1. PhaseOf(old) = "started" /\ PhaseOf(new) = "recovery_required"
    BY <1>4, <1>14, Phases
  <2> QED BY <1>3, <1>5, <1>6, <1>14, <2>1
          DEF Lifecycle!LoseOwner, Lifecycle!Advance, old
<1>15. ASSUME old.state = "recovery_required", new.digest = old.digest,
              new.state = "recovery_required"
       PROVE  UNCHANGED Lifecycle!lifecycle
  BY <1>3, <1>4, <1>6, <1>7, <1>15, Phases DEF Lifecycle!lifecycle
<1> QED BY <1>4, <1>8, <1>9, <1>10, <1>11, <1>12, <1>13, <1>14, <1>15
        DEF Follows, Lifecycle!LifecycleNext, old

\* Starting the solver is the one execution of a started request.
LEMMA ExecuteRefines ==
  ASSUME ExecutionInv, AnswerInv, NEW p \in Proc, Execute(p)
  PROVE  Lifecycle!ExecuteOnce(req[p])
<1> DEFINE c == claim[req[p]]
<1>1. /\ TypeOK /\ req[p] \in Request /\ c \in Claim /\ WellFormed(c)
      /\ pc[p] = "execute" /\ UNCHANGED <<claim, ledger>>
      /\ launches' = [launches EXCEPT ![req[p]] = @ + 1]
  BY DEF ExecutionInv, TypeOK, Execute, store
<1>2. Started(c) /\ ledger[req[p]] = NoRecord /\ launches[req[p]] = 0
  BY <1>1 DEF ExecutionInv, OwnerOK, LaunchOK, AnswerInv, FilesOK, Executing
<1>3. c.state \in {"running", "recovery_required"}
  BY <1>1, <1>2 DEF AnswerInv, SealOK, Started
<1>4. PhaseOf(c) \in {"started", "recovery_required"}
  BY <1>1, <1>3, Phases
<1> QED BY <1>1, <1>2, <1>4 DEF TypeOK, Lifecycle!ExecuteOnce

\* run.json commits the result of that execution.
LEMMA CommitRefines ==
  ASSUME ExecutionInv, AnswerInv, Next, ~ CoordinatorHelperDies, ledger' # ledger
  PROVE  Lifecycle!LifecycleNext
<1>1. TypeOK /\ TypeOK'
  BY NextExecution DEF ExecutionInv
<1>2. PICK r \in Request : ledger'[r] # ledger[r]
  BY <1>1 DEF TypeOK
<1>3. PICK p \in Proc :
        /\ pc[p] = "publish" /\ UNCHANGED claim /\ req[p] = r /\ ledger[r] = NoRecord
        /\ ledger'[r] \in RunRecord
  BY <1>2, LedgerStep
<1>4. PICK q \in Proc : WriteRunRecord(q)
  BY LedgerWriters
<1>5. req[q] = r /\ UNCHANGED launches /\ ledger' = [ledger EXCEPT ![r] = ledger'[r]]
  BY <1>1, <1>2, <1>4 DEF WriteRunRecord, TypeOK
<1>6. Started(claim[r]) /\ launches[r] = 1
  BY <1>3 DEF ExecutionInv, OwnerOK, AnswerInv, FilesOK, Executing
<1>7. claim[r] \in Claim /\ WellFormed(claim[r]) /\ claim[r].state # "completed"
  BY <1>1, <1>3 DEF TypeOK, AnswerInv, SealOK
<1>8. PhaseOf(claim[r]) \in {"started", "recovery_required"}
  BY <1>6, <1>7, Phases DEF Started
<1>9. Lifecycle!Commit(r, ledger'[r])
  BY <1>3, <1>5, <1>6, <1>8 DEF Lifecycle!Commit
<1> QED BY <1>3, <1>9 DEF Lifecycle!LifecycleNext

\* Every step is a step of the life-cycle of one request, or shows nothing.
LEMMA NextRefines ==
  ASSUME ExecutionInv, AnswerInv, [Next]_vars, exclusive'
  PROVE  [Lifecycle!LifecycleNext]_(Lifecycle!lifecycle)
<1> SUFFICES Lifecycle!LifecycleNext \/ UNCHANGED Lifecycle!lifecycle
  OBVIOUS
<1>1. CASE UNCHANGED <<claim, ledger, launches>>
  BY <1>1 DEF Lifecycle!lifecycle
<1>2. (Next /\ ~ CoordinatorHelperDies) \/ UNCHANGED vars
  BY ExclusionIsLostForGood
<1>3. CASE Next /\ ~ CoordinatorHelperDies /\ claim' # claim
  BY <1>3, ClaimRefines
<1>4. CASE Next /\ ~ CoordinatorHelperDies /\ ledger' # ledger
  BY <1>4, CommitRefines
<1>5. CASE Next /\ ~ CoordinatorHelperDies /\ launches' # launches
  <2>1. PICK p \in Proc : Execute(p)
    BY <1>5, LaunchWriters
  <2>2. req[p] \in Request
    BY DEF ExecutionInv, TypeOK
  <2> QED BY <2>1, <2>2, ExecuteRefines DEF Lifecycle!LifecycleNext
<1> QED BY <1>1, <1>2, <1>3, <1>4, <1>5 DEF vars

\* The 2.1 protocol implements the life-cycle it promises for each request id,
\* claimed once, executed once, committed once, and then completed or rejected,
\* in every behaviour that loses no helper of the coordinator's lock.
THEOREM ProtocolImplementsLifecycle == Spec /\ []exclusive => ImplementsLifecycle
<1>1. /\ exclusive => ExecutionInv
      /\ exclusive => AnswerInv
      /\ exclusive /\ exclusive'
      /\ [Next]_vars
      => [Lifecycle!LifecycleNext]_(Lifecycle!lifecycle)
  BY NextRefines
<1> QED BY <1>1, InitRefines, ExecutionInvariant, AnswerInvariant, PTL
        DEF Spec, ImplementsLifecycle, Lifecycle!LifecycleSpec

-----------------------------------------------------------------------------
(* Capacity.                                                               *)

\* Directories come and go in two actions only.
LEMMA DirectoryWriters ==
  ASSUME Next, ~ CoordinatorHelperDies
  PROVE  UNCHANGED dirs \/ \E p \in Proc : RemoveAbandoned(p) \/ MakeRunDirectory(p)
<1>1. ASSUME NEW p \in Proc, Start(p) \/ Throw(p) \/ Crash(p) PROVE UNCHANGED dirs
  BY <1>1 DEF Start, Submit, Get, Throw, Crash, store
<1>2. ASSUME NEW r \in Request, OrphanExits(r) \/ HelperDies(r) PROVE UNCHANGED dirs
  BY <1>2 DEF OrphanExits, HelperDies, store
<1>3. CoordinatorOrphanExits => UNCHANGED dirs
  BY DEF CoordinatorOrphanExits, store
<1>4. ASSUME NEW p \in Proc, Step(p)
      PROVE  UNCHANGED dirs \/ RemoveAbandoned(p) \/ MakeRunDirectory(p)
  BY <1>4
     DEF Step, ReadDurableClaim, Reserve, WriteClaimed, AcquireRequestLock, Recheck, Resume,
         Adopt, EngineMatches, EngineDrifted, EngineUnusable, Reject, WriteRejected, Promote,
         WritePromoting, WriteRunning, WriteInputs, Execute, WriteDiagnostics, Normalize,
         WriteEvidence, WriteRunRecord, Seal, WriteCompleted, ReadClaim, StatusFromClaim,
         ProbeLock, Unprobe, TakeOver, Reread, Relookup, Recover, WriteRecovery, Transition,
         Rewrite, Reconcile, CoordinatorBusy, Return, store
<1> QED BY <1>1, <1>2, <1>3, <1>4 DEF Next

\* Fewer reserving claims and the same directories use no more slots.
LEMMA FewerClaims ==
  ASSUME TypeOK, SlotsOK, UNCHANGED dirs,
         ReservingClaims(claim', dirs') \subseteq ReservingClaims(claim, dirs)
  PROVE  SlotsOK'
<1> DEFINE R == ReservingClaims(claim, dirs)
           S == ReservingClaims(claim', dirs')
<1>1. IsFiniteSet(S) /\ Cardinality(R) \in Nat /\ Cardinality(S) \in Nat
      /\ Cardinality(S) <= Cardinality(R)
  BY NoMore DEF SlotsOK
<1>2. Cardinality(dirs) \in Nat /\ Cardinality(dirs) + Cardinality(R) <= MaxRuns
  BY FS_CardinalityType DEF SlotsOK, UsedSlots
<1>3. Cardinality(dirs) + Cardinality(S) <= MaxRuns
  BY <1>1, <1>2, ProtocolConstants
<1> QED BY <1>1, <1>3 DEF SlotsOK, UsedSlots

\* The winner of an election writes its claim on a count that still is right.
LEMMA WriteClaimedSlots ==
  ASSUME ExecutionInv, CapacityOK, NEW p \in Proc, WriteClaimed(p)
  PROVE  SlotsOK'
<1> DEFINE R == ReservingClaims(claim, dirs)
           S == ReservingClaims(claim', dirs')
           new == Claimed(digest[p])
<1>1. /\ TypeOK /\ req[p] \in Request /\ digest[p] \in Digest /\ UNCHANGED dirs
      /\ claim' = [claim EXCEPT ![req[p]] = new] /\ UsedSlots(claim, dirs) < MaxRuns
  BY DEF ExecutionInv, TypeOK, LocalOK, Preparing, CapacityOK, CountOK, WriteClaimed,
         SetClaim, CapacityLeft
<1>2. new \in Claim
  BY <1>1, ClaimedValues
<1> HIDE DEF new
<1>3. S \subseteq R \cup {req[p]}
  BY <1>1, <1>2, ReservingKept DEF TypeOK
<1>4. IsFiniteSet(S) /\ Cardinality(R) \in Nat /\ Cardinality(S) \in Nat
      /\ Cardinality(S) <= Cardinality(R) + 1
  BY <1>3, AtMostOneMore DEF CapacityOK, SlotsOK
<1>5. Cardinality(dirs) \in Nat /\ Cardinality(dirs) + Cardinality(R) < MaxRuns
  BY <1>1, FS_CardinalityType DEF CapacityOK, SlotsOK, UsedSlots
<1>6. Cardinality(dirs) + Cardinality(S) <= MaxRuns
  BY <1>4, <1>5, ProtocolConstants
<1>7. IsFiniteSet(dirs)
  BY DEF CapacityOK, SlotsOK
<1> QED BY <1>1, <1>4, <1>6, <1>7 DEF SlotsOK, UsedSlots

\* A new directory takes the slot that its promoting claim reserved.
LEMMA MakeRunDirectorySlots ==
  ASSUME ExecutionInv, IdentityInv, SlotsOK, NEW p \in Proc, MakeRunDirectory(p)
  PROVE  SlotsOK'
<1> DEFINE R == ReservingClaims(claim, dirs)
           S == ReservingClaims(claim', dirs')
<1>1. pc[p] = "mkdir" /\ UNCHANGED claim /\ dirs' = dirs \cup {run[p]}
  BY DEF MakeRunDirectory
<1>2. /\ TypeOK /\ req[p] \in Request /\ run[p] \in RunId
      /\ claim[req[p]].state = "promoting" /\ claim[req[p]].run = run[p]
  <2>1. claim[req[p]] = Promoting(seen[p], run[p])
    BY <1>1 DEF ExecutionInv, CoordinatorOK
  <2>2. run[p] \in RunId
    BY <1>1 DEF ExecutionInv, LocalOK, Promotable
  <2> QED BY <2>1, <2>2 DEF ExecutionInv, TypeOK, Promoting
<1>3. \A r \in Request : claim[r].run = run[p] => r = req[p]
  BY <1>2 DEF IdentityInv, RunIdOK
<1>4. CASE run[p] \in dirs
  <2>1. dirs' = dirs
    BY <1>1, <1>4
  <2> QED BY <1>1, <2>1 DEF SlotsOK
<1>5. CASE run[p] \notin dirs
  <2>1. S = ReservingClaims(claim, dirs \cup {run[p]})
    BY <1>1
  <2>2. req[p] \in R /\ req[p] \notin S /\ S \subseteq R
    <3>1. req[p] \in R
      BY <1>2, <1>5, ReservingValues DEF TypeOK
    <3>2. req[p] \notin S
      BY <1>2, <2>1, ReservingValues DEF TypeOK
    <3>3. claim \in [Request -> Claim] /\ dirs \subseteq RunId
      BY <1>2 DEF TypeOK
    <3>4. ReservingClaims(claim, dirs \cup {run[p]}) \subseteq ReservingClaims(claim, dirs)
      <4>1. req[p] \in Request
        BY <1>2
      <4> QED BY <4>1, <1>3, <3>3 DEF ReservingClaims, NonReserving
    <3> QED BY <2>1, <3>1, <3>2, <3>4
  <2>3. IsFiniteSet(S) /\ Cardinality(R) \in Nat /\ Cardinality(S) \in Nat
        /\ Cardinality(S) + 1 <= Cardinality(R)
    BY <2>2, OneLess DEF SlotsOK
  <2>4. IsFiniteSet(dirs') /\ Cardinality(dirs') = Cardinality(dirs) + 1
        /\ Cardinality(dirs) \in Nat
    BY <1>1, <1>5, FS_AddElement, FS_CardinalityType DEF SlotsOK
  <2>5. Cardinality(dirs) + Cardinality(R) <= MaxRuns
    BY DEF SlotsOK, UsedSlots
  <2>6. Cardinality(dirs') + Cardinality(S) <= MaxRuns
    BY <2>3, <2>4, <2>5, ProtocolConstants
  <2> QED BY <2>3, <2>4, <2>6 DEF SlotsOK, UsedSlots
<1> QED BY <1>4, <1>5

\* The directory of an abandoned promotion gives its slot back to its claim.
LEMMA RemoveAbandonedSlots ==
  ASSUME ExecutionInv, IdentityInv, SlotsOK, NEW p \in Proc, RemoveAbandoned(p), dirs' # dirs
  PROVE  SlotsOK'
<1> DEFINE R == ReservingClaims(claim, dirs)
           S == ReservingClaims(claim', dirs')
           u == seen[p].run
<1>1. /\ TypeOK /\ req[p] \in Request /\ UNCHANGED claim /\ dirs' = dirs \ {u} /\ u \in dirs
      /\ claim[req[p]] = seen[p] /\ seen[p].state = "promoting"
  <2>1. pc[p] = "cleanup" /\ UNCHANGED claim /\ dirs' = dirs \ {u}
    BY DEF RemoveAbandoned
  <2>2. claim[req[p]] = seen[p] /\ seen[p].state = "promoting"
    BY <2>1 DEF ExecutionInv, CoordinatorOK
  <2>3. TypeOK /\ req[p] \in Request
    BY <2>1 DEF ExecutionInv, TypeOK
  <2> HIDE DEF u
  <2>4. u \in dirs
    BY <2>1
  <2> QED BY <2>1, <2>2, <2>3, <2>4
<1>2. u \in RunId
  BY <1>1, ClaimShape DEF TypeOK
<1>3. claim[req[p]].run = u
  BY <1>1
<1>4. \A r \in Request : claim[r].run = u => r = req[p]
  BY <1>1, <1>2, <1>3 DEF IdentityInv, RunIdOK
<1> HIDE DEF u
<1>5. S \subseteq R \cup {req[p]}
  BY <1>1, <1>4, ReservingDirectories DEF TypeOK
<1>6. IsFiniteSet(S) /\ Cardinality(R) \in Nat /\ Cardinality(S) \in Nat
      /\ Cardinality(S) <= Cardinality(R) + 1
  BY <1>5, AtMostOneMore DEF SlotsOK
<1>7. IsFiniteSet(dirs') /\ Cardinality(dirs') \in Nat /\ Cardinality(dirs) \in Nat
      /\ Cardinality(dirs') + 1 <= Cardinality(dirs)
  BY <1>1, OneLess DEF SlotsOK
<1>8. Cardinality(dirs) + Cardinality(R) <= MaxRuns
  BY DEF SlotsOK, UsedSlots
<1>9. Cardinality(dirs') + Cardinality(S) <= MaxRuns
  BY <1>6, <1>7, <1>8, ProtocolConstants
<1> QED BY <1>6, <1>7, <1>9 DEF SlotsOK, UsedSlots

\* A rewrite of a claim that reserves less than the old one uses no more slots.
LEMMA RewriteSlots ==
  ASSUME TypeOK, SlotsOK, UNCHANGED dirs, NEW r \in Request, NEW new \in Claim,
         claim' = [claim EXCEPT ![r] = new],
         \/ new.state = "rejected"
         \/ claim[r].state = "claimed"
         \/ /\ claim[r].state = "promoting" \/ Started(claim[r])
            /\ new.state = "promoting" \/ Started(new)
            /\ new.run = claim[r].run
  PROVE  SlotsOK'
<1>1. ReservingClaims(claim', dirs) \subseteq ReservingClaims(claim, dirs)
  BY ReservingRewrite DEF TypeOK
<1> QED BY <1>1, FewerClaims

\* No step of any call lets the storage exceed its limit.
LEMMA SlotsStep ==
  ASSUME ExecutionInv, IdentityInv, CapacityOK, Next, ~ CoordinatorHelperDies
  PROVE  SlotsOK'
<1>1. TypeOK /\ TypeOK' /\ SlotsOK
  BY NextExecution DEF ExecutionInv, CapacityOK
<1>2. CASE UNCHANGED <<claim, dirs>>
  BY <1>1, <1>2 DEF SlotsOK
<1>3. CASE dirs' # dirs
  BY <1>1, <1>3, DirectoryWriters, RemoveAbandonedSlots, MakeRunDirectorySlots
<1>4. ASSUME claim' # claim, UNCHANGED dirs PROVE SlotsOK'
  <2>1. PICK p \in Proc :
          \/ WriteClaimed(p) \/ WriteRejected(p) \/ WritePromoting(p)
          \/ WriteRunning(p) \/ WriteCompleted(p) \/ WriteRecovery(p)
    BY <1>4, ClaimWriters
  <2>2. /\ req[p] \in Request /\ claim[req[p]] \in Claim /\ seen[p] \in Claim
        /\ WellFormed(claim[req[p]]) /\ WellFormed(seen[p])
    BY <1>1 DEF TypeOK, ExecutionInv, LocalOK
  <2>3. CASE WriteClaimed(p)
    BY <2>3, WriteClaimedSlots
  <2>4. CASE WriteRejected(p)
    <3>1. claim' = [claim EXCEPT ![req[p]] = Rejected(seen[p])]
      BY <2>4 DEF WriteRejected, SetClaim
    <3>2. Rejected(seen[p]) \in Claim /\ Rejected(seen[p]).state = "rejected"
      BY <2>2 DEF Rejected, Claim, ClaimState
    <3> QED BY <1>1, <1>4, <2>2, <3>1, <3>2, RewriteSlots
  <2>5. CASE WritePromoting(p)
    <3> DEFINE new == Promoting(seen[p], run[p])
    <3>1. /\ claim' = [claim EXCEPT ![req[p]] = new] /\ claim[req[p]] = seen[p]
          /\ pc[p] = "promoting"
      BY <2>5 DEF WritePromoting, SetClaim, ExecutionInv, CoordinatorOK
    <3>2. /\ SlotReserved(seen[p]) /\ run[p] \in RunId
          /\ seen[p].state = "promoting" => run[p] = seen[p].run
      BY <3>1 DEF ExecutionInv, LocalOK, KnownOK, Reserving, Replacing, Promotable
    <3>3. new \in Claim /\ new.state = "promoting" /\ new.run = run[p]
      BY <2>2, <3>2, PromotingValues
    <3> HIDE DEF new
    <3> QED BY <1>1, <1>4, <2>2, <3>1, <3>2, <3>3, RewriteSlots DEF SlotReserved
  <2>6. CASE WriteRunning(p)
    <3> DEFINE old == Promoting(seen[p], run[p])
    <3>1. claim[req[p]] = old /\ claim' = [claim EXCEPT ![req[p]] = Running(old)]
      BY <2>6 DEF ExecutionInv, CoordinatorOK, WriteRunning, SetClaim
    <3>2. old.state = "promoting"
      BY DEF Promoting
    <3> HIDE DEF old
    <3>3. Running(old) \in Claim /\ Started(Running(old)) /\ Running(old).run = old.run
      BY <2>2, <3>1, <3>2, RunningValues
    <3> QED BY <1>1, <1>4, <2>2, <3>1, <3>2, <3>3, RewriteSlots
  <2>7. CASE WriteCompleted(p) \/ WriteRecovery(p)
    <3>1. /\ pc[p] \in {"sealing", "recovering"}
          /\ Started(seen[p]) /\ seen[p] # NoClaim /\ seen[p].run # NoRun
      BY <2>2, <2>7, ClaimShape
         DEF WriteCompleted, WriteRecovery, ExecutionInv, LocalOK, Unclaimed, Started
    <3>2. claim[req[p]].run = seen[p].run /\ Started(claim[req[p]])
      BY <3>1 DEF ExecutionInv, KnownOK, CoordinatorOK, Started
    <3>3. PICK new : /\ claim' = [claim EXCEPT ![req[p]] = new]
                     /\ new \in {Completed(seen[p], RunJson(p)), RecoveryRequired(seen[p])}
      BY <2>7 DEF WriteCompleted, WriteRecovery, Rewrite, Sealed, SetClaim
    <3>4. new \in Claim
      BY <1>1, <2>2, <3>3 DEF TypeOK
    <3>5. new.run = seen[p].run /\ new.state \in {"completed", "recovery_required"}
      BY <2>2, <3>3 DEF Completed, RecoveryRequired, Claim
    <3> QED BY <1>1, <1>4, <2>2, <3>2, <3>3, <3>4, <3>5, RewriteSlots DEF Started
  <2> QED BY <2>1, <2>3, <2>4, <2>5, <2>6, <2>7
<1> QED BY <1>2, <1>3, <1>4

\* Nobody writes between a count and the claim that relies on it.
LEMMA CountStep ==
  ASSUME ExecutionInv, CapacityOK, Next, ~ CoordinatorHelperDies
  PROVE  CountOK'
<1>1. TypeOK /\ TypeOK' /\ CoordinatorOK /\ CoordinatorOK'
  BY NextExecution DEF ExecutionInv
<1> SUFFICES ASSUME NEW q \in Proc, pc'[q] = "counted"
             PROVE  UNCHANGED <<claim, dirs>> /\ CapacityLeft(claim, dirs)
  BY DEF CountOK
<1>2. glock' = q
  BY <1>1 DEF CoordinatorOK, InCoordinator
<1>3. ASSUME NEW p \in Proc,
             \/ WriteClaimed(p) \/ WriteRejected(p) \/ WritePromoting(p) \/ WriteRunning(p)
             \/ WriteCompleted(p) \/ WriteRecovery(p) \/ RemoveAbandoned(p)
             \/ MakeRunDirectory(p)
      PROVE  FALSE
  <2>1. pc[p] \in InCoordinator /\ glock = p /\ glock' \in {p, Free} /\ pc'[p] # "counted"
    BY <1>1, <1>3
       DEF WriteClaimed, WriteRejected, WritePromoting, WriteRunning, WriteCompleted,
           WriteRecovery, RemoveAbandoned, MakeRunDirectory, Rewrite, LockLeft, Goto, Say,
           locks, TypeOK, CoordinatorOK, InCoordinator, Replacing
  <2> QED BY <1>2, <2>1, ProtocolConstants
<1>4. UNCHANGED <<claim, dirs>>
  BY <1>3, ClaimWriters, DirectoryWriters
<1>5. ASSUME NEW p \in Proc, Start(p) \/ Throw(p) \/ Crash(p) PROVE pc[q] = "counted"
  BY <1>1, <1>5 DEF Start, Submit, Get, Throw, Crash, Forget, Goto, Say, TypeOK
<1>6. ASSUME NEW r \in Request, OrphanExits(r) \/ HelperDies(r) PROVE pc[q] = "counted"
  BY <1>6 DEF OrphanExits, HelperDies
<1>7. CoordinatorOrphanExits => pc[q] = "counted"
  BY DEF CoordinatorOrphanExits
<1>8. ASSUME NEW p \in Proc,
             \/ ReadDurableClaim(p) \/ WriteClaimed(p) \/ AcquireRequestLock(p) \/ Recheck(p)
             \/ Resume(p) \/ Adopt(p) \/ EngineMatches(p) \/ EngineDrifted(p)
             \/ EngineUnusable(p) \/ Reject(p) \/ RemoveAbandoned(p) \/ WriteRejected(p)
             \/ Promote(p) \/ WritePromoting(p) \/ MakeRunDirectory(p) \/ WriteRunning(p)
             \/ WriteInputs(p) \/ Execute(p) \/ WriteDiagnostics(p)
      PROVE  pc[q] = "counted"
  BY <1>1, <1>8
     DEF ReadDurableClaim, WriteClaimed, AcquireRequestLock, Recheck, Resume, RecoveryResult,
         Adopt, EngineMatches, EngineDrifted, EngineUnusable, Reject, RemoveAbandoned,
         WriteRejected, Promote, WritePromoting, MakeRunDirectory, WriteRunning,
         WriteInputs, Execute, WriteDiagnostics, Goto, Say, TypeOK
<1>9. ASSUME NEW p \in Proc,
             \/ Normalize(p) \/ WriteEvidence(p) \/ WriteRunRecord(p) \/ Seal(p)
             \/ WriteCompleted(p) \/ ReadClaim(p) \/ StatusFromClaim(p) \/ ProbeLock(p)
             \/ Unprobe(p) \/ TakeOver(p) \/ Reread(p) \/ Relookup(p) \/ Recover(p)
             \/ WriteRecovery(p) \/ Reconcile(p) \/ CoordinatorBusy(p) \/ Return(p)
      PROVE  pc[q] = "counted"
  BY <1>1, <1>9
     DEF Normalize, WriteEvidence, WriteRunRecord, Seal, WriteCompleted, ReadClaim,
         StatusFromClaim, ProbeLock, Unprobe, TakeOver, Reread, Relookup, RecoveryResult,
         Recover, WriteRecovery, Transition, Rewrite, Reconcile, CoordinatorBusy, Return,
         Forget, Goto, Say, TypeOK
<1>10. ASSUME NEW p \in Proc, Reserve(p)
       PROVE  pc[q] = "counted" \/ CapacityLeft(claim, dirs)
  BY <1>1, <1>10 DEF Reserve, Goto, Say, TypeOK
<1> QED BY <1>4, <1>5, <1>6, <1>7, <1>8, <1>9, <1>10 DEF Next, Step, CapacityOK, CountOK

\* However calls interleave and die and whatever request locks are lost, run
\* directories and the claims that may still get one never exceed the limit of
\* the storage together, as long as no helper of the coordinator's lock is lost.
THEOREM CapacityIsKept == Spec => []CapacityNeverExceeded
<1>1. Init => CapacityOK
  <2> SUFFICES ASSUME Init PROVE CapacityOK
    OBVIOUS
  <2>1. dirs = {} /\ ReservingClaims(claim, dirs) = {}
    BY DEF Init, ReservingClaims, NoClaim
  <2>2. SlotsOK
    BY <2>1, FS_EmptySet, ProtocolConstants DEF SlotsOK, UsedSlots
  <2> QED BY <2>2 DEF Init, CapacityOK, CountOK
<1>2. CapacityOK /\ UNCHANGED vars => CapacityOK'
  BY DEF vars, CapacityOK, SlotsOK, CountOK
<1>3. /\ exclusive => ExecutionInv
      /\ exclusive => IdentityInv
      /\ exclusive => CapacityOK
      /\ [Next]_vars
      => (exclusive => CapacityOK)'
  BY <1>2, ExclusionIsLostForGood, SlotsStep, CountStep DEF CapacityOK
<1>4. Spec => [](exclusive => CapacityOK)
  BY <1>1, <1>3, ExecutionInvariant, IdentityInvariant, PTL DEF Spec
<1>5. (exclusive => CapacityOK) => CapacityNeverExceeded
  BY DEF CapacityOK, SlotsOK, CapacityNeverExceeded
<1> QED BY <1>4, <1>5, PTL

=============================================================================
