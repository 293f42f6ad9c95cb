------------------------ MODULE ResumableRequestsInv ------------------------
(***************************************************************************)
(* The invariants of ResumableRequests, in named parts: the proofs of      *)
(* ResumableRequests_proofs rest on them. All of them are about the time   *)
(* before a helper of the coordinator's lock is lost under its parent:     *)
(* each is inductive for as long as "exclusive" holds.                     *)
(***************************************************************************)
EXTENDS ResumableRequests

\* Labels of a submit between its claim and its execution.
Preparing == {"claim", "reserve", "counted", "lock"} \cup Submitting

\* Labels at which a submit holds a reservation it can promote or reject.
Reserving == {"engine", "reject", "promote"} \cup Replacing

\* Labels at which the run_id of a promotion is chosen.
Promotable == {"promote", "promoting", "mkdir", "start"}

\* Labels at which a call need not have found a claim.
Unclaimed == {"idle", "done", "claim", "reserve", "counted", "get"}

\* What a call knows where it is: enough to type the records it writes.
LocalOK ==
  \A p \in Proc :
    /\ WellFormed(seen[p])
    /\ pc[p] \in Preparing => digest[p] \in Digest
    /\ pc[p] \in Reserving => SlotReserved(mine[p]) /\ SlotReserved(seen[p])
    /\ pc[p] = "adopt" => SlotReserved(seen[p])
    /\ mine[p] # NoClaim => WellFormed(mine[p]) /\ SlotReserved(mine[p])
    /\ pc[p] \in Promotable \cup Executing => run[p] \in RunId
    /\ pc[p] \in {"recover", "recovering"} => seen[p].state = "running"
    /\ pc[p] \notin Unclaimed => seen[p] # NoClaim
    /\ pc[p] \in {"reconcile", "seal", "sealing"} => ledger[req[p]] # NoRecord
    /\ pc[p] \in Executing \cup {"seal", "sealing"} =>
         Started(seen[p]) /\ seen[p].run = run[p]

\* A claim that a call has read may be stale, but never in what it identifies:
\* the claim on disk still is for the same bytes and the same run.
KnownOK ==
  \A p \in Proc :
    /\ pc[p] = "idle" => seen[p] = NoClaim /\ mine[p] = NoClaim
    /\ seen[p] # NoClaim =>
         claim[req[p]] # NoClaim /\ claim[req[p]].digest = seen[p].digest
    /\ pc[p] \in {"lock"} \cup Submitting => seen[p].digest = digest[p]
    /\ seen[p].run # NoRun => claim[req[p]].run = seen[p].run
    /\ pc[p] \in {"claim", "reserve", "counted", "lock", "recheck", "resume"} =>
         mine[p].state # "promoting"
    /\ pc[p] \in Reserving /\ mine[p].state = "promoting" => mine[p] = seen[p]
    /\ pc[p] \in Promotable /\ seen[p].state = "promoting" => run[p] = seen[p].run

\* The holder of the global lock is inside the coordinator, and the claim it
\* is rewriting is the one it found, compared or wrote last.
CoordinatorOK ==
  \A p \in Proc :
    /\ pc[p] \in InCoordinator <=> glock = p
    /\ pc[p] = "counted" => claim[req[p]] = NoClaim
    /\ pc[p] \in {"cleanup", "rejecting", "promoting"} => claim[req[p]] = seen[p]
    /\ pc[p] = "cleanup" => seen[p].state = "promoting"
    /\ pc[p] \in {"sealing", "recovering"} =>
         claim[req[p]].state \in {"running", "recovery_required"}
    /\ pc[p] \in {"mkdir", "start"} =>
         claim[req[p]] = Promoting(seen[p], run[p])

\* Executing calls hold the durable running claim, and hold it alone.
OwnerOK ==
  \A p \in Proc : pc[p] \in Executing =>
    /\ Started(claim[req[p]]) /\ claim[req[p]].run = run[p]
    /\ \A q \in Proc : pc[q] \in Executing /\ req[q] = req[p] => q = p

\* A request that never started was never executed, and its owner executes it
\* only after the label "execute".
LaunchOK ==
  /\ \A r \in Request : launches[r] \in {0, 1}
  /\ \A r \in Request : ~ Started(claim[r]) => launches[r] = 0
  /\ \A p \in Proc : pc[p] \in {"inputs", "execute"} => launches[req[p]] = 0

ExecutionInv ==
  TypeOK /\ LocalOK /\ KnownOK /\ CoordinatorOK /\ OwnerOK /\ LaunchOK

\* A run_id belongs to one request: of the claims at most one holds it, and a
\* call that is going to promote it, or executes it, works for that request.
RunIdOK ==
  /\ \A r, s \in Request : claim[r].run \in RunId /\ claim[r].run = claim[s].run => r = s
  /\ \A p \in Proc : pc[p] \in Promotable \cup Executing =>
       \A r \in Request : claim[r].run = run[p] => r = req[p]
  /\ \A p, q \in Proc :
       pc[p] \in Promotable /\ pc[q] \in Promotable /\ run[p] = run[q] => req[p] = req[q]

\* A directory is made for the run of a claim, and it stays until that claim
\* is being rejected.
DirectoryOK ==
  /\ \A u \in dirs : \E r \in Request : claim[r].run = u
  /\ \A r \in Request : Started(claim[r]) => claim[r].run \in dirs
  /\ \A p \in Proc : pc[p] = "start" => run[p] \in dirs
  /\ \A p \in Proc : pc[p] = "rejecting" => seen[p].run \notin dirs
  /\ \A r \in Request : claim[r].state = "rejected" => claim[r].run \notin dirs

\* run.json is committed for a started claim, and names its run and bytes.
LedgerOK ==
  \A r \in Request : ledger[r] # NoRecord =>
    /\ Started(claim[r])
    /\ ledger[r].run = claim[r].run /\ ledger[r].digest = claim[r].digest

IdentityInv == RunIdOK /\ DirectoryOK /\ LedgerOK

-----------------------------------------------------------------------------
\* An execution runs the solver, then writes its artifacts in a fixed order,
\* and all of that before its run.json.
FilesOK ==
  \A p \in Proc :
    /\ pc[p] \in Executing => ledger[req[p]] = NoRecord
    /\ pc[p] \in Executing \ {"inputs", "execute"} => launches[req[p]] = 1
    /\ pc[p] \in Executing \ {"inputs"} => "inputs" \in files[run[p]]
    /\ pc[p] \in {"normalize", "evidence", "publish"} => "diagnostics" \in files[run[p]]
    /\ pc[p] \in {"evidence", "publish"} /\ outcome[p] = "succeeded" =>
         "result" \in files[run[p]]
    /\ pc[p] = "publish" => "evidence" \in files[run[p]]

\* A committed run.json has its artifacts, and a completed claim seals it.
SealOK ==
  \A r \in Request :
    /\ ledger[r] # NoRecord =>
         ArtifactsOf(ledger[r].status) \subseteq files[ledger[r].run]
    /\ claim[r].state = "completed" => ledger[r] # NoRecord /\ claim[r].seal = ledger[r]

\* What a call has read of an end is still so: terminal claims stay, and a
\* claim that started never goes back.
SeenOK ==
  \A p \in Proc :
    /\ Terminal(seen[p]) => OnDisk(p) = seen[p]
    /\ Started(seen[p]) => Started(OnDisk(p))

\* Labels at which a call believes that it holds the request lock.
UnderLock == Submitting \cup {"unprobe", "reread", "reledger", "recover", "recovering"}

\* As long as no lock helper was lost, that belief is right: so nobody commits
\* run.json behind a call that is about to declare the owner lost.
LockOK ==
  losses = 0 =>
    \A p \in Proc :
      /\ pc[p] \in UnderLock => lock[req[p]] = p
      /\ pc[p] \in {"recover", "recovering"} => ledger[req[p]] = NoRecord
      /\ pc[p] \in Executing => claim[req[p]].state # "recovery_required"

\* Only a call that is over has an answer, and the durable state backs it.
AnswerOK ==
  /\ \A p \in Proc : reply[p] # "none" => pc[p] = "done"
  /\ AnswersAreDurable

AnswerInv == FilesOK /\ SealOK /\ SeenOK /\ LockOK /\ AnswerOK

\* What the storage holds can be counted, and stays within its limit.
SlotsOK ==
  /\ IsFiniteSet(dirs) /\ IsFiniteSet(ReservingClaims(claim, dirs))
  /\ UsedSlots(claim, dirs) <= MaxRuns

\* What a call counted is still so when it writes its claim.
CountOK == \A p \in Proc : pc[p] = "counted" => CapacityLeft(claim, dirs)

CapacityOK == SlotsOK /\ CountOK

=============================================================================
