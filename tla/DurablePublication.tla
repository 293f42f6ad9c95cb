-------------------------- MODULE DurablePublication --------------------------
(***************************************************************************)
(* What is left of 2.1 requests after a power loss. Every name of a file   *)
(* or directory has what the processes see (now) and what the disk may     *)
(* hold (disk): a rename or a mkdir is visible at once and survives for    *)
(* certain only after an fsync of the directory the name is in.            *)
(* The store was used before, so the directories above those of a request  *)
(* and of a run are on the disk. A call keeps its locks as long as it      *)
(* lives. What it learns from stale reads, how its locks fail, rejection   *)
(* and capacity are the business of ResumableRequests and StorageCapacity. *)
(***************************************************************************)
EXTENDS Naturals, FiniteSets

CONSTANTS
  Call,            \* concurrent calls of all processes
  Request,         \* request ids
  Nobody,          \* the request lock is free
  Nothing,         \* no entry waits for its directory; a call has no request
  MaxPowerLosses,  \* bound: power losses
  MaxFaults        \* bound: calls that die or throw

ASSUME PublicationConstants ==
  /\ Nobody \notin Call /\ Nothing \notin Request
  /\ MaxPowerLosses \in Nat /\ MaxFaults \in Nat

\* The names that matter: the claim, the run directory, its artifacts (written
\* one after the other and each synced), and run.json in requests/<request_id>.
Entry == Request \X {"claim", "directory", "artifacts", "ledger"}

ASSUME NothingIsNoEntry == Nothing \notin Entry

Started == {"running", "recovery_required", "completed"}
Content == {"none", "whole", "claimed", "promoting"} \cup Started

VARIABLES
  now,       \* [Entry -> Content], what a process sees
  disk,      \* [Entry -> SUBSET Content], what a power loss may leave
  pc,        \* where each call is
  on,        \* the request it works on
  asked,     \* whether it is a submit or a request_get
  unsynced,  \* the entry whose directory it has still to sync, or Nothing
  lock,      \* [Request -> Call or Nobody], the request locks
  launches,  \* [Request -> Nat], how often OpenModelica was started
  answered,  \* [Request -> SUBSET Answer], what callers were told
  losses, faults

vars ==
  <<now, disk, pc, on, asked, unsynced, lock, launches, answered, losses, faults>>

Label ==
  {"idle", "lock", "recheck", "promote", "mkdir", "start", "execute", "artifacts",
   "ledger", "seal", "sealed", "status", "reconcile", "reconciled",
   "recover", "recovered"}

\* Some submit was answered; some call was told completed; the owner of the
\* execution was told completed.
Answer == {"accepted", "completed", "executed"}

Init ==
  /\ now = [e \in Entry |-> "none"]
  /\ disk = [e \in Entry |-> {"none"}]
  /\ pc = [c \in Call |-> "idle"]
  /\ on = [c \in Call |-> Nothing]
  /\ asked = [c \in Call |-> "get"]
  /\ unsynced = [c \in Call |-> Nothing]
  /\ lock = [r \in Request |-> Nobody]
  /\ launches = [r \in Request |-> 0]
  /\ answered = [r \in Request |-> {}]
  /\ losses = 0 /\ faults = 0

-----------------------------------------------------------------------------
(* Publishing under a name.                                                *)

TheClaim(c) == <<on[c], "claim">>
Claim(r)    == now[<<r, "claim">>]

\* run.json is there with every artifact it lists.
Readable(r) ==
  \A part \in {"directory", "artifacts", "ledger"} : now[<<r, part>>] = "whole"

Goto(c, label) == pc' = [pc EXCEPT ![c] = label]

\* The call stands at a label and its last publication is complete.
At(c, label) == pc[c] = label /\ unsynced[c] = Nothing

\* The entries of one directory: claims share one, and so do run directories.
Siblings(e) ==
  {f \in Entry : f[2] = e[2] /\ (f = e \/ e[2] \in {"claim", "directory"})}

Synced(e) == [f \in Entry |-> IF f \in Siblings(e) THEN {now[f]} ELSE disk[f]]

\* writeDurableText and makeDurableDirectory up to the visible change: synced
\* bytes get their name, which the directory does not yet keep for certain.
Publish(c, e, v) ==
  /\ now' = [now EXCEPT ![e] = v]
  /\ disk' = [disk EXCEPT ![e] = @ \cup {v}]
  /\ unsynced' = [unsynced EXCEPT ![c] = e]

\* A plausible slip: the directory is not synced after the rename.
RenameOnly(c) == disk

\* syncDirectory, before the call that published goes on.
DirectorySynced(c) == Synced(unsynced[c])

SyncDirectory(c) ==
  /\ unsynced[c] # Nothing
  /\ disk' = DirectorySynced(c)
  /\ unsynced' = [unsynced EXCEPT ![c] = Nothing]
  /\ UNCHANGED <<now, pc, on, asked, lock, launches, answered, losses, faults>>

\* The global lock: no other call is inside an operation of the coordinator.
Coordinator(c) ==
  \A d \in Call \ {c} :
    /\ pc[d] \notin {"mkdir", "start"}
    /\ unsynced[d] # Nothing => unsynced[d][2] \notin {"claim", "directory"}

\* The call answers, or throws, and gives its request lock back.
Return(c) ==
  /\ Goto(c, "idle")
  /\ on' = [on EXCEPT ![c] = Nothing]
  /\ lock' = [r \in Request |-> IF lock[r] = c THEN Nobody ELSE lock[r]]

Tell(c, answers) ==
  answered' = [answered EXCEPT ![on[c]] =
                 @ \cup answers \cup (IF asked[c] = "submit" THEN {"accepted"} ELSE {})]

-----------------------------------------------------------------------------
(* submit.                                                                 *)

\* A plausible slip: a claim that is already there is read, and not confirmed.
ReadOnly(r) == disk

\* confirmDurableFile of a claim: someone else may have renamed it just now.
Confirmed(r) == Synced(<<r, "claim">>)

\* claimOrRead: reserve a new claim, or read the one that is there and sync it.
Submit(c, r) ==
  /\ At(c, "idle") /\ Coordinator(c)
  /\ on' = [on EXCEPT ![c] = r]
  /\ asked' = [asked EXCEPT ![c] = "submit"]
  /\ Goto(c, "lock")
  /\ \/ Claim(r) = "none" /\ Publish(c, <<r, "claim">>, "claimed")
     \/ Claim(r) # "none" /\ disk' = Confirmed(r) /\ UNCHANGED <<now, unsynced>>
  /\ UNCHANGED <<lock, launches, answered, losses, faults>>

\* The request lock, or the status of the request for which it is taken.
AcquireLock(c) ==
  /\ At(c, "lock")
  /\ \/ lock[on[c]] = Nobody /\ lock' = [lock EXCEPT ![on[c]] = c] /\ Goto(c, "recheck")
     \/ lock[on[c]] # Nobody /\ Goto(c, "status") /\ UNCHANGED lock
  /\ UNCHANGED <<now, disk, on, asked, unsynced, launches, answered, losses, faults>>

\* Under the request lock run.json decides first, then the claim. A completed
\* claim without its run.json throws, and so does a run.json without artifacts.
Recheck(c) ==
  /\ At(c, "recheck")
  /\ LET r == on[c]
     IN  IF now[<<r, "ledger">>] = "whole"
         THEN IF Readable(r) THEN Goto(c, "reconcile") /\ UNCHANGED <<on, lock>> ELSE Return(c)
         ELSE CASE Claim(r) \in {"claimed", "promoting"} ->
                     IF asked[c] = "submit"
                     THEN Goto(c, "promote") /\ UNCHANGED <<on, lock>> ELSE Return(c)
                [] Claim(r) = "running" -> Goto(c, "recover") /\ UNCHANGED <<on, lock>>
                [] Claim(r) = "recovery_required" ->
                     Goto(c, "recovered") /\ UNCHANGED <<on, lock>>
                [] OTHER -> Return(c)
  /\ UNCHANGED <<now, disk, asked, unsynced, launches, answered, losses, faults>>

\* promoteRequest: the promoting claim, the run directory, the running claim.
PublishRun(c) ==
  /\ At(c, "promote") /\ Coordinator(c)
  /\ Publish(c, TheClaim(c), "promoting")
  /\ Goto(c, "mkdir")
  /\ UNCHANGED <<on, asked, lock, launches, answered, losses, faults>>

\* makeDurableDirectory returns at once for a directory that it can see.
MakeRunDirectory(c) ==
  /\ At(c, "mkdir")
  /\ \/ /\ now[<<on[c], "directory">>] = "none"
        /\ Publish(c, <<on[c], "directory">>, "whole")
     \/ /\ now[<<on[c], "directory">>] # "none"
        /\ UNCHANGED <<now, disk, unsynced>>
  /\ Goto(c, "start")
  /\ UNCHANGED <<on, asked, lock, launches, answered, losses, faults>>

StartRun(c) ==
  /\ At(c, "start")
  /\ Publish(c, TheClaim(c), "running")
  /\ Goto(c, "execute")
  /\ UNCHANGED <<on, asked, lock, launches, answered, losses, faults>>

Execute(c) ==
  /\ At(c, "execute")
  /\ launches' = [launches EXCEPT ![on[c]] = @ + 1]
  /\ Goto(c, "artifacts")
  /\ UNCHANGED <<now, disk, on, asked, unsynced, lock, answered, losses, faults>>

WriteArtifacts(c) ==
  /\ At(c, "artifacts")
  /\ Publish(c, <<on[c], "artifacts">>, "whole")
  /\ Goto(c, "ledger")
  /\ UNCHANGED <<on, asked, lock, launches, answered, losses, faults>>

WriteRunRecord(c) ==
  /\ At(c, "ledger")
  /\ Publish(c, <<on[c], "ledger">>, "whole")
  /\ Goto(c, "seal")
  /\ UNCHANGED <<on, asked, lock, launches, answered, losses, faults>>

\* writeClaim(completed): a claim already sealed with these bytes stays. (It
\* refuses an unstarted claim, which only a stale read can bring here.)
Seal(c, from, to) ==
  /\ At(c, from) /\ Coordinator(c)
  /\ \/ /\ Claim(on[c]) \in {"running", "recovery_required"}
        /\ Publish(c, TheClaim(c), "completed")
     \/ /\ Claim(on[c]) = "completed"
        /\ UNCHANGED <<now, disk, unsynced>>
  /\ Goto(c, to)
  /\ UNCHANGED <<on, asked, lock, launches, answered, losses, faults>>

\* The owner answers what it executed and sealed.
Complete(c) ==
  /\ At(c, "sealed")
  /\ Tell(c, {"completed", "executed"})
  /\ Return(c)
  /\ UNCHANGED <<now, disk, asked, unsynced, launches, losses, faults>>

-----------------------------------------------------------------------------
(* request_get, and the ends that submit and request_get share.            *)

Get(c, r) ==
  /\ At(c, "idle") /\ Claim(r) # "none"
  /\ on' = [on EXCEPT ![c] = r]
  /\ asked' = [asked EXCEPT ![c] = "get"]
  /\ Goto(c, "status")
  /\ UNCHANGED <<now, disk, unsynced, lock, launches, answered, losses, faults>>

\* statusFromClaim: whoever sees run.json reconciles without the request lock.
Status(c) ==
  /\ At(c, "status")
  /\ LET r == on[c]
     IN  \/ /\ now[<<r, "ledger">>] = "whole" /\ Readable(r)
            /\ Goto(c, "reconcile")
            /\ UNCHANGED <<on, lock, answered>>
         \/ /\ now[<<r, "ledger">>] = "whole" /\ ~ Readable(r)
            /\ Return(c) /\ UNCHANGED answered
         \/ /\ now[<<r, "ledger">>] # "whole"
            /\ Claim(r) \in {"running", "recovery_required"} /\ lock[r] = Nobody
            /\ lock' = [lock EXCEPT ![r] = c]
            /\ Goto(c, "recheck")
            /\ UNCHANGED <<on, answered>>
         \/ /\ now[<<r, "ledger">>] # "whole"
            /\ Claim(r) \in {"claimed", "promoting"} \/ lock[r] # Nobody
            /\ Claim(r) # "completed"
            /\ Tell(c, {}) /\ Return(c)
         \/ /\ now[<<r, "ledger">>] # "whole" /\ Claim(r) = "completed"
            /\ Return(c) /\ UNCHANGED answered
  /\ UNCHANGED <<now, disk, asked, unsynced, launches, losses, faults>>

Reconciled(c) ==
  /\ At(c, "reconciled")
  /\ Tell(c, {"completed"})
  /\ Return(c)
  /\ UNCHANGED <<now, disk, asked, unsynced, launches, losses, faults>>

\* recoveryResult writes its verdict over a running claim.
Recover(c) ==
  /\ At(c, "recover") /\ Coordinator(c)
  /\ Publish(c, TheClaim(c), "recovery_required")
  /\ Goto(c, "recovered")
  /\ UNCHANGED <<on, asked, lock, launches, answered, losses, faults>>

Recovered(c) ==
  /\ At(c, "recovered")
  /\ Tell(c, {})
  /\ Return(c)
  /\ UNCHANGED <<now, disk, asked, unsynced, launches, losses, faults>>

-----------------------------------------------------------------------------
(* The environment.                                                        *)

\* A call dies or throws, maybe between a rename and its directory sync.
Fault(c) ==
  /\ pc[c] # "idle"
  /\ faults < MaxFaults /\ faults' = faults + 1
  /\ unsynced' = [unsynced EXCEPT ![c] = Nothing]
  /\ Return(c)
  /\ UNCHANGED <<now, disk, asked, launches, answered, losses>>

\* A name comes back as any content the disk may hold, and the files of a
\* directory that is gone are gone.
Survivors(kept) ==
  [e \in Entry |->
     LET name(f) == IF f \in DOMAIN kept THEN kept[f] ELSE now[f]
     IN  IF e[2] = "artifacts" /\ name(<<e[1], "directory">>) = "none"
         THEN "none" ELSE name(e)]

PowerLoss ==
  /\ losses < MaxPowerLosses /\ losses' = losses + 1
  /\ LET uncertain == {e \in Entry : disk[e] # {now[e]}}
     IN  \E kept \in [uncertain -> UNION {disk[e] : e \in uncertain}] :
           /\ \A e \in uncertain : kept[e] \in disk[e]
           /\ now' = Survivors(kept)
           /\ disk' = [e \in Entry |-> {Survivors(kept)[e]}]
  /\ pc' = [c \in Call |-> "idle"]
  /\ on' = [c \in Call |-> Nothing]
  /\ unsynced' = [c \in Call |-> Nothing]
  /\ lock' = [r \in Request |-> Nobody]
  /\ UNCHANGED <<asked, launches, answered, faults>>

Next ==
  \/ \E c \in Call :
       \/ \E r \in Request : Submit(c, r) \/ Get(c, r)
       \/ SyncDirectory(c) \/ AcquireLock(c) \/ Recheck(c)
       \/ PublishRun(c) \/ MakeRunDirectory(c) \/ StartRun(c) \/ Execute(c)
       \/ WriteArtifacts(c) \/ WriteRunRecord(c)
       \/ Seal(c, "seal", "sealed") \/ Seal(c, "reconcile", "reconciled")
       \/ Complete(c) \/ Reconciled(c) \/ Status(c)
       \/ Recover(c) \/ Recovered(c) \/ Fault(c)
  \/ PowerLoss

Spec == Init /\ [][Next]_vars

-----------------------------------------------------------------------------
(* Types; a process sees nothing that the disk may not hold, and a request *)
(* lock belongs to a call on that request.                                 *)
TypeOK ==
  /\ now \in [Entry -> Content]
  /\ disk \in [Entry -> SUBSET Content]
  /\ \A e \in Entry : now[e] \in disk[e]
  /\ pc \in [Call -> Label]
  /\ on \in [Call -> Request \cup {Nothing}]
  /\ asked \in [Call -> {"submit", "get"}]
  /\ unsynced \in [Call -> Entry \cup {Nothing}]
  /\ lock \in [Request -> Call \cup {Nobody}]
  /\ \A r \in Request : lock[r] # Nobody => on[lock[r]] = r
  /\ launches \in [Request -> Nat]
  /\ answered \in [Request -> SUBSET Answer]

\* OpenModelica starts at most once for a request, however many power losses
\* and retries follow: once it was started, no power loss takes the claim back
\* to a state from which a submit would start it again.
ExecutedOnceForGood ==
  \A r \in Request :
    /\ launches[r] <= 1
    /\ launches[r] = 1 => Claim(r) \in Started

\* A submit that was answered left a durable request id: a power loss forgets
\* the claim neither of the call that made it nor of one that found it made.
RequestIdIsDurable ==
  \A r \in Request : "accepted" \in answered[r] => Claim(r) # "none"

\* What the executing call was told is completed stays on record: run.json
\* survives every power loss, beside a claim that leads to it.
ExecutedLedgerSurvives ==
  \A r \in Request :
    "executed" \in answered[r] =>
      now[<<r, "ledger">>] = "whole" /\ Claim(r) \in Started

\* README.md: the resumable flow gives "crash-safe readback". A request that
\* any call was told is completed can be read back after a power loss.
CompletedIsReadableForGood ==
  \A r \in Request : "completed" \in answered[r] => Readable(r)

=============================================================================
