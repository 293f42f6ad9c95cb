--------------------------- MODULE StorageCapacity ---------------------------
(***************************************************************************)
(* The capacity coordinator, shared by the historical simulate and the 2.1 *)
(* submit of every process: reservation files, request claims and run      *)
(* directories under one global lock.                                      *)
(* A call that dies or throws gives the global lock back and leaves what   *)
(* it wrote. An operation that makes several durable writes under the lock *)
(* is one action per write, because a call may die between them. That at   *)
(* most one call works on a request, and what becomes of the coordinator   *)
(* when the helper that holds the global lock dies under a live call, is   *)
(* the business of ResumableRequests; here the request lock is a guard,    *)
(* and a helper lives as long as its call.                                 *)
(***************************************************************************)
EXTENDS RequestClaims

CONSTANTS
  Call,         \* concurrent calls of all processes
  Free,         \* the global lock is not held
  MaxRuns,      \* MAX_STORED_RUNS
  MaxFaults,    \* bound: calls that die or throw
  MaxRemovals   \* bound: run directories the operator removes

ASSUME CapacityConstants ==
  /\ Free \notin Call
  /\ MaxRuns \in Nat /\ MaxFaults \in Nat /\ MaxRemovals \in Nat

VARIABLES
  claim,     \* [Request -> Claim], the request reservations
  reserved,  \* the runs with a historical ("legacy") reservation file
  dirs,      \* the run directories
  glock,     \* the call that holds the global lock, or Free
  pc,        \* where each call is
  req,       \* the request a submit works on
  run,       \* the run_id of each call, or NoRun
  faults, removals

vars == <<claim, reserved, dirs, glock, pc, req, run, faults, removals>>

Historical == {"reserve", "promote", "unreserve", "simulate", "release"}
Requested  ==
  {"claim", "engine", "publish", "mkdir", "start", "execute", "recover",
   "reject", "rejecting"}
Label == {"idle"} \cup Historical \cup Requested

Goto(c, label) == pc' = [pc EXCEPT ![c] = label]

\* The call ends; its place is free for another one.
Return(c) ==
  /\ Goto(c, "idle")
  /\ run' = [run EXCEPT ![c] = NoRun]

UsedIds ==
  dirs \cup reserved \cup {claim[r].run : r \in Request} \cup {run[c] : c \in Call}

\* Of run directories, request claims and historical reservations, the files
\* that usedSlots counts; a file it cannot read as a claim counts as well.
SlotsInUse == UsedSlots(claim, dirs) + Cardinality(reserved)

\* A plausible slip: reservations of the other kind are not counted.
RoomForRequests == UsedSlots(claim, dirs) < MaxRuns

Room == SlotsInUse < MaxRuns

Init ==
  /\ claim = [r \in Request |-> NoClaim]
  /\ reserved = {} /\ dirs = {}
  /\ glock = Free
  /\ pc = [c \in Call |-> "idle"]
  /\ req \in [Call -> Request]
  /\ run = [c \in Call |-> NoRun]
  /\ faults = 0 /\ removals = 0

-----------------------------------------------------------------------------
(* The historical simulate.                                                *)

Simulate(c) ==
  /\ pc[c] = "idle"
  /\ \E u \in RunId \ UsedIds : run' = [run EXCEPT ![c] = u]
  /\ Goto(c, "reserve")
  /\ UNCHANGED <<claim, reserved, dirs, glock, req, faults, removals>>

\* reserve("legacy"): count and reserve in one critical section, or refuse.
Reserve(c) ==
  /\ pc[c] = "reserve" /\ glock = Free
  /\ \/ Room /\ reserved' = reserved \cup {run[c]} /\ Goto(c, "promote") /\ UNCHANGED run
     \/ ~ Room /\ Return(c) /\ UNCHANGED reserved
  /\ UNCHANGED <<claim, dirs, glock, req, faults, removals>>

\* promote: the directory first, under the global lock ...
Promote(c) ==
  /\ pc[c] = "promote" /\ glock = Free
  /\ glock' = c
  /\ dirs' = dirs \cup {run[c]}
  /\ Goto(c, "unreserve")
  /\ UNCHANGED <<claim, reserved, req, run, faults, removals>>

\* A plausible slip: the reservation stays beside the run directory.
UnreserveForgotten(c) ==
  /\ pc[c] = "unreserve"
  /\ glock' = Free
  /\ Goto(c, "simulate")
  /\ UNCHANGED <<claim, reserved, dirs, req, run, faults, removals>>

\* ... then its reservation goes, and the directory alone holds the slot.
Unreserve(c) ==
  /\ pc[c] = "unreserve"
  /\ reserved' = reserved \ {run[c]}
  /\ glock' = Free
  /\ Goto(c, "simulate")
  /\ UNCHANGED <<claim, dirs, req, run, faults, removals>>

\* simulate hands back a reservation whose promotion threw.
Release(c) ==
  /\ pc[c] = "release" /\ glock = Free
  /\ reserved' = reserved \ {run[c]}
  /\ Return(c)
  /\ UNCHANGED <<claim, dirs, glock, req, faults, removals>>

\* The run ends and keeps its directory, whatever came of it.
EndRun(c) ==
  /\ pc[c] = "simulate"
  /\ Return(c)
  /\ UNCHANGED <<claim, reserved, dirs, glock, req, faults, removals>>

-----------------------------------------------------------------------------
(* The 2.1 submit, as far as the coordinator sees it.                      *)

SetClaim(c, new) == claim' = [claim EXCEPT ![req[c]] = new]

\* One call at a time works on a request: it claims a new one, goes on with
\* one that never started, or finds that the owner of a started one is gone.
Submit(c, r) ==
  /\ pc[c] = "idle"
  /\ \A d \in Call : pc[d] \in Requested => req[d] # r
  /\ req' = [req EXCEPT ![c] = r]
  /\ \/ claim[r] = NoClaim /\ Goto(c, "claim")
     \/ SlotReserved(claim[r]) /\ Goto(c, "engine")
     \/ claim[r].state = "running" /\ Goto(c, "recover")
  /\ UNCHANGED <<claim, reserved, dirs, glock, run, faults, removals>>

\* reserve("request"): the claim is the reservation.
ReserveRequest(c) ==
  /\ pc[c] = "claim" /\ glock = Free
  /\ \/ /\ Room
        /\ \E d \in Digest : SetClaim(c, Claimed(d))
        /\ Goto(c, "engine") /\ UNCHANGED run
     \/ ~ Room /\ Return(c) /\ UNCHANGED claim
  /\ UNCHANGED <<reserved, dirs, glock, req, faults, removals>>

\* The probe decides: execute, reject, or throw with the claim as it is.
ProbeEngine(c) ==
  /\ pc[c] = "engine"
  /\ \/ /\ IF claim[req[c]].state = "promoting"
             THEN run' = [run EXCEPT ![c] = claim[req[c]].run]
             ELSE \E u \in RunId \ UsedIds : run' = [run EXCEPT ![c] = u]
        /\ Goto(c, "publish")
     \/ Goto(c, "reject") /\ UNCHANGED run
     \/ Return(c)
  /\ UNCHANGED <<claim, reserved, dirs, glock, req, faults, removals>>

\* promoteRequest: the promoting claim, the directory, the running claim.
PublishRun(c) ==
  /\ pc[c] = "publish" /\ glock = Free
  /\ glock' = c
  /\ SetClaim(c, Promoting(claim[req[c]], run[c]))
  /\ Goto(c, "mkdir")
  /\ UNCHANGED <<reserved, dirs, req, run, faults, removals>>

MakeRunDirectory(c) ==
  /\ pc[c] = "mkdir"
  /\ dirs' = dirs \cup {run[c]}
  /\ Goto(c, "start")
  /\ UNCHANGED <<claim, reserved, glock, req, run, faults, removals>>

StartRun(c) ==
  /\ pc[c] = "start"
  /\ SetClaim(c, Running(claim[req[c]]))
  /\ glock' = Free
  /\ Goto(c, "execute")
  /\ UNCHANGED <<reserved, dirs, req, run, faults, removals>>

\* rejectRequest: remove the directory of an abandoned promotion first.
RejectRequest(c) ==
  /\ pc[c] = "reject" /\ glock = Free
  /\ \/ /\ claim[req[c]].state = "promoting"
        /\ dirs' = dirs \ {claim[req[c]].run}
        /\ glock' = c
        /\ Goto(c, "rejecting")
        /\ UNCHANGED <<claim, run>>
     \/ /\ claim[req[c]].state # "promoting"
        /\ SetClaim(c, Rejected(claim[req[c]]))
        /\ Return(c)
        /\ UNCHANGED <<dirs, glock>>
  /\ UNCHANGED <<reserved, req, faults, removals>>

WriteRejected(c) ==
  /\ pc[c] = "rejecting"
  /\ SetClaim(c, Rejected(claim[req[c]]))
  /\ glock' = Free
  /\ Return(c)
  /\ UNCHANGED <<reserved, dirs, req, faults, removals>>

\* The seal of the owner, or the verdict of a call that finds it gone.
SettleRun(c) ==
  /\ pc[c] \in {"execute", "recover"} /\ glock = Free
  /\ \E status \in Outcome :
       LET old == claim[req[c]]
       IN  SetClaim(c, IF pc[c] = "recover" THEN RecoveryRequired(old)
                       ELSE Completed(old, [run |-> old.run, digest |-> old.digest,
                                            status |-> status]))
  /\ Return(c)
  /\ UNCHANGED <<reserved, dirs, glock, req, faults, removals>>

-----------------------------------------------------------------------------
(* The environment.                                                        *)

\* A call dies or throws anywhere; only simulate's promote hands back what it
\* had reserved.
Fault(c) ==
  /\ pc[c] # "idle"
  /\ faults < MaxFaults /\ faults' = faults + 1
  /\ glock' = IF glock = c THEN Free ELSE glock
  /\ \/ Return(c)
     \/ pc[c] \in {"promote", "unreserve"} /\ Goto(c, "release") /\ UNCHANGED run
  /\ UNCHANGED <<claim, reserved, dirs, req, removals>>

\* "Archive or remove prior evidence": the operator removes the directory of a
\* run that no call works on.
Remove(u) ==
  /\ u \in dirs /\ \A c \in Call : run[c] # u
  /\ removals < MaxRemovals /\ removals' = removals + 1
  /\ dirs' = dirs \ {u}
  /\ UNCHANGED <<claim, reserved, glock, pc, req, run, faults>>

Next ==
  \/ \E c \in Call :
       \/ Simulate(c) \/ Reserve(c) \/ Promote(c) \/ Unreserve(c) \/ Release(c)
       \/ EndRun(c)
       \/ \E r \in Request : Submit(c, r)
       \/ ReserveRequest(c) \/ ProbeEngine(c) \/ PublishRun(c)
       \/ MakeRunDirectory(c) \/ StartRun(c) \/ RejectRequest(c)
       \/ WriteRejected(c) \/ SettleRun(c) \/ Fault(c)
  \/ \E u \in RunId : Remove(u)

Spec == Init /\ [][Next]_vars

-----------------------------------------------------------------------------
(* Types: the claims are ones parseClaim accepts, the global lock is held  *)
(* exactly by the call between two writes of one coordinator operation.    *)
TypeOK ==
  /\ claim \in [Request -> Claim]
  /\ \A r \in Request : WellFormed(claim[r])
  /\ reserved \in SUBSET RunId /\ dirs \in SUBSET RunId
  /\ glock \in Call \cup {Free}
  /\ pc \in [Call -> Label]
  /\ req \in [Call -> Request]
  /\ run \in [Call -> RunId \cup {NoRun}]
  /\ faults \in Nat /\ removals \in Nat
  /\ \A c \in Call :
       glock = c <=> pc[c] \in {"unreserve", "mkdir", "start", "rejecting"}

\* Historical runs that are certain to get a directory unless their call fails.
Promised ==
  {u \in reserved \ dirs : \E c \in Call : run[c] = u /\ pc[c] = "promote"}

\* Stored runs, promised runs and request claims never exceed MAX_STORED_RUNS
\* together, however calls of both kinds interleave, die between two writes of
\* the coordinator, or lose run directories to the operator, as long as no helper
\* of the global lock dies under its call.
CapacityNeverExceeded ==
  Cardinality(dirs) + Cardinality(Promised) + Cardinality(ReservingClaims(claim, dirs))
    <= MaxRuns

\* Requests that are still to be executed and have no directory yet.
Awaited == {r \in ReservingClaims(claim, dirs) : SlotReserved(claim[r])}

\* Every slot counted beyond stored runs, promised runs and requests still to be
\* executed was lost, either the reservation of a historical call that died or
\* threw, or the claim of a request whose run directory the operator removed:
\* one slot to one such call or one such directory, and nothing else leaks
\* capacity (reserve, promote, isNonReservingTerminalClaim).
LostSlotsAreExplained ==
  glock = Free =>
    SlotsInUse <= Cardinality(dirs) + Cardinality(Promised) + Cardinality(Awaited)
                    + faults + removals

=============================================================================
