----------------------- MODULE StorageCapacity_proofs -----------------------
(***************************************************************************)
(* The capacity coordinator never lets more than MAX_STORED_RUNS slots be  *)
(* taken, and loses none except by a call that died or threw or by the     *)
(* removal of a run directory. The inductive invariant StorageInv says     *)
(* what every call knows of its claim, that a run_id belongs to one call   *)
(* and one claim, and how the parts that usedSlots counts are bounded;     *)
(* StrandedOK, how many claims have lost their directory.                  *)
(***************************************************************************)
EXTENDS StorageCapacity, RequestClaims_proofs

-----------------------------------------------------------------------------
(* The inductive invariant.                                                *)

\* One call at a time works on a request, and it knows the claim.
RequestOK ==
  /\ \A c, d \in Call :
       pc[c] \in Requested /\ pc[d] \in Requested /\ req[c] = req[d] => c = d
  /\ \A c \in Call :
       LET mine == claim[req[c]]
       IN  /\ pc[c] = "claim" => mine = NoClaim
           /\ pc[c] \in {"engine", "reject", "publish"} => SlotReserved(mine)
           /\ pc[c] = "publish" /\ mine.state = "promoting" => mine.run = run[c]
           /\ pc[c] \in {"mkdir", "start"} => mine.state = "promoting" /\ mine.run = run[c]
           /\ pc[c] = "rejecting" => mine.state = "promoting"
           /\ pc[c] \in {"execute", "recover"} => mine.state = "running"

\* A run_id belongs to one call and to the claim of that call's request, which
\* a historical call has none of.
RunOK ==
  /\ \A r, s \in Request : claim[r].run \in RunId /\ claim[r].run = claim[s].run => r = s
  /\ \A c \in Call :
       /\ pc[c] \in Historical \cup {"publish", "mkdir", "start"} => run[c] \in RunId
       /\ pc[c] = "idle" => run[c] = NoRun
       /\ run[c] \in RunId =>
            /\ \A r \in Request : claim[r].run = run[c] => pc[c] \in Requested /\ req[c] = r
            /\ \A d \in Call : run[d] = run[c] => d = c

\* A historical call reserves before it makes its directory, and makes that
\* before it gives the reservation back.
HistoricalOK ==
  \A c \in Call :
    /\ pc[c] = "reserve" => run[c] \notin reserved \cup dirs
    /\ pc[c] = "promote" => run[c] \in reserved /\ run[c] \notin dirs

\* Reservations that no call is going to promote, or is giving back right now.
Lost ==
  {u \in reserved : \A c \in Call : run[c] = u => pc[c] \notin {"promote", "unreserve"}}

\* Every slot can be counted, the slots stay within the limit, and a lost one
\* is the trace of a fault.
CountOK ==
  /\ IsFiniteSet(dirs) /\ IsFiniteSet(reserved)
  /\ IsFiniteSet(ReservingClaims(claim, dirs))
  /\ CapacityNeverExceeded
  /\ Cardinality(Lost) <= faults

StorageInv == TypeOK /\ RequestOK /\ RunOK /\ HistoricalOK /\ CountOK

-----------------------------------------------------------------------------
(* Counting slots.                                                         *)

\* No call enters a promotion in this step, and one that leaves it takes its
\* reservation along.
ReservationsKept ==
  /\ reserved' \subseteq reserved
  /\ \A c \in Call :
       /\ pc'[c] = "promote" => pc[c] = "promote" /\ run'[c] = run[c]
       /\ pc[c] \in {"promote", "unreserve"} =>
            \/ pc'[c] \in {"promote", "unreserve"} /\ run'[c] = run[c]
            \/ run[c] \notin reserved'

\* Such a step neither promises nor loses anything.
LEMMA KeptReservations ==
  ASSUME HistoricalOK, ReservationsKept
  PROVE  Promised' \subseteq Promised /\ Lost' \subseteq Lost
<1>1. ASSUME NEW u \in Promised' PROVE u \in Promised
  BY <1>1 DEF HistoricalOK, ReservationsKept, Promised
<1>2. ASSUME NEW u \in Lost' PROVE u \in Lost
  BY <1>2 DEF ReservationsKept, Lost
<1> QED BY <1>1, <1>2

\* Whatever is promised or lost is reserved, and can be counted with it.
LEMMA ReservedParts ==
  ASSUME IsFiniteSet(reserved)
  PROVE  /\ IsFiniteSet(Promised) /\ IsFiniteSet(Lost)
         /\ Cardinality(Promised) \in Nat /\ Cardinality(Lost) \in Nat
         /\ Cardinality(Promised) <= Cardinality(reserved)
BY NoMore DEF Promised, Lost

\* The sizes of all parts are numbers.
LEMMA Sizes ==
  ASSUME CountOK
  PROVE  /\ Cardinality(dirs) \in Nat /\ Cardinality(reserved) \in Nat
         /\ Cardinality(ReservingClaims(claim, dirs)) \in Nat
         /\ Cardinality(Promised) \in Nat /\ Cardinality(Lost) \in Nat
         /\ Cardinality(Promised) <= Cardinality(reserved)
         /\ IsFiniteSet(Promised) /\ IsFiniteSet(Lost)
BY ReservedParts, FS_CardinalityType DEF CountOK

\* A step that adds nothing to any part keeps the count.
LEMMA QuietCount ==
  ASSUME TypeOK, HistoricalOK, CountOK, ReservationsKept, UNCHANGED <<dirs, faults>>,
         ReservingClaims(claim', dirs') \subseteq ReservingClaims(claim, dirs)
  PROVE  CountOK'
<1> DEFINE R == ReservingClaims(claim, dirs)
           S == ReservingClaims(claim', dirs')
<1>1. Promised' \subseteq Promised /\ Lost' \subseteq Lost
  BY KeptReservations
<1>2. /\ IsFiniteSet(S) /\ Cardinality(S) \in Nat /\ Cardinality(S) <= Cardinality(R)
      /\ IsFiniteSet(reserved')
  BY NoMore DEF CountOK, ReservationsKept
<1>3. /\ Cardinality(Promised') \in Nat /\ Cardinality(Promised') <= Cardinality(Promised)
      /\ Cardinality(Lost') \in Nat /\ Cardinality(Lost') <= Cardinality(Lost)
  BY <1>1, Sizes, NoMore
<1>4. Cardinality(dirs) + Cardinality(Promised) + Cardinality(R) <= MaxRuns
  BY DEF CountOK, CapacityNeverExceeded
<1>5. /\ Cardinality(dirs') + Cardinality(Promised') + Cardinality(S) <= MaxRuns
      /\ Cardinality(Lost') <= faults'
  BY <1>2, <1>3, <1>4, Sizes, CapacityConstants DEF CountOK, TypeOK
<1> QED BY <1>2, <1>5 DEF CountOK, CapacityNeverExceeded

\* A run directory that is new uses the slot of its promise or of its claim.
LEMMA DirectoryCount ==
  ASSUME TypeOK, CountOK, NEW u, u \notin dirs, dirs' = dirs \cup {u},
         UNCHANGED <<reserved, faults>>, Lost' \subseteq Lost,
         Promised' \subseteq Promised,
         ReservingClaims(claim', dirs') \subseteq ReservingClaims(claim, dirs),
         \/ u \in Promised /\ u \notin Promised'
         \/ ReservingClaims(claim', dirs') # ReservingClaims(claim, dirs)
  PROVE  CountOK'
<1> DEFINE R == ReservingClaims(claim, dirs)
           S == ReservingClaims(claim', dirs')
<1>1. IsFiniteSet(dirs') /\ Cardinality(dirs') = Cardinality(dirs) + 1
  BY FS_AddElement DEF CountOK
<1>2. /\ IsFiniteSet(S) /\ Cardinality(S) \in Nat /\ Cardinality(S) <= Cardinality(R)
  BY NoMore DEF CountOK
<1>3. /\ Cardinality(Promised') \in Nat /\ Cardinality(Promised') <= Cardinality(Promised)
      /\ Cardinality(Lost') \in Nat /\ Cardinality(Lost') <= Cardinality(Lost)
  BY Sizes, NoMore
<1>4. Cardinality(S) + 1 <= Cardinality(R) \/ Cardinality(Promised') + 1 <= Cardinality(Promised)
  <2>1. CASE u \in Promised /\ u \notin Promised'
    BY <2>1, Sizes, OneLess
  <2>2. CASE S # R
    <3>1. PICK r \in R : r \notin S
      BY <2>2
    <3>2. S \subseteq R \ {r}
      BY <3>1
    <3> QED BY <3>1, <3>2, OneLess DEF CountOK
  <2> QED BY <2>1, <2>2
<1>5. Cardinality(dirs) + Cardinality(Promised) + Cardinality(R) <= MaxRuns
  BY DEF CountOK, CapacityNeverExceeded
<1>6. /\ Cardinality(dirs') + Cardinality(Promised') + Cardinality(S) <= MaxRuns
      /\ Cardinality(Lost') <= faults'
  BY <1>1, <1>2, <1>3, <1>4, <1>5, Sizes, CapacityConstants DEF CountOK, TypeOK
<1> QED BY <1>1, <1>2, <1>6 DEF CountOK, CapacityNeverExceeded

\* A run directory that goes leaves at most one claim without one.
LEMMA RemovalCount ==
  ASSUME TypeOK, RunOK, HistoricalOK, CountOK, NEW u \in dirs, u \in RunId, dirs' = dirs \ {u},
         UNCHANGED <<claim, faults>>, ReservationsKept
  PROVE  CountOK'
<1> DEFINE R == ReservingClaims(claim, dirs)
           S == ReservingClaims(claim', dirs')
<1>1. Promised' \subseteq Promised /\ Lost' \subseteq Lost
  BY KeptReservations
<1>2. /\ Cardinality(Promised') \in Nat /\ Cardinality(Promised') <= Cardinality(Promised)
      /\ Cardinality(Lost') \in Nat /\ Cardinality(Lost') <= Cardinality(Lost)
      /\ IsFiniteSet(reserved')
  BY <1>1, Sizes, NoMore DEF CountOK, ReservationsKept
<1>3. IsFiniteSet(dirs') /\ Cardinality(dirs') \in Nat
      /\ Cardinality(dirs') + 1 <= Cardinality(dirs)
  BY OneLess DEF CountOK
<1>4. \E x : S \subseteq R \cup {x}
  <2>1. CASE \E k \in Request : claim[k].run = u
    <3>1. PICK k \in Request : claim[k].run = u
      BY <2>1
    <3>2. \A r \in Request : claim[r].run = u => r = k
      BY <3>1 DEF RunOK
    <3>3. S = ReservingClaims(claim, dirs \ {u})
      OBVIOUS
    <3>4. S \subseteq R \cup {k}
      BY <3>2, <3>3, ReservingDirectories DEF TypeOK
    <3> QED BY <3>4
  <2>2. CASE \A k \in Request : claim[k].run # u
    <3>1. S \subseteq R
      BY <2>2 DEF TypeOK, ReservingClaims, NonReserving
    <3> QED BY <3>1
  <2> QED BY <2>1, <2>2
<1>5. IsFiniteSet(S) /\ Cardinality(S) \in Nat /\ Cardinality(S) <= Cardinality(R) + 1
  BY <1>4, AtMostOneMore DEF CountOK
<1>6. Cardinality(dirs) + Cardinality(Promised) + Cardinality(R) <= MaxRuns
  BY DEF CountOK, CapacityNeverExceeded
<1>7. /\ Cardinality(dirs') + Cardinality(Promised') + Cardinality(S) <= MaxRuns
      /\ Cardinality(Lost') <= faults'
  BY <1>2, <1>3, <1>5, <1>6, Sizes, CapacityConstants DEF CountOK, TypeOK
<1> QED BY <1>2, <1>3, <1>5, <1>7 DEF CountOK, CapacityNeverExceeded

-----------------------------------------------------------------------------
(* One lemma per action.                                                   *)

\* A historical call begins with a fresh run_id and nothing reserved.
LEMMA SimulateStorage ==
  ASSUME StorageInv, NEW c \in Call, Simulate(c)
  PROVE  StorageInv'
<1>1. TypeOK'
  BY CapacityConstants
     DEF StorageInv, TypeOK, Label, Historical, Requested, Simulate, Goto, UsedIds
<1>2. RequestOK'
  BY DEF StorageInv, TypeOK, RequestOK, Requested, Simulate, Goto, UsedIds
<1>3. RunOK'
  BY ClaimConstants
     DEF StorageInv, TypeOK, RequestOK, RunOK, Historical, Requested, Simulate, Goto, UsedIds
<1>4. HistoricalOK'
  BY DEF StorageInv, TypeOK, RunOK, HistoricalOK, Historical, Simulate, Goto, UsedIds
<1>5. CountOK'
  <2>1. ReservationsKept
    BY DEF StorageInv, TypeOK, ReservationsKept, Simulate, Goto, UsedIds
  <2> QED BY <2>1, QuietCount DEF StorageInv, Simulate
<1> QED BY <1>1, <1>2, <1>3, <1>4, <1>5 DEF StorageInv

\* The end of a run changes no file.
LEMMA EndRunStorage ==
  ASSUME StorageInv, NEW c \in Call, EndRun(c)
  PROVE  StorageInv'
<1>1. TypeOK'
  BY CapacityConstants
     DEF StorageInv, TypeOK, Label, Historical, Requested, EndRun, Goto, Return
<1>2. RequestOK'
  BY DEF StorageInv, TypeOK, RequestOK, Requested, EndRun, Goto, Return
<1>3. RunOK'
  BY ClaimConstants
     DEF StorageInv, TypeOK, RequestOK, RunOK, Historical, Requested, EndRun, Goto, Return
<1>4. HistoricalOK'
  BY DEF StorageInv, TypeOK, RunOK, HistoricalOK, Historical, EndRun, Goto, Return
<1>5. CountOK'
  <2>1. ReservationsKept
    BY DEF StorageInv, TypeOK, ReservationsKept, EndRun, Goto, Return
  <2> QED BY <2>1, QuietCount DEF StorageInv, EndRun
<1> QED BY <1>1, <1>2, <1>3, <1>4, <1>5 DEF StorageInv

\* A submit finds its request free of other calls.
LEMMA SubmitStorage ==
  ASSUME StorageInv, NEW c \in Call, NEW r \in Request, Submit(c, r)
  PROVE  StorageInv'
<1>1. TypeOK'
  BY CapacityConstants
     DEF StorageInv, TypeOK, Label, Historical, Requested, Submit, Goto
<1>2. RequestOK'
  BY DEF StorageInv, TypeOK, RequestOK, Requested, Submit, Goto
<1>3. RunOK'
  BY ClaimConstants
     DEF StorageInv, TypeOK, RequestOK, RunOK, Historical, Requested, Submit, Goto
<1>4. HistoricalOK'
  BY DEF StorageInv, TypeOK, RunOK, HistoricalOK, Historical, Submit, Goto
<1>5. CountOK'
  <2>1. ReservationsKept
    BY DEF StorageInv, TypeOK, ReservationsKept, Submit, Goto
  <2> QED BY <2>1, QuietCount DEF StorageInv, Submit
<1> QED BY <1>1, <1>2, <1>3, <1>4, <1>5 DEF StorageInv

\* The reservation goes once its run has a directory.
LEMMA UnreserveStorage ==
  ASSUME StorageInv, NEW c \in Call, Unreserve(c)
  PROVE  StorageInv'
<1>1. TypeOK'
  BY CapacityConstants
     DEF StorageInv, TypeOK, Label, Historical, Requested, Unreserve, Goto, Return
<1>2. RequestOK'
  BY DEF StorageInv, TypeOK, RequestOK, Requested, Unreserve, Goto, Return
<1>3. RunOK'
  BY ClaimConstants
     DEF StorageInv, TypeOK, RequestOK, RunOK, Historical, Requested, Unreserve, Goto, Return
<1>4. HistoricalOK'
  BY DEF StorageInv, TypeOK, RunOK, HistoricalOK, Historical, Unreserve, Goto, Return
<1>5. CountOK'
  <2>1. ReservationsKept
    BY DEF StorageInv, TypeOK, ReservationsKept, Unreserve, Goto, Return
  <2> QED BY <2>1, QuietCount DEF StorageInv, Unreserve
<1> QED BY <1>1, <1>2, <1>3, <1>4, <1>5 DEF StorageInv

\* A reservation that is handed back is nobody else's.
LEMMA ReleaseStorage ==
  ASSUME StorageInv, NEW c \in Call, Release(c)
  PROVE  StorageInv'
<1>1. TypeOK'
  BY CapacityConstants
     DEF StorageInv, TypeOK, Label, Historical, Requested, Release, Goto, Return
<1>2. RequestOK'
  BY DEF StorageInv, TypeOK, RequestOK, Requested, Release, Goto, Return
<1>3. RunOK'
  BY ClaimConstants
     DEF StorageInv, TypeOK, RequestOK, RunOK, Historical, Requested, Release, Goto, Return
<1>4. HistoricalOK'
  BY DEF StorageInv, TypeOK, RunOK, HistoricalOK, Historical, Release, Goto, Return
<1>5. CountOK'
  <2>1. ReservationsKept
    BY DEF StorageInv, TypeOK, ReservationsKept, Release, Goto, Return
  <2> QED BY <2>1, QuietCount DEF StorageInv, Release
<1> QED BY <1>1, <1>2, <1>3, <1>4, <1>5 DEF StorageInv

\* A reservation is made while a slot is left.
LEMMA ReserveStorage ==
  ASSUME StorageInv, NEW c \in Call, Reserve(c)
  PROVE  StorageInv'
<1>1. TypeOK'
  BY CapacityConstants
     DEF StorageInv, TypeOK, RunOK, Label, Historical, Requested, Reserve, Goto, Return
<1>2. RequestOK'
  BY DEF StorageInv, TypeOK, RequestOK, Requested, Reserve, Goto, Return
<1>3. RunOK'
  BY ClaimConstants
     DEF StorageInv, TypeOK, RunOK, Historical, Requested, Reserve, Goto, Return
<1>4. HistoricalOK'
  BY DEF StorageInv, TypeOK, RunOK, HistoricalOK, Historical, Reserve, Goto, Return
<1>5. CountOK'
  <2>1. CASE ~ Room
    <3>1. ReservationsKept
      BY <2>1 DEF StorageInv, TypeOK, ReservationsKept, Reserve, Goto, Return
    <3> QED BY <2>1, <3>1, QuietCount DEF StorageInv, Reserve
  <2>2. CASE Room
    <3> DEFINE R == ReservingClaims(claim, dirs)
    <3>1. /\ pc[c] = "reserve" /\ pc' = [pc EXCEPT ![c] = "promote"]
          /\ reserved' = reserved \cup {run[c]} /\ run[c] \in RunId
          /\ UNCHANGED <<claim, dirs, run, faults>>
      BY <2>2 DEF StorageInv, TypeOK, RunOK, Historical, Reserve, Goto, Return
    <3>2. Promised' \subseteq reserved \cup {run[c]} /\ Lost' \subseteq Lost
      BY <3>1 DEF StorageInv, TypeOK, Promised, Lost
    <3>3. Promised' \subseteq Promised \cup {run[c]}
      BY <3>1 DEF StorageInv, TypeOK, Promised
    <3>4. /\ Cardinality(Promised') \in Nat
          /\ Cardinality(Promised') <= Cardinality(Promised) + 1
      BY <3>3, Sizes, AtMostOneMore DEF StorageInv
    <3>5. IsFiniteSet(reserved')
      BY <3>1, FS_AddElement DEF StorageInv, CountOK
    <3>6. Cardinality(Lost') \in Nat /\ Cardinality(Lost') <= Cardinality(Lost)
      BY <3>2, Sizes, NoMore DEF StorageInv
    <3>7. Cardinality(dirs) + Cardinality(R) + Cardinality(reserved) < MaxRuns
      BY <2>2 DEF Room, SlotsInUse, UsedSlots
    <3>8. /\ Cardinality(dirs) + Cardinality(Promised') + Cardinality(R) <= MaxRuns
          /\ Cardinality(Lost') <= faults
      BY <3>4, <3>6, <3>7, Sizes, CapacityConstants DEF StorageInv, TypeOK, CountOK
    <3> QED BY <3>1, <3>5, <3>8 DEF StorageInv, CountOK, CapacityNeverExceeded
  <2> QED BY <2>1, <2>2
<1> QED BY <1>1, <1>2, <1>3, <1>4, <1>5 DEF StorageInv

\* The directory takes the slot that the call was promised.
LEMMA PromoteStorage ==
  ASSUME StorageInv, NEW c \in Call, Promote(c)
  PROVE  StorageInv'
<1>1. TypeOK'
  BY CapacityConstants
     DEF StorageInv, TypeOK, RunOK, Label, Historical, Requested, Promote, Goto
<1>2. RequestOK'
  BY DEF StorageInv, TypeOK, RequestOK, Requested, Promote, Goto
<1>3. RunOK'
  BY DEF StorageInv, TypeOK, RunOK, Historical, Requested, Promote, Goto
<1>4. HistoricalOK'
  BY DEF StorageInv, TypeOK, RunOK, HistoricalOK, Historical, Promote, Goto
<1>5. CountOK'
  <2>1. /\ run[c] \in Promised /\ run[c] \notin Promised'
        /\ run[c] \notin dirs /\ dirs' = dirs \cup {run[c]}
        /\ UNCHANGED <<claim, reserved, faults>>
    BY DEF StorageInv, HistoricalOK, Promised, Promote
  <2>2. ReservationsKept
    BY DEF StorageInv, TypeOK, ReservationsKept, Promote, Goto
  <2>3. ReservingClaims(claim', dirs') \subseteq ReservingClaims(claim, dirs)
    BY <2>1 DEF ReservingClaims, NonReserving
  <2>4. Promised' \subseteq Promised /\ Lost' \subseteq Lost
    BY <2>2, KeptReservations DEF StorageInv
  <2> QED BY <2>1, <2>3, <2>4, DirectoryCount DEF StorageInv
<1> QED BY <1>1, <1>2, <1>3, <1>4, <1>5 DEF StorageInv

\* A request claim is a reservation, made while a slot is left.
LEMMA ReserveRequestStorage ==
  ASSUME StorageInv, NEW c \in Call, ReserveRequest(c)
  PROVE  StorageInv'
<1>1. CASE ~ Room
  <2>1. TypeOK'
    BY <1>1, CapacityConstants
       DEF StorageInv, TypeOK, Label, Historical, Requested, ReserveRequest, Goto, Return
  <2>2. RequestOK'
    BY <1>1 DEF StorageInv, TypeOK, RequestOK, Requested, ReserveRequest, Goto, Return
  <2>3. RunOK'
    BY <1>1, ClaimConstants
       DEF StorageInv, TypeOK, RunOK, Historical, Requested, ReserveRequest, Goto, Return
  <2>4. HistoricalOK'
    BY <1>1 DEF StorageInv, TypeOK, HistoricalOK, Historical, ReserveRequest, Goto, Return
  <2>5. ReservationsKept
    BY <1>1 DEF StorageInv, TypeOK, ReservationsKept, ReserveRequest, Goto, Return
  <2>6. CountOK'
    BY <1>1, <2>5, QuietCount DEF StorageInv, ReserveRequest
  <2> QED BY <2>1, <2>2, <2>3, <2>4, <2>6 DEF StorageInv
<1>2. CASE Room
  <2>1. PICK d \in Digest : claim' = [claim EXCEPT ![req[c]] = Claimed(d)]
    BY <1>2 DEF ReserveRequest, SetClaim
  <2> DEFINE new == Claimed(d)
  <2>2. /\ new \in Claim /\ WellFormed(new) /\ SlotReserved(new) /\ new.run = NoRun
        /\ new.state # "promoting"
    BY ClaimedValues
  <2>3. /\ pc[c] = "claim" /\ pc' = [pc EXCEPT ![c] = "engine"] /\ glock = Free
        /\ UNCHANGED <<reserved, dirs, glock, req, run, faults, removals>>
        /\ claim' = [claim EXCEPT ![req[c]] = new]
    BY <1>2, <2>1 DEF ReserveRequest, Goto
  <2> HIDE DEF new
  <2>4. TypeOK'
    BY <2>2, <2>3, CapacityConstants
       DEF StorageInv, TypeOK, Label, Historical, Requested
  <2>5. RequestOK'
    BY <2>2, <2>3 DEF StorageInv, TypeOK, RequestOK, Requested
  <2>6. RunOK'
    BY <2>2, <2>3, ClaimConstants DEF StorageInv, TypeOK, RunOK, Historical, Requested
  <2>7. HistoricalOK'
    BY <2>3 DEF StorageInv, TypeOK, HistoricalOK, Historical
  <2>8. CountOK'
    <3> DEFINE R == ReservingClaims(claim, dirs)
               S == ReservingClaims(claim', dirs')
    <3>1. ReservationsKept
      BY <2>3 DEF StorageInv, TypeOK, ReservationsKept
    <3>2. Promised' \subseteq Promised /\ Lost' \subseteq Lost
      BY <3>1, KeptReservations DEF StorageInv
    <3>3. /\ Cardinality(Promised') \in Nat
          /\ Cardinality(Promised') <= Cardinality(Promised)
          /\ Cardinality(Lost') \in Nat /\ Cardinality(Lost') <= Cardinality(Lost)
      BY <3>2, Sizes, NoMore DEF StorageInv
    <3>4. S \subseteq R \cup {req[c]}
      BY <2>2, <2>3, ReservingKept DEF StorageInv, TypeOK
    <3>5. IsFiniteSet(S) /\ Cardinality(S) \in Nat /\ Cardinality(S) <= Cardinality(R) + 1
      BY <3>4, AtMostOneMore DEF StorageInv, CountOK
    <3>6. Cardinality(dirs) + Cardinality(R) + Cardinality(reserved) < MaxRuns
      BY <1>2 DEF Room, SlotsInUse, UsedSlots
    <3>7. /\ Cardinality(dirs) + Cardinality(Promised') + Cardinality(S) <= MaxRuns
          /\ Cardinality(Lost') <= faults
      BY <3>3, <3>5, <3>6, Sizes, CapacityConstants DEF StorageInv, TypeOK, CountOK
    <3> QED BY <2>3, <3>5, <3>7 DEF StorageInv, CountOK, CapacityNeverExceeded
  <2> QED BY <2>4, <2>5, <2>6, <2>7, <2>8 DEF StorageInv
<1> QED BY <1>1, <1>2

\* The run_id of a promotion is fresh, or the one that its claim already holds.
LEMMA ProbeEngineStorage ==
  ASSUME StorageInv, NEW c \in Call, ProbeEngine(c)
  PROVE  StorageInv'
<1>1. TypeOK'
  BY CapacityConstants, ClaimShape
     DEF StorageInv, TypeOK, RequestOK, Label, Historical, Requested, ProbeEngine, UsedIds, Goto, Return
<1>2. RequestOK'
  BY DEF StorageInv, TypeOK, RequestOK, Requested, ProbeEngine, UsedIds, Goto, Return
<1>3. RunOK'
  BY ClaimConstants, ClaimShape
     DEF StorageInv, TypeOK, RequestOK, RunOK, Historical, Requested, ProbeEngine, UsedIds, Goto, Return
<1>4. HistoricalOK'
  BY DEF StorageInv, TypeOK, RunOK, HistoricalOK, Historical, ProbeEngine, UsedIds, Goto, Return
<1>5. CountOK'
  <2>1. ReservationsKept
    BY DEF StorageInv, TypeOK, ReservationsKept, ProbeEngine, UsedIds, Goto, Return
  <2> QED BY <2>1, QuietCount DEF StorageInv, ProbeEngine
<1> QED BY <1>1, <1>2, <1>3, <1>4, <1>5 DEF StorageInv

\* The promoting claim holds the run_id of the call and still reserves.
LEMMA PublishRunStorage ==
  ASSUME StorageInv, NEW c \in Call, PublishRun(c)
  PROVE  StorageInv'
<1> DEFINE old == claim[req[c]]
           new == Promoting(old, run[c])
<1>1. /\ pc[c] = "publish" /\ pc' = [pc EXCEPT ![c] = "mkdir"] /\ glock = Free /\ glock' = c
      /\ UNCHANGED <<reserved, dirs, req, run, faults, removals>>
      /\ claim' = [claim EXCEPT ![req[c]] = new]
  BY DEF PublishRun, SetClaim, Goto
<1>2. /\ old \in Claim /\ WellFormed(old) /\ SlotReserved(old) /\ run[c] \in RunId
      /\ old.state = "promoting" => old.run = run[c]
  BY <1>1 DEF StorageInv, TypeOK, RequestOK, RunOK, Historical
<1>3. /\ new \in Claim /\ WellFormed(new) /\ SlotReserved(new)
      /\ new.state = "promoting" /\ new.run = run[c]
  BY <1>2, PromotingValues
<1>4. old.state \in {"claimed", "promoting"}
  BY <1>2 DEF SlotReserved
<1> HIDE DEF new
<1>5. TypeOK'
  BY <1>1, <1>3, CapacityConstants DEF StorageInv, TypeOK, Label, Historical, Requested
<1>6. RequestOK'
  BY <1>1, <1>3 DEF StorageInv, TypeOK, RequestOK, Requested
<1>7. RunOK'
  BY <1>1, <1>2, <1>3 DEF StorageInv, TypeOK, RunOK, Historical, Requested
<1>8. HistoricalOK'
  BY <1>1 DEF StorageInv, TypeOK, HistoricalOK, Historical
<1>9. CountOK'
  <2>1. ReservationsKept
    BY <1>1 DEF StorageInv, TypeOK, ReservationsKept
  <2>2. ReservingClaims(claim', dirs') \subseteq ReservingClaims(claim, dirs)
    BY <1>1, <1>2, <1>3, <1>4, ReservingRewrite DEF StorageInv, TypeOK
  <2> QED BY <1>1, <2>1, <2>2, QuietCount DEF StorageInv
<1> QED BY <1>5, <1>6, <1>7, <1>8, <1>9 DEF StorageInv

\* The run directory takes the slot that its claim reserved, once.
LEMMA MakeRunDirectoryStorage ==
  ASSUME StorageInv, NEW c \in Call, MakeRunDirectory(c)
  PROVE  StorageInv'
<1>1. /\ pc[c] = "mkdir" /\ pc' = [pc EXCEPT ![c] = "start"] /\ dirs' = dirs \cup {run[c]}
      /\ UNCHANGED <<claim, reserved, glock, req, run, faults, removals>>
  BY DEF MakeRunDirectory, Goto
<1>2. /\ run[c] \in RunId /\ req[c] \in Request
      /\ claim[req[c]].state = "promoting" /\ claim[req[c]].run = run[c]
  BY <1>1 DEF StorageInv, TypeOK, RequestOK, RunOK, Historical
<1>3. TypeOK'
  BY <1>1, <1>2, CapacityConstants DEF StorageInv, TypeOK, Label, Historical, Requested
<1>4. RequestOK'
  BY <1>1 DEF StorageInv, TypeOK, RequestOK, Requested
<1>5. RunOK'
  BY <1>1 DEF StorageInv, TypeOK, RunOK, Historical, Requested
<1>6. HistoricalOK'
  <2>1. ASSUME NEW d \in Call, pc'[d] \in {"reserve", "promote"}
        PROVE  d # c /\ pc'[d] = pc[d] /\ run[d] # run[c]
    BY <1>1, <1>2, <2>1 DEF StorageInv, TypeOK, RunOK
  <2> QED BY <1>1, <2>1 DEF StorageInv, HistoricalOK
<1>7. CountOK'
  <2>1. ReservationsKept
    BY <1>1 DEF StorageInv, TypeOK, ReservationsKept
  <2>2. CASE run[c] \in dirs
    <3>1. dirs' = dirs
      BY <1>1, <2>2
    <3> QED BY <1>1, <2>1, <3>1, QuietCount DEF StorageInv
  <2>3. CASE run[c] \notin dirs
    <3>1. \A r \in Request : claim[r].run = run[c] => r = req[c]
      BY <1>2 DEF StorageInv, RunOK
    <3>2. ReservingClaims(claim', dirs') \subseteq ReservingClaims(claim, dirs)
      BY <1>1, <1>2, <3>1, ReservingDirectories DEF StorageInv, TypeOK
    <3>3. req[c] \in ReservingClaims(claim, dirs) /\ req[c] \notin ReservingClaims(claim', dirs')
      BY <1>1, <1>2, <2>3 DEF StorageInv, TypeOK, ReservingClaims, NonReserving, Started
    <3>4. Promised' \subseteq Promised /\ Lost' \subseteq Lost
      BY <2>1, KeptReservations DEF StorageInv
    <3> QED BY <1>1, <2>3, <3>2, <3>3, <3>4, DirectoryCount DEF StorageInv
  <2> QED BY <2>2, <2>3
<1> QED BY <1>3, <1>4, <1>5, <1>6, <1>7 DEF StorageInv

\* The running claim keeps the run of the promoting one.
LEMMA StartRunStorage ==
  ASSUME StorageInv, NEW c \in Call, StartRun(c)
  PROVE  StorageInv'
<1> DEFINE old == claim[req[c]]
           new == Running(old)
<1>1. /\ pc[c] = "start" /\ pc' = [pc EXCEPT ![c] = "execute"] /\ glock' = Free
      /\ UNCHANGED <<reserved, dirs, req, run, faults, removals>>
      /\ claim' = [claim EXCEPT ![req[c]] = new]
  BY DEF StartRun, SetClaim, Goto
<1>2. /\ old \in Claim /\ WellFormed(old) /\ old.state = "promoting"
      /\ old.run = run[c] /\ run[c] \in RunId
  BY <1>1 DEF StorageInv, TypeOK, RequestOK, RunOK, Historical
<1>3. /\ new \in Claim /\ WellFormed(new) /\ Started(new) /\ new.run = old.run
  BY <1>2, RunningValues
<1>4. new.state = "running"
  BY <1>2 DEF Running, Claim
<1> HIDE DEF new
<1>5. TypeOK'
  BY <1>1, <1>3, CapacityConstants DEF StorageInv, TypeOK, Label, Historical, Requested
<1>6. RequestOK'
  BY <1>1, <1>3, <1>4 DEF StorageInv, TypeOK, RequestOK, Requested
<1>7. RunOK'
  BY <1>1, <1>2, <1>3 DEF StorageInv, TypeOK, RunOK, Historical, Requested
<1>8. HistoricalOK'
  BY <1>1 DEF StorageInv, TypeOK, HistoricalOK, Historical
<1>9. CountOK'
  <2>1. ReservationsKept
    BY <1>1 DEF StorageInv, TypeOK, ReservationsKept
  <2>2. ReservingClaims(claim', dirs') \subseteq ReservingClaims(claim, dirs)
    BY <1>1, <1>2, <1>3, ReservingRewrite DEF StorageInv, TypeOK
  <2> QED BY <1>1, <2>1, <2>2, QuietCount DEF StorageInv
<1> QED BY <1>5, <1>6, <1>7, <1>8, <1>9 DEF StorageInv

\* A rejected claim reserves nothing, whatever it held before.
LEMMA RejectedStorage ==
  ASSUME StorageInv, NEW c \in Call, pc[c] \in {"reject", "rejecting"},
         SetClaim(c, Rejected(claim[req[c]])), Return(c),
         glock' = IF glock = c THEN Free ELSE glock,
         UNCHANGED <<reserved, dirs, req, faults, removals>>
  PROVE  StorageInv'
<1> DEFINE old == claim[req[c]]
           new == Rejected(old)
<1>1. /\ pc' = [pc EXCEPT ![c] = "idle"] /\ run' = [run EXCEPT ![c] = NoRun]
      /\ claim' = [claim EXCEPT ![req[c]] = new]
  BY DEF SetClaim, Return, Goto
<1>2. /\ old \in Claim /\ WellFormed(old) /\ SlotReserved(old)
  BY DEF StorageInv, TypeOK, RequestOK, SlotReserved
<1>3. /\ new \in Claim /\ WellFormed(new) /\ new.state = "rejected" /\ new.run = old.run
  BY <1>2, RejectedValues
<1> HIDE DEF new
<1>4. TypeOK'
  BY <1>1, <1>3, CapacityConstants DEF StorageInv, TypeOK, Label, Historical, Requested
<1>5. RequestOK'
  BY <1>1, <1>3 DEF StorageInv, TypeOK, RequestOK, Requested
<1>6. RunOK'
  <2>1. \A r \in Request : claim'[r].run = claim[r].run
    BY <1>1, <1>3 DEF StorageInv, TypeOK
  <2> QED BY <1>1, <2>1, ClaimConstants DEF StorageInv, TypeOK, RunOK, Historical, Requested
<1>7. HistoricalOK'
  BY <1>1 DEF StorageInv, TypeOK, HistoricalOK, Historical
<1>8. CountOK'
  <2>1. ReservationsKept
    BY <1>1 DEF StorageInv, TypeOK, ReservationsKept
  <2>2. ReservingClaims(claim', dirs') \subseteq ReservingClaims(claim, dirs)
    BY <1>1, <1>2, <1>3, ReservingRewrite DEF StorageInv, TypeOK
  <2> QED BY <1>1, <2>1, <2>2, QuietCount DEF StorageInv
<1> QED BY <1>4, <1>5, <1>6, <1>7, <1>8 DEF StorageInv

\* A rejection removes the directory of an abandoned promotion first.
LEMMA RejectRequestStorage ==
  ASSUME StorageInv, NEW c \in Call, RejectRequest(c)
  PROVE  StorageInv'
<1> DEFINE old == claim[req[c]]
           u == old.run
<1>1. CASE old.state # "promoting"
  <2>1. /\ pc[c] = "reject" /\ glock' = IF glock = c THEN Free ELSE glock
        /\ SetClaim(c, Rejected(claim[req[c]])) /\ Return(c)
        /\ UNCHANGED <<reserved, dirs, req, faults, removals>>
    BY <1>1, CapacityConstants DEF RejectRequest
  <2> QED BY <2>1, RejectedStorage
<1>2. CASE old.state = "promoting"
  <2>1. /\ pc[c] = "reject" /\ pc' = [pc EXCEPT ![c] = "rejecting"] /\ dirs' = dirs \ {u}
        /\ glock = Free /\ glock' = c
        /\ UNCHANGED <<claim, reserved, req, run, faults, removals>>
    BY <1>2 DEF RejectRequest, Goto
  <2>2. u \in RunId
    BY <1>2, ClaimShape DEF StorageInv, TypeOK
  <2>3. TypeOK'
    BY <2>1, CapacityConstants DEF StorageInv, TypeOK, Label, Historical, Requested
  <2>4. RequestOK'
    BY <1>2, <2>1 DEF StorageInv, TypeOK, RequestOK, Requested
  <2>5. RunOK'
    BY <2>1 DEF StorageInv, TypeOK, RunOK, Historical, Requested
  <2>6. HistoricalOK'
    BY <2>1 DEF StorageInv, TypeOK, HistoricalOK, Historical
  <2>7. CountOK'
    <3>1. ReservationsKept
      BY <2>1 DEF StorageInv, TypeOK, ReservationsKept
    <3>2. CASE u \in dirs
      BY <2>1, <2>2, <3>1, <3>2, RemovalCount DEF StorageInv
    <3>3. CASE u \notin dirs
      <4>1. dirs' = dirs
        BY <2>1, <3>3
      <4> QED BY <2>1, <3>1, <4>1, QuietCount DEF StorageInv
    <3> QED BY <3>2, <3>3
  <2> QED BY <2>3, <2>4, <2>5, <2>6, <2>7 DEF StorageInv
<1> QED BY <1>1, <1>2

\* ... and writes the rejected claim under the same global lock.
LEMMA WriteRejectedStorage ==
  ASSUME StorageInv, NEW c \in Call, WriteRejected(c)
  PROVE  StorageInv'
<1>1. /\ pc[c] = "rejecting" /\ SetClaim(c, Rejected(claim[req[c]])) /\ Return(c)
      /\ UNCHANGED <<reserved, dirs, req, faults, removals>>
  BY DEF WriteRejected
<1>2. glock' = IF glock = c THEN Free ELSE glock
  BY <1>1 DEF WriteRejected, StorageInv, TypeOK
<1> QED BY <1>1, <1>2, RejectedStorage

\* What a settlement writes over a running claim.
LEMMA SettledClaim ==
  ASSUME StorageInv, NEW c \in Call, SettleRun(c)
  PROVE  LET old == claim[req[c]]
         IN  /\ Started(old)
             /\ \E new \in Claim : /\ claim' = [claim EXCEPT ![req[c]] = new]
                                   /\ WellFormed(new) /\ Started(new) /\ new.run = old.run
<1> DEFINE old == claim[req[c]]
<1>1. pc[c] \in {"execute", "recover"}
  BY DEF SettleRun
<1>2. /\ old \in Claim /\ WellFormed(old) /\ old.state = "running" /\ Started(old)
      /\ old.run \in RunId /\ old.digest \in Digest
  BY <1>1, ClaimShape DEF StorageInv, TypeOK, RequestOK, Started, Claim, WellFormed
<1>3. \E new \in Claim : /\ claim' = [claim EXCEPT ![req[c]] = new]
                        /\ WellFormed(new) /\ Started(new) /\ new.run = old.run
  <2>1. PICK status \in Outcome :
          SetClaim(c, IF pc[c] = "recover" THEN RecoveryRequired(old)
                      ELSE Completed(old, [run |-> old.run, digest |-> old.digest,
                                           status |-> status]))
    BY DEF SettleRun
  <2> DEFINE e == [run |-> old.run, digest |-> old.digest, status |-> status]
  <2>2. CASE pc[c] = "recover"
    BY <1>2, <2>1, <2>2, RecoveryValues DEF SetClaim
  <2>3. CASE pc[c] # "recover"
    <3> DEFINE new == Completed(old, e)
    <3>1. e \in RunRecord
      BY <1>2, RecordValues
    <3>2. claim' = [claim EXCEPT ![req[c]] = new]
      BY <2>1, <2>3 DEF SetClaim
    <3>3. new \in Claim /\ WellFormed(new) /\ Started(new) /\ new.run = old.run
      BY <1>2, <3>1, CompletedValues
    <3> HIDE DEF new
    <3> QED BY <3>2, <3>3
  <2> QED BY <2>2, <2>3
<1> QED BY <1>2, <1>3

\* A settled claim keeps its run, and with it its place in the count.
LEMMA SettleRunStorage ==
  ASSUME StorageInv, NEW c \in Call, SettleRun(c)
  PROVE  StorageInv'
<1> DEFINE old == claim[req[c]]
<1>1. /\ pc[c] \in {"execute", "recover"} /\ glock = Free
      /\ pc' = [pc EXCEPT ![c] = "idle"] /\ run' = [run EXCEPT ![c] = NoRun]
      /\ UNCHANGED <<reserved, dirs, glock, req, faults, removals>>
  BY DEF SettleRun, Return, Goto
<1>2. /\ old \in Claim /\ WellFormed(old) /\ old.state = "running" /\ Started(old)
      /\ old.run \in RunId /\ old.digest \in Digest
  BY <1>1, ClaimShape DEF StorageInv, TypeOK, RequestOK, Started, Claim, WellFormed
<1>3. PICK new \in Claim : /\ claim' = [claim EXCEPT ![req[c]] = new]
                          /\ WellFormed(new) /\ Started(new) /\ new.run = old.run
  BY SettledClaim
<1>4. TypeOK'
  BY <1>1, <1>3, CapacityConstants DEF StorageInv, TypeOK, Label, Historical, Requested
<1>5. RequestOK'
  BY <1>1, <1>3 DEF StorageInv, TypeOK, RequestOK, Requested
<1>6. RunOK'
  <2>1. \A r \in Request : claim'[r].run = claim[r].run
    BY <1>1, <1>3 DEF StorageInv, TypeOK
  <2> QED BY <1>1, <2>1, ClaimConstants DEF StorageInv, TypeOK, RunOK, Historical, Requested
<1>7. HistoricalOK'
  BY <1>1 DEF StorageInv, TypeOK, HistoricalOK, Historical
<1>8. CountOK'
  <2>1. ReservationsKept
    BY <1>1 DEF StorageInv, TypeOK, ReservationsKept
  <2>2. ReservingClaims(claim', dirs') \subseteq ReservingClaims(claim, dirs)
    BY <1>1, <1>2, <1>3, ReservingRewrite DEF StorageInv, TypeOK
  <2> QED BY <1>1, <2>1, <2>2, QuietCount DEF StorageInv
<1> QED BY <1>4, <1>5, <1>6, <1>7, <1>8 DEF StorageInv

\* A fault loses at most the reservation of the call that it hits.
LEMMA FaultStorage ==
  ASSUME StorageInv, NEW c \in Call, Fault(c)
  PROVE  StorageInv'
<1>1. TypeOK'
  BY CapacityConstants
     DEF StorageInv, TypeOK, Label, Historical, Requested, Fault, Goto, Return
<1>2. RequestOK'
  BY DEF StorageInv, TypeOK, RequestOK, Requested, Fault, Goto, Return
<1>3. RunOK'
  BY ClaimConstants
     DEF StorageInv, TypeOK, RunOK, Historical, Requested, Fault, Goto, Return
<1>4. HistoricalOK'
  BY DEF StorageInv, TypeOK, HistoricalOK, Historical, Fault, Goto, Return
<1>5. CountOK'
  <2> DEFINE R == ReservingClaims(claim, dirs)
  <2>1. /\ UNCHANGED <<claim, reserved, dirs>> /\ faults' = faults + 1
        /\ pc'[c] \in {"idle", "release"}
        /\ \A d \in Call \ {c} : pc'[d] = pc[d] /\ run'[d] = run[d]
    BY DEF StorageInv, TypeOK, Fault, Goto, Return
  <2>2. Promised' \subseteq Promised
    BY <2>1 DEF Promised
  <2>3. Lost' \subseteq Lost \cup {run[c]}
    BY <2>1 DEF Lost
  <2>4. /\ Cardinality(Promised') \in Nat /\ Cardinality(Promised') <= Cardinality(Promised)
    BY <2>2, Sizes, NoMore DEF StorageInv
  <2>5. /\ Cardinality(Lost') \in Nat /\ Cardinality(Lost') <= Cardinality(Lost) + 1
    BY <2>3, Sizes, AtMostOneMore DEF StorageInv
  <2>6. /\ Cardinality(dirs) + Cardinality(Promised') + Cardinality(R) <= MaxRuns
        /\ Cardinality(Lost') <= faults'
    BY <2>1, <2>4, <2>5, Sizes, CapacityConstants
       DEF StorageInv, TypeOK, CountOK, CapacityNeverExceeded
  <2> QED BY <2>1, <2>6 DEF StorageInv, CountOK, CapacityNeverExceeded
<1> QED BY <1>1, <1>2, <1>3, <1>4, <1>5 DEF StorageInv

\* The operator's removal leaves at most one claim without its directory.
LEMMA RemoveStorage ==
  ASSUME StorageInv, NEW u \in RunId, Remove(u)
  PROVE  StorageInv'
<1>1. TypeOK'
  BY CapacityConstants DEF StorageInv, TypeOK, Remove
<1>2. RequestOK'
  BY DEF StorageInv, RequestOK, Remove
<1>3. RunOK'
  BY DEF StorageInv, RunOK, Remove
<1>4. HistoricalOK'
  BY DEF StorageInv, HistoricalOK, Remove
<1>5. CountOK'
  <2>1. ReservationsKept
    BY DEF ReservationsKept, Remove
  <2> QED BY <2>1, RemovalCount DEF StorageInv, Remove
<1> QED BY <1>1, <1>2, <1>3, <1>4, <1>5 DEF StorageInv

-----------------------------------------------------------------------------
(* The theorems.                                                           *)

\* Nothing is stored at first.
LEMMA InitStorage ==
  ASSUME Init
  PROVE  StorageInv
<1>1. TypeOK
  BY ClaimShape, CapacityConstants DEF Init, TypeOK, Label
<1>2. RequestOK /\ RunOK /\ HistoricalOK
  BY ClaimConstants, ClaimShape
     DEF Init, RequestOK, RunOK, HistoricalOK, Requested, Historical
<1>3. CountOK
  <2>1. ReservingClaims(claim, dirs) = {} /\ Promised = {} /\ Lost = {}
    BY DEF Init, ReservingClaims, NoClaim, Promised, Lost
  <2> QED BY <2>1, FS_EmptySet, CapacityConstants DEF Init, CountOK, CapacityNeverExceeded
<1> QED BY <1>1, <1>2, <1>3 DEF StorageInv

\* A stuttering step changes nothing that the invariant looks at.
LEMMA StutterStorage ==
  ASSUME StorageInv, UNCHANGED vars
  PROVE  StorageInv'
<1>1. TypeOK' /\ RequestOK' /\ RunOK' /\ HistoricalOK'
  BY DEF StorageInv, vars, TypeOK, RequestOK, RunOK, HistoricalOK
<1>2. ReservingClaims(claim', dirs') = ReservingClaims(claim, dirs)
  BY DEF vars
<1>3. CountOK'
  BY <1>2 DEF StorageInv, vars, CountOK, CapacityNeverExceeded, Promised, Lost
<1> QED BY <1>1, <1>3 DEF StorageInv

\* Every step keeps the invariant.
LEMMA NextStorage ==
  ASSUME StorageInv, Next
  PROVE  StorageInv'
BY SimulateStorage, ReserveStorage, PromoteStorage, UnreserveStorage, ReleaseStorage,
   EndRunStorage, SubmitStorage, ReserveRequestStorage, ProbeEngineStorage,
   PublishRunStorage, MakeRunDirectoryStorage, StartRunStorage, RejectRequestStorage,
   WriteRejectedStorage, SettleRunStorage, FaultStorage, RemoveStorage DEF Next

\* What the calls know of claims and reservations holds throughout, for any
\* number of calls, requests and runs, any limit, and any number of faults.
THEOREM StorageInvariant == Spec => []StorageInv
<1>1. Init => StorageInv
  BY InitStorage
<1>2. StorageInv /\ [Next]_vars => StorageInv'
  BY NextStorage, StutterStorage
<1> QED BY <1>1, <1>2, PTL DEF Spec

\* The files and the calls keep their types, and the global lock is held
\* exactly between two writes of one coordinator operation.
THEOREM StorageTypes == Spec => []TypeOK
<1>1. StorageInv => TypeOK
  BY DEF StorageInv
<1> QED BY <1>1, StorageInvariant, PTL

\* The limit of stored runs is never exceeded by run directories, promised
\* runs and request claims together, whoever reserves, promotes or dies when.
THEOREM CapacityIsNeverExceeded == Spec => []CapacityNeverExceeded
<1>1. StorageInv => CapacityNeverExceeded
  BY DEF StorageInv, CountOK
<1> QED BY <1>1, StorageInvariant, PTL

-----------------------------------------------------------------------------
(* Claims that lost their run directory.                                   *)

\* Requests that were started and whose run directory is gone.
Stranded == {r \in Request : Started(claim[r]) /\ claim[r].run \notin dirs}

\* A run is started in its directory, and stranded only by a removal.
StrandedOK ==
  /\ \A c \in Call : pc[c] = "start" => run[c] \in dirs
  /\ Cardinality(Stranded) <= removals

\* What two sets cover is no more than both together.
LEMMA AtMostBoth ==
  ASSUME NEW S, NEW T, IsFiniteSet(S), IsFiniteSet(T), NEW U, U \subseteq S \cup T
  PROVE  /\ IsFiniteSet(U) /\ Cardinality(U) \in Nat
         /\ Cardinality(U) <= Cardinality(S) + Cardinality(T)
<1>1. IsFiniteSet(S \cap T) /\ Cardinality(S \cap T) \in Nat /\ Cardinality(S) \in Nat
  BY NoMore
<1>2. /\ IsFiniteSet(S \cup T) /\ Cardinality(T) \in Nat
      /\ Cardinality(S \cup T) = Cardinality(S) + Cardinality(T) - Cardinality(S \cap T)
  BY FS_Union, FS_CardinalityType
<1>3. /\ IsFiniteSet(U) /\ Cardinality(U) \in Nat /\ Cardinality(S \cup T) \in Nat
      /\ Cardinality(U) <= Cardinality(S \cup T)
  BY <1>2, NoMore
<1> QED BY <1>1, <1>2, <1>3

\* What is stranded is counted as a claim that reserves.
LEMMA StrandedReserve ==
  ASSUME StorageInv
  PROVE  /\ Stranded \subseteq ReservingClaims(claim, dirs)
         /\ ReservingClaims(claim, dirs) \subseteq Stranded \cup Awaited
         /\ IsFiniteSet(Stranded) /\ Cardinality(Stranded) \in Nat
         /\ IsFiniteSet(Awaited) /\ Cardinality(Awaited) \in Nat
<1>1. ASSUME NEW r \in Stranded PROVE r \in ReservingClaims(claim, dirs)
  BY <1>1 DEF Stranded, StorageInv, TypeOK, ReservingClaims, NonReserving, Started
<1>2. ASSUME NEW r \in ReservingClaims(claim, dirs) PROVE r \in Stranded \cup Awaited
  <2>1. r \in Request /\ claim[r] \in Claim
    BY DEF StorageInv, TypeOK, ReservingClaims
  <2>2. claim[r].state # "absent" /\ ~ NonReserving(claim[r], dirs)
    BY DEF ReservingClaims
  <2>3. SlotReserved(claim[r]) \/ (Started(claim[r]) /\ claim[r].run \notin dirs)
    BY <2>1, <2>2 DEF Claim, ClaimState, NonReserving, SlotReserved, Started
  <2> QED BY <2>1, <2>3 DEF Stranded, Awaited
<1>3. Awaited \subseteq ReservingClaims(claim, dirs)
  BY DEF Awaited
<1> QED BY <1>1, <1>2, <1>3, NoMore DEF StorageInv, CountOK

\* A step that strands nothing keeps the bound.
LEMMA NothingStranded ==
  ASSUME StorageInv, StrandedOK, Stranded' \subseteq Stranded, removals' = removals
  PROVE  Cardinality(Stranded') <= removals'
<1>1. Cardinality(Stranded') \in Nat /\ Cardinality(Stranded') <= Cardinality(Stranded)
  BY StrandedReserve, NoMore
<1> QED BY <1>1, StrandedReserve DEF StrandedOK, StorageInv, TypeOK

\* A rewritten claim strands nothing unless it is started without a directory.
LEMMA RewriteStrands ==
  ASSUME StorageInv, NEW k \in Request, NEW new \in Claim, claim' = [claim EXCEPT ![k] = new],
         dirs' = dirs, Started(new) /\ new.run \notin dirs => k \in Stranded
  PROVE  Stranded' \subseteq Stranded
<1> SUFFICES ASSUME NEW r \in Stranded' PROVE r \in Stranded
  OBVIOUS
<1>1. CASE r = k
  BY <1>1 DEF Stranded, StorageInv, TypeOK
<1>2. CASE r # k
  BY <1>2 DEF Stranded, StorageInv, TypeOK
<1> QED BY <1>1, <1>2

\* Steps that leave the claims alone and remove no directory.
LEMMA ClaimsStay ==
  ASSUME claim' = claim, dirs \subseteq dirs'
  PROVE  Stranded' \subseteq Stranded
BY DEF Stranded

\* The coordinator's claims strand nothing: a run is started in its directory,
\* and a settled claim keeps the run of the running one.
LEMMA WritesStrandNothing ==
  ASSUME StorageInv, StrandedOK, NEW c \in Call, dirs' = dirs,
         ReserveRequest(c) \/ PublishRun(c) \/ StartRun(c) \/ WriteRejected(c) \/ SettleRun(c)
  PROVE  Stranded' \subseteq Stranded
<1> DEFINE old == claim[req[c]]
<1>1. req[c] \in Request /\ old \in Claim /\ WellFormed(old)
  BY DEF StorageInv, TypeOK
<1>2. CASE claim' = claim
  BY <1>2, ClaimsStay
<1>3. CASE \E d \in Digest : SetClaim(c, Claimed(d))
  <2>1. PICK d \in Digest : claim' = [claim EXCEPT ![req[c]] = Claimed(d)]
    BY <1>3 DEF SetClaim
  <2>2. Claimed(d) \in Claim /\ ~ Started(Claimed(d))
    BY ClaimedValues, ClaimShape
  <2> QED BY <1>1, <2>1, <2>2, RewriteStrands
<1>4. CASE PublishRun(c)
  <2>1. claim' = [claim EXCEPT ![req[c]] = Promoting(old, run[c])]
        /\ SlotReserved(old) /\ run[c] \in RunId
    BY <1>4 DEF PublishRun, SetClaim, StorageInv, RequestOK, RunOK
  <2>2. Promoting(old, run[c]) \in Claim /\ ~ Started(Promoting(old, run[c]))
    BY <1>1, <2>1, PromotingValues, ClaimShape
  <2> QED BY <1>1, <2>1, <2>2, RewriteStrands
<1>5. CASE StartRun(c)
  <2>1. /\ claim' = [claim EXCEPT ![req[c]] = Running(old)]
        /\ old.state = "promoting" /\ old.run = run[c] /\ run[c] \in dirs
    BY <1>5 DEF StartRun, SetClaim, StorageInv, RequestOK, StrandedOK
  <2>2. Running(old) \in Claim /\ Running(old).run \in dirs
    BY <1>1, <2>1, RunningValues
  <2> QED BY <1>1, <2>1, <2>2, RewriteStrands
<1>6. CASE WriteRejected(c)
  <2>1. claim' = [claim EXCEPT ![req[c]] = Rejected(old)] /\ SlotReserved(old)
    BY <1>6 DEF WriteRejected, SetClaim, StorageInv, RequestOK, SlotReserved
  <2>2. Rejected(old) \in Claim /\ ~ Started(Rejected(old))
    BY <1>1, <2>1, RejectedValues
  <2> QED BY <1>1, <2>1, <2>2, RewriteStrands
<1>7. CASE SettleRun(c)
  <2>1. PICK new : /\ claim' = [claim EXCEPT ![req[c]] = new]
                   /\ new \in Claim /\ new.run = old.run /\ Started(old)
    BY <1>7, SettledClaim
  <2>2. new.run \notin dirs => req[c] \in Stranded
    BY <1>1, <2>1 DEF Stranded
  <2> QED BY <1>1, <2>1, <2>2, RewriteStrands
<1>8. ReserveRequest(c) => claim' = claim \/ \E d \in Digest : SetClaim(c, Claimed(d))
  BY DEF ReserveRequest
<1> QED BY <1>2, <1>3, <1>4, <1>5, <1>6, <1>7, <1>8

\* A rejection removes the directory of its own promotion, which is not started.
LEMMA RejectionStrandsNothing ==
  ASSUME StorageInv, StrandedOK, NEW c \in Call, RejectRequest(c)
  PROVE  StrandedOK'
<1> DEFINE old == claim[req[c]]
<1>1. /\ req[c] \in Request /\ old \in Claim /\ WellFormed(old) /\ SlotReserved(old)
      /\ pc[c] = "reject" /\ removals' = removals /\ pc'[c] # "start"
      /\ \A d \in Call : pc'[d] = "start" => pc[d] = "start" /\ run'[d] = run[d] /\ d # c
  BY DEF StorageInv, TypeOK, RequestOK, RejectRequest, Return, Goto
<1>2. CASE old.state # "promoting"
  <2>1. claim' = [claim EXCEPT ![req[c]] = Rejected(old)] /\ dirs' = dirs
    BY <1>2 DEF RejectRequest, SetClaim
  <2>2. Rejected(old) \in Claim /\ ~ Started(Rejected(old))
    BY <1>1, RejectedValues
  <2>3. Stranded' \subseteq Stranded
    BY <1>1, <2>1, <2>2, RewriteStrands
  <2> QED BY <1>1, <2>1, <2>3, NothingStranded DEF StrandedOK
<1>3. CASE old.state = "promoting"
  <2>1. claim' = claim /\ dirs' = dirs \ {old.run}
    BY <1>3 DEF RejectRequest
  <2>2. old.run \in RunId /\ ~ Started(old)
    BY <1>1, <1>3, ClaimShape
  <2>3. \A r \in Request : claim[r].run = old.run => r = req[c]
    BY <1>1, <2>2 DEF StorageInv, RunOK
  <2>4. Stranded' \subseteq Stranded
    BY <2>1, <2>2, <2>3 DEF Stranded
  <2>5. \A d \in Call : pc[d] = "start" /\ d # c => run[d] # old.run
    <3> SUFFICES ASSUME NEW d \in Call, pc[d] = "start", d # c, run[d] = old.run PROVE FALSE
      OBVIOUS
    <3>1. claim[req[d]].run = old.run /\ req[d] \in Request
      BY DEF StorageInv, TypeOK, RequestOK
    <3>2. req[d] = req[c]
      BY <2>3, <3>1
    <3> QED BY <1>1, <3>2 DEF StorageInv, RequestOK, Requested
  <2> QED BY <1>1, <2>1, <2>4, <2>5, NothingStranded DEF StrandedOK
<1> QED BY <1>2, <1>3

\* A removal strands the one claim that names the run, if there is one.
LEMMA RemovalStrands ==
  ASSUME StorageInv, StrandedOK, NEW u \in RunId, Remove(u)
  PROVE  StrandedOK'
<1>1. /\ dirs' = dirs \ {u} /\ removals' = removals + 1 /\ UNCHANGED <<claim, pc, run>>
      /\ \A c \in Call : run[c] # u
  BY DEF Remove
<1>2. \E x : Stranded' \subseteq Stranded \cup {x}
  <2>1. CASE \E k \in Request : claim[k].run = u
    <3>1. PICK k \in Request : claim[k].run = u
      BY <2>1
    <3>2. \A r \in Request : claim[r].run = u => r = k
      BY <3>1 DEF StorageInv, RunOK
    <3>3. Stranded' \subseteq Stranded \cup {k}
      BY <1>1, <3>2 DEF Stranded
    <3> QED BY <3>3
  <2>2. CASE \A k \in Request : claim[k].run # u
    <3>1. Stranded' \subseteq Stranded
      BY <1>1, <2>2 DEF Stranded
    <3> QED BY <3>1
  <2> QED BY <2>1, <2>2
<1>3. Cardinality(Stranded') \in Nat /\ Cardinality(Stranded') <= Cardinality(Stranded) + 1
  BY <1>2, StrandedReserve, AtMostOneMore
<1> QED BY <1>1, <1>3, StrandedReserve DEF StrandedOK, StorageInv, TypeOK

\* Only the operator's removal strands a claim.
LEMMA NextStranded ==
  ASSUME StorageInv, StrandedOK, Next
  PROVE  StrandedOK'
<1> USE CapacityConstants
<1>1. ASSUME NEW c \in Call, Simulate(c) \/ Reserve(c) \/ Unreserve(c) \/ Release(c) \/ EndRun(c)
                               \/ (\E r \in Request : Submit(c, r)) \/ ProbeEngine(c) \/ Fault(c)
      PROVE  StrandedOK'
  <2>1. UNCHANGED <<claim, dirs, removals>>
    BY <1>1 DEF Simulate, Reserve, Unreserve, Release, EndRun, Submit, ProbeEngine, Fault
  <2>2. \A d \in Call : pc'[d] = "start" => pc[d] = "start" /\ run'[d] = run[d]
    BY <1>1 DEF StorageInv, TypeOK, Simulate, Reserve, Unreserve, Release, EndRun, Submit,
                ProbeEngine, Fault, Return, Goto
  <2> QED BY <2>1, <2>2, ClaimsStay, NothingStranded DEF StrandedOK
<1>2. ASSUME NEW c \in Call, Promote(c) \/ MakeRunDirectory(c) PROVE StrandedOK'
  <2>1. dirs' = dirs \cup {run[c]} /\ UNCHANGED <<claim, run, removals>>
    BY <1>2 DEF Promote, MakeRunDirectory
  <2>2. \A d \in Call : pc'[d] = "start" => pc[d] = "start" \/ d = c
    BY <1>2 DEF StorageInv, TypeOK, Promote, MakeRunDirectory, Goto
  <2> QED BY <2>1, <2>2, ClaimsStay, NothingStranded DEF StrandedOK
<1>3. ASSUME NEW c \in Call, ReserveRequest(c) \/ PublishRun(c) \/ StartRun(c)
                               \/ WriteRejected(c) \/ SettleRun(c)
      PROVE  StrandedOK'
  <2>1. UNCHANGED <<dirs, removals>>
    BY <1>3 DEF ReserveRequest, PublishRun, StartRun, WriteRejected, SettleRun
  <2>2. \A d \in Call : pc'[d] = "start" => pc[d] = "start" /\ run'[d] = run[d]
    BY <1>3 DEF StorageInv, TypeOK, ReserveRequest, PublishRun, StartRun, WriteRejected, SettleRun,
                Return, Goto
  <2>3. Stranded' \subseteq Stranded
    BY <1>3, <2>1, WritesStrandNothing
  <2> QED BY <2>1, <2>2, <2>3, NothingStranded DEF StrandedOK
<1>4. ASSUME NEW c \in Call, RejectRequest(c) PROVE StrandedOK'
  BY <1>4, RejectionStrandsNothing
<1>5. ASSUME NEW u \in RunId, Remove(u) PROVE StrandedOK'
  BY <1>5, RemovalStrands
<1> QED BY <1>1, <1>2, <1>3, <1>4, <1>5 DEF Next

\* As long as the global lock is free, the slots that nothing will use are no
\* more than the calls that died or threw and the directories that were removed.
THEOREM LostSlotsExplained == Spec => []LostSlotsAreExplained
<1>1. Init => StrandedOK
  <2> SUFFICES ASSUME Init PROVE StrandedOK
    OBVIOUS
  <2>1. Stranded = {}
    BY ClaimShape DEF Init, Stranded
  <2> QED BY <2>1, FS_EmptySet DEF Init, StrandedOK
<1>2. StorageInv /\ StrandedOK /\ [Next]_vars => StrandedOK'
  <2> SUFFICES ASSUME StorageInv, StrandedOK, [Next]_vars PROVE StrandedOK'
    OBVIOUS
  <2>1. CASE UNCHANGED vars
    BY <2>1 DEF vars, StrandedOK, Stranded
  <2> QED BY <2>1, NextStranded
<1>3. StorageInv /\ StrandedOK => LostSlotsAreExplained
  <2> SUFFICES ASSUME StorageInv, StrandedOK, glock = Free
               PROVE  SlotsInUse <= Cardinality(dirs) + Cardinality(Promised)
                                      + Cardinality(Awaited) + faults + removals
    BY DEF LostSlotsAreExplained
  <2>1. \A c \in Call : pc[c] # "unreserve"
    BY CapacityConstants DEF StorageInv, TypeOK
  <2>2. reserved \subseteq Promised \cup Lost
    BY <2>1 DEF StorageInv, HistoricalOK, Promised, Lost
  <2>3. /\ Cardinality(reserved) \in Nat
        /\ Cardinality(reserved) <= Cardinality(Promised) + Cardinality(Lost)
    BY <2>2, Sizes, AtMostBoth DEF StorageInv
  <2>4. /\ Cardinality(ReservingClaims(claim, dirs)) \in Nat
        /\ Cardinality(ReservingClaims(claim, dirs)) <= Cardinality(Stranded) + Cardinality(Awaited)
    BY StrandedReserve, AtMostBoth
  <2>5. /\ Cardinality(Lost) <= faults /\ faults \in Nat
        /\ Cardinality(Stranded) <= removals /\ removals \in Nat
    BY DEF StorageInv, TypeOK, CountOK, StrandedOK
  <2> QED BY <2>3, <2>4, <2>5, Sizes, StrandedReserve DEF StorageInv, SlotsInUse, UsedSlots
<1> QED BY <1>1, <1>2, <1>3, StorageInvariant, PTL DEF Spec

=============================================================================
