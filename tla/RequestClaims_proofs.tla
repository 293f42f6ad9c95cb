------------------------ MODULE RequestClaims_proofs ------------------------
(***************************************************************************)
(* Lemmas about the operators of RequestClaims, which the proofs of every  *)
(* protocol over the claims cite: what each rewrite of a claim yields, and *)
(* how the rewrites, new directories and removed ones change the number of *)
(* slots in use.                                                           *)
(***************************************************************************)
EXTENDS RequestClaims, FiniteSetTheorems, TLAPS

-----------------------------------------------------------------------------
(* Claims.                                                                 *)

\* What WellFormed says of any claim that parseClaim accepts.
LEMMA ClaimShape ==
  /\ NoClaim \in Claim /\ WellFormed(NoClaim) /\ NoClaim.run = NoRun
  /\ ~ SlotReserved(NoClaim) /\ ~ Started(NoClaim)
  /\ \A c \in Claim :
       /\ SlotReserved(c) => ~ Started(c) /\ c # NoClaim
       /\ Started(c) => c # NoClaim
       /\ Started(c) => c.state # "promoting"
       /\ SlotReserved(c) <=> c.state \in {"claimed", "promoting"}
       /\ Started(c) <=> c.state \in {"running", "recovery_required", "completed"}
  /\ \A c \in Claim : WellFormed(c) =>
       /\ c = NoClaim <=> c.digest = NoDigest
       /\ c # NoClaim => c.state # "absent"
       /\ Started(c) \/ c.state = "promoting" => c.run \in RunId /\ c.run # NoRun
       /\ SlotReserved(c) /\ c.state # "promoting" => c.run = NoRun
BY ClaimConstants DEF NoClaim, Claim, ClaimState, WellFormed, NoRecord, RunRecord,
     Outcome, SlotReserved, Started

\* A fresh claim is well formed and reserves a slot.
LEMMA ClaimedValues ==
  ASSUME NEW d \in Digest
  PROVE  /\ Claimed(d) \in Claim /\ WellFormed(Claimed(d)) /\ Claimed(d) # NoClaim
         /\ SlotReserved(Claimed(d)) /\ Claimed(d).state = "claimed"
         /\ Claimed(d).digest = d /\ Claimed(d).run = NoRun
BY ClaimConstants DEF Claimed, NoClaim, Claim, ClaimState, WellFormed, NoRecord,
     SlotReserved, Started

\* A promotion keeps the bytes, sets the run_id and still reserves the slot.
LEMMA PromotingValues ==
  ASSUME NEW c \in Claim, WellFormed(c), SlotReserved(c), NEW u \in RunId
  PROVE  LET n == Promoting(c, u)
         IN  /\ n \in Claim /\ WellFormed(n) /\ n # NoClaim /\ SlotReserved(n)
             /\ n.state = "promoting" /\ n.run = u /\ n.digest = c.digest
BY ClaimConstants DEF Promoting, NoClaim, Claim, ClaimState, WellFormed, NoRecord,
     SlotReserved, Started

\* The running claim is the promoted one, started.
LEMMA RunningValues ==
  ASSUME NEW c \in Claim, WellFormed(c), c.state = "promoting"
  PROVE  LET n == Running(c)
         IN  /\ n \in Claim /\ WellFormed(n) /\ n # NoClaim /\ Started(n)
             /\ n.run = c.run /\ n.digest = c.digest
BY ClaimConstants DEF Running, NoClaim, Claim, ClaimState, WellFormed, NoRecord,
     SlotReserved, Started

\* A recovery claim differs from the running one in its state only.
LEMMA RecoveryValues ==
  ASSUME NEW c \in Claim, WellFormed(c), c.state = "running"
  PROVE  LET n == RecoveryRequired(c)
         IN  /\ n \in Claim /\ WellFormed(n) /\ n # NoClaim /\ Started(n)
             /\ n.state = "recovery_required" /\ n.run = c.run /\ n.digest = c.digest
BY ClaimConstants DEF RecoveryRequired, NoClaim, Claim, ClaimState, WellFormed, NoRecord,
     SlotReserved, Started

\* A rejection keeps the bytes and the run_id, and reserves nothing.
LEMMA RejectedValues ==
  ASSUME NEW c \in Claim, WellFormed(c), SlotReserved(c)
  PROVE  LET n == Rejected(c)
         IN  /\ n \in Claim /\ WellFormed(n) /\ n # NoClaim
             /\ ~ Started(n) /\ ~ SlotReserved(n) /\ n.state = "rejected"
             /\ n.run = c.run /\ n.digest = c.digest
BY ClaimConstants DEF Rejected, NoClaim, Claim, ClaimState, WellFormed, NoRecord,
     SlotReserved, Started

\* A completed claim seals the record and keeps the bytes and the run_id.
LEMMA CompletedValues ==
  ASSUME NEW c \in Claim, WellFormed(c), Started(c),
         NEW e \in RunRecord
  PROVE  LET n == Completed(c, e)
         IN  /\ n \in Claim /\ WellFormed(n) /\ n # NoClaim /\ Started(n)
             /\ n.state = "completed" /\ n.run = c.run /\ n.digest = c.digest
BY ClaimConstants DEF Completed, NoClaim, Claim, ClaimState, WellFormed, NoRecord,
     RunRecord, SlotReserved, Started

\* A run.json names a run and bytes, and differs from the absent one.
LEMMA RecordValues ==
  /\ \A e \in RunRecord : e.run \in RunId /\ e.digest \in Digest /\ e # NoRecord
  /\ \A u \in RunId, d \in Digest, o \in Outcome :
       [run |-> u, digest |-> d, status |-> o] \in RunRecord
BY ClaimConstants DEF RunRecord, NoRecord

-----------------------------------------------------------------------------
(* Slots.                                                                  *)

\* A claim that is no claim yet, is rejected, or has its directory takes no
\* slot of its own; a claimed one does, and any other takes one exactly as
\* long as its directory is missing.
LEMMA ReservingValues ==
  ASSUME NEW C \in [Request -> Claim], NEW D, NEW r \in Request
  PROVE  /\ C[r].state \in {"absent", "rejected"} => r \notin ReservingClaims(C, D)
         /\ C[r].state = "claimed" => r \in ReservingClaims(C, D)
         /\ C[r].state = "promoting" \/ Started(C[r]) =>
              (r \in ReservingClaims(C, D) <=> C[r].run \notin D)
BY DEF ReservingClaims, NonReserving, Started

\* Claims that are not rewritten, or keep what NonReserving looks at, reserve
\* as before.
LEMMA ReservingKept ==
  ASSUME NEW C \in [Request -> Claim], NEW k \in Request, NEW new \in Claim, NEW D
  PROVE  LET E == [C EXCEPT ![k] = new]
         IN  /\ ReservingClaims(E, D) \subseteq ReservingClaims(C, D) \cup {k}
             /\ ReservingClaims(C, D) \subseteq ReservingClaims(E, D) \cup {k}
BY DEF ReservingClaims, NonReserving

\* A rewrite reserves nothing new if it rejects, starts from a claim that
\* certainly reserves, or keeps the run of one that has a run.
LEMMA ReservingRewrite ==
  ASSUME NEW C \in [Request -> Claim], NEW k \in Request, NEW new \in Claim, NEW D,
         \/ new.state = "rejected"
         \/ C[k].state = "claimed"
         \/ /\ C[k].state = "promoting" \/ Started(C[k])
            /\ new.state = "promoting" \/ Started(new)
            /\ new.run = C[k].run
  PROVE  ReservingClaims([C EXCEPT ![k] = new], D) \subseteq ReservingClaims(C, D)
<1> DEFINE E == [C EXCEPT ![k] = new]
<1>1. E \in [Request -> Claim] /\ E[k] = new
  OBVIOUS
<1>2. k \in ReservingClaims(E, D) => k \in ReservingClaims(C, D)
  <2>1. CASE new.state = "rejected"
    BY <1>1, <2>1, ReservingValues
  <2>2. CASE C[k].state = "claimed"
    BY <2>2, ReservingValues
  <2>3. CASE /\ C[k].state = "promoting" \/ Started(C[k])
             /\ new.state = "promoting" \/ Started(new)
             /\ new.run = C[k].run
    <3>1. C[k].run \notin D => k \in ReservingClaims(C, D)
      BY <2>3, ReservingValues
    <3>2. k \in ReservingClaims(E, D) => new.run \notin D
      BY <1>1, <2>3, ReservingValues
    <3> QED BY <2>3, <3>1, <3>2
  <2> QED BY <2>1, <2>2, <2>3
<1>3. ReservingClaims(E, D) \subseteq ReservingClaims(C, D) \cup {k}
  BY ReservingKept
<1> QED BY <1>2, <1>3

\* Directories settle the claims of their run only.
LEMMA ReservingDirectories ==
  ASSUME NEW C \in [Request -> Claim], NEW D, NEW u, NEW k \in Request,
         \A r \in Request : C[r].run = u => r = k
  PROVE  /\ ReservingClaims(C, D \cup {u}) \subseteq ReservingClaims(C, D)
         /\ ReservingClaims(C, D \ {u}) \subseteq ReservingClaims(C, D) \cup {k}
BY DEF ReservingClaims, NonReserving

\* A set that gains at most one element gains at most one in number.
LEMMA AtMostOneMore ==
  ASSUME NEW S, IsFiniteSet(S), NEW T, NEW x, T \subseteq S \cup {x}
  PROVE  /\ IsFiniteSet(T) /\ Cardinality(S) \in Nat /\ Cardinality(T) \in Nat
         /\ Cardinality(T) <= Cardinality(S) + 1
<1>1. /\ IsFiniteSet(S \cup {x}) /\ Cardinality(S) \in Nat
      /\ Cardinality(S \cup {x}) = IF x \in S THEN Cardinality(S) ELSE Cardinality(S) + 1
  BY FS_AddElement, FS_CardinalityType
<1>2. /\ IsFiniteSet(T) /\ Cardinality(T) \in Nat
      /\ Cardinality(T) <= Cardinality(S \cup {x})
  BY <1>1, FS_Subset, FS_CardinalityType
<1> QED BY <1>1, <1>2

\* A set that loses an element that it has is smaller by one.
LEMMA OneLess ==
  ASSUME NEW S, IsFiniteSet(S), NEW x \in S, NEW T, T \subseteq S \ {x}
  PROVE  /\ IsFiniteSet(T) /\ Cardinality(S) \in Nat /\ Cardinality(T) \in Nat
         /\ Cardinality(T) + 1 <= Cardinality(S)
<1>1. /\ IsFiniteSet(S \ {x}) /\ Cardinality(S) \in Nat
      /\ Cardinality(S \ {x}) = Cardinality(S) - 1
  BY FS_RemoveElement, FS_CardinalityType
<1>2. /\ IsFiniteSet(T) /\ Cardinality(T) \in Nat
      /\ Cardinality(T) <= Cardinality(S \ {x})
  BY <1>1, FS_Subset, FS_CardinalityType
<1> QED BY <1>1, <1>2

\* A subset of a finite set is finite and no larger.
LEMMA NoMore ==
  ASSUME NEW S, IsFiniteSet(S), NEW T, T \subseteq S
  PROVE  /\ IsFiniteSet(T) /\ Cardinality(S) \in Nat /\ Cardinality(T) \in Nat
         /\ Cardinality(T) <= Cardinality(S)
BY FS_Subset, FS_CardinalityType

=============================================================================
