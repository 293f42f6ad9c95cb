---------------------------- MODULE MCHistoricalRun ----------------------------
(***************************************************************************)
(* Instance of HistoricalRun for TLC: a kit with a parameter schema, its   *)
(* successor, a kit without one, and runs of older releases.               *)
(***************************************************************************)
EXTENDS HistoricalRun

CONSTANTS k1, k2, k3, m1, m2

MCProduced == [k \in Kit |-> IF k = k3 THEN {m1} ELSE {m1, m2}]
MCRequired == [k \in Kit |-> {m1}]
MCInstalled == {k1, k3}
MCReleases == {MCInstalled, {k2, k3}}

OldArtifact(kind) ==
  Artifact(kind, IF kind = "evidence" THEN [status |-> "failed", attestation |-> Nothing]
                                      ELSE Source(kind, k1))

\* A failed run of a 0.2.x release, and one of a 2.0 release before attestations.
OldLedger(generation, order) ==
  LET run == [generation |-> generation, status |-> "failed",
              started |-> IF generation = "2.0" THEN 0 ELSE Nothing,
              completed |-> 0, kit |-> k1, engine |-> Qualified,
              resolved |-> CHOOSE v \in Reviewed : TRUE,
              schema |-> IF generation = "2.0" THEN SchemaOf(k1) ELSE Nothing,
              metrics |-> {}, fingerprint |-> Nothing,
              artifacts |-> [i \in DOMAIN order |-> OldArtifact(order[i])]]
  IN  [run EXCEPT !.fingerprint = IF generation = "2.0" THEN Fingerprint(run)
                                                        ELSE LegacyFingerprint(run)]

Without(order, kinds) == SelectSeq(order, LAMBDA k : k \notin kinds)

MCOldRun ==
  {[ledger |-> OldLedger("legacy", Without(LegacyOrder, {"result"})), evidence |-> Nothing],
   [ledger |-> OldLedger("2.0", Without(Order, {"result"})),
    evidence |-> [status |-> "failed", attestation |-> Nothing]]}

=============================================================================
