------------------------------ MODULE RunRecord ------------------------------
(***************************************************************************)
(* The historical run ledgers, run.json of generation "2.0" and of the     *)
(* older 0.2.x: what the strict reader of each accepts, what a run is      *)
(* checked against in the kits of the running release and in its own       *)
(* evidence.json, and the projection of a 2.0 ledger to the frozen 1.0     *)
(* contract.  A SHA-256 digest is modelled by the content it is taken of.  *)
(***************************************************************************)
EXTENDS Naturals, SequencesExt, AscendingOrder

CONSTANTS
  Kit,        \* qualified kit identities: id, version, source, scenario
  WithSchema, \* the kits with a compiler-derived parameter schema
  Metric,     \* metric ids
  Produced,   \* [Kit -> SUBSET Metric], the metrics a kit declares
  Required,   \* [Kit -> SUBSET Metric], those a success must have
  Value,      \* parameter values
  Reviewed,   \* the values inside the reviewed bounds
  Engine,     \* OMC and MSL identities
  Qualified,  \* the engine the shipped kits are qualified for
  Nothing     \* an optional field or artifact that is not there

ASSUME RecordConstants ==
  /\ WithSchema \subseteq Kit /\ Reviewed \subseteq Value /\ Qualified \in Engine
  /\ Produced \in [Kit -> SUBSET Metric] /\ Required \in [Kit -> SUBSET Metric]
  /\ \A k \in Kit : Required[k] \subseteq Produced[k]

Status == {"succeeded", "failed", "timed_out"}

\* ARTIFACT_ORDER and LEGACY_ARTIFACT_ORDER.
Order ==
  <<"request", "resolved_parameters", "model", "scenario", "parameter_schema",
    "script", "diagnostics", "result", "evidence">>
LegacyOrder ==
  <<"request", "resolved_parameters", "model", "script", "diagnostics", "result", "evidence">>

Kinds(order) == ToSet(order)
Optional     == {"parameter_schema", "result"}

\* The content of the artifacts that come from the kit; its digest.
Source(kind, kit) == <<kind, kit>>

Position(order, kind) == CHOOSE i \in DOMAIN order : order[i] = kind

Qualification(kind) ==
  CASE kind \in {"model", "scenario"} -> "qualified-kit"
    [] kind = "parameter_schema"      -> "compiler-derived-verified"
    [] OTHER                          -> Nothing

Artifact(kind, content) ==
  [kind |-> kind, sha256 |-> content, qualification |-> Qualification(kind)]

Has(artifacts, kind) == \E i \in DOMAIN artifacts : artifacts[i].kind = kind

\* artifacts.find(kind)?.sha256
Digest(artifacts, kind) ==
  IF Has(artifacts, kind)
    THEN artifacts[CHOOSE i \in DOMAIN artifacts : artifacts[i].kind = kind].sha256
    ELSE Nothing

\* The parameter_schema field: present with the kits that have one.
SchemaOf(kit) == IF kit \in WithSchema THEN Source("parameter_schema", kit) ELSE Nothing

Fingerprint(run) == <<run.engine, run.kit, run.schema, run.resolved>>
LegacyFingerprint(run) == <<run.engine, run.kit, run.resolved>>

-----------------------------------------------------------------------------
(* The strict parsers.                                                     *)

\* Every kind once, in the canonical order, and none that is required missing.
Canonical(artifacts, order) ==
  /\ \A i \in DOMAIN artifacts : artifacts[i].kind \in Kinds(order)
  /\ \A i \in 2 .. Len(artifacts) :
       Position(order, artifacts[i-1].kind) < Position(order, artifacts[i].kind)
  /\ \A kind \in Kinds(order) \ Optional : Has(artifacts, kind)

\* completed_at does not precede started_at; a legacy ledger may lack either.
InOrder(run) ==
  (run.started # Nothing /\ run.completed # Nothing) => run.started <= run.completed

\* parseSimulationRunRecord
ValidRecorded(run) ==
  /\ run.generation = "2.0" /\ run.status \in Status
  /\ InOrder(run)
  /\ Canonical(run.artifacts, Order)
  /\ \A i \in DOMAIN run.artifacts :
       run.artifacts[i].qualification = Qualification(run.artifacts[i].kind)
  /\ Has(run.artifacts, "parameter_schema") <=> run.schema # Nothing
  /\ \A kind \in {"model", "scenario"} :
       Digest(run.artifacts, kind) = Source(kind, run.kit)
  /\ Digest(run.artifacts, "parameter_schema") = run.schema
  /\ run.fingerprint = Fingerprint(run)

\* parseLegacySimulationRunRecord
ValidLegacy(run) ==
  /\ run.generation = "legacy" /\ run.status \in Status
  /\ InOrder(run)
  /\ Canonical(run.artifacts, LegacyOrder)
  /\ Digest(run.artifacts, "model") = Source("model", run.kit)
  /\ run.fingerprint = LegacyFingerprint(run)

\* projectRecordedRunToLegacy: the frozen 1.0 face of a recorded run, with the
\* artifacts of the legacy kinds, in their order and without a qualification.
LegacyArtifacts(artifacts) ==
  LET kept == Ascending({i \in DOMAIN artifacts : artifacts[i].kind \in Kinds(LegacyOrder)})
  IN  [j \in DOMAIN kept |->
         [kind |-> artifacts[kept[j]].kind, sha256 |-> artifacts[kept[j]].sha256]]

Project(run) ==
  [generation |-> "legacy", status |-> run.status, started |-> run.started,
   completed |-> run.completed, kit |-> run.kit, engine |-> run.engine,
   resolved |-> run.resolved, schema |-> Nothing, metrics |-> run.metrics,
   artifacts |-> LegacyArtifacts(run.artifacts), fingerprint |-> LegacyFingerprint(run)]

-----------------------------------------------------------------------------
(* Against the kits of the running release, and against evidence.json.     *)

\* validateProducedMetrics
ValidMetrics(kit, metrics, requireRequired) ==
  /\ metrics \subseteq Produced[kit]
  /\ requireRequired => Required[kit] \subseteq metrics

\* assertRunKitIdentity and assertResolvedParameters
KitIdentity(run, kits) ==
  /\ run.kit \in kits
  /\ ValidMetrics(run.kit, run.metrics, run.status = "succeeded")
  /\ run.generation = "2.0" => run.schema = SchemaOf(run.kit)
  /\ run.resolved \in Reviewed

RawCsv(status, sha) == [status |-> status, sha256 |-> sha]

\* rawCsvFrom: the digest the runner captured, or that of the persisted CSV;
\* Nothing when the two disagree.
RawCsvFrom(raw, sha, persisted) ==
  IF raw.capture = "unavailable"
    THEN IF persisted = Nothing THEN RawCsv("absent", Nothing) ELSE RawCsv("captured", persisted)
    ELSE CASE raw.csv = "captured" ->
                IF persisted \in {Nothing, sha} THEN RawCsv("captured", sha) ELSE Nothing
           [] raw.csv # "captured" /\ persisted # Nothing -> Nothing
           [] raw.csv = "rejected" /\ persisted = Nothing -> RawCsv("rejected", sha)
           [] raw.csv = "absent"   /\ persisted = Nothing -> RawCsv("absent", Nothing)

CompilerOutput(raw) == IF raw.capture = "captured" THEN "captured" ELSE raw.reason

\* buildExecutionAttestation, or Nothing when it throws.
Attestation(input, engine, script, status, raw, sha, persisted) ==
  LET rawCsv == RawCsvFrom(raw, sha, persisted)
  IN  IF rawCsv = Nothing \/ (status = "succeeded" /\ rawCsv.status # "captured")
        THEN Nothing
        ELSE [input |-> input, engine |-> engine, script |-> script, status |-> status,
              raw_csv |-> rawCsv, compiler_output |-> CompilerOutput(raw)]

\* assertExecutionAttestationMatches
Matches(attestation, run) ==
  LET persisted == Digest(run.artifacts, "result")
  IN  /\ attestation.input = run.fingerprint
      /\ attestation.engine = run.engine
      /\ attestation.script = Digest(run.artifacts, "script")
      /\ attestation.status = run.status
      /\ IF persisted # Nothing THEN attestation.raw_csv = RawCsv("captured", persisted)
                                ELSE attestation.status # "succeeded"

\* A plausible slip: the digest of evidence.json is not compared.
EvidenceNamed(run, evidence) == Has(run.artifacts, "evidence") /\ Has(run.artifacts, "script")

\* assertRecordedExecutionAttestation: the file is the one of the ledger; an
\* attestation may be missing from older evidence, but has to match.
EvidenceAgrees(run, evidence) ==
  /\ Has(run.artifacts, "evidence") /\ Has(run.artifacts, "script")
  /\ evidence = Digest(run.artifacts, "evidence")
  /\ evidence.attestation # Nothing => Matches(evidence.attestation, run)

=============================================================================
