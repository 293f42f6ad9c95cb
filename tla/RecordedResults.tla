--------------------------- MODULE RecordedResults ----------------------------
(***************************************************************************)
(* The results envelopes of run_list and run_get, and the recorded results *)
(* session that a host assembles from them for the viewer: a projection    *)
(* (a run, or a list with some details), the artifacts that the runs are   *)
(* recorded as, and the SHA-256 of the projection.  A run is known by the  *)
(* face a contract shows of it; whether an object has the exact keys of    *)
(* its schema is whether it is a record of the contract it claims.  A      *)
(* digest is modelled by the content it is taken of.                       *)
(***************************************************************************)
EXTENDS Naturals, SequencesExt

CONSTANTS
  Run,          \* run ids
  MaxDetails,   \* MAX_RECORDED_RUN_DETAILS
  Nothing       \* what is absent, or was refused

Contract == {"1.0", "2.0"}

\* A run as a contract shows it: the frozen 1.0 face has a fingerprint of its own.
\* "facts" stands for status, times, model and scenario.
Face(id, contract) ==
  [record_schema_version |-> contract, run_id |-> id, fingerprint |-> <<id, contract>>, facts |-> id]

RunEnvelope(run)             == [schemaVersion |-> run.record_schema_version, kind |-> "run", run |-> run]
ListEnvelope(contract, runs) == [schemaVersion |-> contract, kind |-> "run-list", runs |-> runs]

\* parseResultsEnvelope, with the shape checks and normalizers of each contract:
\* every run in it has the shape of the schemaVersion.
ParsesEnvelope(e) ==
  IF e.kind = "run" THEN e.run.record_schema_version = e.schemaVersion
  ELSE \A i \in DOMAIN e.runs : e.runs[i].record_schema_version = e.schemaVersion

-----------------------------------------------------------------------------
(* parseModelicaRecordedViewSessionStructure                               *)

Waiting    == {"pending", "running"}
Unanswered == {"rejected", "recovery_required", "unavailable", "unresolved"}

\* parseDetailProjection
ParsesDetail(d) ==
  \/ d.status \in Waiting \cup Unanswered
  \/ /\ d.status = "available" /\ ParsesEnvelope(d.result)
     /\ d.result.kind = "run" /\ d.result.run.run_id = d.run_id

\* A plausible slip: the fingerprint is not one of the facts.
SameModelAndTimes(summary, detail) ==
  summary.run_id = detail.run_id /\ summary.facts = detail.facts

\* sameRunSummaryFacts
SameRunSummaryFacts(summary, detail) ==
  /\ summary.record_schema_version = detail.record_schema_version
  /\ summary.run_id = detail.run_id /\ summary.facts = detail.facts
  /\ summary.fingerprint = detail.fingerprint

\* assertDetailsMatchResult: details belong to listed runs and repeat their facts.
DetailsMatchResult(details, result) ==
  IF result.kind = "run" THEN details = <<>>
  ELSE \A i \in DOMAIN details : \E j \in DOMAIN result.runs :
         /\ result.runs[j].run_id = details[i].run_id
         /\ details[i].status = "available" =>
              SameRunSummaryFacts(result.runs[j], details[i].result.run)

\* parseProjection, within the limits and without a run named twice.
ParsesProjection(p) ==
  \/ p.status \in Waiting \cup Unanswered
  \/ /\ p.status = "available" /\ ParsesEnvelope(p.result)
     /\ Len(p.details) <= MaxDetails
     /\ p.result.kind = "run-list" =>
          /\ Len(p.result.runs) <= MaxDetails
          /\ IsInjective([i \in DOMAIN p.result.runs |-> p.result.runs[i].run_id])
     /\ \A i \in DOMAIN p.details : ParsesDetail(p.details[i])
     /\ IsInjective([i \in DOMAIN p.details |-> p.details[i].run_id])
     /\ DetailsMatchResult(p.details, p.result)

\* assertProjectionMatchesAnchor
MatchesAnchor(p, anchor) ==
  p.status = "available" =>
    /\ p.result.kind = IF anchor.kind = "modelica-run" THEN "run" ELSE "run-list"
    /\ p.result.kind = "run" => p.result.run.run_id = anchor.id

ProjectedRuns(p) ==
  IF p.status # "available" THEN <<>>
  ELSE IF p.result.kind = "run" THEN <<p.result.run>> ELSE p.result.runs

\* parseProvenance and assertProvenanceMatchesProjection: one recorded artifact,
\* with its fingerprint, for each projected run.
ProvenanceMatches(artifacts, p) ==
  /\ Len(artifacts) <= MaxDetails /\ Len(artifacts) = Len(ProjectedRuns(p))
  /\ IsInjective([i \in DOMAIN artifacts |-> artifacts[i].artifactId])
  /\ IsInjective([i \in DOMAIN artifacts |-> artifacts[i].runId])
  /\ \A i \in DOMAIN ProjectedRuns(p) : \E j \in DOMAIN artifacts :
       /\ artifacts[j].runId = ProjectedRuns(p)[i].run_id
       /\ artifacts[j].runFingerprint = ProjectedRuns(p)[i].fingerprint

\* The structure of a results session, for either resource.
ParsesResults(s) ==
  /\ ParsesProjection(s.projection)
  /\ MatchesAnchor(s.projection, s.anchor)
  /\ ProvenanceMatches(s.artifacts, s.projection)

\* modelicaSessionResource
SessionResource(s) == IF s.anchor.kind = "modelica-run" THEN "run" ELSE "run-list"

\* parseModelicaRecordedViewSession: the digest, over the raw projection.
VerifiesResults(s) == ParsesResults(s) /\ s.projectionSha256 = s.projection

-----------------------------------------------------------------------------
(* Drill-down.                                                             *)

Unavailable(id) == [run_id |-> id, status |-> "unavailable"]

\* resolveModelicaRecordedRunDetail: what the session has (the first detail of
\* the run), and nothing else.
Resolve(s, id) ==
  LET p == s.projection
      asked == {i \in DOMAIN p.details : p.details[i].run_id = id}
  IN  CASE p.status # "available" -> [run_id |-> id, status |-> p.status]
        [] p.status = "available" /\ p.result.kind = "run" ->
             IF p.result.run.run_id = id
               THEN [run_id |-> id, status |-> "available", result |-> p.result]
               ELSE Unavailable(id)
        [] OTHER -> IF asked # {} THEN p.details[CHOOSE i \in asked : \A j \in asked : i <= j]
                                  ELSE Unavailable(id)

\* loadModelicaRunDetail without a session: the one run that was asked for, or
\* an error.
Loaded(id, envelope) ==
  IF ParsesEnvelope(envelope) /\ envelope.kind = "run" /\ envelope.run.run_id = id
    THEN [run_id |-> id, status |-> "available", result |-> envelope]
    ELSE [run_id |-> id, status |-> "error"]

=============================================================================
