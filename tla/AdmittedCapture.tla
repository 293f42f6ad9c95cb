---------------------------- MODULE AdmittedCapture ----------------------------
(***************************************************************************)
(* The capture of an admitted execution: what was admitted, the receipt of *)
(* the isolated execution, and the recorded session that hands both to the *)
(* viewer.  Constant fields, and ids and texts of which only the form is   *)
(* checked, are left out; a digest is modelled by the content it is taken  *)
(* of.                                                                     *)
(***************************************************************************)
EXTENDS Naturals, Sequences

\* executionRunId: derived from the project and the agent run.
ExecutionRunId(project, agentRun) == <<"admitted-modelica", project, agentRun>>

CasUri(sha) == <<"isolated-output", sha>>

CaptureFields ==
  {"projectId", "agentRunId", "executionRunId", "admission", "source", "receipt", "parameters",
   "metrics"}

ReceiptFields ==
  {"runId", "generation", "source", "policy", "runtime", "termination", "logs", "outputs",
   "destruction", "publication", "fingerprint"}

-----------------------------------------------------------------------------
(* parseCaptureStructure                                                   *)

\* parseRuntime
ParsesRuntime(r) == r.limits.file <= r.limits.total

\* parseAdmission: the id, the compilation contract and the backend image follow
\* from the other fields.
ParsesAdmission(a) ==
  /\ a.artifact.id = <<"admission", a.artifact.fingerprint>>
  /\ a.compilation = IF a.artifact.schema = "2.0" THEN "1.0" ELSE "2.0"
  /\ a.backendImage = a.runtime.image
  /\ ParsesRuntime(a.runtime)

\* A plausible slip: only a process that exited has a receipt.
EndedByItself(t) == t.kind = "exited" /\ t.exitCode # "none" /\ t.signal = "none"

\* parseTermination: an exit code when it exited, a signal when it was signaled.
ParsesTermination(t) ==
  CASE t.kind = "exited"   -> t.exitCode # "none" /\ t.signal = "none"
    [] t.kind = "signaled" -> t.exitCode = "none" /\ t.signal # "none"
    [] OTHER               -> t.exitCode = "none" /\ t.signal = "none"

\* parseLogs and parseOutputArtifacts: evidence, then result, within the limits.
ParsesOutputs(r) ==
  /\ \A name \in {"stdout", "stderr"} : r.logs[name] <= r.runtime.limits[name]
  /\ [i \in DOMAIN r.outputs |-> r.outputs[i].role] = <<"evidence", "result">>
  /\ \A i \in DOMAIN r.outputs :
       r.outputs[i].bytes <= r.runtime.limits.file /\ r.outputs[i].casUri = CasUri(r.outputs[i].sha256)
  /\ r.outputs[1].bytes + r.outputs[2].bytes <= r.runtime.limits.total

\* parseDestruction: of this run, with the assurance that was admitted.
ParsesDestruction(d, run, minimum) ==
  d.runId = run /\ (minimum = "proven" => d.status = "proven")

\* parsePublication
ParsesPublication(p, run, generation) == p.runId = run /\ p.generation = generation

\* parseReceipt: the receipt of this run of what was admitted.
ParsesReceipt(r, c) ==
  /\ r.runId = c.executionRunId /\ r.source = c.source
  /\ r.policy = c.admission.policy
  /\ ParsesRuntime(r.runtime) /\ r.runtime = c.admission.runtime
  /\ ParsesTermination(r.termination)
  /\ ParsesOutputs(r)
  /\ ParsesDestruction(r.destruction, c.executionRunId, c.admission.minimum)
  /\ ParsesPublication(r.publication, c.executionRunId, r.generation)

\* The metrics come in pairs: final, then max_abs, of one output in one unit.
ParsesMetrics(metrics) ==
  /\ metrics # <<>> /\ Len(metrics) % 2 = 0
  /\ \A i \in 1 .. Len(metrics) \div 2 :
       /\ metrics[2 * i - 1].statistic = "final" /\ metrics[2 * i].statistic = "max_abs"
       /\ \A field \in {"output", "unit"} : metrics[2 * i - 1][field] = metrics[2 * i][field]

ParsesCapture(c) ==
  /\ ParsesAdmission(c.admission) /\ c.admission.source = c.source
  /\ ParsesReceipt(c.receipt, c)
  /\ c.parameters # <<>> /\ ParsesMetrics(c.metrics)

-----------------------------------------------------------------------------
(* parseModelicaAdmittedExecutionCapture: the digests.                     *)

ReceiptMetadata(r) == [field \in DOMAIN r \ {"fingerprint"} |-> r[field]]

\* A plausible slip: the fingerprint of a receipt is only looked at.
FingerprintIsThere(r) == "fingerprint" \in DOMAIN r

\* verifyReceiptFingerprint
VerifiesReceipt(r) == r.fingerprint = ReceiptMetadata(r)

PublicationKey(run, generation) == <<"publication", run, generation>>

\* verifyPublicationManifestUri: the URI of this run, the digest of its outputs.
VerifiesPublication(r) ==
  LET ref == r.publication
  IN  /\ ref.manifestUri = PublicationKey(ref.runId, ref.generation)
      /\ ref.fingerprint = <<ref.runId, ref.generation, r.outputs>>

VerifiesCapture(c) ==
  /\ c.executionRunId = ExecutionRunId(c.projectId, c.agentRunId)
  /\ VerifiesReceipt(c.receipt)
  /\ VerifiesPublication(c.receipt)

-----------------------------------------------------------------------------
(* parseSessionStructure                                                   *)

Roles == {"admission", "capture", "evidence", "result"}

\* assertArtifactRef: id, URI and digest of one content.
ArtifactRef(kind, digest, uri) == [artifactId |-> <<kind, digest>>, uri |-> uri, digest |-> digest]

OutputRef(output) == ArtifactRef(output.role, output.sha256, output.casUri)

CaptureRef(c) == ArtifactRef("capture", c, <<"capture", c>>)

AdmissionRef(a) == ArtifactRef("admission", a.artifact.fingerprint, <<"admission", a.artifact.fingerprint>>)

\* assertRecordedJoins: basis, producer, artifacts and anchor are those of the
\* capture; the capture artifact is consistent in itself.
RecordedJoins(s) ==
  LET c == s.projection.capture
  IN  /\ c.projectId = s.basis.projectId /\ c.agentRunId = s.runId
      /\ s.refs["admission"] = AdmissionRef(c.admission)
      /\ s.refs["capture"] = CaptureRef(s.refs["capture"].digest)
      /\ s.refs["evidence"] = OutputRef(c.receipt.outputs[1])
      /\ s.refs["result"] = OutputRef(c.receipt.outputs[2])
      /\ s.anchor = s.refs["result"]

\* A session names all its artifacts when it has a capture, and none otherwise.
ParsesAdmitted(s, none) ==
  /\ s.basis.subjectId = <<"project", s.basis.projectId>>
  /\ s.basis.thread = <<s.basis.subjectId, s.basis.revision>>
  /\ IF s.projection.status = "available"
       THEN /\ \A role \in Roles : s.refs[role] # none
            /\ ParsesCapture(s.projection.capture)
            /\ RecordedJoins(s)
       ELSE \A role \in Roles : s.refs[role] = none

\* parseModelicaRecordedAdmittedExecutionSession: the recorded capture artifact
\* is the capture that is handed over.
VerifiesAdmitted(s, none) ==
  /\ ParsesAdmitted(s, none)
  /\ s.projection.status = "available" =>
       /\ VerifiesCapture(s.projection.capture)
       /\ s.refs["capture"].digest = s.projection.capture

=============================================================================
