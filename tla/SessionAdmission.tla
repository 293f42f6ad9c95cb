--------------------------- MODULE SessionAdmission ---------------------------
(***************************************************************************)
(* How one session, or one admitted capture, comes to be shown by the      *)
(* results viewer.  A host assembles it from what the server and the       *)
(* executor recorded, and may put parts of another run or execution into   *)
(* it, before it computes the digests or after.  The viewer refuses a      *)
(* foreign structure at once, verifies the digests later, and opens        *)
(* details from what it has accepted.  ResultsViewer has the order in      *)
(* which several of them arrive; here the content of one is looked at.     *)
(***************************************************************************)
EXTENDS RecordedResults, AdmittedCapture, FiniteSets

CONSTANTS
  Executions,   \* genuine captures
  Details,      \* bound: how many of the listed runs a host supplies details for
  MaxEdits      \* bound: misplaced parts

ASSUME SessionConstants ==
  IsFiniteSet(Run) /\ MaxDetails \in Nat /\ Details \in Nat /\ MaxEdits \in Nat

\* What the executor records is of one execution: the receipt is signed over its
\* own fields, and repeats the run, the source, the policy and the runtime.
IsRecord(r, fields) == r = [field \in fields |-> r[field]]

ASSUME ExecutionsAgree ==
  \A c \in Executions :
    /\ IsRecord(c, CaptureFields) /\ IsRecord(c.receipt, ReceiptFields)
    /\ c.receipt.fingerprint = ReceiptMetadata(c.receipt)
    /\ c.receipt.runId = ExecutionRunId(c.projectId, c.agentRunId)
    /\ c.source = c.receipt.source /\ c.admission.source = c.receipt.source
    /\ c.admission.policy = c.receipt.policy /\ c.admission.runtime = c.receipt.runtime

VARIABLES
  rendered,   \* the resource that this viewer renders: "run" or "run-list"
  draft,      \* what the host assembles and hands over, or Nothing
  stage,      \* how far it is
  edits,      \* misplaced parts
  opened      \* the detail on the screen, or Nothing

admissionVars == <<rendered, draft, stage, edits, opened>>

-----------------------------------------------------------------------------
(* What a host that makes no mistake assembles.                            *)

Artifact(run) ==
  [artifactId |-> <<"run", run.run_id>>, runId |-> run.run_id, runFingerprint |-> run.fingerprint]

Results(anchor, projection) ==
  [kind |-> "results", anchor |-> anchor, projection |-> projection,
   artifacts |-> [i \in DOMAIN ProjectedRuns(projection) |-> Artifact(ProjectedRuns(projection)[i])],
   projectionSha256 |-> projection]

RunSession(run) ==
  Results([kind |-> "modelica-run", id |-> run.run_id],
          [status |-> "available", result |-> RunEnvelope(run), details |-> <<>>])

Detail(run) == [run_id |-> run.run_id, status |-> "available", result |-> RunEnvelope(run)]

\* A list of one contract, with details for some of its runs.
ListSession(contract, ids, detailed) ==
  LET faces(set) == [i \in DOMAIN SetToSeq(set) |-> Face(SetToSeq(set)[i], contract)]
  IN  Results([kind |-> "modelica-run-list", id |-> "list"],
              [status |-> "available", result |-> ListEnvelope(contract, faces(ids)),
               details |-> [i \in DOMAIN faces(detailed) |-> Detail(faces(detailed)[i])]])

ResultsSessions ==
  {RunSession(Face(id, contract)) : id \in Run, contract \in Contract}
    \cup (UNION {{ListSession(contract, ids, detailed) : detailed \in {d \in SUBSET ids : Cardinality(d) <= Details}}
                   : ids \in SUBSET Run, contract \in Contract})
    \cup {Results([kind |-> kind, id |-> "awaited"], [status |-> status])
            : kind \in {"modelica-run", "modelica-run-list"}, status \in {"pending", "rejected"}}

Basis(project) ==
  [projectId |-> project, revision |-> 1, subjectId |-> <<"project", project>>,
   thread |-> <<<<"project", project>>, 1>>]

AdmittedSession(c) ==
  [kind |-> "admitted", basis |-> Basis(c.projectId), runId |-> c.agentRunId,
   refs |-> [role \in Roles |->
     CASE role = "admission" -> AdmissionRef(c.admission)
       [] role = "capture"   -> CaptureRef(c)
       [] role = "evidence"  -> OutputRef(c.receipt.outputs[1])
       [] OTHER              -> OutputRef(c.receipt.outputs[2])],
   anchor |-> OutputRef(c.receipt.outputs[2]),
   projection |-> [status |-> "available", capture |-> c]]

ASSUME NothingIsNoArtifact ==
  \A c \in Executions : \A role \in Roles : AdmittedSession(c).refs[role] # Nothing

WaitingSession(c) ==
  [AdmittedSession(c) EXCEPT !.refs = [role \in Roles |-> Nothing],
                             !.projection = [status |-> "running"]]

Captured(c) == [kind |-> "capture", capture |-> c]

Genuine ==
  ResultsSessions \cup UNION {{AdmittedSession(c), WaitingSession(c), Captured(c)} : c \in Executions}

-----------------------------------------------------------------------------
(* One part of another record in the place of its own.                     *)

Splice(record, other) ==
  {[record EXCEPT ![field] = other[field]] : field \in DOMAIN record \cap DOMAIN other}

SpliceRun(run) ==
  UNION {Splice(run, Face(id, contract)) : id \in Run, contract \in Contract}

SpliceDetail(d) ==
  IF d.status # "available" THEN {}
  ELSE {[d EXCEPT !.run_id = id] : id \in Run}
         \cup {[d EXCEPT !.result.run = run] : run \in SpliceRun(d.result.run)}
         \cup {[d EXCEPT !.result.schemaVersion = contract] : contract \in Contract}
         \cup {[run_id |-> d.run_id, status |-> "pending"]}

SpliceProjection(p) ==
  IF p.status # "available" THEN {}
  ELSE {[p EXCEPT !.result.schemaVersion = contract] : contract \in Contract}
         \cup (IF p.result.kind = "run"
                 THEN {[p EXCEPT !.result.run = run] : run \in SpliceRun(p.result.run)}
                 ELSE UNION {{[p EXCEPT !.result.runs[i] = run] : run \in SpliceRun(p.result.runs[i])}
                               : i \in DOMAIN p.result.runs})
         \cup (UNION {{[p EXCEPT !.details[i] = d] : d \in SpliceDetail(p.details[i])}
                        : i \in DOMAIN p.details})

SpliceResults(s) ==
  {[s EXCEPT !.projection = p] : p \in SpliceProjection(s.projection)}
    \cup (UNION {{[s EXCEPT !.artifacts[i] = a]
                   : a \in UNION {Splice(s.artifacts[i], Artifact(Face(id, contract)))
                                    : id \in Run, contract \in Contract}} : i \in DOMAIN s.artifacts})
    \cup {[s EXCEPT !.anchor.id = id] : id \in Run}
    \cup {[s EXCEPT !.anchor.kind = kind] : kind \in {"modelica-run", "modelica-run-list"}}

SpliceCapture(c, other) ==
  Splice(c, other)
    \cup {[c EXCEPT !.admission = a] : a \in Splice(c.admission, other.admission)}
    \cup {[c EXCEPT !.receipt = r] : r \in Splice(c.receipt, other.receipt)}

SpliceAdmitted(s, other) ==
  LET t == AdmittedSession(other)
  IN  {[s EXCEPT !.basis = basis] : basis \in Splice(s.basis, t.basis)}
        \cup {[s EXCEPT !.runId = t.runId], [s EXCEPT !.anchor = t.anchor]}
        \cup {[s EXCEPT !.refs = refs] : refs \in Splice(s.refs, t.refs)}
        \cup (IF s.projection.status # "available" THEN {}
              ELSE {[s EXCEPT !.projection.capture = c] : c \in SpliceCapture(s.projection.capture, other)})

Spliced(s) ==
  CASE s.kind = "results"  -> SpliceResults(s)
    [] s.kind = "admitted" -> UNION {SpliceAdmitted(s, other) : other \in Executions}
    [] s.kind = "capture"  ->
         UNION {{Captured(c) : c \in SpliceCapture(s.capture, other)} : other \in Executions}

\* The host computes the digest of the projection, or records the capture.  The
\* fingerprint of a receipt is the executor's: no host computes it.
Sealed(s) ==
  CASE s.kind = "results" -> [s EXCEPT !.projectionSha256 = s.projection]
    [] s.kind = "admitted" /\ s.projection.status = "available" ->
         [s EXCEPT !.refs["capture"] = CaptureRef(s.projection.capture)]
    [] OTHER -> s

-----------------------------------------------------------------------------
(* The viewer.                                                             *)

\* viewerSession.validate
Validates(s) ==
  \/ s.kind = "results" /\ ParsesResults(s) /\ SessionResource(s) = rendered
  \/ s.kind = "admitted" /\ rendered = "run" /\ ParsesAdmitted(s, Nothing)

\* onSession: the parser that the schema version names.
Verifies(s) ==
  \/ s.kind = "results" /\ VerifiesResults(s)
  \/ s.kind = "admitted" /\ VerifiesAdmitted(s, Nothing)

AdmissionInit ==
  /\ rendered \in {"run", "run-list"}
  /\ draft = Nothing /\ stage = "none" /\ edits = 0 /\ opened = Nothing

\* No detail is open meanwhile: an applied session leaves it anyway.
Compose ==
  /\ stage = "none" /\ opened = Nothing
  /\ draft' \in Genuine /\ stage' = "composing"
  /\ UNCHANGED <<rendered, edits, opened>>

Misplace ==
  /\ stage \in {"composing", "sealed"} /\ edits < MaxEdits
  /\ draft' \in Spliced(draft) \ {draft} /\ edits' = edits + 1
  /\ UNCHANGED <<rendered, stage, opened>>

Seal ==
  /\ stage = "composing"
  /\ draft' = Sealed(draft) /\ stage' = "sealed"
  /\ UNCHANGED <<rendered, edits, opened>>

\* viewer.session.apply
Apply ==
  /\ stage = "sealed" /\ draft.kind # "capture"
  /\ stage' = IF Validates(draft) THEN "verifying" ELSE "refused"
  /\ UNCHANGED <<rendered, draft, edits, opened>>

\* The digests are there: the session is applied, or an error is shown.
Verified ==
  /\ stage = "verifying"
  /\ stage' = IF Verifies(draft) THEN "applied" ELSE "failed"
  /\ UNCHANGED <<rendered, draft, edits, opened>>

\* onToolResult with an admitted capture.
CaptureResult ==
  /\ stage = "sealed" /\ draft.kind = "capture"
  /\ stage' = IF rendered = "run" /\ ParsesCapture(draft.capture) /\ VerifiesCapture(draft.capture)
                THEN "applied" ELSE "failed"
  /\ UNCHANGED <<rendered, draft, edits, opened>>

\* A run is opened from the list of the session.
OpenRecorded(id) ==
  /\ stage = "applied" /\ draft.kind = "results" /\ opened = Nothing
  /\ opened' = [asked |-> id, detail |-> Resolve(draft, id)]
  /\ UNCHANGED <<rendered, draft, stage, edits>>

\* Without a session the server is asked; it may answer with any envelope.
OpenStandalone(id, envelope) ==
  /\ stage = "none" /\ opened = Nothing
  /\ opened' = [asked |-> id, detail |-> Loaded(id, envelope)]
  /\ UNCHANGED <<rendered, draft, stage, edits>>

Envelopes ==
  {RunEnvelope(Face(id, contract)) : id \in Run, contract \in Contract}
    \cup {ListEnvelope(contract, <<Face(id, contract)>>) : id \in Run, contract \in Contract}

Back ==
  /\ opened # Nothing /\ opened' = Nothing
  /\ UNCHANGED <<rendered, draft, stage, edits>>

\* A tool result clears the session; the next one is assembled.
Clear ==
  /\ stage \in {"refused", "failed", "applied"}
  /\ draft' = Nothing /\ stage' = "none" /\ edits' = 0 /\ opened' = Nothing
  /\ UNCHANGED rendered

AdmissionNext ==
  \/ Compose \/ Misplace \/ Seal \/ Apply \/ Verified \/ CaptureResult
  \/ \E id \in Run : OpenRecorded(id)
  \/ \E id \in Run, envelope \in Envelopes : OpenStandalone(id, envelope)
  \/ Back \/ Clear

AdmissionSpec == AdmissionInit /\ [][AdmissionNext]_admissionVars

-----------------------------------------------------------------------------

\* What a host assembled for this resource without a mistake, of at most
\* MAX_RECORDED_RUN_DETAILS runs, is never turned away: not by the structure
\* check, whose joins are those of the server's two contracts and of the
\* executor's receipts (one that failed, was signaled or timed out included), nor
\* by the digests.
GenuineIsApplied ==
  (edits = 0 /\ stage \in {"refused", "failed"}) =>
    \/ draft.kind = "results" /\ SessionResource(draft) # rendered
    \/ draft.kind # "results" /\ rendered # "run"
    \/ draft.kind = "results" /\ Len(ProjectedRuns(draft.projection)) > MaxDetails

\* The detail that is opened is the run that was asked for; and under a session
\* it has the contract, the facts and the fingerprint that the session shows of
\* that run, and the fingerprint of the artifact that the run is recorded as,
\* whatever the host misplaced and whenever it took the digest.
DetailIsTheListedRun ==
  (opened # Nothing /\ opened.detail.status = "available") =>
    LET run == opened.detail.result.run
    IN  /\ run.run_id = opened.asked
        /\ stage = "applied" =>
             /\ run \in Range(ProjectedRuns(draft.projection))
             /\ \E i \in DOMAIN draft.artifacts :
                  /\ draft.artifacts[i].runId = opened.asked
                  /\ draft.artifacts[i].runFingerprint = run.fingerprint

ShownCapture == IF draft.kind = "capture" THEN draft.capture ELSE draft.projection.capture

\* An admitted execution that is shown is one execution: a receipt that the
\* executor issued, of the project and the agent run that the capture names, of
\* the source, the policy and the runtime that it says were admitted; and the
\* artifacts and the anchor of the session are its outputs.
AdmittedIsOneExecution ==
  (stage = "applied" /\ draft.kind # "results"
     /\ (draft.kind = "admitted" => draft.projection.status = "available")) =>
    \E c \in Executions :
      /\ ShownCapture.receipt = c.receipt
      /\ ShownCapture.projectId = c.projectId /\ ShownCapture.agentRunId = c.agentRunId
      /\ ShownCapture.source = c.source
      /\ \A field \in {"source", "policy", "runtime"} :
           ShownCapture.admission[field] = c.admission[field]
      /\ draft.kind = "admitted" =>
           /\ draft.basis.projectId = c.projectId /\ draft.runId = c.agentRunId
           /\ draft.anchor = OutputRef(c.receipt.outputs[2])
           /\ draft.refs["evidence"] = OutputRef(c.receipt.outputs[1])
           /\ draft.refs["result"] = OutputRef(c.receipt.outputs[2])
           /\ draft.refs["capture"].digest = ShownCapture

=============================================================================
