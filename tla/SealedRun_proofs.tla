--------------------------- MODULE SealedRun_proofs ---------------------------
(***************************************************************************)
(* The writer and the reader of a sealed run agree: whatever the solver    *)
(* did, what submit writes validates, what is offered is executed, one     *)
(* overwritten file or field is never served, and a series stands for the  *)
(* run that it is of. SealedInv follows a request from the manifest it     *)
(* names (IssuedOK) over what submit has in its hands at each step         *)
(* (SubmitOK, WritingOK) to the run.json that it writes (WholeOK), and     *)
(* says what damage may have made of that (TruthOK); TablesOK adds that    *)
(* what is evidence is a table.                                            *)
(***************************************************************************)
EXTENDS SealedRun, SequenceTheorems, FiniteSetTheorems, WellFoundedInduction, TLAPS

-----------------------------------------------------------------------------
(* The inductive invariant.                                                *)

Verdicts == {"succeeded", "failed", "timed_out"}

\* The selection that a manifest is of.
Names(m) == [id |-> m.model.id, version |-> m.model.version, scenario |-> m.scenario.id]

\* In the world as it is, the selection has this manifest, on its engine.
Current(sel, m) ==
  sel \in Selections /\ Built(sel) = m /\ m # Nothing /\ Compatible(KitOf(sel), engine)

\* What was issued is of the selection it is issued for; what was issued or
\* offered since the world changed last can be built and executed.
IssuedOK ==
  /\ \A key \in DOMAIN issued :
       /\ issued[key] # Nothing
       /\ <<issued[key].model.id, issued[key].model.version, issued[key].scenario.id>> = key
  /\ \A m \in fresh : \E sel \in Selections : Current(sel, m)
  /\ \A request \in offered : Current(request.selection, request.manifest)

Running == {"inputs", "execute", "interpret", "seal"}
Written == submit.at = "return" \/ run # Nothing

ClaimOK ==
  \/ claim = NoClaim
  \/ /\ claim = [request |-> claim.request, state |-> claim.state, seal |-> claim.seal]
     /\ claim.state \in {"claimed", "running", "recovery_required", "completed", "rejected"}
     /\ claim.request.selection \in Selections

\* The manifest that submit pinned is the one the request names, and that of the
\* kit which still runs.
PinnedOK(m) ==
  LET request == claim.request
      kit     == KitOf(request.selection)
  IN  /\ m = request.manifest /\ WellFormedManifest(m) /\ Names(m) = request.selection
      /\ Resolves(m.parameters, request.parameters)
      /\ m.normalizer = kit.normalizer /\ m.metrics = kit.metrics

SubmitOK ==
  /\ submit.at \in {"idle", "probe", "return"} \cup Running
  /\ submit.at = "probe" =>
       /\ claim.state = "claimed" /\ Selected(claim.request.selection)
       /\ Resolves(KitOf(claim.request.selection).parameters, claim.request.parameters)
  /\ submit.at \in Running => claim.state = "running" /\ PinnedOK(submit.manifest)
  /\ Written => /\ claim.state \in {"running", "recovery_required", "completed"}
                /\ submit.at \in {"idle", "return"}

\* Every file that these artifacts name is as it was written.
Placed(artifacts) ==
  \A i \in DOMAIN artifacts : file[artifacts[i].kind] = artifacts[i].sha256

\* What a run starts from, in the order it is written.
Inputs(m) ==
  <<Artifact("request", claim.request),
    Artifact("resolved_parameters", claim.request.parameters),
    Artifact("model", m.model.source), Artifact("scenario", m.scenario.source)>>
  \o (IF m.schema = Nothing THEN <<>> ELSE <<Artifact("parameter_schema", m.schema)>>)
  \o <<Artifact("script", Lowering(m, claim.request.parameters))>>

Logged(m, log) == Append(Inputs(m), Artifact("diagnostics", log))

\* The metrics and warnings are those that the normalizer finds in the CSV.
Interpreted(m, csv, metrics, warnings) ==
  LET out == Normalize(m.normalizer, csv, m.scenario)
  IN  /\ out # Nothing /\ ValidMetrics(m.metrics, out.metrics, TRUE)
      /\ metrics = out.metrics /\ warnings = out.warnings

WritingOK ==
  LET m == submit.manifest
  IN  /\ file = [k \in Kinds |-> file[k]]
      /\ submit.at \in {"execute", "interpret", "seal"} => Placed(submit.artifacts)
      /\ submit.at = "execute" => submit.artifacts = Inputs(m)
      /\ submit.at = "interpret" =>
           submit.status \in Verdicts /\ submit.artifacts = Logged(m, submit.status)
      /\ submit.at = "seal" =>
           /\ submit.status \in Verdicts
           /\ \E log \in Verdicts :
                IF submit.status = "succeeded"
                  THEN /\ submit.artifacts =
                            Append(Logged(m, log), Artifact("result", submit.csv))
                       /\ Interpreted(m, submit.csv, submit.metrics, submit.warnings)
                  ELSE /\ submit.artifacts = Logged(m, log)
                       /\ submit.unsaved \/ submit.metrics = <<>>

\* What validateCompletedRun demands of a run, apart from the order of its times
\* and from the release it is read in.
Whole(r) ==
  /\ r.status \in Verdicts
  /\ WellFormedManifest(r.manifest) /\ r.manifest = claim.request.manifest
  /\ ValidArtifacts(r)
  /\ RequestAgrees(r)
  /\ LoweringAgrees(r)
  /\ ValidMetrics(r.manifest.metrics, r.metrics, r.status = "succeeded")
  /\ MetricsAgree(r)
  /\ EvidenceAttests(file["evidence"], r)

WholeOK ==
  Written /\ damages = 0 /\ ~ truth.unsaved =>
    Whole(run) /\ (~ setBack => run.started <= run.completed)

\* The run differs from what was written in one field at most, and in a content
\* digest of one artifact if that is the field.
Altered(r, t) ==
  \E field \in {"status", "manifest", "resolved", "metrics", "warnings", "artifacts"} :
    /\ r = [t EXCEPT ![field] = r[field]]
    /\ field = "artifacts" =>
         r.artifacts = [i \in DOMAIN t.artifacts |->
                          Artifact(t.artifacts[i].kind, r.artifacts[i].sha256)]

\* What was written, and what one overwritten file or field leaves of it: the
\* evidence and the claim between them name everything that could be altered.
TruthOK ==
  /\ damages \in 0 .. MaxDamage
  /\ Written =>
       LET t == truth.run
       IN  /\ t = [manifest |-> t.manifest, status |-> t.status, started |-> t.started,
                   completed |-> t.completed, resolved |-> t.resolved, metrics |-> t.metrics,
                   warnings |-> t.warnings, artifacts |-> t.artifacts]
           /\ t.artifacts = [i \in DOMAIN t.artifacts |->
                               Artifact(t.artifacts[i].kind, t.artifacts[i].sha256)]
           /\ t.resolved = claim.request.parameters
           /\ \A k \in Kinds : truth.files[k] # Nothing =>
                \E i \in DOMAIN t.artifacts : t.artifacts[i] = Artifact(k, truth.files[k])
           /\ \E i \in DOMAIN t.artifacts :
                /\ t.artifacts[i].kind = "evidence"
                /\ t.artifacts[i].sha256.body = EvidenceBody(t)
           /\ submit.at = "return" => submit.run = t
           /\ damages = 0 => run = t /\ Placed(t.artifacts)
           /\ damages <= 1 => run = t \/ (Placed(t.artifacts) /\ Altered(run, t))

SealedInv ==
  /\ IssuedOK /\ IssuedIsAccepted
  /\ ClaimOK /\ SubmitOK /\ WritingOK /\ WholeOK /\ TruthOK

-----------------------------------------------------------------------------
(* The artifacts of a run.                                                 *)

\* No two artifacts of one kind.
OfOneKind(artifacts) ==
  \A i, j \in DOMAIN artifacts : artifacts[i].kind = artifacts[j].kind => i = j

\* The digest of a kind is that of its only artifact.
LEMMA DigestOfKind ==
  ASSUME NEW a, OfOneKind(a), NEW i \in DOMAIN a
  PROVE  Digest(a, a[i].kind) = a[i].sha256
<1>1. \E j \in DOMAIN a : a[j].kind = a[i].kind
  OBVIOUS
<1> DEFINE c == CHOOSE j \in DOMAIN a : a[j].kind = a[i].kind
<1>2. c \in DOMAIN a /\ a[c].kind = a[i].kind
  BY <1>1
<1>3. c = i
  BY <1>2 DEF OfOneKind
<1>. QED
  BY <1>3 DEF Digest

\* A sequence, whatever its elements.
IsSequence(s) == \E S : s \in Seq(S)

\* The kinds of these artifacts, in their order.
KindsOf(artifacts) == [i \in DOMAIN artifacts |-> artifacts[i].kind]

\* One more element: the others stay where they are.
LEMMA Appended ==
  ASSUME NEW s, IsSequence(s), NEW e
  PROVE  /\ IsSequence(Append(s, e))
         /\ Len(s) \in Nat /\ DOMAIN s = 1 .. Len(s)
         /\ DOMAIN Append(s, e) = 1 .. Len(s) + 1
         /\ \A i \in DOMAIN s : Append(s, e)[i] = s[i]
         /\ Append(s, e)[Len(s) + 1] = e
<1>1. PICK S : s \in Seq(S)
  BY DEF IsSequence
<1> DEFINE T == S \cup {e}
<1>2. s \in Seq(T) /\ e \in T
  BY <1>1
<1>3. Append(s, e) \in Seq(T)
  BY <1>2
<1>4. IsSequence(Append(s, e))
  BY <1>3 DEF IsSequence
<1>. QED
  BY <1>2, <1>4

\* The kinds of a longer list are those of the shorter one, and one more.
LEMMA KindsAppended ==
  ASSUME NEW a, IsSequence(a), NEW e
  PROVE  KindsOf(Append(a, e)) = Append(KindsOf(a), e.kind)
<1> DEFINE S == {a[i].kind : i \in DOMAIN a} \cup {e.kind}
<1>1. KindsOf(a) \in Seq(S) /\ Len(KindsOf(a)) = Len(a)
  BY Appended DEF KindsOf
<1>2. e.kind \in S
  OBVIOUS
<1>3. KindsOf(Append(a, e)) \in Seq(S) /\ Len(KindsOf(Append(a, e))) = Len(a) + 1
  <2>1. \A i \in 1 .. Len(a) + 1 : Append(a, e)[i].kind \in S
    BY Appended
  <2>. HIDE DEF S
  <2>. QED
    BY Appended, <2>1 DEF KindsOf
<1>4. /\ Append(KindsOf(a), e.kind) \in Seq(S)
      /\ Len(Append(KindsOf(a), e.kind)) = Len(a) + 1
      /\ \A i \in 1 .. Len(a) : Append(KindsOf(a), e.kind)[i] = KindsOf(a)[i]
      /\ Append(KindsOf(a), e.kind)[Len(a) + 1] = e.kind
  <2>. HIDE DEF S
  <2>. QED
    BY <1>1, <1>2
<1>5. \A i \in 1 .. Len(a) + 1 :
        KindsOf(Append(a, e))[i] = Append(KindsOf(a), e.kind)[i]
  BY <1>4, Appended DEF KindsOf
<1>. HIDE DEF S
<1>. QED
  BY <1>3, <1>4, <1>5, SeqEqual

\* The kinds that a run starts from.
InputKinds(schema) ==
  <<"request", "resolved_parameters", "model", "scenario">>
  \o (IF schema = Nothing THEN <<>> ELSE <<"parameter_schema">>) \o <<"script">>

\* What is written in a row before the solver runs, without and with a schema.
LEMMA StartedFive ==
  ASSUME NEW a, NEW b, NEW c, NEW d, NEW f
  PROVE  LET s == <<a, b, c, d>> \o <<>> \o <<f>>
         IN  /\ IsSequence(s) /\ Len(s) = 5
             /\ s[1] = a /\ s[2] = b /\ s[3] = c /\ s[4] = d /\ s[5] = f
<1> DEFINE S == {a, b, c, d, f}
           s == <<a, b, c, d>> \o <<>> \o <<f>>
<1>1. s \in Seq(S) /\ Len(s) = 5
  OBVIOUS
<1>2. s[1] = a /\ s[2] = b /\ s[3] = c /\ s[4] = d /\ s[5] = f
  OBVIOUS
<1>3. IsSequence(s)
  <2>. HIDE DEF S, s
  <2>. QED
    BY <1>1 DEF IsSequence
<1>. HIDE DEF S
<1>. QED
  BY <1>1, <1>2, <1>3, Zenon

\* The same, with a schema.
LEMMA StartedSix ==
  ASSUME NEW a, NEW b, NEW c, NEW d, NEW e, NEW f
  PROVE  LET s == <<a, b, c, d>> \o <<e>> \o <<f>>
         IN  /\ IsSequence(s) /\ Len(s) = 6
             /\ s[1] = a /\ s[2] = b /\ s[3] = c /\ s[4] = d /\ s[5] = e /\ s[6] = f
<1> DEFINE S == {a, b, c, d, e, f}
           s == <<a, b, c, d>> \o <<e>> \o <<f>>
<1>1. s \in Seq(S) /\ Len(s) = 6
  OBVIOUS
<1>2. s[1] = a /\ s[2] = b /\ s[3] = c /\ s[4] = d /\ s[5] = e /\ s[6] = f
  OBVIOUS
<1>3. IsSequence(s)
  <2>. HIDE DEF S, s
  <2>. QED
    BY <1>1 DEF IsSequence
<1>. HIDE DEF S
<1>. QED
  BY <1>1, <1>2, <1>3, Zenon

\* Joining one or two elements is appending them.
LEMMA Joined ==
  ASSUME NEW S, NEW s \in Seq(S), NEW x \in S, NEW y \in S
  PROVE  /\ s \o <<>> = s
         /\ s \o <<x>> = Append(s, x)
         /\ s \o <<x, y>> = Append(s \o <<x>>, y)
<1> DEFINE both == s \o <<x, y>>
           each == Append(s \o <<x>>, y)
<1>1. both \in Seq(S) /\ Len(both) = Len(s) + 2
  OBVIOUS
<1>2. each \in Seq(S) /\ Len(each) = Len(s) + 2
  OBVIOUS
<1>3. \A i \in 1 .. Len(s) + 2 : both[i] = each[i]
  OBVIOUS
<1>4. both = each
  <2>. HIDE DEF both, each
  <2>. QED
    BY <1>1, <1>2, <1>3, SeqEqual
<1>. QED
  BY <1>4

\* The exact set of a run, one artifact after another.
LEMMA ExpectedKinds ==
  ASSUME NEW schema, NEW status
  PROVE  LET logged == Append(InputKinds(schema), "diagnostics")
         IN  Expected(schema # Nothing, status) =
               Append(IF status = "succeeded" THEN Append(logged, "result") ELSE logged, "evidence")
<1> DEFINE four   == <<"request", "resolved_parameters", "model", "scenario">>
           s      == four \o (IF schema = Nothing THEN <<>> ELSE <<"parameter_schema">>)
           inputs == s \o <<"script">>
           logged == Append(inputs, "diagnostics")
<1>. {"script", "diagnostics", "result", "evidence"} \subseteq Kinds
  BY DEF Kinds
<1>1. s \in Seq(Kinds) /\ inputs \in Seq(Kinds) /\ logged \in Seq(Kinds)
  <2>1. four \in Seq(Kinds) /\ <<>> \in Seq(Kinds) /\ <<"parameter_schema">> \in Seq(Kinds)
    BY DEF Kinds
  <2>2. s \in Seq(Kinds)
    <3>. HIDE DEF four
    <3>1. CASE schema = Nothing
      BY <2>1, <3>1
    <3>2. CASE schema # Nothing
      BY <2>1, <3>2
    <3>. QED
      BY <3>1, <3>2
  <2>. HIDE DEF s
  <2>. QED
    BY <2>2
<1>2. s = four \o (IF schema # Nothing THEN <<"parameter_schema">> ELSE <<>>)
  OBVIOUS
<1>3. Expected(schema # Nothing, status) =
        s \o <<"script", "diagnostics">>
          \o (IF status = "succeeded" THEN <<"result">> ELSE <<>>) \o <<"evidence">>
  <2>. HIDE DEF s
  <2>. QED
    BY <1>2, Zenon DEF Expected
<1>4. s \o <<"script", "diagnostics">> = logged
  <2>. HIDE DEF s
  <2>. QED
    BY <1>1, Joined
<1>5. logged \o (IF status = "succeeded" THEN <<"result">> ELSE <<>>) =
        IF status = "succeeded" THEN Append(logged, "result") ELSE logged
  <2>. HIDE DEF logged
  <2>. QED
    BY <1>1, Joined
<1>6. (IF status = "succeeded" THEN Append(logged, "result") ELSE logged) \in Seq(Kinds)
  <2>. HIDE DEF logged
  <2>1. CASE status = "succeeded"
    BY <1>1, <2>1
  <2>2. CASE status # "succeeded"
    BY <1>1, <2>2
  <2>. QED
    BY <2>1, <2>2
<1>7. inputs = InputKinds(schema)
  BY Zenon DEF InputKinds
<1>. HIDE DEF logged, s
<1>. QED
  BY <1>3, <1>4, <1>5, <1>6, <1>7, Joined DEF logged

\* Positions and elements of a sequence.
LEMMA SequenceOf ==
  ASSUME NEW s, IsSequence(s), NEW T
  PROVE  /\ Len(s) \in Nat /\ DOMAIN s = 1 .. Len(s)
         /\ (\A i \in 1 .. Len(s) : s[i] \in T) => s \in Seq(T)
<1>1. PICK S : s \in Seq(S)
  BY DEF IsSequence
<1>2. Len(s) \in Nat /\ s = [i \in 1 .. Len(s) |-> s[i]]
  BY <1>1
<1>. QED
  BY <1>2

\* The content of a kind is among these artifacts.
Holds(artifacts, kind, content) ==
  \E i \in DOMAIN artifacts : artifacts[i] = Artifact(kind, content)

\* A list of artifacts, no two of one kind.
Listed(artifacts) ==
  /\ IsSequence(artifacts) /\ OfOneKind(artifacts)
  /\ \A i \in DOMAIN artifacts :
       /\ artifacts[i] = Artifact(artifacts[i].kind, artifacts[i].sha256)
       /\ artifacts[i].kind \in Kinds

\* No artifact of the kind yet.
Lacks(artifacts, kind) == \A i \in DOMAIN artifacts : artifacts[i].kind # kind

\* The inputs of a run: no two of a kind, the kinds of this order, and all it needs.
LEMMA InputsAre ==
  ASSUME NEW m
  PROVE  LET a == Inputs(m)
         IN  /\ Listed(a) /\ KindsOf(a) = InputKinds(m.schema)
             /\ Lacks(a, "diagnostics") /\ Lacks(a, "result") /\ Lacks(a, "evidence")
             /\ Holds(a, "request", claim.request)
             /\ Holds(a, "resolved_parameters", claim.request.parameters)
             /\ Holds(a, "model", m.model.source) /\ Holds(a, "scenario", m.scenario.source)
             /\ m.schema # Nothing => Holds(a, "parameter_schema", m.schema)
             /\ Holds(a, "script", Lowering(m, claim.request.parameters))
<1> DEFINE a == Inputs(m)
           k == InputKinds(m.schema)
           request  == Artifact("request", claim.request)
           resolved == Artifact("resolved_parameters", claim.request.parameters)
           model    == Artifact("model", m.model.source)
           scenario == Artifact("scenario", m.scenario.source)
           schema   == Artifact("parameter_schema", m.schema)
           script   == Artifact("script", Lowering(m, claim.request.parameters))
<1>1. a = <<request, resolved, model, scenario>>
            \o (IF m.schema = Nothing THEN <<>> ELSE <<schema>>) \o <<script>>
  BY Zenon DEF Inputs
<1>2. k = <<"request", "resolved_parameters", "model", "scenario">>
            \o (IF m.schema = Nothing THEN <<>> ELSE <<"parameter_schema">>) \o <<"script">>
  BY Zenon DEF InputKinds
<1>3. /\ request = Artifact(request.kind, request.sha256) /\ request.kind = "request"
      /\ resolved = Artifact(resolved.kind, resolved.sha256) /\ resolved.kind = "resolved_parameters"
      /\ model = Artifact(model.kind, model.sha256) /\ model.kind = "model"
      /\ scenario = Artifact(scenario.kind, scenario.sha256) /\ scenario.kind = "scenario"
      /\ schema = Artifact(schema.kind, schema.sha256) /\ schema.kind = "parameter_schema"
      /\ script = Artifact(script.kind, script.sha256) /\ script.kind = "script"
  BY DEF Artifact
<1>4. CASE m.schema = Nothing
  <2>1. a = <<request, resolved, model, scenario>> \o <<>> \o <<script>>
    BY <1>1, <1>4
  <2>2. k = <<"request", "resolved_parameters", "model", "scenario">> \o <<>> \o <<"script">>
    BY <1>2, <1>4
  <2>. HIDE DEF a, k, request, resolved, model, scenario, schema, script
  <2>3. /\ IsSequence(a) /\ Len(a) = 5 /\ DOMAIN a = 1 .. 5
        /\ a[1] = request /\ a[2] = resolved /\ a[3] = model /\ a[4] = scenario /\ a[5] = script
    BY <2>1, StartedFive, SequenceOf
  <2>4. /\ IsSequence(k) /\ Len(k) = 5 /\ DOMAIN k = 1 .. 5
        /\ k[1] = "request" /\ k[2] = "resolved_parameters" /\ k[3] = "model"
        /\ k[4] = "scenario" /\ k[5] = "script"
    BY <2>2, StartedFive, SequenceOf
  <2>5. \A i \in 1 .. 5 : i = 1 \/ i = 2 \/ i = 3 \/ i = 4 \/ i = 5
    OBVIOUS
  <2>6. Listed(a)
    BY <1>3, <2>3, <2>5 DEF Listed, OfOneKind, Kinds
  <2>7. KindsOf(a) = k
    <3>1. KindsOf(a) \in Seq(Kinds) /\ Len(KindsOf(a)) = 5
      BY <2>3, <2>6 DEF KindsOf, Listed
    <3>2. k \in Seq(Kinds)
      <4>1. \A i \in 1 .. Len(k) : k[i] \in Kinds
        BY <2>4, <2>5 DEF Kinds
      <4>. QED
        BY <2>4, <4>1, SequenceOf
    <3>3. \A i \in 1 .. 5 : KindsOf(a)[i] = k[i]
      BY <1>3, <2>3, <2>4, <2>5 DEF KindsOf
    <3>. QED
      BY <2>4, <3>1, <3>2, <3>3, SeqEqual
  <2>8. Lacks(a, "diagnostics") /\ Lacks(a, "result") /\ Lacks(a, "evidence")
    BY <1>3, <2>3, <2>5 DEF Lacks
  <2>9. /\ Holds(a, "request", claim.request)
        /\ Holds(a, "resolved_parameters", claim.request.parameters)
        /\ Holds(a, "model", m.model.source) /\ Holds(a, "scenario", m.scenario.source)
        /\ Holds(a, "script", Lowering(m, claim.request.parameters))
    BY <2>3 DEF Holds, request, resolved, model, scenario, script
  <2>. QED
    BY <1>4, <2>6, <2>7, <2>8, <2>9 DEF a, k
<1>5. CASE m.schema # Nothing
  <2>1. a = <<request, resolved, model, scenario>> \o <<schema>> \o <<script>>
    BY <1>1, <1>5
  <2>2. k = <<"request", "resolved_parameters", "model", "scenario">> \o <<"parameter_schema">>
              \o <<"script">>
    BY <1>2, <1>5
  <2>. HIDE DEF a, k, request, resolved, model, scenario, schema, script
  <2>3. /\ IsSequence(a) /\ Len(a) = 6 /\ DOMAIN a = 1 .. 6
        /\ a[1] = request /\ a[2] = resolved /\ a[3] = model /\ a[4] = scenario
        /\ a[5] = schema /\ a[6] = script
    <3>1. IsSequence(a) /\ Len(a) = 6
      BY <2>1, StartedSix
    <3>2. a[1] = request /\ a[2] = resolved /\ a[3] = model
      BY <2>1, StartedSix
    <3>3. a[4] = scenario
      BY <2>1, StartedSix
    <3>4. a[5] = schema
      <4>1. \A u, v, w, x, y, z : (<<u, v, w, x>> \o <<y>> \o <<z>>)[5] = y
        OBVIOUS
      <4>2. (<<request, resolved, model, scenario>> \o <<schema>> \o <<script>>)[5] = schema
        BY <4>1
      <4>. QED
        BY <2>1, <4>2
    <3>5. a[6] = script
      BY <2>1, StartedSix
    <3>. QED
      BY <3>1, <3>2, <3>3, <3>4, <3>5, SequenceOf
  <2>4. /\ IsSequence(k) /\ Len(k) = 6 /\ DOMAIN k = 1 .. 6
        /\ k[1] = "request" /\ k[2] = "resolved_parameters" /\ k[3] = "model"
        /\ k[4] = "scenario" /\ k[5] = "parameter_schema" /\ k[6] = "script"
    BY <2>2, StartedSix, SequenceOf
  <2>5. \A i \in 1 .. 6 : i = 1 \/ i = 2 \/ i = 3 \/ i = 4 \/ i = 5 \/ i = 6
    OBVIOUS
  <2>6. Listed(a)
    BY <1>3, <2>3, <2>5 DEF Listed, OfOneKind, Kinds
  <2>7. KindsOf(a) = k
    <3>1. KindsOf(a) \in Seq(Kinds) /\ Len(KindsOf(a)) = 6
      BY <2>3, <2>6 DEF KindsOf, Listed
    <3>2. k \in Seq(Kinds)
      <4>1. \A i \in 1 .. Len(k) : k[i] \in Kinds
        BY <2>4, <2>5 DEF Kinds
      <4>. QED
        BY <2>4, <4>1, SequenceOf
    <3>3. \A i \in 1 .. 6 : KindsOf(a)[i] = k[i]
      BY <1>3, <2>3, <2>4, <2>5 DEF KindsOf
    <3>. QED
      BY <2>4, <3>1, <3>2, <3>3, SeqEqual
  <2>8. Lacks(a, "diagnostics") /\ Lacks(a, "result") /\ Lacks(a, "evidence")
    BY <1>3, <2>3, <2>5 DEF Lacks
  <2>9. /\ Holds(a, "request", claim.request)
        /\ Holds(a, "resolved_parameters", claim.request.parameters)
        /\ Holds(a, "model", m.model.source) /\ Holds(a, "scenario", m.scenario.source)
        /\ Holds(a, "parameter_schema", m.schema)
        /\ Holds(a, "script", Lowering(m, claim.request.parameters))
    BY <2>3 DEF Holds, request, resolved, model, scenario, schema, script
  <2>. QED
    BY <2>6, <2>7, <2>8, <2>9 DEF a, k
<1>. QED
  BY <1>4, <1>5

\* One more artifact, of a kind that is not there yet.
LEMMA ArtifactAppended ==
  ASSUME NEW a, Listed(a), NEW kind \in Kinds, NEW content, Lacks(a, kind)
  PROVE  LET b == Append(a, Artifact(kind, content))
         IN  /\ Listed(b) /\ KindsOf(b) = Append(KindsOf(a), kind)
             /\ Holds(b, kind, content)
             /\ \A k, c : Holds(a, k, c) => Holds(b, k, c)
             /\ \A k : Lacks(a, k) /\ k # kind => Lacks(b, k)
             /\ \A i \in DOMAIN b : b[i] = Artifact(kind, content) \/
                                    \E j \in DOMAIN a : b[i] = a[j]
<1> DEFINE e == Artifact(kind, content)
           b == Append(a, e)
<1>1. e.kind = kind /\ e.sha256 = content
  BY DEF Artifact
<1>2. IsSequence(a)
  BY DEF Listed
<1>. HIDE DEF e
<1>3. /\ IsSequence(b) /\ Len(a) \in Nat /\ DOMAIN a = 1 .. Len(a)
      /\ DOMAIN b = 1 .. Len(a) + 1
      /\ \A i \in DOMAIN a : b[i] = a[i]
      /\ b[Len(a) + 1] = e
  BY <1>2, Appended
<1>4. KindsOf(b) = Append(KindsOf(a), kind)
  BY <1>1, <1>2, KindsAppended
<1>. HIDE DEF b
<1>5. \A i \in DOMAIN b : i \in DOMAIN a \/ i = Len(a) + 1
  BY <1>3
<1>6. OfOneKind(b)
  BY <1>1, <1>3, <1>5 DEF OfOneKind, Lacks, Listed
<1>7. \A i \in DOMAIN b : b[i] = Artifact(b[i].kind, b[i].sha256) /\ b[i].kind \in Kinds
  BY <1>1, <1>3, <1>5 DEF Listed, e
<1>8. Listed(b)
  BY <1>3, <1>6, <1>7 DEF Listed
<1>9. Holds(b, kind, content) /\ \A k, c : Holds(a, k, c) => Holds(b, k, c)
  BY <1>3 DEF Holds, e
<1>10. \A k : Lacks(a, k) /\ k # kind => Lacks(b, k)
  BY <1>1, <1>3, <1>5 DEF Lacks
<1>11. \A i \in DOMAIN b : b[i] = e \/ \E j \in DOMAIN a : b[i] = a[j]
  BY <1>3, <1>5
<1>. QED
  BY <1>4, <1>8, <1>9, <1>10, <1>11, Zenon DEF b, e

-----------------------------------------------------------------------------
(* Manifests, and what a step leaves alone.                                *)

\* A manifest that is built is well formed, of the selection, and of its kit.
LEMMA BuiltIsPinned ==
  ASSUME NEW sel \in Selections, Built(sel) # Nothing
  PROVE  /\ Selected(sel) /\ intact /\ WellFormedManifest(Built(sel))
         /\ Names(Built(sel)) = sel
         /\ Built(sel).parameters = KitOf(sel).parameters
         /\ Built(sel).normalizer = KitOf(sel).normalizer
         /\ Built(sel).metrics = KitOf(sel).metrics
<1> DEFINE kit == KitOf(sel)
           s   == ScenarioOf(kit, sel.scenario)
           m   == Manifest(kit, s, engine)
<1>1. /\ Selected(sel) /\ intact /\ WellFormedManifest(m) /\ Built(sel) = m
  BY DEF Built
<1>2. kit # Nothing /\ s # Nothing
  BY <1>1 DEF Selected
<1>3. Identity(kit) = <<sel.id, sel.version>>
  <2>1. kit = IF \E k \in release : Identity(k) = <<sel.id, sel.version>>
                THEN CHOOSE k \in release : Identity(k) = <<sel.id, sel.version>> ELSE Nothing
    BY DEF KitOf, Qualified
  <2>. HIDE DEF kit
  <2>. QED
    BY <1>2, <2>1
<1>4. s.id = sel.scenario
  <2>1. s = IF \E x \in kit.scenarios : x.id = sel.scenario
              THEN CHOOSE x \in kit.scenarios : x.id = sel.scenario ELSE Nothing
    BY DEF ScenarioOf
  <2>. HIDE DEF s
  <2>. QED
    BY <1>2, <2>1
<1>5. sel = [id |-> sel.id, version |-> sel.version, scenario |-> sel.scenario]
  BY DEF Selections
<1>. HIDE DEF kit, s
<1>6. /\ m.model.id = kit.id /\ m.model.version = kit.version /\ m.scenario = s
      /\ m.parameters = kit.parameters /\ m.normalizer = kit.normalizer /\ m.metrics = kit.metrics
  BY DEF Manifest
<1>7. kit.id = sel.id /\ kit.version = sel.version
  BY <1>3 DEF Identity
<1>8. Names(m) = sel
  BY <1>4, <1>5, <1>6, <1>7 DEF Names
<1>. QED
  BY <1>1, <1>6, <1>8 DEF kit

\* Nothing that was issued or offered, and nothing of the world.
LEMMA IssuedStays ==
  ASSUME IssuedOK, UNCHANGED <<issued, world, fresh, offered>>
  PROVE  IssuedOK'
BY DEF IssuedOK, Current, Built, Selected, KitOf, world

\* Nothing of what was written, and no other request.
LEMMA RunStays ==
  ASSUME WholeOK, TruthOK, UNCHANGED <<run, file, truth, setBack, damages>>,
         Written' => Written /\ claim'.request = claim.request,
         submit'.at = "return" => submit' = submit
  PROVE  WholeOK' /\ TruthOK'
<1>1. WholeOK'
  BY ZenonT(60)
     DEF WholeOK, Whole, ValidArtifacts, RequestAgrees, LoweringAgrees, MetricsAgree, EvidenceAttests
<1>2. TruthOK'
  BY DEF TruthOK, Placed, Altered
<1>. QED
  BY <1>1, <1>2

\* A submit that is not under way has nothing to keep.
LEMMA NotWriting ==
  ASSUME WritingOK, UNCHANGED file,
         submit'.at \notin {"execute", "interpret", "seal"}
  PROVE  WritingOK'
BY DEF WritingOK

\* Nothing of the submit, or of the claim and the files that it works on.
LEMMA WritingStays ==
  ASSUME WritingOK, UNCHANGED <<file, submit, claim>>
  PROVE  WritingOK'
BY DEF WritingOK, Placed, Inputs, Logged

\* A step that answers nothing refuses nothing that was offered.
LEMMA AcceptedWhenSilent ==
  ASSUME Silent
  PROVE  IssuedIsAccepted'
BY DEF Silent, NoAnswer, IssuedIsAccepted

-----------------------------------------------------------------------------
(* The steps before the claim is promoted.                                 *)

USE DEF SealedInv

\* getManifest: what is issued is what is built, under the key of its selection.
LEMMA ManifestGetKeeps ==
  ASSUME SealedInv, NEW sel \in Selections, ManifestGet(sel)
  PROVE  SealedInv'
<1> DEFINE m == Built(sel)
<1>1. UNCHANGED <<submit, claim, run, file, release, engine, intact, offered, truth, setBack, damages>>
  BY DEF ManifestGet, disk, world
<1>2. m # Nothing /\ Compatible(KitOf(sel), engine) /\ Silent
      /\ issued' = [key \in DOMAIN issued \cup {IssuanceKey(sel)} |->
                      IF key = IssuanceKey(sel) THEN m ELSE issued[key]]
      /\ fresh' = fresh \cup {m}
  BY DEF ManifestGet
<1>3. <<m.model.id, m.model.version, m.scenario.id>> = IssuanceKey(sel)
  <2>1. Names(m) = sel
    BY <1>2, BuiltIsPinned
  <2>. HIDE DEF m
  <2>. QED
    BY <2>1 DEF Names, IssuanceKey
<1>4. \A s \in Selections : \A x : Current(s, x) => Current(s, x)'
  BY <1>1 DEF Current, Built, Selected, KitOf
<1>5. Current(sel, m)
  BY <1>2 DEF Current
<1>6. \A key \in DOMAIN issued' :
        /\ issued'[key] # Nothing
        /\ <<issued'[key].model.id, issued'[key].model.version, issued'[key].scenario.id>> = key
  <2>. HIDE DEF m
  <2>1. \A key \in DOMAIN issued' : \/ key = IssuanceKey(sel) /\ issued'[key] = m
                                    \/ key \in DOMAIN issued /\ issued'[key] = issued[key]
    BY <1>2
  <2>. QED
    BY <1>2, <1>3, <2>1 DEF IssuedOK
<1>7. IssuedOK'
  <2>. HIDE DEF m
  <2>1. \A x \in fresh' : \E s \in Selections : Current(s, x)'
    BY <1>2, <1>4, <1>5 DEF IssuedOK
  <2>2. \A request \in offered' : Current(request.selection, request.manifest)'
    BY <1>1, <1>4 DEF IssuedOK, Current
  <2>3. Selections' = Selections
    BY DEF Selections
  <2>. QED
    BY <1>6, <2>1, <2>2, <2>3 DEF IssuedOK
<1>8. ClaimOK' /\ SubmitOK'
  BY <1>1 DEF ClaimOK, SubmitOK, Written, PinnedOK, Selected, KitOf
<1>. QED
  BY <1>1, <1>2, <1>7, <1>8, RunStays, WritingStays, AcceptedWhenSilent DEF Written

\* getRequestTemplate: a fresh manifest under this key is what this selection builds.
LEMMA TemplateGetKeeps ==
  ASSUME SealedInv, NEW sel \in Selections, NEW m, TemplateGet(sel, m)
  PROVE  SealedInv'
<1>1. UNCHANGED <<issued, submit, claim, run, file, release, engine, intact, fresh, truth, setBack,
                  damages>>
  BY DEF TemplateGet, server, disk, world
<1>2. \A s, x : Current(s, x)' <=> Current(s, x)
  BY <1>1 DEF Current, Built, Selected, KitOf
<1>3. m \in fresh => Current(sel, m)
  <2>1. ASSUME m \in fresh PROVE Current(sel, m)
    <3>1. PICK s \in Selections : Current(s, m)
      BY <2>1 DEF IssuedOK
    <3>2. Names(m) = s
      BY <3>1, BuiltIsPinned DEF Current
    <3>3. <<m.model.id, m.model.version, m.scenario.id>> = <<sel.id, sel.version, sel.scenario>>
      BY DEF TemplateGet, IssuanceKey, IssuedOK
    <3>4. sel = [id |-> sel.id, version |-> sel.version, scenario |-> sel.scenario]
      BY DEF Selections
    <3>5. sel = s
      BY <3>2, <3>3, <3>4 DEF Names
    <3>. QED
      BY <3>1, <3>5
  <2>. QED
    BY <2>1
<1>4. \A request \in offered' : request \in offered \/
        (m \in fresh /\ request.selection = sel /\ request.manifest = m)
  BY DEF TemplateGet, Request
<1>5. IssuedOK'
  BY <1>1, <1>2, <1>3, <1>4 DEF IssuedOK
<1>6. ClaimOK' /\ SubmitOK'
  BY <1>1 DEF ClaimOK, SubmitOK, Written, PinnedOK, Selected, KitOf
<1>7. Silent
  BY DEF TemplateGet
<1>. QED
  BY <1>1, <1>5, <1>6, <1>7, RunStays, WritingStays, AcceptedWhenSilent DEF Written

\* What a reader changes of the claim, and when.
LEMMA ReconcileKeeps ==
  ASSUME SealedInv, Reconcile, UNCHANGED <<submit, issued, world, past>>
  PROVE  SealedInv'
<1>1. UNCHANGED <<run, file, submit, truth, setBack, damages, release, fresh, offered>> /\ run # Nothing
  BY DEF Reconcile, past, world
<1>2. claim' = claim \/ (/\ claim.state \in {"running", "recovery_required"}
                         /\ claim' = [claim EXCEPT !.state = "completed", !.seal = run])
  BY DEF Reconcile
<1>3. claim.state \in {"running", "recovery_required", "completed"} /\ submit.at \in {"idle", "return"}
  BY <1>1 DEF SubmitOK, Written
<1>4. claim # NoClaim
  BY <1>3 DEF NoClaim
<1>5. /\ ClaimOK' /\ claim'.request = claim.request
      /\ claim'.state \in {"running", "recovery_required", "completed"}
  BY <1>2, <1>3, <1>4 DEF ClaimOK
<1>6. SubmitOK'
  BY <1>1, <1>3, <1>5 DEF SubmitOK, Running
<1>7. IssuedIsAccepted'
  BY DEF Reconcile, Serve, IssuedIsAccepted
<1>8. IssuedOK'
  BY <1>1, IssuedStays
<1>9. WritingOK'
  BY <1>1, <1>3, NotWriting
<1>. QED
  BY <1>1, <1>5, <1>6, <1>7, <1>8, <1>9, RunStays DEF Written

\* recoveryResult: only when nobody executes and nothing was written.
LEMMA RecoverKeeps ==
  ASSUME SealedInv, Recover, UNCHANGED <<submit, issued, world, past>>
  PROVE  SealedInv'
<1>1. /\ UNCHANGED <<run, file, submit, truth, setBack, damages, release, fresh, offered>>
      /\ run = Nothing /\ submit.at = "idle" /\ Silent
      /\ claim.state = "running" /\ claim' = [claim EXCEPT !.state = "recovery_required"]
  BY DEF Recover, past, world
<1>2. claim # NoClaim
  BY <1>1 DEF NoClaim
<1>3. ClaimOK'
  BY <1>1, <1>2 DEF ClaimOK
<1>4. ~ Written /\ ~ Written'
  BY <1>1 DEF Written
<1>5. SubmitOK'
  BY <1>1, <1>4 DEF SubmitOK, Running
<1>6. IssuedOK'
  BY <1>1, IssuedStays
<1>7. WritingOK'
  BY <1>1, NotWriting
<1>8. WholeOK' /\ TruthOK'
  BY <1>1, <1>4, RunStays
<1>. QED
  BY <1>1, <1>3, <1>5, <1>6, <1>7, <1>8, AcceptedWhenSilent

-----------------------------------------------------------------------------
(* submit, step by step.                                                   *)

\* submit: a new claim is for a selection and parameters of this release.
LEMMA SubmitKeeps ==
  ASSUME SealedInv, NEW request, request.selection \in Selections, Submit(request)
  PROVE  SealedInv'
<1>1. /\ submit.at = "idle" /\ Selected(request.selection)
      /\ Resolves(KitOf(request.selection).parameters, request.parameters)
      /\ UNCHANGED <<issued, world, past>>
      /\ UNCHANGED <<release, engine, intact, fresh, offered, truth, setBack, damages>>
  BY DEF Submit, world, past
<1>2. ASSUME claim'.request = request, claim'.state = "claimed", ClaimOK', submit' = [at |-> "probe"],
             Silent, UNCHANGED <<run, file>>, ~ Written
      PROVE  SealedInv'
  <2>1. ~ Written'
    BY <1>2 DEF Written
  <2>2. SubmitOK'
    BY <1>1, <1>2, <2>1 DEF SubmitOK, Running, Selected, KitOf
  <2>. QED
    BY <1>1, <1>2, <2>1, <2>2, IssuedStays, NotWriting, RunStays, AcceptedWhenSilent
<1>3. CASE claim = NoClaim
  <2>1. /\ claim' = [request |-> request, state |-> "claimed", seal |-> Nothing]
        /\ submit' = [at |-> "probe"] /\ Silent /\ UNCHANGED <<run, file>>
    BY <1>3 DEF Submit
  <2>2. ~ Written
    BY <1>3 DEF SubmitOK, NoClaim
  <2>3. ClaimOK' /\ claim'.request = request /\ claim'.state = "claimed"
    BY <2>1 DEF ClaimOK
  <2>. QED
    BY <1>2, <2>1, <2>2, <2>3
<1>4. CASE claim # NoClaim /\ Reconcile /\ UNCHANGED submit
  BY <1>1, <1>4, ReconcileKeeps
<1>5. CASE claim # NoClaim /\ Recover /\ UNCHANGED submit
  BY <1>1, <1>5, RecoverKeeps
<1>6. CASE /\ claim # NoClaim /\ claim.request = request /\ claim.state = "claimed"
           /\ submit' = [at |-> "probe"] /\ Silent /\ UNCHANGED <<disk>>
  <2>1. UNCHANGED <<claim, run, file>>
    BY <1>6 DEF disk
  <2>2. ~ Written
    BY <1>6 DEF SubmitOK
  <2>3. ClaimOK'
    BY <2>1 DEF ClaimOK
  <2>. QED
    BY <1>2, <1>6, <2>1, <2>2, <2>3
<1>. QED
  BY <1>3, <1>4, <1>5, <1>6 DEF Submit

\* What was offered is built as it was, for an engine it is compatible with.
LEMMA OfferedIsCurrent ==
  ASSUME IssuedOK, claim.request \in offered
  PROVE  /\ Built(claim.request.selection) = claim.request.manifest
         /\ Built(claim.request.selection) # Nothing
         /\ Compatible(KitOf(claim.request.selection), engine)
         /\ claim.request.selection \in Selections
BY DEF IssuedOK, Current

\* A submit that ends without a run.
LEMMA EndsUnwritten ==
  ASSUME SealedInv, ~ Written, UNCHANGED <<issued, run, world, past>>,
         submit' = Idle, file' = [k \in Kinds |-> file'[k]], claim.request \notin offered,
         \/ Refuse
         \/ Reject /\ claim # NoClaim
  PROVE  SealedInv'
<1>1. UNCHANGED <<release, engine, intact, fresh, offered, truth, setBack, damages>>
  BY DEF world, past
<1>2. ~ Written'
  BY DEF Written, Idle
<1>3. ClaimOK'
  <2>1. CASE UNCHANGED claim
    BY <2>1 DEF ClaimOK
  <2>2. CASE claim' = [claim EXCEPT !.state = "rejected"] /\ claim # NoClaim
    BY <2>2 DEF ClaimOK
  <2>. QED
    BY <2>1, <2>2 DEF Refuse, Reject
<1>4. SubmitOK'
  BY <1>2 DEF SubmitOK, Idle, Running
<1>5. WritingOK'
  BY DEF WritingOK, Idle
<1>6. WholeOK' /\ TruthOK'
  BY <1>1, <1>2 DEF WholeOK, TruthOK
<1>7. IssuedIsAccepted'
  <2>1. answer'.offer = (claim.request \in offered)
    BY DEF Refuse, Reject
  <2>. QED
    BY <2>1 DEF IssuedIsAccepted
<1>. QED
  BY <1>1, <1>3, <1>4, <1>5, <1>6, <1>7, IssuedStays

\* The engine is probed and the manifest built again: an offered one goes on, and what
\* goes on is pinned.
LEMMA ProbeKeeps ==
  ASSUME SealedInv, Probe
  PROVE  SealedInv'
<1> DEFINE sel == claim.request.selection
           m   == Built(sel)
<1>1. /\ submit.at = "probe" /\ UNCHANGED <<issued, run, file, world, past>>
      /\ UNCHANGED <<release, engine, intact, fresh, offered, truth, setBack, damages>>
  BY DEF Probe, world, past
<1>2. /\ claim.state = "claimed" /\ Selected(sel)
      /\ Resolves(KitOf(sel).parameters, claim.request.parameters) /\ ~ Written
  BY <1>1 DEF SubmitOK, Running
<1>3. claim # NoClaim /\ sel \in Selections
  BY <1>2 DEF ClaimOK, NoClaim
<1>4. file' = [k \in Kinds |-> file'[k]]
  BY <1>1 DEF WritingOK
<1>5. CASE m = Nothing \/ m # claim.request.manifest \/ ~ Compatible(KitOf(sel), engine)
  <2>1. claim.request \notin offered
    BY <1>5, OfferedIsCurrent
  <2>2. submit' = Idle /\ (Refuse \/ Reject)
    <3>. HIDE DEF m
    <3>. QED
      BY <1>5 DEF Probe, Refuse, Reject, m
  <2>. QED
    BY <1>1, <1>2, <1>3, <1>4, <2>1, <2>2, EndsUnwritten
<1>6. CASE m # Nothing /\ m = claim.request.manifest /\ Compatible(KitOf(sel), engine)
  <2>1. /\ claim' = [claim EXCEPT !.state = "running"]
        /\ submit' = [at |-> "inputs", manifest |-> m] /\ Silent
    BY <1>6 DEF Probe
  <2>2. ~ Written'
    BY <1>1, <1>2, <2>1 DEF Written
  <2>3. /\ WellFormedManifest(m) /\ Names(m) = sel /\ m.parameters = KitOf(sel).parameters
        /\ m.normalizer = KitOf(sel).normalizer /\ m.metrics = KitOf(sel).metrics
    BY <1>3, <1>6, BuiltIsPinned
  <2>. HIDE DEF m
  <2>4. ClaimOK' /\ claim'.request = claim.request /\ claim'.state = "running"
    BY <1>3, <2>1 DEF ClaimOK
  <2>5. PinnedOK(submit.manifest)'
    BY <1>1, <1>2, <1>6, <2>1, <2>3, <2>4 DEF PinnedOK, KitOf
  <2>6. SubmitOK'
    BY <2>1, <2>2, <2>4, <2>5 DEF SubmitOK, Running
  <2>. QED
    BY <1>1, <2>1, <2>2, <2>4, <2>6, IssuedStays, NotWriting, RunStays, AcceptedWhenSilent
<1>. QED
  BY <1>5, <1>6

\* What writes the inputs, or the log, or the result, leaves the claim and the
\* world alone.
LEMMA WritingOn ==
  ASSUME SealedInv, submit.at \in Running, submit'.at \in Running,
         submit'.manifest = submit.manifest,
         Silent, UNCHANGED <<issued, claim, run, world, past>>, WritingOK'
  PROVE  SealedInv'
<1>1. UNCHANGED <<release, engine, intact, fresh, offered, truth, setBack, damages>>
  BY DEF world, past
<1>2. claim.state = "running" /\ PinnedOK(submit.manifest) /\ ~ Written
  BY DEF SubmitOK, Running
<1>3. ~ Written'
  BY <1>2 DEF Written, Running
<1>4. ClaimOK'
  BY DEF ClaimOK
<1>5. PinnedOK(submit.manifest)'
  BY <1>1, <1>2 DEF PinnedOK, KitOf
<1>6. SubmitOK'
  BY <1>2, <1>3, <1>5 DEF SubmitOK, Running
<1>7. WholeOK' /\ TruthOK'
  BY <1>1, <1>3 DEF WholeOK, TruthOK
<1>. QED
  BY <1>1, <1>4, <1>6, <1>7, IssuedStays, AcceptedWhenSilent

\* Write places what it is given.
LEMMA WritePlaces ==
  ASSUME NEW a, Listed(a), Write(a)
  PROVE  /\ file' = [k \in Kinds |-> file'[k]]
         /\ \A i \in DOMAIN a : file'[a[i].kind] = a[i].sha256
<1>1. \A i \in DOMAIN a : Digest(a, a[i].kind) = a[i].sha256
  BY DigestOfKind DEF Listed
<1>. QED
  BY <1>1 DEF Write, Listed

\* The inputs are written in their order, or the kit files have changed, and then
\* nothing of this request is on offer.
LEMMA WriteInputsKeeps ==
  ASSUME SealedInv, WriteInputs
  PROVE  SealedInv'
<1> DEFINE m == submit.manifest
           contents == Inputs(m)
<1>1. submit.at = "inputs" /\ UNCHANGED <<issued, known, run, world, past>>
  BY DEF WriteInputs
<1>2. claim.state = "running" /\ PinnedOK(m) /\ ~ Written
  BY <1>1 DEF SubmitOK, Running
<1>3. \/ /\ intact /\ Write(contents)
         /\ submit' = [at |-> "execute", manifest |-> m, artifacts |-> contents]
         /\ Silent /\ UNCHANGED claim
      \/ /\ ~ intact /\ Refuse
         /\ \E n \in {1} \cup (IF m.schema = Nothing THEN {} ELSE {4}) : Write(SubSeq(contents, 1, n))
  BY DEF WriteInputs, Inputs
<1>4. CASE /\ Write(contents) /\ Silent /\ UNCHANGED claim
           /\ submit' = [at |-> "execute", manifest |-> m, artifacts |-> contents]
  <2>1. Listed(contents)
    BY InputsAre
  <2>2. /\ file' = [k \in Kinds |-> file'[k]]
        /\ \A i \in DOMAIN contents : file'[contents[i].kind] = contents[i].sha256
    BY <1>4, <2>1, WritePlaces
  <2>3. Inputs(submit.manifest)' = contents
    BY <1>4 DEF Inputs
  <2>. HIDE DEF contents
  <2>4. WritingOK'
    BY <1>4, <2>2, <2>3 DEF WritingOK, Placed
  <2>5. submit'.at \in Running /\ submit'.manifest = submit.manifest /\ submit.at \in Running
    BY <1>1, <1>4 DEF Running
  <2>. QED
    BY <1>1, <1>4, <2>4, <2>5, WritingOn
<1>5. CASE ~ intact /\ Refuse /\ \E n \in {1, 4} : Write(SubSeq(contents, 1, n))
  <2>1. claim.request \notin offered
    BY <1>5, OfferedIsCurrent, BuiltIsPinned
  <2>2. file' = [k \in Kinds |-> file'[k]]
    BY <1>5 DEF Write
  <2>3. submit' = Idle
    BY <1>5 DEF Refuse
  <2>. QED
    BY <1>1, <1>2, <1>5, <2>1, <2>2, <2>3, EndsUnwritten
<1>. QED
  BY <1>3, <1>4, <1>5

\* The solver ran: the log joins the inputs.
LEMMA ExecuteKeeps ==
  ASSUME SealedInv, Execute
  PROVE  SealedInv'
<1> DEFINE m == submit.manifest
<1>1. submit.at = "execute" /\ Silent /\ UNCHANGED <<issued, known, claim, run, world, past>>
  BY DEF Execute
<1>2. PICK status \in Verdicts, csv \in Tables \cup {Nothing} :
        /\ submit' = [at |-> "interpret", manifest |-> m, status |-> status, csv |-> csv,
                      artifacts |-> Append(submit.artifacts, Artifact("diagnostics", status))]
        /\ file' = [file EXCEPT !["diagnostics"] = status]
  BY DEF Execute, Verdicts
<1>3. submit.artifacts = Inputs(m) /\ Placed(Inputs(m)) /\ file = [k \in Kinds |-> file[k]]
  BY <1>1, SMTT(30) DEF WritingOK
<1>4. Listed(Inputs(m)) /\ Lacks(Inputs(m), "diagnostics") /\ "diagnostics" \in Kinds
  BY InputsAre DEF Kinds
<1>5. /\ submit'.artifacts = Logged(m, status) /\ Inputs(submit.manifest)' = Inputs(m)
      /\ Logged(submit.manifest, submit.status)' = Logged(m, status)
  BY <1>1, <1>2, <1>3 DEF Logged, Inputs
<1>6. \A i \in DOMAIN Logged(m, status) :
        \/ Logged(m, status)[i] = Artifact("diagnostics", status)
        \/ \E j \in DOMAIN Inputs(m) : Logged(m, status)[i] = Inputs(m)[j]
  BY <1>4, ArtifactAppended DEF Logged
<1>7. \A i \in DOMAIN Logged(m, status) :
        file'[Logged(m, status)[i].kind] = Logged(m, status)[i].sha256
  BY <1>2, <1>3, <1>4, <1>6 DEF Placed, Lacks, Artifact, Listed
<1>8. WritingOK'
  <2>1. file' = [k \in Kinds |-> file'[k]]
    BY <1>2, <1>3
  <2>2. Placed(submit.artifacts)'
    BY <1>5, <1>7 DEF Placed
  <2>. QED
    BY <1>2, <1>5, <2>1, <2>2 DEF WritingOK
<1>9. submit'.at \in Running /\ submit'.manifest = m /\ submit.at \in Running
  BY <1>1, <1>2 DEF Running
<1>. QED
  BY <1>1, <1>8, <1>9, WritingOn

\* Every input of a run is among these artifacts.
HoldsInputs(artifacts, m) ==
  /\ Holds(artifacts, "request", claim.request)
  /\ Holds(artifacts, "resolved_parameters", claim.request.parameters)
  /\ Holds(artifacts, "model", m.model.source) /\ Holds(artifacts, "scenario", m.scenario.source)
  /\ m.schema # Nothing => Holds(artifacts, "parameter_schema", m.schema)
  /\ Holds(artifacts, "script", Lowering(m, claim.request.parameters))

\* The inputs and the log: still no two of a kind, and no result or evidence yet.
LEMMA LoggedAre ==
  ASSUME NEW m, NEW log
  PROVE  LET a == Logged(m, log)
         IN  /\ Listed(a) /\ KindsOf(a) = Append(InputKinds(m.schema), "diagnostics")
             /\ Lacks(a, "result") /\ Lacks(a, "evidence") /\ HoldsInputs(a, m)
<1> DEFINE b == Inputs(m)
           a == Append(b, Artifact("diagnostics", log))
<1>1. /\ Listed(b) /\ KindsOf(b) = InputKinds(m.schema)
      /\ Lacks(b, "diagnostics") /\ Lacks(b, "result") /\ Lacks(b, "evidence")
      /\ HoldsInputs(b, m) /\ "diagnostics" \in Kinds
  BY InputsAre DEF HoldsInputs, Kinds
<1>. HIDE DEF b
<1>2. /\ Listed(a) /\ KindsOf(a) = Append(KindsOf(b), "diagnostics")
      /\ \A k, c : Holds(b, k, c) => Holds(a, k, c)
      /\ \A k : Lacks(b, k) /\ k # "diagnostics" => Lacks(a, k)
  BY <1>1, ArtifactAppended, Zenon
<1>. HIDE DEF a
<1>3. HoldsInputs(a, m) /\ Lacks(a, "result") /\ Lacks(a, "evidence")
  BY <1>1, <1>2 DEF HoldsInputs
<1>4. Logged(m, log) = a
  BY DEF Logged, a, b
<1>. QED
  BY <1>1, <1>2, <1>3, <1>4

\* What submit has in its hands when it seals: all but the evidence.
LEMMA SealedAre ==
  ASSUME WritingOK, submit.at = "seal"
  PROVE  LET a == submit.artifacts
             m == submit.manifest
         IN  /\ Listed(a) /\ Lacks(a, "evidence") /\ HoldsInputs(a, m)
             /\ Append(KindsOf(a), "evidence") = Expected(m.schema # Nothing, submit.status)
             /\ submit.status = "succeeded" => Holds(a, "result", submit.csv)
<1> DEFINE m == submit.manifest
           b == Logged(m, submit.status)
<1>1. PICK log \in Verdicts :
        IF submit.status = "succeeded"
          THEN submit.artifacts = Append(Logged(m, log), Artifact("result", submit.csv))
          ELSE submit.artifacts = Logged(m, log)
  BY DEF WritingOK
<1>2. /\ Listed(Logged(m, log)) /\ KindsOf(Logged(m, log)) = Append(InputKinds(m.schema), "diagnostics")
      /\ Lacks(Logged(m, log), "result") /\ Lacks(Logged(m, log), "evidence")
      /\ HoldsInputs(Logged(m, log), m)
  BY LoggedAre
<1>3. Expected(m.schema # Nothing, submit.status) =
        Append(IF submit.status = "succeeded" THEN Append(KindsOf(Logged(m, log)), "result")
                                              ELSE KindsOf(Logged(m, log)), "evidence")
  BY <1>2, ExpectedKinds
<1>4. CASE submit.status = "succeeded"
  <2>1. "result" \in Kinds
    BY DEF Kinds
  <2> DEFINE a == Append(Logged(m, log), Artifact("result", submit.csv))
  <2>2. /\ Listed(a) /\ KindsOf(a) = Append(KindsOf(Logged(m, log)), "result")
        /\ Holds(a, "result", submit.csv)
        /\ \A k, c : Holds(Logged(m, log), k, c) => Holds(a, k, c)
        /\ \A k : Lacks(Logged(m, log), k) /\ k # "result" => Lacks(a, k)
    BY <1>2, <2>1, ArtifactAppended, Zenon
  <2>3. submit.artifacts = a
    BY <1>1, <1>4
  <2>. HIDE DEF a
  <2>. QED
    BY <1>2, <1>3, <1>4, <2>2, <2>3 DEF HoldsInputs
<1>5. CASE submit.status # "succeeded"
  BY <1>1, <1>2, <1>3, <1>5
<1>. QED
  BY <1>4, <1>5

\* What the normalizer leaves submit with: saved is whether the CSV is evidence.
LEMMA InterpretedAs ==
  ASSUME Interpret
  PROVE  LET m   == submit.manifest
             kit == KitOf(claim.request.selection)
             out == Normalize(kit.normalizer, submit.csv, m.scenario)
             ok  == /\ submit.status = "succeeded" /\ submit.csv # Nothing /\ out # Nothing
                    /\ ValidMetrics(kit.metrics, out.metrics, TRUE)
             a   == submit.artifacts
         IN  \E saved \in BOOLEAN :
               /\ saved => ok
               /\ submit'.at = "seal" /\ submit'.manifest = m /\ submit'.csv = submit.csv
               /\ submit'.status =
                    IF submit.status = "succeeded" /\ ~ saved THEN "failed" ELSE submit.status
               /\ submit'.metrics = IF ok THEN out.metrics ELSE <<>>
               /\ saved => submit'.warnings = out.warnings
               /\ submit'.artifacts = IF saved THEN Append(a, Artifact("result", submit.csv)) ELSE a
               /\ submit'.unsaved = (ok /\ ~ saved)
               /\ file' = IF saved THEN [file EXCEPT !["result"] = submit.csv] ELSE file
<1> DEFINE s   == submit
           kit == KitOf(claim.request.selection)
           out == Normalize(kit.normalizer, s.csv, s.manifest.scenario)
           ok  == /\ s.status = "succeeded" /\ s.csv # Nothing /\ out # Nothing
                  /\ ValidMetrics(kit.metrics, out.metrics, TRUE)
           Complaint == IF s.status = "succeeded" THEN <<"not interpreted">> ELSE <<>>
           Status(saved) == IF s.status = "succeeded" /\ ~ saved THEN "failed" ELSE s.status
           Metrics == IF ok THEN out.metrics ELSE <<>>
           Warnings(saved) == IF saved THEN out.warnings
                              ELSE IF ok THEN out.warnings \o Complaint ELSE Complaint
           Artifacts(saved) == IF saved THEN Append(s.artifacts, Artifact("result", s.csv))
                               ELSE s.artifacts
           Unsaved(saved) == ok /\ ~ saved
<1>1. PICK saved \in IF ok THEN BOOLEAN ELSE {FALSE} :
        /\ submit' = [at |-> "seal", manifest |-> s.manifest, csv |-> s.csv,
                      status |-> Status(saved), metrics |-> Metrics, warnings |-> Warnings(saved),
                      artifacts |-> Artifacts(saved), unsaved |-> Unsaved(saved)]
        /\ file' = IF saved THEN [file EXCEPT !["result"] = s.csv] ELSE file
  BY Zenon DEF Interpret
<1>2. saved \in BOOLEAN /\ (saved => ok)
  <2>. HIDE DEF ok
  <2>. QED BY <1>1
<1>3. saved => Warnings(saved) = out.warnings
  BY Zenon
<1>. HIDE DEF Status, Metrics, Warnings, Artifacts, Unsaved, ok
<1>4. /\ submit'.at = "seal" /\ submit'.manifest = s.manifest /\ submit'.csv = s.csv
      /\ submit'.status = Status(saved) /\ submit'.metrics = Metrics
      /\ submit'.warnings = Warnings(saved) /\ submit'.artifacts = Artifacts(saved)
      /\ submit'.unsaved = Unsaved(saved)
  BY <1>1
<1>. QED
  BY <1>1, <1>2, <1>3, <1>4, Zenon DEF Status, Metrics, Artifacts, Unsaved, ok

\* The normalizer: a success keeps its CSV and has exactly its metrics.
LEMMA InterpretKeeps ==
  ASSUME SealedInv, Interpret
  PROVE  SealedInv'
<1> DEFINE m   == submit.manifest
           kit == KitOf(claim.request.selection)
           out == Normalize(kit.normalizer, submit.csv, m.scenario)
           ok  == /\ submit.status = "succeeded" /\ submit.csv # Nothing /\ out # Nothing
                  /\ ValidMetrics(kit.metrics, out.metrics, TRUE)
           a   == submit.artifacts
<1>1. submit.at = "interpret" /\ Silent /\ UNCHANGED <<issued, known, claim, run, world, past>>
  BY DEF Interpret
<1>2. PICK saved \in BOOLEAN :
        /\ saved => ok
        /\ submit'.at = "seal" /\ submit'.manifest = m /\ submit'.csv = submit.csv
        /\ submit'.status = IF submit.status = "succeeded" /\ ~ saved THEN "failed" ELSE submit.status
        /\ submit'.metrics = IF ok THEN out.metrics ELSE <<>>
        /\ saved => submit'.warnings = out.warnings
        /\ submit'.artifacts = IF saved THEN Append(a, Artifact("result", submit.csv)) ELSE a
        /\ submit'.unsaved = (ok /\ ~ saved)
        /\ file' = IF saved THEN [file EXCEPT !["result"] = submit.csv] ELSE file
  BY InterpretedAs
<1>3. m.normalizer = kit.normalizer /\ m.metrics = kit.metrics
  BY <1>1 DEF SubmitOK, PinnedOK, Running
<1>4. /\ submit.status \in Verdicts /\ a = Logged(m, submit.status) /\ Placed(a)
      /\ file = [k \in Kinds |-> file[k]]
  BY <1>1 DEF WritingOK
<1>5. Listed(a) /\ Lacks(a, "result") /\ "result" \in Kinds
  BY <1>4, LoggedAre DEF Kinds
<1>6. submit'.at = "seal" /\ submit'.manifest = m /\ submit'.csv = submit.csv
  BY <1>2
<1>. HIDE DEF out
<1>7. \A log : Logged(submit.manifest, log)' = Logged(m, log)
  <2>. SUFFICES ASSUME NEW CONSTANT log PROVE Logged(submit.manifest, log)' = Logged(m, log)
    OBVIOUS
  <2>. QED
    BY <1>1, <1>6 DEF Logged, Inputs
<1>8. ASSUME ok, saved PROVE WritingOK'
  <2> DEFINE b == Append(a, Artifact("result", submit.csv))
  <2>1. /\ submit'.artifacts = b /\ submit'.status = "succeeded" /\ submit'.metrics = out.metrics
        /\ submit'.warnings = out.warnings /\ file' = [file EXCEPT !["result"] = submit.csv]
    BY <1>2, <1>8
  <2>2. \A i \in DOMAIN b : b[i] = Artifact("result", submit.csv) \/ \E j \in DOMAIN a : b[i] = a[j]
    <3>. HIDE DEF a
    <3>1. \A c : \A i \in DOMAIN Append(a, Artifact("result", c)) :
            \/ Append(a, Artifact("result", c))[i] = Artifact("result", c)
            \/ \E j \in DOMAIN a : Append(a, Artifact("result", c))[i] = a[j]
      BY <1>5, ArtifactAppended
    <3>. QED
      BY <3>1
  <2>. HIDE DEF b
  <2>3. \A i \in DOMAIN b : file'[b[i].kind] = b[i].sha256
    BY <1>4, <1>5, <2>1, <2>2 DEF Placed, Lacks, Artifact, Listed
  <2>4. Placed(submit.artifacts)'
    BY <2>1, <2>3 DEF Placed
  <2>5. file' = [k \in Kinds |-> file'[k]]
    BY <1>4, <2>1
  <2>6. Interpreted(submit.manifest, submit.csv, submit.metrics, submit.warnings)'
    BY <1>3, <1>6, <1>8, <2>1 DEF Interpreted, out
  <2>7. submit'.artifacts = Append(Logged(m, submit.status), Artifact("result", submit'.csv))
    BY <1>4, <1>6, <2>1 DEF b
  <2>. QED
    BY <1>4, <1>6, <1>7, <2>1, <2>4, <2>5, <2>6, <2>7 DEF WritingOK, Verdicts
<1>9. ASSUME ~ saved PROVE WritingOK'
  <2>1. /\ submit'.artifacts = a /\ submit'.status \in Verdicts \ {"succeeded"}
        /\ submit'.unsaved \/ submit'.metrics = <<>>
        /\ file' = file
    BY <1>2, <1>4, <1>9 DEF Verdicts
  <2>. QED
    BY <1>4, <1>6, <1>7, <2>1 DEF WritingOK, Placed
<1>10. WritingOK' => SealedInv'
  BY <1>1, <1>6, WritingOn DEF Running
<1>11. WritingOK'
  BY <1>2, <1>8, <1>9
<1>. QED
  BY <1>10, <1>11

\* A sequence ends with itself.
LEMMA OwnSuffix ==
  ASSUME NEW S, NEW w \in Seq(S)
  PROVE  IsSuffix(w, w)
<1>1. Reverse(w) \in Seq(S)
  BY DEF Reverse
<1>. QED
  BY <1>1 DEF IsSuffix, IsPrefix

\* The warnings of a normalizer are a sequence, which ends with itself.
LEMMA WarningsEnd ==
  ASSUME NEW normalizer, NEW csv, NEW scenario,
         Normalize(normalizer, csv, scenario) # Nothing
  PROVE  LET warnings == Normalize(normalizer, csv, scenario).warnings
         IN  IsSuffix(warnings, warnings)
<1> DEFINE out == Normalize(normalizer, csv, scenario)
           S   == {"target not reached"}
<1>1. <<>> \in Seq(S) /\ <<"target not reached">> \in Seq(S)
  OBVIOUS
<1>2. out.warnings = <<>> \/ out.warnings = <<"target not reached">>
  <2>1. CASE normalizer = "coffee"
    BY <2>1 DEF Normalize, NormalizeCoffee
  <2>2. CASE normalizer # "coffee"
    BY <2>2 DEF Normalize, NormalizeRamp
  <2>. QED
    BY <2>1, <2>2
<1>3. out.warnings \in Seq(S)
  BY <1>1, <1>2
<1>. QED
  BY <1>3, OwnSuffix

\* A content that is among these artifacts is the digest of its kind, and the file.
LEMMA HeldIsPlaced ==
  ASSUME NEW a, Listed(a), NEW k, NEW c, Holds(a, k, c)
  PROVE  /\ Digest(a, k) = c
         /\ Placed(a) => file[k] = c
<1>1. PICK i \in DOMAIN a : a[i] = Artifact(k, c)
  BY DEF Holds
<1>2. a[i].kind = k /\ a[i].sha256 = c
  BY <1>1 DEF Artifact
<1>. QED
  BY <1>2, DigestOfKind DEF Listed, Placed

\* The run that submit writes, with its evidence.
LEMMA WrittenIsWhole ==
  ASSUME SealedInv, WriteLedger
  PROVE  /\ TruthOK' /\ file' = [k \in Kinds |-> file'[k]]
         /\ ~ truth'.unsaved => Whole(run)'
         /\ ~ setBack' => run'.started <= run'.completed
<1> DEFINE s == submit
           m == submit.manifest
           a == submit.artifacts
           body == [status |-> s.status, manifest |-> m, metrics |-> s.metrics,
                    warnings |-> s.warnings]
           e == [body |-> body, request |-> claim.request, engine |-> m.engine,
                 script |-> Digest(a, "script"), status |-> s.status, csv |-> s.csv]
           b == Append(a, Artifact("evidence", e))
           files == [k \in Kinds |-> IF \E i \in DOMAIN b : b[i].kind = k
                                       THEN Digest(b, k) ELSE Nothing]
<1>1. /\ s.at = "seal" /\ UNCHANGED <<claim, damages>>
      /\ file' = [file EXCEPT !["evidence"] = e]
  BY DEF WriteLedger
<1>2. PICK completed \in 0 .. 1 :
        /\ run' = [manifest |-> m, status |-> s.status, started |-> 1, completed |-> completed,
                   resolved |-> claim.request.parameters, metrics |-> s.metrics,
                   warnings |-> s.warnings, artifacts |-> b]
        /\ setBack' = (completed < 1)
  BY DEF WriteLedger
<1>3. /\ truth' = [run |-> run', files |-> files, unsaved |-> s.unsaved]
      /\ submit' = [at |-> "return", run |-> run']
  <2>1. run'.artifacts = b
    BY <1>2
  <2>2. /\ truth' = [run |-> run', files |-> [k \in Kinds |->
                        IF \E i \in DOMAIN run'.artifacts : run'.artifacts[i].kind = k
                          THEN Digest(run'.artifacts, k) ELSE Nothing],
                     unsaved |-> s.unsaved]
        /\ submit' = [at |-> "return", run |-> run']
    BY DEF WriteLedger
  <2>. QED
    BY <2>1, <2>2
<1>4. /\ Listed(a) /\ Lacks(a, "evidence") /\ HoldsInputs(a, m)
      /\ Append(KindsOf(a), "evidence") = Expected(m.schema # Nothing, s.status)
      /\ s.status = "succeeded" => Holds(a, "result", s.csv)
  BY <1>1, SealedAre
<1>5. Placed(a) /\ file = [k \in Kinds |-> file[k]] /\ s.status \in Verdicts
  BY <1>1 DEF WritingOK
<1>6. IF s.status = "succeeded" THEN Interpreted(m, s.csv, s.metrics, s.warnings)
                                ELSE s.unsaved \/ s.metrics = <<>>
  BY <1>1 DEF WritingOK
<1>7. PinnedOK(m)
  BY <1>1 DEF SubmitOK, Running
<1>8. /\ Listed(b) /\ KindsOf(b) = Expected(m.schema # Nothing, s.status)
      /\ Holds(b, "evidence", e) /\ HoldsInputs(b, m)
      /\ s.status = "succeeded" => Holds(b, "result", s.csv)
      /\ \A i \in DOMAIN b : b[i] = Artifact("evidence", e) \/ \E j \in DOMAIN a : b[i] = a[j]
  <2>. HIDE DEF e
  <2>1. "evidence" \in Kinds
    BY DEF Kinds
  <2>2. \A c : LET x == Append(a, Artifact("evidence", c))
               IN  /\ Listed(x) /\ KindsOf(x) = Append(KindsOf(a), "evidence")
                   /\ Holds(x, "evidence", c)
                   /\ \A k, d : Holds(a, k, d) => Holds(x, k, d)
                   /\ \A i \in DOMAIN x : x[i] = Artifact("evidence", c) \/
                                          \E j \in DOMAIN a : x[i] = a[j]
    <3>. HIDE DEF a
    <3>. QED
      BY <1>4, <2>1, ArtifactAppended
  <2>3. /\ Listed(b) /\ KindsOf(b) = Append(KindsOf(a), "evidence")
        /\ Holds(b, "evidence", e)
        /\ \A k, d : Holds(a, k, d) => Holds(b, k, d)
        /\ \A i \in DOMAIN b : b[i] = Artifact("evidence", e) \/ \E j \in DOMAIN a : b[i] = a[j]
    BY <2>2
  <2>. HIDE DEF b
  <2>. QED
    BY <1>4, <2>3 DEF HoldsInputs
<1>9. \A i \in DOMAIN b : file'[b[i].kind] = b[i].sha256
  <2>. HIDE DEF e, b
  <2>. SUFFICES ASSUME NEW i \in DOMAIN b PROVE file'[b[i].kind] = b[i].sha256
    OBVIOUS
  <2>1. CASE b[i] = Artifact("evidence", e)
    <3>1. "evidence" \in DOMAIN file
      BY <1>5 DEF Kinds
    <3>. QED
      BY <1>1, <2>1, <3>1 DEF Artifact
  <2>2. CASE \E j \in DOMAIN a : b[i] = a[j]
    <3>. PICK j \in DOMAIN a : b[i] = a[j]
      BY <2>2
    <3>1. a[j].kind # "evidence" /\ file[a[j].kind] = a[j].sha256 /\ a[j].kind \in Kinds
      BY <1>4, <1>5 DEF Lacks, Placed, Listed
    <3>. QED
      BY <1>1, <1>5, <3>1
  <2>. QED
    BY <1>8, <2>1, <2>2
<1>10. file' = [k \in Kinds |-> file'[k]]
  BY <1>1, <1>5
<1>11. /\ run'.manifest = m /\ run'.status = s.status /\ run'.resolved = claim.request.parameters
       /\ run'.metrics = s.metrics /\ run'.warnings = s.warnings /\ run'.artifacts = b
       /\ run'.started = 1 /\ run'.completed = completed
       /\ EvidenceBody(run') = body
  BY <1>2 DEF EvidenceBody
<1>12. e.body = body /\ e.request = claim.request /\ e.engine = m.engine
       /\ e.script = Digest(a, "script") /\ e.status = s.status /\ e.csv = s.csv
  OBVIOUS
<1>. HIDE DEF e, b, files, body
<1>13. \A k, c : Holds(b, k, c) => Digest(b, k) = c /\ file'[k] = c
  <2>. SUFFICES ASSUME NEW k, NEW c, Holds(b, k, c) PROVE Digest(b, k) = c /\ file'[k] = c
    OBVIOUS
  <2>1. PICK i \in DOMAIN b : b[i] = Artifact(k, c)
    BY DEF Holds
  <2>2. b[i].kind = k /\ b[i].sha256 = c
    BY <2>1 DEF Artifact
  <2>. QED
    BY <1>8, <1>9, <2>2, DigestOfKind DEF Listed
<1>14. Digest(a, "script") = file'["script"] /\ file'["evidence"] = e
  <2>1. Digest(a, "script") = Lowering(m, claim.request.parameters)
    BY <1>4, HeldIsPlaced DEF HoldsInputs
  <2>. QED
    BY <1>8, <1>13, <2>1 DEF HoldsInputs
<1>15. ValidArtifacts(run)'
  <2>1. [i \in DOMAIN b |-> b[i].kind] = Expected(m.schema # Nothing, s.status)
    BY <1>8 DEF KindsOf
  <2>2. /\ Digest(b, "model") = m.model.source /\ Digest(b, "scenario") = m.scenario.source
        /\ m.schema # Nothing => Digest(b, "parameter_schema") = m.schema
    BY <1>8, <1>13 DEF HoldsInputs
  <2>. QED
    <3>1. [i \in DOMAIN run'.artifacts |-> run'.artifacts[i].kind] =
            Expected(run'.manifest.schema # Nothing, run'.status)
      BY <1>11, <2>1, Zenon
    <3>2. \A i \in DOMAIN run'.artifacts : file'[run'.artifacts[i].kind] = run'.artifacts[i].sha256
      BY <1>9, <1>11, Zenon
    <3>3. /\ Digest(run'.artifacts, "model") = run'.manifest.model.source
          /\ Digest(run'.artifacts, "scenario") = run'.manifest.scenario.source
          /\ run'.manifest.schema # Nothing =>
               Digest(run'.artifacts, "parameter_schema") = run'.manifest.schema
      BY <1>11, <2>2
    <3>. QED
      BY <3>1, <3>2, <3>3, Zenon DEF ValidArtifacts
<1>16. RequestAgrees(run)'
  <2>1. file'["request"] = claim.request
    BY <1>8, <1>13 DEF HoldsInputs
  <2>. QED
    BY <1>1, <1>7, <1>11, <2>1 DEF RequestAgrees, PinnedOK, Names
<1>17. LoweringAgrees(run)'
  <2>1. /\ file'["resolved_parameters"] = claim.request.parameters
        /\ file'["script"] = Lowering(m, claim.request.parameters)
    BY <1>8, <1>13 DEF HoldsInputs
  <2>. QED
    BY <1>1, <1>7, <1>11, <2>1 DEF LoweringAgrees, PinnedOK, ReplayBounds
<1>18. s.status = "succeeded" => file'["result"] = s.csv
  BY <1>8, <1>13
<1>19. ~ s.unsaved => ValidMetrics(run.manifest.metrics, run.metrics, run.status = "succeeded")'
  BY <1>6, <1>11 DEF ValidMetrics, Interpreted
<1>20. ~ s.unsaved => MetricsAgree(run)'
  <2>1. CASE s.status = "succeeded"
    BY <1>6, <1>11, <1>18, <2>1, WarningsEnd DEF MetricsAgree, Interpreted
  <2>2. CASE s.status # "succeeded"
    BY <1>6, <1>11, <2>2 DEF MetricsAgree
  <2>. QED
    BY <2>1, <2>2
<1>21. EvidenceAttests(file["evidence"], run)'
  <2>1. EvidenceBody(run)' = body
    BY <1>11 DEF EvidenceBody
  <2>. QED
    BY <1>1, <1>11, <1>12, <1>14, <1>18, <2>1 DEF EvidenceAttests
<1>22. ~ s.unsaved => Whole(run)'
  BY <1>1, <1>5, <1>7, <1>11, <1>15, <1>16, <1>17, <1>19, <1>20, <1>21 DEF Whole, PinnedOK
<1>23. TruthOK'
  <2>1. /\ run' = [manifest |-> run'.manifest, status |-> run'.status, started |-> run'.started,
                    completed |-> run'.completed, resolved |-> run'.resolved,
                    metrics |-> run'.metrics, warnings |-> run'.warnings,
                    artifacts |-> run'.artifacts]
        /\ truth'.run = run' /\ truth'.files = files /\ submit'.run = run'
        /\ damages' \in 0 .. MaxDamage
    BY <1>1, <1>2, <1>3 DEF TruthOK
  <2>2. b = [i \in DOMAIN b |-> Artifact(b[i].kind, b[i].sha256)]
    <3>1. b = [i \in DOMAIN b |-> b[i]]
      BY <1>8, SequenceOf DEF Listed, IsSequence
    <3>. QED
      BY <1>8, <3>1 DEF Listed
  <2>3. \A k \in Kinds : files[k] # Nothing =>
          \E i \in DOMAIN b : b[i] = Artifact(k, files[k])
    <3>. SUFFICES ASSUME NEW k \in Kinds, files[k] # Nothing
                  PROVE  \E i \in DOMAIN b : b[i] = Artifact(k, files[k])
      OBVIOUS
    <3>1. PICK i \in DOMAIN b : b[i].kind = k /\ files[k] = Digest(b, k)
      BY DEF files
    <3>2. Digest(b, k) = b[i].sha256
      BY <1>8, <3>1, DigestOfKind DEF Listed
    <3>. QED
      BY <1>8, <3>1, <3>2 DEF Listed
  <2>4. \E i \in DOMAIN b : b[i].kind = "evidence" /\ b[i].sha256.body = EvidenceBody(run')
    BY <1>8, <1>11, <1>12 DEF Holds, Artifact
  <2>5. Placed(truth.run.artifacts)'
    BY <1>9, <1>11, <2>1 DEF Placed
  <2>6. run'.resolved = claim'.request.parameters /\ run'.artifacts = b
    BY <1>1, <1>11
  <2>. QED
    BY <2>1, <2>2, <2>3, <2>4, <2>5, <2>6 DEF TruthOK
<1>24. ~ setBack' => run'.started <= run'.completed
  <2>1. ~ setBack' => ~ (completed < 1)
    BY <1>2, Zenon
  <2>. QED
    BY <1>11, <2>1
<1>25. truth'.unsaved = s.unsaved
  BY <1>3
<1>. QED
  BY <1>10, <1>22, <1>23, <1>24, <1>25

\* The ledger: from here on there is a whole run and its truth.
LEMMA WriteLedgerKeeps ==
  ASSUME SealedInv, WriteLedger
  PROVE  SealedInv'
<1>1. /\ submit.at = "seal" /\ submit'.at = "return" /\ Silent
      /\ UNCHANGED <<issued, claim, world, fresh, offered>>
  BY DEF WriteLedger
<1>2. claim.state = "running"
  BY <1>1 DEF SubmitOK, Running
<1>3. ClaimOK'
  BY <1>1 DEF ClaimOK
<1>4. SubmitOK'
  BY <1>1, <1>2 DEF SubmitOK, Running
<1>5. /\ TruthOK' /\ file' = [k \in Kinds |-> file'[k]]
      /\ ~ truth'.unsaved => Whole(run)'
      /\ ~ setBack' => run'.started <= run'.completed
  BY WrittenIsWhole
<1>6. WholeOK'
  BY <1>5 DEF WholeOK
<1>7. WritingOK'
  BY <1>1, <1>5 DEF WritingOK
<1>. QED
  BY <1>1, <1>3, <1>4, <1>5, <1>6, <1>7, IssuedStays, AcceptedWhenSilent

\* The claim is sealed with what is read back.
LEMMA ReturnKeeps ==
  ASSUME SealedInv, Return
  PROVE  SealedInv'
<1>1. /\ submit.at = "return" /\ submit' = Idle
      /\ UNCHANGED <<issued, run, file, world, past>>
      /\ UNCHANGED <<fresh, offered, truth, setBack, damages>>
  BY DEF Return, past
<1>2. claim.state \in {"running", "recovery_required", "completed"}
  BY <1>1 DEF SubmitOK, Written
<1>3. claim # NoClaim
  BY <1>2 DEF NoClaim
<1>4. /\ ClaimOK' /\ claim'.request = claim.request
      /\ claim'.state \in {"running", "recovery_required", "completed"}
  BY <1>2, <1>3 DEF Return, ClaimOK
<1>5. SubmitOK'
  BY <1>1, <1>4 DEF SubmitOK, Running, Idle
<1>6. WritingOK'
  BY <1>1, NotWriting DEF Idle
<1>7. WholeOK' /\ TruthOK'
  BY <1>1, <1>4, RunStays DEF Written, Idle
<1>8. IssuedIsAccepted'
  BY DEF Return, Serve, Silent, NoAnswer, IssuedIsAccepted
<1>. QED
  BY <1>1, <1>4, <1>5, <1>6, <1>7, <1>8, IssuedStays

-----------------------------------------------------------------------------
(* The world, and damage.                                                  *)

\* A change of the world ends what was offered in it.
LEMMA ChangeKeeps ==
  ASSUME SealedInv, Restart \/ EngineDrifts \/ SourcesChange
  PROVE  SealedInv'
<1>1. /\ fresh' = {} /\ offered' = {} /\ Silent
      /\ UNCHANGED <<claim, run, file, truth, setBack, damages>>
  BY DEF Restart, EngineDrifts, SourcesChange, Changed, disk
<1>2. \/ issued' = <<>> /\ submit' = Idle
      \/ UNCHANGED <<issued, submit, release>>
  BY DEF Restart, EngineDrifts, SourcesChange, server
<1>3. IssuedOK'
  <2>1. \A key \in DOMAIN issued' : key \in DOMAIN issued /\ issued'[key] = issued[key]
    BY <1>2
  <2>. QED
    BY <1>1, <2>1 DEF IssuedOK
<1>4. ClaimOK'
  BY <1>1 DEF ClaimOK
<1>5. SubmitOK' /\ WritingOK' /\ WholeOK' /\ TruthOK'
  <2>1. CASE submit' = Idle
    <3>1. SubmitOK'
      BY <1>1, <2>1 DEF SubmitOK, Running, Idle, Written
    <3>. QED
      BY <1>1, <2>1, <3>1, NotWriting, RunStays DEF Idle, Written
  <2>2. CASE UNCHANGED <<submit, release>>
    <3>1. SubmitOK'
      BY <1>1, <2>2 DEF SubmitOK, Written, PinnedOK, Selected, KitOf
    <3>. QED
      BY <1>1, <2>2, <3>1, WritingStays, RunStays DEF Written
  <2>. QED
    BY <1>2, <2>1, <2>2
<1>. QED
  BY <1>1, <1>3, <1>4, <1>5, AcceptedWhenSilent

\* One field of a run that is as it was written.
LEMMA FieldAltered ==
  ASSUME NEW t, NEW r,
         t = [manifest |-> t.manifest, status |-> t.status, started |-> t.started,
              completed |-> t.completed, resolved |-> t.resolved, metrics |-> t.metrics,
              warnings |-> t.warnings, artifacts |-> t.artifacts],
         t.artifacts = [i \in DOMAIN t.artifacts |->
                          Artifact(t.artifacts[i].kind, t.artifacts[i].sha256)],
         \/ \E v : r = [t EXCEPT !.status = v]
         \/ \E v : r = [t EXCEPT !.manifest = v]
         \/ \E v : r = [t EXCEPT !.resolved = v]
         \/ \E v : r = [t EXCEPT !.metrics = v]
         \/ \E v : r = [t EXCEPT !.warnings = v]
         \/ \E i \in DOMAIN t.artifacts : r = [t EXCEPT !.artifacts[i].sha256 = Damaged]
  PROVE  Altered(r, t)
<1>1. CASE \E v : r = [t EXCEPT !.status = v]
  BY <1>1 DEF Altered
<1>2. CASE \E v : r = [t EXCEPT !.manifest = v]
  BY <1>2 DEF Altered
<1>3. CASE \E v : r = [t EXCEPT !.resolved = v]
  BY <1>3 DEF Altered
<1>4. CASE \E v : r = [t EXCEPT !.metrics = v]
  BY <1>4 DEF Altered
<1>5. CASE \E v : r = [t EXCEPT !.warnings = v]
  BY <1>5 DEF Altered
<1>6. CASE \E i \in DOMAIN t.artifacts : r = [t EXCEPT !.artifacts[i].sha256 = Damaged]
  <2>1. PICK i \in DOMAIN t.artifacts : r = [t EXCEPT !.artifacts[i].sha256 = Damaged]
    BY <1>6
  <2> DEFINE a == [t.artifacts EXCEPT ![i].sha256 = Damaged]
  <2>2. r = [t EXCEPT !.artifacts = a] /\ r.artifacts = a
    BY <2>1
  <2>3. a = [j \in DOMAIN t.artifacts |-> Artifact(t.artifacts[j].kind, a[j].sha256)]
    <3>1. \A j \in DOMAIN t.artifacts :
            t.artifacts[j] = Artifact(t.artifacts[j].kind, t.artifacts[j].sha256)
      OBVIOUS
    <3>2. \A j \in DOMAIN t.artifacts : a[j] = Artifact(t.artifacts[j].kind, a[j].sha256)
      BY <3>1 DEF Artifact
    <3>3. a = [j \in DOMAIN t.artifacts |-> a[j]]
      OBVIOUS
    <3>. HIDE DEF a
    <3>. QED
      BY <3>2, <3>3
  <2>. HIDE DEF a
  <2>4. r = [t EXCEPT !["artifacts"] = r["artifacts"]]
    BY <2>2
  <2>5. r.artifacts = [j \in DOMAIN t.artifacts |-> Artifact(t.artifacts[j].kind, r.artifacts[j].sha256)]
    BY <2>2, <2>3
  <2>. QED
    BY <2>4, <2>5, Zenon DEF Altered
<1>. QED
  BY <1>1, <1>2, <1>3, <1>4, <1>5, <1>6

\* Damage: one file, or one field of run.json.
LEMMA DamageKeeps ==
  ASSUME SealedInv, Damage
  PROVE  SealedInv'
<1>1. /\ run # Nothing /\ damages < MaxDamage /\ damages' = damages + 1 /\ Silent
      /\ UNCHANGED <<issued, submit, claim, world, fresh, offered, truth, setBack>>
  BY DEF Damage, server
<1>2. Written /\ damages \in 0 .. MaxDamage /\ submit.at \in {"idle", "return"}
  BY <1>1 DEF Written, TruthOK, SubmitOK
<1>3. damages' \in 0 .. MaxDamage /\ damages' # 0 /\ (damages' <= 1 => damages = 0)
  BY <1>1, <1>2, Limits
<1>4. ClaimOK' /\ SubmitOK'
  BY <1>1, <1>2 DEF ClaimOK, SubmitOK, Running
<1>5. file' = [k \in Kinds |-> file'[k]]
  BY DEF Damage, WritingOK
<1>6. WritingOK'
  BY <1>1, <1>2, <1>5 DEF WritingOK
<1>7. WholeOK'
  BY <1>3 DEF WholeOK
<1>8. TruthOK'
  <2> DEFINE t == truth.run
  <2>1. damages = 0 => run = t /\ Placed(t.artifacts)
    BY <1>2 DEF TruthOK
  <2>2. /\ t = [manifest |-> t.manifest, status |-> t.status, started |-> t.started,
                completed |-> t.completed, resolved |-> t.resolved, metrics |-> t.metrics,
                warnings |-> t.warnings, artifacts |-> t.artifacts]
        /\ t.artifacts = [i \in DOMAIN t.artifacts |->
                            Artifact(t.artifacts[i].kind, t.artifacts[i].sha256)]
    BY <1>2 DEF TruthOK
  <2>3. UNCHANGED run \/ (UNCHANGED file /\ (damages = 0 => Altered(run', t)))
    <3>1. CASE UNCHANGED file /\ damages = 0
      <4>. HIDE DEF t
      <4>. run = t
        BY <2>1, <3>1
      <4>1. \/ UNCHANGED run
            \/ \E v : run' = [t EXCEPT !.status = v]
            \/ \E v : run' = [t EXCEPT !.manifest = v]
            \/ \E v : run' = [t EXCEPT !.resolved = v]
            \/ \E v : run' = [t EXCEPT !.metrics = v]
            \/ \E v : run' = [t EXCEPT !.warnings = v]
            \/ \E i \in DOMAIN t.artifacts : run' = [t EXCEPT !.artifacts[i].sha256 = Damaged]
        BY DEF Damage
      <4>. QED
        BY <2>2, <3>1, <4>1, FieldAltered
    <3>. QED
      BY <3>1 DEF Damage
  <2>4. damages' <= 1 => run' = t \/ (Placed(t.artifacts)' /\ Altered(run', t))
    BY <1>3, <2>1, <2>3, <1>1 DEF Placed
  <2>. QED
    BY <1>1, <1>2, <1>3, <2>4 DEF TruthOK, Altered
<1>. QED
  BY <1>1, <1>4, <1>6, <1>7, <1>8, IssuedStays, AcceptedWhenSilent

-----------------------------------------------------------------------------
(* The invariant.                                                          *)

\* Before the first manifest is asked for.
LEMMA SealedInvInit ==
  ASSUME Init
  PROVE  SealedInv
<1>1. IssuedOK /\ IssuedIsAccepted
  BY DEF Init, IssuedOK, IssuedIsAccepted, NoAnswer
<1>2. ClaimOK /\ SubmitOK /\ ~ Written
  BY DEF Init, ClaimOK, SubmitOK, Written, Idle, Running
<1>3. WritingOK
  BY DEF Init, WritingOK, NoFiles, Idle
<1>4. WholeOK /\ TruthOK
  BY <1>2, Limits DEF Init, WholeOK, TruthOK
<1>. QED
  BY <1>1, <1>2, <1>3, <1>4

\* Every step keeps the invariant.
LEMMA SealedInvNext ==
  ASSUME SealedInv, [Next]_vars
  PROVE  SealedInv'
<1>1. CASE Prepare
  BY <1>1, ManifestGetKeeps, TemplateGetKeeps DEF Prepare
<1>2. CASE \E sel \in Selections, m \in known, p \in Supplied : Submit(Request(sel, m, p))
  BY <1>2, SubmitKeeps DEF Request
<1>3. CASE Probe
  BY <1>3, ProbeKeeps
<1>4. CASE WriteInputs
  BY <1>4, WriteInputsKeeps
<1>5. CASE Execute
  BY <1>5, ExecuteKeeps
<1>6. CASE Interpret
  BY <1>6, InterpretKeeps
<1>7. CASE WriteLedger
  BY <1>7, WriteLedgerKeeps
<1>8. CASE Return
  BY <1>8, ReturnKeeps
<1>9. CASE RequestGet
  BY <1>9, ReconcileKeeps, RecoverKeeps DEF RequestGet, server
<1>10. ASSUME UNCHANGED <<server, disk, world, past>>, IssuedIsAccepted'
       PROVE  SealedInv'
  <2>1. UNCHANGED <<issued, submit, claim, run, file, release, fresh, offered, truth, setBack, damages>>
    BY <1>10 DEF server, disk, world, past
  <2>2. ClaimOK' /\ SubmitOK'
    BY <2>1 DEF ClaimOK, SubmitOK, Written, PinnedOK, Selected, KitOf
  <2>. QED
    BY <1>10, <2>1, <2>2, IssuedStays, WritingStays, RunStays DEF Written
<1>11. CASE \E max \in Bounds : SeriesGet(max)
  <2>1. IssuedIsAccepted'
    BY <1>11 DEF SeriesGet, Serve, IssuedIsAccepted
  <2>. QED
    BY <1>10, <1>11, <2>1 DEF SeriesGet
<1>12. CASE Restart \/ EngineDrifts \/ SourcesChange
  BY <1>12, ChangeKeeps
<1>13. CASE Damage
  BY <1>13, DamageKeeps
<1>14. CASE UNCHANGED vars
  <2>1. UNCHANGED <<server, disk, world, past>> /\ IssuedIsAccepted'
    BY <1>14 DEF vars, IssuedIsAccepted
  <2>. QED
    BY <1>10, <2>1
<1>. QED
  BY <1>1, <1>2, <1>3, <1>4, <1>5, <1>6, <1>7, <1>8, <1>9, <1>11, <1>12, <1>13, <1>14 DEF Next

\* The request, what submit has in its hands and what it wrote agree at every
\* step, whatever the solver did and whatever one overwriting made of it.
THEOREM SealedInvariant == Spec => []SealedInv
<1>1. Init => SealedInv
  BY SealedInvInit
<1>2. SealedInv /\ [Next]_vars => SealedInv'
  BY SealedInvNext
<1>. QED
  BY <1>1, <1>2, PTL DEF Spec

-----------------------------------------------------------------------------
(* What is offered, written and served.                                    *)

\* A template that the server handed out is executed when it is submitted
\* (getRequestTemplate against buildManifest in submit).
THEOREM OfferedIsExecuted == Spec => []IssuedIsAccepted
<1>1. SealedInv => IssuedIsAccepted
  OBVIOUS
<1>. QED
  BY <1>1, SealedInvariant, PTL

\* What submit writes passes the validation of every later reader, in every
\* later release that has its normalizer, unless an interpreted CSV could not be
\* written (submit against validateCompletedRun).
THEOREM WrittenRunsValidate == Spec => []WrittenValidates
<1>1. SealedInv => WrittenValidates
  <2>. SUFFICES ASSUME SealedInv, run # Nothing, damages = 0, ~ setBack, ~ truth.unsaved,
                       Resolvable(release, run.manifest.normalizer)
                PROVE  Validates(run)
    BY DEF WrittenValidates
  <2>1. Whole(run) /\ run.started <= run.completed
    BY DEF WholeOK, Written
  <2>. QED
    BY <2>1 DEF Whole, Validates, Verdicts
<1>. QED
  BY <1>1, SealedInvariant, PTL

\* The property is about one overwritten file or field.
OneDamage == MaxDamage <= 1

\* A run that validates is the one that was written, with its files.
LEMMA ServedIsTruth ==
  ASSUME SealedInv, OneDamage, Written, Validates(run)
  PROVE  /\ run = truth.run
         /\ \A k \in Kinds : truth.files[k] # Nothing => file[k] = truth.files[k]
<1> DEFINE t == truth.run
<1>1. damages <= 1
  BY Limits DEF OneDamage, TruthOK
<1>2. /\ t.resolved = claim.request.parameters
      /\ t.artifacts = [i \in DOMAIN t.artifacts |->
                          Artifact(t.artifacts[i].kind, t.artifacts[i].sha256)]
      /\ run = t \/ (Placed(t.artifacts) /\ Altered(run, t))
  BY <1>1 DEF TruthOK
<1>3. PICK e \in DOMAIN t.artifacts :
        t.artifacts[e].kind = "evidence" /\ t.artifacts[e].sha256.body = EvidenceBody(t)
  BY DEF TruthOK
<1>4. /\ \A i \in DOMAIN run.artifacts : file[run.artifacts[i].kind] = run.artifacts[i].sha256
      /\ run.resolved = claim.request.parameters
      /\ file["evidence"].body = EvidenceBody(run)
  BY DEF Validates, ValidArtifacts, LoweringAgrees, EvidenceAttests
<1>5. run = t
  <2>. SUFFICES ASSUME Placed(t.artifacts), Altered(run, t) PROVE run = t
    BY <1>2
  <2>1. EvidenceBody(run) = EvidenceBody(t)
    BY <1>3, <1>4 DEF Placed
  <2>2. /\ run.status = t.status /\ run.manifest = t.manifest
        /\ run.metrics = t.metrics /\ run.warnings = t.warnings
    BY <2>1 DEF EvidenceBody
  <2>3. PICK field \in {"status", "manifest", "resolved", "metrics", "warnings", "artifacts"} :
          /\ run = [t EXCEPT ![field] = run[field]]
          /\ field = "artifacts" =>
               run.artifacts = [i \in DOMAIN t.artifacts |->
                                  Artifact(t.artifacts[i].kind, run.artifacts[i].sha256)]
    BY DEF Altered
  <2>4. run[field] = t[field]
    <3>1. CASE field = "artifacts"
      <4>1. \A i \in DOMAIN t.artifacts : run.artifacts[i].kind = t.artifacts[i].kind
        BY <2>3, <3>1 DEF Artifact
      <4>2. \A i \in DOMAIN t.artifacts : run.artifacts[i].sha256 = t.artifacts[i].sha256
        BY <1>4, <2>3, <3>1, <4>1 DEF Placed
      <4>3. [i \in DOMAIN t.artifacts |-> Artifact(t.artifacts[i].kind, run.artifacts[i].sha256)] =
            [i \in DOMAIN t.artifacts |-> Artifact(t.artifacts[i].kind, t.artifacts[i].sha256)]
        BY <4>2
      <4>. QED
        BY <1>2, <2>3, <3>1, <4>3
    <3>2. CASE field = "resolved"
      BY <1>2, <1>4, <3>2
    <3>. QED
      BY <2>2, <2>3, <3>1, <3>2
  <2>5. t = [manifest |-> t.manifest, status |-> t.status, started |-> t.started,
             completed |-> t.completed, resolved |-> t.resolved, metrics |-> t.metrics,
             warnings |-> t.warnings, artifacts |-> t.artifacts]
    BY DEF TruthOK
  <2>. HIDE DEF t
  <2>. QED
    BY <2>3, <2>4, <2>5
<1>6. \A k \in Kinds : truth.files[k] # Nothing =>
        \E i \in DOMAIN t.artifacts : t.artifacts[i] = Artifact(k, truth.files[k])
  BY DEF TruthOK
<1>7. ASSUME NEW k \in Kinds, truth.files[k] # Nothing PROVE file[k] = truth.files[k]
  <2>1. PICK i \in DOMAIN t.artifacts : t.artifacts[i] = Artifact(k, truth.files[k])
    BY <1>6, <1>7
  <2>2. t.artifacts[i].kind = k /\ t.artifacts[i].sha256 = truth.files[k]
    BY <2>1 DEF Artifact
  <2>3. file[t.artifacts[i].kind] = t.artifacts[i].sha256
    BY <1>4, <1>5
  <2>. QED
    BY <2>2, <2>3
<1>. QED
  BY <1>5, <1>7

\* After one overwritten file or field, what is served is what was executed
\* (validateCompletedRun, validateRunArtifacts, assertEvidenceDocument).
THEOREM DamageIsNotServed ==
  ASSUME OneDamage
  PROVE  Spec => []OnlyTheSealedIsServed
<1>1. Init => OnlyTheSealedIsServed
  BY DEF Init, NoAnswer, OnlyTheSealedIsServed
<1>2. SealedInv /\ OnlyTheSealedIsServed /\ [Next]_vars => OnlyTheSealedIsServed'
  <2>. SUFFICES ASSUME SealedInv, OnlyTheSealedIsServed, [Next]_vars PROVE OnlyTheSealedIsServed'
    OBVIOUS
  <2>1. ASSUME Silent PROVE OnlyTheSealedIsServed'
    BY <2>1 DEF Silent, NoAnswer, OnlyTheSealedIsServed
  <2>2. ASSUME NEW series, Serve(series), Written, Validates(run), UNCHANGED truth
        PROVE  OnlyTheSealedIsServed'
    <3>1. /\ run = truth.run
          /\ \A k \in Kinds : truth.files[k] # Nothing => file[k] = truth.files[k]
      BY <2>2, ServedIsTruth
    <3>. QED
      BY <2>2, <3>1 DEF Serve, OnlyTheSealedIsServed
  <2>3. ASSUME Refuse \/ Reject PROVE OnlyTheSealedIsServed'
    BY <2>3 DEF Refuse, Reject, OnlyTheSealedIsServed
  <2>4. ASSUME Reconcile, UNCHANGED past PROVE OnlyTheSealedIsServed'
    BY <2>2, <2>4 DEF Reconcile, Written, past
  <2>5. CASE Prepare
    BY <2>1, <2>5 DEF Prepare, ManifestGet, TemplateGet
  <2>6. CASE \E sel \in Selections, m \in known, p \in Supplied : Submit(Request(sel, m, p))
    BY <2>1, <2>4, <2>6 DEF Submit, Recover
  <2>7. CASE Probe
    BY <2>1, <2>3, <2>7 DEF Probe
  <2>8. CASE WriteInputs \/ Execute \/ Interpret \/ WriteLedger
    BY <2>1, <2>3, <2>8 DEF WriteInputs, Execute, Interpret, WriteLedger
  <2>9. CASE Return
    BY <2>1, <2>2, <2>9 DEF Return, Written, past
  <2>10. CASE RequestGet
    BY <2>1, <2>4, <2>10 DEF RequestGet, Recover
  <2>11. CASE \E max \in Bounds : SeriesGet(max)
    BY <2>2, <2>11 DEF SeriesGet, Written, past
  <2>12. CASE Restart \/ EngineDrifts \/ SourcesChange \/ Damage
    BY <2>1, <2>12 DEF Restart, EngineDrifts, SourcesChange, Damage
  <2>13. CASE UNCHANGED vars
    BY <2>13 DEF vars, past, OnlyTheSealedIsServed
  <2>. QED
    BY <2>5, <2>6, <2>7, <2>8, <2>9, <2>10, <2>11, <2>12, <2>13 DEF Next
<1>. QED
  BY <1>1, <1>2, SealedInvariant, PTL DEF Spec

-----------------------------------------------------------------------------
(* Numbers in order, and the rows that a series takes.                     *)

LEMMA LeastNat ==
  ASSUME NEW T \in SUBSET Nat, T # {}
  PROVE \E m \in T : \A k \in T : m <= k
<1>1. IsWellFoundedOn(OpToRel(<, Nat), Nat)
  BY NatLessThanWellFounded
<1> DEFINE R == OpToRel(<, Nat)
<1>2. \A x, y \in Nat : x < y => <<x, y>> \in R
  BY DEF OpToRel
<1> HIDE DEF R
<1>3. IsWellFoundedOn(R, Nat)
  BY <1>1 DEF R
<1>4. PICK m \in T : \A y \in T : ~ (<<y, m>> \in R)
  BY <1>3, WFMin
<1>5. ASSUME NEW y \in T, y < m PROVE FALSE
  <2>1. y \in Nat /\ m \in Nat
    OBVIOUS
  <2> QED BY <1>2, <1>4, <1>5, <2>1
<1>6. \A y \in T : y \in Nat /\ m \in Nat
  OBVIOUS
<1>7. \A y \in T : m <= y
  BY <1>5, <1>6
<1> QED BY <1>7

\* What a product and a quotient say of each other.
LEMMA Below ==
  ASSUME NEW d \in Nat, d > 0, NEW x \in Int, NEW y \in Int, d * x < d * y
  PROVE  x < y
<1>1. ASSUME y <= x PROVE FALSE
  <2>1. PICK z \in Nat : x = y + z
    <3>1. x - y \in Nat /\ x = y + (x - y)
      BY <1>1
    <3> QED BY <3>1
  <2>2. d * x = d * y + d * z /\ d * z >= 0 /\ d * y \in Int /\ d * z \in Int
    BY <2>1
  <2> QED BY <2>2
<1> QED BY <1>1

\* Math.round: the nearest integer, twice its distance at most the divisor.
LEMMA Rounded ==
  ASSUME NEW n \in Nat, NEW d \in Nat, d > 0
  PROVE  LET r == Round(n, d)
         IN  /\ r \in Nat
             /\ 2 * (d * r) <= 2 * n + d /\ 2 * n + d < 2 * (d * r) + 2 * d
<1> DEFINE m == 2 * n + d
           e == 2 * d
           r == m \div e
<1>1. m \in Nat /\ e \in Nat /\ e > 0
  OBVIOUS
<1>2. r \in Nat /\ e * r <= m /\ m < e * r + e
  <2> HIDE DEF m, e
  <2> QED BY <1>1
<1>3. e * r = 2 * (d * r)
  <2> HIDE DEF r
  <2> QED BY <1>2
<1> HIDE DEF r
<1> QED BY <1>2, <1>3 DEF Round, r

\* Evenly spaced rows: the first and the last are among them, no row twice, and
\* no two gaps differ by more than one.
LEMMA EvenlySpaced ==
  ASSUME NEW n \in Nat, NEW d \in Nat, d > 0, d <= n
  PROVE  LET a(i) == Round(i * n, d)
         IN  /\ \A i \in 0 .. d : a(i) \in Nat
             /\ a(0) = 0 /\ a(d) = n
             /\ \A i, j \in 0 .. d : i < j => a(i) < a(j)
             /\ \A i, j \in 0 .. d - 1 : (a(i + 1) - a(i)) - (a(j + 1) - a(j)) \in {-1, 0, 1}
<1> DEFINE a(i) == Round(i * n, d)
<1>1. \A i \in Nat : /\ a(i) \in Nat /\ i * n \in Nat /\ d * a(i) \in Nat
                     /\ 2 * (d * a(i)) <= 2 * (i * n) + d
                     /\ 2 * (i * n) + d < 2 * (d * a(i)) + 2 * d
  <2> TAKE i \in Nat
  <2>1. i * n \in Nat
    OBVIOUS
  <2>2. /\ a(i) \in Nat
        /\ 2 * (d * a(i)) <= 2 * (i * n) + d /\ 2 * (i * n) + d < 2 * (d * a(i)) + 2 * d
    BY <2>1, Rounded
  <2> HIDE DEF a
  <2>3. d * a(i) \in Nat
    BY <2>2
  <2> QED BY <2>1, <2>2, <2>3
<1> HIDE DEF a
<1>2. a(0) = 0
  <2>1. 0 \in Nat /\ 0 * n = 0
    OBVIOUS
  <2>2. a(0) \in Nat /\ d * a(0) \in Nat /\ 2 * (d * a(0)) <= d
    BY <1>1, <2>1
  <2>3. d * a(0) < d * 1
    BY <2>2
  <2>4. a(0) < 1
    BY <2>2, <2>3, Below
  <2> QED BY <2>2, <2>4
<1>3. a(d) = n
  <2>1. /\ a(d) \in Nat /\ d * n \in Nat /\ d * a(d) \in Nat
        /\ 2 * (d * a(d)) <= 2 * (d * n) + d
        /\ 2 * (d * n) + d < 2 * (d * a(d)) + 2 * d
    BY <1>1
  <2>2. d * (n + 1) = d * n + d /\ d * (a(d) + 1) = d * a(d) + d
    BY <2>1
  <2>3. d * a(d) < d * (n + 1) /\ d * n < d * (a(d) + 1)
    BY <2>1, <2>2
  <2>4. a(d) < n + 1 /\ n < a(d) + 1
    BY <2>1, <2>3, Below
  <2> QED BY <2>1, <2>4
<1>4. ASSUME NEW i \in 0 .. d, NEW j \in 0 .. d, i < j
      PROVE  a(i) < a(j)
  <2>1. PICK k \in Nat : j = i + 1 + k
    <3>1. j - i - 1 \in Nat /\ j = i + 1 + (j - i - 1)
      BY <1>4
    <3> QED BY <3>1
  <2>2. i \in Nat /\ j \in Nat
    OBVIOUS
  <2>3. j * n = i * n + n + k * n /\ k * n \in Nat
    BY <2>1, <2>2
  <2>4. /\ a(i) \in Nat /\ a(j) \in Nat /\ d * a(i) \in Nat /\ d * a(j) \in Nat
        /\ i * n \in Nat
        /\ 2 * (d * a(i)) <= 2 * (i * n) + d
        /\ 2 * (j * n) + d < 2 * (d * a(j)) + 2 * d
    BY <1>1, <2>2
  <2>5. d * a(i) < d * a(j)
    BY <2>3, <2>4
  <2> QED BY <2>4, <2>5, Below
<1>5. \A i \in 0 .. d - 1 :
        LET p == d * a(i)
            q == d * a(i + 1)
        IN  /\ a(i) \in Nat /\ a(i + 1) \in Nat /\ p \in Nat /\ q \in Nat
            /\ q - p > n - d /\ q - p < n + d
  <2> TAKE i \in 0 .. d - 1
  <2>1. i \in Nat /\ i + 1 \in Nat /\ (i + 1) * n = i * n + n
    OBVIOUS
  <2>2. /\ a(i) \in Nat /\ a(i + 1) \in Nat /\ d * a(i) \in Nat /\ d * a(i + 1) \in Nat
        /\ i * n \in Nat
        /\ 2 * (d * a(i)) <= 2 * (i * n) + d
        /\ 2 * (i * n) + d < 2 * (d * a(i)) + 2 * d
        /\ 2 * (d * a(i + 1)) <= 2 * (i * n + n) + d
        /\ 2 * (i * n + n) + d < 2 * (d * a(i + 1)) + 2 * d
    BY <1>1, <2>1
  <2> QED BY <2>2
<1>6. ASSUME NEW i \in 0 .. d - 1, NEW j \in 0 .. d - 1
      PROVE  (a(i + 1) - a(i)) - (a(j + 1) - a(j)) \in {-1, 0, 1}
  <2> DEFINE g == a(i + 1) - a(i)
             h == a(j + 1) - a(j)
  <2>1. g \in Int /\ h \in Int
    BY <1>5
  <2>2. d * g = d * a(i + 1) - d * a(i) /\ d * h = d * a(j + 1) - d * a(j)
    BY <1>5
  <2>3. d * g > n - d /\ d * g < n + d /\ d * h > n - d /\ d * h < n + d
    BY <1>5, <2>2
  <2> HIDE DEF g, h
  <2>4. /\ d * g \in Int /\ d * h \in Int
        /\ d * (g + 2) = d * g + 2 * d /\ d * (h + 2) = d * h + 2 * d
    BY <2>1
  <2>5. d * g < d * (h + 2) /\ d * h < d * (g + 2)
    BY <2>3, <2>4
  <2>6. g < h + 2 /\ h < g + 2
    BY <2>1, <2>5, Below
  <2>7. g - h \in {-1, 0, 1}
    BY <2>1, <2>6
  <2> QED BY <2>7 DEF g, h
<1>7. \A i \in 0 .. d : a(i) \in Nat
  BY <1>1
<1> QED BY <1>2, <1>3, <1>4, <1>6, <1>7 DEF a

\* Numbers in ascending order, as a set and back.
LEMMA AscendingOf ==
  ASSUME NEW n \in Nat, NEW f \in [1 .. n -> Nat],
         \A i, j \in 1 .. n : i < j => f[i] < f[j],
         NEW S, S = {f[i] : i \in 1 .. n}
  PROVE  /\ Cardinality(S) = n /\ DOMAIN Ascending(S) = 1 .. n
         /\ \A j \in 1 .. n : Ascending(S)[j] = f[j]
<1> DEFINE First(j) == {f[i] : i \in 1 .. j}
<1>1. \A i, j \in 1 .. n : f[i] \in Nat /\ (f[i] <= f[j] <=> i <= j)
  <2> TAKE i, j \in 1 .. n
  <2>1. f[i] \in Nat /\ f[j] \in Nat /\ i \in Nat /\ j \in Nat
    OBVIOUS
  <2>2. CASE i < j
    BY <2>1, <2>2
  <2>3. CASE j < i
    BY <2>1, <2>3
  <2>4. CASE i = j
    BY <2>1, <2>4
  <2> QED BY <2>1, <2>2, <2>3, <2>4
<1>2. ASSUME NEW j \in 0 .. n PROVE Cardinality(First(j)) = j
  <2> DEFINE g == [i \in 1 .. j |-> f[i]]
  <2>1. j \in Nat /\ \A i \in 1 .. j : i \in 1 .. n
    OBVIOUS
  <2>2. g \in Surjection(1 .. j, First(j))
    BY DEF Surjection
  <2>3. \A i, k \in 1 .. j : g[i] = g[k] => i = k
    <3> TAKE i, k \in 1 .. j
    <3>1. i \in 1 .. n /\ k \in 1 .. n /\ i \in Nat /\ k \in Nat
      BY <2>1
    <3>2. f[i] = f[k] => f[i] <= f[k] /\ f[k] <= f[i]
      BY <1>1, <3>1
    <3>3. f[i] = f[k] => i = k
      BY <1>1, <3>1, <3>2
    <3> QED BY <3>3
  <2>4. g \in Injection(1 .. j, First(j))
    BY <2>3 DEF Injection, IsInjective
  <2>5. ExistsBijection(1 .. j, First(j))
    BY <2>2, <2>4 DEF ExistsBijection, Bijection
  <2> QED BY <2>1, <2>5, FS_CountingElements
<1>3. Cardinality(S) = n
  BY <1>2
<1>4. \A j \in 1 .. n : {k \in S : k <= f[j]} = First(j)
  <2> TAKE j \in 1 .. n
  <2>1. \A i \in 1 .. j : i \in 1 .. n /\ i <= j
    OBVIOUS
  <2>2. \A i \in 1 .. n : i <= j => i \in 1 .. j
    OBVIOUS
  <2>3. First(j) \subseteq {k \in S : k <= f[j]}
    BY <1>1, <2>1
  <2>4. {k \in S : k <= f[j]} \subseteq First(j)
    BY <1>1, <2>2
  <2> QED BY <2>3, <2>4
<1>5. \A i \in 1 .. n : Cardinality({k \in S : k <= f[i]}) = i
  <2> TAKE i \in 1 .. n
  <2>1. i \in 0 .. n /\ Cardinality(First(i)) = i
    BY <1>2
  <2>2. {k \in S : k <= f[i]} = First(i)
    BY <1>4
  <2> HIDE DEF First
  <2> QED BY <2>1, <2>2
<1>6. ASSUME NEW j \in 1 .. n PROVE Nth(S, j) = f[j]
  <2>1. f[j] \in S /\ Cardinality({k \in S : k <= f[j]}) = j
    BY <1>5
  <2>2. \A x \in S : Cardinality({k \in S : k <= x}) = j => x = f[j]
    BY <1>5
  <2> QED BY <2>1, <2>2 DEF Nth
<1> QED BY <1>3, <1>6 DEF Ascending

\* The largest of finitely many numbers.
LEMMA Largest ==
  ASSUME NEW n \in Nat, n > 0, NEW f \in [1 .. n -> Int]
  PROVE  \E m \in 1 .. n : \A i \in 1 .. n : f[i] <= f[m]
<1> DEFINE T == {k \in 1 .. n : ~ \E m \in 1 .. k : \A i \in 1 .. k : f[i] <= f[m]}
<1>1. ASSUME T # {} PROVE FALSE
  <2>1. PICK k \in T : \A l \in T : k <= l
    <3>1. T \in SUBSET Nat
      OBVIOUS
    <3> QED BY <1>1, <3>1, LeastNat
  <2>2. k \in 1 .. n /\ ~ \E m \in 1 .. k : \A i \in 1 .. k : f[i] <= f[m]
    OBVIOUS
  <2>3. \A i \in 1 .. k : i \in 1 .. n /\ f[i] \in Int
    BY <2>2
  <2>4. k # 1
    <3>1. ASSUME k = 1 PROVE \A i \in 1 .. k : f[i] <= f[1]
      <4>1. \A i \in 1 .. k : i = 1
        BY <3>1
      <4>2. f[1] \in Int /\ f[1] <= f[1]
        BY <2>3, <3>1
      <4> QED BY <4>1, <4>2
    <3> QED BY <2>2, <3>1
  <2>5. k - 1 \in 1 .. n /\ k - 1 \notin T
    <3>1. k - 1 \in 1 .. n /\ ~ (k <= k - 1)
      BY <2>2, <2>4
    <3> HIDE DEF T
    <3> QED BY <2>1, <3>1
  <2>6. PICK m \in 1 .. k - 1 : \A i \in 1 .. k - 1 : f[i] <= f[m]
    BY <2>5
  <2>7. /\ m \in 1 .. k /\ k \in 1 .. k /\ f[m] \in Int /\ f[k] \in Int
        /\ \A i \in 1 .. k : i \in 1 .. k - 1 \/ i = k
    BY <2>2, <2>3
  <2>8. CASE f[k] <= f[m]
    BY <2>2, <2>6, <2>7, <2>8
  <2>9. CASE f[m] <= f[k]
    <3>1. \A i \in 1 .. k : f[i] \in Int /\ f[i] <= f[k]
      <4> TAKE i \in 1 .. k
      <4>1. f[i] \in Int /\ f[m] \in Int /\ f[k] \in Int
        BY <2>3, <2>7
      <4>2. i = k \/ f[i] <= f[m]
        BY <2>6, <2>7
      <4> QED BY <2>9, <4>1, <4>2
    <3> QED BY <2>2, <2>7, <3>1
  <2> QED BY <2>7, <2>8, <2>9
<1>2. n \in 1 .. n
  OBVIOUS
<1>3. n \notin T
  BY <1>1
<1> QED BY <1>2, <1>3

\* The extremes of a column are two of its cells, and bound all of them.
LEMMA ColumnBounds ==
  ASSUME NEW n \in Nat, n > 0, NEW f \in [1 .. n -> Int]
  PROVE  LET S == ToSet(f)
         IN  /\ Max(S) \in S /\ Min(S) \in S
             /\ \A i \in 1 .. n : f[i] \in Min(S) .. Max(S)
<1> DEFINE S == ToSet(f)
<1>1. S = {f[i] : i \in 1 .. n}
  BY DEF ToSet
<1>2. \A x \in S : x \in Int
  BY <1>1
<1>3. PICK m \in 1 .. n : \A i \in 1 .. n : f[i] <= f[m]
  BY Largest
<1>4. PICK l \in 1 .. n : \A i \in 1 .. n : f[l] <= f[i]
  <2> DEFINE g == [i \in 1 .. n |-> - f[i]]
  <2>1. g \in [1 .. n -> Int]
    OBVIOUS
  <2>2. PICK k \in 1 .. n : \A i \in 1 .. n : g[i] <= g[k]
    <3> HIDE DEF g
    <3> QED BY <2>1, Largest
  <2>3. \A i \in 1 .. n : f[k] <= f[i]
    <3> TAKE i \in 1 .. n
    <3>1. f[i] \in Int /\ f[k] \in Int /\ - f[i] <= - f[k]
      BY <2>2
    <3> QED BY <3>1
  <2> QED BY <2>3
<1>5. f[m] \in S /\ \A x \in S : f[m] >= x
  <2>1. \A i \in 1 .. n : f[i] \in Int /\ f[m] \in Int
    OBVIOUS
  <2> QED BY <1>1, <1>3, <2>1
<1>6. f[l] \in S /\ \A x \in S : f[l] <= x
  BY <1>1, <1>4
<1> HIDE DEF S
<1>7. Max(S) \in S /\ \A x \in S : Max(S) >= x
  BY <1>5 DEF Max
<1>8. Min(S) \in S /\ \A x \in S : Min(S) <= x
  BY <1>6 DEF Min
<1>9. \A i \in 1 .. n : f[i] \in Min(S) .. Max(S)
  <2> TAKE i \in 1 .. n
  <2>1. f[i] \in S /\ f[i] \in Int /\ Max(S) \in Int /\ Min(S) \in Int
    BY <1>1, <1>2, <1>7, <1>8
  <2>2. Max(S) >= f[i] /\ Min(S) <= f[i]
    BY <1>7, <1>8, <2>1
  <2> QED BY <2>1, <2>2
<1> QED BY <1>7, <1>8, <1>9 DEF S

\* Only one number is the largest of a set, and one the smallest.
LEMMA OnlyExtreme ==
  ASSUME NEW S \in SUBSET Int, NEW m \in S
  PROVE  /\ (\A x \in S : x <= m) => Max(S) = m
         /\ (\A x \in S : m <= x) => Min(S) = m
<1>0. \A x \in S : x \in Int
  OBVIOUS
<1>1. ASSUME \A x \in S : x <= m PROVE Max(S) = m
  <2>1. \A x \in S : m >= x
    BY <1>0, <1>1
  <2>2. Max(S) \in S /\ Max(S) >= m
    BY <2>1 DEF Max
  <2>3. Max(S) \in Int /\ m \in Int /\ Max(S) <= m
    BY <1>0, <1>1, <2>2
  <2> QED BY <2>2, <2>3
<1>2. ASSUME \A x \in S : m <= x PROVE Min(S) = m
  <2>1. Min(S) \in S /\ Min(S) <= m
    BY <1>2 DEF Min
  <2>2. Min(S) \in Int /\ m \in Int /\ m <= Min(S)
    BY <1>0, <1>2, <2>1
  <2> QED BY <2>1, <2>2
<1> QED BY <1>1, <1>2

\* The selected rows, in the order of the table: no more than asked for, the last
\* one always, the first one with it when there are two, and evenly spaced.
LEMMA SampleOrder ==
  ASSUME NEW rows \in Nat, rows > 0, NEW max \in Nat, max > 0
  PROVE  LET c == Min({rows, max})
             s == Ascending(SampleRowIndexes(rows, max))
         IN  /\ c \in Nat /\ c > 0 /\ DOMAIN s = 1 .. c
             /\ \A j \in 1 .. c : s[j] \in 0 .. rows - 1
             /\ s[c] = rows - 1
             /\ c > 1 => s[1] = 0
             /\ \A i, j \in 1 .. c - 1 :
                  /\ s[i + 1] - s[i] > 0
                  /\ (s[i + 1] - s[i]) - (s[j + 1] - s[j]) \in {-1, 0, 1}
<1> DEFINE c == Min({rows, max})
           n == rows - 1
           d == c - 1
           s == Ascending(SampleRowIndexes(rows, max))
<1>1. c \in Nat /\ c > 0 /\ c <= rows
  <2>1. CASE rows <= max
    <3>1. {rows, max} \in SUBSET Int /\ rows \in {rows, max} /\ \A x \in {rows, max} : rows <= x
      BY <2>1
    <3>2. c = rows
      BY <3>1, OnlyExtreme
    <3> QED BY <3>2
  <2>2. CASE max <= rows
    <3>1. {rows, max} \in SUBSET Int /\ max \in {rows, max} /\ \A x \in {rows, max} : max <= x
      BY <2>2
    <3>2. c = max
      BY <3>1, OnlyExtreme
    <3> QED BY <2>2, <3>2
  <2> QED BY <2>1, <2>2
<1> HIDE DEF c
<1>2. n \in Nat /\ d \in Nat /\ d <= n
  BY <1>1
<1>3. CASE c = 1
  <2> DEFINE f == [i \in 1 .. 1 |-> n]
  <2>1. f \in [1 .. 1 -> Nat] /\ \A i, j \in 1 .. 1 : i < j => f[i] < f[j]
    BY <1>2
  <2>2. {f[i] : i \in 1 .. 1} = SampleRowIndexes(rows, max)
    <3>1. 1 .. 1 = {1}
      OBVIOUS
    <3>2. {f[i] : i \in 1 .. 1} = {n}
      BY <3>1
    <3>3. SampleRowIndexes(rows, max) = {n}
      BY <1>3 DEF SampleRowIndexes, c
    <3> QED BY <3>2, <3>3
  <2>3. f[1] = n
    OBVIOUS
  <2> HIDE DEF f
  <2>4. DOMAIN s = 1 .. 1 /\ \A j \in 1 .. 1 : s[j] = f[j]
    <3>1. 1 \in Nat /\ SampleRowIndexes(rows, max) = {f[i] : i \in 1 .. 1}
      BY <2>2
    <3> QED BY <2>1, <3>1, AscendingOf
  <2>5. \A j \in 1 .. 1 : s[j] \in 0 .. rows - 1
    BY <1>2, <2>3, <2>4
  <2>6. s[1] = n /\ 1 .. c - 1 = {}
    BY <1>3, <2>3, <2>4
  <2> HIDE DEF s
  <2> QED BY <1>1, <1>3, <2>4, <2>5, <2>6 DEF c, s
<1>4. CASE c # 1
  <2> DEFINE a(i) == Round(i * n, d)
             f == [i \in 1 .. c |-> a(i - 1)]
  <2>1. d > 0
    BY <1>1, <1>4
  <2>2. /\ \A i \in 0 .. d : a(i) \in Nat
        /\ a(0) = 0 /\ a(d) = n
        /\ \A i, j \in 0 .. d : i < j => a(i) < a(j)
        /\ \A i, j \in 0 .. d - 1 : (a(i + 1) - a(i)) - (a(j + 1) - a(j)) \in {-1, 0, 1}
    BY <1>2, <2>1, EvenlySpaced
  <2>3. SampleRowIndexes(rows, max) = {a(i) : i \in 0 .. d}
    BY <1>4 DEF SampleRowIndexes, c
  <2> HIDE DEF a
  <2>4. \A i \in 1 .. c : i - 1 \in 0 .. d /\ i \in Nat /\ f[i] = a(i - 1)
    BY <1>1
  <2>5. \A i \in 0 .. d : i + 1 \in 1 .. c /\ a(i) = f[i + 1]
    <3> TAKE i \in 0 .. d
    <3>1. i + 1 \in 1 .. c /\ (i + 1) - 1 = i
      BY <1>1
    <3> QED BY <3>1
  <2>6. {f[i] : i \in 1 .. c} = SampleRowIndexes(rows, max)
    <3> HIDE DEF f
    <3> QED BY <2>3, <2>4, <2>5
  <2>7. f \in [1 .. c -> Nat]
    BY <2>2, <2>4
  <2> HIDE DEF f
  <2>8. \A i, j \in 1 .. c : i < j => f[i] < f[j]
    <3> SUFFICES ASSUME NEW i \in 1 .. c, NEW j \in 1 .. c, i < j PROVE f[i] < f[j]
      OBVIOUS
    <3>1. i - 1 < j - 1
      BY <2>4
    <3> QED BY <2>2, <2>4, <3>1
  <2>9. DOMAIN s = 1 .. c /\ \A j \in 1 .. c : s[j] = f[j]
    BY <1>1, <2>6, <2>7, <2>8, AscendingOf
  <2>10. \A j \in 1 .. c : s[j] = a(j - 1) /\ s[j] \in 0 .. n
    <3> TAKE j \in 1 .. c
    <3>1. j - 1 \in 0 .. d /\ s[j] = a(j - 1) /\ a(j - 1) \in Nat
      BY <2>2, <2>4, <2>9
    <3>2. CASE j - 1 < d
      <4>1. d \in 0 .. d
        BY <1>2
      <4>2. a(j - 1) < n
        BY <2>2, <3>1, <3>2, <4>1
      <4> QED BY <1>2, <3>1, <4>2
    <3>3. CASE j - 1 = d
      BY <1>2, <2>2, <3>1, <3>3
    <3>4. d - 0 = d /\ j - 1 <= d
      BY <1>1
    <3>5. j - 1 < d \/ j - 1 = d
      BY <1>1, <3>4
    <3> QED BY <3>1, <3>2, <3>3, <3>5
  <2>11. s[c] = n /\ s[1] = 0
    <3>1. c \in 1 .. c /\ 1 \in 1 .. c /\ 1 - 1 = 0
      BY <1>1
    <3> QED BY <2>2, <2>10, <3>1
  <2>12. ASSUME NEW i \in 1 .. c - 1, NEW j \in 1 .. c - 1
         PROVE  /\ s[i + 1] - s[i] > 0
                /\ (s[i + 1] - s[i]) - (s[j + 1] - s[j]) \in {-1, 0, 1}
    <3>1. /\ i \in 1 .. c /\ i + 1 \in 1 .. c /\ (i + 1) - 1 = i /\ i - 1 \in 0 .. d - 1
          /\ j \in 1 .. c /\ j + 1 \in 1 .. c /\ (j + 1) - 1 = j /\ j - 1 \in 0 .. d - 1
          /\ (i - 1) + 1 = i /\ (j - 1) + 1 = j /\ i < i + 1
      BY <1>1
    <3>2. /\ s[i + 1] = a(i) /\ s[i] = a(i - 1) /\ s[j + 1] = a(j) /\ s[j] = a(j - 1)
      BY <2>10, <3>1
    <3>3. (a((i - 1) + 1) - a(i - 1)) - (a((j - 1) + 1) - a(j - 1)) \in {-1, 0, 1}
      BY <2>2, <3>1
    <3>4. f[i] < f[i + 1] /\ s[i] = f[i] /\ s[i + 1] = f[i + 1] /\ s[i] \in Nat /\ s[i + 1] \in Nat
      BY <2>7, <2>8, <2>9, <3>1
    <3>5. a((i - 1) + 1) = a(i) /\ a((j - 1) + 1) = a(j)
      BY <3>1
    <3>6. (s[i + 1] - s[i]) - (s[j + 1] - s[j]) \in {-1, 0, 1}
      BY <3>2, <3>3, <3>5
    <3>7. s[i + 1] - s[i] > 0
      BY <3>4
    <3> QED BY <3>6, <3>7
  <2> HIDE DEF s
  <2> QED BY <1>1, <2>9, <2>10, <2>11, <2>12 DEF c, s
<1> QED BY <1>3, <1>4

\* A table as the solver leaves it.
IsTable(csv) ==
  /\ csv.headers \in Seq(STRING)
  /\ csv.rows \in Seq(Seq(Int \cup {Blank, Junk}))

\* What is summarized has a row.
LEMMA TableRows ==
  ASSUME NEW csv, IsTable(csv), Summarizable(csv)
  PROVE  LET n == Len(csv.rows) IN n \in Nat /\ n > 0 /\ DOMAIN csv.rows = 1 .. n
<1> DEFINE rows == csv.rows
           S == Seq(Int \cup {Blank, Junk})
<1>1. rows \in Seq(S) /\ rows # <<>>
  BY DEF IsTable, Summarizable
<1> HIDE DEF rows, S
<1>2. Len(rows) \in Nat /\ DOMAIN rows = 1 .. Len(rows) /\ Len(rows) # 0
  BY <1>1, EmptySeq
<1> QED BY <1>2 DEF rows

\* In a rectangle of numbers every column is a list of numbers, a cell of each row.
LEMMA ColumnsAreNumbers ==
  ASSUME NEW csv, IsTable(csv), Summarizable(csv), NEW name \in ToSet(csv.headers)
  PROVE  LET n == Len(csv.rows)
         IN  /\ n \in Nat /\ n > 0 /\ DOMAIN csv.rows = 1 .. n
             /\ Column(csv, name) \in [1 .. n -> Int]
             /\ Len(Column(csv, name)) = n
             /\ Number(CellIn(csv, csv.rows[n], name)) = Column(csv, name)[n]
<1> DEFINE n == Len(csv.rows)
           h == csv.headers
           Cell(r) == CellIn(csv, csv.rows[r], name)
           f == Column(csv, name)
<1>1. n \in Nat /\ n > 0 /\ DOMAIN csv.rows = 1 .. n
  BY TableRows
<1>2. DOMAIN h = 1 .. Len(h) /\ Len(h) \in Nat
  BY DEF IsTable
<1>3. PICK k \in DOMAIN h : h[k] = name
  BY DEF ToSet
<1>4. IndexOf(csv, name) = k
  <2> DEFINE S == {i \in DOMAIN h : h[i] = name}
  <2>1. \A i \in S : i = k
    BY <1>3 DEF Summarizable, IsInjective
  <2>2. S \in SUBSET Int /\ k \in S /\ \A i \in S : k <= i
    <3>1. S \in SUBSET Int
      BY <1>2
    <3>2. k \in S /\ k \in Int /\ k <= k
      BY <1>2, <1>3
    <3> HIDE DEF S
    <3> QED BY <2>1, <3>1, <3>2
  <2>3. IndexOf(csv, name) = Min(S)
    BY DEF IndexOf
  <2> HIDE DEF S
  <2> QED BY <2>2, <2>3, OnlyExtreme
<1>5. \A r \in 1 .. n : Cell(r) \in Int /\ Number(Cell(r)) = Cell(r)
  <2> TAKE r \in 1 .. n
  <2> DEFINE row == csv.rows[r]
  <2>1. row \in Seq(Int \cup {Blank, Junk})
    BY <1>1 DEF IsTable
  <2>2. Len(row) = Len(h) /\ ToSet(row) \cap {Blank, Junk} = {}
    BY <1>1 DEF Summarizable
  <2>3. DOMAIN row = 1 .. Len(row)
    BY <2>1
  <2>4. k \in DOMAIN row
    BY <1>2, <2>2, <2>3
  <2>5. Cell(r) = row[k]
    BY <1>4, <2>4 DEF CellIn
  <2> HIDE DEF row
  <2>6. row[k] \in Int \cup {Blank, Junk} /\ row[k] \in ToSet(row)
    BY <2>1, <2>3, <2>4 DEF ToSet
  <2>7. row[k] \in Int /\ row[k] # Blank
    BY <2>2, <2>6
  <2> QED BY <2>5, <2>7 DEF Number
<1>6. f = [r \in 1 .. n |-> Number(Cell(r))]
  BY <1>1 DEF Column
<1> HIDE DEF Cell
<1>7. f \in [1 .. n -> Int]
  BY <1>5, <1>6
<1>8. f \in Seq(Int)
  BY <1>1, <1>7
<1>9. Len(f) = n
  BY <1>1, <1>7, <1>8
<1>10. f[n] = Number(Cell(n))
  BY <1>1, <1>6
<1> QED BY <1>1, <1>7, <1>9, <1>10 DEF Cell

\* The rows of a summary stand for the table (summarizeSealedNumericCsv).
LEMMA SamplesStandForTheTable ==
  ASSUME NEW csv, IsTable(csv), NEW max \in Nat, max > 0, Summarizable(csv)
  PROVE  LET s == Summary(csv, max)
             n == Len(s.samples)
             Gap(i) == s.samples[i + 1].row - s.samples[i].row
         IN  /\ s.rows = Len(csv.rows)
             /\ s.columns = [name \in ToSet(csv.headers) |->
                  [minimum |-> Min(ToSet(Column(csv, name))),
                   maximum |-> Max(ToSet(Column(csv, name))),
                   final |-> Last(Column(csv, name))]]
             /\ n = Min({s.rows, max})
             /\ Last(s.samples).row = s.rows - 1
             /\ n > 1 => s.samples[1].row = 0
             /\ \A i, j \in 1 .. n - 1 : Gap(i) > 0 /\ Gap(i) - Gap(j) \in {-1, 0, 1}
             /\ \A name \in ToSet(csv.headers) :
                  /\ Last(s.samples).values[name] = s.columns[name].final
                  /\ \A i \in 1 .. n :
                       s.samples[i].values[name] \in
                         s.columns[name].minimum .. s.columns[name].maximum
<1> DEFINE rows == Len(csv.rows)
           at == Ascending(SampleRowIndexes(rows, max))
           names == ToSet(csv.headers)
           s == Summary(csv, max)
           n == Len(s.samples)
<1>1. rows \in Nat /\ rows > 0
  BY TableRows
<1> DEFINE c == Min({rows, max})
<1>2. /\ c \in Nat /\ c > 0 /\ DOMAIN at = 1 .. c
      /\ \A j \in 1 .. c : at[j] \in 0 .. rows - 1
      /\ at[c] = rows - 1
      /\ c > 1 => at[1] = 0
      /\ \A i, j \in 1 .. c - 1 :
           /\ at[i + 1] - at[i] > 0
           /\ (at[i + 1] - at[i]) - (at[j + 1] - at[j]) \in {-1, 0, 1}
  <2> HIDE DEF rows
  <2> QED BY <1>1, SampleOrder
<1>3. /\ s.rows = rows
      /\ s.columns = [name \in names |->
           [minimum |-> Min(ToSet(Column(csv, name))),
            maximum |-> Max(ToSet(Column(csv, name))),
            final |-> Last(Column(csv, name))]]
      /\ s.samples = [i \in DOMAIN at |->
           [row |-> at[i], values |-> [name \in names |-> Column(csv, name)[at[i] + 1]]]]
  BY DEF Summary
<1> HIDE DEF s, at, c, names, rows
<1>4. DOMAIN s.samples = 1 .. c /\ n = c
  <2> DEFINE p == s.samples
  <2>1. p = [i \in 1 .. c |-> p[i]] /\ DOMAIN p = 1 .. c
    BY <1>2, <1>3
  <2> HIDE DEF p
  <2> DEFINE S == {p[i] : i \in 1 .. c}
  <2>2. p \in [1 .. c -> S]
    BY <2>1
  <2> HIDE DEF S
  <2>3. p \in Seq(S)
    BY <1>2, <2>2
  <2>4. Len(p) = c
    BY <1>2, <2>1, <2>3
  <2> QED BY <2>1, <2>4 DEF p
<1>5. \A i \in 1 .. c :
        /\ s.samples[i].row = at[i]
        /\ \A name \in names : s.samples[i].values[name] = Column(csv, name)[at[i] + 1]
  BY <1>2, <1>3
<1>6. Last(s.samples) = s.samples[c]
  BY <1>4 DEF Last
<1>7. c \in 1 .. c
  BY <1>2
<1>8. Last(s.samples).row = rows - 1 /\ (c > 1 => s.samples[1].row = 0)
  <2>1. 1 \in 1 .. c
    BY <1>2
  <2> QED BY <1>2, <1>5, <1>6, <1>7, <2>1
<1>9. ASSUME NEW i \in 1 .. c - 1, NEW j \in 1 .. c - 1
      PROVE  LET Gap(k) == s.samples[k + 1].row - s.samples[k].row
             IN  Gap(i) > 0 /\ Gap(i) - Gap(j) \in {-1, 0, 1}
  <2>1. i \in 1 .. c /\ i + 1 \in 1 .. c /\ j \in 1 .. c /\ j + 1 \in 1 .. c
    BY <1>2
  <2>2. /\ s.samples[i + 1].row = at[i + 1] /\ s.samples[i].row = at[i]
        /\ s.samples[j + 1].row = at[j + 1] /\ s.samples[j].row = at[j]
    BY <1>5, <2>1
  <2> QED BY <1>2, <2>2
<1>10. ASSUME NEW name \in names
       PROVE  /\ Last(s.samples).values[name] = s.columns[name].final
              /\ \A i \in 1 .. c :
                   s.samples[i].values[name] \in
                     s.columns[name].minimum .. s.columns[name].maximum
  <2> DEFINE f == Column(csv, name)
  <2>1. f \in [1 .. rows -> Int] /\ Len(f) = rows
    BY ColumnsAreNumbers DEF rows, names
  <2>2. /\ s.columns[name].minimum = Min(ToSet(f)) /\ s.columns[name].maximum = Max(ToSet(f))
        /\ s.columns[name].final = f[rows]
    BY <1>3, <2>1 DEF Last
  <2> HIDE DEF f
  <2>3. \A r \in 1 .. rows : f[r] \in Min(ToSet(f)) .. Max(ToSet(f))
    BY <1>1, <2>1, ColumnBounds
  <2>4. \A i \in 1 .. c : s.samples[i].values[name] = f[at[i] + 1] /\ at[i] + 1 \in 1 .. rows
    <3> TAKE i \in 1 .. c
    <3>1. at[i] \in 0 .. rows - 1
      BY <1>2
    <3>2. at[i] + 1 \in 1 .. rows
      BY <1>1, <3>1
    <3> QED BY <1>5, <3>2 DEF f
  <2>5. at[c] + 1 = rows
    BY <1>1, <1>2
  <2>6. Last(s.samples).values[name] = s.columns[name].final
    BY <1>6, <1>7, <2>2, <2>4, <2>5
  <2>7. \A i \in 1 .. c :
          s.samples[i].values[name] \in s.columns[name].minimum .. s.columns[name].maximum
    BY <2>2, <2>3, <2>4
  <2> QED BY <2>6, <2>7
<1> QED BY <1>3, <1>4, <1>8, <1>9, <1>10 DEF s, c, names, rows

\* The metrics of a run and the summary of its table are about the same columns
\* (extractCoffeeMachineMetrics, the ramp's normalizer, summarizeSealedNumericCsv).
LEMMA MetricsOfTheTable ==
  ASSUME NEW csv, IsTable(csv), Summarizable(csv), NEW normalizer, NEW scenario,
         Normalize(normalizer, csv, scenario) # Nothing
  PROVE  LET metrics == Normalize(normalizer, csv, scenario).metrics
             names == ToSet(csv.headers)
             Col(name) == Column(csv, name)
             Power == Col("heaterPowerW")
         IN  /\ "temperature_final" \in DOMAIN metrics =>
                  /\ "temperatureC" \in names
                  /\ metrics.temperature_final = Last(Col("temperatureC"))
             /\ "water_temperature_max" \in DOMAIN metrics =>
                  /\ "waterTemperatureC" \in names /\ "heaterPowerW" \in names
                  /\ metrics.water_temperature_max = Max(ToSet(Col("waterTemperatureC")))
                  /\ metrics.heater_power_peak \in
                       UNION {{p, -p} : p \in {Min(ToSet(Power)), Max(ToSet(Power))}}
<1> DEFINE out == Normalize(normalizer, csv, scenario)
           metrics == out.metrics
           names == ToSet(csv.headers)
<1>1. CASE normalizer # "coffee"
  <2>1. out = NormalizeRamp(csv)
    BY <1>1 DEF Normalize
  <2>2. /\ HasColumn(csv, "temperatureC")
        /\ out = [metrics |-> [temperature_final |->
                     Number(CellIn(csv, Last(csv.rows), "temperatureC"))], warnings |-> <<>>]
    BY <2>1 DEF NormalizeRamp
  <2>3. /\ metrics.temperature_final = Number(CellIn(csv, Last(csv.rows), "temperatureC"))
        /\ DOMAIN metrics = {"temperature_final"}
    BY <2>2
  <2>4. "temperatureC" \in names
    BY <2>2 DEF HasColumn
  <2>5. Last(Column(csv, "temperatureC")) = Number(CellIn(csv, Last(csv.rows), "temperatureC"))
    BY <2>4, ColumnsAreNumbers DEF Last
  <2>6. /\ "temperature_final" \in DOMAIN metrics
        /\ "water_temperature_max" \notin DOMAIN metrics
    BY <2>3
  <2>7. metrics.temperature_final = Last(Column(csv, "temperatureC"))
    BY <2>3, <2>5
  <2> HIDE DEF metrics
  <2> QED BY <2>4, <2>6, <2>7 DEF metrics
<1>2. CASE normalizer = "coffee"
  <2> DEFINE n == Len(csv.rows)
             time == Column(csv, "time")
             water == Column(csv, "waterTemperatureC")
             power == Column(csv, "heaterPowerW")
             energy == IF HasColumn(csv, "heaterEnergyJ")
                         THEN 2 * Last(Column(csv, "heaterEnergyJ")) ELSE Energy2(time, power)
             base == [water_temperature_max |-> Max(ToSet(water)),
                      heater_power_peak |-> Max({Abs(power[r]) : r \in DOMAIN power}),
                      heater_energy |-> energy]
             reached == {r \in DOMAIN water : water[r] >= scenario.target}
             timed == [id \in DOMAIN base \cup {"time_to_target_temperature"} |->
                         IF id \in DOMAIN base THEN base[id] ELSE time[Min(reached)]]
             used == {"time", "waterTemperatureC", "heaterPowerW"}
                       \cup ({"heaterEnergyJ"} \cap ToSet(csv.headers))
             Read == csv.rows # <<>> /\ \A name \in used : Numeric(csv, name)
  <2>1. out = NormalizeCoffee(csv, scenario.target)
    BY <1>2 DEF Normalize
  <2>2. NormalizeCoffee(csv, scenario.target) =
          IF Read THEN IF reached = {} THEN [metrics |-> base, warnings |-> <<"target not reached">>]
                       ELSE [metrics |-> timed, warnings |-> <<>>]
                  ELSE Nothing
    BY Zenon DEF NormalizeCoffee
  <2>3. Read
    BY <2>1, <2>2
  <2>4. metrics = base \/ metrics = timed
    <3>1. PICK m, w : (m = base \/ m = timed) /\ out = [metrics |-> m, warnings |-> w]
      <4> HIDE DEF base, timed, Read, out, reached
      <4> QED BY <2>1, <2>2, <2>3, Zenon
    <3> HIDE DEF base, timed
    <3> QED BY <3>1
  <2>5. \A name \in {"waterTemperatureC", "heaterPowerW"} : Numeric(csv, name)
    BY <2>3
  <2>6. "waterTemperatureC" \in names /\ "heaterPowerW" \in names
    BY <2>5 DEF Numeric, HasColumn
  <2>7. /\ DOMAIN base = {"water_temperature_max", "heater_power_peak", "heater_energy"}
        /\ base.water_temperature_max = Max(ToSet(water))
        /\ base.heater_power_peak = Max({Abs(power[r]) : r \in DOMAIN power})
    OBVIOUS
  <2>8. /\ "temperature_final" \notin DOMAIN metrics
        /\ metrics.water_temperature_max = base.water_temperature_max
        /\ metrics.heater_power_peak = base.heater_power_peak
    <3>1. CASE metrics = base
      BY <2>7, <3>1
    <3>2. CASE metrics = timed
      <4> HIDE DEF base, metrics
      <4> QED BY <2>7, <3>2
    <3> QED BY <2>4, <3>1, <3>2
  <2>9. n \in Nat /\ n > 0 /\ power \in [1 .. n -> Int]
    BY <2>6, ColumnsAreNumbers
  <2> HIDE DEF metrics, base, power, n
  <2>10. Max({Abs(power[r]) : r \in DOMAIN power}) \in
          UNION {{p, -p} : p \in {Min(ToSet(power)), Max(ToSet(power))}}
    <3> DEFINE g == [r \in 1 .. n |-> Abs(power[r])]
               A == {Abs(power[r]) : r \in DOMAIN power}
    <3>1. \A r \in 1 .. n :
            /\ power[r] \in Int /\ Abs(power[r]) \in Int
            /\ power[r] <= Abs(power[r]) /\ - power[r] <= Abs(power[r])
            /\ Abs(power[r]) = power[r] \/ Abs(power[r]) = - power[r]
      <4> TAKE r \in 1 .. n
      <4> DEFINE x == power[r]
      <4>1. x \in Int
        BY <2>9
      <4> HIDE DEF x
      <4>2. Abs(x) \in Int /\ x <= Abs(x) /\ - x <= Abs(x) /\ (Abs(x) = x \/ Abs(x) = - x)
        BY <4>1 DEF Abs
      <4> QED BY <4>1, <4>2 DEF x
    <3> DEFINE B(r) == Abs(power[r])
    <3> HIDE DEF B
    <3>2. g \in [1 .. n -> Int] /\ \A r \in 1 .. n : g[r] = B(r)
      BY <3>1 DEF B
    <3>3. PICK m \in 1 .. n : \A r \in 1 .. n : g[r] <= g[m]
      <4> HIDE DEF g
      <4> QED BY <2>9, <3>2, Largest
    <3>4. \A r \in 1 .. n : B(r) <= B(m)
      BY <3>2, <3>3
    <3>5. A = {B(r) : r \in 1 .. n}
      BY <2>9 DEF B
    <3>6. Max(A) = B(m)
      <4>1. A \in SUBSET Int /\ B(m) \in A /\ \A x \in A : x <= B(m)
        BY <3>1, <3>4, <3>5 DEF B
      <4> HIDE DEF A
      <4> QED BY <4>1, OnlyExtreme
    <3>7. ToSet(power) = {power[r] : r \in 1 .. n} /\ ToSet(power) \in SUBSET Int
      BY <2>9 DEF ToSet
    <3>8. CASE B(m) = power[m]
      <4>1. \A r \in 1 .. n : power[r] <= power[m]
        <5> TAKE r \in 1 .. n
        <5>1. power[r] \in Int /\ power[m] \in Int /\ B(r) \in Int /\ power[r] <= B(r) /\ B(r) <= B(m)
          BY <3>1, <3>4 DEF B
        <5> QED BY <3>8, <5>1
      <4>2. power[m] \in ToSet(power) /\ \A x \in ToSet(power) : x <= power[m]
        BY <3>7, <4>1
      <4>3. Max(ToSet(power)) = power[m]
        BY <3>7, <4>2, OnlyExtreme
      <4> QED BY <3>6, <3>8, <4>3
    <3>9. CASE B(m) = - power[m]
      <4>1. \A r \in 1 .. n : power[m] <= power[r]
        <5> TAKE r \in 1 .. n
        <5>1. power[r] \in Int /\ power[m] \in Int /\ B(r) \in Int /\ - power[r] <= B(r) /\ B(r) <= B(m)
          BY <3>1, <3>4 DEF B
        <5> QED BY <3>9, <5>1
      <4>2. power[m] \in ToSet(power) /\ \A x \in ToSet(power) : power[m] <= x
        BY <3>7, <4>1
      <4>3. Min(ToSet(power)) = power[m]
        BY <3>7, <4>2, OnlyExtreme
      <4> QED BY <3>6, <3>9, <4>3
    <3>10. B(m) = power[m] \/ B(m) = - power[m]
      BY <3>1 DEF B
    <3> QED BY <3>8, <3>9, <3>10
  <2>11. /\ metrics.water_temperature_max = Max(ToSet(water))
         /\ metrics.heater_power_peak \in
              UNION {{p, -p} : p \in {Min(ToSet(power)), Max(ToSet(power))}}
    BY <2>7, <2>8, <2>10
  <2> QED BY <2>6, <2>8, <2>11 DEF metrics, power
<1> QED BY <1>1, <1>2

-----------------------------------------------------------------------------
(* A series and the run that it is of.                                     *)

\* A CSV that the solver left, once it is evidence: a table.
TablesOK ==
  /\ submit.at \in {"interpret", "seal"} => submit.csv \in Tables \cup {Nothing}
  /\ submit.at = "seal" /\ submit.status = "succeeded" => submit.csv \in Tables
  /\ Written =>
       \A i \in DOMAIN truth.run.artifacts :
         truth.run.artifacts[i].kind = "result" => truth.run.artifacts[i].sha256 \in Tables

\* What is written of a run, and what submit has read of its CSV.
LEMMA TablesStay ==
  ASSUME TablesOK, UNCHANGED truth, Written' => Written,
         submit' = submit \/ submit'.at \notin {"interpret", "seal"}
  PROVE  TablesOK'
BY DEF TablesOK

\* The ledger names the CSV that the normalizer accepted as its result.
LEMMA WriteLedgerTables ==
  ASSUME SealedInv, TablesOK, WriteLedger
  PROVE  TablesOK'
<1> DEFINE m == submit.manifest
           a == submit.artifacts
<1>1. submit.at = "seal" /\ submit'.at = "return"
  BY DEF WriteLedger
<1>2. PICK e : truth'.run.artifacts = Append(a, Artifact("evidence", e))
  <2>1. \E e : run'.artifacts = Append(a, Artifact("evidence", e))
    BY DEF WriteLedger
  <2>2. truth'.run = run'
    BY DEF WriteLedger
  <2> QED BY <2>1, <2>2
<1>3. PICK log \in Verdicts :
        IF submit.status = "succeeded"
          THEN a = Append(Logged(m, log), Artifact("result", submit.csv))
          ELSE a = Logged(m, log)
  BY <1>1 DEF WritingOK
<1>4. Listed(Logged(m, log)) /\ Lacks(Logged(m, log), "result") /\ Lacks(Logged(m, log), "evidence")
  BY LoggedAre
<1>5. /\ Listed(a) /\ Lacks(a, "evidence")
      /\ \A i \in DOMAIN a : a[i].kind = "result" => a[i].sha256 \in Tables
  <2>1. CASE submit.status = "succeeded"
    <3> DEFINE r == Artifact("result", submit.csv)
               b == Logged(m, log)
    <3>0. "result" \in Kinds
      BY DEF Kinds
    <3>1. r.kind = "result" /\ r.sha256 = submit.csv /\ submit.csv \in Tables
      BY <1>1, <2>1 DEF Artifact, TablesOK
    <3>2. a = Append(b, r)
      BY <1>3, <2>1
    <3>3. /\ Listed(Append(b, r))
          /\ \A k : Lacks(b, k) /\ k # "result" => Lacks(Append(b, r), k)
          /\ \A i \in DOMAIN Append(b, r) :
               Append(b, r)[i] = r \/ \E j \in DOMAIN b : Append(b, r)[i] = b[j]
      <4>1. Listed(b) /\ Lacks(b, "result")
        BY <1>4
      <4> HIDE DEF b
      <4> QED BY <3>0, <4>1, ArtifactAppended
    <3> HIDE DEF r, b
    <3> QED BY <1>4, <3>1, <3>2, <3>3 DEF Lacks, b
  <2>2. CASE submit.status # "succeeded"
    BY <1>3, <1>4, <2>2 DEF Lacks
  <2> QED BY <2>1, <2>2
<1>6. \A i \in DOMAIN truth'.run.artifacts :
        truth'.run.artifacts[i].kind = "result" => truth'.run.artifacts[i].sha256 \in Tables
  <2> DEFINE r == Artifact("evidence", e)
             b == Append(a, r)
  <2> HIDE DEF a
  <2>0. "evidence" \in Kinds
    BY DEF Kinds
  <2>1. r.kind = "evidence"
    BY DEF Artifact
  <2>2. \A i \in DOMAIN b : b[i] = r \/ \E j \in DOMAIN a : b[i] = a[j]
    BY <1>5, <2>0, ArtifactAppended
  <2>3. truth'.run.artifacts = b
    BY <1>2
  <2> HIDE DEF r, b
  <2> QED BY <1>5, <2>1, <2>2, <2>3
<1> QED BY <1>1, <1>6 DEF TablesOK

\* Every step keeps what is evidence a table.
LEMMA TablesNext ==
  ASSUME SealedInv, TablesOK, [Next]_vars
  PROVE  TablesOK'
<1>1. CASE Prepare
  BY <1>1, TablesStay DEF Prepare, ManifestGet, TemplateGet, server, disk, Written
<1>2. CASE \E sel \in Selections, m \in known, p \in Supplied : Submit(Request(sel, m, p))
  <2>1. UNCHANGED <<run, truth>> /\ (submit' = submit \/ submit' = [at |-> "probe"])
    BY <1>2 DEF Submit, Reconcile, Recover, disk, past
  <2> QED BY <2>1, TablesStay DEF Written
<1>3. CASE Probe \/ WriteInputs
  <2>1. UNCHANGED <<run, truth>> /\ submit'.at \in {"idle", "inputs", "execute"}
    BY <1>3 DEF Probe, WriteInputs, Refuse, Reject, Idle, past
  <2> QED BY <2>1, TablesStay DEF Written
<1>4. CASE Execute
  <2>1. /\ submit'.at = "interpret" /\ submit'.csv \in Tables \cup {Nothing}
        /\ UNCHANGED <<run, truth>>
    BY <1>4 DEF Execute, past
  <2> QED BY <2>1 DEF TablesOK, Written
<1>5. CASE Interpret
  <2>1. submit.at = "interpret" /\ UNCHANGED <<run, truth>>
    <3>1. submit.at = "interpret" /\ UNCHANGED <<run, past>>
      BY <1>5, Zenon DEF Interpret
    <3> QED BY <3>1 DEF past
  <2>2. /\ submit'.at = "seal" /\ submit'.csv = submit.csv
        /\ submit'.status = "succeeded" => submit.csv # Nothing
    BY <1>5, InterpretedAs
  <2> QED BY <2>1, <2>2 DEF TablesOK, Written
<1>6. CASE WriteLedger
  BY <1>6, WriteLedgerTables
<1>7. CASE Return
  BY <1>7, TablesStay DEF Return, Idle, Written, past
<1>8. CASE RequestGet \/ \E max \in Bounds : SeriesGet(max)
  <2>1. UNCHANGED <<submit, run, truth>>
    BY <1>8 DEF RequestGet, Reconcile, Recover, SeriesGet, server, disk, past
  <2> QED BY <2>1, TablesStay DEF Written
<1>9. CASE Restart \/ EngineDrifts \/ SourcesChange
  <2>1. UNCHANGED <<run, truth>> /\ (submit' = submit \/ submit' = Idle)
    BY <1>9 DEF Restart, EngineDrifts, SourcesChange, server, disk
  <2> QED BY <2>1, TablesStay DEF Written, Idle
<1>10. CASE Damage
  <2>1. Written /\ UNCHANGED <<submit, truth>>
    BY <1>10 DEF Damage, Written, server
  <2> QED BY <2>1, TablesStay
<1>11. CASE UNCHANGED vars
  <2>1. UNCHANGED <<submit, run, truth>>
    BY <1>11 DEF vars, server, disk, past
  <2> QED BY <2>1, TablesStay DEF Written
<1> QED
  BY <1>1, <1>2, <1>3, <1>4, <1>5, <1>6, <1>7, <1>8, <1>9, <1>10, <1>11 DEF Next

\* The result of a success that validates is a table that the solver left.
LEMMA ResultIsTable ==
  ASSUME SealedInv, TablesOK, OneDamage, Written, Validates(run), run.status = "succeeded"
  PROVE  file["result"] \in Tables
<1> DEFINE a == run.artifacts
           expected == Expected(run.manifest.schema # Nothing, "succeeded")
<1>1. a = truth.run.artifacts
  BY ServedIsTruth
<1>2. KindsOf(a) = expected /\ \A i \in DOMAIN a : file[a[i].kind] = a[i].sha256
  BY DEF Validates, ValidArtifacts, KindsOf
<1>3. \E i \in DOMAIN expected : expected[i] = "result"
  <2> DEFINE started == InputKinds(run.manifest.schema)
             logged == Append(started, "diagnostics")
             results == Append(logged, "result")
  <2>1. expected = Append(results, "evidence")
    BY ExpectedKinds
  <2>2. IsSequence(started)
    <3> DEFINE four == <<"request", "resolved_parameters", "model", "scenario">>
    <3>1. IsSequence(four \o <<>> \o <<"script">>)
      BY StartedFive
    <3>2. IsSequence(four \o <<"parameter_schema">> \o <<"script">>)
      BY StartedSix
    <3>3. \/ started = four \o <<>> \o <<"script">>
          \/ started = four \o <<"parameter_schema">> \o <<"script">>
      BY Zenon DEF InputKinds
    <3> HIDE DEF started, four
    <3> QED BY <3>1, <3>2, <3>3
  <2> HIDE DEF started
  <2>3. IsSequence(logged)
    BY <2>2, Appended
  <2> HIDE DEF logged
  <2>4. /\ IsSequence(results) /\ Len(logged) + 1 \in DOMAIN results
        /\ results[Len(logged) + 1] = "result"
    BY <2>3, Appended
  <2> HIDE DEF results, expected
  <2>5. Len(logged) + 1 \in DOMAIN expected /\ expected[Len(logged) + 1] = "result"
    BY <2>1, <2>4, Appended
  <2> QED BY <2>5
<1>4. PICK i \in DOMAIN a : a[i].kind = "result"
  <2> HIDE DEF expected, a
  <2> QED BY <1>2, <1>3 DEF KindsOf
<1>5. a[i].sha256 \in Tables
  BY <1>1, <1>4 DEF TablesOK
<1> QED BY <1>2, <1>4, <1>5

\* What is read of a series, when the run validates.
LEMMA SeriesOfTheRun ==
  ASSUME SealedInv, TablesOK, OneDamage, NEW max \in Bounds, SeriesGet(max)
  PROVE  SeriesIsFaithful'
<1> DEFINE csv == file["result"]
           s == Summary(csv, max)
           n == Len(s.samples)
           Gap(i) == s.samples[i + 1].row - s.samples[i].row
           metrics == run.metrics
           names == ToSet(csv.headers)
           Power == Column(csv, "heaterPowerW")
<1>1. /\ run # Nothing /\ Validates(run) /\ run.status = "succeeded" /\ s # Nothing
      /\ answer'.run = run
      /\ answer'.series = [max |-> max, of |-> s]
  BY DEF SeriesGet, Serve
<1>2. IsTable(csv) /\ max \in Nat /\ max > 0
  <2>1. csv \in Tables
    BY <1>1, ResultIsTable DEF Written
  <2> QED BY <2>1, TablesAreText DEF IsTable
<1>3. Summarizable(csv)
  BY <1>1 DEF Summary
<1>4. /\ s.columns = [name \in names |->
           [minimum |-> Min(ToSet(Column(csv, name))),
            maximum |-> Max(ToSet(Column(csv, name))),
            final |-> Last(Column(csv, name))]]
      /\ n = Min({s.rows, max})
      /\ Last(s.samples).row = s.rows - 1
      /\ n > 1 => s.samples[1].row = 0
      /\ \A i, j \in 1 .. n - 1 : Gap(i) > 0 /\ Gap(i) - Gap(j) \in {-1, 0, 1}
      /\ \A name \in names :
           /\ Last(s.samples).values[name] = s.columns[name].final
           /\ \A i \in 1 .. n :
                s.samples[i].values[name] \in s.columns[name].minimum .. s.columns[name].maximum
  BY <1>2, <1>3, SamplesStandForTheTable
<1>5. /\ "temperature_final" \in DOMAIN metrics =>
           /\ "temperatureC" \in names
           /\ metrics.temperature_final = Last(Column(csv, "temperatureC"))
      /\ "water_temperature_max" \in DOMAIN metrics =>
           /\ "waterTemperatureC" \in names /\ "heaterPowerW" \in names
           /\ metrics.water_temperature_max = Max(ToSet(Column(csv, "waterTemperatureC")))
           /\ metrics.heater_power_peak \in
                UNION {{p, -p} : p \in {Min(ToSet(Power)), Max(ToSet(Power))}}
  <2> DEFINE out == Normalize(run.manifest.normalizer, csv, run.manifest.scenario)
  <2>1. out # Nothing /\ metrics = out.metrics
    BY <1>1 DEF Validates, MetricsAgree
  <2> HIDE DEF csv, metrics
  <2> QED BY <1>2, <1>3, <2>1, MetricsOfTheTable
<1> HIDE DEF csv, s, metrics, names, Power
<1>6. DOMAIN s.columns = names
  BY <1>4
<1>7. /\ "temperature_final" \in DOMAIN metrics =>
           metrics.temperature_final = s.columns["temperatureC"].final
      /\ "water_temperature_max" \in DOMAIN metrics =>
           /\ metrics.water_temperature_max = s.columns["waterTemperatureC"].maximum
           /\ metrics.heater_power_peak \in UNION {{p, -p} :
                p \in {s.columns["heaterPowerW"].minimum, s.columns["heaterPowerW"].maximum}}
  BY <1>4, <1>5 DEF Power
<1>8. answer'.series.of = s /\ answer'.series.max = max /\ answer'.run.metrics = metrics
  BY <1>1 DEF metrics
<1> QED BY <1>4, <1>6, <1>7, <1>8 DEF SeriesIsFaithful

\* A series agrees with the metrics of its run, and its samples stand for the
\* table, whatever one overwritten file or field was (summarizeSealedNumericCsv,
\* the normalizers, validateCompletedRun).
THEOREM SeriesStandsForTheRun ==
  ASSUME OneDamage
  PROVE  Spec => []SeriesIsFaithful
<1>1. Init => TablesOK /\ SeriesIsFaithful
  BY DEF Init, TablesOK, Written, Idle, NoAnswer, SeriesIsFaithful
<1>2. SealedInv /\ TablesOK /\ SeriesIsFaithful /\ [Next]_vars => TablesOK' /\ SeriesIsFaithful'
  <2>. SUFFICES ASSUME SealedInv, TablesOK, SeriesIsFaithful, [Next]_vars PROVE SeriesIsFaithful'
    BY TablesNext
  <2>1. ASSUME answer'.outcome # "series" PROVE SeriesIsFaithful'
    BY <2>1 DEF SeriesIsFaithful
  <2>2. ASSUME Silent \/ Refuse \/ Reject \/ Serve(Nothing) PROVE SeriesIsFaithful'
    BY <2>1, <2>2 DEF Silent, NoAnswer, Refuse, Reject, Serve
  <2>3. CASE Prepare
    BY <2>2, <2>3 DEF Prepare, ManifestGet, TemplateGet
  <2>4. CASE \E sel \in Selections, m \in known, p \in Supplied : Submit(Request(sel, m, p))
    BY <2>2, <2>4 DEF Submit, Reconcile, Recover
  <2>5. CASE Probe \/ WriteInputs \/ Execute \/ Interpret \/ WriteLedger
    BY <2>2, <2>5 DEF Probe, WriteInputs, Execute, Interpret, WriteLedger
  <2>6. CASE Return
    BY <2>2, <2>6 DEF Return
  <2>7. CASE RequestGet
    BY <2>2, <2>7 DEF RequestGet, Reconcile, Recover
  <2>8. CASE \E max \in Bounds : SeriesGet(max)
    BY <2>8, SeriesOfTheRun
  <2>9. CASE Restart \/ EngineDrifts \/ SourcesChange \/ Damage
    BY <2>2, <2>9 DEF Restart, EngineDrifts, SourcesChange, Damage
  <2>10. CASE UNCHANGED vars
    BY <2>10 DEF vars, SeriesIsFaithful
  <2>. QED
    BY <2>3, <2>4, <2>5, <2>6, <2>7, <2>8, <2>9, <2>10 DEF Next
<1>. QED
  BY <1>1, <1>2, SealedInvariant, PTL DEF Spec

=============================================================================
