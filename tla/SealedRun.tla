------------------------------- MODULE SealedRun -------------------------------
(***************************************************************************)
(* The content of one 2.1 request, from the manifest a client asks for to  *)
(* the sealed run that is read back: what is compared with what on the     *)
(* way, when the release, the engine, the kit files and the evidence on    *)
(* disk may change between any two steps.  ResumableRequests has the same  *)
(* submit with its concurrent callers, its locks and its claims file;      *)
(* here one submit at a time runs, readers come in between its steps, and  *)
(* every file has the content that validateCompletedRun looks at.  A       *)
(* digest is modelled by what it is taken of.                              *)
(***************************************************************************)
EXTENDS SimulationManifest

CONSTANTS
  Releases,     \* registries of kits
  Installed,    \* the one that runs first
  Engines,      \* what the runtime probe may answer
  Tables,       \* the CSVs that the solver may leave
  Bounds,       \* the max_samples that are asked for
  Supplied,     \* parameters that a client may submit, besides the defaults
  Damaged,      \* the content of a file that was overwritten
  MaxKnown,     \* bound: manifests that clients ever ask for
  MaxChanges,   \* bound: releases, engines and kit files that change
  MaxDamage     \* bound: files of the evidence that are overwritten

ASSUME ManifestConstants ==
  /\ Installed \in Releases
  /\ \A kits \in Releases : ValidRegistry(kits)
  /\ \A kit \in UNION Releases : \A i \in DOMAIN kit.parameters :
       LET p == kit.parameters[i] IN kit.defaults[p.id] \in p.minimum .. p.maximum

\* A cell is a number, blank, or something else; no sample is asked for by 0.
ASSUME TablesAreText ==
  /\ Bounds \subseteq Nat \ {0}
  /\ \A csv \in Tables :
       /\ csv.headers \in Seq(STRING)
       /\ csv.rows \in Seq(Seq(Int \cup {Blank, Junk}))

ASSUME Limits == MaxKnown \in Nat /\ MaxChanges \in Nat /\ MaxDamage \in Nat

VARIABLES
  release,   \* the kits of the running release
  engine,    \* the engine a probe would answer
  intact,    \* BOOLEAN: the kit files on disk are the ones that were loaded
  issued,    \* [key -> manifest], issuedManifestDigests
  known,     \* the manifests a client has been given
  submit,    \* the submit that executes: its label and its locals
  claim,     \* the durable claim, or NoClaim
  run,       \* run.json, or Nothing
  file,      \* [Kind -> content or Nothing]
  answer,    \* what the last step answered
  fresh,     \* history: the manifests issued since the world last changed
  offered,   \* history: the templates of those
  truth,     \* history: run.json and the files as they were written, and whether
             \* an interpreted CSV was not; or Nothing
  setBack,   \* history: completed_at was read from a clock set back
  changes, damages

server == <<issued, known, submit>>
disk   == <<claim, run, file>>
world  == <<release, engine, intact, changes>>
past   == <<fresh, offered, truth, setBack, damages>>
vars   == <<server, disk, world, past, answer>>

Kinds ==
  {"request", "resolved_parameters", "model", "scenario", "parameter_schema", "script",
   "diagnostics", "result", "evidence"}

NoFiles == [k \in Kinds |-> Nothing]

\* A selection the caller names: model_id, model_version and scenario_id.
Selections ==
  UNION {{[id |-> kit.id, version |-> kit.version, scenario |-> s.id] : s \in kit.scenarios} :
           kit \in UNION Releases}

\* The kit and the scenario of a selection in the running release.
KitOf(sel) == Qualified(release, sel.id, sel.version)
Selected(sel) == KitOf(sel) # Nothing /\ ScenarioOf(KitOf(sel), sel.scenario) # Nothing

Idle == [at |-> "idle"]
NoClaim == [state |-> "absent"]
NoAnswer == [outcome |-> "none"]

\* The step answers nothing that a property is about.
Silent == answer' = NoAnswer

Init ==
  /\ release = Installed /\ engine \in Engines /\ intact = TRUE
  /\ issued = <<>> /\ known = {} /\ submit = Idle
  /\ claim = NoClaim /\ run = Nothing /\ file = NoFiles
  /\ answer = NoAnswer
  /\ fresh = {} /\ offered = {} /\ truth = Nothing /\ setBack = FALSE
  /\ changes = 0 /\ damages = 0

-----------------------------------------------------------------------------
(* Manifest and template.                                                  *)

\* buildManifest rereads the kit files and seals what it built; Nothing when
\* that throws.
Built(sel) ==
  LET m == Manifest(KitOf(sel), ScenarioOf(KitOf(sel), sel.scenario), engine)
  IN  IF Selected(sel) /\ intact /\ WellFormedManifest(m) THEN m ELSE Nothing

\* A plausible slip: the scenario is not part of the key.
KeyOfModel(sel) == <<sel.id, sel.version>>

\* manifestIssuanceKey
IssuanceKey(sel) == <<sel.id, sel.version, sel.scenario>>

\* getManifest; a refusal leaves nothing behind.
ManifestGet(sel) ==
  /\ Built(sel) # Nothing /\ Compatible(KitOf(sel), engine)
  /\ Cardinality(known \cup {Built(sel)}) <= MaxKnown
  /\ issued' = [key \in DOMAIN issued \cup {IssuanceKey(sel)} |->
                  IF key = IssuanceKey(sel) THEN Built(sel) ELSE issued[key]]
  /\ known' = known \cup {Built(sel)}
  /\ fresh' = fresh \cup {Built(sel)}
  /\ Silent /\ UNCHANGED <<submit, disk, world, offered, truth, setBack, damages>>

Request(sel, manifest, parameters) ==
  [selection |-> sel, manifest |-> manifest, parameters |-> parameters]

\* getRequestTemplate: the digest has to be the last one this process issued
\* for the selection; the parameters are the defaults of the kit.
TemplateGet(sel, manifest) ==
  /\ IssuanceKey(sel) \in DOMAIN issued /\ issued[IssuanceKey(sel)] = manifest
  /\ Selected(sel)
  /\ offered' = offered \cup
       (IF manifest \in fresh THEN {Request(sel, manifest, Defaults(KitOf(sel)))} ELSE {})
  /\ Silent /\ UNCHANGED <<server, disk, world, fresh, truth, setBack, damages>>

-----------------------------------------------------------------------------
(* What a completed run has to satisfy: validateCompletedRun.              *)

\* The artifacts of a run, in their order.
Expected(schema, status) ==
  <<"request", "resolved_parameters", "model", "scenario">>
    \o (IF schema THEN <<"parameter_schema">> ELSE <<>>) \o <<"script", "diagnostics">>
    \o (IF status = "succeeded" THEN <<"result">> ELSE <<>>) \o <<"evidence">>

Digest(artifacts, kind) == artifacts[CHOOSE i \in DOMAIN artifacts : artifacts[i].kind = kind].sha256

\* validateRunArtifacts: the exact set, every file the one the ledger names, and
\* the sources of the kit those the manifest names.
ValidArtifacts(r) ==
  /\ [i \in DOMAIN r.artifacts |-> r.artifacts[i].kind] = Expected(r.manifest.schema # Nothing, r.status)
  /\ \A i \in DOMAIN r.artifacts : file[r.artifacts[i].kind] = r.artifacts[i].sha256
  /\ Digest(r.artifacts, "model") = r.manifest.model.source
  /\ Digest(r.artifacts, "scenario") = r.manifest.scenario.source
  /\ r.manifest.schema # Nothing => Digest(r.artifacts, "parameter_schema") = r.manifest.schema

\* The request artifact is the claimed request, for the selection of the manifest.
RequestAgrees(r) ==
  /\ file["request"] = claim.request
  /\ claim.request.manifest = r.manifest
  /\ claim.request.selection =
       [id |-> r.manifest.model.id, version |-> r.manifest.model.version,
        scenario |-> r.manifest.scenario.id]

\* A plausible slip: replay takes the bounds of the kit as it is now.
CurrentBounds(m) ==
  IF \E kit \in release : kit.id = m.model.id
    THEN (CHOOSE kit \in release : kit.id = m.model.id).parameters ELSE m.parameters

\* Replay takes the bounds that are sealed in the manifest.
ReplayBounds(m) == m.parameters

\* resolveManifestParameters, the resolved artifact, and the script lowered again.
LoweringAgrees(r) ==
  /\ Resolves(ReplayBounds(r.manifest), claim.request.parameters)
  /\ r.resolved = claim.request.parameters
  /\ file["resolved_parameters"] = r.resolved
  /\ file["script"] = Lowering(r.manifest, r.resolved)

\* A success is the CSV normalized again, by the code the manifest names.
MetricsAgree(r) ==
  LET again == Normalize(r.manifest.normalizer, file["result"], r.manifest.scenario)
  IN  IF r.status = "succeeded"
        THEN /\ again # Nothing /\ ValidMetrics(r.manifest.metrics, again.metrics, TRUE)
             /\ again.metrics = r.metrics
             /\ IsSuffix(again.warnings, r.warnings)
        ELSE r.metrics = <<>>

EvidenceBody(r) == [status |-> r.status, manifest |-> r.manifest, metrics |-> r.metrics,
                    warnings |-> r.warnings]

\* A plausible slip: the attested status is not compared.
AttestsWithoutStatus(e, r) ==
  /\ e.body = [EvidenceBody(r) EXCEPT !.status = e.body.status]
  /\ e.request = claim.request /\ e.script = file["script"]

\* assertEvidenceDocument: the canonical body, and the attestation of the run.
EvidenceAttests(e, r) ==
  /\ e.body = EvidenceBody(r)
  /\ e.request = claim.request /\ e.engine = r.manifest.engine
  /\ e.script = file["script"] /\ e.status = r.status
  /\ IF r.status = "succeeded" THEN e.csv = file["result"] ELSE TRUE

\* validateCompletedRun, in its order; each conjunct may rely on those before.
Validates(r) ==
  /\ r.status \in {"succeeded", "failed", "timed_out"} /\ r.started <= r.completed
  /\ WellFormedManifest(r.manifest) /\ r.manifest = claim.request.manifest
  /\ ValidArtifacts(r)
  /\ RequestAgrees(r)
  /\ Resolvable(release, r.manifest.normalizer)
  /\ LoweringAgrees(r)
  /\ ValidMetrics(r.manifest.metrics, r.metrics, r.status = "succeeded")
  /\ MetricsAgree(r)
  /\ EvidenceAttests(file["evidence"], r)

-----------------------------------------------------------------------------
(* Reading: reconcileCompleted, completeResult, getCompletedEvidence.      *)

\* assertCompletedSeal
Seals(r) == claim.state = "completed" /\ claim.seal = r

Serve(series) ==
  answer' = [outcome |-> IF series = Nothing THEN "served" ELSE "series",
             run |-> run, files |-> file, series |-> series]

\* A run.json wins over every claim state that may have one: it is validated,
\* sealed when it is not yet, and answered.
Reconcile ==
  /\ run # Nothing /\ Validates(run)
  /\ \/ Seals(run) /\ UNCHANGED claim
     \/ /\ claim.state \in {"running", "recovery_required"}
        /\ claim' = [claim EXCEPT !.state = "completed", !.seal = run]
  /\ Serve(Nothing)
  /\ UNCHANGED <<run, file>>

\* No run.json and nobody who executes: recoveryResult.
Recover ==
  /\ run = Nothing /\ claim.state = "running" /\ submit.at = "idle"
  /\ claim' = [claim EXCEPT !.state = "recovery_required"]
  /\ Silent /\ UNCHANGED <<run, file>>

\* getRequest; what only answers a state, or an error, changes nothing.
RequestGet ==
  /\ claim # NoClaim
  /\ Reconcile \/ Recover
  /\ UNCHANGED <<server, world, past>>

\* getSealedResultSeries
SeriesGet(max) ==
  /\ claim # NoClaim /\ run # Nothing
  /\ claim.state = "completed" /\ Validates(run) /\ Seals(run)
  /\ run.status = "succeeded"
  /\ Summary(file["result"], max) # Nothing
  /\ Serve([max |-> max, of |-> Summary(file["result"], max)])
  /\ UNCHANGED <<server, disk, world, past>>

-----------------------------------------------------------------------------
(* submit.                                                                 *)

\* The selection and every parameter are checked against the release before the
\* claim is made; a second submit meets the claim of the first.
Submit(request) ==
  /\ submit.at = "idle"
  /\ Selected(request.selection)
  /\ Resolves(KitOf(request.selection).parameters, request.parameters)
  /\ \/ /\ claim = NoClaim
        /\ claim' = [request |-> request, state |-> "claimed", seal |-> Nothing]
        /\ submit' = [at |-> "probe"] /\ Silent /\ UNCHANGED <<run, file>>
     \/ /\ claim # NoClaim /\ claim.request = request
        /\ \/ Reconcile /\ UNCHANGED submit
           \/ Recover /\ UNCHANGED submit
           \/ claim.state = "claimed" /\ submit' = [at |-> "probe"] /\ Silent /\ UNCHANGED <<disk>>
  /\ UNCHANGED <<issued, known, world, past>>

\* The rejected claim is durable: every later submit and read answers the same.
Reject ==
  /\ claim' = [claim EXCEPT !.state = "rejected"]
  /\ answer' = [outcome |-> "rejected", offer |-> claim.request \in offered]
  /\ submit' = Idle

\* An exception leaves the claim as it is.
Refuse ==
  /\ answer' = [outcome |-> "threw", offer |-> claim.request \in offered]
  /\ submit' = Idle /\ UNCHANGED claim

\* The engine is probed and the manifest built again, under the lock; then the
\* claim is promoted and the run gets its directory.
Probe ==
  LET sel == claim.request.selection
      m   == Built(sel)
  IN  /\ submit.at = "probe"
      /\ CASE m = Nothing                    -> Refuse
           [] m # Nothing /\ m # claim.request.manifest -> Reject
           [] m = claim.request.manifest /\ ~ Compatible(KitOf(sel), engine) -> Refuse
           [] OTHER ->
                /\ claim' = [claim EXCEPT !.state = "running"]
                /\ submit' = [at |-> "inputs", manifest |-> m]
                /\ Silent
      /\ UNCHANGED <<issued, known, run, file, world, past>>

\* writeRunArtifact of each of these.
Write(contents) ==
  file' = [k \in Kinds |-> IF \E i \in DOMAIN contents : contents[i].kind = k
                             THEN Digest(contents, k) ELSE file[k]]

Artifact(kind, content) == [kind |-> kind, sha256 |-> content]

\* The sources are opened once more and compared with the manifest: the model and
\* the scenario after the request is written, the schema after four files.
WriteInputs ==
  LET m == submit.manifest
      contents ==
        <<Artifact("request", claim.request),
          Artifact("resolved_parameters", claim.request.parameters),
          Artifact("model", m.model.source), Artifact("scenario", m.scenario.source)>>
        \o (IF m.schema = Nothing THEN <<>> ELSE <<Artifact("parameter_schema", m.schema)>>)
        \o <<Artifact("script", Lowering(m, claim.request.parameters))>>
  IN  /\ submit.at = "inputs"
      /\ IF intact
           THEN /\ Write(contents)
                /\ submit' = [at |-> "execute", manifest |-> m, artifacts |-> contents]
                /\ Silent /\ UNCHANGED <<claim>>
           ELSE Refuse /\ \E n \in {1} \cup (IF m.schema = Nothing THEN {} ELSE {4}) :
                            Write(SubSeq(contents, 1, n))
      /\ UNCHANGED <<issued, known, run, world, past>>

\* workspace.execute and the log: a verdict, and the CSV if one was read.
Execute ==
  /\ submit.at = "execute"
  /\ \E status \in {"succeeded", "failed", "timed_out"}, csv \in Tables \cup {Nothing} :
       /\ status # "succeeded" => csv = Nothing
       /\ submit' = [at |-> "interpret", manifest |-> submit.manifest, status |-> status, csv |-> csv,
                     artifacts |-> Append(submit.artifacts, Artifact("diagnostics", status))]
       /\ file' = [file EXCEPT !["diagnostics"] = status]
  /\ Silent /\ UNCHANGED <<issued, known, claim, run, world, past>>

\* The kit's normalizer decides whether the CSV becomes evidence. The write of
\* result.csv may fail after the metrics are taken: the catch that is meant for a
\* CSV that cannot be interpreted makes that a failed run as well, which keeps
\* them. What may be left of the file then is in no ledger and is never read.
Interpret ==
  LET s  == submit
      kit == KitOf(claim.request.selection)
      out == Normalize(kit.normalizer, s.csv, s.manifest.scenario)
      ok  == /\ s.status = "succeeded" /\ s.csv # Nothing /\ out # Nothing
             /\ ValidMetrics(kit.metrics, out.metrics, TRUE)
      Complaint == IF s.status = "succeeded" THEN <<"not interpreted">> ELSE <<>>
  IN  /\ s.at = "interpret"
      /\ \E saved \in IF ok THEN BOOLEAN ELSE {FALSE} :
           /\ submit' = [at |-> "seal", manifest |-> s.manifest, csv |-> s.csv,
                         status |-> IF s.status = "succeeded" /\ ~ saved THEN "failed" ELSE s.status,
                         metrics |-> IF ok THEN out.metrics ELSE <<>>,
                         warnings |-> IF saved THEN out.warnings
                                      ELSE IF ok THEN out.warnings \o Complaint ELSE Complaint,
                         artifacts |-> IF saved THEN Append(s.artifacts, Artifact("result", s.csv))
                                       ELSE s.artifacts,
                         unsaved |-> ok /\ ~ saved]
           /\ file' = IF saved THEN [file EXCEPT !["result"] = s.csv] ELSE file
      /\ Silent /\ UNCHANGED <<issued, known, claim, run, world, past>>

\* evidence.json, then run.json by rename.
WriteLedger ==
  LET s == submit
      body == [status |-> s.status, manifest |-> s.manifest, metrics |-> s.metrics,
               warnings |-> s.warnings]
      evidence == [body |-> body, request |-> claim.request, engine |-> s.manifest.engine,
                   script |-> Digest(s.artifacts, "script"), status |-> s.status, csv |-> s.csv]
  IN  /\ s.at = "seal"
      /\ file' = [file EXCEPT !["evidence"] = evidence]
      /\ \E completed \in 0 .. 1 :
           /\ run' = [manifest |-> s.manifest, status |-> s.status, started |-> 1,
                      completed |-> completed, resolved |-> claim.request.parameters,
                      metrics |-> s.metrics, warnings |-> s.warnings,
                      artifacts |-> Append(s.artifacts, Artifact("evidence", evidence))]
           /\ setBack' = (completed < 1)
      /\ truth' = [run |-> run', files |-> [k \in Kinds |->
                      IF \E i \in DOMAIN run'.artifacts : run'.artifacts[i].kind = k
                        THEN Digest(run'.artifacts, k) ELSE Nothing],
                   unsaved |-> s.unsaved]
      /\ submit' = [at |-> "return", run |-> run']
      /\ Silent /\ UNCHANGED <<issued, known, claim, world, fresh, offered, damages>>

\* The claim seals what is read back of run.json; the answer needs it to be
\* what was written, and valid.
Return ==
  /\ submit.at = "return" /\ submit' = Idle
  /\ claim' = IF claim.state = "running" THEN [claim EXCEPT !.state = "completed", !.seal = run]
              ELSE claim
  /\ IF run = submit.run /\ Validates(run) THEN Serve(Nothing) ELSE Silent
  /\ UNCHANGED <<issued, known, run, file, world, past>>

-----------------------------------------------------------------------------
(* The world.                                                              *)

\* What was offered holds for the world it was offered in.
Changed == changes < MaxChanges /\ changes' = changes + 1 /\ fresh' = {} /\ offered' = {}

\* The process stops, at any step, and the next release starts; what it held in
\* memory is gone.
Restart ==
  /\ Changed /\ release' \in Releases /\ intact' = TRUE
  /\ issued' = <<>> /\ submit' = Idle
  /\ Silent /\ UNCHANGED <<known, disk, engine, truth, setBack, damages>>

EngineDrifts ==
  /\ Changed /\ engine' \in Engines \ {engine}
  /\ Silent /\ UNCHANGED <<server, disk, release, intact, truth, setBack, damages>>

SourcesChange ==
  /\ Changed /\ intact /\ intact' = FALSE
  /\ Silent /\ UNCHANGED <<server, disk, release, engine, truth, setBack, damages>>

\* One file of a written run is overwritten, run.json in one of its fields.
Damage ==
  /\ run # Nothing /\ damages < MaxDamage /\ damages' = damages + 1
  /\ \/ \E k \in Kinds : file' = [file EXCEPT ![k] = Damaged] /\ UNCHANGED run
     \/ /\ UNCHANGED file
        /\ \/ \E s \in {"succeeded", "failed", "timed_out"} : run' = [run EXCEPT !.status = s]
           \/ \E m \in known : run' = [run EXCEPT !.manifest = m]
           \/ \E p \in Supplied : run' = [run EXCEPT !.resolved = p]
           \/ \E d \in DOMAIN run.metrics : run' = [run EXCEPT !.metrics[d] = @ + 1]
           \/ run' = [run EXCEPT !.warnings = <<"other">> \o @]
           \/ \E i \in DOMAIN run.artifacts :
                run' = [run EXCEPT !.artifacts[i].sha256 = Damaged]
  /\ Silent /\ UNCHANGED <<server, claim, world, fresh, offered, truth, setBack>>

\* Bound: once the request is claimed clients ask for no further manifest or
\* template; neither reads or writes anything of a claimed request.
Prepare ==
  /\ claim = NoClaim
  /\ \E sel \in Selections : ManifestGet(sel) \/ \E m \in known : TemplateGet(sel, m)

Next ==
  \/ Prepare
  \/ \E sel \in Selections, m \in known, p \in Supplied : Submit(Request(sel, m, p))
  \/ Probe \/ WriteInputs \/ Execute \/ Interpret \/ WriteLedger \/ Return
  \/ RequestGet \/ \E max \in Bounds : SeriesGet(max)
  \/ Restart \/ EngineDrifts \/ SourcesChange \/ Damage

Spec == Init /\ [][Next]_vars

-----------------------------------------------------------------------------
(* Properties                                                              *)

\* A template that the server handed out is executed when it is submitted: as
\* long as release, engine and kit files are what they were when its manifest
\* was issued, it is neither rejected nor refused (getRequestTemplate, submit).
IssuedIsAccepted == answer.outcome \in {"rejected", "threw"} => ~ answer.offer

\* Every run.json that submit writes, whatever OpenModelica did, passes the
\* validation of every later reader, in every later release that still has its
\* normalizer; the exceptions are damage, a clock that was set back, and a CSV
\* that was interpreted and then could not be written: that run keeps its
\* metrics, and the rule for failed runs refuses it for ever
\* (the writer in submit against validateCompletedRun).
WrittenValidates ==
  /\ run # Nothing /\ damages = 0 /\ ~ setBack /\ ~ truth.unsaved
  /\ Resolvable(release, run.manifest.normalizer)
  => Validates(run)

\* What is served is what was executed: after one overwritten file or field no
\* answer has a status, metrics, warnings or an artifact other than those written
\* (validateCompletedRun, validateRunArtifacts, assertEvidenceDocument).
OnlyTheSealedIsServed ==
  answer.outcome \in {"served", "series"} =>
    /\ answer.run = truth.run
    /\ \A k \in Kinds : truth.files[k] # Nothing => answer.files[k] = truth.files[k]

\* The series agrees with the metrics of the same run, and its samples stand
\* for the table: no more than asked for, the last row and, when there are two
\* or more, the first among them, and gaps that differ by one row at most
\* (summarizeSealedNumericCsv, the normalizers).
SeriesIsFaithful ==
  answer.outcome = "series" =>
    LET s    == answer.series.of
        n    == Len(s.samples)
        Gap(i) == s.samples[i + 1].row - s.samples[i].row
        Extremes(name) == {s.columns[name].minimum, s.columns[name].maximum}
        metrics == answer.run.metrics
    IN  /\ n = Min({s.rows, answer.series.max})
        /\ Last(s.samples).row = s.rows - 1
        /\ n > 1 => s.samples[1].row = 0
        /\ \A i, j \in 1 .. n - 1 : Gap(i) > 0 /\ Gap(i) - Gap(j) \in {-1, 0, 1}
        /\ \A name \in DOMAIN s.columns :
             /\ Last(s.samples).values[name] = s.columns[name].final
             /\ \A i \in 1 .. n :
                  s.samples[i].values[name] \in s.columns[name].minimum .. s.columns[name].maximum
        /\ "temperature_final" \in DOMAIN metrics =>
             metrics.temperature_final = s.columns["temperatureC"].final
        /\ "water_temperature_max" \in DOMAIN metrics =>
             /\ metrics.water_temperature_max = s.columns["waterTemperatureC"].maximum
             /\ metrics.heater_power_peak \in UNION {{p, -p} : p \in Extremes("heaterPowerW")}

=============================================================================
