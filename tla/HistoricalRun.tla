---------------------------- MODULE HistoricalRun ----------------------------
(***************************************************************************)
(* The historical simulate from its input to run.json, and the readers of  *)
(* the store: run_list, run_get and the artifact resources.  A call runs   *)
(* OpenModelica (OmcRunner), writes its artifacts one after the other and  *)
(* publishes the ledger last; a reader that meets it on the way checks     *)
(* what it finds with the strict reader of RunRecord.  The provider dies,  *)
(* loses power, is restarted with other kits; its clock may be set back.   *)
(***************************************************************************)
EXTENDS OmcRunner, RunRecord

CONSTANTS
  Old,            \* a run that an older release left behind
  OldRun,         \* [ledger, evidence] of it, or Nothing, for each start
  Releases,       \* SUBSET Kit each: the kits of a release
  Installed,      \* the release that runs first
  Reader,         \* calls that read the store
  Torn,           \* what a power loss leaves of a file
  MaxClock,       \* bound: the wall clock reads 0 .. MaxClock
  MaxRestarts,    \* bound: deaths and power losses
  MaxFailures     \* bound: writes that throw

Run == Call \cup {Old}

\* The files a power loss may tear; the others fare as these do.
Tearable == {"result", "evidence"}

VARIABLES
  at,         \* [Call -> Label], where simulate is
  plan,       \* [Call -> what simulate resolved, or Nothing]
  ledger,     \* [Run -> run.json: a run, Torn or Nothing]
  directory,  \* SUBSET Run, the runs with a directory
  file,       \* [Run -> [Kind -> content, Torn or Nothing]], the artifacts
  kits,       \* the kits of the running release
  disturbed,  \* SUBSET Run, history: the clock was set back while it ran
  readers,    \* [Reader -> what the reader does]
  damaged,    \* BOOLEAN, history: power was lost
  restarts, failures

store == <<ledger, directory, file>>
world == <<kits, disturbed, damaged, restarts, failures>>
vars  == <<at, plan, store, readers, world, runnerVars>>

Label ==
  {"idle", "resolved", "sources", "execute", "diagnosed", "normalized", "attested",
   "answered", "refused", "threw", "died"}
Ended == {"answered", "refused", "threw", "died"}
Kind  == Kinds(Order)
Clock == 0 .. MaxClock

-----------------------------------------------------------------------------
(* What is written: artifacts, what simulate resolved and collected, and   *)
(* the ledger.  What a power loss leaves is none of it.                    *)

Sources == {Source(k, kit) : k \in Kind, kit \in Kit}
Schemas == {Nothing} \cup {SchemaOf(kit) : kit \in Kit}
Scripts == {<<"script", kit, v>> : kit \in Kit, v \in Reviewed}
Outputs == {<<t, c>> : t \in {"log", "csv"}, c \in Call}

Fingerprints == Engine \X Kit \X Schemas \X Reviewed

Attestations ==
  [input : Fingerprints, engine : Engine, script : Scripts, status : Status,
   raw_csv : [status : {"captured", "rejected", "absent"}, sha256 : Outputs \cup {Nothing}],
   compiler_output :
     {"captured", "spawn_failed", "timed_out_without_output", "runner_seam"}]

Evidence == [status : Status, attestation : Attestations]
Contents == Sources \cup Scripts \cup Outputs

Qualifications == {Qualification(k) : k \in Kind}

ArtifactRecord ==
  [kind : {"evidence"}, sha256 : Evidence, qualification : Qualifications] \cup
  [kind : Kind \ {"evidence"}, sha256 : Contents, qualification : Qualifications]

Plans ==
  [kit : Kit, resolved : Reviewed, engine : {Qualified}, started : Clock \cup {Nothing},
   status : Status \cup {Nothing}, metrics : SUBSET Metric, artifacts : Seq(ArtifactRecord)]

Ledgers ==
  [generation : {"2.0"}, status : Status, started : Clock, completed : Clock, kit : Kit,
   engine : {Qualified}, resolved : Reviewed, schema : Schemas, metrics : SUBSET Metric,
   artifacts : Seq(ArtifactRecord), fingerprint : Fingerprints]

ASSUME HistoricalConstants ==
  /\ Old \notin Call /\ MaxClock \in Nat
  /\ Releases \subseteq SUBSET Kit /\ Installed \in Releases
  /\ Nothing \notin Contents \cup Plans
  /\ Torn \notin Contents \cup Evidence \cup Ledgers \cup {Nothing}

\* What an older release left behind is what its own readers accepted.
ASSUME OldRunIsWhole ==
  \A old \in OldRun : old.ledger # Nothing =>
    LET run == old.ledger
    IN  /\ run # Torn /\ KitIdentity(run, {run.kit})
        /\ Len(run.artifacts) \in Nat /\ DOMAIN run.artifacts = 1 .. Len(run.artifacts)
        /\ IF run.generation = "2.0"
              THEN ValidRecorded(run) /\ EvidenceAgrees(run, old.evidence)
              ELSE ValidLegacy(run)
        /\ \A kind \in Tearable : Digest(run.artifacts, kind) # Torn

-----------------------------------------------------------------------------
Step(c, label) == at' = [at EXCEPT ![c] = label]

\* The call is over; what it held in memory is gone.
End(c, label) == Step(c, label) /\ plan' = [plan EXCEPT ![c] = Nothing]

\* The text of the solver's CSV and the generated script of a call.
CsvText(c) == <<"csv", c>>
Script(c)  == <<"script", plan[c].kit, plan[c].resolved>>

Idle == [op |-> "none", todo |-> {}, began |-> {}, answer |-> {}, accepted |-> {},
         outcome |-> "none"]

NoFiles == [k \in Kind |-> Nothing]

Init ==
  /\ RunnerInit
  /\ at = [c \in Call |-> "idle"]
  /\ plan = [c \in Call |-> Nothing]
  /\ \E old \in OldRun :
       /\ ledger = [u \in Run |-> IF u = Old THEN old.ledger ELSE Nothing]
       /\ directory = IF old.ledger = Nothing THEN {} ELSE {Old}
       /\ file = [u \in Run |-> IF u = Old THEN [NoFiles EXCEPT !["evidence"] = old.evidence]
                                           ELSE NoFiles]
  /\ kits = Installed
  /\ disturbed = {} /\ damaged = FALSE
  /\ readers = [r \in Reader |-> Idle]
  /\ restarts = 0 /\ failures = 0

-----------------------------------------------------------------------------
(* simulate.                                                               *)

\* parseSimulateInput, the kit, resolveParameters, the engine probe: nothing is
\* on disk when one of them refuses.
Resolve(c) ==
  /\ at[c] = "idle"
  /\ \/ Step(c, "refused") /\ UNCHANGED plan
     \/ \E kit \in kits, v \in Reviewed :
          /\ plan' = [plan EXCEPT ![c] =
                       [kit |-> kit, resolved |-> v, engine |-> Qualified,
                        started |-> Nothing, status |-> Nothing,
                        metrics |-> {}, artifacts |-> <<>>]]
          /\ Step(c, "resolved")
  /\ UNCHANGED <<store, readers, world, runnerVars>>

\* reserve and promote: the run directory, and started_at after it.
Promote(c) ==
  /\ at[c] = "resolved"
  /\ \/ End(c, "refused") /\ UNCHANGED directory
     \/ /\ directory' = directory \cup {c}
        /\ \E now \in Clock : plan' = [plan EXCEPT ![c].started = now]
        /\ Step(c, "sources")
  /\ UNCHANGED <<ledger, file, readers, world, runnerVars>>

\* writeArtifact of several kinds, in order.
Write(c, new) ==
  /\ file' = [file EXCEPT ![c] = [k \in Kind |->
               IF Has(new, k) THEN Digest(new, k) ELSE @[k]]]
  /\ UNCHANGED <<ledger, directory>>

\* The artifacts of the kit; the parameter schema is the last, and optional.
WriteSources(c) ==
  LET kit == plan[c].kit
      kinds == SubSeq(Order, 1, IF kit \in WithSchema THEN 5 ELSE 4)
      new == [i \in DOMAIN kinds |-> Artifact(kinds[i], Source(kinds[i], kit))]
               \o <<Artifact("script", Script(c))>>
  IN  /\ at[c] = "sources"
      /\ Write(c, new)
      /\ plan' = [plan EXCEPT ![c].artifacts = new]
      /\ Step(c, "execute")
      /\ UNCHANGED <<readers, world, runnerVars>>

\* runner.execute; what it throws is made a failed output.
Solving(c, A) == at[c] = "execute" /\ A /\ UNCHANGED <<at, plan, store, readers, world>>

WriteDiagnostics(c) ==
  LET new == <<Artifact("diagnostics", <<"log", c>>)>>
  IN  /\ at[c] = "execute" /\ output[c] # NoOutput
      /\ Write(c, new)
      /\ plan' = [plan EXCEPT ![c].artifacts = @ \o new, ![c].status = output[c].status]
      /\ Step(c, "diagnosed")
      /\ UNCHANGED <<readers, world, runnerVars>>

\* A plausible slip: a CSV that cannot be interpreted leaves the status alone.
KeepStatus(c, accepted) == output[c].status

\* A success without an accepted normalisation is a failure.
FinalStatus(c, accepted) ==
  IF output[c].status = "succeeded" /\ ~ accepted THEN "failed" ELSE output[c].status

\* result.csv is written before the normalizer of the kit sees it; what it
\* returns is checked against the metrics the kit declares, and it may throw.
Normalize(c) ==
  /\ at[c] = "diagnosed"
  /\ LET solved == output[c].status = "succeeded" /\ output[c].result
         new == IF solved THEN <<Artifact("result", CsvText(c))>> ELSE <<>>
     IN  /\ Write(c, new)
         /\ \E extracted \in {Nothing} \cup (IF solved THEN SUBSET Metric ELSE {}) :
              LET accepted == extracted # Nothing /\ ValidMetrics(plan[c].kit, extracted, TRUE)
              IN  plan' = [plan EXCEPT ![c].artifacts = @ \o new,
                                       ![c].status = FinalStatus(c, accepted),
                                       ![c].metrics = IF accepted THEN extracted ELSE {}]
  /\ Step(c, "normalized")
  /\ UNCHANGED <<readers, world, runnerVars>>

\* The identity fields that the ledger and the fingerprint share.
Identity(c) ==
  [kit |-> plan[c].kit, engine |-> plan[c].engine, resolved |-> plan[c].resolved,
   schema |-> SchemaOf(plan[c].kit)]

\* A plausible slip: the attestation gives the verdict of the runner.
AttestedStatus(c) == output[c].status

StatusToAttest(c) == plan[c].status

\* evidence.json with its execution attestation; the builder may throw.
WriteEvidence(c) ==
  LET p == plan[c]
      attestation == Attestation(Fingerprint(Identity(c)), p.engine,
                       Digest(p.artifacts, "script"), StatusToAttest(c),
                       output[c].raw, CsvText(c), Digest(p.artifacts, "result"))
      new == <<Artifact("evidence", [status |-> p.status, attestation |-> attestation])>>
  IN  /\ at[c] = "normalized"
      /\ IF attestation = Nothing
           THEN End(c, "threw") /\ UNCHANGED store
           ELSE /\ Write(c, new)
                /\ plan' = [plan EXCEPT ![c].artifacts = @ \o new]
                /\ Step(c, "attested")
      /\ UNCHANGED <<readers, world, runnerVars>>

\* run.json, by rename, is the last file.  completed_at is read before it, from
\* a clock that may have been set back since started_at was.
WriteRunRecord(c) ==
  LET p == plan[c]
  IN  /\ at[c] = "attested"
      /\ \E now \in Clock :
           /\ ledger' = [ledger EXCEPT ![c] =
                [generation |-> "2.0", status |-> p.status, started |-> p.started,
                 completed |-> now, kit |-> p.kit, engine |-> p.engine,
                 resolved |-> p.resolved, schema |-> SchemaOf(p.kit), metrics |-> p.metrics,
                 artifacts |-> p.artifacts, fingerprint |-> Fingerprint(Identity(c))]]
           /\ disturbed' = IF now < p.started THEN disturbed \cup {c} ELSE disturbed
      /\ End(c, "answered")
      /\ UNCHANGED <<directory, file, readers, runnerVars, kits, damaged, restarts, failures>>

\* A write throws: the directory stays, without a ledger.
WriteThrows(c) ==
  /\ at[c] \in {"sources", "diagnosed", "normalized", "attested"}
       \/ (at[c] = "execute" /\ output[c] # NoOutput)
  /\ failures < MaxFailures /\ failures' = failures + 1
  /\ End(c, "threw")
  /\ UNCHANGED <<store, readers, runnerVars, kits, disturbed, damaged, restarts>>

-----------------------------------------------------------------------------
(* The readers.                                                            *)

Recorded == {u \in Run : ledger[u] \notin {Nothing, Torn} /\ ledger[u].generation = "2.0"}
Stored   == {u \in Run : ledger[u] # Nothing}

\* run_list reads every run directory; run_get and readRunArtifact read one run.
ReadBegins(r) ==
  /\ readers[r].op = "none"
  /\ \E op \in {"list", "get"}, todo \in SUBSET directory :
       /\ IF op = "list" THEN todo = directory ELSE \E u \in directory : todo = {u}
       /\ readers' = [readers EXCEPT ![r] =
                       [Idle EXCEPT !.op = op, !.todo = todo, !.began = Stored \cap todo]]
  /\ UNCHANGED <<at, plan, store, world, runnerVars>>

Finish(r, outcome) ==
  readers' = [readers EXCEPT ![r].outcome = outcome, ![r].todo = {}]

\* A plausible slip: a listing fails on a directory without run.json.
MissingIsFatal(op) == TRUE

MissingFails(op) == op # "list"

\* readPersistedRun: the parser of the generation, assertRunKitIdentity, and
\* the attestation of a recorded run in the evidence.json beside it.
LedgerAccepted(run) ==
  /\ run # Torn
  /\ IF run.generation = "2.0" THEN ValidRecorded(run) ELSE ValidLegacy(run)
  /\ KitIdentity(run, kits)

Readable(u) ==
  /\ LedgerAccepted(ledger[u])
  /\ ledger[u].generation = "2.0" => EvidenceAgrees(ledger[u], file[u]["evidence"])

\* What the reader has compared with its digest: the evidence of recorded runs.
Compared(u) ==
  IF ledger[u].generation = "2.0" THEN {<<u, "evidence", file[u]["evidence"]>>} ELSE {}

ReadRun(r) ==
  /\ readers[r].outcome = "none"
  /\ \E u \in readers[r].todo :
       CASE ledger[u] = Nothing ->
              IF MissingFails(readers[r].op)
                THEN Finish(r, "not_found")
                ELSE readers' = [readers EXCEPT ![r].todo = @ \ {u}]
         [] ledger[u] # Nothing /\ ~ Readable(u) -> Finish(r, "invalid")
         [] OTHER -> readers' = [readers EXCEPT ![r].todo = @ \ {u},
                                                ![r].answer = @ \cup {u},
                                                ![r].accepted = @ \cup Compared(u)]
  /\ UNCHANGED <<at, plan, store, world, runnerVars>>

ReadEnds(r) ==
  /\ readers[r].op # "none" /\ readers[r].outcome = "none" /\ readers[r].todo = {}
  /\ Finish(r, "answered")
  /\ UNCHANGED <<at, plan, store, world, runnerVars>>

\* readRunArtifact goes on to an artifact of the ledger it has read.
ReadArtifact(r) ==
  /\ readers[r].op = "get" /\ readers[r].outcome = "none" /\ readers[r].todo = {}
  /\ \E u \in readers[r].answer : \E kind \in Tearable :
       /\ Has(ledger[u].artifacts, kind)
       /\ IF file[u][kind] = Digest(ledger[u].artifacts, kind)
            THEN readers' = [readers EXCEPT
                   ![r].accepted = @ \cup {<<u, kind, file[u][kind]>>},
                   ![r].outcome = "answered"]
            ELSE Finish(r, "invalid")
  /\ UNCHANGED <<at, plan, store, world, runnerVars>>

-----------------------------------------------------------------------------
(* The world: restarts, upgrades, power.                                   *)

\* The process dies and a release, the same or another, starts in its place.
Die ==
  /\ restarts < MaxRestarts /\ restarts' = restarts + 1
  /\ at' = [c \in Call |-> IF at[c] \in {"idle"} \cup Ended THEN at[c] ELSE "died"]
  /\ readers' = [r \in Reader |-> Idle]
  /\ kits' \in Releases
  /\ plan' = [c \in Call |-> Nothing]
  /\ RunnerLost
  /\ UNCHANGED <<disturbed, failures>>

Restart == Die /\ UNCHANGED <<store, damaged>>

\* Nothing here is synced: artifacts may be torn, run.json torn or gone.
PowerLoss ==
  /\ Die
  /\ damaged' = TRUE
  /\ \E c \in Call \cap directory :
     \E torn \in SUBSET {k \in Tearable : file[c][k] # Nothing},
        left \in IF ledger[c] = Nothing THEN {"whole"} ELSE {"whole", "torn", "gone"} :
       /\ file' = [file EXCEPT ![c] = [k \in Kind |->
                    IF k \in torn /\ @[k] # Nothing THEN Torn ELSE @[k]]]
       /\ ledger' = [ledger EXCEPT ![c] =
                      IF left = "whole" \/ @ = Nothing THEN @
                      ELSE IF left = "torn" THEN Torn ELSE Nothing]
  /\ UNCHANGED directory

-----------------------------------------------------------------------------
Advance(c) ==
  \/ Promote(c) \/ WriteSources(c) \/ Solving(c, Spawn(c)) \/ Solving(c, Execute(c))
  \/ WriteDiagnostics(c) \/ Normalize(c) \/ WriteEvidence(c) \/ WriteRunRecord(c)

Read(r) == ReadBegins(r) \/ ReadRun(r) \/ ReadEnds(r) \/ ReadArtifact(r)

Next ==
  \/ \E c \in Call :
       \/ Resolve(c) \/ Advance(c) \/ WriteThrows(c)
       \/ Solving(c, TimerFires(c)) \/ Solving(c, OutputRejects(c)) \/ Solving(c, Solver(c))
  \/ \E r \in Reader : Read(r)
  \/ Restart \/ PowerLoss

Spec == Init /\ [][Next]_vars

\* The provider goes on, its timer fires; and, once signalled, the solver ends
\* with all it started.
FairSpec ==
  /\ Spec
  /\ \A c \in Call :
       /\ WF_vars(Advance(c)) /\ WF_vars(Solving(c, TimerFires(c)))
       /\ WF_vars(runner[c] = "signalled" /\ Solving(c, SolverExits(c)))
       /\ WF_vars(runner[c] = "signalled" /\ Solving(c, PipesClose(c)))

-----------------------------------------------------------------------------
(* Types, and what a call keeps while it runs: a plan from the moment it   *)
(* has resolved its input, a directory as soon as it writes.               *)
TypeOK ==
  /\ at \in [Call -> Label]
  /\ runner \in [Call -> RunnerStep]
  /\ child \in [Call -> {"none", "running", "ok", "bad"}]
  /\ pipes \in [Call -> BOOLEAN] /\ csv \in [Call -> CsvFile]
  /\ output \in [Call -> RunnerOutput \cup {NoOutput}]
  /\ directory \subseteq Run /\ kits \in Releases
  /\ damaged \in BOOLEAN /\ disturbed \subseteq Call
  /\ plan \in [Call -> Plans \cup {Nothing}]
  /\ \A c \in Call : ledger[c] \in Ledgers \cup {Nothing, Torn}
  /\ \A c \in Call :
       /\ plan[c] # Nothing <=> at[c] \notin {"idle"} \cup Ended
       /\ at[c] \notin {"idle", "resolved", "refused", "died"} => c \in directory
       /\ ledger[c] # Nothing => at[c] = "answered" /\ c \in directory

\* Writer and reader agree: a run that simulate answered is read back, whatever
\* its verdict, and its frozen projection is a ledger of the older generation;
\* so are the runs of older releases.  Not so after a power loss, without its
\* kit, or when the clock was set back under it.
AnsweredIsReadable ==
  ~ damaged =>
    \A u \in Stored \ disturbed :
      ledger[u].kit \in kits =>
        Readable(u) /\ (ledger[u].generation = "2.0" => ValidLegacy(Project(ledger[u])))

\* A listing that runs while calls write their runs is not disturbed by them:
\* it fails only on a run that a fault made unreadable, and what was stored
\* when it began is in it.
ListingIsFaithful ==
  \A r \in Reader :
    readers[r].op = "list" =>
      /\ readers[r].outcome = "answered" => readers[r].began \subseteq readers[r].answer
      /\ readers[r].outcome \notin {"none", "answered"} =>
           \/ damaged \/ disturbed # {}
           \/ \E u \in Stored : ledger[u].kit \notin kits

\* What a power loss tore is refused: no reader ever accepts a torn file as
\* evidence or as a resource.
DamageIsNeverServed ==
  \A r \in Reader : \A served \in readers[r].accepted : served[3] # Torn

\* The status of a ledger is that of the solver: a success exited in time with
\* a text CSV and every required metric; nobody gets metrics from less, and a
\* solver is gone when its run is attested as captured.
StatusTellsTheTruth ==
  \A c \in Call : at[c] = "answered" /\ output[c] # NoOutput =>
    LET run == ledger[c]
    IN  /\ run.status = "succeeded" =>
             /\ child[c] = "ok" /\ csv[c] = "text" /\ Has(run.artifacts, "result")
             /\ Required[run.kit] \subseteq run.metrics
        /\ run.status = "timed_out" => ~ Has(run.artifacts, "result")
        /\ run.metrics # {} => run.status = "succeeded"
        /\ output[c].raw.capture = "captured" => child[c] # "running" /\ ~ pipes[c]

\* A call ends: with an answer, a refusal or an exception, or with its process.
CallsEnd == \A c \in Call : at[c] \notin {"idle"} \cup Ended ~> at[c] \in Ended

=============================================================================
