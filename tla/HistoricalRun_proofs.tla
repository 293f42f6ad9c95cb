------------------------ MODULE HistoricalRun_proofs ------------------------
(***************************************************************************)
(* The historical simulate tells the truth about its solver, its readers   *)
(* serve nothing that is torn, and a listing fails only on damage. The     *)
(* inductive invariant HistoryInv follows a call from the output of the    *)
(* runner (RunnerOK) over the artifacts it lists (WritingOK) and its       *)
(* verdict (VerdictOK) to a ledger that the strict reader accepts          *)
(* (LedgerOK), and says what a reader knows of what it has read (ReaderOK). *)
(***************************************************************************)
EXTENDS HistoricalRun, SequenceTheorems, FiniteSetTheorems, WellFoundedInduction, TLAPS

-----------------------------------------------------------------------------
(* The inductive invariant.                                                *)

Gone(c) == child[c] \in {"ok", "bad"} /\ ~ pipes[c]

\* What the runner collects and returns is of a child that is gone; a success
\* exited well and left a text.
RunnerOK(c) ==
  /\ runner[c] = "collecting" => Gone(c)
  /\ output[c] # NoOutput =>
       /\ runner[c] = "done"
       /\ output[c].result = (output[c].status = "succeeded")
       /\ output[c].result =>
            child[c] = "ok" /\ csv[c] = "text" /\ output[c].raw = Captured("captured")
       /\ output[c].raw.capture = "captured" => Gone(c)

\* The content of an artifact of call c with that kit and those parameters.
ContentOf(c, kit, v, kind) ==
  CASE kind = "script"      -> <<"script", kit, v>>
    [] kind = "diagnostics" -> <<"log", c>>
    [] kind = "result"      -> CsvText(c)
    [] OTHER                -> Source(kind, kit)

\* The artifacts in the order they are written: these kinds, each once, in the
\* canonical order, with the content that belongs to the call.
Listed(a, c, kit, v, kinds) ==
  /\ a \in Seq(ArtifactRecord)
  /\ \A i \in 1 .. Len(a) :
       /\ a[i].kind \in kinds
       /\ a[i].qualification = Qualification(a[i].kind)
       /\ a[i].kind # "evidence" => a[i].sha256 = ContentOf(c, kit, v, a[i].kind)
  /\ \A kind \in kinds : \E i \in 1 .. Len(a) : a[i].kind = kind
  /\ \A i, j \in 1 .. Len(a) :
       i < j => Position(Order, a[i].kind) < Position(Order, a[j].kind)

SourceKinds(kit) ==
  {"request", "resolved_parameters", "model", "scenario"} \cup
  (IF kit \in WithSchema THEN {"parameter_schema"} ELSE {})

\* The kinds a call has written, with a result or without.
Written(label, kit, result) ==
  CASE label \in {"resolved", "sources"} -> {}
    [] label = "execute"   -> SourceKinds(kit) \cup {"script"}
    [] label = "diagnosed" -> SourceKinds(kit) \cup {"script", "diagnostics"}
    [] OTHER ->
         SourceKinds(kit) \cup {"script", "diagnostics"} \cup
         (IF result THEN {"result"} ELSE {}) \cup
         (IF label = "normalized" THEN {} ELSE {"evidence"})

\* The attested evidence of a plan or ledger, with a result or without.
AttestedOK(p, evidence, fingerprint, c, result) ==
  /\ evidence \in Evidence
  /\ LET attestation == evidence.attestation
     IN  /\ attestation.input = fingerprint
         /\ attestation.engine = p.engine
         /\ attestation.script = <<"script", p.kit, p.resolved>>
         /\ attestation.status = p.status
         /\ result => attestation.raw_csv = RawCsv("captured", CsvText(c))

\* What simulate has in its hands while it runs.
WritingOK(c) ==
  at[c] \notin {"idle"} \cup Ended =>
    LET p == plan[c]
    IN  /\ p \in Plans
        /\ at[c] # "resolved" => p.started \in Clock
        /\ Listed(p.artifacts, c, p.kit, p.resolved, Written(at[c], p.kit, output[c].result))
        /\ at[c] \in {"diagnosed", "normalized", "attested"} => output[c] # NoOutput
        /\ at[c] = "diagnosed" => p.status = output[c].status
        /\ at[c] = "attested" =>
             /\ file[c]["evidence"] = Digest(p.artifacts, "evidence")
             /\ AttestedOK(p, Digest(p.artifacts, "evidence"), Fingerprint(Identity(c)), c,
                           output[c].result)

\* No verdict is better than what the runner returned, and metrics belong to a
\* success with a result.
VerdictOf(p, solved, output_status) ==
  /\ p.status \in Status
  /\ p.status = "succeeded" => solved /\ Required[p.kit] \subseteq p.metrics
  /\ p.status # "succeeded" => p.metrics = {}
  /\ p.metrics \subseteq Produced[p.kit]
  /\ p.status = "timed_out" => output_status = "timed_out"

VerdictOK(c) ==
  /\ at[c] \in {"normalized", "attested"} =>
       VerdictOf(plan[c], output[c].result, output[c].status)
  /\ at[c] = "answered" /\ output[c] # NoOutput =>
       /\ VerdictOf(ledger[c], output[c].result, output[c].status)
       /\ Has(ledger[c].artifacts, "result") = output[c].result

\* A ledger that simulate published, unless a power loss took or tore it: the
\* strict reader finds it valid, and its evidence.json as it was written.
LedgerOK(c) ==
  /\ ~ damaged => ledger[c] # Torn
  /\ ledger[c] \notin {Nothing, Torn} =>
       LET run    == ledger[c]
           result == Has(run.artifacts, "result")
       IN  /\ run \in Ledgers
           /\ run.schema = SchemaOf(run.kit) /\ run.fingerprint = Fingerprint(run)
           /\ run.metrics \subseteq Produced[run.kit]
           /\ run.status = "succeeded" => result /\ Required[run.kit] \subseteq run.metrics
           /\ run.started <= run.completed \/ c \in disturbed
           /\ Listed(run.artifacts, c, run.kit, run.resolved,
                     Written("attested", run.kit, result))
           /\ AttestedOK(run, Digest(run.artifacts, "evidence"), run.fingerprint, c, result)
           /\ ~ damaged => file[c]["evidence"] = Digest(run.artifacts, "evidence")

\* The run of the older release is never touched.
OldOK ==
  \E old \in OldRun : ledger[Old] = old.ledger /\ file[Old]["evidence"] = old.evidence

\* A listing has passed what was stored when it began, or has still to read it,
\* and fails only on damage, a clock set back, or a kit that is not installed.
ReaderOK(r) ==
  LET d == readers[r]
  IN  /\ d.op \in {"none", "list", "get"}
      /\ d.todo \subseteq Run /\ d.answer \subseteq Run /\ d.began \subseteq Stored
      /\ \A u \in d.answer : ledger[u] \notin {Nothing, Torn}
      /\ d.outcome \in {"none", "answered"} => d.began \subseteq d.answer \cup d.todo
      /\ d.outcome = "answered" => d.todo = {}
      /\ d.op = "list" /\ d.outcome \notin {"none", "answered"} =>
           damaged \/ disturbed # {} \/ \E u \in Stored : ledger[u].kit \notin kits
      /\ \A served \in d.accepted : served[3] # Torn

\* Every run has a place in the store, and a reader is a record.
ShapeOK ==
  /\ ledger = [u \in Run |-> ledger[u]]
  /\ file = [u \in Run |-> file[u]]
  /\ readers = [r \in Reader |->
       [op |-> readers[r].op, todo |-> readers[r].todo, began |-> readers[r].began,
        answer |-> readers[r].answer, accepted |-> readers[r].accepted,
        outcome |-> readers[r].outcome]]

HistoryInv ==
  /\ TypeOK /\ ShapeOK
  /\ \A c \in Call : RunnerOK(c) /\ WritingOK(c) /\ VerdictOK(c) /\ LedgerOK(c)
  /\ OldOK
  /\ \A r \in Reader : ReaderOK(r)

-----------------------------------------------------------------------------
(* The canonical order, and lists of artifacts.                            *)

\* Every kind has its place in ARTIFACT_ORDER, and one only.
LEMMA OrderOfKinds ==
  /\ Kind = {"request", "resolved_parameters", "model", "scenario", "parameter_schema",
             "script", "diagnostics", "result", "evidence"}
  /\ DOMAIN Order = 1 .. 9
  /\ \A i \in 1 .. 9 : Order[i] \in Kind /\ Position(Order, Order[i]) = i
<1>1. DOMAIN Order = 1 .. 9
  BY DEF Order
<1>2. /\ Order[1] = "request" /\ Order[2] = "resolved_parameters" /\ Order[3] = "model"
      /\ Order[4] = "scenario" /\ Order[5] = "parameter_schema" /\ Order[6] = "script"
      /\ Order[7] = "diagnostics" /\ Order[8] = "result" /\ Order[9] = "evidence"
  BY DEF Order
<1>3. \A i \in 1 .. 9 : i \in {1, 2, 3, 4, 5, 6, 7, 8, 9}
  OBVIOUS
<1>4. \A i, j \in 1 .. 9 : Order[i] = Order[j] => i = j
  BY <1>2, <1>3
<1>5. Kind = {Order[i] : i \in 1 .. 9}
  BY <1>1 DEF Kind, Kinds, ToSet
<1>6. \A i \in 1 .. 9 : Position(Order, Order[i]) = i
  <2> TAKE i \in 1 .. 9
  <2>1. \E j \in DOMAIN Order : Order[j] = Order[i]
    BY <1>1
  <2>2. Position(Order, Order[i]) \in 1 .. 9 /\ Order[Position(Order, Order[i])] = Order[i]
    BY <1>1, <2>1 DEF Position
  <2> QED BY <1>4, <2>2
<1>7. Kind = {"request", "resolved_parameters", "model", "scenario", "parameter_schema",
              "script", "diagnostics", "result", "evidence"}
  BY <1>2, <1>3, <1>5
<1> QED BY <1>1, <1>5, <1>6, <1>7

\* ARTIFACT_ORDER, spelled out.
LEMMA Positions ==
  /\ Position(Order, "request") = 1 /\ Position(Order, "resolved_parameters") = 2
  /\ Position(Order, "model") = 3 /\ Position(Order, "scenario") = 4
  /\ Position(Order, "parameter_schema") = 5 /\ Position(Order, "script") = 6
  /\ Position(Order, "diagnostics") = 7 /\ Position(Order, "result") = 8
  /\ Position(Order, "evidence") = 9
<1>1. /\ Order[1] = "request" /\ Order[2] = "resolved_parameters" /\ Order[3] = "model"
      /\ Order[4] = "scenario" /\ Order[5] = "parameter_schema" /\ Order[6] = "script"
      /\ Order[7] = "diagnostics" /\ Order[8] = "result" /\ Order[9] = "evidence"
  BY DEF Order
<1>2. \A i \in {1, 2, 3, 4, 5, 6, 7, 8, 9} : Position(Order, Order[i]) = i
  BY OrderOfKinds
<1> HIDE DEF Order
<1> QED BY <1>1, <1>2

\* The digest of a kind is that of one of its artifacts.
LEMMA DigestOfKind ==
  ASSUME NEW a, a \in Seq(ArtifactRecord), NEW kind, Has(a, kind)
  PROVE  \E i \in 1 .. Len(a) : a[i].kind = kind /\ Digest(a, kind) = a[i].sha256
<1> DEFINE i == CHOOSE n \in DOMAIN a : a[n].kind = kind
<1>1. DOMAIN a = 1 .. Len(a)
  OBVIOUS
<1>2. i \in 1 .. Len(a) /\ a[i].kind = kind
  BY <1>1 DEF Has
<1>3. Digest(a, kind) = a[i].sha256
  BY DEF Digest
<1> QED BY <1>2, <1>3

\* What a list of artifacts says of a kind.
LEMMA ListedKinds ==
  ASSUME NEW a, NEW c, NEW kit, NEW v, NEW kinds, Listed(a, c, kit, v, kinds), NEW kind
  PROVE  /\ Has(a, kind) <=> kind \in kinds
         /\ kind \in kinds /\ kind # "evidence" => Digest(a, kind) = ContentOf(c, kit, v, kind)
         /\ kind \notin kinds => Digest(a, kind) = Nothing
<1>1. a \in Seq(ArtifactRecord) /\ DOMAIN a = 1 .. Len(a)
  BY DEF Listed
<1>2. Has(a, kind) <=> kind \in kinds
  BY <1>1 DEF Has, Listed
<1>3. ASSUME kind \in kinds, kind # "evidence"
      PROVE  Digest(a, kind) = ContentOf(c, kit, v, kind)
  <2>1. PICK i \in 1 .. Len(a) : a[i].kind = kind /\ Digest(a, kind) = a[i].sha256
    BY <1>1, <1>2, <1>3, DigestOfKind
  <2> QED BY <1>3, <2>1 DEF Listed
<1>4. kind \notin kinds => Digest(a, kind) = Nothing
  BY <1>2 DEF Digest
<1> QED BY <1>2, <1>3, <1>4

\* A single artifact.
LEMMA SingleArtifact ==
  ASSUME NEW kind, NEW content
  PROVE  /\ Len(<<Artifact(kind, content)>>) = 1
         /\ <<Artifact(kind, content)>>[1] = Artifact(kind, content)
         /\ \A k : Has(<<Artifact(kind, content)>>, k) <=> k = kind
         /\ Digest(<<Artifact(kind, content)>>, kind) = content
<1> DEFINE a == <<Artifact(kind, content)>>
<1>1. Len(a) = 1 /\ DOMAIN a = {1} /\ a[1] = Artifact(kind, content)
  OBVIOUS
<1>2. a[1].kind = kind /\ a[1].sha256 = content
  BY <1>1 DEF Artifact
<1> HIDE DEF a
<1>3. \A k : Has(a, k) <=> k = kind
  BY <1>1, <1>2 DEF Has
<1>4. Digest(a, kind) = content
  BY <1>1, <1>2, <1>3 DEF Digest
<1> QED BY <1>1, <1>3, <1>4 DEF a

\* An artifact of a later kind is appended.
LEMMA ListedAppend ==
  ASSUME NEW a, NEW c, NEW kit, NEW v, NEW kinds, Listed(a, c, kit, v, kinds),
         NEW kind, NEW content, Artifact(kind, content) \in ArtifactRecord,
         kind # "evidence" => content = ContentOf(c, kit, v, kind),
         \A k \in kinds : Position(Order, k) < Position(Order, kind)
  PROVE  Listed(a \o <<Artifact(kind, content)>>, c, kit, v, kinds \cup {kind})
<1> DEFINE x == Artifact(kind, content)
           b == a \o <<x>>
<1>1. x.kind = kind /\ x.sha256 = content /\ x.qualification = Qualification(kind)
  BY DEF Artifact
<1> HIDE DEF x
<1>2. a \in Seq(ArtifactRecord) /\ <<x>> \in Seq(ArtifactRecord) /\ Len(a) \in Nat
  BY DEF Listed, x
<1>3. Len(<<x>>) = 1 /\ <<x>>[1] = x
  OBVIOUS
<1>4. /\ b \in Seq(ArtifactRecord)
      /\ Len(b) = Len(a) + 1
      /\ \A i \in 1 .. Len(a) + 1 : b[i] = IF i <= Len(a) THEN a[i] ELSE <<x>>[i - Len(a)]
  BY <1>2, <1>3, ConcatProperties
<1> HIDE DEF b
<1>5. \A i \in 1 .. Len(b) : (i \in 1 .. Len(a) /\ b[i] = a[i]) \/ (i = Len(a) + 1 /\ b[i] = x)
  BY <1>2, <1>3, <1>4
<1>6. \A i \in 1 .. Len(a) : i \in 1 .. Len(b) /\ b[i] = a[i]
  BY <1>2, <1>4
<1>7. Len(b) \in 1 .. Len(b) /\ b[Len(b)] = x
  BY <1>2, <1>4, <1>5
<1>8. \A i \in 1 .. Len(b) :
        /\ b[i].kind \in kinds \cup {kind}
        /\ b[i].qualification = Qualification(b[i].kind)
        /\ b[i].kind # "evidence" => b[i].sha256 = ContentOf(c, kit, v, b[i].kind)
  BY <1>1, <1>5 DEF Listed
<1>9. \A k \in kinds \cup {kind} : \E i \in 1 .. Len(b) : b[i].kind = k
  BY <1>1, <1>6, <1>7 DEF Listed
<1>10. \A i, j \in 1 .. Len(b) :
         i < j => Position(Order, b[i].kind) < Position(Order, b[j].kind)
  <2> SUFFICES ASSUME NEW i \in 1 .. Len(b), NEW j \in 1 .. Len(b), i < j
               PROVE  Position(Order, b[i].kind) < Position(Order, b[j].kind)
    OBVIOUS
  <2>1. i \in 1 .. Len(a) /\ b[i] = a[i]
    BY <1>2, <1>4, <1>5
  <2>2. CASE j \in 1 .. Len(a) /\ b[j] = a[j]
    BY <2>1, <2>2 DEF Listed
  <2>3. CASE b[j] = x
    BY <1>1, <2>1, <2>3 DEF Listed
  <2> QED BY <1>5, <2>2, <2>3
<1> QED BY <1>4, <1>8, <1>9, <1>10 DEF Listed, b, x

\* A run that has just been promoted lists nothing.
LEMMA NoArtifacts ==
  ASSUME NEW c, NEW kit, NEW v
  PROVE  Listed(<<>>, c, kit, v, {})
BY DEF Listed

-----------------------------------------------------------------------------
(* What the strict reader makes of a list that simulate has written.       *)

\* Every kind is written but the optional ones, and those when they are there.
LEMMA WrittenKinds ==
  ASSUME NEW kit, NEW result \in BOOLEAN
  PROVE  LET kinds == Written("attested", kit, result)
         IN  /\ kinds \subseteq Kind
             /\ Kind \ Optional \subseteq kinds
             /\ "parameter_schema" \in kinds <=> kit \in WithSchema
             /\ "result" \in kinds <=> result
<1>1. Written("attested", kit, result) =
        SourceKinds(kit) \cup {"script", "diagnostics"} \cup
        (IF result THEN {"result"} ELSE {}) \cup {"evidence"}
  BY DEF Written
<1> QED BY <1>1, OrderOfKinds DEF SourceKinds, Optional

\* The digest of the parameter schema is the schema field, present or not.
LEMMA SchemaDigest ==
  ASSUME NEW a, NEW c, NEW kit \in Kit, NEW v, NEW result \in BOOLEAN,
         Listed(a, c, kit, v, Written("attested", kit, result))
  PROVE  /\ Digest(a, "parameter_schema") = SchemaOf(kit)
         /\ Has(a, "parameter_schema") <=> SchemaOf(kit) # Nothing
<1> DEFINE kinds == Written("attested", kit, result)
<1>1. "parameter_schema" \in kinds <=> kit \in WithSchema
  BY WrittenKinds
<1>2. "parameter_schema" \in Kind
  BY OrderOfKinds
<1>3. Source("parameter_schema", kit) \in Contents
  BY <1>2 DEF Contents, Sources
<1>4. Source("parameter_schema", kit) # Nothing
  BY <1>3, HistoricalConstants
<1>5. ContentOf(c, kit, v, "parameter_schema") = Source("parameter_schema", kit)
  BY DEF ContentOf
<1> HIDE DEF kinds
<1>6. /\ Has(a, "parameter_schema") <=> "parameter_schema" \in kinds
      /\ "parameter_schema" \in kinds =>
           Digest(a, "parameter_schema") = ContentOf(c, kit, v, "parameter_schema")
      /\ "parameter_schema" \notin kinds => Digest(a, "parameter_schema") = Nothing
  BY ListedKinds DEF kinds
<1> QED BY <1>1, <1>4, <1>5, <1>6 DEF SchemaOf

\* parseSimulationRunRecord accepts it.
LEMMA ListedIsValid ==
  ASSUME NEW run \in Ledgers, NEW c, NEW result \in BOOLEAN,
         run.schema = SchemaOf(run.kit), run.fingerprint = Fingerprint(run),
         run.started <= run.completed,
         Listed(run.artifacts, c, run.kit, run.resolved, Written("attested", run.kit, result))
  PROVE  ValidRecorded(run)
<1> DEFINE a == run.artifacts
           kinds == Written("attested", run.kit, result)
<1>1. run.generation = "2.0" /\ run.status \in Status /\ run.kit \in Kit
  BY DEF Ledgers
<1>2. InOrder(run)
  BY DEF InOrder
<1>3. /\ kinds \subseteq Kind /\ Kind \ Optional \subseteq kinds
  BY WrittenKinds
<1> HIDE DEF kinds
<1>4. Listed(a, c, run.kit, run.resolved, kinds)
  BY DEF kinds
<1>5. a \in Seq(ArtifactRecord) /\ DOMAIN a = 1 .. Len(a) /\ Len(a) \in Nat
  BY <1>4 DEF Listed
<1>6. \A k : Has(a, k) <=> k \in kinds
  BY <1>4, ListedKinds
<1>7. Canonical(a, Order)
  <2>1. \A i \in DOMAIN a : a[i].kind \in Kinds(Order)
    BY <1>3, <1>4, <1>5 DEF Listed, Kind
  <2>2. \A i \in 2 .. Len(a) : Position(Order, a[i-1].kind) < Position(Order, a[i].kind)
    <3> TAKE i \in 2 .. Len(a)
    <3>1. i - 1 \in 1 .. Len(a) /\ i \in 1 .. Len(a) /\ i - 1 < i
      BY <1>5
    <3> QED BY <1>4, <3>1 DEF Listed
  <2>3. \A kind \in Kinds(Order) \ Optional : Has(a, kind)
    BY <1>3, <1>6 DEF Kind
  <2> QED BY <2>1, <2>2, <2>3 DEF Canonical
<1>8. \A i \in DOMAIN a : a[i].qualification = Qualification(a[i].kind)
  BY <1>4, <1>5 DEF Listed
<1>9. /\ Has(a, "parameter_schema") <=> run.schema # Nothing
      /\ Digest(a, "parameter_schema") = run.schema
  BY <1>1, <1>4, SchemaDigest DEF kinds
<1>10. \A kind \in {"model", "scenario"} : Digest(a, kind) = Source(kind, run.kit)
  <2> SUFFICES ASSUME NEW kind \in {"model", "scenario"}
               PROVE  Digest(a, kind) = Source(kind, run.kit)
    OBVIOUS
  <2>1. kind \in kinds /\ kind # "evidence"
    BY <1>3, OrderOfKinds DEF Optional
  <2>2. ContentOf(c, run.kit, run.resolved, kind) = Source(kind, run.kit)
    BY DEF ContentOf
  <2> QED BY <1>4, <2>1, <2>2, ListedKinds
<1> QED BY <1>1, <1>2, <1>7, <1>8, <1>9, <1>10 DEF ValidRecorded

\* assertRecordedExecutionAttestation accepts its evidence.
LEMMA EvidenceMatches ==
  ASSUME NEW run \in Ledgers, NEW c \in Call,
         run.fingerprint = Fingerprint(run),
         Listed(run.artifacts, c, run.kit, run.resolved,
                Written("attested", run.kit, Has(run.artifacts, "result"))),
         run.status = "succeeded" => Has(run.artifacts, "result"),
         AttestedOK(run, Digest(run.artifacts, "evidence"), run.fingerprint, c,
                    Has(run.artifacts, "result"))
  PROVE  EvidenceAgrees(run, Digest(run.artifacts, "evidence"))
<1> DEFINE a == run.artifacts
           result == Has(a, "result")
           kinds == Written("attested", run.kit, result)
           evidence == Digest(a, "evidence")
<1>1. result \in BOOLEAN
  BY DEF Has
<1>2. "script" \in kinds /\ "evidence" \in kinds
  BY <1>1, WrittenKinds, OrderOfKinds DEF Optional
<1>3. Listed(a, c, run.kit, run.resolved, kinds)
  OBVIOUS
<1> HIDE DEF kinds
<1>4. Has(a, "script") /\ Has(a, "evidence")
  BY <1>2, <1>3, ListedKinds
<1>5. Digest(a, "script") = <<"script", run.kit, run.resolved>>
  BY <1>2, <1>3, ListedKinds DEF ContentOf
<1>6. result => Digest(a, "result") = CsvText(c)
  <2>1. Has(a, "result") <=> "result" \in kinds
    BY <1>3, ListedKinds
  <2> QED BY <1>3, <2>1, ListedKinds DEF ContentOf
<1>7. ~ result => Digest(a, "result") = Nothing
  BY DEF Digest
<1>8. CsvText(c) # Nothing
  <2>1. CsvText(c) \in Contents
    BY DEF CsvText, Contents, Outputs
  <2> QED BY <2>1, HistoricalConstants
<1>9. Matches(evidence.attestation, run)
  <2>1. /\ evidence.attestation.input = run.fingerprint
        /\ evidence.attestation.engine = run.engine
        /\ evidence.attestation.script = Digest(a, "script")
        /\ evidence.attestation.status = run.status
        /\ result => evidence.attestation.raw_csv = RawCsv("captured", CsvText(c))
    BY <1>5 DEF AttestedOK
  <2> HIDE DEF result, evidence
  <2>2. Digest(a, "result") # Nothing =>
          evidence.attestation.raw_csv = RawCsv("captured", Digest(a, "result"))
    BY <1>6, <1>7, <2>1
  <2>3. Digest(a, "result") = Nothing => evidence.attestation.status # "succeeded"
    BY <1>6, <1>8, <2>1 DEF result
  <2> QED BY <2>1, <2>2, <2>3 DEF Matches
<1> QED BY <1>4, <1>9 DEF EvidenceAgrees

\* What is stored is readable, unless a power loss, a clock or the kits forbid.
LEMMA StoredIsReadable ==
  ASSUME HistoryInv, ~ damaged, NEW u \in Stored \ disturbed, ledger[u].kit \in kits
  PROVE  Readable(u)
<1>1. CASE u = Old
  <2>1. PICK old \in OldRun : ledger[Old] = old.ledger /\ file[Old]["evidence"] = old.evidence
    BY DEF HistoryInv, OldOK
  <2>2. old.ledger # Nothing
    BY <1>1, <2>1 DEF Stored
  <2> PICK run : run = ledger[u]
    OBVIOUS
  <2>3. /\ run # Torn /\ KitIdentity(run, {run.kit})
        /\ IF run.generation = "2.0"
              THEN ValidRecorded(run) /\ EvidenceAgrees(run, old.evidence)
              ELSE ValidLegacy(run)
    BY <1>1, <2>1, <2>2, OldRunIsWhole
  <2>4. KitIdentity(run, kits)
    BY <2>3 DEF KitIdentity
  <2> QED BY <1>1, <2>1, <2>3, <2>4 DEF Readable, LedgerAccepted
<1>2. CASE u \in Call
  <2> PICK run : run = ledger[u]
    OBVIOUS
  <2>1. LedgerOK(u) /\ run \notin {Nothing, Torn}
    BY <1>2 DEF HistoryInv, LedgerOK, Stored
  <2>2. /\ run \in Ledgers
        /\ run.schema = SchemaOf(run.kit) /\ run.fingerprint = Fingerprint(run)
        /\ run.metrics \subseteq Produced[run.kit]
        /\ run.status = "succeeded" =>
             Has(run.artifacts, "result") /\ Required[run.kit] \subseteq run.metrics
        /\ run.started <= run.completed
        /\ Listed(run.artifacts, u, run.kit, run.resolved,
                  Written("attested", run.kit, Has(run.artifacts, "result")))
        /\ AttestedOK(run, Digest(run.artifacts, "evidence"), run.fingerprint, u,
                      Has(run.artifacts, "result"))
        /\ file[u]["evidence"] = Digest(run.artifacts, "evidence")
    BY <2>1 DEF LedgerOK
  <2>3. Has(run.artifacts, "result") \in BOOLEAN
    BY DEF Has
  <2>4. ValidRecorded(run)
    BY <2>2, <2>3, ListedIsValid
  <2>5. EvidenceAgrees(run, file[u]["evidence"])
    BY <1>2, <2>2, EvidenceMatches
  <2>6. KitIdentity(run, kits)
    <3>1. run.resolved \in Reviewed
      BY <2>2 DEF Ledgers
    <3> QED BY <2>2, <3>1 DEF KitIdentity, ValidMetrics
  <2>7. run.generation = "2.0"
    BY <2>2 DEF Ledgers
  <2> QED BY <2>1, <2>4, <2>5, <2>6, <2>7 DEF Readable, LedgerAccepted
<1> QED BY <1>1, <1>2 DEF Stored, Run

-----------------------------------------------------------------------------
(* Numbers: the smallest of some, and all of them in ascending order.      *)

\* A set of numbers has a smallest one: what is so for the first of a list, and
\* goes on from each to the next, is so for all.
LEMMA LeastNat ==
  ASSUME NEW T \in SUBSET Nat, T # {}
  PROVE \E m \in T : \A k \in T : m <= k
<1>1. IsWellFoundedOn(OpToRel(<, Nat), Nat)
  BY NatLessThanWellFounded
<1> DEFINE R == OpToRel(<, Nat)
<1>2. \A x, y \in Nat : x < y => <<x, y>> \in R
  BY DEF OpToRel
<1> HIDE DEF R
<1>3. IsWellFoundedOn(R, Nat)
  BY <1>1 DEF R
<1>4. PICK m \in T : \A y \in T : ~ (<<y, m>> \in R)
  BY <1>3, WFMin
<1>5. ASSUME NEW y \in T, y < m PROVE FALSE
  <2>1. y \in Nat /\ m \in Nat
    OBVIOUS
  <2> QED BY <1>2, <1>4, <1>5, <2>1
<1>6. \A y \in T : y \in Nat /\ m \in Nat
  OBVIOUS
<1>7. \A y \in T : m <= y
  BY <1>5, <1>6
<1> QED BY <1>7

\* The elements of a finite set of numbers, each once and in ascending order.
LEMMA AscendingIs ==
  ASSUME NEW S \in SUBSET Nat, IsFiniteSet(S)
  PROVE  LET n == Cardinality(S)
             s == Ascending(S)
         IN  /\ n \in Nat /\ DOMAIN s = 1 .. n
             /\ \A j \in 1 .. n : s[j] \in S
             /\ \A i, j \in 1 .. n : i < j => s[i] < s[j]
             /\ \A x \in S : \E j \in 1 .. n : s[j] = x
<1> DEFINE n == Cardinality(S)
           UpTo(x) == {k \in S : k <= x}
           Rank(x) == Cardinality(UpTo(x))
           s == Ascending(S)
<1>0. \A x \in S : x \in Nat
  OBVIOUS
<1>1. n \in Nat
  BY FS_CardinalityType
<1>2. \A x \in S : IsFiniteSet(UpTo(x)) /\ Rank(x) \in 1 .. n
  <2> TAKE x \in S
  <2>1. UpTo(x) \in SUBSET S /\ x \in UpTo(x)
    BY <1>0
  <2>2. IsFiniteSet(UpTo(x)) /\ Rank(x) <= n
    BY <2>1, FS_Subset
  <2>3. Rank(x) \in Nat /\ Rank(x) # 0
    BY <2>1, <2>2, FS_CardinalityType, FS_EmptySet
  <2> QED BY <1>1, <2>2, <2>3
<1>3. \A x, y \in S : x < y => Rank(x) < Rank(y)
  <2> SUFFICES ASSUME NEW x \in S, NEW y \in S, x < y PROVE Rank(x) < Rank(y)
    OBVIOUS
  <2>1. x \in Nat /\ y \in Nat /\ y <= y
    BY <1>0
  <2>2. y \in UpTo(y) /\ \A k \in UpTo(x) : k \in S /\ k <= y /\ k # y
    BY <1>0, <2>1
  <2>3. UpTo(x) \in SUBSET (UpTo(y) \ {y})
    BY <2>2
  <2>4. IsFiniteSet(UpTo(y) \ {y}) /\ Cardinality(UpTo(y) \ {y}) = Rank(y) - 1
    BY <1>2, <2>2, FS_RemoveElement
  <2>5. Rank(x) <= Rank(y) - 1
    BY <2>3, <2>4, FS_Subset
  <2>6. Rank(x) \in Nat /\ Rank(y) \in Nat
    BY <1>1, <1>2
  <2> QED BY <2>5, <2>6
<1> DEFINE f == [x \in S |-> Rank(x)]
<1> HIDE DEF Rank
<1>4. \A x, y \in S : Rank(x) = Rank(y) => x = y
  <2> SUFFICES ASSUME NEW x \in S, NEW y \in S, Rank(x) = Rank(y) PROVE x = y
    OBVIOUS
  <2>1. Rank(x) \in 1 .. n
    BY <1>2
  <2>2. ~ (Rank(x) < Rank(y)) /\ ~ (Rank(y) < Rank(x))
    BY <2>1
  <2>3. ~ (x < y) /\ ~ (y < x)
    BY <1>3, <2>2
  <2>4. x \in Nat /\ y \in Nat
    BY <1>0
  <2> QED BY <2>3, <2>4
<1>5. f \in Injection(S, 1 .. n)
  BY <1>2, <1>4 DEF Injection, IsInjective
<1>6. IsFiniteSet(1 .. n) /\ Cardinality(1 .. n) = n
  BY <1>1, FS_Interval
<1>7. f \in Surjection(S, 1 .. n)
  BY <1>5, <1>6, FS_Injection
<1>8. \A j \in 1 .. n : \E x \in S : Rank(x) = j
  BY <1>7 DEF Surjection
<1>9. DOMAIN s = 1 .. n /\ \A j \in 1 .. n : s[j] \in S /\ Rank(s[j]) = j
  BY <1>8 DEF Ascending, Nth, Rank
<1> HIDE DEF s, n
<1>10. \A i, j \in 1 .. n : i < j => s[i] < s[j]
  <2> SUFFICES ASSUME NEW i \in 1 .. n, NEW j \in 1 .. n, i < j PROVE s[i] < s[j]
    OBVIOUS
  <2>1. s[i] \in Nat /\ s[j] \in Nat
    BY <1>0, <1>9
  <2>2. ~ (j < i) /\ i # j
    OBVIOUS
  <2>3. ~ (s[j] < s[i]) /\ s[i] # s[j]
    BY <1>3, <1>9, <2>2
  <2> QED BY <2>1, <2>3
<1>11. \A x \in S : \E j \in 1 .. n : s[j] = x
  BY <1>2, <1>4, <1>9
<1> QED BY <1>1, <1>9, <1>10, <1>11 DEF s, n

-----------------------------------------------------------------------------
(* The projection of a recorded run to the frozen contract.                *)

\* Each kind has its place in its order, and the shorter order agrees with the longer.
LEMMA LegacyPositions ==
  /\ Kinds(LegacyOrder) \subseteq Kinds(Order)
  /\ \A k, l \in Kinds(LegacyOrder) :
       Position(Order, k) < Position(Order, l) => Position(LegacyOrder, k) < Position(LegacyOrder, l)
<1>1. /\ DOMAIN Order = 1 .. 9 /\ DOMAIN LegacyOrder = 1 .. 7
  BY DEF Order, LegacyOrder
<1>2. /\ Order[1] = "request" /\ Order[2] = "resolved_parameters" /\ Order[3] = "model"
      /\ Order[4] = "scenario" /\ Order[5] = "parameter_schema" /\ Order[6] = "script"
      /\ Order[7] = "diagnostics" /\ Order[8] = "result" /\ Order[9] = "evidence"
  BY DEF Order
<1>3. /\ LegacyOrder[1] = "request" /\ LegacyOrder[2] = "resolved_parameters"
      /\ LegacyOrder[3] = "model" /\ LegacyOrder[4] = "script"
      /\ LegacyOrder[5] = "diagnostics" /\ LegacyOrder[6] = "result"
      /\ LegacyOrder[7] = "evidence"
  BY DEF LegacyOrder
<1> HIDE DEF Order, LegacyOrder
<1>4. (\A i \in 1 .. 9 : i \in {1, 2, 3, 4, 5, 6, 7, 8, 9}) /\ (\A i \in 1 .. 7 : i \in {1, 2, 3, 4, 5, 6, 7})
  OBVIOUS
<1>5. Kinds(LegacyOrder) = {"request", "resolved_parameters", "model", "script", "diagnostics", "result", "evidence"}
  <2>1. Kinds(LegacyOrder) = {LegacyOrder[i] : i \in 1 .. 7}
    BY <1>1 DEF Kinds, ToSet
  <2> QED BY <1>3, <1>4, <2>1
<1>6. Kinds(LegacyOrder) \subseteq Kinds(Order)
  <2>1. Kinds(Order) = {Order[i] : i \in 1 .. 9}
    BY <1>1 DEF Kinds, ToSet
  <2> QED BY <1>2, <1>5, <2>1
<1>7. \A k \in Kinds(LegacyOrder) : 
        /\ Position(LegacyOrder, k) \in 1 .. 7 /\ LegacyOrder[Position(LegacyOrder, k)] = k
        /\ Position(Order, k) \in 1 .. 9 /\ Order[Position(Order, k)] = k
  <2> TAKE k \in Kinds(LegacyOrder)
  <2>1. \E i \in 1 .. 7 : LegacyOrder[i] = k
    BY <1>1 DEF Kinds, ToSet
  <2>2. \E i \in 1 .. 9 : Order[i] = k
    BY <1>1, <1>6 DEF Kinds, ToSet
  <2> QED BY <1>1, <2>1, <2>2 DEF Position
<1>8. ASSUME NEW k \in Kinds(LegacyOrder), NEW l \in Kinds(LegacyOrder),
             Position(Order, k) < Position(Order, l)
      PROVE  Position(LegacyOrder, k) < Position(LegacyOrder, l)
  <2> PICK i, j, p, q : i = Position(LegacyOrder, k) /\ j = Position(LegacyOrder, l)
                        /\ p = Position(Order, k) /\ q = Position(Order, l)
    OBVIOUS
  <2>1. /\ i \in {1, 2, 3, 4, 5, 6, 7} /\ j \in {1, 2, 3, 4, 5, 6, 7}
        /\ p \in {1, 2, 3, 4, 5, 6, 7, 8, 9} /\ q \in {1, 2, 3, 4, 5, 6, 7, 8, 9}
        /\ LegacyOrder[i] = k /\ LegacyOrder[j] = l /\ Order[p] = k /\ Order[q] = l
    BY <1>4, <1>7
  <2>2. \A a \in {1, 2, 3, 4, 5, 6, 7} : \A b \in {1, 2, 3, 4, 5, 6, 7, 8, 9} :
          LegacyOrder[a] = Order[b] =>
            IF b <= 3 THEN a = b ELSE a = b - 2
    BY <1>2, <1>3
  <2>3. (IF p <= 3 THEN i = p ELSE i = p - 2) /\ (IF q <= 3 THEN j = q ELSE j = q - 2)
    BY <2>1, <2>2
  <2>4. Order[p] \in Kinds(LegacyOrder) /\ Order[q] \in Kinds(LegacyOrder)
    BY <2>1
  <2>5. p \notin {4, 5} /\ q \notin {4, 5}
    BY <1>2, <1>5, <2>4
  <2> QED BY <1>8, <2>1, <2>3, <2>5
<1> QED BY <1>6, <1>8
\* Every kind of the canonical order has its place in it.
LEMMA OrderPositions ==
  \A k \in Kinds(Order) : Position(Order, k) \in Nat /\ Order[Position(Order, k)] = k
<1>1. DOMAIN Order = 1 .. 9
  BY DEF Order
<1> TAKE k \in Kinds(Order)
<1>2. \E i \in DOMAIN Order : Order[i] = k
  BY DEF Kinds, ToSet
<1>3. Position(Order, k) \in DOMAIN Order /\ Order[Position(Order, k)] = k
  BY <1>2 DEF Position
<1> QED BY <1>1, <1>3

\* Neighbours in the canonical order: so are any two of the list, and no kind
\* is there twice.
LEMMA CanonicalOrder ==
  ASSUME NEW a, Len(a) \in Nat, DOMAIN a = 1 .. Len(a), Canonical(a, Order)
  PROVE  \A i, j \in 1 .. Len(a) :
           /\ i < j => Position(Order, a[i].kind) < Position(Order, a[j].kind)
           /\ a[i].kind = a[j].kind => i = j
<1> DEFINE n == Len(a)
           P(i) == Position(Order, a[i].kind)
<1>1. \A i \in 1 .. n : P(i) \in Nat
  BY OrderPositions DEF Canonical
<1>2. \A i \in 2 .. n : P(i - 1) < P(i)
  BY DEF Canonical
<1>3. n \in Nat
  OBVIOUS
<1> HIDE DEF n
<1>4. ASSUME NEW i \in 1 .. n, NEW j \in 1 .. n, i < j
      PROVE  P(i) < P(j)
  <2> HIDE DEF P
  <2> DEFINE T == {l \in 1 .. n : i < l /\ ~ (P(i) < P(l))}
  <2> SUFFICES ASSUME T # {} PROVE FALSE
    BY <1>4
  <2>1. PICK m \in T : \A l \in T : m <= l
    <3>1. T \in SUBSET Nat
      BY <1>3
    <3> QED BY <3>1, LeastNat
  <2>2. m \in 1 .. n /\ i < m /\ ~ (P(i) < P(m)) /\ i \in Nat /\ m \in Nat
    BY <1>3, <2>1
  <2>3. m - 1 \in 1 .. n /\ m \in 2 .. n /\ (m - 1 = i \/ i < m - 1)
    BY <1>3, <2>2
  <2>4. m - 1 = i \/ P(i) < P(m - 1)
    <3>1. ~ (m <= m - 1)
      BY <2>2
    <3> QED BY <2>1, <2>3, <3>1
  <2>5. P(m - 1) < P(m) /\ P(m - 1) \in Nat /\ P(m) \in Nat /\ P(i) \in Nat
    BY <1>1, <1>2, <2>2, <2>3
  <2> QED BY <2>2, <2>4, <2>5
<1>5. ASSUME NEW i \in 1 .. n, NEW j \in 1 .. n, a[i].kind = a[j].kind
      PROVE  i = j
  <2>1. P(i) = P(j) /\ P(i) \in Nat
    BY <1>1, <1>5
  <2>2. ~ (i < j) /\ ~ (j < i)
    <3>1. ~ (P(i) < P(j)) /\ ~ (P(j) < P(i))
      BY <2>1
    <3> QED BY <1>4, <3>1
  <2>3. i \in Nat /\ j \in Nat
    BY <1>3
  <2> QED BY <2>2, <2>3
<1> QED BY <1>4, <1>5 DEF n

\* A sequence, element by element.
LEMMA ListOf ==
  ASSUME NEW n \in Nat, NEW p, p = [j \in 1 .. n |-> p[j]]
  PROVE  Len(p) = n
<1> DEFINE S == {p[j] : j \in 1 .. n}
<1>1. [j \in 1 .. n |-> p[j]] \in [1 .. n -> S]
  OBVIOUS
<1>2. p \in [1 .. n -> S]
  BY <1>1
<1> HIDE DEF S
<1>3. p \in Seq(S)
  BY <1>2
<1> QED BY <1>2, <1>3

\* projectRecordedRunToLegacy yields what parseLegacySimulationRunRecord accepts.
LEMMA ProjectionIsLegacy ==
  ASSUME NEW run, ValidRecorded(run),
         Len(run.artifacts) \in Nat, DOMAIN run.artifacts = 1 .. Len(run.artifacts)
  PROVE  ValidLegacy(Project(run))
<1> DEFINE a == run.artifacts
           S == {i \in DOMAIN a : a[i].kind \in Kinds(LegacyOrder)}
           n == Cardinality(S)
           kept == Ascending(S)
           p == LegacyArtifacts(a)
<1>1. Canonical(a, Order)
  BY DEF ValidRecorded
<1>2. \A i, j \in 1 .. Len(a) :
        /\ i < j => Position(Order, a[i].kind) < Position(Order, a[j].kind)
        /\ a[i].kind = a[j].kind => i = j
  BY <1>1, CanonicalOrder
<1>3. S \in SUBSET Nat /\ IsFiniteSet(S)
  <2>1. IsFiniteSet(1 .. Len(a)) /\ S \in SUBSET (1 .. Len(a))
    BY FS_Interval
  <2> QED BY <2>1, FS_Subset
<1>4. /\ n \in Nat /\ DOMAIN kept = 1 .. n
      /\ \A j \in 1 .. n : kept[j] \in S
      /\ \A i, j \in 1 .. n : i < j => kept[i] < kept[j]
      /\ \A x \in S : \E j \in 1 .. n : kept[j] = x
  <2> HIDE DEF S
  <2> QED BY <1>3, AscendingIs
<1>5. p = [j \in DOMAIN kept |-> [kind |-> a[kept[j]].kind, sha256 |-> a[kept[j]].sha256]]
  BY DEF LegacyArtifacts
<1>6. \A i \in S : i \in 1 .. Len(a) /\ a[i].kind \in Kinds(LegacyOrder)
  OBVIOUS
<1>7. \A i \in 1 .. Len(a) : a[i].kind \in Kinds(LegacyOrder) => i \in S
  OBVIOUS
<1> HIDE DEF a, S, n, kept, p
<1>8. /\ DOMAIN p = 1 .. n /\ Len(p) = n
      /\ \A j \in 1 .. n : p[j].kind = a[kept[j]].kind /\ p[j].sha256 = a[kept[j]].sha256
  <2>1. DOMAIN p = 1 .. n /\ p = [j \in 1 .. n |-> p[j]]
    BY <1>4, <1>5
  <2> QED BY <1>4, <1>5, <2>1, ListOf
<1>9. \A j \in 1 .. n : kept[j] \in 1 .. Len(a) /\ p[j].kind \in Kinds(LegacyOrder)
  BY <1>4, <1>6, <1>8
<1>10. \A i \in 2 .. Len(p) :
         Position(LegacyOrder, p[i-1].kind) < Position(LegacyOrder, p[i].kind)
  <2> TAKE i \in 2 .. Len(p)
  <2>1. i - 1 \in 1 .. n /\ i \in 1 .. n /\ i - 1 < i
    BY <1>4, <1>8
  <2>2. Position(Order, p[i-1].kind) < Position(Order, p[i].kind)
    <3>1. kept[i-1] < kept[i] /\ kept[i-1] \in 1 .. Len(a) /\ kept[i] \in 1 .. Len(a)
      BY <1>4, <1>9, <2>1
    <3>2. Position(Order, a[kept[i-1]].kind) < Position(Order, a[kept[i]].kind)
      BY <1>2, <3>1
    <3>3. p[i-1].kind = a[kept[i-1]].kind /\ p[i].kind = a[kept[i]].kind
      BY <1>8, <2>1
    <3> QED BY <3>2, <3>3
  <2> QED BY <1>9, <2>1, <2>2, LegacyPositions
<1>11. \A kind \in Kinds(LegacyOrder) : Has(a, kind) => Has(p, kind) /\ Digest(p, kind) = Digest(a, kind)
  <2> SUFFICES ASSUME NEW kind \in Kinds(LegacyOrder), Has(a, kind)
               PROVE  Has(p, kind) /\ Digest(p, kind) = Digest(a, kind)
    OBVIOUS
  <2>1. DOMAIN a = 1 .. Len(a)
    BY DEF a
  <2> DEFINE i == CHOOSE l \in DOMAIN a : a[l].kind = kind
             k == CHOOSE l \in DOMAIN p : p[l].kind = kind
  <2>2. i \in 1 .. Len(a) /\ a[i].kind = kind /\ Digest(a, kind) = a[i].sha256
    <3>1. \E l \in DOMAIN a : a[l].kind = kind
      BY DEF Has
    <3> QED BY <2>1, <3>1 DEF Digest, Has
  <2> HIDE DEF i
  <2>3. PICK j \in 1 .. n : kept[j] = i
    BY <1>4, <1>7, <2>2
  <2>4. Has(p, kind)
    BY <1>8, <2>2, <2>3 DEF Has
  <2>5. k \in 1 .. n /\ p[k].kind = kind /\ Digest(p, kind) = p[k].sha256
    <3>1. \E l \in DOMAIN p : p[l].kind = kind
      BY <2>4 DEF Has
    <3> QED BY <1>8, <2>4, <3>1 DEF Digest
  <2> HIDE DEF k
  <2>6. kept[k] = i
    <3>1. kept[k] \in 1 .. Len(a) /\ a[kept[k]].kind = kind
      BY <1>8, <1>9, <2>5
    <3> QED BY <1>2, <2>2, <3>1
  <2> QED BY <1>8, <2>2, <2>4, <2>5, <2>6
<1>12. Canonical(p, LegacyOrder)
  <2>1. \A kind \in Kinds(LegacyOrder) \ Optional : Has(p, kind)
    BY <1>1, <1>11, LegacyPositions DEF Canonical
  <2> QED BY <1>8, <1>9, <1>10, <2>1 DEF Canonical
<1>13. Digest(p, "model") = Source("model", run.kit)
  <2>1. "model" \in Kinds(LegacyOrder) \ Optional
    <3>1. LegacyOrder[3] = "model" /\ 3 \in DOMAIN LegacyOrder
      BY DEF LegacyOrder
    <3> QED BY <3>1 DEF Kinds, ToSet, Optional
  <2>2. Has(a, "model") /\ Digest(a, "model") = Source("model", run.kit)
    BY <1>1, <2>1, LegacyPositions DEF ValidRecorded, Canonical, a
  <2> QED BY <1>11, <2>1, <2>2
<1> DEFINE q == Project(run)
<1>14. /\ q.generation = "legacy" /\ q.status = run.status /\ q.started = run.started
       /\ q.completed = run.completed /\ q.kit = run.kit /\ q.engine = run.engine
       /\ q.resolved = run.resolved /\ q.artifacts = p
       /\ q.fingerprint = LegacyFingerprint(run)
  BY DEF Project, p, a
<1> HIDE DEF q
<1>15. InOrder(q) /\ q.status \in Status
  BY <1>14 DEF InOrder, ValidRecorded
<1>16. q.fingerprint = LegacyFingerprint(q)
  BY <1>14 DEF LegacyFingerprint
<1>17. ValidLegacy(q)
  BY <1>12, <1>13, <1>14, <1>15, <1>16 DEF ValidLegacy
<1> QED BY <1>17 DEF q

-----------------------------------------------------------------------------
(* A step, as the other calls and the readers meet it.                     *)

OthersKept(d) ==
  /\ \A c \in Call \ {d} :
       /\ at'[c] = at[c] /\ plan'[c] = plan[c]
       /\ runner'[c] = runner[c] /\ child'[c] = child[c] /\ pipes'[c] = pipes[c]
       /\ csv'[c] = csv[c] /\ output'[c] = output[c]
  /\ \A u \in Run \ {d} : ledger'[u] = ledger[u] /\ file'[u] = file[u]

\* What the invariant says of one call.
CallOK(c) == RunnerOK(c) /\ WritingOK(c) /\ VerdictOK(c) /\ LedgerOK(c)

\* A step of one call leaves what the invariant says of another.
LEMMA OthersStayOK ==
  ASSUME HistoryInv, NEW d \in Call, OthersKept(d), damaged' = damaged,
         disturbed \subseteq disturbed', NEW c \in Call, c # d
  PROVE  CallOK(c)'
<1>1. RunnerOK(c) /\ WritingOK(c) /\ VerdictOK(c) /\ LedgerOK(c)
  BY DEF HistoryInv
<1>2. /\ at'[c] = at[c] /\ plan'[c] = plan[c]
      /\ runner'[c] = runner[c] /\ child'[c] = child[c] /\ pipes'[c] = pipes[c]
      /\ csv'[c] = csv[c] /\ output'[c] = output[c]
      /\ ledger'[c] = ledger[c] /\ file'[c] = file[c]
  BY DEF OthersKept, Run
<1>3. RunnerOK(c)'
  BY <1>1, <1>2 DEF RunnerOK, Gone
<1>4. WritingOK(c)'
  BY <1>1, <1>2 DEF WritingOK, Identity
<1>5. VerdictOK(c)'
  BY <1>1, <1>2 DEF VerdictOK
<1>6. LedgerOK(c)'
  BY <1>1, <1>2 DEF LedgerOK
<1> QED BY <1>3, <1>4, <1>5, <1>6 DEF CallOK

\* What a reader knows stays true while what is stored stays.
LEMMA ReadersStayOK ==
  ASSUME HistoryInv, readers' = readers, kits' = kits, damaged' = damaged,
         disturbed \subseteq disturbed',
         \A u \in Stored : ledger'[u] = ledger[u]
  PROVE  \A r \in Reader : ReaderOK(r)'
<1> SUFFICES ASSUME NEW r \in Reader PROVE ReaderOK(r)'
  OBVIOUS
<1>1. ReaderOK(r)
  BY DEF HistoryInv
<1> PICK d : d = readers[r]
  OBVIOUS
<1>2. readers'[r] = d
  OBVIOUS
<1>3. Stored \subseteq Run /\ \A u \in Stored : u \in Stored'
  BY DEF Stored
<1>4. d.began \subseteq Stored'
  BY <1>1, <1>3 DEF ReaderOK
<1>5. \A u \in d.answer : ledger'[u] \notin {Nothing, Torn}
  BY <1>1 DEF ReaderOK, Stored
<1>6. d.op = "list" /\ d.outcome \notin {"none", "answered"} =>
        damaged' \/ disturbed' # {} \/ \E u \in Stored' : ledger'[u].kit \notin kits'
  BY <1>1, <1>3 DEF ReaderOK
<1> QED BY <1>1, <1>2, <1>4, <1>5, <1>6 DEF ReaderOK

\* What is left to show for a step of one call.
LEMMA CallStep ==
  ASSUME HistoryInv, NEW d \in Call, OthersKept(d), TypeOK', ShapeOK', CallOK(d)',
         readers' = readers, kits' = kits, damaged' = damaged,
         disturbed \subseteq disturbed', ledger[d] # Nothing => ledger'[d] = ledger[d]
  PROVE  HistoryInv'
<1>1. \A c \in Call : CallOK(c)'
  BY OthersStayOK
<1>2. OldOK'
  <2>1. ledger'[Old] = ledger[Old] /\ file'[Old] = file[Old]
    BY HistoricalConstants DEF OthersKept, Run
  <2> QED BY <2>1 DEF HistoryInv, OldOK
<1>3. \A u \in Stored : ledger'[u] = ledger[u]
  BY DEF Stored, OthersKept
<1>4. \A r \in Reader : ReaderOK(r)'
  BY <1>3, ReadersStayOK
<1> QED BY <1>1, <1>2, <1>4 DEF HistoryInv, CallOK

-----------------------------------------------------------------------------
(* The runner.                                                             *)

RunnerTypes ==
  /\ runner \in [Call -> RunnerStep]
  /\ child \in [Call -> {"none", "running", "ok", "bad"}]
  /\ pipes \in [Call -> BOOLEAN] /\ csv \in [Call -> CsvFile]
  /\ output \in [Call -> RunnerOutput \cup {NoOutput}]

\* A step of the runner of d leaves the others alone.
RunnersKept(d) ==
  \A c \in Call \ {d} :
    /\ runner'[c] = runner[c] /\ child'[c] = child[c] /\ pipes'[c] = pipes[c]
    /\ csv'[c] = csv[c] /\ output'[c] = output[c]

\* Every output the runner can return, and how it is told from the others.
LEMMA RunnerOutputs ==
  /\ \A raw \in RawOutput :
       /\ Failed(raw) \in RunnerOutput /\ TimedOut(raw) \in RunnerOutput
       /\ Failed(raw).result = FALSE /\ TimedOut(raw).result = FALSE
       /\ Failed(raw).status # "succeeded" /\ TimedOut(raw).status # "succeeded"
       /\ Failed(raw).raw = raw /\ TimedOut(raw).raw = raw
  /\ \A s \in {"captured", "rejected", "absent"} :
       Captured(s) \in RawOutput /\ Captured(s).capture = "captured"
  /\ \A why \in {"spawn_failed", "timed_out_without_output", "runner_seam"} :
       Unavailable(why) \in RawOutput /\ Unavailable(why).capture # "captured"
<1>1. /\ \A s \in {"captured", "rejected", "absent"} :
           Captured(s) \in RawOutput /\ Captured(s).capture = "captured"
      /\ \A why \in {"spawn_failed", "timed_out_without_output", "runner_seam"} :
           Unavailable(why) \in RawOutput /\ Unavailable(why).capture # "captured"
  BY DEF RawOutput, Captured, Unavailable
<1>2. \A raw \in RawOutput :
       /\ Failed(raw) \in RunnerOutput /\ TimedOut(raw) \in RunnerOutput
       /\ Failed(raw).result = FALSE /\ TimedOut(raw).result = FALSE
       /\ Failed(raw).status # "succeeded" /\ TimedOut(raw).status # "succeeded"
       /\ Failed(raw).raw = raw /\ TimedOut(raw).raw = raw
  BY DEF RunnerOutput, Failed, TimedOut
<1> QED BY <1>1, <1>2

\* execute returns without a result, and says captured only of a child that is gone.
LEMMA ReturnsFailure ==
  ASSUME RunnerTypes, NEW d \in Call, NEW out \in RunnerOutput, Return(d, out),
         UNCHANGED <<child, pipes, csv>>,
         out.result = FALSE, out.status # "succeeded",
         out.raw.capture = "captured" => Gone(d)
  PROVE  RunnerTypes' /\ RunnersKept(d) /\ RunnerOK(d)'
<1>1. /\ runner' \in [Call -> RunnerStep] /\ runner'[d] = "done"
      /\ \A c \in Call \ {d} : runner'[c] = runner[c]
  BY DEF Return, RunnerTypes, RunnerStep
<1>2. /\ output' \in [Call -> RunnerOutput \cup {NoOutput}] /\ output'[d] = out
      /\ \A c \in Call \ {d} : output'[c] = output[c]
  BY DEF Return, RunnerTypes
<1>3. RunnerTypes' /\ RunnersKept(d)
  BY <1>1, <1>2 DEF RunnerTypes, RunnersKept
<1>4. RunnerOK(d)'
  BY <1>1, <1>2 DEF RunnerOK, Gone
<1> QED BY <1>3, <1>4

\* The runner goes on: from one of its own steps to another.
LEMMA RunnerMoves ==
  ASSUME RunnerTypes, NEW d \in Call, RunnerOK(d), NEW next \in RunnerStep \ {"done"},
         runner[d] # "done", runner' = [runner EXCEPT ![d] = next],
         UNCHANGED <<child, pipes, csv, output>>,
         next = "collecting" => Gone(d)
  PROVE  RunnerTypes' /\ RunnersKept(d) /\ RunnerOK(d)'
<1>1. /\ runner' \in [Call -> RunnerStep] /\ runner'[d] = next
      /\ \A c \in Call \ {d} : runner'[c] = runner[c]
  BY DEF RunnerTypes
<1>2. RunnerTypes' /\ RunnersKept(d)
  BY <1>1 DEF RunnerTypes, RunnersKept
<1>3. RunnerOK(d)'
  BY <1>1 DEF RunnerOK, Gone
<1> QED BY <1>2, <1>3

\* The child starts with its pipes open, or execute returns at once.
LEMMA SpawnRuns ==
  ASSUME RunnerTypes, NEW d \in Call, RunnerOK(d), Spawn(d)
  PROVE  RunnerTypes' /\ RunnersKept(d) /\ RunnerOK(d)'
<1>1. CASE Return(d, Failed(Unavailable("spawn_failed"))) /\ UNCHANGED <<child, pipes>>
  BY <1>1, RunnerOutputs, ReturnsFailure DEF Spawn
<1>2. CASE /\ runner' = [runner EXCEPT ![d] = "racing"]
           /\ child' = [child EXCEPT ![d] = "running"]
           /\ pipes' = [pipes EXCEPT ![d] = TRUE]
           /\ UNCHANGED output
  <2>1. UNCHANGED csv /\ runner[d] = "idle"
    BY DEF Spawn
  <2>2. /\ runner' \in [Call -> RunnerStep] /\ runner'[d] = "racing"
        /\ child' \in [Call -> {"none", "running", "ok", "bad"}]
        /\ pipes' \in [Call -> BOOLEAN]
        /\ \A c \in Call \ {d} :
             runner'[c] = runner[c] /\ child'[c] = child[c] /\ pipes'[c] = pipes[c]
    BY <1>2 DEF RunnerTypes, RunnerStep
  <2>3. RunnerTypes' /\ RunnersKept(d)
    BY <1>2, <2>1, <2>2 DEF RunnerTypes, RunnersKept
  <2>4. RunnerOK(d)'
    BY <1>2, <2>1, <2>2 DEF RunnerOK
  <2> QED BY <2>3, <2>4
<1> QED BY <1>1, <1>2 DEF Spawn

\* The race, the timer and the collection return only what the child left.
LEMMA ProviderRuns ==
  ASSUME RunnerTypes, NEW d \in Call, RunnerOK(d),
         Execute(d) \/ TimerFires(d) \/ OutputRejects(d)
  PROVE  RunnerTypes' /\ RunnersKept(d) /\ RunnerOK(d)'
<1>1. CASE OutputWins(d)
  BY <1>1, RunnerMoves DEF OutputWins, OutputIsComplete, Gone, RunnerStep
<1>2. CASE OutputAfterSignal(d)
  BY <1>2, RunnerOutputs, ReturnsFailure DEF OutputAfterSignal, OutputIsComplete, Gone
<1>3. CASE TimerFires(d)
  BY <1>3, RunnerMoves DEF TimerFires, RunnerStep
<1>4. CASE OutputRejects(d)
  <2>1. Thrown \in RunnerOutput /\ Thrown.result = FALSE /\ Thrown.status # "succeeded"
          /\ Thrown.raw.capture # "captured"
    BY RunnerOutputs DEF Thrown
  <2>2. UNCHANGED <<child, pipes, csv>>
    BY <1>4 DEF OutputRejects
  <2>3. CASE Return(d, Thrown)
    BY <2>1, <2>2, <2>3, ReturnsFailure
  <2>4. CASE Return(d, TimedOut(Unavailable("timed_out_without_output")))
    BY <2>2, <2>4, RunnerOutputs, ReturnsFailure
  <2> QED BY <1>4, <2>3, <2>4 DEF OutputRejects
<1>5. CASE ReadResultCsv(d)
  <2>1. /\ Gone(d) /\ Return(d, Verdict(child[d], csv[d])) /\ UNCHANGED <<child, pipes, csv>>
    BY <1>5 DEF ReadResultCsv, RunnerOK
  <2>2. CASE child[d] = "bad" \/ csv[d] = "absent"
    <3>1. Verdict(child[d], csv[d]) = Failed(Captured("absent"))
      BY <2>2 DEF Verdict
    <3> QED BY <2>1, <3>1, RunnerOutputs, ReturnsFailure
  <2>3. CASE child[d] # "bad" /\ csv[d] = "oversized"
    <3>1. Verdict(child[d], csv[d]) = Failed(Unavailable("runner_seam"))
      BY <2>3 DEF Verdict, Thrown
    <3> QED BY <2>1, <3>1, RunnerOutputs, ReturnsFailure
  <2>4. CASE child[d] # "bad" /\ csv[d] = "not_utf8"
    <3>1. Verdict(child[d], csv[d]) = Failed(Captured("rejected"))
      BY <2>4 DEF Verdict
    <3> QED BY <2>1, <3>1, RunnerOutputs, ReturnsFailure
  <2>5. CASE child[d] # "bad" /\ csv[d] = "text"
    <3> DEFINE out ==
          [status |-> "succeeded", result |-> TRUE, raw |-> Captured("captured")]
    <3>1. Verdict(child[d], csv[d]) = out
      BY <2>5 DEF Verdict
    <3>2. child[d] = "ok" /\ csv[d] = "text"
      BY <2>1, <2>5 DEF Gone, RunnerTypes, CsvFile
    <3>3. out \in RunnerOutput
      BY RunnerOutputs DEF RunnerOutput
    <3>4. out.result = TRUE /\ out.status = "succeeded" /\ out.raw = Captured("captured")
      OBVIOUS
    <3> HIDE DEF out
    <3>5. /\ runner' \in [Call -> RunnerStep] /\ runner'[d] = "done"
          /\ \A c \in Call \ {d} : runner'[c] = runner[c]
      BY <2>1 DEF Return, RunnerTypes, RunnerStep
    <3>6. /\ output' \in [Call -> RunnerOutput \cup {NoOutput}] /\ output'[d] = out
          /\ \A c \in Call \ {d} : output'[c] = output[c]
      BY <2>1, <3>1, <3>3 DEF Return, RunnerTypes
    <3>7. RunnerTypes' /\ RunnersKept(d)
      BY <2>1, <3>5, <3>6 DEF RunnerTypes, RunnersKept
    <3>8. RunnerOK(d)'
      BY <2>1, <3>2, <3>4, <3>5, <3>6 DEF RunnerOK, Gone
    <3> QED BY <3>7, <3>8
  <2>6. csv[d] \in {"absent", "oversized", "not_utf8", "text"}
    BY DEF RunnerTypes, CsvFile
  <2> QED BY <2>2, <2>3, <2>4, <2>5, <2>6
<1> QED BY <1>1, <1>2, <1>3, <1>4, <1>5 DEF Execute

\* The operating system never touches a child that is gone, nor its CSV.
LEMMA SolverRuns ==
  ASSUME RunnerTypes, NEW d \in Call, RunnerOK(d), Solver(d)
  PROVE  RunnerTypes' /\ RunnersKept(d) /\ RunnerOK(d)'
<1>1. CASE SolverWrites(d)
  <2>1. /\ runner[d] \in {"racing", "signalled"} /\ UNCHANGED <<runner, child, pipes, output>>
    BY <1>1 DEF SolverWrites
  <2>2. PICK f \in CsvFile \ {"absent"} : csv' = [csv EXCEPT ![d] = f]
    BY <1>1 DEF SolverWrites
  <2>3. csv' \in [Call -> CsvFile] /\ \A c \in Call \ {d} : csv'[c] = csv[c]
    BY <2>2 DEF RunnerTypes
  <2>4. RunnerTypes' /\ RunnersKept(d)
    BY <2>1, <2>3 DEF RunnerTypes, RunnersKept
  <2>5. RunnerOK(d)'
    BY <2>1 DEF RunnerOK
  <2> QED BY <2>4, <2>5
<1>2. CASE SolverExits(d)
  <2>1. child[d] = "running" /\ UNCHANGED <<runner, csv, output>>
    BY <1>2 DEF SolverExits
  <2>2. PICK exit \in {"ok", "bad"}, open \in BOOLEAN :
          /\ child' = [child EXCEPT ![d] = exit]
          /\ pipes' = [pipes EXCEPT ![d] = open]
    BY <1>2 DEF SolverExits
  <2>3. /\ child' \in [Call -> {"none", "running", "ok", "bad"}]
        /\ pipes' \in [Call -> BOOLEAN]
        /\ \A c \in Call \ {d} : child'[c] = child[c] /\ pipes'[c] = pipes[c]
    BY <2>2 DEF RunnerTypes
  <2>4. RunnerTypes' /\ RunnersKept(d)
    BY <2>1, <2>3 DEF RunnerTypes, RunnersKept
  <2>5. RunnerOK(d)'
    BY <2>1 DEF RunnerOK, Gone
  <2> QED BY <2>4, <2>5
<1>3. CASE PipesClose(d)
  <2>1. /\ child[d] \in {"ok", "bad"} /\ pipes' = [pipes EXCEPT ![d] = FALSE]
        /\ UNCHANGED <<runner, child, csv, output>>
    BY <1>3 DEF PipesClose
  <2>2. /\ pipes' \in [Call -> BOOLEAN] /\ pipes'[d] = FALSE
        /\ \A c \in Call \ {d} : pipes'[c] = pipes[c]
    BY <2>1 DEF RunnerTypes
  <2>3. RunnerTypes' /\ RunnersKept(d)
    BY <2>1, <2>2 DEF RunnerTypes, RunnersKept
  <2>4. RunnerOK(d)'
    BY <2>1, <2>2 DEF RunnerOK, Gone
  <2> QED BY <2>3, <2>4
<1> QED BY <1>1, <1>2, <1>3 DEF Solver

\* What the runner does while simulate waits for it changes no record.
LEMMA SolvingStep ==
  ASSUME HistoryInv, NEW d \in Call, at[d] = "execute",
         UNCHANGED <<at, plan, store, readers, world>>,
         RunnerTypes', RunnersKept(d), RunnerOK(d)'
  PROVE  HistoryInv'
<1>1. /\ UNCHANGED <<ledger, directory, file>>
      /\ UNCHANGED <<kits, disturbed, damaged, restarts, failures>>
      /\ UNCHANGED <<at, plan, readers>>
  BY DEF store, world
<1>2. TypeOK' /\ ShapeOK'
  BY <1>1 DEF HistoryInv, TypeOK, ShapeOK, RunnerTypes
<1>3. OthersKept(d)
  BY <1>1 DEF OthersKept, RunnersKept
<1>4. WritingOK(d)'
  <2>1. WritingOK(d)
    BY DEF HistoryInv
  <2>2. /\ Written("execute", plan[d].kit, output[d].result)
             = SourceKinds(plan[d].kit) \cup {"script"}
        /\ Written("execute", plan[d].kit, output'[d].result)
             = SourceKinds(plan[d].kit) \cup {"script"}
    BY DEF Written
  <2> QED BY <1>1, <2>1, <2>2 DEF WritingOK, Identity, Ended
<1>5. VerdictOK(d)'
  BY <1>1 DEF VerdictOK
<1>6. LedgerOK(d)'
  BY <1>1 DEF HistoryInv, LedgerOK
<1> QED BY <1>1, <1>2, <1>3, <1>4, <1>5, <1>6, CallStep DEF CallOK

\* Every step of the runner, its child and the timer keeps the invariant.
LEMMA SolvingKeeps ==
  ASSUME HistoryInv, NEW d \in Call,
         \/ Solving(d, Spawn(d)) \/ Solving(d, Execute(d)) \/ Solving(d, TimerFires(d))
         \/ Solving(d, OutputRejects(d)) \/ Solving(d, Solver(d))
  PROVE  HistoryInv'
<1>1. RunnerTypes /\ RunnerOK(d)
  BY DEF HistoryInv, TypeOK, RunnerTypes
<1>2. at[d] = "execute" /\ UNCHANGED <<at, plan, store, readers, world>>
  BY DEF Solving
<1>3. \/ Spawn(d) \/ Execute(d) \/ TimerFires(d) \/ OutputRejects(d) \/ Solver(d)
  BY DEF Solving
<1>4. RunnerTypes' /\ RunnersKept(d) /\ RunnerOK(d)'
  BY <1>1, <1>3, SpawnRuns, ProviderRuns, SolverRuns
<1> QED BY <1>2, <1>4, SolvingStep

-----------------------------------------------------------------------------
(* simulate.                                                               *)

\* A call that goes on has published nothing yet.
LEMMA NotPublished ==
  ASSUME HistoryInv, NEW d \in Call, at[d] # "answered"
  PROVE  ledger[d] = Nothing
BY DEF HistoryInv, TypeOK

\* A step of simulate before run.json: what it has in its hands is to be shown.
LEMMA SimulateStep ==
  ASSUME HistoryInv, NEW d \in Call, at[d] # "answered",
         NEW label \in Label \ {"answered"}, Step(d, label),
         NEW p \in Plans \cup {Nothing}, plan' = [plan EXCEPT ![d] = p],
         p # Nothing <=> label \notin {"idle"} \cup Ended,
         directory \subseteq directory', directory' \subseteq Run,
         label \notin {"idle", "resolved", "refused", "died"} => d \in directory',
         NEW f, file' = [file EXCEPT ![d] = f],
         UNCHANGED <<ledger, readers, kits, disturbed, damaged, runnerVars>>,
         WritingOK(d)', VerdictOK(d)'
  PROVE  HistoryInv'
<1>1. TypeOK /\ ShapeOK /\ RunnerOK(d) /\ LedgerOK(d)
  BY DEF HistoryInv
<1>2. UNCHANGED <<runner, child, pipes, csv, output>>
  BY DEF runnerVars
<1>3. /\ at' \in [Call -> Label] /\ at'[d] = label
      /\ \A c \in Call \ {d} : at'[c] = at[c]
  BY <1>1 DEF TypeOK, Step
<1>4. /\ plan' \in [Call -> Plans \cup {Nothing}] /\ plan'[d] = p
      /\ \A c \in Call \ {d} : plan'[c] = plan[c]
  BY <1>1 DEF TypeOK
<1>5. /\ file' = [u \in Run |-> file'[u]] /\ \A u \in Run \ {d} : file'[u] = file[u]
  BY <1>1 DEF ShapeOK, Run
<1>6. ledger[d] = Nothing
  BY NotPublished
<1>7. TypeOK'
  BY <1>1, <1>2, <1>3, <1>4, <1>6 DEF TypeOK
<1>8. ShapeOK'
  BY <1>1, <1>5 DEF ShapeOK
<1>9. OthersKept(d)
  BY <1>2, <1>3, <1>4, <1>5 DEF OthersKept
<1>10. RunnerOK(d)'
  BY <1>1, <1>2 DEF RunnerOK, Gone
<1>11. LedgerOK(d)'
  BY <1>1, <1>6 DEF LedgerOK
<1> QED BY <1>7, <1>8, <1>9, <1>10, <1>11, CallStep DEF CallOK

\* The call ends without a ledger.
LEMMA EndKeeps ==
  ASSUME HistoryInv, NEW d \in Call, at[d] # "answered",
         NEW label \in {"refused", "threw"}, End(d, label),
         label = "threw" => d \in directory,
         UNCHANGED <<directory, file, ledger, readers, kits, disturbed, damaged, runnerVars>>
  PROVE  HistoryInv'
<1>1. TypeOK /\ ShapeOK
  BY DEF HistoryInv
<1>2. at'[d] = label
  BY <1>1 DEF TypeOK, End, Step
<1>3. WritingOK(d)' /\ VerdictOK(d)'
  BY <1>2 DEF WritingOK, VerdictOK, Ended
<1>4. file' = [file EXCEPT ![d] = file[d]]
  BY <1>1 DEF ShapeOK, Run
<1>5. Step(d, label) /\ plan' = [plan EXCEPT ![d] = Nothing]
  BY DEF End
<1>6. label \in Label \ {"answered"} /\ label \in Ended /\ directory \subseteq Run
  BY <1>1 DEF Label, Ended, TypeOK
<1> QED BY <1>1, <1>3, <1>4, <1>5, <1>6, SimulateStep

\* What simulate writes is an artifact record.
LEMMA ArtifactTypes ==
  /\ \A kind \in Kind \ {"evidence"}, content \in Contents :
       Artifact(kind, content) \in ArtifactRecord
  /\ \A content \in Evidence : Artifact("evidence", content) \in ArtifactRecord
<1>1. \A kind \in Kind \ {"evidence"}, content \in Contents :
        Artifact(kind, content) \in ArtifactRecord
  BY DEF Artifact, ArtifactRecord, Qualifications
<1>2. "evidence" \in Kind
  BY OrderOfKinds
<1>3. \A content \in Evidence : Artifact("evidence", content) \in ArtifactRecord
  BY <1>2 DEF Artifact, ArtifactRecord, Qualifications
<1> QED BY <1>1, <1>3

\* The artifacts of the kit are the first of the canonical order.
LEMMA SourcesListed ==
  ASSUME NEW c, NEW kit \in Kit, NEW v
  PROVE  LET kinds == SubSeq(Order, 1, IF kit \in WithSchema THEN 5 ELSE 4)
         IN  Listed([i \in DOMAIN kinds |-> Artifact(kinds[i], Source(kinds[i], kit))],
                    c, kit, v, SourceKinds(kit))
<1> DEFINE n == IF kit \in WithSchema THEN 5 ELSE 4
           kinds == SubSeq(Order, 1, n)
           a == [i \in DOMAIN kinds |-> Artifact(kinds[i], Source(kinds[i], kit))]
<1>1. n \in 4 .. 5 /\ (n = 5 <=> kit \in WithSchema)
  OBVIOUS
<1>2. DOMAIN kinds = 1 .. n /\ \A i \in 1 .. n : kinds[i] = Order[i]
  <2>1. Order \in Seq(Kind) /\ Len(Order) = 9
    BY OrderOfKinds DEF Order
  <2> HIDE DEF n
  <2>2. /\ kinds = [i \in 1 .. n |-> Order[i]]
    BY <1>1, <2>1
  <2> QED BY <2>2
<1>3. \A i \in 1 .. n :
        /\ Order[i] \in Kind \ {"evidence", "script", "diagnostics", "result"}
        /\ Position(Order, Order[i]) = i
  <2>1. /\ Order[1] = "request" /\ Order[2] = "resolved_parameters" /\ Order[3] = "model"
        /\ Order[4] = "scenario" /\ Order[5] = "parameter_schema"
    BY DEF Order
  <2>2. \A i \in 1 .. n : i \in {1, 2, 3, 4, 5} /\ i \in 1 .. 9
    BY <1>1
  <2> HIDE DEF n
  <2>3. \A i \in 1 .. n : Order[i] \in
          {"request", "resolved_parameters", "model", "scenario", "parameter_schema"}
    BY <2>1, <2>2
  <2> QED BY <2>2, <2>3, OrderOfKinds
<1>4. /\ DOMAIN a = 1 .. n
      /\ \A i \in 1 .. n : a[i] = Artifact(Order[i], Source(Order[i], kit))
  BY <1>2
<1>5. \A i \in 1 .. n : a[i] \in ArtifactRecord
  <2> TAKE i \in 1 .. n
  <2>1. Source(Order[i], kit) \in Contents
    BY <1>3 DEF Contents, Sources
  <2> HIDE DEF a, n, kinds
  <2> QED BY <1>3, <1>4, <2>1, ArtifactTypes
<1>6. \A i \in 1 .. n :
        /\ a[i].kind = Order[i] /\ a[i].sha256 = Source(Order[i], kit)
        /\ a[i].qualification = Qualification(Order[i])
  BY <1>4 DEF Artifact
<1>7. a \in Seq(ArtifactRecord) /\ Len(a) = n
  <2>1. a = [i \in 1 .. n |-> a[i]]
    BY <1>2
  <2> HIDE DEF a, n, kinds
  <2>2. a \in [1 .. n -> ArtifactRecord]
    BY <1>4, <1>5, <2>1
  <2> QED BY <1>1, <2>2
<1>8. \A i \in 1 .. n : ContentOf(c, kit, v, Order[i]) = Source(Order[i], kit)
  <2> HIDE DEF n
  <2> QED BY <1>3 DEF ContentOf
<1>9. /\ \A i \in 1 .. n : Order[i] \in SourceKinds(kit)
      /\ \A kind \in SourceKinds(kit) : \E i \in 1 .. n : Order[i] = kind
  <2>1. /\ Order[1] = "request" /\ Order[2] = "resolved_parameters" /\ Order[3] = "model"
        /\ Order[4] = "scenario" /\ Order[5] = "parameter_schema"
    BY DEF Order
  <2>2. CASE kit \in WithSchema
    <3>1. 1 .. n = {1, 2, 3, 4, 5}
      BY <2>2
    <3> HIDE DEF n
    <3> QED BY <2>1, <2>2, <3>1 DEF SourceKinds
  <2>3. CASE kit \notin WithSchema
    <3>1. 1 .. n = {1, 2, 3, 4}
      BY <2>3
    <3> HIDE DEF n
    <3> QED BY <2>1, <2>3, <3>1 DEF SourceKinds
  <2> QED BY <2>2, <2>3
<1> HIDE DEF a, n, kinds
<1>10. /\ \A i \in 1 .. Len(a) :
            /\ a[i].kind \in SourceKinds(kit)
            /\ a[i].qualification = Qualification(a[i].kind)
            /\ a[i].sha256 = ContentOf(c, kit, v, a[i].kind)
       /\ \A kind \in SourceKinds(kit) : \E i \in 1 .. Len(a) : a[i].kind = kind
       /\ \A i, j \in 1 .. Len(a) :
            i < j => Position(Order, a[i].kind) < Position(Order, a[j].kind)
  BY <1>3, <1>6, <1>7, <1>8, <1>9
<1>11. Listed(a, c, kit, v, SourceKinds(kit))
  BY <1>7, <1>10 DEF Listed
<1> QED BY <1>11 DEF a, kinds, n

\* parseSimulateInput to the engine probe: nothing is on disk yet.
LEMMA ResolveKeeps ==
  ASSUME HistoryInv, NEW d \in Call, Resolve(d)
  PROVE  HistoryInv'
<1>1. /\ at[d] = "idle" /\ UNCHANGED <<store, readers, world, runnerVars>> /\ TypeOK /\ ShapeOK
  BY DEF Resolve, HistoryInv
<1>2. /\ UNCHANGED <<ledger, directory, file, readers, runnerVars>>
      /\ UNCHANGED <<kits, disturbed, damaged>>
  BY <1>1 DEF store, world
<1>3. CASE Step(d, "refused") /\ UNCHANGED plan
  <2>1. plan \in [Call -> Plans \cup {Nothing}] /\ plan[d] = Nothing
    BY <1>1 DEF TypeOK
  <2>2. End(d, "refused")
    BY <1>3, <2>1 DEF End
  <2> QED BY <1>1, <1>2, <2>2, EndKeeps
<1>4. ASSUME NEW kit \in kits, NEW v \in Reviewed,
             plan' = [plan EXCEPT ![d] =
                       [kit |-> kit, resolved |-> v, engine |-> Qualified,
                        started |-> Nothing, status |-> Nothing,
                        metrics |-> {}, artifacts |-> <<>>]],
             Step(d, "resolved")
      PROVE  HistoryInv'
  <2> DEFINE p == [kit |-> kit, resolved |-> v, engine |-> Qualified,
                   started |-> Nothing, status |-> Nothing,
                   metrics |-> {}, artifacts |-> <<>>]
  <2>1. kit \in Kit
    BY <1>1, HistoricalConstants DEF TypeOK
  <2>2. p \in Plans
    BY <2>1 DEF Plans
  <2>3. p.kit = kit /\ p.resolved = v /\ p.artifacts = <<>>
    OBVIOUS
  <2>4. plan' = [plan EXCEPT ![d] = p]
    BY <1>4
  <2> HIDE DEF p
  <2>5. at'[d] = "resolved" /\ plan'[d] = p
    BY <1>1, <1>4, <2>4 DEF TypeOK, Step
  <2>6. Listed(p.artifacts, d, p.kit, p.resolved, Written("resolved", p.kit, output'[d].result))
    BY <2>3, NoArtifacts DEF Written
  <2>7. WritingOK(d)' /\ VerdictOK(d)'
    BY <2>2, <2>5, <2>6 DEF WritingOK, VerdictOK
  <2>8. file' = [file EXCEPT ![d] = file[d]]
    BY <1>1, <1>2 DEF ShapeOK, Run
  <2>9. p # Nothing /\ "resolved" \in Label \ {"answered"} /\ "resolved" \notin {"idle"} \cup Ended
    BY <2>2, HistoricalConstants DEF Label, Ended
  <2>10. directory \subseteq Run
    BY <1>1 DEF TypeOK
  <2> QED BY <1>1, <1>2, <1>4, <2>2, <2>4, <2>7, <2>8, <2>9, <2>10, SimulateStep
<1> QED BY <1>1, <1>3, <1>4 DEF Resolve

\* reserve and promote: the directory, and started_at after it.
LEMMA PromoteKeeps ==
  ASSUME HistoryInv, NEW d \in Call, Promote(d)
  PROVE  HistoryInv'
<1>1. /\ at[d] = "resolved" /\ TypeOK /\ ShapeOK /\ WritingOK(d)
      /\ UNCHANGED <<ledger, file, readers, runnerVars>>
      /\ UNCHANGED <<kits, disturbed, damaged>>
  BY DEF Promote, HistoryInv, world
<1>2. CASE End(d, "refused") /\ UNCHANGED directory
  BY <1>1, <1>2, EndKeeps
<1>3. ASSUME directory' = directory \cup {d}, NEW now \in Clock,
             plan' = [plan EXCEPT ![d].started = now], Step(d, "sources")
      PROVE  HistoryInv'
  <2> DEFINE p == [plan[d] EXCEPT !.started = now]
  <2>1. plan[d] \in Plans /\ Listed(plan[d].artifacts, d, plan[d].kit, plan[d].resolved, {})
    BY <1>1 DEF WritingOK, Written, Ended
  <2>2. p \in Plans /\ p.started = now /\ p.kit = plan[d].kit
          /\ p.resolved = plan[d].resolved /\ p.artifacts = plan[d].artifacts
    BY <2>1 DEF Plans
  <2>3. plan' = [plan EXCEPT ![d] = p]
    BY <1>3
  <2> HIDE DEF p
  <2>4. at'[d] = "sources" /\ plan'[d] = p
    BY <1>1, <1>3, <2>3 DEF TypeOK, Step
  <2>5. Listed(p.artifacts, d, p.kit, p.resolved, Written("sources", p.kit, output'[d].result))
    BY <2>1, <2>2 DEF Written
  <2>6. WritingOK(d)' /\ VerdictOK(d)'
    BY <2>2, <2>4, <2>5 DEF WritingOK, VerdictOK
  <2>7. file' = [file EXCEPT ![d] = file[d]]
    BY <1>1 DEF ShapeOK, Run
  <2>8. p # Nothing /\ "sources" \in Label \ {"answered"} /\ "sources" \notin {"idle"} \cup Ended
    BY <2>2, HistoricalConstants DEF Label, Ended
  <2>9. directory' \subseteq Run
    BY <1>1, <1>3 DEF TypeOK, Run
  <2> QED BY <1>1, <1>3, <2>2, <2>3, <2>6, <2>7, <2>8, <2>9, SimulateStep
<1> QED BY <1>2, <1>3 DEF Promote

\* A write that throws ends the call.
LEMMA WriteThrowsKeeps ==
  ASSUME HistoryInv, NEW d \in Call, WriteThrows(d)
  PROVE  HistoryInv'
<1>1. /\ at[d] \in {"sources", "diagnosed", "normalized", "attested", "execute"}
      /\ End(d, "threw") /\ TypeOK
      /\ UNCHANGED <<ledger, directory, file, readers, runnerVars>>
      /\ UNCHANGED <<kits, disturbed, damaged>>
  BY DEF WriteThrows, HistoryInv, store
<1>2. d \in directory /\ at[d] # "answered"
  BY <1>1 DEF TypeOK
<1> QED BY <1>1, <1>2, EndKeeps

\* The content of the generated script is what is digested of it.
LEMMA ScriptContent ==
  ASSUME NEW d \in Call, plan[d] \in Plans
  PROVE  /\ Script(d) \in Contents
         /\ Script(d) = ContentOf(d, plan[d].kit, plan[d].resolved, "script")
<1>1. plan[d].kit \in Kit /\ plan[d].resolved \in Reviewed
  BY DEF Plans
<1>2. Script(d) \in Scripts
  BY <1>1 DEF Script, Scripts
<1> QED BY <1>2 DEF Contents, ContentOf, Script

\* The kit and its script are on disk before the solver starts.
LEMMA WriteSourcesKeeps ==
  ASSUME HistoryInv, NEW d \in Call, WriteSources(d)
  PROVE  HistoryInv'
<1> DEFINE kit == plan[d].kit
           kinds == SubSeq(Order, 1, IF kit \in WithSchema THEN 5 ELSE 4)
           sources == [i \in DOMAIN kinds |-> Artifact(kinds[i], Source(kinds[i], kit))]
           new == sources \o <<Artifact("script", Script(d))>>
           p == [plan[d] EXCEPT !.artifacts = new]
<1>1. /\ at[d] = "sources" /\ TypeOK /\ ShapeOK /\ WritingOK(d)
      /\ Write(d, new) /\ plan' = [plan EXCEPT ![d] = p] /\ Step(d, "execute")
      /\ UNCHANGED <<ledger, directory, readers, runnerVars>>
      /\ UNCHANGED <<kits, disturbed, damaged>>
  BY DEF WriteSources, HistoryInv, world, Write
<1>2. plan[d] \in Plans /\ plan[d].started \in Clock
  BY <1>1 DEF WritingOK, Ended
<1>3. kit \in Kit
  BY <1>2 DEF Plans
<1>4. Listed(sources, d, kit, plan[d].resolved, SourceKinds(kit))
  BY <1>3, SourcesListed
<1> HIDE DEF sources, kinds
<1>5. Artifact("script", Script(d)) \in ArtifactRecord
  BY <1>2, ScriptContent, ArtifactTypes, OrderOfKinds
<1>6. \A k \in SourceKinds(kit) : Position(Order, k) < Position(Order, "script")
  BY Positions DEF SourceKinds
<1>7. Listed(new, d, kit, plan[d].resolved, SourceKinds(kit) \cup {"script"})
  BY <1>2, <1>4, <1>5, <1>6, ScriptContent, ListedAppend
<1> HIDE DEF new
<1>8. new \in Seq(ArtifactRecord)
  BY <1>7 DEF Listed
<1>9. /\ p \in Plans /\ p.started \in Clock /\ p.kit = kit
      /\ p.resolved = plan[d].resolved /\ p.artifacts = new
  BY <1>2, <1>8 DEF Plans
<1> HIDE DEF p
<1>10. at'[d] = "execute" /\ plan'[d] = p
  BY <1>1 DEF TypeOK, Step
<1>11. Listed(p.artifacts, d, p.kit, p.resolved, Written("execute", p.kit, output'[d].result))
  BY <1>7, <1>9 DEF Written
<1>12. WritingOK(d)' /\ VerdictOK(d)'
  BY <1>9, <1>10, <1>11 DEF WritingOK, VerdictOK
<1>13. PICK f : file' = [file EXCEPT ![d] = f]
  BY <1>1 DEF Write
<1>14. p # Nothing /\ "execute" \in Label \ {"answered"} /\ "execute" \notin {"idle"} \cup Ended
  BY <1>9, HistoricalConstants DEF Label, Ended
<1>15. directory \subseteq Run /\ d \in directory
  BY <1>1 DEF TypeOK
<1> QED BY <1>1, <1>9, <1>12, <1>13, <1>14, <1>15, SimulateStep

\* The diagnostics of the runner, and its status.
LEMMA WriteDiagnosticsKeeps ==
  ASSUME HistoryInv, NEW d \in Call, WriteDiagnostics(d)
  PROVE  HistoryInv'
<1> DEFINE log == <<"log", d>>
           new == <<Artifact("diagnostics", log)>>
           old == plan[d].artifacts
           p == [plan[d] EXCEPT !.artifacts = old \o new, !.status = output[d].status]
<1>1. /\ at[d] = "execute" /\ output[d] # NoOutput
      /\ TypeOK /\ ShapeOK /\ WritingOK(d)
      /\ Write(d, new) /\ Step(d, "diagnosed")
      /\ UNCHANGED <<ledger, directory, readers, runnerVars, output>>
      /\ UNCHANGED <<kits, disturbed, damaged>>
  BY DEF WriteDiagnostics, HistoryInv, world, Write, runnerVars
<1>2. plan' = [plan EXCEPT ![d] = p]
  BY DEF WriteDiagnostics
<1>3. /\ plan[d] \in Plans /\ plan[d].started \in Clock
      /\ Listed(old, d, plan[d].kit, plan[d].resolved, SourceKinds(plan[d].kit) \cup {"script"})
  BY <1>1 DEF WritingOK, Ended, Written
<1>4. log \in Contents /\ log = ContentOf(d, plan[d].kit, plan[d].resolved, "diagnostics")
  BY DEF Contents, Outputs, ContentOf
<1> HIDE DEF log
<1>5. Artifact("diagnostics", log) \in ArtifactRecord
  BY <1>4, ArtifactTypes, OrderOfKinds
<1>6. \A k \in SourceKinds(plan[d].kit) \cup {"script"} :
        Position(Order, k) < Position(Order, "diagnostics")
  BY Positions DEF SourceKinds
<1>7. Listed(old \o new, d, plan[d].kit, plan[d].resolved,
             SourceKinds(plan[d].kit) \cup {"script"} \cup {"diagnostics"})
  BY <1>3, <1>4, <1>5, <1>6, ListedAppend
<1>8. old \o new \in Seq(ArtifactRecord)
  BY <1>7 DEF Listed
<1>9. output[d].status \in Status
  BY <1>1 DEF TypeOK, RunnerOutput, Status
<1> HIDE DEF new, old
<1>10. /\ p \in Plans /\ p.started \in Clock /\ p.kit = plan[d].kit
       /\ p.resolved = plan[d].resolved /\ p.artifacts = old \o new
       /\ p.status = output[d].status
  BY <1>3, <1>8, <1>9 DEF Plans
<1> HIDE DEF p
<1>11. at'[d] = "diagnosed" /\ plan'[d] = p
  BY <1>1, <1>2 DEF TypeOK, Step
<1>12. Written("diagnosed", p.kit, output'[d].result)
         = SourceKinds(plan[d].kit) \cup {"script"} \cup {"diagnostics"}
  BY <1>10 DEF Written
<1>13. WritingOK(d)' /\ VerdictOK(d)'
  BY <1>1, <1>7, <1>10, <1>11, <1>12 DEF WritingOK, VerdictOK
<1>14. PICK f : file' = [file EXCEPT ![d] = f]
  BY <1>1 DEF Write
<1>15. /\ p # Nothing /\ "diagnosed" \in Label \ {"answered"}
       /\ "diagnosed" \notin {"idle"} \cup Ended
  BY <1>10, HistoricalConstants DEF Label, Ended
<1>16. directory \subseteq Run /\ d \in directory
  BY <1>1 DEF TypeOK
<1> QED BY <1>1, <1>2, <1>10, <1>13, <1>14, <1>15, <1>16, SimulateStep

\* result.csv belongs to a success, and the verdict to the metrics.
LEMMA NormalizeKeeps ==
  ASSUME HistoryInv, NEW d \in Call, Normalize(d)
  PROVE  HistoryInv'
<1> DEFINE solved == output[d].status = "succeeded" /\ output[d].result
           new == IF solved THEN <<Artifact("result", CsvText(d))>> ELSE <<>>
           old == plan[d].artifacts
           kinds == SourceKinds(plan[d].kit) \cup {"script", "diagnostics"}
<1>1. /\ at[d] = "diagnosed" /\ TypeOK /\ ShapeOK /\ WritingOK(d) /\ RunnerOK(d)
      /\ Write(d, new) /\ Step(d, "normalized")
      /\ UNCHANGED <<ledger, directory, readers, runnerVars, output>>
      /\ UNCHANGED <<kits, disturbed, damaged>>
  BY DEF Normalize, HistoryInv, world, Write, runnerVars
<1>2. PICK extracted \in {Nothing} \cup (IF solved THEN SUBSET Metric ELSE {}) :
        LET accepted == extracted # Nothing /\ ValidMetrics(plan[d].kit, extracted, TRUE)
        IN  plan' = [plan EXCEPT ![d].artifacts = old \o new,
                                 ![d].status = FinalStatus(d, accepted),
                                 ![d].metrics = IF accepted THEN extracted ELSE {}]
  BY DEF Normalize
<1> DEFINE accepted == extracted # Nothing /\ ValidMetrics(plan[d].kit, extracted, TRUE)
           status == FinalStatus(d, accepted)
           metrics == IF accepted THEN extracted ELSE {}
           p == [plan[d] EXCEPT !.artifacts = old \o new, !.status = status, !.metrics = metrics]
<1>3. plan' = [plan EXCEPT ![d] = p]
  BY <1>2
<1>4. /\ plan[d] \in Plans /\ plan[d].started \in Clock /\ output[d] # NoOutput
      /\ Listed(old, d, plan[d].kit, plan[d].resolved, kinds)
  BY <1>1 DEF WritingOK, Ended, Written
<1>5. output[d] \in RunnerOutput /\ solved = output[d].result
  BY <1>1, <1>4 DEF TypeOK, RunnerOK, RunnerOutput
<1>6. Listed(old \o new, d, plan[d].kit, plan[d].resolved,
             kinds \cup (IF solved THEN {"result"} ELSE {}))
  <2>1. CASE solved
    <3>1. /\ CsvText(d) \in Contents
          /\ CsvText(d) = ContentOf(d, plan[d].kit, plan[d].resolved, "result")
      BY DEF Contents, Outputs, ContentOf, CsvText
    <3>2. Artifact("result", CsvText(d)) \in ArtifactRecord
      BY <3>1, ArtifactTypes, OrderOfKinds
    <3>3. \A k \in kinds : Position(Order, k) < Position(Order, "result")
      BY Positions DEF SourceKinds
    <3>4. Listed(old \o <<Artifact("result", CsvText(d))>>, d, plan[d].kit, plan[d].resolved,
                 kinds \cup {"result"})
      BY <1>4, <3>1, <3>2, <3>3, ListedAppend
    <3> QED BY <2>1, <3>4
  <2>2. CASE ~ solved
    <3>1. old \o <<>> = old
      BY <1>4 DEF Listed
    <3> QED BY <1>4, <2>2, <3>1
  <2> QED BY <2>1, <2>2
<1>7. accepted => solved /\ extracted \in SUBSET Metric
  BY <1>2
<1>8. metrics \in SUBSET Metric /\ metrics \subseteq Produced[plan[d].kit]
        /\ (accepted => Required[plan[d].kit] \subseteq metrics) /\ (~ accepted => metrics = {})
  BY <1>7 DEF ValidMetrics
<1>9. /\ status \in Status
      /\ status = "succeeded" => accepted
      /\ accepted => status = "succeeded"
      /\ status = "timed_out" => output[d].status = "timed_out"
  BY <1>5, <1>7 DEF FinalStatus, Status, RunnerOutput
<1>10. old \o new \in Seq(ArtifactRecord)
  BY <1>6 DEF Listed
<1> HIDE DEF status, metrics, new, old, accepted
<1>11. /\ p \in Plans /\ p.started \in Clock /\ p.kit = plan[d].kit
       /\ p.resolved = plan[d].resolved /\ p.artifacts = old \o new
       /\ p.status = status /\ p.metrics = metrics
  BY <1>4, <1>8, <1>9, <1>10 DEF Plans
<1> HIDE DEF p
<1>12. at'[d] = "normalized" /\ plan'[d] = p
  BY <1>1, <1>3 DEF TypeOK, Step
<1>13. Written("normalized", p.kit, output'[d].result)
         = kinds \cup (IF solved THEN {"result"} ELSE {})
  BY <1>1, <1>5, <1>11 DEF Written
<1>14. VerdictOK(d)'
  <2>1. VerdictOf(p, output[d].result, output[d].status)
    BY <1>5, <1>7, <1>8, <1>9, <1>11 DEF VerdictOf
  <2> QED BY <1>1, <1>12, <2>1 DEF VerdictOK
<1> HIDE DEF solved, kinds
<1>15. WritingOK(d)'
  BY <1>1, <1>4, <1>6, <1>11, <1>12, <1>13 DEF WritingOK
<1>16. PICK f : file' = [file EXCEPT ![d] = f]
  BY <1>1 DEF Write
<1>17. /\ p # Nothing /\ "normalized" \in Label \ {"answered"}
       /\ "normalized" \notin {"idle"} \cup Ended
  BY <1>11, HistoricalConstants DEF Label, Ended
<1>18. directory \subseteq Run /\ d \in directory
  BY <1>1 DEF TypeOK
<1> QED BY <1>1, <1>3, <1>11, <1>14, <1>15, <1>16, <1>17, <1>18, SimulateStep

\* The digest of a kind that is appended is that of what is appended.
LEMMA AppendedDigest ==
  ASSUME NEW a, a \in Seq(ArtifactRecord), NEW kind, ~ Has(a, kind), NEW content,
         Artifact(kind, content) \in ArtifactRecord
  PROVE  Digest(a \o <<Artifact(kind, content)>>, kind) = content
<1> DEFINE x == Artifact(kind, content)
           b == a \o <<x>>
<1>1. x.kind = kind /\ x.sha256 = content
  BY DEF Artifact
<1> HIDE DEF x
<1>2. /\ b \in Seq(ArtifactRecord) /\ Len(a) \in Nat /\ Len(b) = Len(a) + 1
      /\ \A i \in 1 .. Len(a) : b[i] = a[i]
      /\ b[Len(a) + 1] = x
  <2>1. <<x>> \in Seq(ArtifactRecord) /\ Len(<<x>>) = 1 /\ <<x>>[1] = x
    BY DEF x
  <2> QED BY <2>1, ConcatProperties
<1> HIDE DEF b
<1>3. Len(b) \in 1 .. Len(b) /\ b[Len(b)] = x
  BY <1>2
<1>4. Has(b, kind)
  BY <1>1, <1>2, <1>3 DEF Has
<1>5. PICK i \in 1 .. Len(b) : b[i].kind = kind /\ Digest(b, kind) = b[i].sha256
  BY <1>2, <1>4, DigestOfKind
<1>6. i \notin 1 .. Len(a)
  <2> SUFFICES ASSUME i \in 1 .. Len(a) PROVE FALSE
    OBVIOUS
  <2>1. a[i].kind = kind
    BY <1>2, <1>5
  <2> QED BY <2>1 DEF Has
<1>7. b[i] = x
  BY <1>2, <1>5, <1>6
<1> QED BY <1>1, <1>5, <1>7 DEF b, x

\* What buildExecutionAttestation does not refuse is an attestation, and that
\* of a result names the CSV.
LEMMA AttestationTypes ==
  ASSUME NEW c \in Call, NEW input \in Fingerprints, NEW engine \in Engine,
         NEW script \in Scripts, NEW status \in Status, NEW raw \in RawOutput,
         NEW persisted \in {CsvText(c), Nothing},
         Attestation(input, engine, script, status, raw, CsvText(c), persisted) # Nothing
  PROVE  LET attestation ==
               Attestation(input, engine, script, status, raw, CsvText(c), persisted)
         IN  /\ attestation \in Attestations
             /\ attestation.input = input /\ attestation.engine = engine
             /\ attestation.script = script /\ attestation.status = status
             /\ raw = Captured("captured") =>
                  attestation.raw_csv = RawCsv("captured", CsvText(c))
<1> DEFINE rawCsv == RawCsvFrom(raw, CsvText(c), persisted)
<1>1. CsvText(c) \in Outputs
  BY DEF CsvText, Outputs
<1>2. rawCsv # Nothing
  BY DEF Attestation
<1>3. rawCsv \in [status : {"captured", "rejected", "absent"}, sha256 : Outputs \cup {Nothing}]
  <2>1. CASE raw.capture = "unavailable"
    BY <1>1, <2>1 DEF RawCsvFrom, RawCsv
  <2>2. CASE raw \in {Captured(s) : s \in {"captured", "rejected", "absent"}}
    <3>1. PICK s \in {"captured", "rejected", "absent"} : raw = Captured(s)
      BY <2>2
    <3>2. raw.capture = "captured" /\ raw.csv = s
      BY <3>1 DEF Captured
    <3>3. CASE s = "captured"
      <4>1. rawCsv = IF persisted \in {Nothing, CsvText(c)} THEN RawCsv("captured", CsvText(c))
                                                            ELSE Nothing
        BY <3>2, <3>3 DEF RawCsvFrom
      <4> QED BY <1>1, <4>1 DEF RawCsv
    <3>4. CASE s # "captured" /\ persisted # Nothing
      <4>1. rawCsv = Nothing
        BY <3>2, <3>4 DEF RawCsvFrom
      <4> QED BY <1>2, <4>1
    <3>5. CASE s = "rejected" /\ persisted = Nothing
      <4>1. rawCsv = RawCsv("rejected", CsvText(c))
        BY <3>2, <3>5 DEF RawCsvFrom
      <4> QED BY <1>1, <4>1 DEF RawCsv
    <3>6. CASE s = "absent" /\ persisted = Nothing
      <4>1. rawCsv = RawCsv("absent", Nothing)
        BY <3>2, <3>6 DEF RawCsvFrom
      <4> QED BY <4>1 DEF RawCsv
    <3> QED BY <3>3, <3>4, <3>5, <3>6
  <2>3. raw \in {Captured(s) : s \in {"captured", "rejected", "absent"}}
          \/ raw.capture = "unavailable"
    BY DEF RawOutput, Unavailable
  <2> QED BY <2>1, <2>2, <2>3
<1>4. CompilerOutput(raw) \in
        {"captured", "spawn_failed", "timed_out_without_output", "runner_seam"}
  BY DEF CompilerOutput, RawOutput, Captured, Unavailable
<1>5. raw = Captured("captured") => rawCsv = RawCsv("captured", CsvText(c))
  <2> SUFFICES ASSUME raw = Captured("captured") PROVE rawCsv = RawCsv("captured", CsvText(c))
    OBVIOUS
  <2>1. raw.capture = "captured" /\ raw.csv = "captured"
    BY DEF Captured
  <2> QED BY <2>1 DEF RawCsvFrom
<1> HIDE DEF rawCsv
<1>6. Attestation(input, engine, script, status, raw, CsvText(c), persisted) =
        [input |-> input, engine |-> engine, script |-> script, status |-> status,
         raw_csv |-> rawCsv, compiler_output |-> CompilerOutput(raw)]
  BY DEF Attestation, rawCsv
<1> QED BY <1>3, <1>4, <1>5, <1>6 DEF Attestations

\* evidence.json attests the final status, or simulate throws.
LEMMA WriteEvidenceKeeps ==
  ASSUME HistoryInv, NEW d \in Call, WriteEvidence(d)
  PROVE  HistoryInv'
<1> DEFINE q == plan[d]
           old == q.artifacts
           input == Fingerprint(Identity(d))
           persisted == Digest(old, "result")
           attestation == Attestation(input, q.engine, Digest(old, "script"),
                            StatusToAttest(d), output[d].raw, CsvText(d), persisted)
           evidence == [status |-> q.status, attestation |-> attestation]
           new == <<Artifact("evidence", evidence)>>
           p == [q EXCEPT !.artifacts = old \o new]
           result == output[d].result
           kinds == SourceKinds(q.kit) \cup {"script", "diagnostics"} \cup
                    (IF result THEN {"result"} ELSE {})
<1>1. /\ at[d] = "normalized" /\ TypeOK /\ ShapeOK /\ WritingOK(d) /\ RunnerOK(d)
      /\ VerdictOK(d)
      /\ UNCHANGED <<readers, runnerVars, output>> /\ UNCHANGED <<kits, disturbed, damaged>>
  BY DEF WriteEvidence, HistoryInv, world, runnerVars
<1>2. /\ q \in Plans /\ q.started \in Clock /\ output[d] # NoOutput
      /\ Listed(old, d, q.kit, q.resolved, kinds)
  BY <1>1 DEF WritingOK, Ended, Written
<1>3. output[d] \in RunnerOutput /\ VerdictOf(q, result, output[d].status)
  BY <1>1, <1>2 DEF TypeOK, VerdictOK
<1>4. directory \subseteq Run /\ d \in directory
  BY <1>1 DEF TypeOK
<1>5. CASE attestation = Nothing
  <2>1. End(d, "threw") /\ UNCHANGED <<ledger, directory, file>>
    BY <1>5 DEF WriteEvidence, store
  <2> QED BY <1>1, <1>4, <2>1, EndKeeps
<1>6. CASE attestation # Nothing
  <2>1. /\ Write(d, new) /\ plan' = [plan EXCEPT ![d] = p] /\ Step(d, "attested")
        /\ UNCHANGED <<ledger, directory>>
    BY <1>6 DEF WriteEvidence, Write
  <2>2. /\ q.kit \in Kit /\ q.engine \in Engine /\ q.resolved \in Reviewed
    BY <1>2, RecordConstants DEF Plans
  <2>3. input \in Fingerprints
    BY <2>2 DEF Fingerprint, Identity, Fingerprints, Schemas, SchemaOf
  <2>4. Digest(old, "script") = <<"script", q.kit, q.resolved>>
          /\ Digest(old, "script") \in Scripts
    <3>1. Digest(old, "script") = ContentOf(d, q.kit, q.resolved, "script")
      BY <1>2, ListedKinds
    <3> QED BY <2>2, <3>1 DEF ContentOf, Scripts
  <2>5. persisted \in {CsvText(d), Nothing}
    <3>1. ("result" \in kinds => persisted = ContentOf(d, q.kit, q.resolved, "result"))
            /\ ("result" \notin kinds => persisted = Nothing)
      BY <1>2, ListedKinds
    <3> QED BY <3>1 DEF ContentOf
  <2>6. output[d].raw \in RawOutput /\ (result => output[d].raw = Captured("captured"))
    BY <1>1, <1>2, <1>3 DEF RunnerOutput, RunnerOK
  <2>7. StatusToAttest(d) = q.status /\ q.status \in Status
    BY <1>3 DEF StatusToAttest, VerdictOf
  <2> HIDE DEF input, persisted
  <2>8. /\ attestation \in Attestations
        /\ attestation.input = input /\ attestation.engine = q.engine
        /\ attestation.script = <<"script", q.kit, q.resolved>>
        /\ attestation.status = q.status
        /\ result => attestation.raw_csv = RawCsv("captured", CsvText(d))
    BY <1>6, <2>2, <2>3, <2>4, <2>5, <2>6, <2>7, AttestationTypes
  <2> HIDE DEF attestation
  <2>9. evidence \in Evidence /\ evidence.attestation = attestation
    BY <2>7, <2>8 DEF Evidence
  <2> HIDE DEF evidence
  <2>10. Artifact("evidence", evidence) \in ArtifactRecord
    BY <2>9, ArtifactTypes
  <2>11. \A k \in kinds : Position(Order, k) < Position(Order, "evidence")
    BY Positions DEF SourceKinds
  <2>12. "evidence" \notin kinds
    BY DEF SourceKinds
  <2> HIDE DEF kinds
  <2>13. Listed(old \o new, d, q.kit, q.resolved, kinds \cup {"evidence"})
    BY <1>2, <2>10, <2>11, ListedAppend
  <2>14. Digest(old \o new, "evidence") = evidence
    <3>1. ~ Has(old, "evidence")
      BY <1>2, <2>12, ListedKinds
    <3>2. old \in Seq(ArtifactRecord)
      BY <1>2 DEF Listed
    <3> QED BY <2>10, <3>1, <3>2, AppendedDigest
  <2>15. file'[d]["evidence"] = evidence
    <3>1. Has(new, "evidence") /\ Digest(new, "evidence") = evidence
      BY SingleArtifact
    <3> HIDE DEF new
    <3>2. "evidence" \in Kind
      BY OrderOfKinds
    <3>3. file = [u \in Run |-> file[u]] /\ d \in Run
      BY <1>1 DEF ShapeOK, Run
    <3>4. file' = [file EXCEPT ![d] = [k \in Kind |->
                     IF Has(new, k) THEN Digest(new, k) ELSE file[d][k]]]
      BY <2>1 DEF Write
    <3>5. file'[d] = [k \in Kind |-> IF Has(new, k) THEN Digest(new, k) ELSE file[d][k]]
      BY <3>3, <3>4
    <3> QED BY <3>1, <3>2, <3>5
  <2>16. old \o new \in Seq(ArtifactRecord)
    BY <2>13 DEF Listed
  <2> HIDE DEF new
  <2>17. /\ p \in Plans /\ p.started \in Clock /\ p.kit = q.kit /\ p.engine = q.engine
         /\ p.resolved = q.resolved /\ p.artifacts = old \o new
         /\ p.status = q.status /\ p.metrics = q.metrics
    BY <1>2, <2>16 DEF Plans
  <2> HIDE DEF p
  <2>18. at'[d] = "attested" /\ plan'[d] = p
    BY <1>1, <2>1 DEF TypeOK, Step
  <2>19. Written("attested", p.kit, output'[d].result) = kinds \cup {"evidence"}
    BY <1>1, <2>17 DEF Written, kinds
  <2>20. VerdictOK(d)'
    <3>1. VerdictOf(p, output[d].result, output[d].status)
      BY <1>3, <2>17 DEF VerdictOf
    <3> QED BY <1>1, <2>18, <3>1 DEF VerdictOK
  <2>21. Fingerprint(Identity(d))' = input
    BY <2>17, <2>18 DEF Identity, input, Fingerprint
  <2>22. AttestedOK(p, evidence, input, d, result)
    BY <2>8, <2>9, <2>17 DEF AttestedOK
  <2>23. WritingOK(d)'
    <3>1. Listed(p.artifacts, d, p.kit, p.resolved, Written("attested", p.kit, output'[d].result))
      BY <2>13, <2>17, <2>19
    <3>2. Digest(p.artifacts, "evidence") = evidence
      BY <2>14, <2>17
    <3>3. output'[d] # NoOutput /\ output'[d].result = result
      BY <1>1, <1>2
    <3> HIDE DEF result
    <3> QED BY <2>15, <2>17, <2>18, <2>21, <2>22, <3>1, <3>2, <3>3 DEF WritingOK
  <2>24. PICK f : file' = [file EXCEPT ![d] = f]
    BY <2>1 DEF Write
  <2>25. /\ p # Nothing /\ "attested" \in Label \ {"answered"}
         /\ "attested" \notin {"idle"} \cup Ended
    BY <2>17, HistoricalConstants DEF Label, Ended
  <2> QED BY <1>1, <1>4, <2>1, <2>17, <2>20, <2>23, <2>24, <2>25, SimulateStep
<1> QED BY <1>5, <1>6

\* run.json says what simulate had in its hands, and the call is answered.
LEMMA WriteRunRecordKeeps ==
  ASSUME HistoryInv, NEW d \in Call, WriteRunRecord(d)
  PROVE  HistoryInv'
<1> DEFINE p == plan[d]
           print == Fingerprint(Identity(d))
           result == output[d].result
           evidence == Digest(p.artifacts, "evidence")
<1>1. PICK now \in Clock :
        /\ ledger' = [ledger EXCEPT ![d] =
             [generation |-> "2.0", status |-> p.status, started |-> p.started,
              completed |-> now, kit |-> p.kit, engine |-> p.engine,
              resolved |-> p.resolved, schema |-> SchemaOf(p.kit), metrics |-> p.metrics,
              artifacts |-> p.artifacts, fingerprint |-> print]]
        /\ disturbed' = IF now < p.started THEN disturbed \cup {d} ELSE disturbed
  BY DEF WriteRunRecord
<1> DEFINE run == [generation |-> "2.0", status |-> p.status, started |-> p.started,
                   completed |-> now, kit |-> p.kit, engine |-> p.engine,
                   resolved |-> p.resolved, schema |-> SchemaOf(p.kit),
                   metrics |-> p.metrics, artifacts |-> p.artifacts, fingerprint |-> print]
<1>2. /\ at[d] = "attested" /\ TypeOK /\ ShapeOK /\ WritingOK(d) /\ RunnerOK(d)
      /\ VerdictOK(d) /\ LedgerOK(d) /\ End(d, "answered")
      /\ UNCHANGED <<directory, file, readers, kits, damaged>>
      /\ UNCHANGED <<runner, child, pipes, csv, output>>
  BY DEF WriteRunRecord, HistoryInv, runnerVars
<1>3. /\ p \in Plans /\ p.started \in Clock /\ output[d] # NoOutput
      /\ Listed(p.artifacts, d, p.kit, p.resolved, Written("attested", p.kit, result))
      /\ file[d]["evidence"] = evidence
      /\ AttestedOK(p, evidence, print, d, result)
  BY <1>2 DEF WritingOK, Ended
<1>4. VerdictOf(p, result, output[d].status)
  BY <1>2 DEF VerdictOK
<1>5. result \in BOOLEAN
  BY <1>2, <1>3 DEF TypeOK, RunnerOutput
<1>6. p.kit \in Kit /\ p.engine = Qualified /\ p.resolved \in Reviewed /\ p.engine \in Engine
  BY <1>3, RecordConstants DEF Plans
<1>7. print = <<p.engine, p.kit, SchemaOf(p.kit), p.resolved>>
  BY DEF Identity, Fingerprint
<1> HIDE DEF print, result, evidence
<1>8. SchemaOf(p.kit) \in Schemas /\ print \in Fingerprints
  BY <1>6, <1>7 DEF Schemas, SchemaOf, Fingerprints
<1>9. /\ run.generation = "2.0" /\ run.status = p.status /\ run.started = p.started
      /\ run.completed = now /\ run.kit = p.kit /\ run.engine = p.engine
      /\ run.resolved = p.resolved /\ run.schema = SchemaOf(p.kit)
      /\ run.metrics = p.metrics /\ run.artifacts = p.artifacts /\ run.fingerprint = print
  OBVIOUS
<1>10. run \in Ledgers
  <2>1. p.status \in Status
    BY <1>4 DEF VerdictOf
  <2>2. p.metrics \in SUBSET Metric /\ p.artifacts \in Seq(ArtifactRecord)
    BY <1>3 DEF Plans
  <2> QED BY <1>3, <1>6, <1>8, <2>1, <2>2 DEF Ledgers
<1>11. ledger' = [ledger EXCEPT ![d] = run]
  BY <1>1
<1> HIDE DEF run
<1>12. /\ at' \in [Call -> Label] /\ at'[d] = "answered"
       /\ \A c \in Call \ {d} : at'[c] = at[c]
  BY <1>2 DEF TypeOK, End, Step, Label
<1>13. /\ plan' \in [Call -> Plans \cup {Nothing}] /\ plan'[d] = Nothing
       /\ \A c \in Call \ {d} : plan'[c] = plan[c]
  BY <1>2 DEF TypeOK, End
<1>14. /\ ledger' = [u \in Run |-> ledger'[u]] /\ ledger'[d] = run
       /\ \A u \in Run \ {d} : ledger'[u] = ledger[u]
  BY <1>2, <1>11 DEF ShapeOK, Run
<1>15. d \in directory /\ directory \subseteq Run
  BY <1>2 DEF TypeOK
<1>16. disturbed \subseteq disturbed' /\ disturbed' \subseteq Call
  BY <1>1, <1>2 DEF TypeOK
<1>17. TypeOK'
  <2>1. \A c \in Call : ledger'[c] \in Ledgers \cup {Nothing, Torn}
    BY <1>2, <1>10, <1>14 DEF TypeOK, Run
  <2>2. \A c \in Call :
          /\ plan'[c] # Nothing <=> at'[c] \notin {"idle"} \cup Ended
          /\ at'[c] \notin {"idle", "resolved", "refused", "died"} => c \in directory'
          /\ ledger'[c] # Nothing => at'[c] = "answered" /\ c \in directory'
    BY <1>2, <1>12, <1>13, <1>14, <1>15 DEF TypeOK, Run, Ended
  <2> QED BY <1>2, <1>12, <1>13, <1>16, <2>1, <2>2 DEF TypeOK
<1>18. ShapeOK'
  BY <1>2, <1>14 DEF ShapeOK
<1>19. OthersKept(d)
  BY <1>2, <1>12, <1>13, <1>14 DEF OthersKept
<1>20. RunnerOK(d)'
  BY <1>2 DEF RunnerOK, Gone
<1>21. WritingOK(d)'
  BY <1>12 DEF WritingOK, Ended
<1>22. Has(run.artifacts, "result") = result
  <2>1. "result" \in Written("attested", p.kit, result) <=> result
    BY <1>5, WrittenKinds
  <2>2. Has(p.artifacts, "result") <=> "result" \in Written("attested", p.kit, result)
    BY <1>3, ListedKinds
  <2>3. Has(p.artifacts, "result") \in BOOLEAN
    BY DEF Has
  <2> QED BY <1>5, <1>9, <2>1, <2>2, <2>3
<1>23. VerdictOf(run, result, output[d].status)
  BY <1>4, <1>9 DEF VerdictOf
<1>24. VerdictOK(d)'
  BY <1>2, <1>12, <1>14, <1>22, <1>23 DEF VerdictOK, result
<1>25. LedgerOK(d)'
  <2>1. run # Torn
    BY <1>10, HistoricalConstants
  <2>2. run.schema = SchemaOf(run.kit) /\ run.fingerprint = Fingerprint(run)
    BY <1>7, <1>9 DEF Fingerprint
  <2>3. /\ run.metrics \subseteq Produced[run.kit]
        /\ run.status = "succeeded" => result /\ Required[run.kit] \subseteq run.metrics
    BY <1>23 DEF VerdictOf
  <2>4. run.started <= run.completed \/ d \in disturbed'
    BY <1>1, <1>3, <1>9, HistoricalConstants DEF Clock
  <2>5. Listed(run.artifacts, d, run.kit, run.resolved, Written("attested", run.kit, result))
    BY <1>3, <1>9
  <2>6. Digest(run.artifacts, "evidence") = evidence
    BY <1>9 DEF evidence
  <2>7. AttestedOK(run, evidence, run.fingerprint, d, result)
    BY <1>3, <1>9 DEF AttestedOK
  <2>8. file'[d]["evidence"] = evidence
    BY <1>2, <1>3
  <2> QED BY <1>2, <1>10, <1>14, <1>22, <2>1, <2>2, <2>3, <2>4, <2>5, <2>6, <2>7, <2>8
          DEF LedgerOK
<1>26. readers' = readers /\ kits' = kits /\ damaged' = damaged
  BY <1>2
<1>27. ledger[d] = Nothing
  BY <1>2, NotPublished
<1>28. CallOK(d)'
  BY <1>20, <1>21, <1>24, <1>25 DEF CallOK
<1> QED BY <1>16, <1>17, <1>18, <1>19, <1>26, <1>27, <1>28, CallStep

-----------------------------------------------------------------------------
(* The readers.                                                            *)

\* No ledger names a torn file.
LEMMA DigestsAreWhole ==
  ASSUME HistoryInv, NEW u \in Run, ledger[u] \notin {Nothing, Torn}, NEW kind \in Tearable,
         Has(ledger[u].artifacts, kind)
  PROVE  Digest(ledger[u].artifacts, kind) # Torn
<1>1. CASE u = Old
  <2>1. PICK old \in OldRun : ledger[Old] = old.ledger
    BY DEF HistoryInv, OldOK
  <2> QED BY <1>1, <2>1, OldRunIsWhole
<1>2. CASE u \in Call
  <2> PICK run : run = ledger[u]
    OBVIOUS
  <2> DEFINE result == Has(run.artifacts, "result")
             evidence == Digest(run.artifacts, "evidence")
             kinds == Written("attested", run.kit, result)
  <2>1. /\ Listed(run.artifacts, u, run.kit, run.resolved, kinds)
        /\ AttestedOK(run, evidence, run.fingerprint, u, result)
    BY <1>2 DEF HistoryInv, LedgerOK
  <2> HIDE DEF kinds
  <2>2. CASE kind = "evidence"
    <3>1. evidence \in Evidence
      BY <2>1 DEF AttestedOK
    <3> QED BY <2>2, <3>1, HistoricalConstants
  <2>3. CASE kind = "result"
    <3>1. Digest(run.artifacts, "result") = ContentOf(u, run.kit, run.resolved, "result")
      BY <2>1, <2>3, ListedKinds
    <3>2. Digest(run.artifacts, "result") \in Contents
      BY <1>2, <3>1 DEF ContentOf, CsvText, Contents, Outputs
    <3> QED BY <2>3, <3>2, HistoricalConstants
  <2> QED BY <2>2, <2>3 DEF Tearable
<1> QED BY <1>1, <1>2 DEF Run

\* A record of a reader.
IsReader(d) ==
  d = [op |-> d.op, todo |-> d.todo, began |-> d.began, answer |-> d.answer,
       accepted |-> d.accepted, outcome |-> d.outcome]

\* A step of one reader: what it knows then is to be shown.
LEMMA ReaderStep ==
  ASSUME HistoryInv, NEW r \in Reader, NEW d,
         readers' = [readers EXCEPT ![r] = d],
         UNCHANGED <<at, plan, store, world, runnerVars>>,
         IsReader(d), d.op \in {"none", "list", "get"},
         d.todo \subseteq Run, d.answer \subseteq Run, d.began \subseteq Stored,
         \A u \in d.answer : ledger[u] \notin {Nothing, Torn},
         d.outcome \in {"none", "answered"} => d.began \subseteq d.answer \cup d.todo,
         d.outcome = "answered" => d.todo = {},
         d.op = "list" /\ d.outcome \notin {"none", "answered"} =>
           damaged \/ disturbed # {} \/ \E u \in Stored : ledger[u].kit \notin kits,
         \A served \in d.accepted : served[3] # Torn
  PROVE  HistoryInv'
<1>1. /\ UNCHANGED <<at, plan, ledger, directory, file, kits, disturbed, damaged>>
      /\ UNCHANGED <<runner, child, pipes, csv, output>>
  BY DEF store, world, runnerVars
<1>2. TypeOK /\ ShapeOK /\ OldOK
  BY DEF HistoryInv
<1>3. /\ readers' = [q \in Reader |-> IF q = r THEN d ELSE readers[q]]
  BY <1>2 DEF ShapeOK
<1>5. TypeOK' /\ OldOK'
  BY <1>1, <1>2, SMTT(30) DEF TypeOK, OldOK
<1>6. ShapeOK'
  <2>1. \A q \in Reader : readers'[q] =
          [op |-> readers'[q].op, todo |-> readers'[q].todo, began |-> readers'[q].began,
           answer |-> readers'[q].answer, accepted |-> readers'[q].accepted,
           outcome |-> readers'[q].outcome]
    <3> TAKE q \in Reader
    <3>1. CASE q = r
      <4>1. readers'[q] = d
        BY <1>3, <3>1
      <4> QED BY <4>1 DEF IsReader
    <3>2. CASE q # r
      <4>1. readers'[q] = readers[q]
        BY <1>3, <3>2
      <4> QED BY <1>2, <4>1 DEF ShapeOK
    <3> QED BY <3>1, <3>2
  <2>2. readers' = [q \in Reader |-> readers'[q]]
    BY <1>3
  <2> QED BY <1>1, <1>2, <2>1, <2>2 DEF ShapeOK
<1>7. \A c \in Call : RunnerOK(c)' /\ WritingOK(c)' /\ VerdictOK(c)' /\ LedgerOK(c)'
  <2> SUFFICES ASSUME NEW c \in Call
               PROVE  RunnerOK(c)' /\ WritingOK(c)' /\ VerdictOK(c)' /\ LedgerOK(c)'
    OBVIOUS
  <2>1. RunnerOK(c) /\ WritingOK(c) /\ VerdictOK(c) /\ LedgerOK(c)
    BY DEF HistoryInv
  <2>2. RunnerOK(c)'
    BY <1>1, <2>1 DEF RunnerOK, Gone
  <2>3. WritingOK(c)'
    BY <1>1, <2>1 DEF WritingOK, Identity
  <2>4. VerdictOK(c)'
    BY <1>1, <2>1 DEF VerdictOK
  <2>5. LedgerOK(c)'
    BY <1>1, <2>1 DEF LedgerOK
  <2> QED BY <2>2, <2>3, <2>4, <2>5
<1>8. Stored' = Stored
  BY <1>1 DEF Stored
<1>9. \A q \in Reader : ReaderOK(q)'
  <2> TAKE q \in Reader
  <2>1. CASE q = r
    <3>1. readers'[q] = d
      BY <1>3, <2>1
    <3> QED BY <1>1, <1>8, <3>1 DEF ReaderOK
  <2>2. CASE q # r
    <3>1. ReaderOK(q) /\ readers'[q] = readers[q]
      BY <1>3, <2>2 DEF HistoryInv
    <3> QED BY <1>1, <1>8, <3>1 DEF ReaderOK
  <2> QED BY <2>1, <2>2
<1> QED BY <1>5, <1>6, <1>7, <1>9 DEF HistoryInv

\* run_list, run_get and the artifact resources begin with empty hands.
LEMMA ReadBeginsKeeps ==
  ASSUME HistoryInv, NEW r \in Reader, ReadBegins(r)
  PROVE  HistoryInv'
<1>1. PICK op \in {"list", "get"}, todo \in SUBSET directory :
        readers' = [readers EXCEPT ![r] =
                     [Idle EXCEPT !.op = op, !.todo = todo, !.began = Stored \cap todo]]
  BY DEF ReadBegins
<1> DEFINE d == [Idle EXCEPT !.op = op, !.todo = todo, !.began = Stored \cap todo]
<1>2. /\ d.op = op /\ d.todo = todo /\ d.began = Stored \cap todo
      /\ d.answer = {} /\ d.accepted = {} /\ d.outcome = "none"
  BY DEF Idle
<1>6. IsReader(d)
  <2>1. PICK i : i = Idle
    OBVIOUS
  <2>2. IsReader(i)
    BY <2>1 DEF Idle, IsReader
  <2>3. PICK began : began = Stored \cap todo
    OBVIOUS
  <2>4. d = [i EXCEPT !.op = op, !.todo = todo, !.began = began]
    BY <2>1, <2>3
  <2> HIDE DEF d
  <2> QED BY <2>2, <2>4 DEF IsReader
<1>3. readers' = [readers EXCEPT ![r] = d]
  BY <1>1
<1> HIDE DEF d
<1>4. UNCHANGED <<at, plan, store, world, runnerVars>>
  BY DEF ReadBegins
<1>5. todo \subseteq Run
  BY DEF HistoryInv, TypeOK
<1> QED BY <1>2, <1>3, <1>4, <1>5, <1>6, ReaderStep

\* What a reader does is such a record.
LEMMA ReaderRecord ==
  ASSUME HistoryInv, NEW r \in Reader
  PROVE  IsReader(readers[r])
BY DEF HistoryInv, ShapeOK, IsReader

\* A reader that stops on an error knows what it knew.
LEMMA FinishKeeps ==
  ASSUME HistoryInv, NEW r \in Reader, NEW outcome, Finish(r, outcome),
         UNCHANGED <<at, plan, store, world, runnerVars>>,
         outcome \in {"none", "answered"} =>
           readers[r].todo = {} /\ readers[r].outcome \in {"none", "answered"},
         readers[r].op = "list" /\ outcome \notin {"none", "answered"} =>
           damaged \/ disturbed # {} \/ \E u \in Stored : ledger[u].kit \notin kits
  PROVE  HistoryInv'
<1> PICK o : o = readers[r]
  OBVIOUS
<1>e. PICK todo : todo = {}
  OBVIOUS
<1>d. PICK d : d = [o EXCEPT !.outcome = outcome, !.todo = todo]
  OBVIOUS
<1>1. IsReader(o)
  BY ReaderRecord
<1>2. /\ IsReader(d)
      /\ d.op = o.op /\ d.todo = todo /\ d.began = o.began /\ d.answer = o.answer
      /\ d.accepted = o.accepted /\ d.outcome = outcome
  BY <1>1, <1>d DEF IsReader
<1>3. readers' = [readers EXCEPT ![r] = d]
  BY <1>d, <1>e DEF Finish
<1>4. ReaderOK(r)
  BY DEF HistoryInv
<1>5. /\ d.op \in {"none", "list", "get"}
      /\ d.todo \subseteq Run /\ d.answer \subseteq Run /\ d.began \subseteq Stored
      /\ \A u \in d.answer : ledger[u] \notin {Nothing, Torn}
      /\ d.outcome \in {"none", "answered"} => d.began \subseteq d.answer \cup d.todo
      /\ \A served \in d.accepted : served[3] # Torn
  BY <1>2, <1>4, <1>e DEF ReaderOK
<1> QED BY <1>2, <1>3, <1>5, <1>e, ReaderStep

\* A reader compares only what the ledger names.
LEMMA ReadRunKeeps ==
  ASSUME HistoryInv, NEW r \in Reader, ReadRun(r)
  PROVE  HistoryInv'
<1> PICK o : o = readers[r]
  OBVIOUS
<1>1. IsReader(o)
  BY ReaderRecord
<1>2. ReaderOK(r) /\ o.outcome = "none" /\ UNCHANGED <<at, plan, store, world, runnerVars>>
  BY DEF HistoryInv, ReadRun
<1>3. /\ o.op \in {"none", "list", "get"}
      /\ o.todo \subseteq Run /\ o.answer \subseteq Run /\ o.began \subseteq Stored
      /\ \A u \in o.answer : ledger[u] \notin {Nothing, Torn}
      /\ o.began \subseteq o.answer \cup o.todo
      /\ \A served \in o.accepted : served[3] # Torn
  BY <1>2, SMTT(30) DEF ReaderOK
<1>4. PICK u \in o.todo :
       CASE ledger[u] = Nothing ->
              IF MissingFails(o.op)
                THEN Finish(r, "not_found")
                ELSE readers' = [readers EXCEPT ![r].todo = @ \ {u}]
         [] ledger[u] # Nothing /\ ~ Readable(u) -> Finish(r, "invalid")
         [] OTHER -> readers' = [readers EXCEPT ![r].todo = @ \ {u},
                                                ![r].answer = @ \cup {u},
                                                ![r].accepted = @ \cup Compared(u)]
  BY DEF ReadRun
<1>5. u \in Run
  BY <1>3
<1>6. CASE ledger[u] = Nothing /\ o.op # "list"
  <2>1. Finish(r, "not_found")
    BY <1>4, <1>6 DEF MissingFails
  <2> QED BY <1>2, <1>6, <2>1, FinishKeeps
<1>7. CASE ledger[u] = Nothing /\ o.op = "list"
  <2>t. PICK todo, answer, accepted :
          todo = o.todo \ {u} /\ answer = o.answer /\ accepted = o.accepted
    OBVIOUS
  <2>d. PICK d : d = [o EXCEPT !.todo = todo, !.answer = answer, !.accepted = accepted]
    OBVIOUS
  <2>1. readers' = [readers EXCEPT ![r] = d]
    <3>1. readers' = [readers EXCEPT ![r] = [o EXCEPT !.todo = todo]]
      BY <1>4, <1>7, <2>t DEF MissingFails
    <3>2. d = [o EXCEPT !.todo = todo]
      BY <1>1, <2>d, <2>t DEF IsReader
    <3> QED BY <3>1, <3>2
  <2>2. /\ IsReader(d)
        /\ d.op = o.op /\ d.todo = todo /\ d.began = o.began /\ d.answer = answer
        /\ d.accepted = accepted /\ d.outcome = o.outcome
    BY <1>1, <2>d DEF IsReader
  <2>3. u \notin o.began
    BY <1>3, <1>7 DEF Stored
  <2> QED BY <1>2, <1>3, <2>1, <2>2, <2>3, <2>t, ReaderStep
<1>8. CASE ledger[u] # Nothing /\ ~ Readable(u)
  <2>1. Finish(r, "invalid")
    BY <1>4, <1>8
  <2>2. u \in Stored
    BY <1>5, <1>8 DEF Stored
  <2>3. damaged \/ disturbed # {} \/ ledger[u].kit \notin kits
    BY <1>8, <2>2, StoredIsReadable
  <2> QED BY <1>2, <2>1, <2>2, <2>3, FinishKeeps
<1>9. CASE ledger[u] # Nothing /\ Readable(u)
  <2>t. PICK todo, answer, accepted :
          /\ todo = o.todo \ {u} /\ answer = o.answer \cup {u}
          /\ accepted = o.accepted \cup Compared(u)
    OBVIOUS
  <2>d. PICK d : d = [o EXCEPT !.todo = todo, !.answer = answer, !.accepted = accepted]
    OBVIOUS
  <2>1. readers' = [readers EXCEPT ![r] = d]
    BY <1>4, <1>9, <2>d, <2>t
  <2>2. /\ IsReader(d)
        /\ d.op = o.op /\ d.todo = todo /\ d.began = o.began /\ d.answer = answer
        /\ d.accepted = accepted /\ d.outcome = o.outcome
    BY <1>1, <2>d DEF IsReader
  <2>4. ledger[u] \notin {Nothing, Torn}
    BY <1>9 DEF Readable, LedgerAccepted
  <2>5. \A served \in Compared(u) : served[3] # Torn
    <3> SUFFICES ASSUME ledger[u].generation = "2.0" PROVE file[u]["evidence"] # Torn
      BY DEF Compared
    <3>1. /\ Has(ledger[u].artifacts, "evidence")
          /\ file[u]["evidence"] = Digest(ledger[u].artifacts, "evidence")
      BY <1>9 DEF Readable, EvidenceAgrees
    <3>2. "evidence" \in Tearable
      BY DEF Tearable
    <3> QED BY <1>5, <2>4, <3>1, <3>2, DigestsAreWhole
  <2>6. /\ \A v \in d.answer : ledger[v] \notin {Nothing, Torn}
        /\ \A served \in d.accepted : served[3] # Torn
        /\ d.began \subseteq d.answer \cup d.todo
        /\ d.todo \subseteq Run /\ d.answer \subseteq Run
    BY <1>3, <1>5, <2>2, <2>4, <2>5, <2>t
  <2> QED BY <1>2, <1>3, <2>1, <2>2, <2>6, ReaderStep
<1> QED BY <1>6, <1>7, <1>8, <1>9

\* A listing ends when every directory has been read.
LEMMA ReadEndsKeeps ==
  ASSUME HistoryInv, NEW r \in Reader, ReadEnds(r)
  PROVE  HistoryInv'
<1>1. /\ readers[r].outcome = "none" /\ readers[r].todo = {} /\ Finish(r, "answered")
      /\ UNCHANGED <<at, plan, store, world, runnerVars>>
  BY DEF ReadEnds
<1> QED BY <1>1, FinishKeeps

\* A resource is served when it has the digest of the ledger.
LEMMA ReadArtifactKeeps ==
  ASSUME HistoryInv, NEW r \in Reader, ReadArtifact(r)
  PROVE  HistoryInv'
<1> PICK o : o = readers[r]
  OBVIOUS
<1>1. IsReader(o)
  BY ReaderRecord
<1>2. /\ ReaderOK(r) /\ o.outcome = "none" /\ o.op = "get" /\ o.todo = {}
      /\ UNCHANGED <<at, plan, store, world, runnerVars>>
  BY DEF HistoryInv, ReadArtifact
<1>3. PICK u \in o.answer, kind \in Tearable :
       /\ Has(ledger[u].artifacts, kind)
       /\ IF file[u][kind] = Digest(ledger[u].artifacts, kind)
            THEN readers' = [readers EXCEPT
                   ![r].accepted = @ \cup {<<u, kind, file[u][kind]>>},
                   ![r].outcome = "answered"]
            ELSE Finish(r, "invalid")
  BY DEF ReadArtifact
<1>4. CASE file[u][kind] # Digest(ledger[u].artifacts, kind)
  BY <1>2, <1>3, <1>4, FinishKeeps
<1>5. CASE file[u][kind] = Digest(ledger[u].artifacts, kind)
  <2> DEFINE served == <<u, kind, file[u][kind]>>
  <2>t. PICK accepted, outcome : accepted = o.accepted \cup {served} /\ outcome = "answered"
    OBVIOUS
  <2>d. PICK d : d = [o EXCEPT !.accepted = accepted, !.outcome = outcome]
    OBVIOUS
  <2>1. readers' = [readers EXCEPT ![r] = d]
    BY <1>3, <1>5, <2>d, <2>t
  <2>2. served[3] # Torn
    <3>1. u \in Run /\ ledger[u] \notin {Nothing, Torn}
      BY <1>2 DEF ReaderOK
    <3> QED BY <1>3, <1>5, <3>1, DigestsAreWhole
  <2> HIDE DEF served
  <2>3. /\ IsReader(d)
        /\ d.op = o.op /\ d.todo = o.todo /\ d.began = o.began /\ d.answer = o.answer
        /\ d.accepted = accepted /\ d.outcome = outcome
    BY <1>1, <2>d DEF IsReader
  <2>5. /\ o.answer \subseteq Run /\ o.began \subseteq Stored
        /\ \A v \in o.answer : ledger[v] \notin {Nothing, Torn}
        /\ o.began \subseteq o.answer \cup o.todo
        /\ \A s \in o.accepted : s[3] # Torn
    BY <1>2 DEF ReaderOK
  <2>6. \A s \in d.accepted : s[3] # Torn
    BY <2>2, <2>3, <2>5, <2>t
  <2> QED BY <1>2, <2>1, <2>3, <2>5, <2>6, <2>t, ReaderStep
<1> QED BY <1>4, <1>5

-----------------------------------------------------------------------------
(* The world.                                                              *)

\* A death takes what was in memory; what is left of the store is to be shown.
LEMMA DieStep ==
  ASSUME HistoryInv, Die, damaged' \in BOOLEAN, directory' = directory,
         ledger' = [u \in Run |-> ledger'[u]], file' = [u \in Run |-> file'[u]],
         ledger'[Old] = ledger[Old], file'[Old] = file[Old],
         \A c \in Call : /\ ledger'[c] \in {ledger[c], Torn, Nothing}
                         /\ ledger[c] = Nothing => ledger'[c] = Nothing
                         /\ LedgerOK(c)'
  PROVE  HistoryInv'
<1>1. TypeOK /\ OldOK
  BY DEF HistoryInv
<1>2. /\ at' = [c \in Call |-> IF at[c] \in {"idle"} \cup Ended THEN at[c] ELSE "died"]
      /\ plan' = [c \in Call |-> Nothing]
      /\ readers' = [r \in Reader |-> Idle] /\ kits' \in Releases /\ disturbed' = disturbed
      /\ runner' = [c \in Call |-> "idle"] /\ child' = [c \in Call |-> "none"]
      /\ pipes' = [c \in Call |-> FALSE] /\ csv' = [c \in Call |-> "absent"]
      /\ output' = [c \in Call |-> NoOutput]
  BY DEF Die, RunnerLost
<1>3. /\ at' \in [Call -> Label]
      /\ \A c \in Call : at'[c] \in {"idle"} \cup Ended /\ (at[c] = "answered" => at'[c] = "answered")
      /\ \A c \in Call : at'[c] \in {"idle", "refused", "died"} \/ at'[c] = at[c]
  BY <1>1, <1>2 DEF TypeOK, Label, Ended
<1>4. /\ runner' \in [Call -> RunnerStep]
      /\ child' \in [Call -> {"none", "running", "ok", "bad"}]
      /\ pipes' \in [Call -> BOOLEAN] /\ csv' \in [Call -> CsvFile]
      /\ output' \in [Call -> RunnerOutput \cup {NoOutput}]
      /\ plan' \in [Call -> Plans \cup {Nothing}]
  BY <1>2 DEF RunnerStep, CsvFile
<1>5. \A c \in Call : ledger'[c] \in Ledgers \cup {Nothing, Torn}
  BY <1>1 DEF TypeOK
<1>6. \A c \in Call :
        /\ plan'[c] # Nothing <=> at'[c] \notin {"idle"} \cup Ended
        /\ at'[c] \notin {"idle", "resolved", "refused", "died"} => c \in directory'
        /\ ledger'[c] # Nothing => at'[c] = "answered" /\ c \in directory'
  BY <1>1, <1>2, <1>3 DEF TypeOK
<1>7. TypeOK'
  BY <1>1, <1>2, <1>3, <1>4, <1>5, <1>6 DEF TypeOK
<1>8. /\ Idle.op = "none" /\ Idle.todo = {} /\ Idle.began = {} /\ Idle.answer = {}
      /\ Idle.accepted = {} /\ Idle.outcome = "none"
  BY DEF Idle
<1>9. ShapeOK'
  <2>1. IsReader(Idle)
    BY DEF IsReader, Idle
  <2>2. \A r \in Reader : readers'[r] = Idle
    BY <1>2
  <2>3. \A r \in Reader : readers'[r] =
          [op |-> readers'[r].op, todo |-> readers'[r].todo, began |-> readers'[r].began,
           answer |-> readers'[r].answer, accepted |-> readers'[r].accepted,
           outcome |-> readers'[r].outcome]
    BY <2>1, <2>2 DEF IsReader
  <2>4. readers' = [r \in Reader |-> readers'[r]]
    BY <1>2
  <2> QED BY <2>3, <2>4 DEF ShapeOK
<1>10. \A r \in Reader : ReaderOK(r)'
  <2> TAKE r \in Reader
  <2>1. readers'[r] = Idle
    BY <1>2
  <2> QED BY <1>8, <2>1 DEF ReaderOK
<1>11. \A c \in Call : RunnerOK(c)' /\ WritingOK(c)' /\ VerdictOK(c)'
  <2> TAKE c \in Call
  <2>1. at'[c] \in {"idle"} \cup Ended /\ output'[c] = NoOutput /\ runner'[c] = "idle"
    BY <1>2, <1>3
  <2> QED BY <2>1 DEF RunnerOK, WritingOK, VerdictOK, Ended
<1>12. OldOK'
  BY <1>1 DEF OldOK
<1> QED BY <1>7, <1>9, <1>10, <1>11, <1>12 DEF HistoryInv

\* A death that leaves the store as it is.
LEMMA RestartKeeps ==
  ASSUME HistoryInv, Restart
  PROVE  HistoryInv'
<1>1. /\ Die /\ UNCHANGED <<ledger, directory, file, damaged>> /\ disturbed' = disturbed
  BY DEF Restart, Die, store
<1>2. TypeOK /\ ShapeOK
  BY DEF HistoryInv
<1>3. \A c \in Call : LedgerOK(c)'
  BY <1>1 DEF HistoryInv, LedgerOK
<1>4. /\ damaged' \in BOOLEAN
      /\ ledger' = [u \in Run |-> ledger'[u]] /\ file' = [u \in Run |-> file'[u]]
  BY <1>1, <1>2 DEF TypeOK, ShapeOK
<1>5. \A c \in Call : ledger'[c] \in {ledger[c], Torn, Nothing} /\ (ledger[c] = Nothing => ledger'[c] = Nothing)
  BY <1>1
<1> QED BY <1>1, <1>3, <1>4, <1>5, DieStep

\* A power loss takes a ledger, tears it, or leaves it as it was.
LEMMA PowerLossKeeps ==
  ASSUME HistoryInv, PowerLoss
  PROVE  HistoryInv'
<1>1. Die /\ damaged' = TRUE /\ directory' = directory /\ disturbed' = disturbed
  BY DEF PowerLoss, Die
<1>2. PICK d \in Call \cap directory :
       \E torn \in SUBSET {k \in Tearable : file[d][k] # Nothing},
          left \in IF ledger[d] = Nothing THEN {"whole"} ELSE {"whole", "torn", "gone"} :
          /\ file' = [file EXCEPT ![d] = [k \in Kind |->
                       IF k \in torn /\ file[d][k] # Nothing THEN Torn ELSE file[d][k]]]
          /\ ledger' = [ledger EXCEPT ![d] =
                         IF left = "whole" \/ ledger[d] = Nothing THEN ledger[d]
                         ELSE IF left = "torn" THEN Torn ELSE Nothing]
  BY DEF PowerLoss
<1>3. TypeOK /\ ShapeOK
  BY DEF HistoryInv
<1>4. /\ file' = [u \in Run |-> file'[u]] /\ \A u \in Run \ {d} : file'[u] = file[u]
  BY <1>2, <1>3 DEF ShapeOK, Run
<1>5. /\ ledger' = [u \in Run |-> ledger'[u]]
      /\ ledger'[d] \in {ledger[d], Torn, Nothing}
      /\ ledger[d] = Nothing => ledger'[d] = Nothing
      /\ \A u \in Run \ {d} : ledger'[u] = ledger[u]
  BY <1>2, <1>3 DEF ShapeOK, Run
<1>6. ledger'[Old] = ledger[Old] /\ file'[Old] = file[Old]
  BY <1>4, <1>5, HistoricalConstants DEF Run
<1>7. \A c \in Call : /\ ledger'[c] \in {ledger[c], Torn, Nothing}
                      /\ ledger[c] = Nothing => ledger'[c] = Nothing
  BY <1>5 DEF Run
<1>8. \A c \in Call : LedgerOK(c)'
  <2> TAKE c \in Call
  <2>1. CASE ledger'[c] \in {Nothing, Torn}
    BY <1>1, <2>1 DEF LedgerOK
  <2>2. CASE ledger'[c] = ledger[c] /\ ledger[c] \notin {Nothing, Torn}
    <3> PICK run : run = ledger[c]
      OBVIOUS
    <3>1. LedgerOK(c) /\ ledger'[c] = run /\ run \notin {Nothing, Torn}
      BY <2>2 DEF HistoryInv
    <3> QED BY <1>1, <3>1 DEF LedgerOK
  <2> QED BY <1>7, <2>1, <2>2
<1>9. damaged' \in BOOLEAN
  BY <1>1
<1> QED BY <1>1, <1>4, <1>5, <1>6, <1>7, <1>8, <1>9, DieStep

-----------------------------------------------------------------------------
(* The theorems.                                                           *)

\* Nothing runs yet; the store holds at most what an older release left.
LEMMA InitIsOK == Init => HistoryInv
<1> SUFFICES ASSUME Init PROVE HistoryInv
  OBVIOUS
<1>1. PICK old \in OldRun :
        /\ ledger = [u \in Run |-> IF u = Old THEN old.ledger ELSE Nothing]
        /\ directory = IF old.ledger = Nothing THEN {} ELSE {Old}
        /\ file = [u \in Run |-> IF u = Old THEN [NoFiles EXCEPT !["evidence"] = old.evidence]
                                            ELSE NoFiles]
  BY DEF Init
<1>2. /\ at = [c \in Call |-> "idle"] /\ plan = [c \in Call |-> Nothing]
      /\ kits = Installed /\ disturbed = {} /\ damaged = FALSE
      /\ readers = [r \in Reader |-> Idle]
      /\ runner = [c \in Call |-> "idle"] /\ child = [c \in Call |-> "none"]
      /\ pipes = [c \in Call |-> FALSE] /\ csv = [c \in Call |-> "absent"]
      /\ output = [c \in Call |-> NoOutput]
  BY DEF Init, RunnerInit
<1>3. \A c \in Call : c # Old /\ ledger[c] = Nothing
  BY <1>1, HistoricalConstants DEF Run
<1>4. /\ at \in [Call -> Label] /\ plan \in [Call -> Plans \cup {Nothing}]
      /\ runner \in [Call -> RunnerStep]
      /\ child \in [Call -> {"none", "running", "ok", "bad"}]
      /\ pipes \in [Call -> BOOLEAN] /\ csv \in [Call -> CsvFile]
      /\ output \in [Call -> RunnerOutput \cup {NoOutput}]
      /\ directory \subseteq Run /\ kits \in Releases
  BY <1>1, <1>2, HistoricalConstants DEF Label, RunnerStep, CsvFile, Run
<1>5. TypeOK
  BY <1>2, <1>3, <1>4 DEF TypeOK
<1>6. ShapeOK
  <2>1. IsReader(Idle)
    BY DEF IsReader, Idle
  <2>2. \A r \in Reader : readers[r] = Idle
    BY <1>2
  <2>3. \A r \in Reader : readers[r] =
          [op |-> readers[r].op, todo |-> readers[r].todo, began |-> readers[r].began,
           answer |-> readers[r].answer, accepted |-> readers[r].accepted,
           outcome |-> readers[r].outcome]
    BY <2>1, <2>2 DEF IsReader
  <2>4. readers = [r \in Reader |-> readers[r]]
    BY <1>2
  <2>5. ledger = [u \in Run |-> ledger[u]] /\ file = [u \in Run |-> file[u]]
    BY <1>1
  <2> QED BY <2>3, <2>4, <2>5 DEF ShapeOK
<1>7. OldOK
  <2>1. "evidence" \in Kind
    BY OrderOfKinds
  <2>2. ledger[Old] = old.ledger /\ file[Old] = [NoFiles EXCEPT !["evidence"] = old.evidence]
    BY <1>1 DEF Run
  <2>3. file[Old]["evidence"] = old.evidence
    BY <2>1, <2>2 DEF NoFiles
  <2> QED BY <2>2, <2>3 DEF OldOK
<1>8. \A c \in Call : RunnerOK(c) /\ WritingOK(c) /\ VerdictOK(c)
  BY <1>2 DEF RunnerOK, WritingOK, VerdictOK
<1>9. \A c \in Call : LedgerOK(c)
  <2>1. Old \in Run /\ \A c \in Call : ledger[c] # Torn
    BY <1>3, HistoricalConstants DEF Run
  <2> QED BY <1>3, <2>1 DEF LedgerOK
<1>10. \A r \in Reader : ReaderOK(r)
  <2>1. \A r \in Reader : readers[r] = Idle
    BY <1>2
  <2>2. /\ Idle.op = "none" /\ Idle.todo = {} /\ Idle.began = {} /\ Idle.answer = {}
        /\ Idle.accepted = {} /\ Idle.outcome = "none"
    BY DEF Idle
  <2> QED BY <2>1, <2>2 DEF ReaderOK
<1> QED BY <1>5, <1>6, <1>7, <1>8, <1>9, <1>10 DEF HistoryInv

\* Every step keeps the invariant.
LEMMA NextKeeps == HistoryInv /\ [Next]_vars => HistoryInv'
<1> SUFFICES ASSUME HistoryInv, [Next]_vars PROVE HistoryInv'
  OBVIOUS
<1>1. ASSUME NEW d \in Call, Resolve(d) \/ Advance(d) \/ WriteThrows(d)
      PROVE  HistoryInv'
  BY <1>1, ResolveKeeps, PromoteKeeps, WriteSourcesKeeps, SolvingKeeps, WriteDiagnosticsKeeps,
     NormalizeKeeps, WriteEvidenceKeeps, WriteRunRecordKeeps, WriteThrowsKeeps DEF Advance
<1>2. ASSUME NEW d \in Call,
             Solving(d, TimerFires(d)) \/ Solving(d, OutputRejects(d)) \/ Solving(d, Solver(d))
      PROVE  HistoryInv'
  BY <1>2, SolvingKeeps
<1>3. ASSUME NEW r \in Reader, Read(r)
      PROVE  HistoryInv'
  BY <1>3, ReadBeginsKeeps, ReadRunKeeps, ReadEndsKeeps, ReadArtifactKeeps DEF Read
<1>4. CASE Restart
  BY <1>4, RestartKeeps
<1>5. CASE PowerLoss
  BY <1>5, PowerLossKeeps
<1>6. CASE UNCHANGED vars
  <2>1. /\ UNCHANGED <<at, plan, ledger, directory, file, readers>>
        /\ UNCHANGED <<kits, disturbed, damaged, restarts, failures>>
        /\ UNCHANGED <<runner, child, pipes, csv, output>>
    BY <1>6 DEF vars, store, world, runnerVars
  <2>2. TypeOK' /\ ShapeOK' /\ OldOK'
    BY <2>1 DEF HistoryInv, TypeOK, ShapeOK, OldOK
  <2>3. \A c \in Call : RunnerOK(c)' /\ WritingOK(c)' /\ VerdictOK(c)' /\ LedgerOK(c)'
    <3> TAKE c \in Call
    <3>2. RunnerOK(c) /\ WritingOK(c) /\ VerdictOK(c) /\ LedgerOK(c)
      BY DEF HistoryInv
    <3>3. RunnerOK(c)'
      BY <2>1, <3>2 DEF RunnerOK, Gone
    <3>4. WritingOK(c)'
      BY <2>1, <3>2 DEF WritingOK, Identity
    <3>5. VerdictOK(c)'
      BY <2>1, <3>2 DEF VerdictOK
    <3>6. LedgerOK(c)'
      BY <2>1, <3>2 DEF LedgerOK
    <3> QED BY <3>3, <3>4, <3>5, <3>6
  <2>4. \A r \in Reader : ReaderOK(r)'
    BY <2>1, ReadersStayOK
  <2> QED BY <2>2, <2>3, <2>4 DEF HistoryInv
<1> QED BY <1>1, <1>2, <1>3, <1>4, <1>5, <1>6 DEF Next

\* HistoryInv is an invariant: from the output of the runner to the answer of
\* a reader, no step of simulate, of another call or of the world breaks it.
THEOREM HistoryInvariant == Spec => []HistoryInv
BY InitIsOK, NextKeeps, PTL DEF Spec

\* Plans and ledgers have the shape of the code's records, a call has a plan
\* exactly while it runs, and a ledger only when it is answered.
THEOREM HistoryTypes == Spec => []TypeOK
<1>1. HistoryInv => TypeOK
  BY DEF HistoryInv
<1> QED BY <1>1, HistoryInvariant, PTL

\* The status of a ledger is that of the solver: a success exited in time with
\* a text CSV and every required metric, and metrics come with nothing less.
THEOREM VerdictsAreTrue == Spec => []StatusTellsTheTruth
<1>1. HistoryInv => StatusTellsTheTruth
  <2> SUFFICES ASSUME HistoryInv, NEW c \in Call, at[c] = "answered", output[c] # NoOutput
               PROVE  LET run == ledger[c]
                      IN  /\ run.status = "succeeded" =>
                               /\ child[c] = "ok" /\ csv[c] = "text"
                               /\ Has(run.artifacts, "result")
                               /\ Required[run.kit] \subseteq run.metrics
                          /\ run.status = "timed_out" => ~ Has(run.artifacts, "result")
                          /\ run.metrics # {} => run.status = "succeeded"
                          /\ output[c].raw.capture = "captured" =>
                               child[c] # "running" /\ ~ pipes[c]
    BY DEF StatusTellsTheTruth
  <2> PICK run : run = ledger[c]
    OBVIOUS
  <2>1. RunnerOK(c) /\ VerdictOK(c)
    BY DEF HistoryInv
  <2>2. /\ VerdictOf(run, output[c].result, output[c].status)
        /\ Has(run.artifacts, "result") = output[c].result
    BY <2>1 DEF VerdictOK
  <2>3. /\ output[c].result = (output[c].status = "succeeded")
        /\ output[c].result => child[c] = "ok" /\ csv[c] = "text"
        /\ output[c].raw.capture = "captured" => Gone(c)
    BY <2>1 DEF RunnerOK
  <2>4. run.status = "succeeded" =>
          /\ child[c] = "ok" /\ csv[c] = "text" /\ Has(run.artifacts, "result")
          /\ Required[run.kit] \subseteq run.metrics
    BY <2>2, <2>3 DEF VerdictOf
  <2>5. run.status = "timed_out" => ~ Has(run.artifacts, "result")
    BY <2>2, <2>3 DEF VerdictOf
  <2>6. run.metrics # {} => run.status = "succeeded"
    BY <2>2 DEF VerdictOf
  <2>7. output[c].raw.capture = "captured" => child[c] # "running" /\ ~ pipes[c]
    BY <2>3 DEF Gone
  <2> QED BY <2>4, <2>5, <2>6, <2>7
<1> QED BY <1>1, HistoryInvariant, PTL

\* Whatever a power loss tears, no reader accepts it as evidence or resource.
THEOREM NothingTornIsServed == Spec => []DamageIsNeverServed
<1>1. HistoryInv => DamageIsNeverServed
  BY DEF HistoryInv, ReaderOK, DamageIsNeverServed
<1> QED BY <1>1, HistoryInvariant, PTL

\* A listing that runs beside writers, deaths and upgrades has all that was
\* stored when it began, and fails only on a run that a fault made unreadable.
THEOREM ListingsAreFaithful == Spec => []ListingIsFaithful
<1>1. HistoryInv => ListingIsFaithful
  <2> SUFFICES ASSUME HistoryInv, NEW r \in Reader, readers[r].op = "list"
               PROVE  /\ readers[r].outcome = "answered" =>
                           readers[r].began \subseteq readers[r].answer
                      /\ readers[r].outcome \notin {"none", "answered"} =>
                           \/ damaged \/ disturbed # {}
                           \/ \E u \in Stored : ledger[u].kit \notin kits
    BY DEF ListingIsFaithful
  <2>1. ReaderOK(r)
    BY DEF HistoryInv
  <2> QED BY <2>1 DEF ReaderOK
<1> QED BY <1>1, HistoryInvariant, PTL

\* What simulate answered, and what an older release left, is read back, and its
\* projection is a ledger of the older generation (readPersistedRun and
\* projectRecordedRunToLegacy), unless a power loss, a clock that was set back or
\* a missing kit forbids it.
THEOREM WhatIsAnsweredIsRead == Spec => []AnsweredIsReadable
<1>1. HistoryInv => AnsweredIsReadable
  <2> SUFFICES ASSUME HistoryInv, ~ damaged, NEW u \in Stored \ disturbed,
                      ledger[u].kit \in kits
               PROVE  Readable(u) /\
                      (ledger[u].generation = "2.0" => ValidLegacy(Project(ledger[u])))
    BY DEF AnsweredIsReadable
  <2>1. Readable(u)
    BY StoredIsReadable
  <2>2. ledger[u].generation = "2.0" => ValidLegacy(Project(ledger[u]))
    <3> SUFFICES ASSUME ledger[u].generation = "2.0"
                 PROVE  ValidLegacy(Project(ledger[u]))
      OBVIOUS
    <3> PICK run : run = ledger[u]
      OBVIOUS
    <3>1. ValidRecorded(run)
      BY <2>1 DEF Readable, LedgerAccepted
    <3>2. Len(run.artifacts) \in Nat /\ DOMAIN run.artifacts = 1 .. Len(run.artifacts)
      <4>1. CASE u = Old
        <5>1. PICK old \in OldRun : ledger[Old] = old.ledger
          BY DEF HistoryInv, OldOK
        <5>2. old.ledger # Nothing
          BY <4>1, <5>1 DEF Stored
        <5> QED BY <4>1, <5>1, <5>2, OldRunIsWhole
      <4>2. CASE u \in Call
        <5>1. LedgerOK(u) /\ run \notin {Nothing, Torn}
          BY <4>2 DEF HistoryInv, LedgerOK, Stored
        <5>2. run.artifacts \in Seq(ArtifactRecord)
          BY <5>1 DEF LedgerOK, Ledgers
        <5> QED BY <5>2
      <4> QED BY <4>1, <4>2 DEF Stored, Run
    <3>3. ValidLegacy(Project(run))
      BY <3>1, <3>2, ProjectionIsLegacy
    <3> QED BY <3>3
  <2> QED BY <2>1, <2>2
<1> QED BY <1>1, HistoryInvariant, PTL

=============================================================================
