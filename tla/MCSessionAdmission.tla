-------------------------- MODULE MCSessionAdmission --------------------------
(***************************************************************************)
(* Instance of SessionAdmission for TLC: three runs where two are the      *)
(* limit, and three executions: two generations of one agent run, of which *)
(* the second timed out, and an execution of another project with another  *)
(* source and policy, whose destruction is not proven.                     *)
(***************************************************************************)
EXTENDS SessionAdmission

Limits == [stdout |-> 1, stderr |-> 0, file |-> 2, total |-> 3]
Runtime(image) == [image |-> image, limits |-> Limits]

Admission(source, policy, image, minimum) ==
  [artifact |-> [id |-> <<"admission", <<source, policy, image>>>>,
                 fingerprint |-> <<source, policy, image>>, schema |-> "2.0"],
   compilation |-> "1.0", source |-> source, policy |-> policy, backendImage |-> image,
   runtime |-> Runtime(image), minimum |-> minimum]

Output(role, sha, bytes) ==
  [role |-> role, sha256 |-> sha, casUri |-> CasUri(sha), bytes |-> bytes]

Signed(metadata) ==
  [field \in DOMAIN metadata \cup {"fingerprint"} |->
     IF field = "fingerprint" THEN metadata ELSE metadata[field]]

Receipt(run, generation, admission, termination, destruction) ==
  LET outputs == <<Output("evidence", <<run, generation, "e">>, 1),
                   Output("result", <<run, generation, "r">>, 2)>>
  IN  Signed([runId |-> run, generation |-> generation, source |-> admission.source,
              policy |-> admission.policy, runtime |-> admission.runtime,
              termination |-> termination, logs |-> [stdout |-> 1, stderr |-> 0], outputs |-> outputs,
              destruction |-> [runId |-> run, status |-> destruction],
              publication |-> [runId |-> run, generation |-> generation,
                               manifestUri |-> PublicationKey(run, generation),
                               fingerprint |-> <<run, generation, outputs>>]])

Capture(project, agentRun, generation, admission, termination, destruction) ==
  [projectId |-> project, agentRunId |-> agentRun,
   executionRunId |-> ExecutionRunId(project, agentRun),
   admission |-> admission, source |-> admission.source,
   receipt |-> Receipt(ExecutionRunId(project, agentRun), generation, admission, termination,
                       destruction),
   parameters |-> <<agentRun>>,
   metrics |-> <<[output |-> "T", statistic |-> "final", unit |-> "K"],
                 [output |-> "T", statistic |-> "max_abs", unit |-> "K"]>>]

Exited   == [kind |-> "exited", exitCode |-> "zero", signal |-> "none"]
TimedOut == [kind |-> "timed-out", exitCode |-> "none", signal |-> "none"]

Strict == Admission("a.mo", "strict", "omc", "proven")
Lenient == Admission("b.mo", "lenient", "omc", "acknowledged-unattested")

MCExecutions ==
  {Capture("p", 1, 1, Strict, Exited, "proven"),
   Capture("p", 1, 2, Strict, TimedOut, "proven"),
   Capture("q", 2, 1, Lenient, TimedOut, "acknowledged-unattested")}

=============================================================================
