------------------------------ MODULE OmcRunner ------------------------------
(***************************************************************************)
(* One OpenModelica child per call, run against a timer: the child exits,  *)
(* its pipes close and its result CSV appears on the side of the operating *)
(* system; the provider sees either the whole output or the timer first.   *)
(***************************************************************************)
CONSTANTS
  Call,      \* calls of execute
  NoOutput   \* execute has not returned

VARIABLES
  runner,  \* [Call -> RunnerStep], where execute is
  child,   \* [Call -> "none" | "running" | "ok" | "bad"], the process, its exit
  pipes,   \* [Call -> BOOLEAN], somebody still holds its stdout or stderr
  csv,     \* [Call -> CsvFile], what result_res.csv is; absent: no file
  output   \* [Call -> RunnerOutput \cup {Thrown, NoOutput}], what execute returned

runnerVars == <<runner, child, pipes, csv, output>>

RunnerStep == {"idle", "racing", "signalled", "collecting", "done"}
CsvFile    == {"absent", "text", "not_utf8", "oversized"}

Captured(status) == [capture |-> "captured", csv |-> status]
Unavailable(reason) == [capture |-> "unavailable", reason |-> reason]

RawOutput ==
  {Captured(s) : s \in {"captured", "rejected", "absent"}} \cup
  {Unavailable(r) : r \in {"spawn_failed", "timed_out_without_output", "runner_seam"}}

\* result: a CSV text came with it.
RunnerOutput ==
  [status : {"succeeded", "failed", "timed_out"}, result : BOOLEAN, raw : RawOutput]

Failed(raw)   == [status |-> "failed", result |-> FALSE, raw |-> raw]
TimedOut(raw) == [status |-> "timed_out", result |-> FALSE, raw |-> raw]

\* execute threw: the caller makes a failed output of it.
Thrown == Failed(Unavailable("runner_seam"))

RunnerInit ==
  /\ runner = [c \in Call |-> "idle"]
  /\ child = [c \in Call |-> "none"]
  /\ pipes = [c \in Call |-> FALSE]
  /\ csv = [c \in Call |-> "absent"]
  /\ output = [c \in Call |-> NoOutput]

\* The provider is gone: nobody waits for the child any more.
RunnerLost ==
  /\ runner' = [c \in Call |-> "idle"]
  /\ child' = [c \in Call |-> "none"]
  /\ pipes' = [c \in Call |-> FALSE]
  /\ csv' = [c \in Call |-> "absent"]
  /\ output' = [c \in Call |-> NoOutput]

Return(c, out) ==
  /\ runner' = [runner EXCEPT ![c] = "done"]
  /\ output' = [output EXCEPT ![c] = out]

-----------------------------------------------------------------------------
(* The provider.                                                           *)

Spawn(c) ==
  /\ runner[c] = "idle"
  /\ \/ /\ runner' = [runner EXCEPT ![c] = "racing"]
        /\ child' = [child EXCEPT ![c] = "running"]
        /\ pipes' = [pipes EXCEPT ![c] = TRUE]
        /\ UNCHANGED output
     \/ Return(c, Failed(Unavailable("spawn_failed"))) /\ UNCHANGED <<child, pipes>>
  /\ UNCHANGED csv

\* child.output() resolves with the exit of the child and the end of its pipes.
OutputIsComplete(c) == child[c] \in {"ok", "bad"} /\ ~ pipes[c]

\* A plausible slip: the timer is disarmed by the first output.
TimerUntilOutput(c) ==
  /\ runner[c] = "racing" /\ csv[c] = "absent"
  /\ runner' = [runner EXCEPT ![c] = "signalled"]
  /\ UNCHANGED <<child, pipes, csv, output>>

\* The timer is seen first: SIGTERM, whether or not the child is still there.
TimerFires(c) ==
  /\ runner[c] = "racing"
  /\ runner' = [runner EXCEPT ![c] = "signalled"]
  /\ UNCHANGED <<child, pipes, csv, output>>

\* The output is seen first, and the timer cleared.
OutputWins(c) ==
  /\ runner[c] = "racing" /\ OutputIsComplete(c)
  /\ runner' = [runner EXCEPT ![c] = "collecting"]
  /\ UNCHANGED <<child, pipes, csv, output>>

\* After the signal the output is awaited, however long that takes; its CSV is
\* not looked at.
OutputAfterSignal(c) ==
  /\ runner[c] = "signalled" /\ OutputIsComplete(c)
  /\ Return(c, TimedOut(Captured("absent")))
  /\ UNCHANGED <<child, pipes, csv>>

\* child.output() rejects: in the race that throws, after the signal it is caught.
OutputRejects(c) ==
  /\ \/ runner[c] = "racing" /\ Return(c, Thrown)
     \/ runner[c] = "signalled" /\ Return(c, TimedOut(Unavailable("timed_out_without_output")))
  /\ UNCHANGED <<child, pipes, csv>>

\* What a child that exited in time comes to.
Verdict(exit, file) ==
  IF exit = "bad" \/ file = "absent" THEN Failed(Captured("absent"))
  ELSE CASE file = "oversized" -> Thrown
         [] file = "not_utf8"  -> Failed(Captured("rejected"))
         [] file = "text"      ->
              [status |-> "succeeded", result |-> TRUE, raw |-> Captured("captured")]

ReadResultCsv(c) ==
  /\ runner[c] = "collecting"
  /\ Return(c, Verdict(child[c], csv[c]))
  /\ UNCHANGED <<child, pipes, csv>>

-----------------------------------------------------------------------------
(* The operating system: omc, and the processes it starts.                 *)

SolverWrites(c) ==
  /\ runner[c] \in {"racing", "signalled"} /\ pipes[c]
  /\ \E f \in CsvFile \ {"absent"} : csv' = [csv EXCEPT ![c] = f]
  /\ csv[c] = "absent"
  /\ UNCHANGED <<runner, child, pipes, output>>

\* omc exits, by itself or because of the signal; a compiler or a simulation
\* that it started may hold on to its pipes.
SolverExits(c) ==
  /\ child[c] = "running"
  /\ \E exit \in {"ok", "bad"}, open \in BOOLEAN :
       /\ child' = [child EXCEPT ![c] = exit]
       /\ pipes' = [pipes EXCEPT ![c] = open]
  /\ UNCHANGED <<runner, csv, output>>

PipesClose(c) ==
  /\ child[c] \in {"ok", "bad"} /\ pipes[c]
  /\ pipes' = [pipes EXCEPT ![c] = FALSE]
  /\ UNCHANGED <<runner, child, csv, output>>

-----------------------------------------------------------------------------
Execute(c) ==
  \/ OutputWins(c) \/ OutputAfterSignal(c) \/ ReadResultCsv(c)

Solver(c) == SolverWrites(c) \/ SolverExits(c) \/ PipesClose(c)

=============================================================================
