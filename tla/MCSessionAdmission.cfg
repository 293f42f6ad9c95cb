SPECIFICATION AdmissionSpec
CONSTANTS
  Run = {r1, r2, r3}
  Nothing = no
  MaxDetails = 2
  Executions <- MCExecutions
  Details = 2
  MaxEdits = 2
INVARIANTS
  GenuineIsApplied
  DetailIsTheListedRun
  AdmittedIsOneExecution
