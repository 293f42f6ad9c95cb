\* Two calls on two requests, two power losses and a call that dies.
SPECIFICATION Spec
CONSTANTS
  c1 = c1 c2 = c2
  r1 = r1 r2 = r2
  Call = {c1, c2}
  Request = {r1, r2}
  Nobody = Nobody
  Nothing = Nothing
  MaxPowerLosses = 2
  MaxFaults = 1
SYMMETRY Symmetry
INVARIANTS
  ExecutedOnceForGood
  RequestIdIsDurable
  ExecutedLedgerSurvives
