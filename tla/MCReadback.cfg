\* README.md, "crash-safe readback", one request and one power loss.
SPECIFICATION Spec
CONSTANTS
  c1 = c1 c2 = c2
  r1 = r1 r2 = r2
  Call = {c1, c2}
  Request = {r1}
  Nobody = Nobody
  Nothing = Nothing
  MaxPowerLosses = 1
  MaxFaults = 1
INVARIANT CompletedIsReadableForGood
