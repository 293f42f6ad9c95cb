\* Three calls, two requests and historical runs that compete for two slots.
SPECIFICATION Spec
CONSTANTS
  c1 = c1 c2 = c2 c3 = c3
  u1 = u1 u2 = u2 u3 = u3 u4 = u4
  r1 = r1 r2 = r2
  Call = {c1, c2, c3}
  Request = {r1, r2}
  Digest = {d1}
  RunId = {u1, u2, u3, u4}
  NoDigest = NoDigest
  NoRun = NoRun
  Free = Free
  MaxRuns = 2
  MaxFaults = 2
  MaxRemovals = 1
SYMMETRY Symmetry
INVARIANTS
  TypeOK
  CapacityNeverExceeded
  LostSlotsAreExplained
\* The run ids are finite: every call may have returned, with none left to make.
CHECK_DEADLOCK FALSE
