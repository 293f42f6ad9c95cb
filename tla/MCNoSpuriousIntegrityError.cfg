\* No faults at all: two calls on one request.
SPECIFICATION Spec
CONSTANTS
  p1 = p1 r1 = r1 d1 = d1
  Proc = {p1, p2}
  Request = {r1}
  Digest = {d1}
  RunId = {u1}
  NoDigest = NoDigest
  NoRun = NoRun
  Free = Free
  Orphan = Orphan
  MaxRuns = 1
  MaxFaults = 0
  MaxHelperLosses = 0
INVARIANT NoSpuriousIntegrityError
