\* Two calls, two requests with two contents that compete for one slot, deaths, one lost helper of either kind of lock.
SPECIFICATION Spec
CONSTANTS
  p1 = p1 r1 = r1 d1 = d1
  Proc = {p1, p2}
  Request = {r1, r2}
  Digest = {d1, d2}
  RunId = {u1, u2}
  NoDigest = NoDigest
  NoRun = NoRun
  Free = Free
  Orphan = Orphan
  MaxRuns = 1
  MaxFaults = 1
  MaxHelperLosses = 1
SYMMETRY Symmetry
CONSTRAINT StillExclusive
INVARIANTS
  TypeOK
  AtMostOneExecution
  ExecutionIsClaimed
  RunJsonIsWhole
  RejectedNeverRan
  CapacityNeverExceeded
  EveryDirectoryIsClaimed
  RecoveryMeansOwnerLost
  AnswersAreDurable
