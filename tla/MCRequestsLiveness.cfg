\* A client that retries while another call comes, goes and dies; the life-cycle of its request.
SPECIFICATION RetrySpec
CONSTANTS
  p1 = p1 r1 = r1 d1 = d1
  Proc = {p1, p2}
  Request = {r1}
  Digest = {d1}
  RunId = {u1}
  NoDigest = NoDigest
  NoRun = NoRun
  Free = Free
  Orphan = Orphan
  MaxRuns = 1
  MaxFaults = 1
  MaxHelperLosses = 0
PROPERTIES
  CallsReturn
  LocksComeBack
  RetriesSettle
  ImplementsLifecycle
