\* Two processes, one resumable request and one historical run.
SPECIFICATION PollingSpec
CONSTANTS
  Server = {s1, s2}
  Request = {r1}
  Digest = {d1}
  NoDigest = NoDigest
  Result = {ok}
  NoResult = NoResult
  RunId = {u1}
  Nobody = Nobody
  Nothing = Nothing
  MaxCrashes = 2
  MaxFailures = 1
INVARIANTS
  TypeOK
  RegisteredIsSealed
PROPERTIES
  StartsWhenSealed
  ProjectionRecovers
