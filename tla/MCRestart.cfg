\* One process, which dies once.
SPECIFICATION PollingSpec
CONSTANTS
  Server = {s1}
  Request = {r1}
  Digest = {d1}
  NoDigest = NoDigest
  Result = {ok}
  NoResult = NoResult
  RunId = {}
  Nobody = Nobody
  Nothing = Nothing
  MaxCrashes = 1
  MaxFailures = 0
PROPERTY RestartSucceeds
