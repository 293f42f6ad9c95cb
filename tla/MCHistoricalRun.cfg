\* One call, one reader, a run of an older release; an upgrade, a power loss.
SPECIFICATION FairSpec
CONSTANTS
  Call = {c1}
  NoOutput = NoOutput
  k1 = k1 k2 = k2 k3 = k3 m1 = m1 m2 = m2
  Kit = {k1, k2, k3}
  WithSchema = {k1, k2}
  Metric = {m1, m2}
  Produced <- MCProduced
  Required <- MCRequired
  Value = {v1, v2}
  Reviewed = {v1}
  Engine = {e1, e2}
  Qualified = e1
  Nothing = Nothing
  Old = old
  OldRun <- MCOldRun
  Releases <- MCReleases
  Installed <- MCInstalled
  Reader = {r1}
  Torn = Torn
  MaxClock = 1
  MaxRestarts = 1
  MaxFailures = 1
INVARIANTS
  AnsweredIsReadable
  ListingIsFaithful
  DamageIsNeverServed
  StatusTellsTheTruth
PROPERTY CallsEnd
CHECK_DEADLOCK FALSE
