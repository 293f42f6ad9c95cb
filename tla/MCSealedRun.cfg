SPECIFICATION Spec
CONSTANTS
  omc = omc
  omcOther = omcOther
  b = b
  x = x
  no = no
  Blank = b
  Junk = x
  Nothing = no
  Damaged = Damaged
  Policy <- MCPolicy
  Releases <- MCReleases
  Installed <- MCInstalled
  MaxKnown = 2
  Engines = {omc, omcOther}
  Tables <- MCTables
  Bounds = {1, 2, 3, 4}
  Supplied <- MCSupplied
  MaxChanges = 1
  MaxDamage = 1
INVARIANTS
  IssuedIsAccepted
  WrittenValidates
  OnlyTheSealedIsServed
  SeriesIsFaithful
CHECK_DEADLOCK FALSE
