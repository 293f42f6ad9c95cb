\* Two host messages, a context change, two clicks and a teardown in any order.
SPECIFICATION Spec
CONSTANTS
  None = None
  MaxMessages = 2
  MaxRemounts = 1
  MaxClicks = 2
INVARIANTS
  NoStaleSurface
  LatestMessageIsShown
  BadgeTellsSource
  RemountNeverUndoes
PROPERTIES
  Settles
CHECK_DEADLOCK FALSE
