SPECIFICATION FairSpec
CONSTANTS
  Updaters = {u1, u2}
  Values = {0, 2, 5}
  Top = 7
  NBuckets = 3
  MaxUpdates = 3
INVARIANTS
  TypeOK
  Extremes
  PrintoutIsBounded
PROPERTIES
  ExtremesOnlyWiden
  UpdatesEnd
