\* The owner of a block and a second task share its transaction.
SPECIFICATION FairSpec
CONSTANTS
  Owner = owner
  Tasks = {owner, helper}
  Steps = {s1, s2, s3}
  MaxInterrupts = 1
INVARIANTS
  TypeOK
  Accounted
  RaisedMeansUndone
PROPERTIES
  SettledStays
  NewestFirst
  BlockEnds
CHECK_DEADLOCK FALSE
