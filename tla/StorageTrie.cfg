\* Two objects that share a row: two services on one contract.
CONSTANTS
  o1 = o1
  o2 = o2
  Objects = {o1, o2}
  Keys = {"k"}
  KeyOf <- MCKeyOf
  Slots = {"s"}
  Values = {0, 1}
  MaxUpdates = 2
  MaxKills = 2
SPECIFICATION FairSpec
INVARIANTS TypeOK RowsWhole IdleHoldsNothing
PROPERTIES SaveEnds LostOnlyWhenStale
CHECK_DEADLOCK FALSE
