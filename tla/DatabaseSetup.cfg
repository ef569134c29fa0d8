\* The two services set up the database at the same time.
CONSTANTS
  Procs = {p1, p2}
  Names <- MCNames
  Lower <- MCLower
  Polls = 2
  MaxRetries = 2
  MaxStops = 1
SPECIFICATION Spec
INVARIANTS TypeOK NoTwin SameDatabase
PROPERTIES SetupEnds SetupSucceeds
CHECK_DEADLOCK FALSE
