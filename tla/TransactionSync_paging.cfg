\* A polled range that fills one page, no faults at all.
CONSTANTS
  h1 = h1
  h2 = h2
  h3 = h3
  Hashes <- MCHashes
  NormalHashes <- MCNormal
  InternalHashes <- MCInternal
  Deploy = 2
  MaxBlock = 4
  BatchSize = 1
  PageSize = 2
  MaxErrors = 2
  MaxFaults = 0
SPECIFICATION FairSpec
PROPERTY AllSynced
