\* The sync loops: catch-up and monitoring with crashes, outages,
\* dropped connections and lost commit answers.
CONSTANTS
  h1 = h1
  h2 = h2
  h3 = h3
  Hashes <- MCHashes
  NormalHashes <- MCNormal
  InternalHashes <- MCInternal
  Deploy = 2
  MaxBlock = 4
  BatchSize = 1
  PageSize = 2
  MaxErrors = 2
  MaxFaults = 2
SPECIFICATION FairSpec
INVARIANTS TypeOK NoGap FrontierStored NoRework NormalRecordWins
PROPERTIES MirrorsChain Synced OutageStopsService
