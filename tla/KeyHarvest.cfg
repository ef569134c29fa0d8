\* One row to a page, and at most three pages for who sets max_pages; the service
\* started twice, and a rival with the same file at any time.
CONSTANTS
  h1 = h1
  h2 = h2
  h3 = h3
  Hashes <- MCHashes
  Deploy = 1
  MaxBlock = 2
  Index <- MCIndex
  PageSize = 1
  MaxPages = 3
  Succeeded <- MCHashes
  PairHashes <- MCPairs
  BytesHashes <- MCBytes
  MaxStarts = 2
SPECIFICATION HarvestSpec
INVARIANTS HarvestTypeOK SettledExact NothingMissed KeysComplete
PROPERTIES StartEnds
CHECK_DEADLOCK FALSE
