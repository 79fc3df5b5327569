\* One worker at a time over a run of seven pages in chunks of three; a run
\* that lost its page limit is cut to four.
SPECIFICATION CrawlSpec
CONSTANTS
  MaxPageLimit = 7
  DefaultPageLimit = 4
  MaxChunkSize = 3
  Workers = {w1}
  Site = 8
  PageLimit = 7
  ChunkSize = 4
  NoPending = NoPending
  NoCoverage = NoCoverage
  NoReport = NoReport
INVARIANTS
  CrawlTypeOK
  PendingIsUsable
  ContinuationSkipsNothing
PROPERTIES
  CrawlKeepsPromise
CHECK_DEADLOCK FALSE
