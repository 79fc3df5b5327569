\* A worker that dies inside the first slice, then the retry of its job.
SPECIFICATION CrawlSpec
CONSTANTS
  MaxPageLimit = 6
  DefaultPageLimit = 3
  MaxChunkSize = 2
  Workers = {w1}
  Site = 7
  PageLimit = 5
  ChunkSize = 3
  NoPending = NoPending
  NoCoverage = NoCoverage
  NoReport = NoReport
INVARIANT ReportsUseFinishedCrawls
CHECK_DEADLOCK FALSE
