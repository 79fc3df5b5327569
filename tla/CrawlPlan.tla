----------------------------- MODULE CrawlPlan -----------------------------
(***************************************************************************)
(* The arithmetic of a chunked deep-audit crawl (workers/scan-engine/deep- *)
(* audit-crawl-state.ts and the clamps of runDeepAuditCrawl): how much of  *)
(* the ordered URL list an invocation takes, and when a stored             *)
(* continuation is refused.                                                *)
(***************************************************************************)
EXTENDS Integers

CONSTANTS
  MaxPageLimit,     \* MAX_DEEP_AUDIT_PAGE_LIMIT
  DefaultPageLimit, \* what extractPageLimit reads when config has no page_limit
  MaxChunkSize      \* MAX_CHUNK_SIZE

ASSUME PlanAssumption ==
  /\ MaxPageLimit \in Nat \ {0}
  /\ DefaultPageLimit \in 1..MaxPageLimit
  /\ MaxChunkSize \in Nat \ {0}

AtMost(a, b) == IF a <= b THEN a ELSE b
AtLeast(a, b) == IF a >= b THEN a ELSE b

CeilDiv(a, b) == (a + b - 1) \div b

\* extractPageLimit: 0 stands for a config without a usable page_limit.
EffectiveLimit(pageLimit) ==
  IF pageLimit > 0 THEN AtMost(pageLimit, MaxPageLimit) ELSE DefaultPageLimit

EffectiveChunk(chunk, limit) == AtLeast(1, AtMost(chunk, AtMost(MaxChunkSize, limit)))

\* The number of chunks after which a continuation is taken to be corrupt.
ChunkBudget(limit, chunk) == AtLeast(1, CeilDiv(limit, AtLeast(1, chunk))) + 2

(***************************************************************************)
(* planPendingContinuation, for a continuation over `total` ordered URLs.  *)
(* The URLs are numbered from 1; next_index counts those already taken.    *)
(***************************************************************************)
PlannedUrls(pending, limit) == AtMost(pending.total, limit)

ContinuationOk(pending, limit, chunk) ==
  /\ AtLeast(1, pending.chunks_processed) <= ChunkBudget(limit, chunk)
  /\ AtLeast(0, pending.next_index) < PlannedUrls(pending, limit)

SliceEndUnclamped(start, chunk, total) == start + chunk    \* faulty: past the list

SliceEnd(start, chunk, total) == AtMost(start + chunk, total)

(***************************************************************************)
(* planDeepAuditCrawlRecovery: what a delivery of the job does about the   *)
(* crawl, from whether pages were fetched and a continuation is stored.    *)
(***************************************************************************)
ShouldRunCrawl(anyFetched, anyPending) == ~anyFetched \/ anyPending

ClearEveryCrawl(anyFetched, anyPending) == ~anyFetched \/ anyPending    \* faulty: a continuation too

ClearFailedPages(anyFetched, anyPending) == ~anyFetched /\ ~anyPending
=============================================================================
