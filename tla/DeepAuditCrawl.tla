--------------------------- MODULE DeepAuditCrawl ---------------------------
(***************************************************************************)
(* The chunked crawl of one scan run (workers/scan-engine/deep-audit-      *)
(* crawl.ts) and the part of processReportJob that decides whether to      *)
(* crawl, continue or reuse what is there, up to the reading of the pages  *)
(* the report is built from.                                               *)
(*                                                                         *)
(* The rows of scan_pages, and the config and completion columns of the    *)
(* scan_runs row, are shared by every invocation that works on the run.    *)
(* config is a JSON column the code replaces as a whole: reading it and    *)
(* writing it back are two steps.                                          *)
(***************************************************************************)
EXTENDS CrawlPlan

CONSTANTS
  Workers,      \* invocations that may work on the run
  Site,         \* the URLs robots.txt allows are 1..Site; 1 is the seed,
                \* which prioritizeUrlsBySection puts first
  PageLimit,    \* page_limit as the run was created
  ChunkSize,    \* the run's chunk_size, or DEFAULT_CHUNK_SIZE
  NoPending, NoCoverage, NoReport

ASSUME CrawlAssumption ==
  /\ Site \in Nat \ {0} /\ ChunkSize \in Nat \ {0}
  /\ PageLimit \in 1..MaxPageLimit
ASSUME NoneDistinct ==
  /\ NoPending \notin [total : 0..Site, next_index : Nat, chunks_processed : Nat]
  /\ NoCoverage \notin 0..Site /\ NoReport \notin {NoCoverage} \cup 0..Site

VARIABLES
  config,    \* scan_runs.config: page_limit (0: no such key) and crawl_pending
  pages,     \* scan_pages: the status of each URL's row; "none" and "lost" have none
  coverage,  \* the urls_planned of scan_runs.coverage_summary, set with completed_at
  report,    \* the coverage summary of the run when the last report was built
  at,        \* where each invocation is
  work       \* the slice each invocation works on, and the config it read

crawlVars == <<config, pages, coverage, report, at, work>>

-----------------------------------------------------------------------------
Urls == 1..Site
Statuses == {"none", "fetched", "error", "skipped", "lost"}
LostConfig == [page_limit |-> 0, crawl_pending |-> NoPending]

\* A worker with the limit it read, before it has a slice.
Begun(limit, resume) ==
  [limit |-> limit, resume |-> resume, total |-> 0, next |-> 0, end |-> 0, chunks |-> 0,
   first |-> FALSE, refused |-> FALSE, read |-> LostConfig]

NoWork == Begun(DefaultPageLimit, FALSE)

Fetched == {u \in Urls : pages[u] = "fetched"}
Continuation == config.crawl_pending
Chunk(w) == EffectiveChunk(ChunkSize, work[w].limit)

\* What remains of the ordered list from `start` on, and the slice of it the
\* worker takes.
TakeSlice(w, total, start, chunks, first) ==
  work' = [work EXCEPT ![w] =
            [limit |-> work[w].limit, resume |-> work[w].resume, total |-> total,
             next |-> start, end |-> SliceEnd(start, Chunk(w), total), chunks |-> chunks,
             first |-> first, refused |-> FALSE, read |-> LostConfig]]

Step(w, from, to) == at[w] = from /\ at' = [at EXCEPT ![w] = to]

\* INSERT INTO scan_pages: (run_id, normalized_url) is unique, and the code
\* passes over a duplicate.
InsertPage(u, status) ==
  pages' = IF pages[u] \in {"none", "lost"} THEN [pages EXCEPT ![u] = status] ELSE pages

\* The row of a page that failed; nobody checks that it was written.
InsertFailure(u) == InsertPage(u, "error") \/ InsertPage(u, "lost")

CrawlInit ==
  /\ config = [page_limit |-> PageLimit, crawl_pending |-> NoPending]
  /\ pages = [u \in Urls |-> "none"]
  /\ coverage = NoCoverage
  /\ report = NoReport
  /\ at = [w \in Workers |-> "idle"]
  /\ work = [w \in Workers |-> NoWork]

-----------------------------------------------------------------------------
(***************************************************************************)
(* processReportJob around the crawl.                                      *)
(***************************************************************************)
\* Reads the run's config: the page limit, and whether a continuation is stored.
Begin(w) ==
  /\ Step(w, "idle", "plan")
  /\ work' = [work EXCEPT ![w] = Begun(EffectiveLimit(config.page_limit),
                                          Continuation # NoPending)]
  /\ UNCHANGED <<config, pages, coverage, report>>

\* Counts the fetched pages and plans the recovery.
PlanRecovery(w) ==
  /\ LET any == Fetched # {}
     IN  Step(w, "plan", IF ~ShouldRunCrawl(any, work[w].resume) THEN "read_pages"
                         ELSE IF ClearFailedPages(any, work[w].resume) THEN "clear"
                         ELSE "load")
  /\ UNCHANGED <<config, pages, coverage, report, work>>

ClearPages(w) ==
  /\ Step(w, "clear", "load")
  /\ pages' = [u \in Urls |-> "none"]
  /\ UNCHANGED <<config, coverage, report, work>>

\* The pages the report is built from are the ones fetched by now.
ReadPages(w) ==
  /\ Step(w, "read_pages", IF Fetched = {} THEN "failed" ELSE "built")
  /\ report' = IF Fetched = {} THEN report ELSE coverage
  /\ UNCHANGED <<config, pages, coverage, work>>

-----------------------------------------------------------------------------
(***************************************************************************)
(* runDeepAuditCrawl loads the run again, and starts, continues, or drops  *)
(* a continuation that planPendingContinuation refuses.                    *)
(***************************************************************************)
LoadToStart(w) ==
  /\ Continuation = NoPending
  /\ Step(w, "load", "start")
  /\ UNCHANGED <<config, pages, coverage, report, work>>

LoadPastNext(w) ==          \* faulty: takes next_index for the number of a URL
  /\ Continuation # NoPending
  /\ ContinuationOk(Continuation, work[w].limit, Chunk(w))
  /\ Step(w, "load", "slice")
  /\ TakeSlice(w, PlannedUrls(Continuation, work[w].limit),
               AtMost(Continuation.next_index + 1, Site),
               Continuation.chunks_processed + 1, FALSE)
  /\ UNCHANGED <<config, pages, coverage, report>>

LoadToContinue(w) ==
  /\ Continuation # NoPending
  /\ ContinuationOk(Continuation, work[w].limit, Chunk(w))
  /\ Step(w, "load", "slice")
  /\ TakeSlice(w, PlannedUrls(Continuation, work[w].limit), Continuation.next_index,
               Continuation.chunks_processed + 1, FALSE)
  /\ UNCHANGED <<config, pages, coverage, report>>

LoadToRefuse(w) ==
  /\ Continuation # NoPending
  /\ ~ContinuationOk(Continuation, work[w].limit, Chunk(w))
  /\ Step(w, "load", "read_clear")
  /\ work' = [work EXCEPT ![w].refused = TRUE]
  /\ UNCHANGED <<config, pages, coverage, report>>

(***************************************************************************)
(* startChunkedCrawl, up to the ordered list of URLs.                      *)
(***************************************************************************)
SeedBlocked(w) ==
  /\ Step(w, "start", "failed")
  /\ InsertPage(1, "skipped") \/ UNCHANGED pages
  /\ coverage' \in {coverage, 0}
  /\ UNCHANGED <<config, report, work>>

SeedUnreachable(w) ==
  /\ Step(w, "start", "failed")
  /\ InsertFailure(1)
  /\ UNCHANGED <<config, coverage, report, work>>

SeedFetched(w) ==
  /\ Step(w, "start", "slice")
  /\ TakeSlice(w, AtMost(Site, work[w].limit), 0, 1, TRUE)
  /\ UNCHANGED <<config, pages, coverage, report>>

(***************************************************************************)
(* processUrlSlice: one URL after the other.  A page that is fetched is    *)
(* left alone; the seed of a starting crawl is not fetched again.          *)
(***************************************************************************)
AuditPage(w) ==
  LET u == work[w].next + 1
  IN  /\ at[w] = "slice" /\ work[w].next < work[w].end
      /\ \/ InsertPage(u, "fetched")
         \/ pages[u] # "fetched" /\ ~(u = 1 /\ work[w].first) /\ InsertFailure(u)
      /\ work' = [work EXCEPT ![w].next = u]
      /\ UNCHANGED <<config, coverage, report, at>>

SliceDoneEarly(w) ==        \* faulty: a continuation with nothing left in it
  /\ work[w].next >= work[w].end
  /\ Step(w, "slice", IF work[w].end <= work[w].total THEN "read_config" ELSE "finalize")
  /\ UNCHANGED <<config, pages, coverage, report, work>>

SliceDone(w) ==
  /\ work[w].next >= work[w].end
  /\ Step(w, "slice", IF work[w].end < work[w].total THEN "read_config" ELSE "finalize")
  /\ UNCHANGED <<config, pages, coverage, report, work>>

\* The error of this read is not looked at: no row reads as an empty config.
ReadConfig(w) ==
  /\ Step(w, "read_config", "save_pending")
  /\ \E seen \in {config, LostConfig} : work' = [work EXCEPT ![w].read = seen]
  /\ UNCHANGED <<config, pages, coverage, report>>

\* Faulty variant: the continuation starts one URL late.
SaveNextSlice(w) ==
  /\ Step(w, "save_pending", "partial")
  /\ config' = [work[w].read EXCEPT !.crawl_pending =
                  [total |-> work[w].total, next_index |-> work[w].end + 1,
                   chunks_processed |-> work[w].chunks]]
  /\ UNCHANGED <<pages, coverage, report, work>>

\* mergeConfig over the config that was read, with the rest of the list.
SavePending(w) ==
  /\ Step(w, "save_pending", "partial")
  /\ config' = [work[w].read EXCEPT !.crawl_pending =
                  [total |-> work[w].total, next_index |-> work[w].end,
                   chunks_processed |-> work[w].chunks]]
  /\ UNCHANGED <<pages, coverage, report, work>>

(***************************************************************************)
(* finalizeDeepCrawl, and clearCrawlPending after a continued crawl or for *)
(* a refused continuation; neither of its two calls is checked.            *)
(***************************************************************************)
Finalize(w) ==
  /\ Step(w, "finalize", IF work[w].first THEN "read_pages" ELSE "read_clear")
  /\ coverage' = work[w].total
  /\ UNCHANGED <<config, pages, report, work>>

Cleared(w) == IF work[w].refused THEN "failed" ELSE "read_pages"

ReadToClear(w) ==
  /\ Step(w, "read_clear", "write_clear")
  /\ work' = [work EXCEPT ![w].read = config]
  /\ UNCHANGED <<config, pages, coverage, report>>

WriteClear(w) ==
  /\ Step(w, "write_clear", Cleared(w))
  /\ config' = [work[w].read EXCEPT !.crawl_pending = NoPending]
  /\ UNCHANGED <<pages, coverage, report, work>>

ClearNotWritten(w) ==
  /\ Step(w, "read_clear", Cleared(w))
  /\ UNCHANGED <<config, pages, coverage, report, work>>

-----------------------------------------------------------------------------
\* The invocation goes on with what the crawl came to: a new message for the
\* rest, the report, or a failed delivery.
Return(w) ==
  /\ at[w] \in {"partial", "failed", "built"}
  /\ at' = [at EXCEPT ![w] = "idle"]
  /\ work' = [work EXCEPT ![w] = NoWork]
  /\ UNCHANGED <<config, pages, coverage, report>>

\* A store fails, robots.txt cannot be read, or the invocation is killed.
Abandon(w) ==
  /\ at[w] \notin {"idle", "partial", "failed", "built"}
  /\ at' = [at EXCEPT ![w] = "idle"]
  /\ work' = [work EXCEPT ![w] = NoWork]
  /\ UNCHANGED <<config, pages, coverage, report>>

Crawl(w) ==
  \/ PlanRecovery(w) \/ ClearPages(w) \/ ReadPages(w)
  \/ LoadToStart(w) \/ LoadToContinue(w) \/ LoadToRefuse(w)
  \/ SeedBlocked(w) \/ SeedUnreachable(w) \/ SeedFetched(w)
  \/ AuditPage(w) \/ SliceDone(w) \/ ReadConfig(w) \/ SavePending(w)
  \/ Finalize(w) \/ ReadToClear(w) \/ WriteClear(w) \/ ClearNotWritten(w)

CrawlNext ==
  \E w \in Workers :
    \/ report = NoReport /\ Begin(w)
    \/ Crawl(w) \/ Return(w) \/ Abandon(w)

CrawlSpec == CrawlInit /\ [][CrawlNext]_crawlVars

-----------------------------------------------------------------------------
ConfigType == [page_limit : {0, PageLimit},
               crawl_pending : {NoPending} \cup
                 [total : 0..Site, next_index : Nat, chunks_processed : Nat]]

WorkType == [limit : 1..MaxPageLimit, resume : BOOLEAN, total : 0..Site, next : 0..Site,
             end : 0..Site, chunks : Nat, first : BOOLEAN, refused : BOOLEAN,
             read : ConfigType]

CrawlTypeOK ==
  /\ config \in ConfigType
  /\ pages \in [Urls -> Statuses]
  /\ coverage \in {NoCoverage} \cup 0..Site
  /\ report \in {NoReport, NoCoverage} \cup 0..Site
  /\ at \in [Workers -> {"idle", "plan", "clear", "load", "start", "slice", "read_config",
                         "save_pending", "finalize", "read_clear", "write_clear",
                         "read_pages", "partial", "failed", "built"}]
  /\ work \in [Workers -> WorkType]

\* A URL of the list has been dealt with: it was fetched, or it failed and
\* its row was written or lost.
Attempted(u) == pages[u] \in {"fetched", "error", "lost"}

(***************************************************************************)
(* urls_remaining: 0 is true: when the coverage summary says that so many  *)
(* URLs were planned, each of them was tried.  About slices, crashes       *)
(* inside them and continuations leaving no URL out.                       *)
(***************************************************************************)
CoverageIsHonest ==
  coverage # NoCoverage => \A u \in 1..coverage : Attempted(u)

(***************************************************************************)
(* A stored continuation can be continued: a job never fails on its own    *)
(* crawl_pending while the run has its page limit.  About the chunk budget *)
(* against crashes and repeated slices.                                    *)
(***************************************************************************)
PendingIsUsable ==
  config.page_limit > 0 /\ Continuation # NoPending =>
    LET limit == EffectiveLimit(config.page_limit)
    IN  ContinuationOk(Continuation, limit, EffectiveChunk(ChunkSize, limit))

(***************************************************************************)
(* The URLs before a stored continuation have been dealt with, so skipping *)
(* them loses nothing.                                                     *)
(***************************************************************************)
ContinuationSkipsNothing ==
  Continuation # NoPending => \A u \in 1..Continuation.next_index : Attempted(u)

(***************************************************************************)
(* One worker at a time keeps the promise of CrawlPromise, over crashes,   *)
(* repeated slices, refused and lost continuations: "continues a chunked   *)
(* crawl without deleting its completed pages" (report-queue-              *)
(* consumer.test.ts), and urls_remaining: 0 is true when it is written.    *)
(***************************************************************************)
Promise == INSTANCE CrawlPromise
  WITH fetched <- Fetched,
       dealt <- {u \in Urls : Attempted(u)},
       planned <- IF coverage = NoCoverage THEN 0 ELSE coverage

CrawlKeepsPromise == Promise!PromiseSpec

\* A report is built from a finished crawl: "reuses a completed crawl during
\* an idempotent queue retry" (report-queue-consumer.test.ts).
ReportsUseFinishedCrawls == report # NoCoverage

-----------------------------------------------------------------------------
(***************************************************************************)
(* What the promise rests on while crawls of the run do not overlap        *)
(* (DeepAuditCrawl_proofs).                                                *)
(***************************************************************************)
OneCrawl == \A v, w \in Workers : at[v] # "idle" /\ at[w] # "idle" => v = w

Untouched == \A u \in Urls : pages[u] = "none"
Seeded == pages[1] = "fetched"

\* A continuation that may be taken up, wherever a copy of it is kept.
Continuable(pending) == pending # NoPending =>
  /\ Seeded /\ pending.next_index \in 1..Site
  /\ \A u \in 1..pending.next_index : Attempted(u)

\* Only the seed is ever skipped; what was summarised began with a fetched seed.
SeedOK ==
  /\ \A u \in Urls : pages[u] = "skipped" => u = 1
  /\ coverage # NoCoverage /\ coverage > 0 => Seeded

\* The worker on its way to a slice, whatever is written to the config.
WayOK == \A w \in Workers :
  /\ at[w] = "plan" /\ work[w].resume => Seeded
  /\ at[w] = "clear" => Fetched = {}
  /\ at[w] \in {"load", "start"} => Untouched \/ Seeded

\* The worker in a slice and after it.
SliceOK == \A w \in Workers :
  at[w] \in {"slice", "read_config", "save_pending", "finalize"} =>
    /\ work[w].next <= work[w].end /\ work[w].end <= work[w].total /\ work[w].end >= 1
    /\ \A u \in 1..work[w].next : Attempted(u)
    /\ work[w].first /\ work[w].next = 0 => Untouched \/ Seeded
    /\ ~work[w].first \/ work[w].next > 0 => Seeded
    /\ at[w] # "slice" => work[w].next = work[w].end
    /\ at[w] = "finalize" => work[w].end = work[w].total

CrawlIInv == /\ CrawlTypeOK /\ SeedOK /\ WayOK /\ SliceOK
             /\ CoverageIsHonest /\ Continuable(Continuation)

\* While the crawl alone writes the config, it starts again from nothing only.
StartsAfresh == \A w \in Workers :
  /\ at[w] = "plan" => (work[w].resume <=> Continuation # NoPending)
  /\ at[w] = "load" => Continuation # NoPending \/ Untouched
  /\ at[w] = "start" => Untouched

=============================================================================
