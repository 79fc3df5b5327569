----------------------- MODULE DeepAuditCrawl_proofs -----------------------
(***************************************************************************)
(* The chunked crawl implements CrawlPromise while no two invocations      *)
(* crawl at one time, for any site, page limit and chunk size.             *)
(***************************************************************************)
EXTENDS DeepAuditCrawl, TLAPS

-----------------------------------------------------------------------------
(***************************************************************************)
(* The arithmetic of CrawlPlan.                                            *)
(***************************************************************************)
\* Whatever the config says, a run has a page limit within the maximum.
LEMMA LimitInRange ==
  ASSUME NEW pageLimit \in Nat
  PROVE  EffectiveLimit(pageLimit) \in 1..MaxPageLimit
BY PlanAssumption DEF EffectiveLimit, AtMost

\* A chunk takes at least one page.
LEMMA ChunkPositive ==
  ASSUME NEW chunk \in Nat, NEW limit \in Nat
  PROVE  EffectiveChunk(chunk, limit) \in Nat \ {0}
BY PlanAssumption DEF EffectiveChunk, AtMost, AtLeast

\* A slice goes forward and stays within the list.
LEMMA SliceInside ==
  ASSUME NEW start \in Nat, NEW chunk \in Nat \ {0}, NEW total \in Nat, start < total
  PROVE  /\ SliceEnd(start, chunk, total) \in Nat
         /\ start < SliceEnd(start, chunk, total) /\ SliceEnd(start, chunk, total) <= total
BY DEF SliceEnd, AtMost

(***************************************************************************)
(* A continuation that is not refused makes progress inside the list, for  *)
(* any page limit and chunk size: planPendingContinuation.                 *)
(***************************************************************************)
THEOREM ContinuationAdvances ==
  ASSUME NEW pending \in [total : Nat, next_index : Nat, chunks_processed : Nat],
         NEW limit \in Nat \ {0}, NEW chunk \in Nat,
         ContinuationOk(pending, limit, EffectiveChunk(chunk, limit))
  PROVE  LET total == PlannedUrls(pending, limit)
             end == SliceEnd(pending.next_index, EffectiveChunk(chunk, limit), total)
         IN  /\ total \in Nat /\ total <= pending.total /\ total <= limit
             /\ end \in Nat /\ pending.next_index < end /\ end <= total
<1> DEFINE total == PlannedUrls(pending, limit)
<1>1. total \in Nat /\ total <= pending.total /\ total <= limit
  BY DEF PlannedUrls, AtMost
<1>2. pending.next_index < total
  BY <1>1 DEF ContinuationOk, AtLeast
<1>3. EffectiveChunk(chunk, limit) \in Nat \ {0}
  BY ChunkPositive
<1> HIDE DEF total
<1> QED
  BY <1>1, <1>2, <1>3, SliceInside DEF total

-----------------------------------------------------------------------------
(***************************************************************************)
(* Type correctness, which needs no assumption on the number of workers.   *)
(***************************************************************************)
LEMMA LostTyped == LostConfig \in ConfigType
BY DEF LostConfig, ConfigType

\* A worker's record, field by field.
LEMMA WorkMade ==
  ASSUME NEW limit \in 1..MaxPageLimit, NEW resume \in BOOLEAN, NEW total \in 0..Site,
         NEW next \in 0..Site, NEW end \in 0..Site, NEW chunks \in Nat,
         NEW first \in BOOLEAN, NEW refused \in BOOLEAN, NEW read \in ConfigType
  PROVE  [limit |-> limit, resume |-> resume, total |-> total, next |-> next, end |-> end,
          chunks |-> chunks, first |-> first, refused |-> refused, read |-> read] \in WorkType
BY DEF WorkType

LEMMA WorkFields ==
  ASSUME CrawlTypeOK, NEW w \in Workers
  PROVE  /\ work[w] \in WorkType
         /\ work[w].limit \in 1..MaxPageLimit /\ work[w].resume \in BOOLEAN
         /\ work[w].total \in 0..Site /\ work[w].next \in 0..Site /\ work[w].end \in 0..Site
         /\ work[w].chunks \in Nat /\ work[w].first \in BOOLEAN
         /\ work[w].refused \in BOOLEAN /\ work[w].read \in ConfigType
<1>1. work[w] \in WorkType
  BY DEF CrawlTypeOK
<1> QED
  BY <1>1 DEF WorkType

LEMMA BegunTyped ==
  ASSUME NEW limit \in 1..MaxPageLimit, NEW resume \in BOOLEAN
  PROVE  Begun(limit, resume) \in WorkType
<1>1. 0 \in 0..Site /\ 0 \in Nat /\ FALSE \in BOOLEAN
  BY CrawlAssumption
<1> QED
  BY <1>1, LostTyped, WorkMade DEF Begun

LEMMA NoWorkTyped == NoWork \in WorkType
<1>1. DefaultPageLimit \in 1..MaxPageLimit /\ FALSE \in BOOLEAN
  BY PlanAssumption
<1> QED
  BY <1>1, BegunTyped DEF NoWork

\* A worker that takes up a slice.
LEMMA SliceTyped ==
  ASSUME CrawlTypeOK, NEW w \in Workers, NEW total \in 0..Site, NEW start \in Nat,
         NEW chunks \in Nat, NEW first \in BOOLEAN, start < total,
         TakeSlice(w, total, start, chunks, first)
  PROVE  /\ work' \in [Workers -> WorkType]
         /\ \A v \in Workers : v # w => work'[v] = work[v]
         /\ work'[w].total = total /\ work'[w].next = start /\ work'[w].first = first
         /\ start < work'[w].end /\ work'[w].end <= total
<1> DEFINE end == SliceEnd(start, Chunk(w), total)
<1> DEFINE taken == [limit |-> work[w].limit, resume |-> work[w].resume, total |-> total,
                     next |-> start, end |-> end, chunks |-> chunks, first |-> first,
                     refused |-> FALSE, read |-> LostConfig]
<1>1. Chunk(w) \in Nat \ {0}
  <2>1. work[w].limit \in Nat /\ ChunkSize \in Nat
    BY WorkFields, CrawlAssumption, PlanAssumption
  <2> QED
    BY <2>1, ChunkPositive DEF Chunk
<1>2. end \in 0..Site /\ start \in 0..Site /\ start < end /\ end <= total
  <2>1. total \in Nat
    OBVIOUS
  <2>2. end \in Nat /\ start < end /\ end <= total
    BY <1>1, <2>1, SliceInside
  <2> HIDE DEF end
  <2> QED
    BY <2>2, CrawlAssumption
<1>3. work' = [work EXCEPT ![w] = taken]
  BY DEF TakeSlice
<1> HIDE DEF end
<1>4. taken \in WorkType
  <2>1. FALSE \in BOOLEAN
    OBVIOUS
  <2> QED
    BY <1>2, <2>1, WorkFields, LostTyped, WorkMade
<1>5. taken.total = total /\ taken.next = start /\ taken.first = first /\ taken.end = end
  OBVIOUS
<1> HIDE DEF taken
<1>6. work \in [Workers -> WorkType]
  BY DEF CrawlTypeOK
<1>7. work' \in [Workers -> WorkType] /\ work'[w] = taken
  BY <1>3, <1>4, <1>6
<1> QED
  BY <1>2, <1>3, <1>5, <1>6, <1>7

\* A worker whose record changes in one field.
LEMMA AdvancedTyped ==
  ASSUME CrawlTypeOK, NEW w \in Workers, NEW n \in 0..Site,
         work' = [work EXCEPT ![w].next = n]
  PROVE  /\ work' \in [Workers -> WorkType]
         /\ \A v \in Workers : v # w => work'[v] = work[v]
         /\ work'[w] = [work[w] EXCEPT !.next = n]
<1>1. work[w] \in WorkType /\ work \in [Workers -> WorkType]
  BY DEF CrawlTypeOK
<1>2. [work[w] EXCEPT !.next = n] \in WorkType
  BY <1>1 DEF WorkType
<1> QED
  BY <1>1, <1>2

LEMMA ReadTyped ==
  ASSUME CrawlTypeOK, NEW w \in Workers, NEW c \in ConfigType,
         work' = [work EXCEPT ![w].read = c]
  PROVE  /\ work' \in [Workers -> WorkType]
         /\ \A v \in Workers : v # w => work'[v] = work[v]
         /\ work'[w] = [work[w] EXCEPT !.read = c]
<1>1. work[w] \in WorkType /\ work \in [Workers -> WorkType]
  BY DEF CrawlTypeOK
<1>2. [work[w] EXCEPT !.read = c] \in WorkType
  BY <1>1 DEF WorkType
<1> QED
  BY <1>1, <1>2

LEMMA RefusedTyped ==
  ASSUME CrawlTypeOK, NEW w \in Workers, work' = [work EXCEPT ![w].refused = TRUE]
  PROVE  work' \in [Workers -> WorkType]
<1>1. work[w] \in WorkType /\ work \in [Workers -> WorkType]
  BY DEF CrawlTypeOK
<1>2. [work[w] EXCEPT !.refused = TRUE] \in WorkType
  BY <1>1 DEF WorkType
<1> QED
  BY <1>1, <1>2

LEMMA InitTyped == CrawlInit => CrawlTypeOK
<1> SUFFICES ASSUME CrawlInit PROVE CrawlTypeOK
  OBVIOUS
<1>1. config \in ConfigType
  BY DEF CrawlInit, ConfigType
<1>2. work \in [Workers -> WorkType]
  BY NoWorkTyped DEF CrawlInit
<1> QED
  BY <1>1, <1>2 DEF CrawlInit, CrawlTypeOK, Statuses

\* A worker that continues, where ContinuationOk lets it.
LEMMA ContinueTyped ==
  ASSUME CrawlTypeOK, NEW w \in Workers, Continuation # NoPending,
         ContinuationOk(Continuation, work[w].limit, Chunk(w)),
         TakeSlice(w, PlannedUrls(Continuation, work[w].limit), Continuation.next_index,
                   Continuation.chunks_processed + 1, FALSE)
  PROVE  /\ work' \in [Workers -> WorkType]
         /\ work'[w].total = PlannedUrls(Continuation, work[w].limit)
         /\ work'[w].next = Continuation.next_index /\ ~work'[w].first
         /\ work'[w].next < work'[w].end /\ work'[w].end <= work'[w].total
         /\ work'[w].next \in Nat /\ work'[w].end \in 0..Site
<1>1. Continuation \in [total : 0..Site, next_index : Nat, chunks_processed : Nat]
  BY DEF CrawlTypeOK, ConfigType, Continuation
<1>2. work[w].limit \in Nat \ {0}
  BY WorkFields, PlanAssumption
<1>3. /\ PlannedUrls(Continuation, work[w].limit) \in 0..Site
      /\ Continuation.next_index < PlannedUrls(Continuation, work[w].limit)
  <2>1. AtLeast(0, Continuation.next_index) < PlannedUrls(Continuation, work[w].limit)
    BY DEF ContinuationOk
  <2>2. Continuation.total \in 0..Site /\ Continuation.next_index \in Nat
    BY <1>1
  <2> QED
    BY <1>2, <2>1, <2>2, CrawlAssumption DEF PlannedUrls, AtMost, AtLeast
<1>4. /\ Continuation.next_index \in Nat /\ Continuation.chunks_processed + 1 \in Nat
      /\ FALSE \in BOOLEAN
  BY <1>1
<1> DEFINE total == PlannedUrls(Continuation, work[w].limit)
           start == Continuation.next_index
           chunks == Continuation.chunks_processed + 1
<1>5. TakeSlice(w, total, start, chunks, FALSE)
  OBVIOUS
<1>6. total \in 0..Site /\ start \in Nat /\ chunks \in Nat /\ start < total
  BY <1>3, <1>4
<1> HIDE DEF total, start, chunks
<1>7. /\ work' \in [Workers -> WorkType]
      /\ work'[w].total = total /\ work'[w].next = start /\ work'[w].first = FALSE
      /\ start < work'[w].end /\ work'[w].end <= total
  BY <1>4, <1>5, <1>6, SliceTyped
<1>8. work'[w].end \in 0..Site
  BY <1>7 DEF WorkType
<1> QED
  BY <1>6, <1>7, <1>8 DEF total, start

LEMMA StepTyped ==
  ASSUME CrawlTypeOK, \E w \in Workers : Begin(w) \/ Crawl(w) \/ Return(w) \/ Abandon(w)
  PROVE  CrawlTypeOK'
<1> USE CrawlAssumption, PlanAssumption
<1>1. ASSUME NEW w \in Workers, Begin(w) PROVE CrawlTypeOK'
  <2>1. EffectiveLimit(config.page_limit) \in 1..MaxPageLimit
    BY LimitInRange DEF CrawlTypeOK, ConfigType
  <2> DEFINE begun == Begun(EffectiveLimit(config.page_limit), Continuation # NoPending)
  <2>2. begun \in WorkType
    BY <2>1, BegunTyped
  <2>3. work' = [work EXCEPT ![w] = begun]
    BY <1>1 DEF Begin
  <2> HIDE DEF begun
  <2> QED
    BY <1>1, <2>2, <2>3 DEF CrawlTypeOK, Begin, Step
<1>2. ASSUME NEW w \in Workers, PlanRecovery(w) PROVE CrawlTypeOK'
  BY <1>2 DEF CrawlTypeOK, PlanRecovery, Step
<1>3. ASSUME NEW w \in Workers, ClearPages(w) PROVE CrawlTypeOK'
  BY <1>3 DEF CrawlTypeOK, ClearPages, Step, Statuses
<1>4. ASSUME NEW w \in Workers, ReadPages(w) PROVE CrawlTypeOK'
  BY <1>4 DEF CrawlTypeOK, ReadPages, Step, Fetched
<1>5. ASSUME NEW w \in Workers, LoadToStart(w) PROVE CrawlTypeOK'
  BY <1>5 DEF CrawlTypeOK, LoadToStart, Step
<1>6. ASSUME NEW w \in Workers, LoadToContinue(w) PROVE CrawlTypeOK'
  <2>1. work' \in [Workers -> WorkType]
    BY <1>6, ContinueTyped DEF LoadToContinue
  <2> QED
    BY <1>6, <2>1 DEF CrawlTypeOK, LoadToContinue, Step
<1>7. ASSUME NEW w \in Workers, LoadToRefuse(w) PROVE CrawlTypeOK'
  <2>1. work' \in [Workers -> WorkType]
    BY <1>7, RefusedTyped DEF LoadToRefuse
  <2> QED
    BY <1>7, <2>1 DEF CrawlTypeOK, LoadToRefuse, Step
<1>8. ASSUME NEW w \in Workers, SeedBlocked(w) PROVE CrawlTypeOK'
  <2>1. pages' \in [Urls -> Statuses]
    BY <1>8 DEF SeedBlocked, InsertPage, CrawlTypeOK, Statuses
  <2> QED
    BY <1>8, <2>1 DEF CrawlTypeOK, SeedBlocked, Step
<1>9. ASSUME NEW w \in Workers, SeedUnreachable(w) PROVE CrawlTypeOK'
  <2>1. pages' \in [Urls -> Statuses]
    BY <1>9 DEF SeedUnreachable, InsertFailure, InsertPage, CrawlTypeOK, Statuses
  <2> QED
    BY <1>9, <2>1 DEF CrawlTypeOK, SeedUnreachable, Step
<1>10. ASSUME NEW w \in Workers, SeedFetched(w) PROVE CrawlTypeOK'
  <2>1. work' \in [Workers -> WorkType]
    <3>1. work[w].limit \in Nat \ {0}
      BY WorkFields
    <3>2. AtMost(Site, work[w].limit) \in 0..Site /\ 0 < AtMost(Site, work[w].limit)
      BY <3>1 DEF AtMost
    <3>3. TakeSlice(w, AtMost(Site, work[w].limit), 0, 1, TRUE)
      BY <1>10 DEF SeedFetched
    <3>4. 0 \in Nat /\ 1 \in Nat /\ TRUE \in BOOLEAN
      OBVIOUS
    <3> QED
      BY <3>2, <3>3, <3>4, SliceTyped
  <2> QED
    BY <1>10, <2>1 DEF CrawlTypeOK, SeedFetched, Step
<1>11. ASSUME NEW w \in Workers, AuditPage(w) PROVE CrawlTypeOK'
  <2>1. work[w].next + 1 \in 0..Site
    BY <1>11, WorkFields DEF AuditPage
  <2>2. work' = [work EXCEPT ![w].next = work[w].next + 1]
    BY <1>11 DEF AuditPage
  <2>3. work' \in [Workers -> WorkType]
    BY <2>1, <2>2, AdvancedTyped
  <2>4. pages' \in [Urls -> Statuses]
    BY <1>11 DEF AuditPage, InsertFailure, InsertPage, CrawlTypeOK, Statuses
  <2> QED
    BY <1>11, <2>3, <2>4 DEF CrawlTypeOK, AuditPage
<1>12. ASSUME NEW w \in Workers, SliceDone(w) PROVE CrawlTypeOK'
  BY <1>12 DEF CrawlTypeOK, SliceDone, Step
<1>13. ASSUME NEW w \in Workers, ReadConfig(w) PROVE CrawlTypeOK'
  <2>1. PICK seen \in {config, LostConfig} : work' = [work EXCEPT ![w].read = seen]
    BY <1>13 DEF ReadConfig
  <2>2. seen \in ConfigType
    BY LostTyped DEF CrawlTypeOK
  <2>3. work' \in [Workers -> WorkType]
    BY <2>1, <2>2, ReadTyped
  <2> QED
    BY <1>13, <2>3 DEF CrawlTypeOK, ReadConfig, Step
<1>14. ASSUME NEW w \in Workers, SavePending(w) PROVE CrawlTypeOK'
  <2>1. /\ work[w].read \in ConfigType
        /\ [total |-> work[w].total, next_index |-> work[w].end,
            chunks_processed |-> work[w].chunks]
             \in [total : 0..Site, next_index : Nat, chunks_processed : Nat]
    BY WorkFields
  <2>2. config' \in ConfigType
    BY <1>14, <2>1 DEF SavePending, ConfigType
  <2> QED
    BY <1>14, <2>2 DEF CrawlTypeOK, SavePending, Step
<1>15. ASSUME NEW w \in Workers, Finalize(w) PROVE CrawlTypeOK'
  <2>1. work[w].total \in 0..Site
    BY WorkFields
  <2> QED
    BY <1>15, <2>1 DEF CrawlTypeOK, Finalize, Step
<1>16. ASSUME NEW w \in Workers, ReadToClear(w) PROVE CrawlTypeOK'
  <2>1. work' = [work EXCEPT ![w].read = config] /\ config \in ConfigType
    BY <1>16 DEF ReadToClear, CrawlTypeOK
  <2>2. work' \in [Workers -> WorkType]
    BY <2>1, ReadTyped
  <2> QED
    BY <1>16, <2>2 DEF CrawlTypeOK, ReadToClear, Step
<1>17. ASSUME NEW w \in Workers, WriteClear(w) PROVE CrawlTypeOK'
  <2>1. work[w].read \in ConfigType
    BY WorkFields
  <2>2. config' \in ConfigType
    BY <1>17, <2>1 DEF WriteClear, ConfigType
  <2> QED
    BY <1>17, <2>2 DEF CrawlTypeOK, WriteClear, Step, Cleared
<1>18. ASSUME NEW w \in Workers, ClearNotWritten(w) PROVE CrawlTypeOK'
  BY <1>18 DEF CrawlTypeOK, ClearNotWritten, Step, Cleared
<1>19. ASSUME NEW w \in Workers, Return(w) PROVE CrawlTypeOK'
  BY <1>19, NoWorkTyped DEF CrawlTypeOK, Return
<1>20. ASSUME NEW w \in Workers, Abandon(w) PROVE CrawlTypeOK'
  BY <1>20, NoWorkTyped DEF CrawlTypeOK, Abandon
<1>21. PICK w \in Workers : Begin(w) \/ Crawl(w) \/ Return(w) \/ Abandon(w)
  OBVIOUS
<1> QED
  BY <1>21, <1>1, <1>2, <1>3, <1>4, <1>5, <1>6, <1>7, <1>8, <1>9, <1>10, <1>11, <1>12,
     <1>13, <1>14, <1>15, <1>16, <1>17, <1>18, <1>19, <1>20 DEF Crawl

LEMMA NextTyped == CrawlTypeOK /\ [CrawlNext]_crawlVars => CrawlTypeOK'
<1> SUFFICES ASSUME CrawlTypeOK, [CrawlNext]_crawlVars PROVE CrawlTypeOK'
  OBVIOUS
<1>1. CASE CrawlNext
  BY <1>1, StepTyped DEF CrawlNext
<1>2. CASE UNCHANGED crawlVars
  BY <1>2 DEF crawlVars, CrawlTypeOK
<1> QED
  BY <1>1, <1>2

\* Every invocation, however many there are, leaves well-typed rows behind.
THEOREM CrawlTypeCorrect == CrawlSpec => []CrawlTypeOK
BY InitTyped, NextTyped, PTL DEF CrawlSpec

-----------------------------------------------------------------------------
(***************************************************************************)
(* Crawls that do not overlap.  What the steps keep is stated of the       *)
(* worker that takes them, and of any continuation, so that it holds too   *)
(* where others write the config.                                          *)
(***************************************************************************)
\* The worker is at it alone.
Alone(w) == \A v \in Workers \ {w} : at[v] = "idle"

\* A step of one of the workers.
StepOf(w) == Begin(w) \/ Crawl(w) \/ Return(w) \/ Abandon(w)

\* Where crawls do not overlap, the others are idle before and after a step.
LEMMA StepsAlone ==
  ASSUME OneCrawl, OneCrawl', CrawlTypeOK, NEW w \in Workers, StepOf(w)
  PROVE  Alone(w) /\ Alone(w)'
<1>1. /\ \A v \in Workers \ {w} : at'[v] = at[v]
      /\ at[w] # "idle" \/ at'[w] # "idle"
  BY DEF StepOf, Begin, Crawl, PlanRecovery, ClearPages, ReadPages, LoadToStart, LoadToContinue,
     LoadToRefuse, SeedBlocked, SeedUnreachable, SeedFetched, AuditPage, SliceDone, ReadConfig,
     SavePending, Finalize, ReadToClear, WriteClear, ClearNotWritten, Return, Abandon, Step,
     CrawlTypeOK
<1>2. CASE at[w] # "idle"
  BY <1>1, <1>2 DEF OneCrawl, Alone
<1>3. CASE at'[w] # "idle"
  BY <1>1, <1>3 DEF OneCrawl, Alone
<1> QED
  BY <1>1, <1>2, <1>3

\* What inserting a page does to the rows.
LEMMA InsertedPage ==
  ASSUME CrawlTypeOK, NEW u \in Urls, NEW status \in Statuses, InsertPage(u, status)
  PROVE  /\ \A v \in Urls : v # u \/ pages[v] \notin {"none", "lost"} => pages'[v] = pages[v]
         /\ pages[u] \in {"none", "lost"} => pages'[u] = status
BY DEF InsertPage, CrawlTypeOK

\* The seed of a crawl that starts, when it cannot be crawled.
LEMMA SeedRefused ==
  ASSUME CrawlTypeOK, Untouched \/ Seeded, NEW status \in {"skipped", "error", "lost"},
         InsertPage(1, status) \/ UNCHANGED pages
  PROVE  /\ Seeded => UNCHANGED pages
         /\ Untouched => /\ \A u \in Urls : pages'[u] = "none" \/ (u = 1 /\ pages'[u] = status)
                         /\ InsertPage(1, status) => pages'[1] = status
<1>1. 1 \in Urls /\ status \in Statuses
  BY CrawlAssumption DEF Urls, Statuses
<1>2. CASE Seeded
  BY <1>1, <1>2 DEF Seeded, InsertPage, Untouched
<1>3. CASE Untouched
  BY <1>1, <1>3, InsertedPage DEF Seeded, Untouched
<1> QED
  BY <1>2, <1>3

\* The page a slice is about to audit is dealt with afterwards.
LEMMA AuditDeals ==
  ASSUME CrawlIInv, NEW w \in Workers, AuditPage(w)
  PROVE  /\ work[w].next + 1 \in Urls
         /\ \A v \in Urls : v # work[w].next + 1 \/ pages[v] \notin {"none", "lost"}
              => pages'[v] = pages[v]
         /\ pages'[work[w].next + 1] \in {"fetched", "error", "lost"}
         /\ pages'[1] = "fetched"
         /\ pages[work[w].next + 1] = "none" \/ Attempted(work[w].next + 1)
<1> DEFINE u == work[w].next + 1
<1>1. /\ CrawlTypeOK /\ SliceOK /\ SeedOK /\ at[w] = "slice"
      /\ work[w].next \in 0..Site /\ work[w].end \in 0..Site /\ work[w].next < work[w].end
  BY WorkFields DEF CrawlIInv, AuditPage
<1>2. u \in Urls /\ 1 \in Urls
  BY <1>1, CrawlAssumption DEF Urls
<1>3. /\ work[w].first /\ work[w].next = 0 => Untouched \/ pages[1] = "fetched"
      /\ ~work[w].first \/ work[w].next > 0 => pages[1] = "fetched"
      /\ pages[u] = "skipped" => u = 1
  BY <1>1, <1>2 DEF SliceOK, SeedOK, Seeded
<1>4. pages[u] \in Statuses
  BY <1>1, <1>2 DEF CrawlTypeOK
<1>5. pages[u] = "none" \/ Attempted(u)
  BY <1>1, <1>2, <1>3, <1>4 DEF Attempted, Statuses, Untouched
<1>6. PICK status \in {"fetched", "error", "lost"} :
        /\ InsertPage(u, status)
        /\ status # "fetched" => ~(u = 1 /\ work[w].first)
  BY DEF AuditPage, InsertFailure
<1> HIDE DEF u
<1>7. /\ \A v \in Urls : v # u \/ pages[v] \notin {"none", "lost"} => pages'[v] = pages[v]
      /\ pages[u] \in {"none", "lost"} => pages'[u] = status
  BY <1>1, <1>2, <1>6, InsertedPage DEF Statuses
<1>8. pages'[u] \in {"fetched", "error", "lost"}
  BY <1>2, <1>5, <1>6, <1>7 DEF Attempted
<1>9. pages'[1] = "fetched"
  <2>1. CASE pages[1] = "fetched"
    BY <2>1, <1>2, <1>7
  <2>2. CASE pages[1] # "fetched"
    <3>1. work[w].first /\ u = 1 /\ Untouched
      BY <2>2, <1>1, <1>3 DEF u
    <3> QED
      BY <3>1, <1>2, <1>6, <1>7 DEF Untouched
  <2> QED
    BY <2>1, <2>2
<1> QED
  BY <1>2, <1>5, <1>7, <1>8, <1>9 DEF u

\* Once the seed is fetched no URL that was dealt with is forgotten.
LEMMA DealtStays ==
  ASSUME CrawlIInv, NEW w \in Workers, StepOf(w), Seeded
  PROVE  Seeded' /\ \A u \in Urls : Attempted(u) => Attempted(u)'
<1>0. 1 \in Urls /\ CrawlTypeOK /\ WayOK
  BY CrawlAssumption DEF CrawlIInv, Urls
<1>1. CASE UNCHANGED pages
  BY <1>1 DEF Seeded, Attempted
<1>2. CASE ClearPages(w)
  BY <1>0, <1>2 DEF ClearPages, Step, WayOK, Fetched, Seeded
<1>3. CASE SeedBlocked(w) \/ SeedUnreachable(w)
  <2>1. \E status \in {"skipped", "error", "lost"} : InsertPage(1, status) \/ UNCHANGED pages
    BY <1>3 DEF SeedBlocked, SeedUnreachable, InsertFailure
  <2>2. UNCHANGED pages
    BY <1>0, <2>1, SeedRefused
  <2> QED
    BY <1>1, <2>2
<1>4. CASE AuditPage(w)
  BY <1>4, AuditDeals DEF Seeded, Attempted
<1>5. \/ UNCHANGED pages \/ ClearPages(w) \/ SeedBlocked(w) \/ SeedUnreachable(w) \/ AuditPage(w)
  BY DEF StepOf, Crawl, Begin, PlanRecovery, ReadPages, LoadToStart, LoadToContinue, LoadToRefuse,
     SeedFetched, SliceDone, ReadConfig, SavePending, Finalize, ReadToClear, WriteClear,
     ClearNotWritten, Return, Abandon
<1> QED
  BY <1>1, <1>2, <1>3, <1>4, <1>5

\* A continuation that may be taken up still may be after a step, wherever a
\* copy of it is kept.
LEMMA StaysContinuable ==
  ASSUME CrawlIInv, NEW w \in Workers, StepOf(w), NEW pending, Continuable(pending)
  PROVE  Continuable(pending)'
<1> SUFFICES ASSUME pending # NoPending PROVE Continuable(pending)'
  BY DEF Continuable
<1>1. /\ Seeded /\ pending.next_index \in 1..Site
      /\ \A u \in 1..pending.next_index : u \in Urls /\ Attempted(u)
  BY CrawlAssumption DEF Continuable, Urls
<1>2. Seeded' /\ \A u \in Urls : Attempted(u) => Attempted(u)'
  BY <1>1, DealtStays
<1> QED
  BY <1>1, <1>2 DEF Continuable

\* The parts of the invariant besides the types.
CrawlPart == SeedOK /\ WayOK /\ SliceOK /\ CoverageIsHonest /\ Continuable(Continuation)

LEMMA InitPart == CrawlInit => CrawlPart
BY CrawlAssumption DEF CrawlInit, CrawlPart, SeedOK, WayOK, SliceOK, CoverageIsHonest,
   Continuable, Urls, Continuation, NoWork, Begun

(***************************************************************************)
(* A step that leaves the rows alone disturbs only what is said of the     *)
(* worker itself.                                                          *)
(***************************************************************************)
LEMMA RowsKept ==
  ASSUME CrawlIInv, UNCHANGED <<config, pages, coverage>>
  PROVE  /\ SeedOK' /\ CoverageIsHonest' /\ Continuable(Continuation)'
         /\ Untouched' = Untouched /\ Fetched' = Fetched /\ Continuation' = Continuation
         /\ Seeded' = Seeded /\ \A u : Attempted(u)' <=> Attempted(u)
<1>1. /\ Untouched' = Untouched /\ Fetched' = Fetched /\ Continuation' = Continuation
      /\ Seeded' = Seeded /\ \A u : Attempted(u)' <=> Attempted(u)
  BY DEF Untouched, Fetched, Continuation, Seeded, Attempted
<1>2. SeedOK' /\ CoverageIsHonest'
  BY <1>1 DEF CrawlIInv, SeedOK, CoverageIsHonest
<1>3. Continuable(Continuation)'
  BY <1>1 DEF CrawlIInv, Continuable
<1> QED
  BY <1>1, <1>2, <1>3

\* Where one worker is all there is to be said about a place outside a slice.
LEMMA WorkerElsewhere ==
  ASSUME CrawlTypeOK, NEW w \in Workers, Alone(w)', NEW to,
         at' = [at EXCEPT ![w] = to],
         to \notin {"plan", "clear", "load", "start", "slice", "read_config",
                   "save_pending", "finalize"}
  PROVE  WayOK' /\ SliceOK'
<1>1. \A v \in Workers : at'[v] \in {to, "idle"}
  BY DEF Alone, CrawlTypeOK
<1> QED
  BY <1>1 DEF WayOK, SliceOK

\* A worker on its way to a slice.
LEMMA WorkerOnItsWay ==
  ASSUME CrawlTypeOK, NEW w \in Workers, Alone(w)', NEW to,
         at' = [at EXCEPT ![w] = to],
         \/ to = "plan" /\ (work'[w].resume => Seeded')
         \/ to = "clear" /\ Fetched' = {}
         \/ to \in {"load", "start"} /\ (Untouched' \/ Seeded')
  PROVE  WayOK' /\ SliceOK'
<1>1. \A v \in Workers : at'[v] = IF v = w THEN to ELSE "idle"
  BY DEF Alone, CrawlTypeOK
<1> QED
  BY <1>1 DEF WayOK, SliceOK

\* What SliceOK says of one worker.
InSlice(w) ==
  /\ work[w].next <= work[w].end /\ work[w].end <= work[w].total /\ work[w].end >= 1
  /\ \A u \in 1..work[w].next : Attempted(u)
  /\ work[w].first /\ work[w].next = 0 => Untouched \/ Seeded
  /\ ~work[w].first \/ work[w].next > 0 => Seeded

LEMMA WorkerInSlice ==
  ASSUME CrawlTypeOK, NEW w \in Workers, Alone(w)', InSlice(w)',
         NEW to \in {"slice", "read_config", "save_pending", "finalize"},
         at'[w] = to,
         to # "slice" => work'[w].next = work'[w].end,
         to = "finalize" => work'[w].end = work'[w].total
  PROVE  WayOK' /\ SliceOK'
<1>1. \A v \in Workers : v = w \/ at'[v] = "idle"
  BY DEF Alone
<1>2. WayOK'
  BY <1>1 DEF WayOK
<1>3. SliceOK'
  BY <1>1 DEF SliceOK, InSlice
<1> QED
  BY <1>2, <1>3

LEMMA WasInSlice ==
  ASSUME CrawlIInv, NEW w \in Workers,
         at[w] \in {"slice", "read_config", "save_pending", "finalize"}
  PROVE  InSlice(w)
BY DEF CrawlIInv, SliceOK, InSlice

LEMMA NextPart ==
  ASSUME CrawlIInv, CrawlTypeOK', NEW w \in Workers, Alone(w)', StepOf(w)
  PROVE  CrawlPart'
<1>0. CrawlTypeOK /\ SeedOK /\ WayOK /\ SliceOK /\ CoverageIsHonest /\ Continuable(Continuation)
  BY DEF CrawlIInv
<1>1. CASE Begin(w)
  <2>1. at' = [at EXCEPT ![w] = "plan"] /\ UNCHANGED <<config, pages, coverage>>
    BY <1>1 DEF Begin, Step
  <2>2. work'[w].resume => Seeded'
    <3>1. work'[w].resume <=> Continuation # NoPending
      BY <1>0, <1>1 DEF Begin, Begun, CrawlTypeOK
    <3> QED
      BY <1>0, <2>1, <3>1, RowsKept DEF Continuable
  <2> QED
    BY <1>0, <2>1, <2>2, RowsKept, WorkerOnItsWay DEF CrawlPart
<1>2. CASE PlanRecovery(w)
  <2>1. /\ UNCHANGED <<config, pages, coverage, work>> /\ at[w] = "plan"
        /\ work[w].resume \in BOOLEAN
        /\ (work[w].resume => Seeded)
    BY <1>0, <1>2, WorkFields DEF PlanRecovery, Step, WayOK
  <2>2. CASE ~ShouldRunCrawl(Fetched # {}, work[w].resume)
    <3>1. at' = [at EXCEPT ![w] = "read_pages"]
      BY <1>2, <2>2 DEF PlanRecovery, Step
    <3> QED
      BY <1>0, <2>1, <3>1, RowsKept, WorkerElsewhere DEF CrawlPart
  <2>3. CASE ShouldRunCrawl(Fetched # {}, work[w].resume)
             /\ ClearFailedPages(Fetched # {}, work[w].resume)
    <3>1. at' = [at EXCEPT ![w] = "clear"]
      BY <1>2, <2>3 DEF PlanRecovery, Step
    <3>2. Fetched = {}
      BY <2>1, <2>3 DEF ClearFailedPages
    <3>3. Fetched' = {}
      BY <2>1, <3>2, RowsKept
    <3> QED
      BY <1>0, <2>1, <3>1, <3>3, RowsKept, WorkerOnItsWay DEF CrawlPart
  <2>4. CASE ShouldRunCrawl(Fetched # {}, work[w].resume)
             /\ ~ClearFailedPages(Fetched # {}, work[w].resume)
    <3>1. at' = [at EXCEPT ![w] = "load"]
      BY <1>2, <2>4 DEF PlanRecovery, Step
    <3>2. Seeded
      BY <2>1, <2>4 DEF ShouldRunCrawl, ClearFailedPages
    <3>3. Seeded'
      BY <2>1, <3>2, RowsKept
    <3> QED
      BY <1>0, <2>1, <3>1, <3>3, RowsKept, WorkerOnItsWay DEF CrawlPart
  <2> QED
    BY <2>2, <2>3, <2>4
<1>3. CASE ClearPages(w)
  <2>1. /\ at' = [at EXCEPT ![w] = "load"] /\ UNCHANGED <<config, coverage>>
        /\ pages' = [u \in Urls |-> "none"] /\ Fetched = {}
    BY <1>0, <1>3 DEF ClearPages, Step, WayOK
  <2>2. ~Seeded
    BY <2>1, CrawlAssumption DEF Seeded, Fetched, Urls
  <2>3. Continuation' = NoPending /\ Untouched'
    BY <1>0, <2>1, <2>2 DEF Continuation, Untouched, Continuable
  <2>4. coverage # NoCoverage => coverage \in Nat /\ ~(coverage > 0)
    BY <1>0, <2>2, CrawlAssumption DEF SeedOK, CrawlTypeOK
  <2>5. SeedOK'
    BY <2>1, <2>4 DEF SeedOK
  <2>6. CoverageIsHonest'
    BY <2>1, <2>4 DEF CoverageIsHonest
  <2> QED
    BY <1>0, <2>1, <2>3, <2>5, <2>6, WorkerOnItsWay DEF CrawlPart, Continuable
<1>4. CASE ReadPages(w)
  <2>1. /\ UNCHANGED <<config, pages, coverage>>
        /\ \E to \in {"failed", "built"} : at' = [at EXCEPT ![w] = to]
    BY <1>4 DEF ReadPages, Step
  <2> QED
    BY <1>0, <2>1, RowsKept, WorkerElsewhere DEF CrawlPart
<1>5. CASE LoadToStart(w)
  <2>1. /\ UNCHANGED <<config, pages, coverage>> /\ at' = [at EXCEPT ![w] = "start"]
        /\ Untouched \/ Seeded
    BY <1>0, <1>5 DEF LoadToStart, Step, WayOK
  <2>2. Untouched' \/ Seeded'
    BY <2>1, RowsKept
  <2> QED
    BY <1>0, <2>1, <2>2, RowsKept, WorkerOnItsWay DEF CrawlPart
<1>6. CASE LoadToContinue(w)
  <2>1. /\ UNCHANGED <<config, pages, coverage>> /\ at'[w] = "slice"
        /\ Continuation # NoPending
        /\ ContinuationOk(Continuation, work[w].limit, Chunk(w))
        /\ TakeSlice(w, PlannedUrls(Continuation, work[w].limit), Continuation.next_index,
                     Continuation.chunks_processed + 1, FALSE)
    BY <1>0, <1>6 DEF LoadToContinue, Step, CrawlTypeOK
  <2>2. /\ work'[w].total = PlannedUrls(Continuation, work[w].limit)
        /\ work'[w].next = Continuation.next_index /\ ~work'[w].first
        /\ work'[w].next < work'[w].end /\ work'[w].end <= work'[w].total
        /\ work'[w].next \in Nat /\ work'[w].end \in 0..Site
    BY <1>0, <2>1, ContinueTyped
  <2>3. InSlice(w)'
    <3>1. Seeded /\ \A u \in 1..Continuation.next_index : Attempted(u)
      BY <1>0, <2>1 DEF Continuable
    <3>2. Seeded' /\ \A u \in 1..work'[w].next : Attempted(u)'
      BY <2>1, <2>2, <3>1, RowsKept
    <3>3. work'[w].end >= 1 /\ work'[w].next <= work'[w].end
      BY <2>2
    <3> QED
      BY <2>2, <3>2, <3>3 DEF InSlice
  <2> QED
    BY <1>0, <2>1, <2>3, RowsKept, WorkerInSlice DEF CrawlPart
<1>7. CASE LoadToRefuse(w)
  <2>1. UNCHANGED <<config, pages, coverage>> /\ at' = [at EXCEPT ![w] = "read_clear"]
    BY <1>7 DEF LoadToRefuse, Step
  <2> QED
    BY <1>0, <2>1, RowsKept, WorkerElsewhere DEF CrawlPart
<1>8. CASE SeedBlocked(w) \/ SeedUnreachable(w)
  <2>1. PICK status \in {"skipped", "error", "lost"} : InsertPage(1, status) \/ UNCHANGED pages
    BY <1>8 DEF SeedBlocked, SeedUnreachable, InsertFailure
  <2>2. /\ UNCHANGED config /\ at' = [at EXCEPT ![w] = "failed"]
        /\ (Untouched \/ Seeded) /\ coverage' \in {coverage, 0}
    BY <1>0, <1>8 DEF SeedBlocked, SeedUnreachable, Step, WayOK
  <2>3. /\ Seeded => UNCHANGED pages
        /\ Untouched => \A u \in Urls : pages'[u] = "none" \/ u = 1
    BY <1>0, <2>1, <2>2, SeedRefused
  <2>4. Continuable(Continuation)'
    BY <1>0, <1>8, <2>2, StaysContinuable DEF StepOf, Crawl, Continuation
  <2>5. SeedOK' /\ CoverageIsHonest'
    <3>1. CASE Seeded
      BY <1>0, <2>2, <2>3, <3>1, CrawlAssumption DEF SeedOK, CoverageIsHonest, Seeded, Attempted
    <3>2. CASE ~Seeded
      <4>1. coverage' # NoCoverage => coverage' \in Nat /\ ~(coverage' > 0)
        BY <1>0, <2>2, <3>2, CrawlAssumption DEF SeedOK, CrawlTypeOK
      <4> QED
        BY <2>2, <2>3, <3>2, <4>1 DEF SeedOK, CoverageIsHonest
    <3> QED
      BY <3>1, <3>2
  <2> QED
    BY <1>0, <2>2, <2>4, <2>5, WorkerElsewhere DEF CrawlPart
<1>9. CASE SeedFetched(w)
  <2> DEFINE total == AtMost(Site, work[w].limit)
  <2>1. /\ UNCHANGED <<config, pages, coverage>> /\ at'[w] = "slice"
        /\ Untouched \/ Seeded
        /\ TakeSlice(w, total, 0, 1, TRUE)
    BY <1>0, <1>9 DEF SeedFetched, Step, WayOK, CrawlTypeOK
  <2>2. total \in 0..Site /\ 0 < total
    BY <1>0, WorkFields, CrawlAssumption DEF AtMost
  <2>3. 0 \in Nat /\ 1 \in Nat /\ TRUE \in BOOLEAN
    OBVIOUS
  <2> HIDE DEF total
  <2>4. /\ work'[w].total = total /\ work'[w].next = 0 /\ work'[w].first = TRUE
        /\ 0 < work'[w].end /\ work'[w].end <= total
        /\ work' \in [Workers -> WorkType]
    BY <1>0, <2>1, <2>2, <2>3, SliceTyped
  <2>5. work'[w].end \in 0..Site
    BY <2>4 DEF WorkType
  <2>6. Untouched' \/ Seeded'
    BY <2>1, RowsKept
  <2>7. InSlice(w)'
    BY <2>4, <2>5, <2>6 DEF InSlice
  <2> QED
    BY <1>0, <2>1, <2>7, RowsKept, WorkerInSlice DEF CrawlPart
<1>10. CASE AuditPage(w)
  <2> DEFINE u == work[w].next + 1
  <2>1. /\ UNCHANGED <<config, coverage, at>> /\ at[w] = "slice"
        /\ work[w].next < work[w].end /\ work' = [work EXCEPT ![w].next = u]
        /\ work[w].next \in 0..Site /\ work[w].end \in 0..Site
        /\ work[w].total \in 0..Site /\ work[w].first \in BOOLEAN /\ InSlice(w)
    BY <1>0, <1>10, WorkFields, WasInSlice DEF AuditPage
  <2>2. /\ u \in Urls /\ pages'[u] \in {"fetched", "error", "lost"} /\ pages'[1] = "fetched"
        /\ \A v \in Urls : v # u \/ pages[v] \notin {"none", "lost"} => pages'[v] = pages[v]
    BY <1>10, AuditDeals
  <2>3. /\ work'[w].next = u /\ work'[w].end = work[w].end
        /\ work'[w].total = work[w].total /\ work'[w].first = work[w].first
    BY <1>0, <2>1 DEF CrawlTypeOK, WorkType
  <2>4. u \in 1..Site /\ u = work[w].next + 1 /\ work[w].next \in Int
    BY <2>1, <2>2 DEF Urls
  <2> HIDE DEF u
  <2>5. \A v \in Urls : Attempted(v) => Attempted(v)'
    BY <2>2 DEF Attempted
  <2>6. \A v \in 1..u : Attempted(v)'
    <3> SUFFICES ASSUME NEW v \in 1..u PROVE pages'[v] \in {"fetched", "error", "lost"}
      BY DEF Attempted
    <3>1. CASE v = u
      BY <3>1, <2>2
    <3>2. CASE v # u
      <4>1. v \in 1..work[w].next /\ v \in Urls
        BY <3>2, <2>4, CrawlAssumption DEF Urls
      <4> QED
        BY <4>1, <2>1, <2>5 DEF InSlice, Attempted
    <3> QED
      BY <3>1, <3>2
  <2>7. InSlice(w)'
    <3>1. work'[w].next <= work'[w].end /\ work'[w].end <= work'[w].total /\ work'[w].end >= 1
      BY <2>1, <2>3, <2>4 DEF InSlice
    <3>2. \A v \in 1..work'[w].next : Attempted(v)'
      BY <2>3, <2>6
    <3>3. work'[w].next # 0
      BY <2>3, <2>4
    <3> QED
      BY <2>2, <3>1, <3>2, <3>3 DEF InSlice, Seeded
  <2>8. Continuation' = Continuation /\ coverage' = coverage
    BY <2>1 DEF Continuation
  <2>9. SeedOK'
    <3>1. \A v \in Urls : pages'[v] = "skipped" => v = 1
      BY <1>0, <2>2 DEF SeedOK
    <3> QED
      BY <1>0, <2>2, <2>8, <3>1 DEF SeedOK, Seeded
  <2>10. CoverageIsHonest'
    <3>1. coverage # NoCoverage => \A v \in 1..coverage : v \in Urls
      BY <1>0, CrawlAssumption DEF CrawlTypeOK, Urls
    <3> QED
      BY <1>0, <2>5, <2>8, <3>1 DEF CoverageIsHonest
  <2>11. Continuable(Continuation)'
    BY <1>0, <1>10, <2>8, StaysContinuable DEF StepOf, Crawl
  <2> QED
    BY <2>1, <2>7, <2>9, <2>10, <2>11, <1>0, WorkerInSlice DEF CrawlPart
<1>11. CASE SliceDone(w)
  <2>1. /\ UNCHANGED <<config, pages, coverage, work>> /\ at[w] = "slice"
        /\ work[w].next >= work[w].end /\ InSlice(w)
        /\ work[w].next \in 0..Site /\ work[w].end \in 0..Site /\ work[w].total \in 0..Site
    BY <1>0, <1>11, WorkFields, WasInSlice DEF SliceDone, Step
  <2>2. work[w].next = work[w].end /\ work[w].end <= work[w].total
    BY <2>1 DEF InSlice
  <2>3. \/ at'[w] = "read_config"
        \/ at'[w] = "finalize" /\ ~(work[w].end < work[w].total)
    BY <1>0, <1>11, <2>1 DEF SliceDone, Step, CrawlTypeOK
  <2>4. at'[w] = "finalize" => work[w].end = work[w].total
    BY <2>1, <2>2, <2>3
  <2>5. InSlice(w)'
    BY <2>1, RowsKept DEF InSlice
  <2> QED
    BY <1>0, <2>1, <2>2, <2>3, <2>4, <2>5, RowsKept, WorkerInSlice DEF CrawlPart
<1>12. CASE ReadConfig(w)
  <2>1. PICK seen : work' = [work EXCEPT ![w].read = seen]
    BY <1>12 DEF ReadConfig
  <2>2. /\ UNCHANGED <<config, pages, coverage>> /\ at[w] = "read_config"
        /\ at'[w] = "save_pending" /\ InSlice(w) /\ work[w].next = work[w].end
    BY <1>0, <1>12, WasInSlice DEF ReadConfig, Step, CrawlTypeOK, SliceOK
  <2>3. /\ work'[w].next = work[w].next /\ work'[w].end = work[w].end
        /\ work'[w].total = work[w].total /\ work'[w].first = work[w].first
    BY <1>0, <2>1 DEF CrawlTypeOK, WorkType
  <2>4. InSlice(w)'
    <3>1. Untouched' = Untouched /\ Seeded' = Seeded /\ \A u : Attempted(u)' <=> Attempted(u)
      BY <2>2, RowsKept
    <3> QED
      BY <2>2, <2>3, <3>1 DEF InSlice
  <2> QED
    BY <1>0, <2>2, <2>3, <2>4, RowsKept, WorkerInSlice DEF CrawlPart
<1>13. CASE SavePending(w)
  <2>1. /\ UNCHANGED <<pages, coverage>> /\ at[w] = "save_pending"
        /\ at' = [at EXCEPT ![w] = "partial"] /\ InSlice(w)
        /\ work[w].next = work[w].end /\ work[w].end \in 0..Site /\ work[w].read \in ConfigType
    BY <1>0, <1>13, WasInSlice, WorkFields DEF SavePending, Step, SliceOK
  <2>2. Continuation' = [total |-> work[w].total, next_index |-> work[w].end,
                         chunks_processed |-> work[w].chunks]
    BY <1>13, <2>1 DEF SavePending, Continuation, ConfigType
  <2>3. Continuation'.next_index = work[w].end /\ work[w].end \in 1..Site
    BY <2>1, <2>2, CrawlAssumption DEF InSlice
  <2>4. Seeded /\ \A u \in 1..work[w].end : Attempted(u)
    BY <2>1, <2>3 DEF InSlice
  <2>5. SeedOK' /\ CoverageIsHonest'
    BY <1>0, <2>1 DEF SeedOK, CoverageIsHonest, Seeded, Attempted
  <2>6. Continuable(Continuation)'
    BY <2>1, <2>3, <2>4 DEF Continuable, Seeded, Attempted
  <2> QED
    BY <1>0, <2>1, <2>5, <2>6, WorkerElsewhere DEF CrawlPart
<1>14. CASE Finalize(w)
  <2>1. /\ UNCHANGED <<config, pages>> /\ at[w] = "finalize" /\ InSlice(w)
        /\ \E to \in {"read_pages", "read_clear"} : at' = [at EXCEPT ![w] = to]
        /\ work[w].next = work[w].end /\ work[w].end = work[w].total
    BY <1>0, <1>14, WasInSlice DEF Finalize, Step, SliceOK
  <2>2. coverage' = work[w].total
    BY <1>14 DEF Finalize
  <2>3. Seeded /\ \A u \in 1..work[w].total : Attempted(u)
    BY <1>0, <2>1, WorkFields DEF InSlice
  <2>4. SeedOK' /\ CoverageIsHonest'
    BY <1>0, <2>1, <2>2, <2>3 DEF SeedOK, CoverageIsHonest, Seeded, Attempted
  <2>5. Continuable(Continuation)'
    BY <1>0, <1>14, <2>1, StaysContinuable DEF StepOf, Crawl, Continuation
  <2> QED
    BY <1>0, <2>1, <2>4, <2>5, WorkerElsewhere DEF CrawlPart
<1>15. CASE ReadToClear(w)
  <2>1. UNCHANGED <<config, pages, coverage>> /\ at' = [at EXCEPT ![w] = "write_clear"]
    BY <1>15 DEF ReadToClear, Step
  <2> QED
    BY <1>0, <2>1, RowsKept, WorkerElsewhere DEF CrawlPart
<1>16. CASE WriteClear(w)
  <2>1. /\ UNCHANGED <<pages, coverage>>
        /\ \E to \in {"failed", "read_pages"} : at' = [at EXCEPT ![w] = to]
        /\ work[w].read \in ConfigType
    BY <1>0, <1>16, WorkFields DEF WriteClear, Step, Cleared
  <2>2. Continuation' = NoPending
    BY <1>16, <2>1 DEF WriteClear, Continuation, ConfigType
  <2>3. SeedOK' /\ CoverageIsHonest' /\ Continuable(Continuation)'
    BY <1>0, <2>1, <2>2 DEF SeedOK, CoverageIsHonest, Continuable, Seeded, Attempted
  <2> QED
    BY <1>0, <2>1, <2>3, WorkerElsewhere DEF CrawlPart
<1>17. CASE ClearNotWritten(w)
  <2>1. /\ UNCHANGED <<config, pages, coverage>>
        /\ \E to \in {"failed", "read_pages"} : at' = [at EXCEPT ![w] = to]
    BY <1>17 DEF ClearNotWritten, Step, Cleared
  <2> QED
    BY <1>0, <2>1, RowsKept, WorkerElsewhere DEF CrawlPart
<1>18. CASE Return(w) \/ Abandon(w)
  <2>1. UNCHANGED <<config, pages, coverage>> /\ at' = [at EXCEPT ![w] = "idle"]
    BY <1>18 DEF Return, Abandon
  <2> QED
    BY <1>0, <2>1, RowsKept, WorkerElsewhere DEF CrawlPart
<1> QED
  BY <1>1, <1>2, <1>3, <1>4, <1>5, <1>6, <1>7, <1>8, <1>9, <1>10, <1>11, <1>12, <1>13,
     <1>14, <1>15, <1>16, <1>17, <1>18 DEF StepOf, Crawl

LEMMA CrawlStart == CrawlInit => CrawlIInv
BY InitTyped, InitPart DEF CrawlIInv, CrawlPart

LEMMA CrawlIInvStep ==
  ASSUME OneCrawl, OneCrawl', CrawlIInv, \E w \in Workers : StepOf(w)
  PROVE  CrawlIInv'
<1>1. PICK w \in Workers : StepOf(w)
  OBVIOUS
<1>2. CrawlTypeOK'
  BY StepTyped DEF CrawlIInv, StepOf
<1>3. Alone(w)'
  BY <1>1, StepsAlone DEF CrawlIInv
<1> QED
  BY <1>1, <1>2, <1>3, NextPart DEF CrawlIInv, CrawlPart

LEMMA CrawlStutter == CrawlIInv /\ UNCHANGED crawlVars => CrawlIInv'
<1> SUFFICES ASSUME CrawlIInv, UNCHANGED crawlVars PROVE CrawlIInv'
  OBVIOUS
<1>1. CrawlTypeOK'
  BY DEF crawlVars, CrawlIInv, CrawlTypeOK
<1>2. WayOK'
  BY DEF crawlVars, CrawlIInv, WayOK, Fetched, Untouched, Seeded
<1>3. SliceOK'
  BY DEF crawlVars, CrawlIInv, SliceOK, Untouched, Seeded, Attempted
<1>4. SeedOK' /\ CoverageIsHonest' /\ Continuable(Continuation)'
  BY RowsKept DEF crawlVars
<1> QED
  BY <1>1, <1>2, <1>3, <1>4 DEF CrawlIInv

LEMMA CrawlInvariant == CrawlSpec /\ []OneCrawl => []CrawlIInv
<1>1. OneCrawl /\ OneCrawl' /\ CrawlIInv /\ [CrawlNext]_crawlVars => CrawlIInv'
  BY CrawlIInvStep, CrawlStutter DEF CrawlNext, StepOf
<1> QED
  BY <1>1, CrawlStart, PTL DEF CrawlSpec

LEMMA ContinuableSkipsNothing == Continuable(Continuation) => ContinuationSkipsNothing
BY DEF Continuable, ContinuationSkipsNothing

(***************************************************************************)
(* While crawls of the run do not overlap, a continuation never starts     *)
(* past a URL that was not dealt with.                                     *)
(***************************************************************************)
THEOREM NothingSkipped == CrawlSpec /\ []OneCrawl => []ContinuationSkipsNothing
<1>1. CrawlIInv => ContinuationSkipsNothing
  BY ContinuableSkipsNothing DEF CrawlIInv
<1> QED
  BY <1>1, CrawlInvariant, PTL

(***************************************************************************)
(* ... and urls_remaining: 0 is true of every coverage summary.            *)
(***************************************************************************)
THEOREM HonestCoverage == CrawlSpec /\ []OneCrawl => []CoverageIsHonest
<1>1. CrawlIInv => CoverageIsHonest
  BY DEF CrawlIInv
<1> QED
  BY <1>1, CrawlInvariant, PTL

-----------------------------------------------------------------------------
(***************************************************************************)
(* A stored continuation can be continued.  As long as the run has its     *)
(* page limit, each chunk but the last takes RunChunk URLs: a continuation *)
(* stands exactly at the chunks before it, however often one of them was   *)
(* begun, so that the budget of planPendingContinuation is never used up.  *)
(***************************************************************************)
RunChunk == EffectiveChunk(ChunkSize, PageLimit)
HasLimit == config.page_limit > 0

Counted(pending) ==
  /\ pending.next_index = pending.chunks_processed * RunChunk
  /\ pending.next_index < pending.total /\ pending.total <= PageLimit

WorkerCounts(w) ==
  /\ HasLimit /\ at[w] # "idle" => work[w].limit = PageLimit
  /\ HasLimit /\ at[w] \in {"slice", "read_config", "save_pending"} =>
       /\ work[w].total <= PageLimit
       /\ work[w].end < work[w].total => work[w].end = work[w].chunks * RunChunk
  /\ at[w] \in {"read_config", "save_pending"} => work[w].end < work[w].total
  /\ at[w] \in {"save_pending", "write_clear"} /\ work[w].read.page_limit > 0 => HasLimit

ChunksCounted ==
  /\ HasLimit /\ Continuation # NoPending => Counted(Continuation)
  /\ \A w \in Workers : WorkerCounts(w)

LEMMA RunChunkPositive == RunChunk \in Nat \ {0} /\ PageLimit \in Nat \ {0}
BY ChunkPositive, CrawlAssumption, PlanAssumption DEF RunChunk

\* The chunks of a list of `limit` URLs are no more than CeilDiv counts.
LEMMA ChunksInBudget ==
  ASSUME NEW limit \in Nat \ {0}, NEW chunk \in Nat \ {0}, NEW n \in Nat, n * chunk < limit
  PROVE  AtLeast(1, n) <= ChunkBudget(limit, chunk)
<1> DEFINE q == (limit + chunk - 1) \div chunk
<1>1. q \in Int /\ limit + chunk - 1 < (q + 1) * chunk
  OBVIOUS
<1>2. n < q + 1
  <2>1. n * chunk < (q + 1) * chunk
    BY <1>1
  <2> HIDE DEF q
  <2>2. ASSUME q + 1 <= n PROVE (q + 1) * chunk <= n * chunk
    BY <1>1, <2>2
  <2> QED
    BY <1>1, <2>1, <2>2
<1>3. CeilDiv(limit, AtLeast(1, chunk)) = q
  BY DEF CeilDiv, AtLeast
<1> HIDE DEF q
<1> QED
  BY <1>1, <1>2, <1>3 DEF ChunkBudget, AtLeast

\* A continuation at whole chunks of a run with its limit is not refused.
LEMMA CountedContinues ==
  ASSUME CrawlTypeOK, HasLimit, Continuation # NoPending, Counted(Continuation)
  PROVE  LET limit == EffectiveLimit(config.page_limit)
         IN  ContinuationOk(Continuation, limit, EffectiveChunk(ChunkSize, limit))
<1>1. EffectiveLimit(config.page_limit) = PageLimit
  BY CrawlAssumption, PlanAssumption DEF HasLimit, CrawlTypeOK, ConfigType, EffectiveLimit, AtMost
<1>2. PICK p : p = Continuation
  OBVIOUS
<1>3. p \in [total : 0..Site, next_index : Nat, chunks_processed : Nat] /\ Counted(p)
  BY <1>2 DEF CrawlTypeOK, ConfigType, Continuation
<1>4. p.chunks_processed * RunChunk < PageLimit
  BY <1>3, RunChunkPositive, CrawlAssumption DEF Counted
<1>5. AtLeast(1, p.chunks_processed) <= ChunkBudget(PageLimit, RunChunk)
  BY <1>3, <1>4, RunChunkPositive, ChunksInBudget
<1>6. AtLeast(0, p.next_index) < PlannedUrls(p, PageLimit)
  BY <1>3, CrawlAssumption DEF Counted, AtLeast, PlannedUrls, AtMost
<1> QED
  BY <1>1, <1>2, <1>5, <1>6 DEF ContinuationOk, RunChunk

LEMMA CountedIsUsable == CrawlTypeOK /\ ChunksCounted => PendingIsUsable
BY CountedContinues DEF ChunksCounted, PendingIsUsable, HasLimit

\* A slice that does not reach the end of the list takes a whole chunk.
LEMMA SliceCounted ==
  ASSUME CrawlTypeOK, NEW w \in Workers, NEW total \in 0..Site, NEW n \in Nat, NEW first,
         HasLimit => work[w].limit = PageLimit,
         NEW start, HasLimit => start = n * RunChunk,
         NEW chunks, chunks = n + 1, TakeSlice(w, total, start, chunks, first)
  PROVE  /\ work'[w].total = total /\ work'[w].limit = work[w].limit
         /\ HasLimit /\ work'[w].end < total => work'[w].end = work'[w].chunks * RunChunk
<1>1. work'[w] = [limit |-> work[w].limit, resume |-> work[w].resume, total |-> total,
                  next |-> start, end |-> SliceEnd(start, Chunk(w), total), chunks |-> chunks,
                  first |-> first, refused |-> FALSE, read |-> LostConfig]
  BY DEF TakeSlice, CrawlTypeOK
<1>2. PICK end : end = SliceEnd(start, Chunk(w), total)
  OBVIOUS
<1>3. /\ work'[w].total = total /\ work'[w].limit = work[w].limit
      /\ work'[w].end = end /\ work'[w].chunks = n + 1
  BY <1>1, <1>2
<1>4. ASSUME HasLimit, end < total PROVE end = (n + 1) * RunChunk
  <2>1. Chunk(w) = RunChunk /\ start = n * RunChunk
    BY <1>4 DEF Chunk, RunChunk
  <2>2. end = n * RunChunk + RunChunk
    BY <1>2, <1>4, <2>1, RunChunkPositive, CrawlAssumption DEF SliceEnd, AtMost
  <2> QED
    BY <2>2, RunChunkPositive
<1> QED
  BY <1>3, <1>4

LEMMA CountsStep ==
  ASSUME CrawlTypeOK, ChunksCounted, NEW w \in Workers, Alone(w)', StepOf(w)
  PROVE  ChunksCounted'
<1>0. \A v \in Workers \ {w} : WorkerCounts(v)'
  BY DEF Alone, WorkerCounts
<1>1. /\ w \in Workers
      /\ WorkerCounts(w) /\ work[w] \in WorkType /\ config \in ConfigType
      /\ work \in [Workers -> WorkType] /\ \A label : [at EXCEPT ![w] = label][w] = label
  BY DEF ChunksCounted, CrawlTypeOK
<1>2. ASSUME UNCHANGED config, WorkerCounts(w)' PROVE ChunksCounted'
  BY <1>0, <1>1, <1>2 DEF ChunksCounted, HasLimit, Continuation, Counted
<1>3. CASE Begin(w)
  <2>1. /\ at'[w] = "plan" /\ UNCHANGED config
        /\ work' = [work EXCEPT ![w] = Begun(EffectiveLimit(config.page_limit), Continuation # NoPending)]
    BY <1>1, <1>3 DEF Begin, Step
  <2>2. work'[w].limit = EffectiveLimit(config.page_limit)
    BY <1>1, <2>1 DEF Begun
  <2>3. HasLimit => EffectiveLimit(config.page_limit) = PageLimit
    BY <1>1, CrawlAssumption, PlanAssumption DEF HasLimit, ConfigType, EffectiveLimit, AtMost
  <2> QED
    BY <1>2, <2>1, <2>2, <2>3 DEF WorkerCounts, HasLimit
<1>4. CASE PlanRecovery(w) \/ ClearPages(w) \/ ReadPages(w) \/ LoadToStart(w) \/ SeedBlocked(w)
           \/ SeedUnreachable(w) \/ Finalize(w) \/ ClearNotWritten(w)
  <2>1. /\ UNCHANGED <<config, work>> /\ at[w] # "idle"
        /\ at'[w] \in {"read_pages", "clear", "load", "failed", "built", "start", "read_clear"}
    BY <1>1, <1>4 DEF PlanRecovery, ClearPages, ReadPages, LoadToStart, SeedBlocked, SeedUnreachable,
       Finalize, ClearNotWritten, Cleared, Step
  <2> QED
    BY <1>1, <1>2, <2>1 DEF WorkerCounts, HasLimit
<1>5. CASE Return(w) \/ Abandon(w)
  <2>1. UNCHANGED config /\ at'[w] = "idle"
    BY <1>1, <1>5 DEF Return, Abandon
  <2> QED
    BY <1>2, <2>1 DEF WorkerCounts
<1>6. CASE LoadToContinue(w)
  <2>0. PICK p : p = Continuation
    OBVIOUS
  <2>1. /\ UNCHANGED config /\ at[w] = "load" /\ at'[w] = "slice" /\ p # NoPending
        /\ TakeSlice(w, PlannedUrls(p, work[w].limit), p.next_index, p.chunks_processed + 1, FALSE)
    BY <1>1, <1>6, <2>0 DEF LoadToContinue, Step
  <2>2. /\ p \in [total : 0..Site, next_index : Nat, chunks_processed : Nat]
        /\ HasLimit => Counted(p) /\ work[w].limit = PageLimit
    BY <1>1, <2>0, <2>1 DEF ConfigType, Continuation, ChunksCounted, WorkerCounts
  <2>3. /\ PlannedUrls(p, work[w].limit) \in 0..Site
        /\ PlannedUrls(p, work[w].limit) <= work[w].limit
    BY <1>1, <2>2, PlanAssumption, CrawlAssumption DEF PlannedUrls, AtMost, WorkType
  <2>4. HasLimit => p.next_index = p.chunks_processed * RunChunk
    BY <2>2 DEF Counted
  <2>5. p.chunks_processed \in Nat
    BY <2>2
  <2>6. /\ work'[w].total = PlannedUrls(p, work[w].limit) /\ work'[w].limit = work[w].limit
        /\ HasLimit /\ work'[w].end < PlannedUrls(p, work[w].limit) =>
             work'[w].end = work'[w].chunks * RunChunk
    BY <2>1, <2>2, <2>3, <2>4, <2>5, SliceCounted
  <2> QED
    BY <1>2, <2>1, <2>2, <2>3, <2>6 DEF WorkerCounts, HasLimit
<1>7. CASE SeedFetched(w)
  <2>1. /\ UNCHANGED config /\ at[w] = "start" /\ at'[w] = "slice"
        /\ TakeSlice(w, AtMost(Site, work[w].limit), 0, 1, TRUE)
    BY <1>1, <1>7 DEF SeedFetched, Step
  <2>2. HasLimit => work[w].limit = PageLimit
    BY <1>1, <2>1 DEF WorkerCounts
  <2>3. AtMost(Site, work[w].limit) \in 0..Site /\ AtMost(Site, work[w].limit) <= work[w].limit
    BY <1>1, PlanAssumption, CrawlAssumption DEF AtMost, WorkType
  <2>4. 0 \in Nat /\ 1 = 0 + 1 /\ (HasLimit => 0 = 0 * RunChunk)
    BY RunChunkPositive
  <2>5. /\ work'[w].total = AtMost(Site, work[w].limit) /\ work'[w].limit = work[w].limit
        /\ HasLimit /\ work'[w].end < AtMost(Site, work[w].limit) =>
             work'[w].end = work'[w].chunks * RunChunk
    BY <2>1, <2>2, <2>3, <2>4, SliceCounted
  <2> QED
    BY <1>2, <2>1, <2>2, <2>3, <2>5 DEF WorkerCounts, HasLimit
<1>8. CASE LoadToRefuse(w)
  <2>1. /\ UNCHANGED config /\ at[w] = "load" /\ at'[w] = "read_clear"
        /\ work'[w].limit = work[w].limit
    BY <1>1, <1>8 DEF LoadToRefuse, Step, WorkType
  <2> QED
    BY <1>1, <1>2, <2>1 DEF WorkerCounts, HasLimit
<1>9. CASE AuditPage(w)
  <2>1. /\ UNCHANGED config /\ at[w] = "slice" /\ at'[w] = "slice"
        /\ work'[w].limit = work[w].limit /\ work'[w].total = work[w].total
        /\ work'[w].end = work[w].end /\ work'[w].chunks = work[w].chunks
    BY <1>1, <1>9 DEF AuditPage, WorkType
  <2> QED
    BY <1>1, <1>2, <2>1 DEF WorkerCounts, HasLimit
<1>10. CASE SliceDone(w)
  <2>1. /\ UNCHANGED <<config, work>> /\ at[w] = "slice"
        /\ at'[w] = IF work[w].end < work[w].total THEN "read_config" ELSE "finalize"
    BY <1>1, <1>10 DEF SliceDone, Step
  <2> QED
    BY <1>1, <1>2, <2>1 DEF WorkerCounts, HasLimit
<1>11. CASE ReadConfig(w)
  <2>1. PICK seen \in {config, LostConfig} : work' = [work EXCEPT ![w].read = seen]
    BY <1>11 DEF ReadConfig
  <2>2. /\ UNCHANGED config /\ at[w] = "read_config" /\ at'[w] = "save_pending"
        /\ work'[w].limit = work[w].limit /\ work'[w].total = work[w].total
        /\ work'[w].end = work[w].end /\ work'[w].chunks = work[w].chunks
        /\ work'[w].read = seen
    BY <1>1, <1>11, <2>1 DEF ReadConfig, Step, WorkType
  <2>3. seen.page_limit > 0 => HasLimit
    BY <2>1 DEF LostConfig, HasLimit
  <2> QED
    BY <1>1, <1>2, <2>2, <2>3 DEF WorkerCounts, HasLimit
<1>12. CASE SavePending(w)
  <2>1. /\ at[w] = "save_pending" /\ at'[w] = "partial" /\ UNCHANGED work
        /\ config' = [work[w].read EXCEPT !.crawl_pending =
                        [total |-> work[w].total, next_index |-> work[w].end,
                         chunks_processed |-> work[w].chunks]]
    BY <1>1, <1>12 DEF SavePending, Step
  <2>2. /\ config'.page_limit = work[w].read.page_limit
        /\ config'.crawl_pending = [total |-> work[w].total, next_index |-> work[w].end,
                                    chunks_processed |-> work[w].chunks]
    BY <1>1, <2>1 DEF WorkType, ConfigType
  <2>3. HasLimit' => HasLimit
    BY <1>1, <2>1, <2>2 DEF WorkerCounts, HasLimit
  <2>4. ASSUME HasLimit PROVE Counted(config'.crawl_pending)
    BY <1>1, <2>1, <2>2, <2>4 DEF WorkerCounts, Counted
  <2>5. WorkerCounts(w)'
    BY <1>1, <2>1, <2>3 DEF WorkerCounts
  <2> QED
    BY <1>0, <2>3, <2>4, <2>5 DEF ChunksCounted, Continuation, Counted
<1>13. CASE ReadToClear(w)
  <2>1. /\ UNCHANGED config /\ at[w] = "read_clear" /\ at'[w] = "write_clear"
        /\ work'[w].limit = work[w].limit /\ work'[w].read = config
    BY <1>1, <1>13 DEF ReadToClear, Step, WorkType
  <2> QED
    BY <1>1, <1>2, <2>1 DEF WorkerCounts, HasLimit
<1>14. CASE WriteClear(w)
  <2>1. /\ at[w] = "write_clear" /\ at'[w] \in {"failed", "read_pages"} /\ UNCHANGED work
        /\ config' = [work[w].read EXCEPT !.crawl_pending = NoPending]
    BY <1>1, <1>14 DEF WriteClear, Cleared, Step
  <2>2. config'.page_limit = work[w].read.page_limit /\ config'.crawl_pending = NoPending
    BY <1>1, <2>1 DEF WorkType, ConfigType
  <2>3. HasLimit' => HasLimit
    BY <1>1, <2>1, <2>2 DEF WorkerCounts, HasLimit
  <2>4. WorkerCounts(w)'
    BY <1>1, <2>1, <2>3 DEF WorkerCounts
  <2> QED
    BY <1>0, <2>2, <2>4 DEF ChunksCounted, Continuation
<1> QED
  BY <1>3, <1>4, <1>5, <1>6, <1>7, <1>8, <1>9, <1>10, <1>11, <1>12, <1>13, <1>14 DEF StepOf, Crawl

(***************************************************************************)
(* While crawls do not overlap and the run has its page limit, no stored   *)
(* continuation is ever refused, for any site, limit, chunk size and       *)
(* number of crashes: planPendingContinuation against its own writer.      *)
(***************************************************************************)
THEOREM PendingIsAlwaysUsable == CrawlSpec /\ []OneCrawl => []PendingIsUsable
<1>1. CrawlInit => ChunksCounted
  BY DEF CrawlInit, ChunksCounted, WorkerCounts, Continuation
<1>2. OneCrawl /\ OneCrawl' /\ CrawlTypeOK /\ ChunksCounted /\ [CrawlNext]_crawlVars => ChunksCounted'
  <2> SUFFICES ASSUME OneCrawl, OneCrawl', CrawlTypeOK, ChunksCounted, [CrawlNext]_crawlVars
               PROVE  ChunksCounted'
    OBVIOUS
  <2>1. CASE UNCHANGED crawlVars
    BY <2>1 DEF crawlVars, ChunksCounted, WorkerCounts, Counted, HasLimit, Continuation
  <2>2. CASE CrawlNext
    BY <2>2, StepsAlone, CountsStep DEF CrawlNext, StepOf
  <2> QED
    BY <2>1, <2>2
<1> QED
  BY <1>1, <1>2, CrawlTypeCorrect, CountedIsUsable, PTL DEF CrawlSpec

-----------------------------------------------------------------------------
(***************************************************************************)
(* A run that may have as many pages as extractPageLimit assumes of one    *)
(* whose limit was lost: 10 in the code, where wrangler.jsonc has 30.      *)
(* Such a worker takes whole chunks of the run, or all it may at once, and *)
(* every continuation that is ever stored stands at whole chunks, whatever *)
(* config it is written into and however many workers there are.           *)
(***************************************************************************)
DefaultFits == DefaultPageLimit <= PageLimit

WholeChunks(pending) == pending # NoPending => Counted(pending)

WorkerWhole(w) ==
  /\ work[w].limit \in {PageLimit, DefaultPageLimit}
  /\ at[w] \in {"slice", "read_config", "save_pending"} =>
       /\ work[w].total <= PageLimit
       /\ work[w].end < work[w].total => work[w].end = work[w].chunks * RunChunk
  /\ at[w] \in {"read_config", "save_pending"} => work[w].end < work[w].total

\* A chunk that is not all a worker may take is a chunk of the run.
LEMMA ChunksAgree ==
  ASSUME DefaultFits, NEW limit \in {PageLimit, DefaultPageLimit}
  PROVE  /\ EffectiveChunk(ChunkSize, limit) \in Nat \ {0}
         /\ EffectiveChunk(ChunkSize, limit) < limit => EffectiveChunk(ChunkSize, limit) = RunChunk
BY CrawlAssumption, PlanAssumption DEF DefaultFits, EffectiveChunk, RunChunk, AtLeast, AtMost

LEMMA SliceWhole ==
  ASSUME DefaultFits, CrawlTypeOK, NEW w \in Workers, work[w].limit \in {PageLimit, DefaultPageLimit},
         NEW total \in 0..Site, total <= work[w].limit,
         NEW n \in Nat, NEW start, start = n * RunChunk, NEW chunks, chunks = n + 1, NEW first,
         TakeSlice(w, total, start, chunks, first), at'[w] = "slice"
  PROVE  WorkerWhole(w)'
<1>1. work'[w] = [limit |-> work[w].limit, resume |-> work[w].resume, total |-> total,
                  next |-> start, end |-> SliceEnd(start, Chunk(w), total), chunks |-> chunks,
                  first |-> first, refused |-> FALSE, read |-> LostConfig]
  BY DEF TakeSlice, CrawlTypeOK
<1>2. PICK end : end = SliceEnd(start, Chunk(w), total)
  OBVIOUS
<1>3. PICK limit \in {PageLimit, DefaultPageLimit} : limit = work[w].limit
  OBVIOUS
<1>4. PICK chunk \in Nat \ {0} : chunk = Chunk(w)
  BY <1>3, ChunksAgree DEF Chunk
<1>5. chunk < limit => chunk = RunChunk
  BY <1>3, <1>4, ChunksAgree DEF Chunk
<1>6. PICK m \in Nat : m = n * RunChunk
  BY RunChunkPositive
<1>7. ASSUME end < total PROVE end = (n + 1) * RunChunk
  <2>1. end = m + chunk
    BY <1>2, <1>4, <1>6, <1>7, CrawlAssumption DEF SliceEnd, AtMost
  <2>2. chunk < limit
    BY <1>3, <1>7, <2>1, CrawlAssumption, PlanAssumption
  <2>3. (n + 1) * RunChunk = n * RunChunk + RunChunk
    BY RunChunkPositive
  <2> QED
    BY <1>5, <1>6, <2>1, <2>2, <2>3
<1>8. total <= PageLimit
  BY CrawlAssumption, PlanAssumption DEF DefaultFits
<1>9. /\ work'[w].limit = work[w].limit /\ work'[w].total = total /\ work'[w].end = end
      /\ work'[w].chunks = n + 1
  BY <1>1, <1>2
<1> QED
  BY <1>7, <1>8, <1>9 DEF WorkerWhole

\* The other workers, whatever one of them does.
LEMMA OthersAsTheyWere ==
  ASSUME CrawlTypeOK, NEW w \in Workers, StepOf(w), NEW v \in Workers \ {w}
  PROVE  at'[v] = at[v] /\ work'[v] = work[v]
BY DEF StepOf, Begin, Crawl, PlanRecovery, ClearPages, ReadPages, LoadToStart, LoadToContinue,
   LoadToRefuse, SeedBlocked, SeedUnreachable, SeedFetched, AuditPage, SliceDone, ReadConfig,
   SavePending, Finalize, ReadToClear, WriteClear, ClearNotWritten, Return, Abandon, Step,
   TakeSlice, CrawlTypeOK

LEMMA WholeStep ==
  ASSUME DefaultFits, CrawlTypeOK, WholeChunks(Continuation), NEW w \in Workers, WorkerWhole(w),
         StepOf(w)
  PROVE  WholeChunks(Continuation)' /\ WorkerWhole(w)'
<1>1. /\ work[w] \in WorkType /\ config \in ConfigType
      /\ work \in [Workers -> WorkType] /\ \A label : [at EXCEPT ![w] = label][w] = label
  BY DEF CrawlTypeOK
<1>2. ASSUME UNCHANGED config PROVE WholeChunks(Continuation)'
  BY <1>2 DEF WholeChunks, Counted, Continuation
<1>3. CASE Begin(w)
  <2>1. /\ at'[w] = "plan" /\ UNCHANGED config
        /\ work' = [work EXCEPT ![w] = Begun(EffectiveLimit(config.page_limit), Continuation # NoPending)]
    BY <1>1, <1>3 DEF Begin, Step
  <2>2. work'[w].limit = EffectiveLimit(config.page_limit)
    BY <1>1, <2>1 DEF Begun
  <2>3. EffectiveLimit(config.page_limit) \in {PageLimit, DefaultPageLimit}
    BY <1>1, CrawlAssumption, PlanAssumption DEF ConfigType, EffectiveLimit, AtMost
  <2> QED
    BY <1>2, <2>1, <2>2, <2>3 DEF WorkerWhole
<1>4. CASE PlanRecovery(w) \/ ClearPages(w) \/ ReadPages(w) \/ LoadToStart(w) \/ SeedBlocked(w)
           \/ SeedUnreachable(w) \/ Finalize(w) \/ ClearNotWritten(w)
  <2>1. /\ UNCHANGED <<config, work>>
        /\ at'[w] \in {"read_pages", "clear", "load", "failed", "built", "start", "read_clear"}
    BY <1>1, <1>4 DEF PlanRecovery, ClearPages, ReadPages, LoadToStart, SeedBlocked, SeedUnreachable,
       Finalize, ClearNotWritten, Cleared, Step
  <2> QED
    BY <1>2, <2>1 DEF WorkerWhole
<1>5. CASE Return(w) \/ Abandon(w)
  <2>1. UNCHANGED config /\ at'[w] = "idle" /\ work' = [work EXCEPT ![w] = NoWork]
    BY <1>1, <1>5 DEF Return, Abandon
  <2>2. work'[w].limit = DefaultPageLimit
    BY <1>1, <2>1 DEF NoWork, Begun
  <2> QED
    BY <1>2, <2>1, <2>2 DEF WorkerWhole
<1>6. CASE LoadToContinue(w)
  <2>0. PICK p : p = Continuation
    OBVIOUS
  <2>1. /\ UNCHANGED config /\ at'[w] = "slice" /\ p # NoPending
        /\ TakeSlice(w, PlannedUrls(p, work[w].limit), p.next_index, p.chunks_processed + 1, FALSE)
    BY <1>1, <1>6, <2>0 DEF LoadToContinue, Step
  <2>2. p \in [total : 0..Site, next_index : Nat, chunks_processed : Nat] /\ Counted(p)
    BY <1>1, <2>0, <2>1 DEF ConfigType, Continuation, WholeChunks
  <2>3. PICK limit \in {PageLimit, DefaultPageLimit} : limit = work[w].limit
    BY DEF WorkerWhole
  <2>4. PlannedUrls(p, limit) \in 0..Site /\ PlannedUrls(p, limit) <= limit
    BY <2>2, PlanAssumption, CrawlAssumption DEF PlannedUrls, AtMost
  <2>5. p.chunks_processed \in Nat /\ p.next_index = p.chunks_processed * RunChunk
    BY <2>2 DEF Counted
  <2>6. WorkerWhole(w)'
    BY <2>1, <2>3, <2>4, <2>5, SliceWhole
  <2> QED
    BY <1>2, <2>1, <2>6
<1>7. CASE SeedFetched(w)
  <2>1. /\ UNCHANGED config /\ at'[w] = "slice"
        /\ TakeSlice(w, AtMost(Site, work[w].limit), 0, 1, TRUE)
    BY <1>1, <1>7 DEF SeedFetched, Step
  <2>2. PICK limit \in {PageLimit, DefaultPageLimit} : limit = work[w].limit
    BY DEF WorkerWhole
  <2>3. AtMost(Site, limit) \in 0..Site /\ AtMost(Site, limit) <= limit
    BY PlanAssumption, CrawlAssumption DEF AtMost
  <2>4. 0 = 0 * RunChunk /\ 1 = 0 + 1
    BY RunChunkPositive
  <2>5. WorkerWhole(w)'
    BY <2>1, <2>2, <2>3, <2>4, SliceWhole
  <2> QED
    BY <1>2, <2>1, <2>5
<1>8. CASE LoadToRefuse(w) \/ ReadToClear(w)
  <2>1. /\ UNCHANGED config /\ at'[w] \in {"read_clear", "write_clear"}
        /\ work'[w].limit = work[w].limit
    BY <1>1, <1>8 DEF LoadToRefuse, ReadToClear, Step, WorkType
  <2> QED
    BY <1>2, <2>1 DEF WorkerWhole
<1>9. CASE AuditPage(w) \/ SliceDone(w)
  <2>1. /\ UNCHANGED config /\ at[w] = "slice"
        /\ work'[w].limit = work[w].limit /\ work'[w].total = work[w].total
        /\ work'[w].end = work[w].end /\ work'[w].chunks = work[w].chunks
        /\ at'[w] \in {"slice", "finalize"} \/ (at'[w] = "read_config" /\ work[w].end < work[w].total)
    BY <1>1, <1>9 DEF AuditPage, SliceDone, Step, WorkType
  <2> QED
    BY <1>2, <2>1 DEF WorkerWhole
<1>10. CASE ReadConfig(w)
  <2>1. /\ UNCHANGED config /\ at[w] = "read_config" /\ at'[w] = "save_pending"
        /\ work'[w].limit = work[w].limit /\ work'[w].total = work[w].total
        /\ work'[w].end = work[w].end /\ work'[w].chunks = work[w].chunks
    BY <1>1, <1>10 DEF ReadConfig, Step, WorkType
  <2> QED
    BY <1>2, <2>1 DEF WorkerWhole
<1>11. CASE SavePending(w)
  <2>1. /\ at[w] = "save_pending" /\ at'[w] = "partial" /\ UNCHANGED work
        /\ config' = [work[w].read EXCEPT !.crawl_pending =
                        [total |-> work[w].total, next_index |-> work[w].end,
                         chunks_processed |-> work[w].chunks]]
    BY <1>1, <1>11 DEF SavePending, Step
  <2>2. PICK p : p = [total |-> work[w].total, next_index |-> work[w].end,
                      chunks_processed |-> work[w].chunks]
    OBVIOUS
  <2>3. config'.crawl_pending = p
    BY <1>1, <2>1, <2>2 DEF WorkType, ConfigType
  <2>4. Counted(p)
    BY <2>1, <2>2 DEF WorkerWhole, Counted
  <2>5. WholeChunks(Continuation)'
    BY <2>3, <2>4 DEF WholeChunks, Counted, Continuation
  <2> QED
    BY <2>1, <2>5 DEF WorkerWhole
<1>12. CASE WriteClear(w)
  <2>1. /\ at'[w] \in {"failed", "read_pages"} /\ UNCHANGED work
        /\ config'.crawl_pending = NoPending
    BY <1>1, <1>12 DEF WriteClear, Cleared, Step, WorkType, ConfigType
  <2> QED
    BY <2>1 DEF WholeChunks, Continuation, WorkerWhole
<1> QED
  BY <1>3, <1>4, <1>5, <1>6, <1>7, <1>8, <1>9, <1>10, <1>11, <1>12 DEF StepOf, Crawl

LEMMA WholeIsUsable == CrawlTypeOK /\ WholeChunks(Continuation) => PendingIsUsable
<1> SUFFICES ASSUME CrawlTypeOK, HasLimit, Continuation # NoPending, Counted(Continuation)
             PROVE  LET limit == EffectiveLimit(config.page_limit)
                    IN  ContinuationOk(Continuation, limit, EffectiveChunk(ChunkSize, limit))
  BY DEF PendingIsUsable, HasLimit, WholeChunks
<1> QED
  BY CountedContinues

(***************************************************************************)
(* Where the run may have as many pages as are assumed of one without a    *)
(* limit, no stored continuation is ever refused while the run has its     *)
(* limit, however many crawls of the run overlap.                          *)
(***************************************************************************)
THEOREM PendingSurvivesOverlap ==
  ASSUME DefaultFits
  PROVE  CrawlSpec => []PendingIsUsable
<1> DEFINE Whole == WholeChunks(Continuation) /\ \A w \in Workers : WorkerWhole(w)
<1>1. CrawlInit => Whole
  BY DEF CrawlInit, WholeChunks, WorkerWhole, Continuation, NoWork, Begun
<1>2. CrawlTypeOK /\ Whole /\ [CrawlNext]_crawlVars => Whole'
  <2> SUFFICES ASSUME CrawlTypeOK, Whole, [CrawlNext]_crawlVars PROVE Whole'
    OBVIOUS
  <2>1. CASE UNCHANGED crawlVars
    BY <2>1 DEF crawlVars, WholeChunks, WorkerWhole, Counted, Continuation
  <2>2. CASE CrawlNext
    <3>1. PICK w \in Workers : StepOf(w)
      BY <2>2 DEF CrawlNext, StepOf
    <3>2. WholeChunks(Continuation)' /\ WorkerWhole(w)'
      BY <3>1, WholeStep
    <3>3. \A v \in Workers \ {w} : WorkerWhole(v)'
      BY <3>1, OthersAsTheyWere DEF WorkerWhole
    <3> QED
      BY <3>2, <3>3
  <2> QED
    BY <2>1, <2>2
<1>3. CrawlTypeOK /\ Whole => PendingIsUsable
  BY WholeIsUsable
<1> QED
  BY <1>1, <1>2, <1>3, CrawlTypeCorrect, PTL DEF CrawlSpec

-----------------------------------------------------------------------------
(***************************************************************************)
(* The refinement: what each step is for CrawlPromise.                     *)
(***************************************************************************)
Dealt == {u \in Urls : Attempted(u)}
Planned == IF coverage = NoCoverage THEN 0 ELSE coverage

\* A step of CrawlPromise, under the mapping.
PromiseStep ==
  \/ \E u \in Urls : \/ Dealt' = Dealt \cup {u} /\ Fetched' \in {Fetched, Fetched \cup {u}}
                        /\ Planned' = Planned
                     \/ Fetched # {} /\ 1..u \subseteq Dealt /\ Planned' = u
                        /\ Fetched' = Fetched /\ Dealt' = Dealt
  \/ Fetched = {} /\ Planned = 0 /\ Dealt' = {} /\ Fetched' = Fetched /\ Planned' = Planned
  \/ Fetched' = Fetched /\ Dealt' = Dealt /\ Planned' = Planned

LEMMA PromiseSteps == PromiseStep => [Promise!PromiseNext]_(Promise!promiseVars)
BY DEF PromiseStep, Promise!PromiseNext, Promise!promiseVars, Promise!Deal,
   Promise!Summarise, Promise!Restart, Dealt, Planned

\* Nothing was fetched and summarised while no URL has a row, or no fetched one.
LEMMA NothingPlanned ==
  ASSUME CrawlTypeOK, SeedOK, Fetched = {}
  PROVE  Planned = 0
<1>1. 1 \in Urls /\ pages[1] # "fetched"
  BY CrawlAssumption DEF Fetched, Urls
<1>2. coverage # NoCoverage => coverage \in Nat /\ ~(coverage > 0)
  BY <1>1, CrawlAssumption DEF SeedOK, Seeded, CrawlTypeOK
<1> QED
  BY <1>2 DEF Planned

LEMMA NextPromise ==
  ASSUME CrawlIInv, StartsAfresh, NEW w \in Workers, StepOf(w)
  PROVE  PromiseStep
<1>0. CrawlTypeOK /\ SeedOK /\ WayOK /\ SliceOK
  BY DEF CrawlIInv
<1>1. CASE UNCHANGED <<pages, coverage>>
  BY <1>1 DEF PromiseStep, Fetched, Dealt, Attempted, Planned
<1>2. CASE ClearPages(w)
  <2>1. Fetched = {} /\ pages' = [u \in Urls |-> "none"] /\ coverage' = coverage
    BY <1>0, <1>2 DEF ClearPages, Step, WayOK
  <2>2. Fetched' = {} /\ Dealt' = {} /\ Planned' = Planned
    BY <2>1 DEF Fetched, Dealt, Attempted, Planned
  <2>3. Planned = 0
    BY <1>0, <2>1, NothingPlanned
  <2> QED
    BY <2>1, <2>2, <2>3 DEF PromiseStep
<1>3. CASE SeedBlocked(w)
  <2>1. /\ Untouched /\ coverage' \in {coverage, 0}
        /\ InsertPage(1, "skipped") \/ UNCHANGED pages
    BY <1>0, <1>3 DEF SeedBlocked, Step, StartsAfresh
  <2>2. 1 \in Urls /\ "skipped" \in Statuses
    BY CrawlAssumption DEF Urls, Statuses
  <2>3. \A u \in Urls : pages[u] = "none" /\ pages'[u] \in {"none", "skipped"}
    BY <1>0, <2>1, <2>2, InsertedPage DEF Untouched
  <2>4. Fetched = {} /\ Fetched' = {} /\ Dealt = {} /\ Dealt' = {}
    BY <2>3 DEF Fetched, Dealt, Attempted
  <2>5. Planned = 0
    BY <1>0, <2>4, NothingPlanned
  <2>6. Planned' = 0
    BY <2>1, <2>5 DEF Planned
  <2> QED
    BY <2>4, <2>5, <2>6 DEF PromiseStep
<1>4. CASE SeedUnreachable(w)
  <2>1. /\ Untouched /\ coverage' = coverage
        /\ InsertPage(1, "error") \/ InsertPage(1, "lost")
    BY <1>0, <1>4 DEF SeedUnreachable, InsertFailure, Step, StartsAfresh
  <2>2. 1 \in Urls /\ {"error", "lost"} \subseteq Statuses
    BY CrawlAssumption DEF Urls, Statuses
  <2>3. /\ \A u \in Urls : pages[u] = "none" /\ (u # 1 => pages'[u] = "none")
        /\ pages'[1] \in {"error", "lost"}
    BY <1>0, <2>1, <2>2, InsertedPage DEF Untouched
  <2>4. Fetched = {} /\ Fetched' = {} /\ Dealt = {} /\ Dealt' = {1}
    BY <2>2, <2>3 DEF Fetched, Dealt, Attempted
  <2>5. Planned' = Planned
    BY <2>1 DEF Planned
  <2> QED
    BY <2>2, <2>4, <2>5 DEF PromiseStep
<1>5. CASE AuditPage(w)
  <2>1. PICK u \in Urls :
          /\ \A v \in Urls : v # u \/ pages[v] \notin {"none", "lost"} => pages'[v] = pages[v]
          /\ pages'[u] \in {"fetched", "error", "lost"}
          /\ pages[u] = "none" \/ Attempted(u)
    BY <1>5, AuditDeals
  <2>2. Dealt' = Dealt \cup {u}
    BY <2>1 DEF Dealt, Attempted
  <2>3. Fetched' \in {Fetched, Fetched \cup {u}}
    <3>1. CASE pages'[u] = "fetched"
      BY <2>1, <3>1 DEF Fetched
    <3>2. CASE pages'[u] \in {"error", "lost"}
      BY <2>1, <3>2 DEF Fetched
    <3> QED
      BY <2>1, <3>1, <3>2
  <2>4. Planned' = Planned
    BY <1>5 DEF AuditPage, Planned
  <2> QED
    BY <2>2, <2>3, <2>4 DEF PromiseStep
<1>6. CASE Finalize(w)
  <2>1. /\ UNCHANGED pages /\ coverage' = work[w].total /\ work[w].total \in 1..Site
        /\ at[w] = "finalize" /\ work[w].next = work[w].end /\ work[w].end = work[w].total
    BY <1>0, <1>6, WorkFields DEF Finalize, Step, SliceOK
  <2>2. /\ pages[1] = "fetched" /\ \A u \in 1..work[w].total : Attempted(u)
    <3>1. InSlice(w) /\ work[w].next > 0
      BY <2>1, WasInSlice
    <3> QED
      BY <2>1, <3>1 DEF InSlice, Seeded
  <2>3. Fetched # {} /\ 1..work[w].total \subseteq Dealt
    BY <2>1, <2>2, CrawlAssumption DEF Fetched, Dealt, Urls
  <2>4. Planned' = work[w].total
    BY <2>1, NoneDistinct DEF Planned
  <2>5. Fetched' = Fetched /\ Dealt' = Dealt
    BY <2>1 DEF Fetched, Dealt, Attempted
  <2> QED
    BY <2>1, <2>3, <2>4, <2>5 DEF PromiseStep, Urls
<1>7. \/ UNCHANGED <<pages, coverage>> \/ ClearPages(w) \/ SeedBlocked(w)
      \/ SeedUnreachable(w) \/ AuditPage(w) \/ Finalize(w)
  BY DEF StepOf, Crawl, Begin, PlanRecovery, ReadPages, LoadToStart, LoadToContinue, LoadToRefuse,
     SeedFetched, SliceDone, ReadConfig, SavePending, ReadToClear, WriteClear,
     ClearNotWritten, Return, Abandon
<1> QED
  BY <1>1, <1>2, <1>3, <1>4, <1>5, <1>6, <1>7

\* While the crawl alone writes the config, the plan sees what is there.
LEMMA FreshStep ==
  ASSUME CrawlIInv, StartsAfresh, NEW w \in Workers, Alone(w)', StepOf(w)
  PROVE  StartsAfresh'
<1>0. CrawlTypeOK /\ \A label : [at EXCEPT ![w] = label][w] = label
  BY DEF CrawlIInv, CrawlTypeOK
<1>1. \A v \in Workers \ {w} : at'[v] = "idle"
  BY DEF Alone
<1>2. CASE at'[w] \notin {"plan", "load", "start"}
  BY <1>1, <1>2 DEF StartsAfresh
<1>3. CASE Begin(w)
  <2>1. at'[w] = "plan" /\ UNCHANGED config /\ (work'[w].resume <=> Continuation # NoPending)
    BY <1>0, <1>3 DEF Begin, Begun, Step, CrawlTypeOK
  <2> QED
    BY <1>1, <2>1 DEF StartsAfresh, Continuation
<1>4. CASE PlanRecovery(w) /\ at'[w] = "load"
  <2>1. /\ UNCHANGED <<config, pages>> /\ at[w] = "plan" /\ work[w].resume \in BOOLEAN
        /\ ShouldRunCrawl(Fetched # {}, work[w].resume)
        /\ ~ClearFailedPages(Fetched # {}, work[w].resume)
    BY <1>0, <1>4, WorkFields DEF PlanRecovery, Step
  <2>2. Continuation # NoPending
    BY <2>1 DEF StartsAfresh, ShouldRunCrawl, ClearFailedPages
  <2> QED
    BY <1>1, <1>4, <2>1, <2>2 DEF StartsAfresh, Continuation
<1>5. CASE ClearPages(w)
  <2>1. at'[w] = "load" /\ Untouched'
    BY <1>0, <1>5 DEF ClearPages, Step, Untouched
  <2> QED
    BY <1>1, <2>1 DEF StartsAfresh
<1>6. CASE LoadToStart(w)
  <2>1. at'[w] = "start" /\ UNCHANGED pages /\ Untouched
    BY <1>0, <1>6 DEF LoadToStart, Step, StartsAfresh
  <2> QED
    BY <1>1, <2>1 DEF StartsAfresh, Untouched
<1>7. \/ at'[w] \notin {"plan", "load", "start"} \/ Begin(w) \/ ClearPages(w) \/ LoadToStart(w)
      \/ PlanRecovery(w) /\ at'[w] = "load"
  BY <1>0 DEF StepOf, Crawl, PlanRecovery, ReadPages, LoadToContinue, LoadToRefuse, SeedBlocked,
     SeedUnreachable, SeedFetched, AuditPage, SliceDone, ReadConfig, SavePending, Finalize, ReadToClear,
     WriteClear, ClearNotWritten, Cleared, Return, Abandon, Step
<1> QED
  BY <1>2, <1>3, <1>4, <1>5, <1>6, <1>7

LEMMA FreshInvariant == CrawlSpec /\ []OneCrawl => []StartsAfresh
<1>1. CrawlInit => StartsAfresh
  BY DEF CrawlInit, StartsAfresh
<1>2. OneCrawl /\ OneCrawl' /\ CrawlIInv /\ StartsAfresh /\ [CrawlNext]_crawlVars => StartsAfresh'
  <2> SUFFICES ASSUME OneCrawl, OneCrawl', CrawlIInv, StartsAfresh, [CrawlNext]_crawlVars
               PROVE  StartsAfresh'
    OBVIOUS
  <2>1. CASE UNCHANGED crawlVars
    BY <2>1 DEF crawlVars, StartsAfresh, Continuation, Untouched
  <2>2. CASE CrawlNext
    BY <2>2, StepsAlone, FreshStep DEF CrawlNext, StepOf, CrawlIInv
  <2> QED
    BY <2>1, <2>2
<1> QED
  BY <1>1, <1>2, CrawlInvariant, PTL DEF CrawlSpec

(***************************************************************************)
(* While crawls do not overlap, the chunked crawl implements CrawlPromise, *)
(* over crashes, repeated slices, and refused or lost continuations.       *)
(***************************************************************************)
THEOREM CrawlImplementsPromise == CrawlSpec /\ []OneCrawl => CrawlKeepsPromise
<1>1. CrawlInit => Promise!PromiseInit
  BY DEF CrawlInit, Promise!PromiseInit, Fetched, Attempted
<1>2. CrawlIInv /\ StartsAfresh /\ [CrawlNext]_crawlVars
        => [Promise!PromiseNext]_(Promise!promiseVars)
  <2> SUFFICES ASSUME CrawlIInv, StartsAfresh, [CrawlNext]_crawlVars PROVE PromiseStep
    BY PromiseSteps
  <2>1. CASE CrawlNext
    BY <2>1, NextPromise DEF CrawlNext, StepOf
  <2>2. CASE UNCHANGED crawlVars
    BY <2>2 DEF crawlVars, PromiseStep, Fetched, Dealt, Attempted, Planned
  <2> QED
    BY <2>1, <2>2
<1> QED
  BY <1>1, <1>2, CrawlInvariant, FreshInvariant, PTL DEF CrawlSpec, CrawlKeepsPromise, Promise!PromiseSpec
=============================================================================
