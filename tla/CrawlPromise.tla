---------------------------- MODULE CrawlPromise ----------------------------
(***************************************************************************)
(* What the chunked crawl of a run promises, however it is cut into        *)
(* invocations: a page that was fetched stays, work is thrown away only    *)
(* while nothing was fetched and nothing was summarised, and a coverage    *)
(* summary covers every URL it says was planned.                           *)
(***************************************************************************)
EXTENDS Integers

CONSTANT Urls   \* the ordered list: URLs are numbered from 1

VARIABLES
  fetched,   \* URLs with a fetched page
  dealt,     \* URLs that were fetched or found unreachable
  planned    \* URLs of the coverage summary; 0 when there is none

promiseVars == <<fetched, dealt, planned>>

PromiseInit == fetched = {} /\ dealt = {} /\ planned = 0

Deal(u) ==
  /\ dealt' = dealt \cup {u}
  /\ fetched' \in {fetched, fetched \cup {u}}
  /\ UNCHANGED planned

Restart ==
  /\ fetched = {} /\ planned = 0
  /\ dealt' = {}
  /\ UNCHANGED <<fetched, planned>>

Summarise(n) ==
  /\ fetched # {} /\ 1..n \subseteq dealt
  /\ planned' = n
  /\ UNCHANGED <<fetched, dealt>>

PromiseNext ==
  \/ \E u \in Urls : Deal(u) \/ Summarise(u)
  \/ Restart

PromiseSpec == PromiseInit /\ [][PromiseNext]_promiseVars
=============================================================================
