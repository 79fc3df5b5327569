---------------------------- MODULE MCSubscriptions ----------------------------
(***************************************************************************)
(* Two subscriptions of one customer: two monitors of one site, the bundle *)
(* of startups with one of agencies, two bundles of agencies, or the same  *)
(* bundle twice.  Which of the two is which makes no difference; nor are   *)
(* invocations of the webhook, or sweeps, told apart.                      *)
(***************************************************************************)
EXTENDS Subscriptions, TLC

MCPortfolios == {f \in [Subs -> Kinds] :
  {f[s] : s \in Subs} \in {{"monitor"}, {"startup_dev", "agency_core"}, Agency, {"startup_dev"}}}

Symmetric == Permutations(Subs) \cup Permutations(Calls) \cup Permutations(Sweeps)
=============================================================================
