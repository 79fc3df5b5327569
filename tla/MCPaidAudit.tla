---------------------------- MODULE MCPaidAudit ----------------------------
(***************************************************************************)
(* A small instance of PaidAudit: one scan, bought once, crawled in chunks *)
(* of one page.                                                            *)
(***************************************************************************)
EXTENDS PaidAudit

CONSTANT s1

MCScans == {s1}
MCScanOf == [p \in Payments |-> s1]
=============================================================================
