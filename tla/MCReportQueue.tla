--------------------------- MODULE MCReportQueue ---------------------------
(***************************************************************************)
(* Small instances of ReportQueue: one scan bought by the payments, of     *)
(* which the previews are campaign previews.                               *)
(***************************************************************************)
EXTENDS ReportQueue, TLC

CONSTANT s1

MCScans == {s1}
MCScanOf == [p \in Payments |-> s1]

Symmetric == Permutations(Messages) \cup Permutations(Consumers)
=============================================================================
