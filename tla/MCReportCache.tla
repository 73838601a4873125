---------------------------- MODULE MCReportCache ----------------------------
(* Instances of ReportCache for TLC. *)
EXTENDS ReportCache, TLC

Symmetry == Permutations(Readers) \cup Permutations(Writers) \cup Permutations(Keys)

=============================================================================
