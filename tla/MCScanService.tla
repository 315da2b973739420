--------------------------- MODULE MCScanService ----------------------------
(* Small instances of ScanService for TLC.                                 *)
EXTENDS ScanService, TLC

Symmetry == Permutations(Scan)
=============================================================================
