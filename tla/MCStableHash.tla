----------------------------- MODULE MCStableHash ----------------------------
(* Small instances of StableHash for TLC.                                  *)
EXTENDS StableHash, TLC
=============================================================================
