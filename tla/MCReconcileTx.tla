---------------------------- MODULE MCReconcileTx ----------------------------
(* Small instances of ReconcileTx for TLC.                                 *)
EXTENDS ReconcileTx, TLC

(* As in MCReconciliation. *)
Symmetry ==
    Permutations(AppId) \cup Permutations(Content) \cup Permutations(Ident)
=============================================================================
