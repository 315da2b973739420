-------------------------- MODULE MCReconciliation --------------------------
(* Small instances of Reconciliation for TLC.                              *)
EXTENDS Reconciliation, TLC

(* Appearance ids, contents and native identities are only compared for    *)
(* equality; locators are ordered and are not permuted.                    *)
Symmetry ==
    Permutations(AppId) \cup Permutations(Content) \cup Permutations(Ident)
=============================================================================
