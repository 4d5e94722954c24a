----------------------------- MODULE MCTransfer -----------------------------
(* Transfer with small sets for TLC.                                        *)
EXTENDS Transfer, TLC

(* Transfers differ only in their ids.                                      *)
Symmetric == Permutations(Transfers)
=============================================================================
