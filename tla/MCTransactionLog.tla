-------------------------- MODULE MCTransactionLog --------------------------
(***************************************************************************)
(* TransactionLog for TLC.                                                 *)
(***************************************************************************)
EXTENDS TransactionLog

Symmetry == Permutations(Ids) \cup Permutations(Files)
=============================================================================
