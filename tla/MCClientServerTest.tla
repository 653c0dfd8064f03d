------------------------- MODULE MCClientServerTest -------------------------
(***************************************************************************)
(* ClientServerTest for TLC.                                               *)
(***************************************************************************)
EXTENDS ClientServerTest, TLC

MCWorkers == Files \X (0..NumRequests)

Symmetry ==
  Permutations(Handles) \cup Permutations(TxnIds \ {DefaultId}) \cup Permutations(Files)
=============================================================================
