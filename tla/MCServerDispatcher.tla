------------------------ MODULE MCServerDispatcher ------------------------
(***************************************************************************)
(* ServerDispatcher for TLC.                                               *)
(***************************************************************************)
EXTENDS ServerDispatcher, TLC

Symmetry == Permutations(Clients)
=============================================================================
