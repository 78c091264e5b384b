------------------------------- MODULE MCRoom -------------------------------
(***************************************************************************)
(* Room on small instances.  Client ids are interchangeable.               *)
(***************************************************************************)
EXTENDS Room, TLC

Symmetry == Permutations(Clients)
=============================================================================
