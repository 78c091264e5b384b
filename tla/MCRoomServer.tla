---------------------------- MODULE MCRoomServer ----------------------------
(***************************************************************************)
(* RoomServer on small instances.  Only the safety runs may use Symmetry.  *)
(***************************************************************************)
EXTENDS RoomServer, TLC

Symmetry == Permutations(Sockets) \cup Permutations(Codes)
=============================================================================
