---------------------------- MODULE MCPersistence ---------------------------
(* Persistence on a small instance. *)
EXTENDS Persistence, TLC

RoomSymmetry == Permutations(Code) \cup Permutations(Content)

=============================================================================
