----------------------------- MODULE MCNatives -----------------------------
(* A small instance of Natives for TLC. *)
EXTENDS Natives

MCTurns == {1, -1}
=============================================================================
