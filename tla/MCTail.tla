------------------------------- MODULE MCTail -------------------------------
(* Instances of Tail for TLC; constants are in the .cfg files.             *)
EXTENDS Tail
=============================================================================
