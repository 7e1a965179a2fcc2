---------------------------- MODULE MCForwarding ----------------------------
(* Finite instances of Forwarding for TLC.                                 *)
EXTENDS Forwarding, TLC

(* Connections are interchangeable: sound for the safety runs.             *)
ConnSymmetry == Permutations(Conns)
=============================================================================
