--------------------------- MODULE MCEventStream ---------------------------
(* Finite instances of EventStream for TLC.                                *)
EXTENDS EventStream, TLC

(* Streams are interchangeable: sound for the safety run.                  *)
StreamSymmetry == Permutations(Streams)
=============================================================================
