---------------------------- MODULE MCDiscovery -----------------------------
(* A finite instance of Discovery for TLC.                                 *)
EXTENDS Discovery

(* All sources have the same base name.                                    *)
SameName == [p \in Paths |-> <<"app.log">>]
=============================================================================
