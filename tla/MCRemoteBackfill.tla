-------------------------- MODULE MCRemoteBackfill --------------------------
(* Finite instances of RemoteBackfill for TLC.                             *)
EXTENDS RemoteBackfill, TLC

(* Three empty lines, whose start the scan reaches with a line to spare,   *)
(* and a long line before a short one, which spends the scan's budget.     *)
ShortAndLong == {<<"newline", "newline", "newline">>,
                 <<"text", "text", "newline", "text", "newline">>}

ThreeLines == {<<"newline", "newline", "newline">>}

(* Connections are interchangeable.                                        *)
ConnSymmetry == Permutations(Conns)
=============================================================================
