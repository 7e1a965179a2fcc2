----------------------------- MODULE RingLemmas -----------------------------
(***************************************************************************)
(* Slots of a ring of m count modulo m: the arithmetic behind the retry    *)
(* buffer (forward.go) and the history (hub.go).                           *)
(***************************************************************************)
EXTENDS Naturals, TLAPS

(* Within one turn, % subtracts the capacity at most once (the index of    *)
(* forward.go:208 and hub.go:61).                                          *)
LEMMA ModWraps ==
  ASSUME NEW m \in Nat \ {0}, NEW h \in 0 .. (m - 1), NEW i \in 0 .. m
  PROVE  (h + i) % m = IF h + i < m THEN h + i ELSE h + i - m
BY SMT

(* Two positions within one capacity use different slots, so a write to   *)
(* one leaves the other alone.                                             *)
LEMMA ModInjective ==
  ASSUME NEW m \in Nat \ {0}, NEW h \in 0 .. (m - 1),
         NEW i \in 0 .. (m - 1), NEW j \in 0 .. (m - 1), (h + i) % m = (h + j) % m
  PROVE  i = j
BY SMT

(* Moving the start by k renumbers the slots by k (forward.go:227,         *)
(* hub.go:65).                                                             *)
LEMMA ModShift ==
  ASSUME NEW m \in Nat \ {0}, NEW h \in 0 .. (m - 1), NEW k \in 0 .. m,
         NEW i \in 0 .. m, k + i <= m
  PROVE  (((h + k) % m) + i) % m = (h + (k + i)) % m
BY SMT
=============================================================================
