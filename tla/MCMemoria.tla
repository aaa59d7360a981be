----------------------------- MODULE MCMemoria -----------------------------
(* Instances of Memoria for TLC: the cfg files choose the assumptions. *)
EXTENDS Memoria

CONSTANTS p1, p2, p3

DosPids == {p1, p2}
TresPids == {p1, p2, p3}
DosValores == {0, 1}
Simetria == Permutations(DosPids)
=============================================================================
