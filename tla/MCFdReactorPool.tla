--------------------------- MODULE MCFdReactorPool ---------------------------
(* The instances of FdReactorPool in which it goes wrong.  Symmetry is for safety only. *)
EXTENDS FdReactorPool

CONSTANTS t1, t2, t3

TwoTransports == {t1, t2}
ThreeTransports == {t1, t2, t3}
Symmetry == Permutations(ThreeTransports)
=============================================================================
