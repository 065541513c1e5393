--------------------------- MODULE MCGpioLifecycle --------------------------
(* Two instances on one set of lines, started four times in all: one is    *)
(* killed or fails, is started again, and meets the other.  The pulse line *)
(* may be claimed, so that export() fails after it exported the others.    *)
EXTENDS GpioLifecycle, TLC

CONSTANTS p1, p2

MCProcs == {p1, p2}
MCClaims == {{}, {PUL_NUM}}
Symmetry == Permutations(MCProcs)
=============================================================================
