---------------------------- MODULE MCControlInet ---------------------------
(***************************************************************************)
(* Small instances of ControlInet: 0 is too dim for the minimum, 1; 2 is   *)
(* right for the default maximum, 2, and too bright for the one that may   *)
(* be typed, 1; -1 is refused.                                             *)
(***************************************************************************)
EXTENDS ControlInet, TLC

CONSTANTS s1, s2

MCSensors == {s1, s2}
Symmetry == Permutations(MCSensors)

MCReadings == {-1, 0, 2}
MCMins == {1}
MCMaxs == {1}
=============================================================================
