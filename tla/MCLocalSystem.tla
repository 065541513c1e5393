---------------------------- MODULE MCLocalSystem ---------------------------
(* Two sensors, which can also stand for one that is started again.  The   *)
(* readings: 406 lux, too bright for the default limits and too dim for a  *)
(* minimum of 500, and one with more infrared than full light.             *)
EXTENDS LocalSystem, TLC

CONSTANTS s1, s2

MCSensors == {s1, s2}
MCRegisters == {<<150, 1, 0, 0>>, <<20, 0, 30, 0>>}
MCLimits == {500}
NoLimits == {}
Symmetry == Permutations(MCSensors)
=============================================================================
