----------------------------- MODULE MCStepper ------------------------------
(***************************************************************************)
(* Small instances of Stepper: rotate() accepts at most 3 pulses instead   *)
(* of 1000, and a batch of the worker has 2 instead of 10.                 *)
(***************************************************************************)
EXTENDS Stepper

\* Resume, stop, turns within the bound, the bound itself, and beyond it.
MCTurns == {-1, 0, 1, 3, 4}

\* Both directions and one that set_direction() refuses.
MCDirections == {0, 1, 2}
=============================================================================
