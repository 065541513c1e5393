---------------------------- MODULE MotorPromise ----------------------------
(***************************************************************************)
(* What the stepper program promises about who may drive the motor when,   *)
(* without threads, mutex or GPIO lines.                                   *)
(*                                                                         *)
(* A free-running motor is driven in batches of Rounds pulses.  A batch    *)
(* begins only while the motor is running; once it has been stopped, the   *)
(* batch under way may still drain, and nothing more.  A commanded turn of *)
(* n pulses begins only while the motor is stopped, and the motor does not *)
(* resume before the turn is over.                                         *)
(***************************************************************************)
EXTENDS Naturals

CONSTANT Rounds   \* pulses of one batch of the free-running motor, at least 1

VARIABLES
  running,    \* may the free-running motor begin a batch?
  budget,     \* pulses left in the batch under way
  turning     \* pulses left in the commanded turn under way

vars == <<running, budget, turning>>

TypeOK ==
  /\ running \in BOOLEAN
  /\ budget \in 0..Rounds
  /\ turning \in Nat

Init ==
  /\ running = FALSE
  /\ budget = 0
  /\ turning = 0

Resume ==
  /\ ~running
  /\ turning = 0
  /\ running' = TRUE
  /\ UNCHANGED <<budget, turning>>

Stop ==
  /\ running
  /\ running' = FALSE
  /\ UNCHANGED <<budget, turning>>

BeginBatch ==
  /\ running
  /\ budget = 0
  /\ budget' = Rounds
  /\ UNCHANGED <<running, turning>>

BatchPulse ==
  /\ budget > 0
  /\ budget' = budget - 1
  /\ UNCHANGED <<running, turning>>

BeginTurn ==
  /\ ~running
  /\ turning = 0
  /\ turning' \in Nat \ {0}
  /\ UNCHANGED <<running, budget>>

TurnPulse ==
  /\ turning > 0
  /\ turning' = turning - 1
  /\ UNCHANGED <<running, budget>>

\* The process exits: whatever was under way is abandoned.
Halt ==
  /\ turning = 0
  /\ running' = FALSE
  /\ budget' = 0
  /\ UNCHANGED turning

Next ==
  \/ Resume \/ Stop
  \/ BeginBatch \/ BatchPulse
  \/ BeginTurn \/ TurnPulse
  \/ Halt

SafetySpec == Init /\ [][Next]_vars

Spec == SafetySpec /\ WF_vars(BatchPulse) /\ WF_vars(TurnPulse)

=============================================================================
