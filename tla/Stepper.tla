------------------------------ MODULE Stepper -------------------------------
(***************************************************************************)
(* The stepper program (stepper.c, stepper.h) from the moment its worker   *)
(* thread exists: the main thread that takes commands, the worker thread   *)
(* that keeps the motor running, the mutex and the `working' flag they     *)
(* share, the three GPIO lines both of them write, and the way out.        *)
(*                                                                         *)
(* One action is one access to something the other thread can see: the     *)
(* flag, the mutex, a GPIO line, a file descriptor.  Sleeps only separate  *)
(* actions.  Where commands come from is left to the environment here:     *)
(* any packet or line may arrive whenever main waits.                      *)
(***************************************************************************)
EXTENDS Integers

CONSTANTS
  MaxRotations,      \* most pulses rotate() accepts (1000)
  WorkerRounds,      \* pulses of one call of rotate() by the worker (10)
  InitialDirection,  \* level the DIRECTION argument puts on the DIR line
  Directions,        \* values of a packet's `direction' field
  Turns              \* values of a packet's `turns' field or of an input line

ASSUME StepperAssumption ==
  /\ MaxRotations \in Nat
  /\ WorkerRounds \in 1..MaxRotations
  /\ InitialDirection \in {0, 1}
  /\ Directions \subseteq Int
  /\ Turns \subseteq Int

LOW  == 0
HIGH == 1

Main   == "main"
Worker == "worker"
Threads == {Main, Worker}

NoOne == "none"

VARIABLES
  working,      \* the shared flag: 1 keep running, 0 stop, -1 terminate
  mutex,        \* the thread that holds motor_mutex, or NoOne
  pc,           \* where each thread is
  i,            \* each thread's loop counter in rotate()
  rotations,    \* main: the command being executed
  previous,     \* main: previous_working_state of seq_rotate()
  direction,    \* main: the direction it believes the DIR line has
  ena,          \* level of the ENA line; LOW enables the driver
  dir,          \* level of the DIR line
  pul,          \* level of the PUL line; the motor steps on a rising edge
  enaFd,        \* what the descriptor number in enable_fd refers to
  pulFd,        \* what the descriptor number in pulse_fd refers to
  moved,        \* history: steps of the shaft since main's turn began
  overlapped    \* history: was a batch under way when main's turn began?

flag    == <<working, mutex>>
locals  == <<rotations, previous, direction>>
lines   == <<ena, dir, pul>>
fds     == <<enaFd, pulFd>>
history == <<moved, overlapped>>
vars    == <<flag, pc, i, locals, lines, fds, history>>

Goto(t, label) == pc' = [pc EXCEPT ![t] = label]

\* Exiting main takes the whole process with it.
Alive == pc[Main] # "exited"

InRotate(t) == pc[t] \in {"high", "low", "disable"}

-----------------------------------------------------------------------------
(* The GPIO lines.  A write through a descriptor that was closed fails and *)
(* its result is ignored.                                                  *)

WriteEna(level) ==
  ena' = IF enaFd = "line" THEN level ELSE ena

WritePul(level) ==
  pul' = IF pulFd = "line" THEN level ELSE pul

\* The shaft steps on a rising edge of PUL, if the driver is enabled.
Steps(level) ==
  /\ pulFd = "line"
  /\ pul = LOW
  /\ level = HIGH
  /\ ena = LOW

-----------------------------------------------------------------------------
(* rotate(): the same code in both threads.  Main comes with a number of   *)
(* rotations it has checked, the worker with WORKER_ROUNDS.                *)

Limit(t) == IF t = Main THEN rotations ELSE WorkerRounds

Enable(t) ==
  /\ pc[t] = "enable"
  /\ WriteEna(LOW)
  /\ i' = [i EXCEPT ![t] = 1]
  /\ Goto(t, "high")
  /\ IF t = Main
       THEN moved' = 0 /\ overlapped' = (pc[Worker] = "enable" \/ InRotate(Worker))
       ELSE UNCHANGED history
  /\ UNCHANGED <<flag, locals, dir, pul, fds>>

PulseHigh(t) ==
  /\ pc[t] = "high"
  /\ WritePul(HIGH)
  /\ moved' = IF InRotate(Main) /\ Steps(HIGH) THEN moved + 1 ELSE moved
  /\ Goto(t, "low")
  /\ UNCHANGED <<flag, i, locals, ena, dir, fds, overlapped>>

\* Mutant: `i <= rotations' written `i <= rotations + 1'.
LastPulse_OneMore(t) == i[t] > Limit(t)

LastPulse(t) == i[t] = Limit(t)

PulseLow(t) ==
  /\ pc[t] = "low"
  /\ WritePul(LOW)
  /\ IF LastPulse(t)
       THEN Goto(t, "disable") /\ UNCHANGED i
       ELSE Goto(t, "high") /\ i' = [i EXCEPT ![t] = @ + 1]
  /\ UNCHANGED <<flag, locals, ena, dir, fds, history>>

\* Mutant: rotate() leaves the driver on.
Disable_LeavesOn(t) ==
  /\ pc[t] = "disable"
  /\ Goto(t, IF t = Main THEN "restore" ELSE "top")
  /\ UNCHANGED <<flag, i, locals, lines, fds, history>>

Disable(t) ==
  /\ pc[t] = "disable"
  /\ WriteEna(HIGH)
  /\ Goto(t, IF t = Main THEN "restore" ELSE "top")
  /\ UNCHANGED <<flag, i, locals, dir, pul, fds, history>>

Rotate(t) == Enable(t) \/ PulseHigh(t) \/ PulseLow(t) \/ Disable(t)

-----------------------------------------------------------------------------
(* Main: startup, commands, seq_rotate().                                  *)

\* The lock main takes before it enters the command loop parks the worker.
Startup ==
  /\ pc[Main] = "startup"
  /\ mutex = NoOne
  /\ mutex' = Main
  /\ Goto(Main, "wait")
  /\ UNCHANGED <<working, i, locals, lines, fds, history>>

\* set_direction(): only 0 and 1 are accepted, and the write may fail.
SetDirection(d) ==
  /\ d \in {0, 1}
  /\ dir' = d
  /\ direction' = d

\* Mutant: the new direction is remembered although it was not set.
Packet_RemembersRefused(d, turns) ==
  /\ pc[Main] = "wait"
  /\ rotations' = turns
  /\ direction' = d
  /\ \/ d = direction /\ UNCHANGED dir /\ Goto(Main, "dispatch")
     \/ d # direction /\ d \in {0, 1} /\ dir' = d /\ Goto(Main, "dispatch")
     \/ d # direction /\ UNCHANGED <<dir, pc>>
  /\ UNCHANGED <<flag, i, previous, ena, pul, fds, history>>

\* A packet whose direction cannot be set is dropped.
Packet(d, turns) ==
  /\ pc[Main] = "wait"
  /\ rotations' = turns
  /\ \/ /\ d = direction
        /\ Goto(Main, "dispatch")
        /\ UNCHANGED <<dir, direction>>
     \/ /\ d # direction
        /\ SetDirection(d)
        /\ Goto(Main, "dispatch")
     \/ /\ d # direction
        /\ UNCHANGED <<dir, direction, pc>>
  /\ UNCHANGED <<flag, i, previous, ena, pul, fds, history>>

\* A line of input that islegal() accepts; an empty line reads as 0.
Line(turns) ==
  /\ pc[Main] = "wait"
  /\ rotations' = turns
  /\ Goto(Main, "dispatch")
  /\ UNCHANGED <<flag, i, previous, direction, lines, fds, history>>

\* Mutant: a stop or turn takes the mutex whatever the flag says.
Dispatch_AlwaysLocks ==
  /\ pc[Main] = "dispatch"
  /\ previous' = working
  /\ \/ rotations < 0 /\ working = 0 /\ working' = 1 /\ Goto(Main, "unlock")
     \/ rotations < 0 /\ working # 0 /\ UNCHANGED working /\ Goto(Main, "wait")
     \/ rotations >= 0 /\ UNCHANGED working /\ Goto(Main, "lock")
  /\ UNCHANGED <<mutex, i, rotations, direction, lines, fds, history>>

\* Mutant: a stop or turn never takes the mutex.
Dispatch_NeverLocks ==
  /\ pc[Main] = "dispatch"
  /\ previous' = working
  /\ \/ rotations < 0 /\ working = 0 /\ working' = 1 /\ Goto(Main, "unlock")
     \/ rotations < 0 /\ working # 0 /\ UNCHANGED working /\ Goto(Main, "wait")
     \/ rotations >= 0 /\ UNCHANGED working /\ Goto(Main, "turn")
  /\ UNCHANGED <<mutex, i, rotations, direction, lines, fds, history>>

\* seq_rotate() up to its first access to the mutex.  A resume raises the
\* flag first and lets the worker in afterwards.
Dispatch ==
  /\ pc[Main] = "dispatch"
  /\ previous' = working
  /\ \/ /\ rotations < 0 /\ working = 0
        /\ working' = 1
        /\ Goto(Main, "unlock")
     \/ /\ rotations < 0 /\ working # 0
        /\ Goto(Main, "wait")
        /\ UNCHANGED working
     \/ /\ rotations >= 0 /\ working = 1
        /\ Goto(Main, "lock")
        /\ UNCHANGED working
     \/ /\ rotations >= 0 /\ working # 1
        /\ Goto(Main, "turn")
        /\ UNCHANGED working
  /\ UNCHANGED <<mutex, i, rotations, direction, lines, fds, history>>

Lock ==
  /\ pc[Main] = "lock"
  /\ mutex = NoOne
  /\ mutex' = Main
  /\ Goto(Main, "clear")
  /\ UNCHANGED <<working, i, locals, lines, fds, history>>

\* Mutant: the flag is not reset.
Clear_KeepsFlag ==
  /\ pc[Main] = "clear"
  /\ Goto(Main, "turn")
  /\ UNCHANGED <<flag, i, locals, lines, fds, history>>

Clear ==
  /\ pc[Main] = "clear"
  /\ working' = 0
  /\ Goto(Main, "turn")
  /\ UNCHANGED <<mutex, i, locals, lines, fds, history>>

\* rotations > 0 calls rotate(), which refuses more than MaxRotations.
Turn ==
  /\ pc[Main] = "turn"
  /\ Goto(Main, CASE rotations = 0                -> "wait"
                  [] rotations \in 1..MaxRotations -> "enable"
                  [] OTHER                        -> "restore")
  /\ UNCHANGED <<flag, i, locals, lines, fds, history>>

\* Mutant: the test of the previous state is dropped.
Restore_AlwaysUnlocks ==
  /\ pc[Main] = "restore"
  /\ working' = previous
  /\ Goto(Main, "unlock")
  /\ UNCHANGED <<mutex, i, locals, lines, fds, history>>

Restore ==
  /\ pc[Main] = "restore"
  /\ working' = previous
  /\ Goto(Main, IF working # previous THEN "unlock" ELSE "wait")
  /\ UNCHANGED <<mutex, i, locals, lines, fds, history>>

\* Mutant: the mutex is kept.
Unlock_Forgotten ==
  /\ pc[Main] = "unlock"
  /\ Goto(Main, "wait")
  /\ UNCHANGED <<flag, i, locals, lines, fds, history>>

\* A default mutex does not check who unlocks it.
Unlock ==
  /\ pc[Main] = "unlock"
  /\ mutex' = NoOne
  /\ Goto(Main, "wait")
  /\ UNCHANGED <<working, i, locals, lines, fds, history>>

-----------------------------------------------------------------------------
(* Main: the way out.  The worker is neither told nor awaited.             *)

LineQuit ==
  /\ pc[Main] = "wait"
  /\ Goto(Main, "closePulse")
  /\ UNCHANGED <<flag, i, locals, lines, fds, history>>

ClosePulse ==
  /\ pc[Main] = "closePulse"
  /\ pulFd' = "closed"
  /\ Goto(Main, "closeEnable")
  /\ UNCHANGED <<flag, i, locals, lines, enaFd, history>>

CloseEnable ==
  /\ pc[Main] = "closeEnable"
  /\ enaFd' = "closed"
  /\ Goto(Main, "openUnexport")
  /\ UNCHANGED <<flag, i, locals, lines, pulFd, history>>

\* open() returns the lowest free descriptor, and enable_fd was the first the
\* program opened for keeps: the number now names the unexport file.
OpenUnexport ==
  /\ pc[Main] = "openUnexport"
  /\ enaFd' \in {"unexport", "closed"}
  /\ Goto(Main, "closeUnexport")
  /\ UNCHANGED <<flag, i, locals, lines, pulFd, history>>

CloseUnexport ==
  /\ pc[Main] = "closeUnexport"
  /\ enaFd' = "closed"
  /\ Goto(Main, "return")
  /\ UNCHANGED <<flag, i, locals, lines, pulFd, history>>

Exit ==
  /\ pc[Main] = "return"
  /\ Goto(Main, "exited")
  /\ UNCHANGED <<flag, i, locals, lines, fds, history>>

-----------------------------------------------------------------------------
(* The worker: workerFn() reads the flag twice a round.                    *)

WorkerTerminated ==
  /\ pc[Worker] = "top"
  /\ Goto(Worker, IF working < 0 THEN "ended" ELSE "gate")
  /\ UNCHANGED <<flag, i, locals, lines, fds, history>>

\* Mutant: the worker polls the flag instead of waiting at the gate.
WorkerStopped_Spins ==
  /\ pc[Worker] = "gate"
  /\ Goto(Worker, IF working = 0 THEN "top" ELSE "enable")
  /\ UNCHANGED <<flag, i, locals, lines, fds, history>>

WorkerStopped ==
  /\ pc[Worker] = "gate"
  /\ Goto(Worker, IF working = 0 THEN "lock" ELSE "enable")
  /\ UNCHANGED <<flag, i, locals, lines, fds, history>>

WorkerLock ==
  /\ pc[Worker] = "lock"
  /\ mutex = NoOne
  /\ mutex' = Worker
  /\ Goto(Worker, "unlock")
  /\ UNCHANGED <<working, i, locals, lines, fds, history>>

WorkerUnlock ==
  /\ pc[Worker] = "unlock"
  /\ mutex' = NoOne
  /\ Goto(Worker, "top")
  /\ UNCHANGED <<working, i, locals, lines, fds, history>>

-----------------------------------------------------------------------------

\* At the startup lock the GPIO lines are set up: driver off, no pulse.
Init ==
  /\ working = 0
  /\ mutex = NoOne
  /\ pc = [t \in Threads |-> IF t = Main THEN "startup" ELSE "top"]
  /\ i = [t \in Threads |-> 0]
  /\ rotations = 0
  /\ previous = 0
  /\ direction = 0
  /\ ena = HIGH
  /\ dir = InitialDirection
  /\ pul = LOW
  /\ enaFd = "line"
  /\ pulFd = "line"
  /\ moved = 0
  /\ overlapped = FALSE

Command ==
  \/ \E d \in Directions, turns \in Turns : Packet(d, turns)
  \/ \E turns \in Turns : Line(turns)
  \/ LineQuit

SeqRotate == Dispatch \/ Lock \/ Clear \/ Turn \/ Rotate(Main) \/ Restore \/ Unlock

Leave == ClosePulse \/ CloseEnable \/ OpenUnexport \/ CloseUnexport \/ Exit

WorkerFn ==
  /\ Alive
  /\ WorkerTerminated \/ WorkerStopped \/ WorkerLock \/ WorkerUnlock \/ Rotate(Worker)

\* The process has gone; nothing is left to run.
Exited == ~Alive /\ UNCHANGED vars

Next == Startup \/ Command \/ SeqRotate \/ Leave \/ WorkerFn \/ Exited

(***************************************************************************)
(* The scheduler runs both threads.  The startup lock competes with a      *)
(* worker that takes and releases the mutex in a loop, so it is free only  *)
(* again and again: that main ever gets it is an assumption about the      *)
(* mutex.  No command need ever come.                                      *)
(***************************************************************************)
Fairness ==
  /\ SF_vars(Startup)
  /\ WF_vars(SeqRotate \/ Leave)
  /\ WF_vars(WorkerFn)

Spec == Init /\ [][Next]_vars /\ Fairness

-----------------------------------------------------------------------------
(* Properties.                                                             *)

MainLabels ==
  {"startup", "wait", "dispatch", "lock", "clear", "turn", "enable", "high",
   "low", "disable", "restore", "unlock", "closePulse", "closeEnable",
   "openUnexport", "closeUnexport", "return", "exited"}

WorkerLabels ==
  {"top", "gate", "lock", "unlock", "enable", "high", "low",
   "disable", "ended"}

\* Every variable has its type; no loop counter of rotate() passes the bound.
TypeOK ==
  /\ working \in {-1, 0, 1}
  /\ mutex \in Threads \cup {NoOne}
  /\ pc \in [Threads -> MainLabels \cup WorkerLabels]
  /\ pc[Main] \in MainLabels /\ pc[Worker] \in WorkerLabels
  /\ i \in [Threads -> 0..MaxRotations]
  /\ rotations \in Int
  /\ previous \in {-1, 0, 1}
  /\ direction \in {0, 1}
  /\ ena \in {LOW, HIGH} /\ dir \in {LOW, HIGH} /\ pul \in {LOW, HIGH}
  /\ enaFd \in {"line", "closed", "unexport"}
  /\ pulFd \in {"line", "closed"}
  /\ moved \in Nat
  /\ overlapped \in BOOLEAN

(***************************************************************************)
(* motor_mutex is unlocked only by the thread that holds it, and a thread  *)
(* never waits for it while holding it: either is undefined for a default  *)
(* mutex, and seq_rotate() unlocks in a later call than the one that       *)
(* locked, trusting `working' to remember who holds what.                  *)
(***************************************************************************)
MutexDiscipline ==
  \A t \in Threads :
    /\ pc[t] = "unlock" => mutex = t
    /\ pc[t] \in {"startup", "lock"} => mutex # t

(***************************************************************************)
(* Between commands main holds the mutex exactly when the flag says stop,  *)
(* so that a worker that reads 0 is parked and one that reads 1 is not.    *)
(***************************************************************************)
ParkedByFlag ==
  pc[Main] = "wait" => (mutex = Main <=> working = 0)

(***************************************************************************)
(* While the lines are open and no thread is inside rotate(), the driver   *)
(* is off and PUL is low, however the two threads' writes interleaved: LOW *)
(* on ENA is for working only.                                             *)
(***************************************************************************)
ReleasedWhenIdle ==
  (\A t \in Threads : ~InRotate(t)) =>
    /\ enaFd = "line" => ena = HIGH
    /\ pulFd = "line" => pul = LOW

(***************************************************************************)
(* A commanded turn that finds the worker outside rotate() moves the shaft *)
(* by exactly the number of pulses commanded: no batch can join it before  *)
(* it is over.                                                             *)
(***************************************************************************)
ExactWhenAlone ==
  pc[Main] = "disable" /\ ~overlapped => moved = rotations

(***************************************************************************)
(* Whatever the worker did meanwhile, a command leaves the motor as it     *)
(* says: a resume running, a stop stopped, a turn as it was before.        *)
(***************************************************************************)
FlagFollowsCommand ==
  [][pc[Main] # "startup" /\ pc[Main] # "wait" /\ pc'[Main] = "wait" =>
       working' = IF rotations < 0 THEN 1 ELSE IF rotations = 0 THEN 0 ELSE previous]_vars

\* Pulses thread t has still to send.  The worker commits to a batch when it
\* reads the flag, main to a turn when it enables the driver.
PulsesLeft(t) ==
  CASE pc[t] = "enable" /\ t = Worker -> WorkerRounds
    [] pc[t] = "high"                 -> Limit(t) - i[t] + 1
    [] pc[t] = "low"                  -> Limit(t) - i[t]
    [] OTHER                          -> 0

Promise == INSTANCE MotorPromise WITH
  Rounds  <- WorkerRounds,
  running <- Alive /\ working = 1,
  budget  <- IF Alive THEN PulsesLeft(Worker) ELSE 0,
  turning <- PulsesLeft(Main)

(***************************************************************************)
(* The program keeps the promise of module MotorPromise: after a stop at   *)
(* most the batch under way drains, no batch begins during a commanded     *)
(* turn, and what has begun is completed unless the process exits.         *)
(***************************************************************************)
KeepsPromise == Promise!Spec

(***************************************************************************)
(* Every command seq_rotate() takes up returns to the command loop: no     *)
(* thread waits for the mutex for ever.                                    *)
(***************************************************************************)
CommandsComplete == pc[Main] = "dispatch" ~> pc[Main] = "wait"

(***************************************************************************)
(* A resumed motor runs: the worker is let out of the gate, unless another *)
(* command or the exit comes first.                                        *)
(***************************************************************************)
ResumedMotorRuns ==
  working = 1 /\ pc[Worker] = "lock" ~>
    pc[Worker] = "high" \/ working = 0 \/ ~Alive

(***************************************************************************)
(* A stopped worker ends up waiting for the mutex instead of spinning.     *)
(***************************************************************************)
StoppedWorkerParks ==
  working = 0 /\ pc[Main] = "wait" ~>
    (pc[Worker] = "lock" /\ mutex = Main) \/ working = 1 \/ ~Alive

-----------------------------------------------------------------------------
(* What comments and docs of the repository say, and the code does not do. *)

(***************************************************************************)
(* motor_packet.h:34: with turns = 0 the motor stops immediately.          *)
(* Once the stop has been executed the worker sends no further pulse.      *)
(***************************************************************************)
StopsImmediately ==
  [][pc[Main] = "wait" /\ working = 0 /\ Alive =>
       ~(pc[Worker] = "high" /\ pc'[Worker] = "low")]_vars

(***************************************************************************)
(* motor_packet.h:33: with turns > 0 the motor rotates turns rounds.       *)
(***************************************************************************)
TurnsAreRotated == pc[Main] = "disable" => moved >= rotations

(***************************************************************************)
(* README.md:78: one button raises the curtain and the other lowers it.  A *)
(* packet that is taken up finds the DIR line at the level of the packet's *)
(* direction.  It does where the DIRECTION argument agrees with the        *)
(* direction main starts from, and not otherwise.                          *)
(***************************************************************************)
DirectionObeyed ==
  [][\A d \in Directions, turns \in Turns :
       Packet(d, turns) /\ pc'[Main] = "dispatch" => dir' = d]_vars

=============================================================================
