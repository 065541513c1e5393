--------------------------- MODULE StepperProofs ----------------------------
(***************************************************************************)
(* Theorems about the stepper program, for every bound of rotate(), every  *)
(* batch length, every initial direction and every set of commands.        *)
(***************************************************************************)
EXTENDS Stepper, TLAPS

-----------------------------------------------------------------------------
(* The inductive invariant.                                                *)

LeaveLabels ==
  {"closePulse", "closeEnable", "openUnexport", "closeUnexport",
   "return", "exited"}

TurnLabels == {"turn", "enable", "high", "low", "disable", "restore"}

\* `working' and main's place in seq_rotate() tell who holds the mutex.
GateInv ==
  /\ working \in {0, 1}
  /\ pc[Main] = "startup" => working = 0 /\ mutex # Main
  /\ pc[Main] \in {"wait", "dispatch"} \cup LeaveLabels =>
       (mutex = Main <=> working = 0)
  /\ pc[Main] = "lock" => working = 1 /\ mutex # Main /\ rotations >= 0
  /\ pc[Main] = "clear" => working = 1 /\ mutex = Main /\ rotations >= 0
  /\ pc[Main] \in TurnLabels => working = 0 /\ mutex = Main /\ rotations >= 0
  /\ pc[Main] \in {"lock", "clear"} \cup TurnLabels => previous \in {0, 1}
  /\ pc[Main] = "restore" => rotations > 0
  /\ pc[Main] = "unlock" =>
       working = 1 /\ mutex = Main /\ (rotations < 0 \/ (rotations > 0 /\ previous = 1))
  /\ pc[Worker] = "unlock" <=> mutex = Worker

\* rotate() counts from 1 to its limit.
CountInv ==
  /\ pc[Main] \in {"enable", "high", "low", "disable"} =>
       rotations \in 1..MaxRotations
  /\ \A t \in Threads :
       /\ InRotate(t) => i[t] \in 1..Limit(t)
       /\ pc[t] = "disable" => i[t] = Limit(t)

\* Whoever has PUL high or the driver on is still inside rotate().
LineInv ==
  /\ pc[Main] \notin LeaveLabels => enaFd = "line" /\ pulFd = "line"
  /\ enaFd = "line" /\ ena = LOW => \E t \in Threads : InRotate(t)
  /\ pulFd = "line" /\ pul = HIGH => \E t \in Threads : pc[t] = "low"

\* A turn that began alone stays alone and counts its own edges.
AloneInv ==
  InRotate(Main) /\ ~overlapped =>
    /\ pc[Worker] \notin {"enable", "high", "low", "disable"}
    /\ ena = LOW
    /\ pul = IF pc[Main] = "low" THEN HIGH ELSE LOW
    /\ moved = IF pc[Main] = "high" THEN i[Main] - 1 ELSE i[Main]

Inv == TypeOK /\ GateInv /\ CountInv /\ LineInv /\ AloneInv

\* The program starts in the invariant: main at its startup lock, GPIO lines set.
LEMMA InitInv == Init => Inv
<1> SUFFICES ASSUME Init PROVE Inv
  OBVIOUS
<1> USE StepperAssumption DEF Init, Threads, Main, Worker, NoOne, HIGH, LOW
<1>1. TypeOK
  <2>1. pc \in [Threads -> MainLabels \cup WorkerLabels]
    BY DEF MainLabels, WorkerLabels
  <2>2. pc[Main] \in MainLabels /\ pc[Worker] \in WorkerLabels
    BY DEF MainLabels, WorkerLabels
  <2>3. i \in [Threads -> 0..MaxRotations]
    OBVIOUS
  <2>4. overlapped \in BOOLEAN
    OBVIOUS
  <2>5. /\ working \in {-1, 0, 1} /\ previous \in {-1, 0, 1}
        /\ mutex \in Threads \cup {NoOne}
        /\ rotations \in Int /\ moved \in Nat /\ direction \in {0, 1}
    OBVIOUS
  <2>6. ena \in {LOW, HIGH} /\ dir \in {LOW, HIGH} /\ pul \in {LOW, HIGH}
    OBVIOUS
  <2>7. enaFd \in {"line", "closed", "unexport"} /\ pulFd \in {"line", "closed"}
    OBVIOUS
  <2>8. QED
    BY <2>1, <2>2, <2>3, <2>4, <2>5, <2>6, <2>7 DEF TypeOK
<1>2. GateInv
  BY DEF GateInv, LeaveLabels, TurnLabels
<1>3. CountInv /\ LineInv /\ AloneInv
  BY DEF CountInv, LineInv, AloneInv, InRotate, LeaveLabels
<1>4. QED
  BY <1>1, <1>2, <1>3 DEF Inv

\* Every access of either thread to flag, mutex, lines and descriptors keeps the
\* invariant.
LEMMA StepInv == Inv /\ [Next]_vars => Inv'
<1> SUFFICES ASSUME Inv, [Next]_vars PROVE Inv'
  OBVIOUS
<1> USE StepperAssumption
    DEF Inv, TypeOK, GateInv, CountInv, LineInv, AloneInv, LeaveLabels, TurnLabels,
        MainLabels, WorkerLabels, Threads, Main, Worker, NoOne, HIGH, LOW, InRotate,
        Limit, Goto, flag, locals, lines, fds, history, WriteEna, WritePul, Steps,
        LastPulse
<1>1. CASE Startup
  BY <1>1 DEF Startup
<1>2. CASE Dispatch
  BY <1>2 DEF Dispatch
<1>3. CASE Lock
  BY <1>3 DEF Lock
<1>4. CASE Clear
  BY <1>4 DEF Clear
<1>5. CASE Turn
  BY <1>5 DEF Turn
<1>6. CASE Restore
  BY <1>6 DEF Restore
<1>7. CASE Unlock
  BY <1>7 DEF Unlock
<1>8. CASE LineQuit
  BY <1>8 DEF LineQuit
<1>9. CASE ClosePulse
  BY <1>9 DEF ClosePulse
<1>10. CASE CloseEnable
  BY <1>10 DEF CloseEnable
<1>11. CASE OpenUnexport
  BY <1>11 DEF OpenUnexport
<1>12. CASE CloseUnexport
  BY <1>12 DEF CloseUnexport
<1>13. CASE Exit
  BY <1>13 DEF Exit
<1>14. CASE WorkerTerminated
  BY <1>14 DEF WorkerTerminated
<1>15. CASE WorkerStopped
  BY <1>15 DEF WorkerStopped
<1>16. CASE WorkerLock
  BY <1>16 DEF WorkerLock
<1>17. CASE WorkerUnlock
  BY <1>17 DEF WorkerUnlock
<1>18. ASSUME NEW d \in Directions, NEW turns \in Turns, Packet(d, turns) PROVE Inv'
  BY <1>18 DEF Packet, SetDirection
<1>19. ASSUME NEW turns \in Turns, Line(turns) PROVE Inv'
  BY <1>19 DEF Line
<1>20. CASE Enable(Main)
  <2>1. TypeOK'
    BY <1>20 DEF Enable
  <2>2. GateInv'
    BY <1>20 DEF Enable
  <2>3. CountInv'
    BY <1>20 DEF Enable
  <2>4. LineInv'
    BY <1>20 DEF Enable
  <2>5. AloneInv'
    <3> SUFFICES ASSUME ~overlapped' PROVE AloneInv'
      OBVIOUS
    <3>1. /\ pc[Main] = "enable" /\ pc'[Main] = "high"
          /\ pc'[Worker] = pc[Worker] /\ i'[Main] = 1
          /\ enaFd = "line" /\ pulFd = "line"
          /\ moved' = 0 /\ ena' = LOW /\ pul' = pul
      BY <1>20 DEF Enable
    <3>2. pc[Worker] \notin {"enable", "high", "low", "disable"}
      BY <1>20 DEF Enable
    <3>3. pul = LOW
      BY <3>1, <3>2
    <3>4. QED
      BY <3>1, <3>2, <3>3
  <2>6. QED
    BY <2>1, <2>2, <2>3, <2>4, <2>5
<1>21. CASE Enable(Worker)
  BY <1>21 DEF Enable
<1>22. CASE PulseHigh(Main)
  BY <1>22 DEF PulseHigh
<1>23. CASE PulseHigh(Worker)
  BY <1>23 DEF PulseHigh
<1>24. CASE PulseLow(Main)
  BY <1>24 DEF PulseLow
<1>25. CASE PulseLow(Worker)
  BY <1>25 DEF PulseLow
<1>26. CASE Disable(Main)
  BY <1>26 DEF Disable
<1>27. CASE Disable(Worker)
  BY <1>27 DEF Disable
<1>28. CASE UNCHANGED vars
  BY <1>28 DEF vars
<1>29. QED
  BY <1>1, <1>2, <1>3, <1>4, <1>5, <1>6, <1>7, <1>8, <1>9, <1>10, <1>11, <1>12,
     <1>13, <1>14, <1>15, <1>16, <1>17, <1>18, <1>19, <1>20, <1>21, <1>22, <1>23,
     <1>24, <1>25, <1>26, <1>27, <1>28
  DEF Next, Command, SeqRotate, Leave, WorkerFn, Rotate, Exited

-----------------------------------------------------------------------------
(* The safety properties of Stepper.                                       *)

\* Every reachable state of the program satisfies the inductive invariant.
THEOREM Invariance == Spec => []Inv
  BY InitInv, StepInv, PTL DEF Spec

\* Every variable keeps its type; no loop of rotate() passes MaxRotations.
THEOREM TypeCorrect == Spec => []TypeOK
<1>1. Inv => TypeOK
  BY DEF Inv
<1>2. QED
  BY <1>1, Invariance, PTL

\* seq_rotate() and workerFn() never unlock a mutex they do not hold, nor wait
\* for one they hold, although lock and unlock sit in different calls.
THEOREM MutexCorrect == Spec => []MutexDiscipline
<1>1. Inv => MutexDiscipline
  BY DEF Inv, TypeOK, GateInv, MutexDiscipline, Threads, Main, Worker, NoOne
<1>2. QED
  BY <1>1, Invariance, PTL

\* Between commands main holds motor_mutex exactly when the flag says stop.
THEOREM ParkedCorrect == Spec => []ParkedByFlag
<1>1. Inv => ParkedByFlag
  BY DEF Inv, GateInv, ParkedByFlag
<1>2. QED
  BY <1>1, Invariance, PTL

\* With both threads outside rotate() the driver is off and PUL is low, however
\* the unprotected writes of the two threads interleaved.
THEOREM ReleaseCorrect == Spec => []ReleasedWhenIdle
<1>1. Inv => ReleasedWhenIdle
  BY DEF Inv, TypeOK, LineInv, ReleasedWhenIdle, InRotate, HIGH, LOW
<1>2. QED
  BY <1>1, Invariance, PTL

\* A turn that finds the worker outside rotate() moves the shaft by exactly the
\* commanded number of pulses.
THEOREM TurnsExact == Spec => []ExactWhenAlone
<1>1. Inv => ExactWhenAlone
  BY DEF Inv, CountInv, AloneInv, ExactWhenAlone, InRotate, Limit, Threads, Main
<1>2. QED
  BY <1>1, Invariance, PTL

\* A resume, a stop and a turn leave `working' at 1, at 0 and as it was.
THEOREM FlagCorrect == Spec => FlagFollowsCommand
<1>1. Inv /\ [Next]_vars =>
        [pc[Main] # "startup" /\ pc[Main] # "wait" /\ pc'[Main] = "wait" =>
           working' = IF rotations < 0 THEN 1
                      ELSE IF rotations = 0 THEN 0 ELSE previous]_vars
  <2> SUFFICES ASSUME Inv, [Next]_vars, pc[Main] # "startup", pc[Main] # "wait",
                      pc'[Main] = "wait"
               PROVE  working' = IF rotations < 0 THEN 1
                                 ELSE IF rotations = 0 THEN 0 ELSE previous
    OBVIOUS
  <2> USE DEF Inv, TypeOK, GateInv, TurnLabels, Threads, Main, Worker, Goto
  <2>1. Dispatch \/ Turn \/ Restore \/ Unlock
    <3>1. ASSUME Command \/ Leave \/ Exited \/ UNCHANGED vars PROVE FALSE
      BY <3>1 DEF Command, Packet, Line, LineQuit, Leave, ClosePulse, CloseEnable,
                  OpenUnexport, CloseUnexport, Exit, Exited, vars
    <3>2. ASSUME Startup \/ Lock \/ Clear \/ Rotate(Main) PROVE FALSE
      BY <3>2 DEF Startup, Lock, Clear, Rotate, Enable, PulseHigh, PulseLow, Disable
    <3>3. ASSUME WorkerFn PROVE FALSE
      BY <3>3 DEF WorkerFn, WorkerTerminated, WorkerStopped, WorkerLock, WorkerUnlock,
                  Rotate, Enable, PulseHigh, PulseLow, Disable
    <3>4. QED
      BY <3>1, <3>2, <3>3 DEF Next, SeqRotate
  <2>2. CASE Dispatch
    BY <2>2 DEF Dispatch
  <2>3. CASE Turn
    BY <2>3 DEF Turn, flag
  <2>4. CASE Restore
    BY <2>4 DEF Restore
  <2>5. CASE Unlock
    BY <2>5 DEF Unlock, flag
  <2>6. QED
    BY <2>1, <2>2, <2>3, <2>4, <2>5
<1>2. QED
  BY <1>1, Invariance, PTL DEF Spec, FlagFollowsCommand

-----------------------------------------------------------------------------
(* The program implements MotorPromise.                                    *)

\* What is left of a turn and of a batch, from where the two threads are.
PulsesInv ==
  /\ PulsesLeft(Main) =
       IF pc[Main] = "high" THEN rotations - i[Main] + 1
       ELSE IF pc[Main] = "low" THEN rotations - i[Main] ELSE 0
  /\ PulsesLeft(Worker) =
       IF pc[Worker] = "enable" THEN WorkerRounds
       ELSE IF pc[Worker] = "high" THEN WorkerRounds - i[Worker] + 1
       ELSE IF pc[Worker] = "low" THEN WorkerRounds - i[Worker] ELSE 0
  /\ PulsesLeft(Main) \in Nat
  /\ PulsesLeft(Worker) \in 0..WorkerRounds

\* The pulses left are determined by the program counters and loop counters.
LEMMA PulsesCorrect == Inv => PulsesInv
  BY StepperAssumption
  DEF Inv, TypeOK, CountInv, PulsesInv, PulsesLeft, Limit, InRotate,
      Threads, Main, Worker

\* The program starts where its promise starts: stopped, nothing under way.
LEMMA PromiseInit == Init => Promise!Init
  BY DEF Init, Promise!Init, PulsesLeft, Alive, Threads, Main, Worker

\* Every step of the program is a step of its promise or invisible to it.
LEMMA PromiseStep == Inv /\ Inv' /\ [Next]_vars => [Promise!Next]_(Promise!vars)
<1> SUFFICES ASSUME Inv, Inv', [Next]_vars PROVE [Promise!Next]_(Promise!vars)
  OBVIOUS
<1> DEFINE R == Alive /\ working = 1
           B == IF Alive THEN PulsesLeft(Worker) ELSE 0
           T == PulsesLeft(Main)
<1>p. PulsesInv /\ PulsesInv'
  BY PulsesCorrect, PTL
<1>s. ASSUME UNCHANGED <<R, B, T>> PROVE [Promise!Next]_(Promise!vars)
  BY <1>s DEF Promise!vars
<1> USE <1>p DEF Inv, TypeOK, PulsesInv, Alive, Threads, Main, Worker, Goto,
        flag, locals, history, MainLabels, WorkerLabels
<1>1. CASE Startup
  BY <1>1, <1>s DEF Startup
<1>2. CASE Dispatch
  <2>1. CASE R' # R
    <3>1. ~R /\ R' /\ T = 0 /\ UNCHANGED <<B, T>>
      BY <1>2, <2>1 DEF Dispatch
    <3>2. QED
      BY <3>1 DEF Promise!Next, Promise!Resume
  <2>2. CASE R' = R
    BY <1>2, <2>2, <1>s DEF Dispatch
  <2>3. QED
    BY <2>1, <2>2
<1>3. CASE Clear
  <2>1. R /\ ~R' /\ UNCHANGED <<B, T>>
    BY <1>3 DEF Clear, GateInv
  <2>2. QED
    BY <2>1 DEF Promise!Next, Promise!Stop
<1>4. CASE WorkerStopped /\ Alive
  <2>1. CASE pc'[Worker] = "enable"
    <3>1. R /\ B = 0 /\ B' = WorkerRounds /\ UNCHANGED <<R, T>>
      BY <1>4, <2>1 DEF WorkerStopped, GateInv
    <3>2. QED
      BY <3>1 DEF Promise!Next, Promise!BeginBatch
  <2>2. CASE pc'[Worker] # "enable"
    BY <1>4, <2>2, <1>s DEF WorkerStopped
  <2>3. QED
    BY <2>1, <2>2
<1>5. CASE Enable(Main)
  <2>1. ~R /\ T = 0 /\ T' \in Nat \ {0} /\ UNCHANGED <<R, B>>
    BY <1>5 DEF Enable, GateInv, CountInv, TurnLabels
  <2>2. QED
    BY <2>1 DEF Promise!Next, Promise!BeginTurn
<1>6. CASE PulseHigh(Main)
  <2>1. T > 0 /\ T' = T - 1 /\ UNCHANGED <<R, B>>
    BY <1>6 DEF PulseHigh, CountInv, InRotate, Limit
  <2>2. QED
    BY <2>1 DEF Promise!Next, Promise!TurnPulse
<1>7. CASE PulseHigh(Worker) /\ Alive
  <2>1. B > 0 /\ B' = B - 1 /\ UNCHANGED <<R, T>>
    BY <1>7, StepperAssumption DEF PulseHigh, CountInv, InRotate, Limit
  <2>2. QED
    BY <2>1 DEF Promise!Next, Promise!BatchPulse
<1>8. CASE Restore
  <2>1. CASE R' # R
    <3>1. ~R /\ R' /\ T = 0 /\ UNCHANGED <<B, T>>
      BY <1>8, <2>1 DEF Restore, GateInv, TurnLabels
    <3>2. QED
      BY <3>1 DEF Promise!Next, Promise!Resume
  <2>2. CASE R' = R
    BY <1>8, <2>2, <1>s DEF Restore
  <2>3. QED
    BY <2>1, <2>2
<1>9. CASE Exit
  <2>1. ~R' /\ B' = 0 /\ T = 0 /\ UNCHANGED T
    BY <1>9 DEF Exit
  <2>2. QED
    BY <2>1 DEF Promise!Next, Promise!Halt
<1>10. CASE Lock \/ Turn \/ Unlock \/ LineQuit
  BY <1>10, <1>s DEF Lock, Turn, Unlock, LineQuit
<1>11. CASE ClosePulse \/ CloseEnable \/ OpenUnexport \/ CloseUnexport
  BY <1>11, <1>s DEF ClosePulse, CloseEnable, OpenUnexport, CloseUnexport
<1>12. CASE Alive /\ (WorkerTerminated \/ WorkerLock \/ WorkerUnlock)
  BY <1>12, <1>s DEF WorkerTerminated, WorkerLock, WorkerUnlock
<1>13. ASSUME NEW d \in Directions, NEW turns \in Turns, Packet(d, turns)
       PROVE  UNCHANGED <<R, B, T>>
  BY <1>13 DEF Packet, SetDirection
<1>14. ASSUME NEW turns \in Turns, Line(turns) PROVE UNCHANGED <<R, B, T>>
  BY <1>14 DEF Line
<1>15. CASE PulseLow(Main) \/ Disable(Main)
  BY <1>15, <1>s DEF PulseLow, Disable, LastPulse, Limit, CountInv, InRotate
<1>16. ASSUME Alive, Enable(Worker) \/ PulseLow(Worker) \/ Disable(Worker)
       PROVE  UNCHANGED <<R, B, T>>
  BY <1>16, StepperAssumption
  DEF Enable, PulseLow, Disable, LastPulse, Limit, CountInv, InRotate
<1>17. CASE UNCHANGED vars
  BY <1>17, <1>s DEF vars, PulsesLeft, Limit
<1>18. QED
  BY <1>1, <1>2, <1>3, <1>4, <1>5, <1>6, <1>7, <1>8, <1>9, <1>10, <1>11, <1>12,
     <1>13, <1>14, <1>15, <1>16, <1>17, <1>s
  DEF Next, Command, SeqRotate, Leave, WorkerFn, Rotate, Exited

\* Resumes, stops, batches and turns happen only as MotorPromise allows: no
\* batch begins while the flag says stop, so that at most WorkerRounds pulses
\* follow a stop, and no batch begins during a commanded turn.
THEOREM ImplementsPromise == Spec => Promise!SafetySpec
<1>1. Init /\ []Inv /\ [][Next]_vars => Promise!SafetySpec
  BY PromiseInit, PromiseStep, PTL DEF Promise!SafetySpec
<1>2. QED
  BY <1>1, Invariance, PTL DEF Spec

-----------------------------------------------------------------------------
(* Directions.                                                             *)

\* Main's idea of the direction is the level of the DIR line.
DirectionKnown == dir = direction

\* set_direction() is the only writer of either, and writes both or none.
LEMMA DirectionStep == Inv /\ DirectionKnown /\ [Next]_vars => DirectionKnown'
<1> SUFFICES ASSUME Inv, DirectionKnown, [Next]_vars PROVE DirectionKnown'
  OBVIOUS
<1> USE DEF DirectionKnown, locals, lines
<1>1. ASSUME NEW d \in Directions, NEW turns \in Turns, Packet(d, turns)
      PROVE  dir' = direction'
  BY <1>1 DEF Packet, SetDirection
<1>2. ASSUME NEW turns \in Turns, Line(turns) PROVE dir' = direction'
  BY <1>2 DEF Line
<1>3. ASSUME NEW t \in Threads, Rotate(t) PROVE dir' = direction'
  BY <1>3 DEF Rotate, Enable, PulseHigh, PulseLow, Disable
<1>4. CASE Startup \/ LineQuit \/ Leave
  BY <1>4 DEF Startup, LineQuit, Leave, ClosePulse, CloseEnable, OpenUnexport,
              CloseUnexport, Exit
<1>5. CASE Dispatch \/ Lock \/ Clear \/ Turn \/ Restore \/ Unlock
  BY <1>5 DEF Dispatch, Lock, Clear, Turn, Restore, Unlock
<1>6. CASE WorkerTerminated \/ WorkerStopped \/ WorkerLock \/ WorkerUnlock
  BY <1>6 DEF WorkerTerminated, WorkerStopped, WorkerLock, WorkerUnlock
<1>7. CASE UNCHANGED vars
  BY <1>7 DEF vars
<1>8. QED
  BY <1>1, <1>2, <1>3, <1>4, <1>5, <1>6, <1>7
  DEF Next, Command, SeqRotate, WorkerFn, Exited, Threads

\* If the DIRECTION argument put LOW on the DIR line, the direction main starts
\* from, then every packet taken up finds the line at the packet's direction.
THEOREM DirectionCorrect ==
  ASSUME InitialDirection = 0
  PROVE  Spec => DirectionObeyed
<1>1. Init => DirectionKnown
  BY DEF Init, DirectionKnown
<1>2. Spec => []DirectionKnown
  BY <1>1, DirectionStep, Invariance, PTL DEF Spec
<1>3. Inv /\ DirectionKnown /\ [Next]_vars =>
        [\A d \in Directions, turns \in Turns :
           Packet(d, turns) /\ pc'[Main] = "dispatch" => dir' = d]_vars
  BY DEF Inv, TypeOK, DirectionKnown, Packet, SetDirection, Threads, Main
<1>4. QED
  BY <1>2, <1>3, Invariance, PTL DEF Spec, DirectionObeyed
=============================================================================
