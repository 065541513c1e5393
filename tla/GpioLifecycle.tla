--------------------------- MODULE GpioLifecycle ----------------------------
(***************************************************************************)
(* The life of the stepper program around its motor loop (stepper.c): it   *)
(* unexports and exports its three GPIO lines, sets their directions and   *)
(* values, takes the port, works, and unexports the lines when it quits.   *)
(* Several instances may be started on the same lines (cron at boot, and a *)
(* user by hand), and any of them may be killed between two steps.  What   *)
(* the kernel keeps, the exported lines and the port, outlives them.       *)
(*                                                                         *)
(* A step of the program is one write to sysfs, with the open before it: a *)
(* line that goes away between the two fails the write as it would have    *)
(* failed the open.  Each may also fail for reasons that are not modelled  *)
(* (no permission yet, no descriptor left, a line that is input only, an   *)
(* I/O error): `erred' remembers which did.                                *)
(***************************************************************************)
EXTENDS Integers

CONSTANTS
  Procs,             \* instances of the program
  InitialDirection,  \* level the DIRECTION argument puts on the DIR line
  Claims,            \* sets of lines a kernel driver may keep for itself
  MaxStarts          \* bound: how often an instance is started, in all

LOW  == "0"
HIGH == "1"

ENABLE_NUM == 1
DIR_NUM    == 2
PUL_NUM    == 3
Pins == ENABLE_NUM .. PUL_NUM

ASSUME GpioAssumption ==
  /\ Procs \cap {"free", "lingers"} = {}
  /\ InitialDirection \in {LOW, HIGH}
  /\ Claims \subseteq SUBSET Pins
  /\ MaxStarts \in Nat

VARIABLES
  gpio,     \* each line: "unexported", "in", or an output and its level
  claimed,  \* the lines a kernel driver keeps, which cannot be exported
  port,     \* who listens at the port; "lingers" while TCP holds it back
  pc,       \* where each instance is, or how it ended
  i,        \* each instance's loop counter over the lines
  fd,       \* each instance's descriptor of each line's value file
  rival,    \* history: has another instance run since this one was started?
  erred,    \* history: the steps of each instance that failed for such a reason
  starts    \* counts the starts, for MaxStarts

vars == <<gpio, claimed, port, pc, i, fd, rival, erred, starts>>

Setup   == {"unexport", "export", "direction", "value", "bind"}
Serving == {"idle", "rotating"}
Ended   == {"off", "failed", "refused", "done", "killed"}

Running(p) == pc[p] \notin Ended
Alone(p)   == ~rival[p]

Goto(p, label) == pc' = [pc EXCEPT ![p] = label]

NoDescriptors == [pin \in Pins |-> "none"]
CloseAll(p)   == fd' = [fd EXCEPT ![p] = NoDescriptors]

\* The loops over the lines: the next one, or the next stage after the last.
NextPin(p, last, stage) ==
  IF i[p] < last
    THEN i' = [i EXCEPT ![p] = @ + 1] /\ UNCHANGED pc
    ELSE i' = [i EXCEPT ![p] = ENABLE_NUM] /\ Goto(p, stage)

\* exit(EXIT_FAILURE): the kernel closes the descriptors, and that is all.
Fail(p, how) ==
  /\ Goto(p, how)
  /\ CloseAll(p)
  /\ i' = [i EXCEPT ![p] = ENABLE_NUM]

Err(p) == erred' = [erred EXCEPT ![p] = @ \cup {<<pc[p], i[p]>>}]

-----------------------------------------------------------------------------
\* Mutant: the call of unexport() before the setup is left out.
FirstStage_Export == "export"

FirstStage == "unexport"

Start(p) ==
  /\ ~Running(p)
  /\ starts < MaxStarts
  /\ starts' = starts + 1
  /\ Goto(p, FirstStage)
  /\ rival' = [q \in Procs |-> q # p \/ \E r \in Procs \ {p} : Running(r)]
  /\ erred' = [erred EXCEPT ![p] = {}]
  /\ UNCHANGED <<gpio, claimed, port, i, fd>>

\* unexport(), before the setup and at the exit: a line that is not exported
\* is an error the program prints, and so is any other: it goes on.  Open value
\* files of a line that is unexported go dead.
Unexport(p) ==
  /\ pc[p] \in {"unexport", "leaving"}
  /\ \/ /\ gpio' = [gpio EXCEPT ![i[p]] = "unexported"]
        /\ fd' = [q \in Procs |-> [fd[q] EXCEPT ![i[p]] = IF @ = "open" THEN "dead" ELSE @]]
        /\ UNCHANGED erred
     \/ Err(p) /\ UNCHANGED <<gpio, fd>>
  /\ NextPin(p, PUL_NUM, IF pc[p] = "leaving" THEN "done" ELSE "export")
  /\ UNCHANGED <<claimed, port, rival, starts>>

\* export(): a line that is exported already, or claimed, is refused.
CanExport(pin) == gpio[pin] = "unexported" /\ pin \notin claimed

Export(p) ==
  /\ pc[p] = "export"
  /\ \/ /\ CanExport(i[p])
        /\ gpio' = [gpio EXCEPT ![i[p]] = "in"]
        /\ NextPin(p, PUL_NUM, "direction")
        /\ UNCHANGED <<fd, erred>>
     \/ ~CanExport(i[p]) /\ Fail(p, "failed") /\ UNCHANGED <<gpio, erred>>
     \/ Err(p) /\ Fail(p, "failed") /\ UNCHANGED gpio
  /\ UNCHANGED <<claimed, port, rival, starts>>

\* Writing "out" makes the line an output and drives it low.
Direction(p) ==
  /\ pc[p] = "direction"
  /\ \/ /\ gpio[i[p]] # "unexported"
        /\ gpio' = [gpio EXCEPT ![i[p]] = LOW]
        /\ NextPin(p, PUL_NUM, "value")
        /\ UNCHANGED <<fd, erred>>
     \/ gpio[i[p]] = "unexported" /\ Fail(p, "failed") /\ UNCHANGED <<gpio, erred>>
     \/ Err(p) /\ Fail(p, "failed") /\ UNCHANGED gpio
  /\ UNCHANGED <<claimed, port, rival, starts>>

\* Mutant: every line starts low, as the pulse line does.
InitialLevel_AllLow(pin) == LOW

InitialLevel(pin) ==
  CASE pin = ENABLE_NUM -> HIGH
    [] pin = DIR_NUM    -> InitialDirection
    [] pin = PUL_NUM    -> LOW

\* Opens the value file for good.  The value of an input cannot be written.
Value(p) ==
  /\ pc[p] = "value"
  /\ \/ /\ gpio[i[p]] \in {LOW, HIGH}
        /\ gpio' = [gpio EXCEPT ![i[p]] = InitialLevel(i[p])]
        /\ fd' = [fd EXCEPT ![p][i[p]] = "open"]
        /\ NextPin(p, PUL_NUM, "bind")
        /\ UNCHANGED erred
     \/ gpio[i[p]] \notin {LOW, HIGH} /\ Fail(p, "failed") /\ UNCHANGED <<gpio, erred>>
     \/ Err(p) /\ Fail(p, "failed") /\ UNCHANGED gpio
  /\ UNCHANGED <<claimed, port, rival, starts>>

\* Mutant: the result of bind() is not looked at.
PortIsFree_Unchecked == TRUE

PortIsFree == port = "free"

\* From socket() to pthread_detach(), then the loop.  The lines are left as they
\* are when another program has the port, TCP still holds it for an old
\* connection, or a call fails.
Bind(p) ==
  /\ pc[p] = "bind"
  /\ \/ PortIsFree /\ port' = p /\ Goto(p, "idle") /\ UNCHANGED <<i, fd, erred>>
     \/ ~PortIsFree /\ Fail(p, "refused") /\ UNCHANGED <<port, erred>>
     \/ Err(p) /\ Fail(p, "failed") /\ UNCHANGED port
  /\ UNCHANGED <<gpio, claimed, rival, starts>>

-----------------------------------------------------------------------------
(* The motor loop, as far as it drives the lines: module Stepper has the   *)
(* rest.  A write through a dead descriptor fails, and nobody looks.       *)

Write(p, pin, level) ==
  gpio' = IF fd[p][pin] = "open" THEN [gpio EXCEPT ![pin] = level] ELSE gpio

Enable(p) ==
  /\ pc[p] = "idle"
  /\ Write(p, ENABLE_NUM, LOW)
  /\ Goto(p, "rotating")
  /\ UNCHANGED <<claimed, port, i, fd, rival, erred, starts>>

Disable(p) ==
  /\ pc[p] = "rotating"
  /\ Write(p, ENABLE_NUM, HIGH)
  /\ Goto(p, "idle")
  /\ UNCHANGED <<claimed, port, i, fd, rival, erred, starts>>

SetDirection(p) ==
  /\ pc[p] \in Serving
  /\ \E level \in {LOW, HIGH} : Write(p, DIR_NUM, level)
  /\ UNCHANGED <<claimed, port, pc, i, fd, rival, erred, starts>>

\* A port with connections the program was first to close is held back.
ReleasePort(p) ==
  IF port = p THEN port' \in {"free", "lingers"} ELSE UNCHANGED port

\* Mutant: the program returns without unexport().
LastStage_Return == "done"

LastStage == "leaving"

\* Quit, while the worker may be rotating: descriptors first, then unexport.
Quit(p) ==
  /\ pc[p] \in Serving
  /\ ReleasePort(p)
  /\ CloseAll(p)
  /\ Goto(p, LastStage)
  /\ UNCHANGED <<gpio, claimed, i, rival, erred, starts>>

\* A signal, or a broken terminal: no handler is installed.
Killed(p) ==
  /\ Running(p)
  /\ ReleasePort(p)
  /\ Fail(p, "killed")
  /\ UNCHANGED <<gpio, claimed, rival, erred, starts>>

LingerEnds ==
  /\ port = "lingers"
  /\ port' = "free"
  /\ UNCHANGED <<gpio, claimed, pc, i, fd, rival, erred, starts>>

-----------------------------------------------------------------------------
Init ==
  /\ gpio = [pin \in Pins |-> "unexported"]
  /\ claimed \in Claims
  /\ port = "free"
  /\ pc = [p \in Procs |-> "off"]
  /\ i = [p \in Procs |-> ENABLE_NUM]
  /\ fd = [p \in Procs |-> NoDescriptors]
  /\ rival = [p \in Procs |-> FALSE]
  /\ erred = [p \in Procs |-> {}]
  /\ starts = 0

Main(p) ==
  \/ Unexport(p) \/ Export(p) \/ Direction(p) \/ Value(p) \/ Bind(p)
  \/ Enable(p) \/ Disable(p) \/ SetDirection(p) \/ Quit(p)

Next == LingerEnds \/ \E p \in Procs : Start(p) \/ Main(p) \/ Killed(p)

Spec == Init /\ [][Next]_vars

-----------------------------------------------------------------------------
\* Types, and: a value file is open only of an output line, and only a
\* program that listens has the port.  (stepper.c, setup and exit)
TypeOK ==
  /\ gpio \in [Pins -> {"unexported", "in", LOW, HIGH}]
  /\ claimed \in Claims
  /\ port \in Procs \cup {"free", "lingers"}
  /\ pc \in [Procs -> Setup \cup Serving \cup {"leaving"} \cup Ended]
  /\ i \in [Procs -> Pins]
  /\ fd \in [Procs -> [Pins -> {"none", "open", "dead"}]]
  /\ rival \in [Procs -> BOOLEAN]
  /\ erred \in [Procs -> SUBSET ((Setup \cup {"leaving"}) \X Pins)]
  /\ starts \in 0 .. MaxStarts
  /\ \A p \in Procs :
       /\ pc[p] \in Serving <=> port = p
       /\ \A pin \in Pins : fd[p][pin] = "open" => gpio[pin] \in {LOW, HIGH}

\* Whatever an earlier instance left behind, killed between any two steps or
\* failed half way, a setup with no other instance about does not fail on the
\* lines, only for an error of its own: that is what unexport() before export()
\* is for.  (stepper.c:175)
RepairedStart ==
  \A p \in Procs : pc[p] = "failed" /\ claimed = {} => rival[p] \/ erred[p] # {}

\* A program that serves has its three lines, with the driver off whenever it
\* does not rotate, unless another instance was started beside it: only that
\* takes the lines of a running program away.  (stepper.c:96-110, 209-259)
ReadyOwnsLines ==
  \A p \in Procs : pc[p] \in Serving /\ Alone(p) =>
    /\ \A pin \in Pins : fd[p][pin] = "open"
    /\ pc[p] = "idle" => gpio[ENABLE_NUM] = HIGH

\* A program that quits, whatever the worker is doing, and whatever it found
\* when it started, leaves no line exported but one whose unexport failed.
\* (stepper.c:426-430)
CleanExit ==
  \A p \in Procs : pc[p] = "done" /\ Alone(p) =>
    \A pin \in Pins : gpio[pin] = "unexported" \/ <<"leaving", pin>> \in erred[p]

\* The setup drives ENA low on its way to high.  A program that ends by itself
\* leaves the driver enabled only if an error met it between the two, or kept it
\* from unexporting ENA: no other failure of the setup, no port that is taken and
\* no quit in the middle of a turn does.  (stepper.c:186-238)
Window == {<<"direction", DIR_NUM>>, <<"direction", PUL_NUM>>, <<"value", ENABLE_NUM>>}

LeftOnOnlyInWindow ==
  \A p \in Procs :
    pc[p] \in {"failed", "refused", "done"} /\ Alone(p) /\ gpio[ENABLE_NUM] = LOW =>
      \E e \in Window \cup {<<"unexport", ENABLE_NUM>>, <<"leaving", ENABLE_NUM>>} :
        e \in erred[p]

=============================================================================
