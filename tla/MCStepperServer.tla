-------------------------- MODULE MCStepperServer ---------------------------
(***************************************************************************)
(* Small instances of StepperServer.  The stamp 7 stands for what precedes *)
(* a packet's direction; it is no direction, and as turns it is a turn.    *)
(***************************************************************************)
EXTENDS StepperServer

\* Run on in the other direction.
MCPackets == {<<7, 1, -1>>}

\* The stack held a turn in a direction that is refused.
MCGarbage == {<<9, 9, 9>>}

\* Stop, leave, and the end of file of a terminal.
MCLines == {Number(0), Quit, EndOfFile}

\* A terminal while packets come in pieces; a pipe, whose lines run together; and
\* the addr_len that makes accept() drop what it accepts.
MCWorlds ==
  {[pipe |-> FALSE, whole |-> FALSE, addr_len |-> TRUE, lines |-> 1],
   [pipe |-> TRUE, whole |-> TRUE, addr_len |-> TRUE, lines |-> 2],
   [pipe |-> FALSE, whole |-> TRUE, addr_len |-> FALSE, lines |-> 1]}
=============================================================================
