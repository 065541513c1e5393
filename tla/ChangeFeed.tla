----------------------------- MODULE ChangeFeed -----------------------------
(***************************************************************************)
(* What the sensor programs and the control program promise together, with *)
(* no sockets, events or prompts: a sensor says something only when it has *)
(* something new to say, whoever listens to it learns all of it, in order, *)
(* once, and a sensor that is no longer listened to never is again.  The   *)
(* listener may forget everything, and everybody it had met, at any time.  *)
(***************************************************************************)
EXTENDS Integers, Sequences

CONSTANTS Sensors, Roles, NoSensor, Packets, NoPacket, Capacity

VARIABLES
  said,     \* each sensor's last packet
  pending,  \* its packets that were not learnt yet, oldest first
  fresh,    \* sensors that were never listened to
  feed,     \* the sensor each role listens to
  known     \* what each role learnt last

vars == <<said, pending, fresh, feed, known>>

Init ==
  /\ said = [s \in Sensors |-> NoPacket]
  /\ pending = [s \in Sensors |-> <<>>]
  /\ fresh = Sensors
  /\ feed = [r \in Roles |-> NoSensor]
  /\ known = [r \in Roles |-> 0]

Say(s) ==
  /\ Len(pending[s]) < Capacity
  /\ \E p \in Packets \ {said[s]} :
       /\ said' = [said EXCEPT ![s] = p]
       /\ pending' = [pending EXCEPT ![s] = Append(@, p)]
  /\ UNCHANGED <<fresh, feed, known>>

Listen(r, s) ==
  /\ s \in fresh
  /\ fresh' = fresh \ {s}
  /\ feed' = [feed EXCEPT ![r] = s]
  /\ UNCHANGED <<said, pending, known>>

\* A sensor may be turned away before anybody has listened to it.
Refuse(s) ==
  /\ s \in fresh
  /\ fresh' = fresh \ {s}
  /\ pending' = [pending EXCEPT ![s] = <<>>]
  /\ UNCHANGED <<said, feed, known>>

\* A role may be lost with the last thing it learns.
Learn(r, s) ==
  /\ feed[r] = s
  /\ pending[s] # <<>>
  /\ known' = [known EXCEPT ![r] = Head(pending[s]).visible]
  /\ pending' = [pending EXCEPT ![s] = Tail(@)]
  /\ feed' \in {feed, [feed EXCEPT ![r] = NoSensor]}
  /\ UNCHANGED <<said, fresh>>

Lose(r) ==
  /\ feed' = [feed EXCEPT ![r] = NoSensor]
  /\ UNCHANGED <<said, pending, fresh, known>>

Forget ==
  /\ pending' = [s \in Sensors |-> <<>>]
  /\ fresh' \in SUBSET fresh
  /\ feed' = [r \in Roles |-> NoSensor]
  /\ known' = [r \in Roles |-> 0]
  /\ UNCHANGED said

Next ==
  \/ Forget
  \/ \E r \in Roles : Lose(r)
  \/ \E s \in Sensors : Say(s) \/ Refuse(s) \/ \E r \in Roles : Listen(r, s) \/ Learn(r, s)

Spec == Init /\ [][Next]_vars
=============================================================================
