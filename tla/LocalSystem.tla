---------------------------- MODULE LocalSystem -----------------------------
(***************************************************************************)
(* Sensor programs and a control program joined by a local socket: the     *)
(* pair of programs of the Makefile that connect to each other.            *)
(***************************************************************************)
EXTENDS SensorUnix, ControlUnix

vars == <<net, sensorVars, controlVars>>

Init == NetInit /\ SensorInit /\ ControlInit

Next ==
  \/ (\E s \in Sensors : Sensor(s)) /\ UNCHANGED controlVars
  \/ Control /\ UNCHANGED sensorVars

\* The loop waits for nobody but the user, who completes a command and, as
\* long as there is standard input, names a role in the end.  Nobody has to
\* type a command.
Runs == cpc = "wait" => Ready # {} \/ stdin = "eof"

Fairness ==
  /\ WF_vars(Runs /\ Loop /\ UNCHANGED sensorVars)
  /\ WF_vars(Typed /\ UNCHANGED sensorVars)
  /\ \A r \in Roles : SF_vars(Answer(r) /\ UNCHANGED sensorVars)

Spec == Init /\ [][Next]_vars /\ Fairness

-----------------------------------------------------------------------------
\* Types; the counts a sensor sends are those of its 16-bit registers, and
\* readings in use are never negative; a role belongs to a connection that
\* was accepted, and no sensor has both.  (sensor_io.c, control_thread_unix.c)
TypeOK ==
  /\ NetTypeOK(Packets)
  /\ SensorTypeOK
  /\ ControlTypeOK
  /\ \A r \in Roles : role_fd[r] # NoFd => conn[role_fd[r]] = "accepted"
  /\ role_fd["indoor"] = role_fd["outdoor"] => role_fd["indoor"] = NoFd

\* A sensor is silent while its reading does not change, so what it sent last
\* must be on its way or known to the control program for as long as it has a
\* role: nothing would ever repeat it.  (sensor_thread_unix.c:97-112)
KnownOrUnread ==
  \A r \in Roles, s \in Sensors :
    role_fd[r] = s /\ last_packet[s] # NoPacket =>
      IF chan[s] = <<>> THEN data_tmp[r] = last_packet[s].visible
                        ELSE Last(chan[s]) = last_packet[s]

\* The two programs implement ChangeFeed: no event of a batch, prompt, lost
\* connection or restart makes a role learn from a sensor that is not its own,
\* skip a packet or take one twice.  (control_thread_unix.c:286-336)
Feed == INSTANCE ChangeFeed WITH
  NoSensor <- NoFd,
  said     <- last_packet,
  pending  <- chan,
  fresh    <- {s \in Sensors : conn[s] \in {"none", "queued"} \/ s = data_fd},
  feed     <- role_fd,
  known    <- data_tmp

ImplementsFeed == Feed!Spec

\* Once update() ran under the present limits, the light agrees with the
\* readings in use, whichever sensor reported last, and after any losses:
\* on if it is dim inside and out, off if it is too bright inside.
\* (control_thread_unix.c:83-135)
LightFollowsReadings ==
  judged =>
    /\ data["indoor"] < min /\ data["outdoor"] <= min => light_on
    /\ data["indoor"] >= min /\ data["indoor"] > max => ~light_on

\* A packet of a sensor that has a role is read, unless the sensor is lost or
\* replaced, the program is killed, or standard input has ended: connections
\* that are watched for ever do not starve it.  (control_thread_unix.c:286)
ReadingIsUsed ==
  \A r \in Roles, s \in Sensors :
    role_fd[r] = s /\ chan[s] # <<>> ~> role_fd[r] # s \/ chan[s] = <<>> \/ stdin = "eof"

\* The prompt keeps the loop for ever only if standard input ended and the
\* last character that was typed names no role: then it asks in vain.
\* Otherwise that character is taken for the answer.  (:262-277)
PromptEnds ==
  cpc = "prompt" ~> cpc # "prompt" \/ (stdin = "eof" /\ sensor_type = Other)
=============================================================================
