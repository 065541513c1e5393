----------------------------- MODULE ControlInet ----------------------------
(***************************************************************************)
(* The control program (control_thread_inet.c): one thread, one epoll set  *)
(* with standard input, the listening socket and the sensors that have     *)
(* connected.  Each sensor is asked for its role, each reading may end in  *)
(* update(), which commands the curtain motor.                             *)
(*                                                                         *)
(* No descriptor is ever closed, so that a connection is named by one.     *)
(***************************************************************************)
EXTENDS Integers, FiniteSets, Sequences, SequencesExt

CONSTANTS
  Sensors,     \* the descriptors accept() will return for sensors
  Readings,    \* visible light a sensor may report; negative ones are refused
  Mins, Maxs,  \* what a min or max command may leave the threshold at
  DefaultMin, DefaultMax

NoFd == 0

STDIN_FILENO == 0
ConnFd == -2       \* stands for the listening socket
NoConnection == -1 \* what a failed accept() returns

ASSUME ControlAssumption ==
  /\ IsFiniteSet(Sensors)
  /\ Sensors \cap {NoFd, ConnFd, NoConnection} = {}   \* descriptors of their own
  /\ Readings \subseteq Int
  /\ Mins \subseteq Int /\ Maxs \subseteq Int
  /\ DefaultMin \in Int /\ DefaultMax \in Int

VARIABLES
  \* the program
  alive,          \* FALSE once it has returned or SIGPIPE has killed it
  events,         \* what epoll_wait() reported and is not handled yet
  data_fd,        \* the sensor whose role is being asked for, or NoFd
  watched,        \* sensors in the epoll set
  indoor_fd, outdoor_fd,
  indoor, outdoor,            \* the readings in use
  indoor_tmp, outdoor_tmp,    \* the last ones received
  indoor_ready, outdoor_ready,
  min, max,
  light_on,
  motor_fd,       \* TRUE: connected to a motor
  \* the others
  link,           \* of each sensor: "none", "backlog", "open" or "closed"
  unread,         \* sensors that have sent a packet that was not read
  begun,          \* sensors that have sent the first part of another, and no more
  motor,          \* the motor's end: "up", "gone" or "reset"
  told,           \* the last command that reached the motor
  \* history
  asked,          \* roles that were ever given
  stale           \* of each sensor: how often a read that failed had its last
                  \* reading taken for a new one

roles    == <<indoor_fd, outdoor_fd>>
levels   == <<indoor, outdoor, indoor_tmp, outdoor_tmp>>
ready    == <<indoor_ready, outdoor_ready>>
limits   == <<min, max>>
motors   == <<motor_fd, motor, told>>
sensors  == <<link, unread, begun>>
history  == <<asked, stale>>
vars == <<alive, events, data_fd, watched, roles, levels, ready, limits, light_on,
          motors, sensors, history>>

-----------------------------------------------------------------------------
(* Sensors and motor.                                                      *)

SensorConnects(s) ==
  /\ link[s] = "none"
  /\ link' = [link EXCEPT ![s] = "backlog"]
  /\ UNCHANGED <<alive, events, data_fd, watched, roles, levels, ready, limits,
                 light_on, motors, unread, begun, history>>

\* What a packet says is settled when it is read.  It may arrive in two parts; the
\* first part of one behind an unread packet would change nothing yet.
SensorSends(s) ==
  /\ link[s] = "open"
  /\ \/ unread' = unread \cup {s} /\ begun' = begun \ {s}
     \/ s \notin unread /\ begun' = begun \cup {s} /\ UNCHANGED unread
  /\ UNCHANGED <<alive, events, data_fd, watched, roles, levels, ready, limits,
                 light_on, motors, link, history>>

SensorLeaves(s) ==
  /\ link[s] = "open"
  /\ link' = [link EXCEPT ![s] = "closed"]
  /\ UNCHANGED <<alive, events, data_fd, watched, roles, levels, ready, limits,
                 light_on, motors, unread, begun, history>>

MotorLeaves ==
  /\ motor_fd /\ motor = "up"
  /\ motor' = "gone"
  /\ UNCHANGED <<alive, events, data_fd, watched, roles, levels, ready, limits,
                 light_on, motor_fd, told, sensors, history>>

-----------------------------------------------------------------------------
(* epoll.                                                                  *)

In(fd) ==
  CASE fd = STDIN_FILENO -> TRUE
    [] fd = ConnFd       -> \E s \in Sensors : link[s] = "backlog"
    [] OTHER             -> /\ fd \in watched
                            /\ fd \in unread \cup begun \/ link[fd] = "closed"

Event(fd) == [fd |-> fd, in |-> TRUE, rdhup |-> fd \in watched /\ link[fd] = "closed"]

\* Everything ready is reported, in any order; a line may be there or not.
Batches ==
  LET sockets == {fd \in {ConnFd} \cup watched : In(fd)}
  IN  UNION {{b \in [1..Cardinality(fds) -> fds] : IsInjective(b)} :
               fds \in {sockets, sockets \cup {STDIN_FILENO}}} \ {<<>>}

AtWait == alive /\ events = <<>> /\ data_fd = NoFd

EpollWait ==
  /\ AtWait
  /\ \E b \in Batches : events' = [k \in DOMAIN b |-> Event(b[k])]
  /\ UNCHANGED <<alive, data_fd, watched, roles, levels, ready, limits, light_on,
                 motors, sensors, history>>

\* The event being handled, its EPOLLIN part before its EPOLLRDHUP part.
Handling(fd) ==
  /\ alive /\ data_fd = NoFd /\ events # <<>>
  /\ Head(events).fd = fd

InputHandled ==
  events' = IF Head(events).rdhup
              THEN <<[Head(events) EXCEPT !.in = FALSE]>> \o Tail(events)
              ELSE Tail(events)

-----------------------------------------------------------------------------
(* Standard input and connections.                                         *)

\* conn_socket() as it is written: inet_aton() returns 0 for what it does not
\* understand, and only then does the program go on to connect, to 0.0.0.0.
ConnSocket(host) == host = "name"

\* An old connection is neither told nor closed.
Motor(host) ==
  \/ /\ ConnSocket(host)
     /\ motor_fd' = TRUE /\ motor' = "up" /\ told' = "none"
  \/ /\ motor_fd' = FALSE /\ motor' = "gone" /\ told' = "none"

Command ==
  /\ Handling(STDIN_FILENO)
  /\ InputHandled
  /\ \/ \E v \in Mins : min' = v /\ UNCHANGED <<max, motors>>
     \/ \E v \in Maxs : max' = v /\ UNCHANGED <<min, motors>>
     \/ \E host \in {"address", "name"} : Motor(host) /\ UNCHANGED limits
     \/ UNCHANGED <<limits, motors>>       \* light, usage, unknown
  /\ UNCHANGED <<alive, data_fd, watched, roles, levels, ready, light_on, sensors,
                 history>>

\* From here to the answer the program does nothing else.  Before the first
\* connection addr_len is uninitialised, and accept() may drop what it accepts.
Accept(s) ==
  /\ Handling(ConnFd)
  /\ link[s] = "backlog"
  /\ \/ /\ data_fd' = s
        /\ link' = [link EXCEPT ![s] = "open"]
     \/ /\ asked = {}
        /\ data_fd' = NoConnection
        /\ link' = [link EXCEPT ![s] = "closed"]
  /\ UNCHANGED <<alive, events, watched, roles, levels, ready, limits, light_on,
                 motors, unread, begun, history>>

\* A sensor that had the role is neither dropped nor closed.  A descriptor that
\* is none cannot be added to the epoll set: the program returns.
Answer(role) ==
  /\ alive /\ data_fd # NoFd
  /\ IF role = "indoor"
       THEN indoor_fd' = data_fd /\ UNCHANGED outdoor_fd
       ELSE outdoor_fd' = data_fd /\ UNCHANGED indoor_fd
  /\ asked' = asked \cup {role}
  /\ alive' = (data_fd # NoConnection)
  /\ watched' = watched \cup ({data_fd} \ {NoConnection})
  /\ data_fd' = NoFd
  /\ InputHandled
  /\ UNCHANGED <<levels, ready, limits, light_on, motors, sensors, stale>>

-----------------------------------------------------------------------------
(* update(): what to tell the motor, and what becomes of the light.        *)

CommandFor(i, o) ==
  CASE i < min -> IF o > min THEN "raise" ELSE "none"
    [] i >= min /\ i > max -> IF ~light_on /\ o <= max THEN "lower" ELSE "none"
    [] OTHER -> "stop"

LightFor(i) == IF i < min THEN TRUE ELSE IF i > max THEN FALSE ELSE light_on

\* Without a motor only a stop is sent, and to standard input, which refuses it.
\* The first send to a motor that has gone may succeed; the next one kills.
Tell(command, result) ==
  \/ /\ command = "none"
     /\ result = "ok" /\ UNCHANGED motors
  \/ /\ command # "none" /\ ~motor_fd
     /\ result = IF command = "stop" THEN "error" ELSE "ok"
     /\ UNCHANGED motors
  \/ /\ command # "none" /\ motor_fd /\ motor = "up"
     /\ result = "ok"
     /\ told' = command /\ UNCHANGED <<motor_fd, motor>>
  \/ /\ command # "none" /\ motor_fd /\ motor = "gone"
     /\ result \in {"ok", "error"}
     /\ motor' = "reset" /\ UNCHANGED <<motor_fd, told>>
  \/ /\ command # "none" /\ motor_fd /\ motor = "reset"
     /\ result = "killed" /\ UNCHANGED motors

\* Mutant: update() does not wait for the other sensor.
Update_Impatient(i, o, inReady, outReady) ==
  \E result \in {"ok", "error", "killed"} :
    /\ Tell(CommandFor(i, o), result)
    /\ light_on' = IF result = "ok" THEN LightFor(i) ELSE light_on
    /\ indoor_ready' = (result # "ok") /\ outdoor_ready' = (result # "ok")
    /\ alive' = (result # "killed")

\* An error returns before the flags are reset.
Update(i, o, inReady, outReady) ==
  \/ /\ ~(inReady /\ outReady)
     /\ indoor_ready' = inReady /\ outdoor_ready' = outReady
     /\ UNCHANGED <<alive, light_on, motors>>
  \/ /\ inReady /\ outReady
     /\ \E result \in {"ok", "error", "killed"} :
          /\ Tell(CommandFor(i, o), result)
          /\ light_on' = IF result = "ok" THEN LightFor(i) ELSE light_on
          /\ indoor_ready' = (result # "ok") /\ outdoor_ready' = (result # "ok")
          /\ alive' = (result # "killed")

-----------------------------------------------------------------------------
(* Sensor events.                                                          *)

\* use_sensor(): recv() waits for a whole packet.  It fails when the sensor has
\* ended without one, and that is ignored: the last reading is still in the
\* temporary, where it is taken for a new one.
UseSensor(fd, tmp, received) ==
  \/ /\ fd \in unread
     /\ received \in Readings
     /\ unread' = unread \ {fd}
     /\ UNCHANGED stale
  \/ /\ fd \notin unread /\ link[fd] = "closed"
     /\ received = tmp
     /\ stale' = [stale EXCEPT ![fd] = @ + 1]
     /\ UNCHANGED unread

\* Mutant: the reading is not checked.
IndoorReading_Unchecked ==
  /\ indoor_fd # NoFd /\ Handling(indoor_fd) /\ Head(events).in
  /\ \E v \in Readings \cup {indoor_tmp} :
       /\ UseSensor(indoor_fd, indoor_tmp, v)
       /\ indoor_tmp' = v
       /\ indoor' = v
       /\ Update(v, outdoor, TRUE, outdoor_ready)
  /\ InputHandled
  /\ UNCHANGED <<data_fd, watched, roles, outdoor, outdoor_tmp, limits, link, begun,
                 asked>>

IndoorReading ==
  /\ indoor_fd # NoFd /\ Handling(indoor_fd) /\ Head(events).in
  /\ \E v \in Readings \cup {indoor_tmp} :
       /\ UseSensor(indoor_fd, indoor_tmp, v)
       /\ indoor_tmp' = v
       /\ \/ /\ v < 0
             /\ UNCHANGED <<alive, indoor, ready, light_on, motors>>
          \/ /\ v >= 0
             /\ indoor' = v
             /\ Update(v, outdoor, TRUE, outdoor_ready)
  /\ InputHandled
  /\ UNCHANGED <<data_fd, watched, roles, outdoor, outdoor_tmp, limits, link, begun,
                 asked>>

OutdoorReading ==
  /\ outdoor_fd \notin {NoFd, indoor_fd} /\ Handling(outdoor_fd) /\ Head(events).in
  /\ \E v \in Readings \cup {outdoor_tmp} :
       /\ UseSensor(outdoor_fd, outdoor_tmp, v)
       /\ outdoor_tmp' = v
       /\ \/ /\ v < 0
             /\ UNCHANGED <<alive, outdoor, ready, light_on, motors>>
          \/ /\ v >= 0
             /\ outdoor' = v
             /\ Update(indoor, v, indoor_ready, TRUE)
  /\ InputHandled
  /\ UNCHANGED <<data_fd, watched, roles, indoor, indoor_tmp, limits, link, begun,
                 asked>>

\* Mutant: the socket stays in the epoll set and keeps its role.
Disconnected_StaysWatched(fd) ==
  /\ fd \in Sensors /\ Handling(fd) /\ ~Head(events).in
  /\ indoor_fd' = indoor_fd /\ outdoor_fd' = outdoor_fd
  /\ events' = Tail(events)
  /\ UNCHANGED <<alive, data_fd, watched, levels, ready, limits, light_on, motors,
                 sensors, history>>

\* Mutant: the role is not reset.
Disconnected_KeepsRole(fd) ==
  /\ fd \in Sensors /\ Handling(fd) /\ ~Head(events).in
  /\ watched' = watched \ {fd}
  /\ events' = Tail(events)
  /\ UNCHANGED <<alive, data_fd, roles, levels, ready, limits, light_on, motors,
                 sensors, history>>

\* Only a sensor that has a role is taken out of the epoll set.
Disconnected(fd) ==
  /\ fd \in Sensors /\ Handling(fd) /\ ~Head(events).in
  /\ indoor_fd' = IF fd = indoor_fd THEN NoFd ELSE indoor_fd
  /\ outdoor_fd' = IF fd = outdoor_fd /\ fd # indoor_fd THEN NoFd ELSE outdoor_fd
  /\ watched' = IF fd \in {indoor_fd, outdoor_fd} THEN watched \ {fd} ELSE watched
  /\ events' = Tail(events)
  /\ UNCHANGED <<alive, data_fd, levels, ready, limits, light_on, motors, sensors,
                 history>>

\* A sensor whose role was given to another is never read again.
Ignored(fd) ==
  /\ fd \in Sensors \ {indoor_fd, outdoor_fd}
  /\ Handling(fd) /\ Head(events).in
  /\ InputHandled
  /\ UNCHANGED <<alive, data_fd, watched, roles, levels, ready, limits, light_on,
                 motors, sensors, history>>

-----------------------------------------------------------------------------

Init ==
  /\ alive = TRUE /\ events = <<>> /\ data_fd = NoFd /\ watched = {}
  /\ indoor_fd = NoFd /\ outdoor_fd = NoFd
  /\ indoor = 0 /\ outdoor = 0 /\ indoor_tmp = 0 /\ outdoor_tmp = 0
  /\ indoor_ready = FALSE /\ outdoor_ready = FALSE
  /\ min = DefaultMin /\ max = DefaultMax
  /\ light_on = FALSE
  /\ motor_fd = FALSE /\ motor = "gone" /\ told = "none"
  /\ link = [s \in Sensors |-> "none"]
  /\ unread = {} /\ begun = {}
  /\ asked = {} /\ stale = [s \in Sensors |-> 0]

Environment ==
  /\ alive
  /\ \/ \E s \in Sensors :
          SensorConnects(s) \/ SensorSends(s) \/ SensorLeaves(s)
     \/ MotorLeaves

Handle ==
  \/ Command
  \/ \E s \in Sensors : Accept(s) \/ Disconnected(s) \/ Ignored(s)
  \/ \E role \in {"indoor", "outdoor"} : Answer(role)
  \/ IndoorReading \/ OutdoorReading

Loop == Handle \/ EpollWait

\* The program was killed, or has returned.
Killed == ~alive /\ UNCHANGED vars

Next == Environment \/ Loop \/ Killed

Spec == Init /\ [][Next]_vars

-----------------------------------------------------------------------------
(* Properties.                                                             *)

\* Every variable has its type.
TypeOK ==
  /\ alive \in BOOLEAN
  /\ events \in Seq([fd : {STDIN_FILENO, ConnFd} \cup Sensors, in : BOOLEAN, rdhup : BOOLEAN])
  /\ watched \subseteq Sensors
  /\ {data_fd, indoor_fd, outdoor_fd} \subseteq Sensors \cup {NoFd, NoConnection}
  /\ indoor \in Nat /\ outdoor \in Nat
  /\ indoor_tmp \in Readings \cup {0} /\ outdoor_tmp \in Readings \cup {0}
  /\ indoor_ready \in BOOLEAN /\ outdoor_ready \in BOOLEAN
  /\ min \in Mins \cup {DefaultMin} /\ max \in Maxs \cup {DefaultMax}
  /\ light_on \in BOOLEAN
  /\ motor_fd \in BOOLEAN /\ motor \in {"up", "gone", "reset"}
  /\ told \in {"none", "raise", "lower", "stop"}
  /\ link \in [Sensors -> {"none", "backlog", "open", "closed"}]
  /\ unread \subseteq Sensors /\ begun \subseteq Sensors
  /\ asked \subseteq {"indoor", "outdoor"}
  /\ stale \in [Sensors -> Nat]

(***************************************************************************)
(* A sensor has one role at most, and a sensor with a role is in the epoll *)
(* set, through disconnections, replacements and the prompts between.      *)
(***************************************************************************)
RolesAreWatched ==
  alive =>
    /\ indoor_fd # NoFd => indoor_fd \in watched /\ indoor_fd # outdoor_fd
    /\ outdoor_fd # NoFd => outdoor_fd \in watched

(***************************************************************************)
(* The motor is commanded only when both sensors have been there, whatever *)
(* readings, thresholds, failures and disconnections came in between.      *)
(***************************************************************************)
NoCommandBeforeBoth == told # "none" => asked = {"indoor", "outdoor"}

(***************************************************************************)
(* Only a sensor that goes away has its last reading used again, and once: *)
(* the event that reports the end of data also takes it out of the set.    *)
(* One that ends in the middle of a packet has it used twice at most: the  *)
(* read that waited for the rest fails before that event.                  *)
(***************************************************************************)
StaleOnlyByLoss ==
  \A s \in Sensors :
    stale[s] <= CASE link[s] # "closed" -> 0
                  [] link[s] = "closed" /\ s \notin begun -> 1
                  [] OTHER -> 2

-----------------------------------------------------------------------------
(* What the program says of itself and does not do.                        *)

\* An update() that had both readings and returned SUCCESS.
Updated ==
  /\ indoor_ready \/ outdoor_ready
  /\ ~indoor_ready' /\ ~outdoor_ready'

(***************************************************************************)
(* control_thread_inet.c:46: the program controls the motor to maintain a  *)
(* light level between min and max.  A motor that is there is not left     *)
(* lowering the curtain when it is too dim inside.                         *)
(***************************************************************************)
NotLoweredWhenDim ==
  [][Updated /\ indoor' < min /\ motor_fd /\ motor = "up" => told' # "lower"]_vars
=============================================================================
