---------------------------- MODULE ControlUnix -----------------------------
(***************************************************************************)
(* The control program over local sockets (control_thread_unix.c): one     *)
(* epoll loop over standard input, the listening socket and the sensors it *)
(* accepted, and a prompt that asks the user which sensor each one is.     *)
(* update() commands no motor: it returns first.  It only keeps light_on.  *)
(*                                                                         *)
(* The branches for the indoor and the outdoor sensor are the same code    *)
(* and are modelled once, over the role.  A batch of events is a set: the  *)
(* kernel reports the ready files in an order nobody chooses, and          *)
(* MAX_EVENTS is more than there are files here.                           *)
(***************************************************************************)
EXTENDS LocalSockets

CONSTANTS
  DEFAULT_MIN, DEFAULT_MAX,
  Limits,       \* values the user gives with min and max
  MaxControls   \* bound: how often the program is started

Roles == {"indoor", "outdoor"}
Other == "other"   \* any character that is neither symbol
NoFd  == "0"
NoConnection == "-1"   \* what a failed accept() returns

ASSUME ControlAssumption ==
  /\ {DEFAULT_MIN, DEFAULT_MAX} \cup Limits \subseteq Int
  /\ MaxControls \in Nat
  \* Descriptors of their own:
  /\ Sensors \cap {NoFd, NoConnection, "stdin", "listener"} = {}

VARIABLES
  cpc,          \* where the program is
  batch,        \* events of the last epoll_wait() not looked at yet
  role_fd,      \* indoor_fd and outdoor_fd
  data_tmp,     \* indoor_tmp and outdoor_tmp
  data,         \* indoor and outdoor
  min, max,
  light_on,
  data_fd,      \* the connection the prompt asks about
  sensor_type,  \* the character scanf("%c") stored last
  stdin,        \* "open" or "eof"
  controls,     \* counts the starts, for MaxControls
  judged        \* history: update() ran since the limits were last set

values      == <<role_fd, data_tmp, data, light_on, judged>>
limits      == <<min, max>>
prompt      == <<data_fd, sensor_type, stdin>>
controlVars == <<cpc, batch, values, limits, prompt, controls>>

Up == cpc \notin {"off", "failed"}

ControlTypeOK ==
  /\ cpc \in {"off", "failed", "wait", "batch", "scanf", "prompt"}
  /\ role_fd \in [Roles -> Sensors \cup {NoFd}]
  /\ \A r \in Roles : data_tmp[r] \in Int /\ data[r] \in Nat
  /\ light_on \in BOOLEAN /\ judged \in BOOLEAN
  /\ data_fd \in Sensors \cup {NoFd, NoConnection}
  /\ sensor_type \in Roles \cup {Other}
  /\ stdin \in {"open", "eof"}
  /\ controls \in 0 .. MaxControls

NoRoles == [r \in Roles |-> NoFd]
Zeroes  == [r \in Roles |-> 0]

ControlInit ==
  /\ role_fd = NoRoles
  /\ data_tmp = Zeroes /\ data = Zeroes
  /\ min = DEFAULT_MIN /\ max = DEFAULT_MAX
  /\ light_on = FALSE /\ judged = FALSE
  /\ batch = {} /\ data_fd = NoFd
  /\ cpc = "off"
  /\ sensor_type = Other
  /\ stdin = "open"
  /\ controls = 0

\* unlink(), whose result is ignored and which may leave the name in place, then
\* init_socket(), which then fails.  sensor_type is not initialised.
StartControl ==
  /\ cpc \in {"off", "failed"}
  /\ controls < MaxControls
  /\ controls' = controls + 1
  /\ \E name \in {"absent", path} :
       IF CanBind(name) THEN cpc' = "wait" /\ path' = "listening"
                        ELSE cpc' = "failed" /\ path' = name
  /\ sensor_type' \in Roles \cup {Other}
  /\ UNCHANGED <<batch, values, limits, data_fd, stdin, backlog, conn, chan, closed>>

\* What it knew dies with it, and so does the terminal it read from.
ControlEnds ==
  /\ cpc' = "off"
  /\ role_fd' = NoRoles
  /\ data_tmp' = Zeroes /\ data' = Zeroes
  /\ min' = DEFAULT_MIN /\ max' = DEFAULT_MAX
  /\ light_on' = FALSE /\ judged' = FALSE
  /\ batch' = {} /\ data_fd' = NoFd
  /\ sensor_type' = Other /\ stdin' = "open"
  /\ CloseControl
  /\ UNCHANGED controls

KillControl == Up /\ ControlEnds

-----------------------------------------------------------------------------
StdinEvent  == [file |-> "stdin", rdhup |-> FALSE]
ListenEvent == [file |-> "listener", rdhup |-> FALSE]
DataEvent(s) == [file |-> s, rdhup |-> s \in closed]

\* A descriptor stays in the epoll set for ever; a closed peer is readable.
Ready ==
  (IF backlog # <<>> THEN {ListenEvent} ELSE {})
  \cup {DataEvent(s) : s \in {t \in Sensors : conn[t] = "accepted" /\ (chan[t] # <<>> \/ t \in closed)}}

\* The user may have typed; the end of standard input is always readable.
Wait ==
  /\ cpc = "wait"
  /\ batch' \in {Ready, Ready \cup {StdinEvent}} \ {{}}
  /\ stdin = "eof" => StdinEvent \in batch'
  /\ cpc' = "batch"
  /\ UNCHANGED <<values, limits, prompt, controls, net>>

\* Mutant: only one event of a batch is looked at.
Take_OnlyOne(e) == cpc = "batch" /\ e \in batch /\ batch' = {}

Take(e) == cpc = "batch" /\ e \in batch /\ batch' = batch \ {e}

NextEvent == cpc' = IF batch' = {} THEN "wait" ELSE "batch"

\* scanf("%ms %d") waits for both words, on as many lines as it takes.
Command ==
  /\ Take(StdinEvent)
  /\ IF stdin = "eof" THEN NextEvent ELSE cpc' = "scanf"
  /\ UNCHANGED <<values, limits, prompt, controls, net>>

Typed ==
  /\ cpc = "scanf"
  /\ UNCHANGED batch
  /\ \/ \E v \in Limits : min' = v /\ judged' = FALSE /\ UNCHANGED <<max, stdin>>
     \/ \E v \in Limits : max' = v /\ judged' = FALSE /\ UNCHANGED <<min, stdin>>
     \/ stdin' \in {"open", "eof"} /\ UNCHANGED <<limits, judged>>
  /\ NextEvent
  /\ UNCHANGED <<role_fd, data_tmp, data, light_on, data_fd, sensor_type, controls, net>>

\* Until a first connection has set addr_len it is uninitialised, and accept() may
\* drop what it accepts.
Accept ==
  /\ Take(ListenEvent)
  /\ backlog' = Tail(backlog)
  /\ LET s == Head(backlog) IN
       \/ /\ data_fd' = s
          /\ conn' = [conn EXCEPT ![s] = "accepted"]
          /\ UNCHANGED chan
       \/ /\ \A t \in Sensors : conn[t] # "accepted"
          /\ data_fd' = NoConnection
          /\ conn' = [conn EXCEPT ![s] = "reset"]
          /\ chan' = [chan EXCEPT ![s] = <<>>]
  /\ cpc' = "prompt"
  /\ UNCHANGED <<values, limits, sensor_type, stdin, controls, path, closed>>

\* Mutant: a prompt cut short by the end of input is asked again for good.
GivesRole_NotAtEof(char) == char \in Roles /\ stdin' = "open"

GivesRole(char) == char \in Roles

\* One scanf("%c"); at the end of input it stores nothing.
Scanned(char) ==
  /\ IF stdin = "open" THEN stdin' \in {"open", "eof"} ELSE UNCHANGED stdin
  /\ stdin' = "eof" => char = sensor_type
  /\ sensor_type' = char

\* A descriptor that is none cannot be added to the epoll set: the program returns.
Answer(char) ==
  /\ cpc = "prompt"
  /\ \/ /\ Scanned(char)
        /\ UNCHANGED batch
        /\ IF GivesRole(char)
             THEN /\ data_fd # NoConnection
                  /\ role_fd' = [role_fd EXCEPT ![char] = data_fd]
                  /\ data_fd' = NoFd
                  /\ NextEvent
             ELSE UNCHANGED <<role_fd, data_fd, cpc>>
        /\ UNCHANGED <<data_tmp, data, light_on, judged, limits, controls, net>>
     \/ /\ data_fd = NoConnection
        /\ stdin = "open" \/ char = sensor_type
        /\ ControlEnds
        /\ GivesRole(char)

-----------------------------------------------------------------------------
\* update(): dim inside, the light goes on unless the curtain would help.
\* Mutant: the curtain is thought of only when the light is on.
Judge_LightFirst(indoor, outdoor) ==
  CASE indoor < min -> light_on \/ outdoor > min
    [] indoor >= min /\ indoor > max -> FALSE
    [] OTHER -> light_on

Judge(indoor, outdoor) ==
  CASE indoor < min -> light_on \/ outdoor <= min
    [] indoor >= min /\ indoor > max -> FALSE
    [] OTHER -> light_on

\* Mutant: a negative reading is not refused.
Accepted_Any(value) == TRUE

Accepted(value) == value >= 0

\* use_sensor(): at the end of the connection data_tmp stays what it was, and
\* is used once more.
UseSensor(s, r) ==
  /\ data_tmp' = IF chan[s] # <<>> THEN [data_tmp EXCEPT ![r] = Head(chan[s]).visible]
                                   ELSE data_tmp
  /\ chan' = [chan EXCEPT ![s] = IF @ # <<>> THEN Tail(@) ELSE @]
  /\ IF Accepted(data_tmp'[r])
       THEN /\ data' = [data EXCEPT ![r] = data_tmp'[r]]
            /\ light_on' = Judge(data'["indoor"], data'["outdoor"])
            /\ judged' = TRUE
       ELSE UNCHANGED <<data, light_on, judged>>

\* EPOLLIN, and then EPOLLRDHUP, which ends the role but not the watching.
SensorEvent(s, r) ==
  /\ \E e \in batch :
       /\ e.file = s
       /\ Take(e)
       /\ role_fd[r] = s
       /\ UseSensor(s, r)
       /\ role_fd' = IF e.rdhup THEN [role_fd EXCEPT ![r] = NoFd] ELSE role_fd
  /\ NextEvent
  /\ UNCHANGED <<limits, prompt, controls, path, backlog, conn, closed>>

\* Nobody reads a sensor whose role was given away, or has ended.
IgnoredEvent(s) ==
  /\ \E e \in batch : e.file = s /\ Take(e)
  /\ \A r \in Roles : role_fd[r] # s
  /\ NextEvent
  /\ UNCHANGED <<values, limits, prompt, controls, net>>

Loop ==
  \/ Wait \/ Command \/ Accept
  \/ \E s \in Sensors : IgnoredEvent(s) \/ \E r \in Roles : SensorEvent(s, r)

User == Typed \/ \E char \in Roles \cup {Other} : Answer(char)

Control == StartControl \/ Loop \/ User \/ KillControl
=============================================================================
