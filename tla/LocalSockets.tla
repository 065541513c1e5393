---------------------------- MODULE LocalSockets ----------------------------
(***************************************************************************)
(* The local stream socket between the sensor programs and the control     *)
(* program (socket_unix.c), and what the kernel does behind it: a name in  *)
(* the file system that outlives the program that bound it, a backlog, and *)
(* one bounded channel per connection.  A sensor connects once in its      *)
(* life, so the sensor also names the connection.                          *)
(***************************************************************************)
EXTENDS Integers, Sequences, SequencesExt

CONSTANTS
  Sensors,   \* sensor programs; one that is started again is another member
  Capacity   \* packets the kernel buffers for a connection

ASSUME SocketAssumption == Capacity \in Nat \ {0}

VARIABLES
  path,     \* the socket's name: "absent", "listening", or "left" by the dead
  backlog,  \* connections that wait to be accepted
  conn,     \* each sensor's connection
  chan,     \* packets sent on it and not received
  closed    \* sensors whose end is closed

net == <<path, backlog, conn, chan, closed>>

NetTypeOK(Packets) ==
  /\ path \in {"absent", "listening", "left"}
  /\ \A k \in DOMAIN backlog : conn[backlog[k]] = "queued"
  /\ conn \in [Sensors -> {"none", "queued", "accepted", "reset"}]
  /\ \A s \in Sensors : chan[s] \in BoundedSeq(Packets, Capacity)
  /\ closed \subseteq Sensors

NetInit ==
  /\ path = "absent"
  /\ backlog = <<>>
  /\ conn = [s \in Sensors |-> "none"]
  /\ chan = [s \in Sensors |-> <<>>]
  /\ closed = {}

\* bind() fails while the name exists, whoever made it.
CanBind(name) == name = "absent"

\* connect() fails unless somebody listens; it does not wait for accept().
CanConnect == path = "listening"

conn_socket(s) ==
  /\ backlog' = Append(backlog, s)
  /\ conn' = [conn EXCEPT ![s] = "queued"]
  /\ UNCHANGED <<path, chan, closed>>

\* send() waits for room; into a connection whose peer is gone it kills.
Broken(s)  == conn[s] = "reset"
HasRoom(s) == Len(chan[s]) < Capacity

send_packet(s, packet) ==
  /\ chan' = [chan EXCEPT ![s] = Append(@, packet)]
  /\ UNCHANGED <<path, backlog, conn, closed>>

\* The sensor's end is closed when it exits; what it sent stays readable.
CloseSensor(s) ==
  /\ closed' = closed \cup {s}
  /\ UNCHANGED <<path, backlog, conn, chan>>

\* The control program dies: the name stays, the connections do not.
CloseControl ==
  /\ path' = "left"
  /\ backlog' = <<>>
  /\ conn' = [s \in Sensors |-> IF conn[s] = "none" THEN "none" ELSE "reset"]
  /\ chan' = [s \in Sensors |-> <<>>]
  /\ UNCHANGED closed
=============================================================================
