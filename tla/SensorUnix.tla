----------------------------- MODULE SensorUnix -----------------------------
(***************************************************************************)
(* The sensor program (sensor_thread_unix.c) with the sensor it reads      *)
(* (sensor_io.c): it connects, and then sends a packet every period in     *)
(* which the reading is not the one it sent last.  The network version     *)
(* differs in its socket only.                                             *)
(***************************************************************************)
EXTENDS LocalSockets

CONSTANTS
  Registers,    \* contents of the four data registers, least significant first
  CharIsSigned  \* is a plain char signed where the program is compiled?

Below(n) == {k \in Nat : k < n}

ASSUME SensorAssumption ==
  /\ Registers \subseteq [1..4 -> Below(256)]
  /\ CharIsSigned \in BOOLEAN

VARIABLES
  spc,          \* where each sensor program is
  packet,       \* the packet read last
  last_packet   \* the packet sent last

sensorVars == <<spc, packet, last_packet>>

\* What the variables hold before the first reading; `sent' tells it apart.
NoPacket == [full |-> 0, infrared |-> 0, visible |-> 0, sent |-> FALSE]

-----------------------------------------------------------------------------
(* read_sensor(): data_reg is an array of char.                            *)

Char(byte) == IF CharIsSigned /\ byte > 127 THEN byte - 256 ELSE byte

Word(lsb, msb) == Char(msb) * 256 + Char(lsb)

Decode(r) ==
  LET full     == Word(r[1], r[2])
      infrared == Word(r[3], r[4])
  IN  [full |-> full, infrared |-> infrared, visible |-> full - infrared, sent |-> TRUE]

Packets == {Decode(r) : r \in Registers}

Counts == Below(65536)

SensorTypeOK ==
  /\ spc \in [Sensors -> {"off", "first", "sleep", "send", "exited"}]
  /\ packet \in [Sensors -> Packets \cup {NoPacket}]
  /\ \A s \in Sensors : {packet[s].full, packet[s].infrared} \subseteq Counts
  /\ last_packet \in [Sensors -> Packets \cup {NoPacket}]

SensorInit ==
  /\ spc = [s \in Sensors |-> "off"]
  /\ packet = [s \in Sensors |-> NoPacket]
  /\ last_packet = [s \in Sensors |-> NoPacket]

Become(s, label) == spc' = [spc EXCEPT ![s] = label]

\* init_sensor() and conn_socket(); without a listener the program returns.
StartSensor(s) ==
  /\ spc[s] = "off"
  /\ CanConnect
  /\ conn_socket(s)
  /\ Become(s, "first")
  /\ UNCHANGED <<packet, last_packet>>

\* Mutant: every reading is sent.
Changed_Always(p, q) == TRUE

\* The first packet is sent whatever it is, later ones if the light changed.
Changed(p, q) == p.infrared # q.infrared \/ p.full # q.full

Read(s) ==
  /\ spc[s] \in {"first", "sleep"}
  /\ \E r \in Registers :
       /\ packet' = [packet EXCEPT ![s] = Decode(r)]
       /\ IF spc[s] = "first" \/ Changed(Decode(r), last_packet[s])
            THEN Become(s, "send")
            ELSE UNCHANGED spc
  /\ UNCHANGED <<last_packet, net>>

\* Mutant: last_packet is not brought up to date.
Remember_FirstOnly(s) ==
  last_packet' = IF last_packet[s].sent THEN last_packet
                                        ELSE [last_packet EXCEPT ![s] = packet[s]]

Remember(s) == last_packet' = [last_packet EXCEPT ![s] = packet[s]]

Send(s) ==
  /\ spc[s] = "send"
  /\ ~Broken(s)
  /\ HasRoom(s)
  /\ send_packet(s, packet[s])
  /\ Remember(s)
  /\ Become(s, "sleep")
  /\ UNCHANGED packet

\* SIGPIPE in send(), a read from the bus that fails, or a kill.
ExitSensor(s) ==
  /\ spc[s] \in {"first", "sleep", "send"}
  /\ CloseSensor(s)
  /\ Become(s, "exited")
  /\ packet' = [packet EXCEPT ![s] = NoPacket]
  /\ UNCHANGED last_packet

Sensor(s) == StartSensor(s) \/ Read(s) \/ Send(s) \/ ExitSensor(s)
=============================================================================
