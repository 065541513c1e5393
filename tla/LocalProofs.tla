----------------------------- MODULE LocalProofs ----------------------------
(***************************************************************************)
(* Theorems about the sensor programs and the control program that are     *)
(* joined by a local socket, for any sensors, registers, limits, capacity  *)
(* and number of restarts, and that together they implement ChangeFeed.    *)
(***************************************************************************)
EXTENDS LocalSystem, TLAPS

-----------------------------------------------------------------------------
(* The inductive invariant.                                                *)

EventSet == [file : {"stdin", "listener"} \cup Sensors, rdhup : BOOLEAN]

\* Types; the range of the counts is left out, as it needs unsigned characters.
TypeInv ==
  /\ path \in {"absent", "listening", "left"}
  /\ backlog \in Seq(Sensors)
  /\ conn \in [Sensors -> {"none", "queued", "accepted", "reset"}]
  /\ chan \in [Sensors -> Seq(Packets)]
  /\ \A s \in Sensors : Len(chan[s]) <= Capacity
  /\ closed \subseteq Sensors
  /\ spc \in [Sensors -> {"off", "first", "sleep", "send", "exited"}]
  /\ packet \in [Sensors -> Packets \cup {NoPacket}]
  /\ last_packet \in [Sensors -> Packets \cup {NoPacket}]
  /\ ControlTypeOK
  /\ data_tmp \in [Roles -> Int] /\ data \in [Roles -> Nat]
  /\ min \in Int /\ max \in Int
  /\ batch \subseteq EventSet

\* A sensor has no connection before it starts and has sent nothing before its
\* first reading; what it is about to send is not what it sent last.
SensorInv ==
  \A s \in Sensors :
    /\ conn[s] = "none" <=> spc[s] = "off"
    /\ spc[s] = "off" => chan[s] = <<>>
    /\ spc[s] \in {"off", "first"} => last_packet[s] = NoPacket
    /\ spc[s] = "send" => packet[s] \in Packets /\ packet[s] # last_packet[s]

\* Each connection waits once, and while the listener's event does, so does one.
BacklogInv ==
  /\ \A j, k \in DOMAIN backlog : backlog[j] = backlog[k] => j = k
  /\ \A k \in DOMAIN backlog : conn[backlog[k]] = "queued"
  /\ ListenEvent \in batch => backlog # <<>>

\* The prompt is about an accepted connection that has no role yet, if it is about
\* one; those that have a role were accepted, and none has both.
RoleInv ==
  /\ cpc = "prompt" /\ data_fd # NoConnection =>
       /\ data_fd \in Sensors /\ conn[data_fd] = "accepted"
       /\ \A r \in Roles : role_fd[r] # data_fd
  /\ cpc # "prompt" => data_fd = NoFd
  /\ \A r \in Roles : role_fd[r] # NoFd => conn[role_fd[r]] = "accepted"
  /\ role_fd["indoor"] = role_fd["outdoor"] => role_fd["indoor"] = NoFd

\* Nothing that was sent on a connection nobody has read is missing.
UnreadInv ==
  \A s \in Sensors :
    (conn[s] \in {"none", "queued"} \/ s = data_fd) /\ last_packet[s] # NoPacket
      => chan[s] # <<>> /\ Last(chan[s]) = last_packet[s]

Inv ==
  /\ TypeInv /\ SensorInv /\ BacklogInv /\ RoleInv /\ UnreadInv
  /\ KnownOrUnread /\ LightFollowsReadings

-----------------------------------------------------------------------------
(* Lemmas about packets and channels.                                      *)

\* A reading that was decoded is a packet, and never the one before the first.
LEMMA PacketFacts ==
  /\ \A r \in Registers : Decode(r) \in Packets
  /\ \A p \in Packets : p # NoPacket /\ p.visible \in Int
<1>1. \A r \in Registers : Decode(r) \in Packets
  BY DEF Packets
<1>2. ASSUME NEW r \in Registers PROVE Decode(r) # NoPacket /\ Decode(r).visible \in Int
  <2>1. r \in [1..4 -> Below(256)]
    BY SensorAssumption
  <2>2. /\ Char(r[1]) \in Int /\ Char(r[2]) \in Int
        /\ Char(r[3]) \in Int /\ Char(r[4]) \in Int
    BY <2>1 DEF Char, Below
  <2>3. Word(r[1], r[2]) \in Int /\ Word(r[3], r[4]) \in Int
    BY <2>2 DEF Word
  <2>4. QED
    BY <2>3 DEF Decode, NoPacket
<1>3. QED
  BY <1>1, <1>2 DEF Packets

\* With an unsigned char both counts are those of 16-bit registers.
LEMMA PacketRange ==
  ASSUME ~CharIsSigned
  PROVE  \A p \in Packets : p.full \in Counts /\ p.infrared \in Counts
<1>1. ASSUME NEW lsb \in Below(256), NEW msb \in Below(256)
      PROVE  Word(lsb, msb) \in Counts
  BY <1>1 DEF Word, Char, Below, Counts
<1>2. ASSUME NEW r \in Registers
      PROVE  Decode(r).full \in Counts /\ Decode(r).infrared \in Counts
  <2>1. r \in [1..4 -> Below(256)]
    BY SensorAssumption
  <2>2. Decode(r).full = Word(r[1], r[2]) /\ Decode(r).infrared = Word(r[3], r[4])
    BY DEF Decode
  <2>3. QED
    BY <1>1, <2>1, <2>2
<1>3. QED
  BY <1>2 DEF Packets

\* What is sent is the last thing in the channel.
LEMMA AppendLast ==
  ASSUME NEW S, NEW c \in Seq(S), NEW x \in S
  PROVE  /\ Append(c, x) \in Seq(S) /\ Append(c, x) # <<>>
         /\ Last(Append(c, x)) = x /\ Len(Append(c, x)) = Len(c) + 1
  BY DEF Last

\* What is received was the last thing in the channel if nothing is left.
LEMMA TailLast ==
  ASSUME NEW S, NEW c \in Seq(S), c # <<>>
  PROVE  /\ Head(c) \in S /\ Tail(c) \in Seq(S) /\ Len(Tail(c)) = Len(c) - 1
         /\ Last(c) = IF Tail(c) = <<>> THEN Head(c) ELSE Last(Tail(c))
<1>1. /\ Head(c) \in S /\ Head(c) = c[1] /\ Tail(c) \in Seq(S)
      /\ Len(Tail(c)) = Len(c) - 1 /\ Len(c) \in Nat \ {0}
  OBVIOUS
<1>2. CASE Tail(c) = <<>>
  <2>1. Len(c) = 1
    BY <1>1, <1>2
  <2>2. QED
    BY <1>1, <1>2, <2>1 DEF Last
<1>3. CASE Tail(c) # <<>>
  <2>1. Len(Tail(c)) \in Nat \ {0}
    BY <1>1, <1>3
  <2>2. Tail(c)[Len(Tail(c))] = c[Len(Tail(c)) + 1]
    BY <1>1, <2>1
  <2>3. QED
    BY <1>1, <1>3, <2>1, <2>2 DEF Last
<1>4. QED
  BY <1>2, <1>3

\* The first connection that waits, and those that still do.
LEMMA BacklogTail ==
  ASSUME TypeInv, BacklogInv, backlog # <<>>
  PROVE  /\ Head(backlog) \in Sensors /\ conn[Head(backlog)] = "queued"
         /\ Tail(backlog) \in Seq(Sensors)
         /\ \A j, k \in DOMAIN Tail(backlog) :
               Tail(backlog)[j] = Tail(backlog)[k] => j = k
         /\ \A k \in DOMAIN Tail(backlog) :
              /\ Tail(backlog)[k] # Head(backlog)
              /\ conn[Tail(backlog)[k]] = "queued"
<1>1. backlog \in Seq(Sensors)
  BY DEF TypeInv
<1>2. /\ 1 \in DOMAIN backlog /\ Head(backlog) = backlog[1] /\ backlog[1] \in Sensors
      /\ Tail(backlog) \in Seq(Sensors) /\ DOMAIN Tail(backlog) \subseteq Nat \ {0}
      /\ \A k \in DOMAIN Tail(backlog) :
           k + 1 \in DOMAIN backlog /\ Tail(backlog)[k] = backlog[k + 1]
  BY <1>1
<1>3. QED
  BY <1>2 DEF BacklogInv

-----------------------------------------------------------------------------
(* The steps.                                                              *)

\* Nobody has started: no connections, packets, roles or readings.
LEMMA InitInv == Init => Inv
<1> SUFFICES ASSUME Init PROVE Inv
  OBVIOUS
<1> USE SensorAssumption, ControlAssumption, SocketAssumption
    DEF Init, NetInit, SensorInit, ControlInit, NoRoles, Zeroes
<1>1. TypeInv
  <2>1. /\ backlog \in Seq(Sensors) /\ chan \in [Sensors -> Seq(Packets)]
        /\ \A s \in Sensors : Len(chan[s]) <= Capacity
    OBVIOUS
  <2>2. ControlTypeOK
    <3>1. role_fd \in [Roles -> Sensors \cup {NoFd}]
      OBVIOUS
    <3>2. \A r \in Roles : data_tmp[r] \in Int /\ data[r] \in Nat
      OBVIOUS
    <3>3. controls \in 0 .. MaxControls
      OBVIOUS
    <3>4. QED
      BY <3>1, <3>2, <3>3 DEF ControlTypeOK
  <2>3. /\ data_tmp \in [Roles -> Int] /\ data \in [Roles -> Nat]
        /\ min \in Int /\ max \in Int
    OBVIOUS
  <2>4. QED
    BY <2>1, <2>2, <2>3 DEF TypeInv
<1>2. SensorInv /\ BacklogInv /\ RoleInv /\ UnreadInv
  BY DEF SensorInv, BacklogInv, RoleInv, UnreadInv, Roles
<1>3. KnownOrUnread /\ LightFollowsReadings
  BY DEF KnownOrUnread, LightFollowsReadings, NoRoles
<1>4. QED
  BY <1>1, <1>2, <1>3 DEF Inv

\* A sensor that starts joins the backlog; a packet it sends becomes the last.
LEMMA SensorStep ==
  ASSUME Inv, NEW s \in Sensors, Sensor(s), UNCHANGED controlVars
  PROVE  Inv'
<1> USE SensorAssumption, ControlAssumption, SocketAssumption
    DEF Inv, net, sensorVars, controlVars, values, limits, prompt
<1>0. LightFollowsReadings'
  BY DEF LightFollowsReadings
<1>1. CASE StartSensor(s)
  <2> USE <1>1 DEF StartSensor, conn_socket, Become
  <2>1. backlog \in Seq(Sensors) /\ conn[s] = "none"
    BY DEF TypeInv, SensorInv
  <2>2. /\ backlog' \in Seq(Sensors) /\ backlog' # <<>>
        /\ DOMAIN backlog' = 1..(Len(backlog) + 1) /\ DOMAIN backlog = 1..Len(backlog)
        /\ \A k \in 1..Len(backlog) : backlog'[k] = backlog[k]
        /\ backlog'[Len(backlog) + 1] = s /\ Len(backlog) \in Nat
    BY <2>1
  <2>3. TypeInv'
    BY <2>2 DEF TypeInv, ControlTypeOK
  <2>4. SensorInv'
    BY DEF SensorInv, TypeInv
  <2>5. BacklogInv'
    <3>1. \A k \in 1..Len(backlog) : backlog[k] # s /\ conn'[backlog[k]] = "queued"
      <4>1. \A k \in 1..Len(backlog) :
              conn[backlog[k]] = "queued" /\ backlog[k] \in Sensors
        <5>1. \A k \in DOMAIN backlog : conn[backlog[k]] = "queued"
          BY DEF BacklogInv
        <5>2. \A k \in DOMAIN backlog : backlog[k] \in Sensors
          BY <2>1
        <5>3. QED
          BY <2>2, <5>1, <5>2
      <4>2. \A t \in Sensors \ {s} : conn'[t] = conn[t]
        BY DEF TypeInv
      <4>3. QED
        BY <2>1, <4>1, <4>2
    <3>2. conn'[s] = "queued"
      BY DEF TypeInv
    <3>3. \A k \in DOMAIN backlog' : k \in 1..Len(backlog) \/ k = Len(backlog) + 1
      BY <2>2
    <3>4. \A k \in DOMAIN backlog' : conn'[backlog'[k]] = "queued"
      BY <2>2, <3>1, <3>2, <3>3
    <3>5. \A j, k \in DOMAIN backlog' : backlog'[j] = backlog'[k] => j = k
      BY <2>2, <3>1, <3>3 DEF BacklogInv
    <3>6. QED
      BY <2>2, <3>4, <3>5 DEF BacklogInv
  <2>6. RoleInv'
    BY <2>1 DEF RoleInv, TypeInv, ControlTypeOK
  <2>7. UnreadInv' /\ KnownOrUnread'
    BY <2>1 DEF UnreadInv, KnownOrUnread, TypeInv
  <2>8. QED
    BY <1>0, <2>3, <2>4, <2>5, <2>6, <2>7
<1>2. CASE Read(s)
  <2> USE <1>2 DEF Read, Become
  <2>1. PICK r \in Registers :
          /\ packet' = [packet EXCEPT ![s] = Decode(r)]
          /\ IF spc[s] = "first" \/ Changed(Decode(r), last_packet[s])
               THEN spc' = [spc EXCEPT ![s] = "send"]
               ELSE UNCHANGED spc
    OBVIOUS
  <2>2. Decode(r) \in Packets /\ Decode(r) # NoPacket
    BY PacketFacts
  <2>3. TypeInv'
    <3>1. ControlTypeOK'
      BY DEF TypeInv, ControlTypeOK
    <3>2. /\ packet' \in [Sensors -> Packets \cup {NoPacket}]
          /\ spc' \in [Sensors -> {"off", "first", "sleep", "send", "exited"}]
      BY <2>1, <2>2 DEF TypeInv
    <3>3. QED
      BY <3>1, <3>2 DEF TypeInv
  <2>4. SensorInv'
    BY <2>1, <2>2 DEF SensorInv, TypeInv, Changed
  <2>5. BacklogInv' /\ RoleInv' /\ UnreadInv' /\ KnownOrUnread'
    BY DEF BacklogInv, RoleInv, UnreadInv, KnownOrUnread
  <2>6. QED
    BY <1>0, <2>3, <2>4, <2>5
<1>3. CASE Send(s)
  <2> USE <1>3 DEF Send, send_packet, Remember, Become, HasRoom
  <2>1. chan[s] \in Seq(Packets) /\ packet[s] \in Packets
    BY DEF TypeInv, SensorInv
  <2>2. /\ chan'[s] \in Seq(Packets) /\ chan'[s] # <<>> /\ Last(chan'[s]) = packet[s]
        /\ Len(chan'[s]) = Len(chan[s]) + 1 /\ last_packet'[s] = packet[s]
        /\ Len(chan[s]) \in Nat
    <3>1. chan'[s] = Append(chan[s], packet[s]) /\ last_packet'[s] = packet[s]
      BY DEF TypeInv
    <3>2. QED
      BY <2>1, <3>1, AppendLast
  <2>3. /\ chan' \in [Sensors -> Seq(Packets)] /\ Len(chan'[s]) <= Capacity
        /\ \A t \in Sensors \ {s} : chan'[t] = chan[t] /\ last_packet'[t] = last_packet[t]
    BY <2>1, <2>2 DEF TypeInv
  <2>4. TypeInv'
    BY <2>1, <2>3 DEF TypeInv, ControlTypeOK
  <2>5. SensorInv'
    BY <2>3 DEF SensorInv, TypeInv
  <2>6. BacklogInv' /\ RoleInv'
    BY DEF BacklogInv, RoleInv
  <2>7. UnreadInv' /\ KnownOrUnread'
    BY <2>2, <2>3 DEF UnreadInv, KnownOrUnread
  <2>8. QED
    BY <1>0, <2>4, <2>5, <2>6, <2>7
<1>4. CASE ExitSensor(s)
  <2> USE <1>4 DEF ExitSensor, CloseSensor, Become
  <2>1. TypeInv' /\ SensorInv'
    BY DEF TypeInv, ControlTypeOK, SensorInv
  <2>2. BacklogInv' /\ RoleInv' /\ UnreadInv' /\ KnownOrUnread'
    BY DEF BacklogInv, RoleInv, UnreadInv, KnownOrUnread
  <2>3. QED
    BY <1>0, <2>1, <2>2
<1>5. QED
  BY <1>1, <1>2, <1>3, <1>4 DEF Sensor

\* update() leaves the light as LightFollowsReadings says, on readings in use.
LEMMA UseSensorEffect ==
  ASSUME TypeInv, LightFollowsReadings, NEW s \in Sensors, NEW r \in Roles,
         UseSensor(s, r), UNCHANGED limits
  PROVE  /\ data_tmp' \in [Roles -> Int] /\ data' \in [Roles -> Nat]
         /\ chan' \in [Sensors -> Seq(Packets)]
         /\ \A t \in Sensors : Len(chan'[t]) <= Len(chan[t])
         /\ \A t \in Sensors \ {s} : chan'[t] = chan[t]
         /\ chan[s] = <<>> => UNCHANGED <<data_tmp, chan>>
         /\ chan[s] # <<>> =>
              /\ data_tmp' = [data_tmp EXCEPT ![r] = Head(chan[s]).visible]
              /\ chan' = [chan EXCEPT ![s] = Tail(@)]
         /\ light_on' \in BOOLEAN /\ judged' \in BOOLEAN /\ LightFollowsReadings'
<1> USE DEF UseSensor, limits
<1>1. chan[s] # <<>> =>
        /\ Head(chan[s]) \in Packets /\ Tail(chan[s]) \in Seq(Packets)
        /\ Len(Tail(chan[s])) = Len(chan[s]) - 1
  BY TailLast DEF TypeInv
<1>2. \A t \in Sensors : chan[t] \in Seq(Packets) /\ Len(chan[t]) \in Nat
  BY DEF TypeInv
<1>3. /\ chan[s] = <<>> => UNCHANGED <<data_tmp, chan>>
      /\ chan[s] # <<>> =>
           /\ data_tmp' = [data_tmp EXCEPT ![r] = Head(chan[s]).visible]
           /\ chan' = [chan EXCEPT ![s] = Tail(@)]
  BY DEF TypeInv
<1>4. data_tmp' \in [Roles -> Int]
  BY <1>1, <1>3, PacketFacts DEF TypeInv
<1>5. /\ chan' \in [Sensors -> Seq(Packets)]
      /\ \A t \in Sensors : Len(chan'[t]) <= Len(chan[t])
      /\ \A t \in Sensors \ {s} : chan'[t] = chan[t]
  BY <1>1, <1>2, <1>3 DEF TypeInv
<1>6. data' \in [Roles -> Nat] /\ judged' \in BOOLEAN
  <2>1. data \in [Roles -> Nat] /\ judged \in BOOLEAN
    BY DEF TypeInv, ControlTypeOK
  <2>2. CASE Accepted(data_tmp'[r])
    <3>1. data_tmp'[r] \in Nat
      BY <1>4, <2>2 DEF Accepted
    <3>2. data' = [data EXCEPT ![r] = data_tmp'[r]] /\ judged' = TRUE
      BY <2>2
    <3>3. QED
      BY <2>1, <3>1, <3>2
  <2>3. CASE ~Accepted(data_tmp'[r])
    BY <2>1, <2>3
  <2>4. QED
    BY <2>2, <2>3
<1>7. light_on' \in BOOLEAN /\ LightFollowsReadings'
  <2>1. data'["indoor"] \in Int /\ data'["outdoor"] \in Int /\ min \in Int /\ max \in Int
    BY <1>6 DEF Roles, TypeInv
  <2>2. light_on \in BOOLEAN
    BY DEF TypeInv, ControlTypeOK
  <2>3. CASE Accepted(data_tmp'[r])
    <3>1. light_on' = Judge(data'["indoor"], data'["outdoor"])
      BY <2>3
    <3>2. QED
      <4> DEFINE i == data'["indoor"]
                 o == data'["outdoor"]
      <4>1. i < min /\ o <= min => Judge(i, o) = TRUE
        BY <2>1 DEF Judge
      <4>2. i >= min /\ i > max => Judge(i, o) = FALSE
        BY <2>1 DEF Judge
      <4>3. Judge(i, o) \in BOOLEAN
        BY <2>1, <2>2 DEF Judge
      <4>4. QED
        BY <3>1, <4>1, <4>2, <4>3 DEF LightFollowsReadings
  <2>4. CASE ~Accepted(data_tmp'[r])
    BY <2>2, <2>4 DEF LightFollowsReadings
  <2>5. QED
    BY <2>3, <2>4
<1>8. QED
  BY <1>3, <1>4, <1>5, <1>6, <1>7

\* An event that waits is of a file of its own.
LEMMA EventFiles ==
  /\ StdinEvent \in EventSet /\ ListenEvent \in EventSet /\ StdinEvent # ListenEvent
  /\ \A s \in Sensors : DataEvent(s) \in EventSet /\ DataEvent(s) # ListenEvent
  /\ \A s \in Sensors : s # NoFd /\ s # NoConnection
<1>1. \A s \in Sensors : s # "listener" /\ s # NoFd /\ s # NoConnection
  BY ControlAssumption
<1>2. QED
  BY <1>1 DEF EventSet, StdinEvent, ListenEvent, DataEvent

\* What is left when the control program is gone.
LEMMA EndsInv ==
  ASSUME Inv, ControlEnds, UNCHANGED sensorVars
  PROVE  Inv'
<1> USE SensorAssumption, ControlAssumption, SocketAssumption
    DEF Inv, sensorVars, limits, ControlEnds, CloseControl, NoRoles, Zeroes
<1>1. TypeInv'
  <2>1. /\ backlog' \in Seq(Sensors) /\ chan' \in [Sensors -> Seq(Packets)]
        /\ conn' \in [Sensors -> {"none", "queued", "accepted", "reset"}]
        /\ \A s \in Sensors : Len(chan'[s]) <= Capacity
    OBVIOUS
  <2>2. /\ role_fd' \in [Roles -> Sensors \cup {NoFd}]
        /\ data_tmp' \in [Roles -> Int] /\ data' \in [Roles -> Nat]
        /\ min' \in Int /\ max' \in Int
    OBVIOUS
  <2>3. ControlTypeOK'
    BY <2>2 DEF TypeInv, ControlTypeOK
  <2>4. QED
    BY <2>1, <2>2, <2>3 DEF TypeInv
<1>2. SensorInv' /\ BacklogInv'
  BY DEF SensorInv, BacklogInv, TypeInv
<1>3. \A r \in Roles : role_fd'[r] = NoFd
  OBVIOUS
<1>4. RoleInv'
  BY <1>3 DEF RoleInv, Roles
<1>5. UnreadInv'
  BY EventFiles DEF UnreadInv, SensorInv
<1>6. KnownOrUnread'
  BY <1>3, EventFiles DEF KnownOrUnread
<1>7. LightFollowsReadings'
  BY DEF LightFollowsReadings
<1>8. QED
  BY <1>1, <1>2, <1>4, <1>5, <1>6, <1>7

\* Each event, each line the user types and each death keeps the invariant.
LEMMA ControlStep ==
  ASSUME Inv, Control, UNCHANGED sensorVars
  PROVE  Inv'
<1> USE SensorAssumption, ControlAssumption, SocketAssumption
    DEF Inv, net, sensorVars, values, limits, prompt
<1>1. CASE StartControl
  <2> USE <1>1 DEF StartControl
  <2>1. /\ path' \in {"listening", "absent", "left"} /\ cpc' \in {"wait", "failed"}
        /\ UNCHANGED <<batch, values, limits, data_fd, stdin, backlog, conn, chan, closed>>
    BY DEF TypeInv
  <2>2. TypeInv'
    BY <2>1 DEF TypeInv, ControlTypeOK
  <2>3. SensorInv' /\ BacklogInv' /\ RoleInv' /\ UnreadInv'
    BY <2>1 DEF SensorInv, BacklogInv, RoleInv, UnreadInv
  <2>4. KnownOrUnread' /\ LightFollowsReadings'
    BY <2>1 DEF KnownOrUnread, LightFollowsReadings
  <2>5. QED
    BY <2>2, <2>3, <2>4
<1>2. CASE Wait
  <2> USE <1>2 DEF Wait
  <2>1. Ready \subseteq EventSet /\ StdinEvent \in EventSet
    BY EventFiles DEF Ready
  <2>2. ListenEvent \in batch' => backlog # <<>>
    BY EventFiles DEF Ready
  <2>3. batch' \subseteq EventSet
    BY <2>1
  <2> HIDE <1>2 DEF Wait
  <2>4. /\ cpc = "wait" /\ cpc' = "batch"
        /\ UNCHANGED <<values, limits, prompt, controls, net>>
    BY <1>2 DEF Wait
  <2>5. TypeInv'
    BY <2>3, <2>4 DEF TypeInv, ControlTypeOK
  <2>6. SensorInv' /\ BacklogInv' /\ RoleInv' /\ UnreadInv'
    BY <2>2, <2>4 DEF SensorInv, BacklogInv, RoleInv, UnreadInv
  <2>7. KnownOrUnread' /\ LightFollowsReadings'
    BY <2>4 DEF KnownOrUnread, LightFollowsReadings
  <2>8. QED
    BY <2>5, <2>6, <2>7
<1>3. CASE Command \/ \E s \in Sensors : IgnoredEvent(s)
  <2>1. /\ cpc = "batch" /\ cpc' \in {"batch", "wait", "scanf"} /\ batch' \subseteq batch
        /\ UNCHANGED <<values, limits, prompt, controls, net>>
    BY <1>3 DEF Command, IgnoredEvent, Take, NextEvent
  <2>2. TypeInv'
    BY <2>1 DEF TypeInv, ControlTypeOK
  <2>3. SensorInv' /\ BacklogInv' /\ RoleInv' /\ UnreadInv'
    BY <2>1 DEF SensorInv, BacklogInv, RoleInv, UnreadInv
  <2>4. KnownOrUnread' /\ LightFollowsReadings'
    BY <2>1 DEF KnownOrUnread, LightFollowsReadings
  <2>5. QED
    BY <2>2, <2>3, <2>4
<1>4. CASE Typed
  <2>1. /\ cpc = "scanf" /\ cpc' \in {"batch", "wait"} /\ batch' = batch
        /\ UNCHANGED <<role_fd, data_tmp, data, light_on, data_fd, sensor_type>>
        /\ UNCHANGED <<controls, net>>
        /\ min' \in Int /\ max' \in Int /\ stdin' \in {"open", "eof"}
        /\ judged' = FALSE \/ UNCHANGED <<judged, limits>>
        /\ judged' \in BOOLEAN
    BY <1>4 DEF Typed, NextEvent, TypeInv, ControlTypeOK
  <2>2. TypeInv'
    BY <2>1 DEF TypeInv, ControlTypeOK
  <2>3. SensorInv' /\ BacklogInv' /\ RoleInv' /\ UnreadInv'
    BY <2>1 DEF SensorInv, BacklogInv, RoleInv, UnreadInv
  <2>4. KnownOrUnread' /\ LightFollowsReadings'
    BY <2>1 DEF KnownOrUnread, LightFollowsReadings
  <2>5. QED
    BY <2>2, <2>3, <2>4
<1>5. CASE Accept
  <2>1. /\ cpc = "batch" /\ ListenEvent \in batch /\ batch' = batch \ {ListenEvent}
        /\ backlog' = Tail(backlog) /\ cpc' = "prompt"
        /\ UNCHANGED <<values, limits, sensor_type, stdin, controls, path, closed>>
    BY <1>5 DEF Accept, Take
  <2>2. backlog # <<>>
    BY <2>1 DEF BacklogInv
  <2>3. PICK s \in Sensors :
          /\ s = Head(backlog) /\ conn[s] = "queued"
          /\ backlog' \in Seq(Sensors)
          /\ \A j, k \in DOMAIN backlog' : backlog'[j] = backlog'[k] => j = k
          /\ \A k \in DOMAIN backlog' : backlog'[k] # s /\ conn[backlog'[k]] = "queued"
    BY <2>1, <2>2, BacklogTail
  <2>4. \/ /\ data_fd' = s /\ chan' = chan
           /\ conn' = [conn EXCEPT ![s] = "accepted"]
        \/ /\ data_fd' = NoConnection /\ chan' = [chan EXCEPT ![s] = <<>>]
           /\ conn' = [conn EXCEPT ![s] = "reset"]
    BY <1>5, <2>3 DEF Accept
  <2>5. /\ conn' \in [Sensors -> {"none", "queued", "accepted", "reset"}]
        /\ data_fd' \in {s, NoConnection} /\ chan'[s] \in {chan[s], <<>>}
        /\ conn'[s] = IF data_fd' = s THEN "accepted" ELSE "reset"
        /\ data_fd' = s => chan'[s] = chan[s]
        /\ chan' \in [Sensors -> Seq(Packets)]
        /\ \A t \in Sensors \ {s} : conn'[t] = conn[t] /\ chan'[t] = chan[t]
    <3>1. /\ conn \in [Sensors -> {"none", "queued", "accepted", "reset"}]
          /\ chan \in [Sensors -> Seq(Packets)] /\ <<>> \in Seq(Packets)
          /\ s # NoConnection
      BY EventFiles DEF TypeInv
    <3>2. CASE data_fd' = s
      BY <2>4, <3>1, <3>2
    <3>3. CASE data_fd' # s
      BY <2>4, <3>1, <3>3
    <3>4. QED
      BY <2>4, <3>1, <3>2, <3>3
  <2>6. TypeInv'
    <3>1. \A t \in Sensors : Len(chan'[t]) <= Capacity
      BY <2>5 DEF TypeInv
    <3>2. ControlTypeOK'
      BY <2>1, <2>5 DEF TypeInv, ControlTypeOK
    <3>3. QED
      BY <2>1, <2>3, <2>5, <3>1, <3>2 DEF TypeInv
  <2>7. SensorInv'
    <3>1. spc' = spc /\ packet' = packet /\ last_packet' = last_packet
      OBVIOUS
    <3>2. conn[s] # "none" /\ conn'[s] # "none" /\ spc[s] # "off"
      BY <2>3, <2>5 DEF SensorInv
    <3>3. \A t \in Sensors :
            (conn'[t] = "none" <=> conn[t] = "none") /\ (spc[t] = "off" => chan'[t] = chan[t])
      BY <2>5, <3>2
    <3>4. QED
      BY <3>1, <3>3 DEF SensorInv
  <2>8. BacklogInv'
    <3>1. \A k \in DOMAIN backlog' : backlog'[k] \in Sensors
      BY <2>3
    <3>2. QED
      BY <2>1, <2>3, <2>5, <3>1 DEF BacklogInv
  <2>9. \A r \in Roles : role_fd[r] \in Sensors \cup {NoFd} /\ role_fd[r] # s
    BY <2>3, EventFiles DEF RoleInv, TypeInv, ControlTypeOK
  <2>10. RoleInv'
    BY <2>1, <2>5, <2>9 DEF RoleInv
  <2>11. UnreadInv'
    <3>1. data_fd = NoFd
      BY <2>1 DEF RoleInv
    <3>2. QED
      BY <2>3, <2>5, <3>1, EventFiles DEF UnreadInv
  <2>12. KnownOrUnread' /\ LightFollowsReadings'
    BY <2>1, <2>5, <2>9 DEF KnownOrUnread, LightFollowsReadings
  <2>13. QED
    BY <2>6, <2>7, <2>8, <2>10, <2>11, <2>12
<1>6. ASSUME NEW char \in Roles \cup {Other}, Answer(char) PROVE Inv'
  <2>1. SUFFICES ASSUME ~ControlEnds PROVE Inv'
    BY EndsInv
  <2>2. /\ cpc = "prompt" /\ batch' = batch /\ sensor_type' = char
        /\ stdin' \in {"open", "eof"}
        /\ UNCHANGED <<data_tmp, data, light_on, judged, limits, controls, net>>
        /\ IF char \in Roles
             THEN /\ data_fd # NoConnection
                  /\ role_fd' = [role_fd EXCEPT ![char] = data_fd]
                  /\ data_fd' = NoFd
                  /\ NextEvent
             ELSE UNCHANGED <<role_fd, data_fd, cpc>>
    BY <1>6, <2>1 DEF Answer, Scanned, GivesRole, TypeInv, ControlTypeOK
  <2>3. CASE char \in Roles
    <3>1. /\ role_fd' = [role_fd EXCEPT ![char] = data_fd] /\ data_fd' = NoFd
          /\ cpc' \in {"batch", "wait"}
      BY <2>2, <2>3 DEF NextEvent
    <3>2. data_fd \in Sensors /\ \A r \in Roles : role_fd[r] # data_fd
      BY <2>2, <2>3 DEF RoleInv
    <3>3. TypeInv'
      BY <2>2, <3>2, <3>1 DEF TypeInv, ControlTypeOK
    <3>4. SensorInv' /\ BacklogInv'
      BY <2>2 DEF SensorInv, BacklogInv
    <3>5. /\ role_fd'[char] = data_fd
          /\ \A r \in Roles \ {char} : role_fd'[r] = role_fd[r]
      BY <2>3, <3>1 DEF TypeInv, ControlTypeOK
    <3>6. RoleInv'
      BY <2>2, <2>3, <3>2, <3>1, <3>5 DEF RoleInv, Roles
    <3>7. UnreadInv'
      BY <2>2, <3>1, EventFiles DEF UnreadInv
    <3>8. KnownOrUnread'
      BY <2>2, <2>3, <3>2, <3>5 DEF KnownOrUnread, UnreadInv
    <3>9. LightFollowsReadings'
      BY <2>2, <3>1 DEF LightFollowsReadings
    <3>10. QED
      BY <3>3, <3>4, <3>6, <3>7, <3>8, <3>9
  <2>4. CASE char \notin Roles
    <3>1. UNCHANGED <<role_fd, data_fd, cpc>>
      BY <2>2, <2>4
    <3>2. TypeInv'
      BY <2>2, <3>1 DEF TypeInv, ControlTypeOK
    <3>3. SensorInv' /\ BacklogInv' /\ RoleInv' /\ UnreadInv'
      BY <2>2, <3>1 DEF SensorInv, BacklogInv, RoleInv, UnreadInv
    <3>4. KnownOrUnread' /\ LightFollowsReadings'
      BY <2>2, <3>1 DEF KnownOrUnread, LightFollowsReadings
    <3>5. QED
      BY <3>2, <3>3, <3>4
  <2>5. QED
    BY <2>3, <2>4
<1>7. ASSUME NEW s \in Sensors, NEW r \in Roles, SensorEvent(s, r) PROVE Inv'
  <2>1. /\ cpc = "batch" /\ cpc' \in {"batch", "wait"} /\ batch' \subseteq batch
        /\ role_fd[r] = s /\ UseSensor(s, r)
        /\ role_fd' = [role_fd EXCEPT ![r] = NoFd] \/ role_fd' = role_fd
        /\ UNCHANGED <<limits, prompt, controls, path, backlog, conn, closed>>
    BY <1>7 DEF SensorEvent, Take, NextEvent
  <2>2. /\ data_tmp' \in [Roles -> Int] /\ data' \in [Roles -> Nat]
        /\ chan' \in [Sensors -> Seq(Packets)]
        /\ \A t \in Sensors : Len(chan'[t]) <= Len(chan[t])
        /\ \A t \in Sensors \ {s} : chan'[t] = chan[t]
        /\ chan[s] = <<>> => UNCHANGED <<data_tmp, chan>>
        /\ chan[s] # <<>> =>
             /\ data_tmp' = [data_tmp EXCEPT ![r] = Head(chan[s]).visible]
             /\ chan' = [chan EXCEPT ![s] = Tail(@)]
        /\ light_on' \in BOOLEAN /\ judged' \in BOOLEAN /\ LightFollowsReadings'
    BY <2>1, UseSensorEffect
  <2>3. /\ role_fd' \in [Roles -> Sensors \cup {NoFd}]
        /\ \A q \in Roles : role_fd'[q] \in {role_fd[q], NoFd}
    BY <2>1 DEF TypeInv, ControlTypeOK
  <2>4. TypeInv'
    <3>1. ControlTypeOK'
      BY <2>1, <2>2, <2>3 DEF TypeInv, ControlTypeOK
    <3>2. \A t \in Sensors : Len(chan'[t]) <= Capacity
      <4>1. \A t \in Sensors : Len(chan'[t]) \in Nat /\ Len(chan[t]) \in Nat
        BY <2>2 DEF TypeInv
      <4>2. QED
        BY <2>2, <4>1 DEF TypeInv
    <3>3. QED
      BY <2>1, <2>2, <3>1, <3>2 DEF TypeInv
  <2>5. conn[s] = "accepted" /\ s # data_fd
    BY <2>1, EventFiles DEF RoleInv
  <2>6. SensorInv' /\ BacklogInv'
    <3>1. spc[s] # "off"
      BY <2>5 DEF SensorInv
    <3>2. QED
      BY <2>1, <2>2, <3>1 DEF SensorInv, BacklogInv
  <2>7. RoleInv'
    <3>1. \A q \in Roles : role_fd'[q] # NoFd => role_fd'[q] = role_fd[q]
      BY <2>3
    <3>2. "indoor" \in Roles /\ "outdoor" \in Roles
      BY DEF Roles
    <3>3. QED
      BY <2>1, <2>3, <3>1, <3>2 DEF RoleInv
  <2>8. UnreadInv'
    BY <2>1, <2>2, <2>5 DEF UnreadInv
  <2>9. \A q \in Roles \ {r} : role_fd[q] # s
    BY <2>1, EventFiles DEF RoleInv, Roles
  <2>10. KnownOrUnread'
    <3> SUFFICES ASSUME NEW q \in Roles, NEW t \in Sensors,
                        role_fd'[q] = t, last_packet[t] # NoPacket
                 PROVE  IF chan'[t] = <<>> THEN data_tmp'[q] = last_packet[t].visible
                                           ELSE Last(chan'[t]) = last_packet[t]
      BY DEF KnownOrUnread
    <3>1. role_fd[q] = t
      BY <2>3, EventFiles
    <3>2. IF chan[t] = <<>> THEN data_tmp[q] = last_packet[t].visible
                            ELSE Last(chan[t]) = last_packet[t]
      BY <3>1 DEF KnownOrUnread
    <3>3. CASE chan[s] = <<>>
      BY <2>2, <3>2, <3>3
    <3>4. CASE chan[s] # <<>> /\ q # r
      <4>1. chan'[t] = chan[t] /\ data_tmp'[q] = data_tmp[q]
        BY <2>2, <2>9, <3>1, <3>4 DEF TypeInv
      <4>2. QED
        BY <3>2, <4>1
    <3>5. CASE chan[s] # <<>> /\ q = r
      <4>1. t = s /\ chan[s] \in Seq(Packets)
        BY <2>1, <3>1, <3>5 DEF TypeInv
      <4>2. chan'[s] = Tail(chan[s]) /\ data_tmp'[r] = Head(chan[s]).visible
        BY <2>2, <3>5 DEF TypeInv
      <4>3. Last(chan[s]) = last_packet[s]
        BY <3>2, <3>5, <4>1
      <4>4. Last(chan[s]) = IF Tail(chan[s]) = <<>> THEN Head(chan[s])
                                                    ELSE Last(Tail(chan[s]))
        BY <3>5, <4>1, TailLast
      <4>5. QED
        BY <3>5, <4>1, <4>2, <4>3, <4>4
    <3>6. QED
      BY <3>3, <3>4, <3>5
  <2>11. QED
    BY <2>2, <2>4, <2>6, <2>7, <2>8, <2>10
<1>8. CASE KillControl
  BY <1>8, EndsInv DEF KillControl
<1>9. QED
  BY <1>1, <1>2, <1>3, <1>4, <1>5, <1>6, <1>7, <1>8 DEF Control, Loop, User

\* So does every step of the system.
LEMMA StepInv == Inv /\ [Next]_vars => Inv'
<1> SUFFICES ASSUME Inv, [Next]_vars PROVE Inv'
  OBVIOUS
<1>1. CASE Next
  BY <1>1, SensorStep, ControlStep DEF Next
<1>2. CASE UNCHANGED vars
  <2> USE <1>2 DEF vars, net, sensorVars, controlVars, values, limits, prompt
  <2>1. TypeInv'
    BY DEF Inv, TypeInv, ControlTypeOK
  <2>2. SensorInv' /\ BacklogInv' /\ RoleInv' /\ UnreadInv'
    BY DEF Inv, SensorInv, BacklogInv, RoleInv, UnreadInv
  <2>3. KnownOrUnread' /\ LightFollowsReadings'
    BY DEF Inv, KnownOrUnread, LightFollowsReadings
  <2>4. QED
    BY <2>1, <2>2, <2>3 DEF Inv
<1>3. QED
  BY <1>1, <1>2

-----------------------------------------------------------------------------
(* The safety properties of LocalSystem.                                   *)

\* Every reachable state satisfies the inductive invariant.
THEOREM Invariance == Spec => []Inv
  BY InitInv, StepInv, PTL DEF Spec

\* Where a plain char is unsigned, every variable keeps its type: the counts fit
\* 16 bits, no channel exceeds its capacity, roles are of accepted connections.
THEOREM TypeCorrect ==
  ASSUME ~CharIsSigned
  PROVE  Spec => []TypeOK
<1>1. Inv => TypeOK
  <2> SUFFICES ASSUME Inv PROVE TypeOK
    OBVIOUS
  <2> USE DEF Inv
  <2>1. \A s \in Sensors : chan[s] \in BoundedSeq(Packets, Capacity)
    <3> SUFFICES ASSUME NEW s \in Sensors PROVE chan[s] \in BoundedSeq(Packets, Capacity)
      OBVIOUS
    <3>1. chan[s] \in Seq(Packets) /\ Len(chan[s]) <= Capacity
      BY DEF TypeInv
    <3>2. Len(chan[s]) \in 0..Capacity /\ chan[s] \in [1..Len(chan[s]) -> Packets]
      BY <3>1, SocketAssumption
    <3>3. QED
      BY <3>2 DEF BoundedSeq, SeqOf
  <2>2. NetTypeOK(Packets)
    BY <2>1 DEF NetTypeOK, TypeInv, BacklogInv
  <2>3. \A s \in Sensors : packet[s].full \in Counts /\ packet[s].infrared \in Counts
    <3>1. NoPacket.full \in Counts /\ NoPacket.infrared \in Counts
      BY DEF NoPacket, Counts, Below
    <3>2. \A s \in Sensors : packet[s] \in Packets \cup {NoPacket}
      BY DEF TypeInv
    <3>3. QED
      BY <3>1, <3>2, PacketRange
  <2>4. SensorTypeOK
    BY <2>3 DEF SensorTypeOK, TypeInv
  <2>5. QED
    BY <2>2, <2>4 DEF TypeOK, TypeInv, RoleInv
<1>2. QED
  BY <1>1, Invariance, PTL

\* What a sensor sent last is on its way, or known to the control program, for
\* as long as it has a role.
THEOREM KnownCorrect == Spec => []KnownOrUnread
<1>1. Inv => KnownOrUnread
  BY DEF Inv
<1>2. QED
  BY <1>1, Invariance, PTL

\* The light agrees with the readings in use and the limits they were judged by.
THEOREM LightCorrect == Spec => []LightFollowsReadings
<1>1. Inv => LightFollowsReadings
  BY DEF Inv
<1>2. QED
  BY <1>1, Invariance, PTL

-----------------------------------------------------------------------------
(* The refinement of ChangeFeed, step by step.                             *)

Fresh == {s \in Sensors : conn[s] \in {"none", "queued"} \/ s = data_fd}

\* Nobody has been listened to at the start.
LEMMA InitFeed == Init => Feed!Init
<1> SUFFICES ASSUME Init PROVE Feed!Init
  OBVIOUS
<1> USE DEF Init, NetInit, SensorInit, ControlInit, NoRoles, Zeroes
<1>1. {s \in Sensors : conn[s] \in {"none", "queued"} \/ s = data_fd} = Sensors
  OBVIOUS
<1>2. QED
  BY <1>1 DEF Feed!Init

\* Of the sensor's steps only Send says something: a packet that is new.
LEMMA SensorFeed ==
  ASSUME Inv, NEW s \in Sensors, Sensor(s), UNCHANGED controlVars
  PROVE  Feed!Next \/ UNCHANGED Feed!vars
<1> USE DEF net, sensorVars, controlVars, values, prompt, Feed!vars
<1>1. CASE Send(s)
  <2>1. /\ packet[s] \in Packets \ {last_packet[s]} /\ Len(chan[s]) < Capacity
        /\ last_packet' = [last_packet EXCEPT ![s] = packet[s]]
        /\ chan' = [chan EXCEPT ![s] = Append(@, packet[s])]
        /\ UNCHANGED <<conn, data_fd, role_fd, data_tmp>>
    BY <1>1 DEF Send, send_packet, Remember, HasRoom, Inv, SensorInv
  <2>2. Feed!Say(s)
    BY <2>1 DEF Feed!Say
  <2>3. QED
    BY <2>2 DEF Feed!Next
<1>2. CASE StartSensor(s)
  <2>1. /\ conn[s] = "none" /\ conn' = [conn EXCEPT ![s] = "queued"]
        /\ UNCHANGED <<last_packet, chan, data_fd, role_fd, data_tmp>>
    BY <1>2 DEF StartSensor, conn_socket, Inv, SensorInv
  <2>2. Fresh' = Fresh
    BY <2>1 DEF Fresh, Inv, TypeInv
  <2>3. QED
    BY <2>1, <2>2 DEF Fresh
<1>3. CASE Read(s) \/ ExitSensor(s)
  BY <1>3 DEF Read, ExitSensor, CloseSensor
<1>4. QED
  BY <1>1, <1>2, <1>3 DEF Sensor

\* The end of the control program forgets.
LEMMA EndsFeed ==
  ASSUME Inv, ControlEnds, UNCHANGED sensorVars
  PROVE  Feed!Next
<1>1. /\ role_fd' = NoRoles /\ data_tmp' = Zeroes /\ data_fd' = NoFd
      /\ conn' = [s \in Sensors |-> IF conn[s] = "none" THEN "none" ELSE "reset"]
      /\ chan' = [s \in Sensors |-> <<>>] /\ last_packet' = last_packet
  BY DEF ControlEnds, CloseControl, sensorVars
<1>2. Fresh' \in SUBSET Fresh
  BY <1>1, EventFiles DEF Fresh
<1>3. Feed!Forget
  BY <1>1, <1>2 DEF Feed!Forget, Fresh, NoRoles, Zeroes
<1>4. QED
  BY <1>3 DEF Feed!Next

\* The prompt's answer listens, an event learns or loses, a death forgets, and
\* nothing else the control program does is seen.
LEMMA ControlFeed ==
  ASSUME Inv, Control, UNCHANGED sensorVars
  PROVE  Feed!Next \/ UNCHANGED Feed!vars
<1> USE DEF Inv, net, sensorVars, values, limits, prompt, Feed!vars
<1>1. CASE StartControl \/ Wait \/ Command \/ Typed \/ \E s \in Sensors : IgnoredEvent(s)
  BY <1>1 DEF StartControl, Wait, Command, Typed, IgnoredEvent
<1>2. CASE Accept
  <2>1. /\ cpc = "batch" /\ ListenEvent \in batch
        /\ UNCHANGED <<last_packet, role_fd, data_tmp>>
    BY <1>2 DEF Accept, Take
  <2>2. backlog # <<>> /\ data_fd = NoFd
    BY <2>1 DEF BacklogInv, RoleInv
  <2>3. PICK s \in Sensors : s = Head(backlog) /\ conn[s] = "queued"
    BY <2>2, BacklogTail
  <2>4. CASE /\ data_fd' = s /\ chan' = chan
             /\ conn' = [conn EXCEPT ![s] = "accepted"]
    <3>1. Fresh' = Fresh
      BY <2>2, <2>3, <2>4, EventFiles DEF Fresh, TypeInv
    <3>2. QED
      BY <2>1, <2>4, <3>1 DEF Fresh
  <2>5. CASE /\ data_fd' = NoConnection /\ chan' = [chan EXCEPT ![s] = <<>>]
             /\ conn' = [conn EXCEPT ![s] = "reset"]
    <3>1. s \in Fresh /\ Fresh' = Fresh \ {s}
      BY <2>2, <2>3, <2>5, EventFiles DEF Fresh, TypeInv
    <3>2. Feed!Refuse(s)
      BY <2>1, <2>5, <3>1 DEF Feed!Refuse, Fresh
    <3>3. QED
      BY <3>2 DEF Feed!Next
  <2>6. QED
    BY <1>2, <2>3, <2>4, <2>5 DEF Accept
<1>3. ASSUME NEW char \in Roles \cup {Other}, Answer(char)
      PROVE  Feed!Next \/ UNCHANGED Feed!vars
  <2>1. SUFFICES ASSUME ~ControlEnds PROVE Feed!Next \/ UNCHANGED Feed!vars
    BY EndsFeed
  <2>2. /\ cpc = "prompt" /\ UNCHANGED <<last_packet, chan, conn, data_tmp>>
        /\ IF char \in Roles
             THEN /\ data_fd # NoConnection
                  /\ role_fd' = [role_fd EXCEPT ![char] = data_fd] /\ data_fd' = NoFd
             ELSE UNCHANGED <<role_fd, data_fd>>
    BY <1>3, <2>1 DEF Answer, GivesRole
  <2>3. CASE char \in Roles
    <3>1. role_fd' = [role_fd EXCEPT ![char] = data_fd] /\ data_fd' = NoFd
      BY <2>2, <2>3
    <3>2. data_fd \in Sensors /\ conn[data_fd] = "accepted"
      BY <2>2, <2>3 DEF RoleInv
    <3>3. PICK s \in Sensors : s = data_fd
      BY <3>2
    <3>4. s \in Fresh /\ Fresh' = Fresh \ {s}
      BY <2>2, <3>1, <3>2, <3>3, EventFiles DEF Fresh
    <3>5. Feed!Listen(char, s)
      BY <2>2, <3>1, <3>3, <3>4 DEF Feed!Listen, Fresh
    <3>6. QED
      BY <2>3, <3>5 DEF Feed!Next
  <2>4. CASE char \notin Roles
    BY <2>2, <2>4
  <2>5. QED
    BY <2>3, <2>4
<1>4. ASSUME NEW s \in Sensors, NEW r \in Roles, SensorEvent(s, r)
      PROVE  Feed!Next \/ UNCHANGED Feed!vars
  <2>1. /\ role_fd[r] = s /\ UseSensor(s, r)
        /\ role_fd' \in {role_fd, [role_fd EXCEPT ![r] = NoFd]}
        /\ UNCHANGED <<limits, last_packet, conn, data_fd>>
    BY <1>4 DEF SensorEvent
  <2>2. CASE chan[s] # <<>>
    <3>1. /\ data_tmp' = [data_tmp EXCEPT ![r] = Head(chan[s]).visible]
          /\ chan' = [chan EXCEPT ![s] = Tail(@)]
      BY <2>1, <2>2, UseSensorEffect
    <3>2. Feed!Learn(r, s)
      BY <2>1, <2>2, <3>1 DEF Feed!Learn
    <3>3. QED
      BY <3>2 DEF Feed!Next
  <2>3. CASE chan[s] = <<>>
    <3>1. UNCHANGED <<data_tmp, chan>>
      BY <2>1, <2>3, UseSensorEffect
    <3>2. Feed!Lose(r) \/ role_fd' = role_fd
      BY <2>1, <3>1 DEF Feed!Lose
    <3>3. QED
      BY <2>1, <3>1, <3>2 DEF Feed!Next
  <2>4. QED
    BY <2>2, <2>3
<1>5. CASE KillControl
  BY <1>5, EndsFeed DEF KillControl
<1>6. QED
  BY <1>1, <1>2, <1>3, <1>4, <1>5 DEF Control, Loop, User

\* The two programs implement ChangeFeed: no role learns from a sensor that is
\* not its own, skips a packet or takes one twice.
THEOREM FeedImplemented == Spec => ImplementsFeed
<1>1. Inv /\ [Next]_vars => [Feed!Next]_(Feed!vars)
  <2> SUFFICES ASSUME Inv, [Next]_vars PROVE Feed!Next \/ UNCHANGED Feed!vars
    OBVIOUS
  <2>1. CASE Next
    BY <2>1, SensorFeed, ControlFeed DEF Next
  <2>2. CASE UNCHANGED vars
    BY <2>2 DEF vars, net, sensorVars, controlVars, values, prompt, Feed!vars
  <2>3. QED
    BY <2>1, <2>2
<1>2. QED
  BY <1>1, InitFeed, Invariance, PTL DEF Spec, ImplementsFeed, Feed!Spec
=============================================================================
