----------------------------- MODULE LightServer ----------------------------
(***************************************************************************)
(* The light server (light/server.py) and its clients (light/client.py):   *)
(* a select() loop that reads a packet from whoever has sent something and *)
(* switches the lamp.  TCP delivers a packet in pieces, and recv(16) takes *)
(* what there is.  The unit here is half a packet: first the time stamp,   *)
(* then the sequence number with the status.                               *)
(*                                                                         *)
(* SIGINT is not modelled: its handler assigns a local variable, which     *)
(* changes nothing, and select() is resumed.  An exception ends the        *)
(* server: of a connection that was reset, of accept() or asyncio.run()    *)
(* without descriptors, of select() with one that is too high.             *)
(***************************************************************************)
EXTENDS Integers, Sequences, SequencesExt

CONSTANTS
  Clients,
  Limits,      \* what the process may be given; see limits
  MaxPackets   \* bound: packets each client sends

Listener == "listener"

ASSUME LightAssumption ==
  /\ IsFiniteSet(Clients) /\ Listener \notin Clients
  /\ Limits \subseteq [open : Nat, select : Nat]
  /\ MaxPackets \in Nat

VARIABLES
  srv,          \* "select", "events", "toggle", or "dead" of an exception
  select_list,  \* the connections the server watches; the listener always
  fd,           \* their descriptors, counted from the first it has for them
  limits,       \* descriptors it may open, and those select() can watch
  events,       \* what select() returned, not looked at yet
  backlog,      \* connections that wait to be accepted
  peer,         \* each client's end: "off", "open", "closed" or "reset"
  sent,         \* each client's sequence number
  wire,         \* each client's halves on the network
  inbox,        \* and in the server's receive buffer
  command,      \* the command being obeyed: whose, and on or off
  lamp,
  told,         \* history: commands obeyed of each client
  cut           \* history: has recv() ever split a packet of the client?

server  == <<srv, select_list, events, fd, limits>>
network == <<backlog, peer, sent, wire, inbox>>
vars    == <<server, network, command, lamp, told, cut>>

Time == "time"
Off  == "off"
On   == "on"

NoCommand == [from |-> Listener, data |-> Off]

Status(seq) == IF seq % 2 = 1 THEN On ELSE Off

-----------------------------------------------------------------------------
Connect(c) ==
  /\ peer[c] = "off" /\ srv # "dead"
  /\ peer' = [peer EXCEPT ![c] = "open"]
  /\ backlog' = Append(backlog, c)
  /\ UNCHANGED <<server, sent, wire, inbox, command, lamp, told, cut>>

\* client.py alternates on and off.
Send(c) ==
  /\ peer[c] = "open" /\ sent[c] < MaxPackets
  /\ sent' = [sent EXCEPT ![c] = @ + 1]
  /\ wire' = [wire EXCEPT ![c] = @ \o <<Time, Status(sent'[c])>>]
  /\ UNCHANGED <<server, backlog, peer, inbox, command, lamp, told, cut>>

Arrive(c) ==
  /\ wire[c] # <<>>
  /\ inbox' = [inbox EXCEPT ![c] = Append(@, Head(wire[c]))]
  /\ wire' = [wire EXCEPT ![c] = Tail(@)]
  /\ UNCHANGED <<server, backlog, peer, sent, command, lamp, told, cut>>

\* A reset loses what is on the way; what has arrived can still be read.
Leave(c) ==
  /\ peer[c] = "open"
  /\ \/ peer' = [peer EXCEPT ![c] = "closed"] /\ UNCHANGED wire
     \/ peer' = [peer EXCEPT ![c] = "reset"] /\ wire' = [wire EXCEPT ![c] = <<>>]
  /\ UNCHANGED <<server, backlog, sent, inbox, command, lamp, told, cut>>

-----------------------------------------------------------------------------
Readable(c) == inbox[c] # <<>> \/ (wire[c] = <<>> /\ peer[c] # "open")

\* select() raises an exception if the list holds a socket that was closed, or
\* whose descriptor is FD_SETSIZE or more.
Select ==
  /\ srv = "select"
  /\ IF \E c \in select_list : peer[c] = "released" \/ fd[c] >= limits.select
       THEN srv' = "dead" /\ UNCHANGED events
       ELSE /\ srv' = "events"
            /\ events' = {c \in select_list : Readable(c)}
                         \cup (IF backlog # <<>> THEN {Listener} ELSE {})
            /\ events' # {}
  /\ UNCHANGED <<select_list, fd, limits, network, command, lamp, told, cut>>

Take(e) == srv = "events" /\ e \in events /\ events' = events \ {e}

NextEvent == srv' = IF events' = {} THEN "select" ELSE "events"

IsFree(n) == \A c \in select_list : fd[c] # n

\* The kernel gives the lowest number that is free.  accept() raises an exception
\* when that is beyond the limit, and nobody catches it.
Accept ==
  /\ Take(Listener)
  /\ \E n \in 0 .. Cardinality(select_list) :
       /\ IsFree(n) /\ \A m \in 0 .. n - 1 : ~IsFree(m)
       /\ IF n < limits.open
            THEN /\ select_list' = select_list \cup {Head(backlog)}
                 /\ fd' = [fd EXCEPT ![Head(backlog)] = n]
                 /\ backlog' = Tail(backlog)
                 /\ NextEvent
            ELSE srv' = "dead" /\ UNCHANGED <<select_list, fd, backlog>>
  /\ UNCHANGED <<limits, peer, sent, wire, inbox, command, lamp, told, cut>>

\* light_packet.from_raw(): a slice past the end is empty, and decodes to 0.
\* Mutant: the status is taken from the first half.
Data_FirstHalf(raw) == IF raw[1] = Off THEN Off ELSE On

Data(raw) == IF Len(raw) < 2 \/ raw[2] = Off THEN Off ELSE On

\* Mutant: recv() is asked for more than one packet, and the rest is dropped.
PacketSize_Two == 4

PacketSize == 2

Recv(c) ==
  /\ Take(c)
  /\ inbox[c] # <<>>
  /\ LET raw  == SubSeq(inbox[c], 1, Min({PacketSize, Len(inbox[c])}))
         rest == SubSeq(inbox[c], Len(raw) + 1, Len(inbox[c]))
     IN  /\ command' = [from |-> c, data |-> Data(raw)]
         /\ inbox' = [inbox EXCEPT ![c] = rest]
         /\ cut' = [cut EXCEPT ![c] = @ \/ Len(raw) < PacketSize]
  /\ srv' = "toggle"
  /\ UNCHANGED <<select_list, fd, limits, backlog, peer, sent, wire, lamp, told>>

\* asyncio.run() makes an event loop: an epoll descriptor and a pair of sockets.
LoopFds == 3

\* toggle_light() prints what goes wrong with the lamp, and returns; what goes
\* wrong with the event loop nobody catches.
Toggle ==
  /\ srv = "toggle"
  /\ UNCHANGED events
  /\ IF Cardinality(select_list) + LoopFds <= limits.open
       THEN /\ lamp' \in {lamp, command.data}
            /\ told' = [told EXCEPT ![command.from] = @ + 1]
            /\ command' = NoCommand
            /\ NextEvent
       ELSE srv' = "dead" /\ UNCHANGED <<lamp, told, command>>
  /\ UNCHANGED <<select_list, fd, limits, network, cut>>

\* Mutants: the closed socket stays in the list; the end is passed over.
Forget_KeepsListed(c) == peer' = [peer EXCEPT ![c] = "released"] /\ UNCHANGED select_list
Forget_Never(c) == UNCHANGED <<peer, select_list>>

Forget(c) == peer' = [peer EXCEPT ![c] = "released"] /\ select_list' = select_list \ {c}

\* The end of the stream: the server closes its end, too.
EndOfStream(c) ==
  /\ Take(c)
  /\ inbox[c] = <<>> /\ peer[c] = "closed"
  /\ Forget(c)
  /\ fd' = [fd EXCEPT ![c] = 0]
  /\ NextEvent
  /\ UNCHANGED <<limits, backlog, sent, wire, inbox, command, lamp, told, cut>>

\* recv() of a connection that was reset raises, and nobody catches it.
Reset(c) ==
  /\ Take(c)
  /\ inbox[c] = <<>> /\ peer[c] = "reset"
  /\ srv' = "dead"
  /\ UNCHANGED <<select_list, fd, limits, network, command, lamp, told, cut>>

-----------------------------------------------------------------------------
Init ==
  /\ srv = "select" /\ select_list = {} /\ events = {} /\ backlog = <<>>
  /\ fd = [c \in Clients |-> 0]
  /\ limits \in Limits
  /\ peer = [c \in Clients |-> "off"]
  /\ sent = [c \in Clients |-> 0]
  /\ wire = [c \in Clients |-> <<>>]
  /\ inbox = [c \in Clients |-> <<>>]
  /\ command = NoCommand
  /\ lamp \in {On, Off}
  /\ told = [c \in Clients |-> 0]
  /\ cut = [c \in Clients |-> FALSE]

Client(c) == Connect(c) \/ Send(c) \/ Arrive(c) \/ Leave(c)

Server ==
  \/ Select \/ Accept \/ Toggle
  \/ \E c \in Clients : Recv(c) \/ EndOfStream(c) \/ Reset(c)

Next == Server \/ \E c \in Clients : Client(c)

Spec == Init /\ [][Next]_vars /\ WF_vars(Server)

-----------------------------------------------------------------------------
\* Types, and: no event of a batch is about a connection that an earlier one
\* closed, and no two connections have one descriptor.  (server.py:58-84)
TypeOK ==
  /\ srv \in {"select", "events", "toggle", "dead"}
  /\ select_list \subseteq Clients
  /\ events \subseteq select_list \cup {Listener}
  /\ limits \in Limits
  /\ fd \in [Clients -> Nat]
  /\ \A c, d \in select_list : fd[c] = fd[d] => c = d
  /\ peer \in [Clients -> {"off", "open", "closed", "reset", "released"}]
  /\ sent \in [Clients -> 0 .. MaxPackets]
  /\ \A c \in Clients : /\ wire[c] \in Seq({Time, On, Off})
                        /\ inbox[c] \in Seq({Time, On, Off})
                        /\ c \in select_list => peer[c] # "released"
  /\ command \in [from : Clients \cup {Listener}, data : {On, Off}]
  /\ lamp \in {On, Off}
  /\ told \in [Clients -> 0 .. 2 * MaxPackets]
  /\ cut \in [Clients -> BOOLEAN]

\* As long as TCP happened to hand over whole packets, each command obeyed is
\* the next one that client sent, however the clients' packets interleave and
\* pile up: recv() takes one packet of several.  A split packet breaks this
\* for ever: its halves are taken for packets.  (server.py:73-84, common.py)
NoInventedCommand ==
  srv = "toggle" /\ ~cut[command.from] => command.data = Status(told[command.from] + 1)

\* When the server lets a client go that left in order, it has obeyed every
\* command the client ever sent, however many had piled up when the client
\* closed, and whatever events came between; unless TCP split one of its packets.
\* (server.py:73-84)
ObeyedBeforeRelease ==
  \A c \in Clients : peer[c] = "released" /\ ~cut[c] => told[c] = sent[c]

\* What a client has sent is read, and its end noticed, in the end, whoever
\* else keeps sending, as long as the server lives.  (server.py:56-84)
ClientsServed ==
  \A c \in Clients :
    c \in select_list /\ Readable(c) ~>
      srv = "dead" \/ c \notin select_list \/ ~Readable(c)
=============================================================================
