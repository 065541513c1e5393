---------------------------- MODULE StepperServer ---------------------------
(***************************************************************************)
(* The command loop of the stepper program (stepper.c, main): one epoll    *)
(* set with the listening socket, standard input and the clients' sockets, *)
(* one buffer for text, one buffer for packets, and seq_rotate() as one    *)
(* step, whose effect on `working' module Stepper establishes.             *)
(*                                                                         *)
(* A packet is three units: what precedes its direction, the direction and *)
(* the turns.  A read() takes what has arrived, up to a packet.            *)
(***************************************************************************)
EXTENDS Integers, Sequences, FiniteSets, SequencesExt

CONSTANTS
  Clients,     \* programs that connect
  MaxFds,      \* descriptors accept() may use beyond 0
  EventSize,   \* most events one epoll_wait() reports (EVENT_SIZE, 4)
  Packets,     \* the <<stamp, direction, turns>> a client may send
  MaxPackets,  \* bound: packets each client sends
  TextSize,    \* most units one read() of text takes (BUFSZ)
  Lines,       \* lines typed on standard input
  Garbage,     \* what the uninitialised in_packet may hold
  Worlds       \* is standard input a pipe? do packets arrive whole? will the
               \* uninitialised addr_len do for accept()?  And the bound: lines
               \* waiting on standard input

Free  == "free"
Stdin == "stdin"

ASSUME ServerAssumption ==
  /\ Clients \cap {Free, Stdin} = {}
  /\ MaxFds \in Nat \ {0}
  /\ EventSize \in Nat \ {0}
  /\ Packets \cup Garbage \subseteq Int \X Int \X Int
  /\ Garbage # {}
  /\ MaxPackets \in Nat
  /\ TextSize \in Nat \ {0}
  /\ Worlds \subseteq [pipe : BOOLEAN, whole : BOOLEAN, addr_len : BOOLEAN, lines : Nat]

STDIN_FILENO == 0
Listener == MaxFds + 1     \* connection_socket: never closed before the exit
Fds == 0..MaxFds

\* What a line of standard input, or the text buffer, amounts to.
Text(kind, value) == [kind |-> kind, value |-> value]
Quit      == Text("quit", 0)
Other     == Text("other", 0)
Number(n) == Text("number", n)
EndOfFile == Text("eof", 0)      \* ^D on a terminal: a read of nothing

\* What the bytes of packets may spell up to their first zero: a time stamp of 113
\* seconds starts with "q", one of 12337 with "10".  To a command only the sign of
\* a number matters.
Accidents == {Other, Quit} \cup {Number(n) : n \in -1 .. 1}

VARIABLES
  \* the program
  file,       \* what each descriptor refers to; all but Free are in the epoll set
  evlist,     \* events reported and not yet handled
  in_packet,  \* the packet buffer, shared by all clients
  buf,        \* the text buffer
  direction,  \* the direction main believes the DIR line has
  working,    \* the flag, as seq_rotate() leaves it
  need_quit,
  \* the other end
  peer,       \* each client's side: "none", "open", "reset" or "closed"
  backlog,    \* connections not yet accepted, oldest first
  wire,       \* units each client has sent that have not arrived
  inbox,      \* units that have arrived and were not read
  sent,       \* how many packets each client has sent
  typed,      \* lines of standard input not yet read
  passed,     \* ready descriptors the last epoll_wait() had no room for
  ended,      \* has the writer of standard input gone?
  world       \* which of Worlds this is

server  == <<file, evlist, in_packet, buf, direction, working, need_quit>>
clients == <<peer, backlog, wire, inbox, sent>>
input   == <<typed, ended, world>>
vars    == <<server, clients, input, passed>>

-----------------------------------------------------------------------------
(* The other ends.                                                         *)

Connect(c) ==
  /\ peer[c] = "none"
  /\ peer' = [peer EXCEPT ![c] = "open"]
  /\ backlog' = Append(backlog, c)
  /\ UNCHANGED <<server, wire, inbox, sent, input, passed>>

\* TCP keeps the order and not the boundaries: the first n units of a packet may
\* arrive before the rest.
Send(c, p, n) ==
  /\ peer[c] = "open" /\ wire[c] = <<>>
  /\ sent[c] < MaxPackets
  /\ world.whole => n = 3
  /\ inbox' = [inbox EXCEPT ![c] = @ \o SubSeq(p, 1, n)]
  /\ wire' = [wire EXCEPT ![c] = SubSeq(p, n + 1, 3)]
  /\ sent' = [sent EXCEPT ![c] = @ + 1]
  /\ UNCHANGED <<server, peer, backlog, input, passed>>

Arrive(c) ==
  /\ wire[c] # <<>>
  /\ inbox' = [inbox EXCEPT ![c] = @ \o wire[c]]
  /\ wire' = [wire EXCEPT ![c] = <<>>]
  /\ UNCHANGED <<server, peer, backlog, sent, input, passed>>

\* An orderly end follows the data; a reset does not wait for it.
Leave(c, how) ==
  /\ peer[c] = "open"
  /\ how = "closed" => wire[c] = <<>>
  /\ peer' = [peer EXCEPT ![c] = how]
  /\ wire' = [wire EXCEPT ![c] = <<>>]
  /\ UNCHANGED <<server, backlog, inbox, sent, input, passed>>

Type(line) ==
  /\ ~ended
  /\ Len(typed) < world.lines
  /\ line = EndOfFile => ~world.pipe
  /\ typed' = Append(typed, line)
  /\ UNCHANGED <<server, clients, ended, world, passed>>

HangUp ==
  /\ world.pipe
  /\ ended' = TRUE
  /\ UNCHANGED <<server, clients, typed, world, passed>>

-----------------------------------------------------------------------------
(* epoll.  A socket whose peer is gone is readable for ever, whatever else *)
(* is reported with it; a pipe without writer hangs up once it is empty.   *)

Readable(fd) ==
  \/ fd = Listener /\ backlog # <<>>
  \/ fd \in Fds /\ file[fd] = Stdin /\ typed # <<>>
  \/ /\ fd \in Fds /\ file[fd] \in Clients
     /\ inbox[file[fd]] # <<>> \/ peer[file[fd]] # "open"

HungUp(fd) == fd \in Fds /\ file[fd] = Stdin /\ typed = <<>> /\ ended

Ready == {fd \in Fds \cup {Listener} : Readable(fd) \/ HungUp(fd)}

\* An event keeps the file it was reported for, which the program cannot see.
Event(fd) ==
  [fd |-> fd, in |-> Readable(fd), file |-> IF fd = Listener THEN Free ELSE file[fd]]

\* epoll_wait() reports all that is ready, or as much as fits; what did not fit
\* is at the head of the kernel's queue the next time.
Batches ==
  LET n == IF Cardinality(Ready) < EventSize THEN Cardinality(Ready) ELSE EventSize
  IN  {b \in [1..n -> Ready] :
         /\ n > 0 /\ IsInjective(b)
         /\ passed \subseteq ToSet(b) \/ ToSet(b) \subseteq passed}

EpollWait ==
  /\ ~need_quit
  /\ evlist = <<>>
  /\ \E b \in Batches :
       /\ evlist' = [k \in DOMAIN b |-> Event(b[k])]
       /\ passed' = Ready \ ToSet(b)
  /\ UNCHANGED <<file, in_packet, buf, direction, working, need_quit, clients, input>>

-----------------------------------------------------------------------------
(* One event.                                                              *)

NextEvent == evlist' = Tail(evlist)

\* Mutant: a resume leaves the value that terminates the worker.
AfterCommand_Terminates(rotations) ==
  IF rotations < 0 THEN -1 ELSE IF rotations = 0 THEN 0 ELSE working

\* seq_rotate(): what a command leaves `working' at.
AfterCommand(rotations) ==
  IF rotations < 0 THEN 1 ELSE IF rotations = 0 THEN 0 ELSE working

\* Mutant: one client at a time.
Accept_OneClient ==
  /\ evlist # <<>> /\ Head(evlist).fd = Listener
  /\ IF \E fd \in Fds : file[fd] \in Clients
       THEN UNCHANGED <<file, backlog>>
       ELSE \E fd \in Fds :
              /\ file[fd] = Free
              /\ file' = [file EXCEPT ![fd] = Head(backlog)]
              /\ backlog' = Tail(backlog)
  /\ NextEvent
  /\ UNCHANGED <<in_packet, buf, direction, working, need_quit,
                 peer, wire, inbox, sent, input, passed>>

\* accept() returns the lowest free descriptor.  It fails when none is left, and
\* drops the connection when addr_len holds nothing it can use.
Accept ==
  /\ evlist # <<>> /\ Head(evlist).fd = Listener
  /\ LET free == {fd \in Fds : file[fd] = Free}
     IN  \/ /\ free = {}
            /\ UNCHANGED <<file, backlog, peer>>
         \/ /\ free # {} /\ ~world.addr_len
            /\ peer' = [peer EXCEPT ![Head(backlog)] = "closed"]
            /\ backlog' = Tail(backlog)
            /\ UNCHANGED file
         \/ \E fd \in free :
              /\ world.addr_len
              /\ \A f \in free : fd <= f
              /\ file' = [file EXCEPT ![fd] = Head(backlog)]
              /\ backlog' = Tail(backlog)
              /\ UNCHANGED peer
  /\ NextEvent
  /\ UNCHANGED <<in_packet, buf, direction, working, need_quit,
                 wire, inbox, sent, input, passed>>

\* The error of a reset connection is reported once.
ReadError(c) ==
  /\ inbox[c] = <<>> /\ peer[c] = "reset"
  /\ peer' = [peer EXCEPT ![c] = "closed"]
  /\ UNCHANGED <<in_packet, buf, direction, working, need_quit, inbox, typed>>

\* A terminal gives one line at a time, a pipe all there is, and two lines are
\* no number.  A read of nothing leaves the buffer as it was.
ReadInput ==
  /\ file[STDIN_FILENO] = Stdin
  /\ \/ ~world.pipe /\ Head(typed) # EndOfFile /\ buf' = Head(typed)
     \/ ~world.pipe /\ Head(typed) = EndOfFile /\ UNCHANGED buf
     \/ world.pipe /\ buf' = IF Len(typed) = 1 THEN Head(typed) ELSE Other
  /\ typed' = IF world.pipe THEN <<>> ELSE Tail(typed)
  /\ UNCHANGED <<peer, inbox>>

\* Once descriptor 0 is a client's, its packets are read as text, as much of them
\* as the text buffer holds.
ReadPacketAsText(c) ==
  /\ file[STDIN_FILENO] = c
  /\ \/ inbox[c] # <<>> /\ buf' \in Accidents
     \/ inbox[c] = <<>> /\ peer[c] = "closed" /\ UNCHANGED buf
  /\ inbox' = [inbox EXCEPT ![c] = SubSeq(@, TextSize + 1, Len(@))]
  /\ UNCHANGED <<peer, typed>>

\* Mutant: quit leaves the inner loop and not the outer one.
ObeyText_StaysOn ==
  /\ need_quit' = FALSE
  /\ working' = IF buf'.kind = "number" THEN AfterCommand(buf'.value) ELSE working
  /\ evlist' = IF buf' = Quit THEN <<>> ELSE Tail(evlist)

ObeyText ==
  /\ need_quit' = (buf' = Quit)
  /\ working' = IF buf'.kind = "number" THEN AfterCommand(buf'.value) ELSE working
  /\ evlist' = IF buf' = Quit THEN <<>> ELSE Tail(evlist)

DataFromStdin ==
  /\ evlist # <<>>
  /\ Head(evlist).fd = STDIN_FILENO /\ Head(evlist).in
  /\ \/ \E c \in Clients : file[STDIN_FILENO] = c /\ ReadError(c) /\ NextEvent
     \/ /\ ReadInput \/ \E c \in Clients : ReadPacketAsText(c)
        /\ ObeyText
        /\ UNCHANGED <<in_packet, direction>>
  /\ UNCHANGED <<file, backlog, wire, sent, ended, world, passed>>

\* Mutant: a read of less than a packet.
Take_Short(c) == SubSeq(inbox[c], 1, IF Len(inbox[c]) < 2 THEN Len(inbox[c]) ELSE 2)

Take(c) == SubSeq(inbox[c], 1, IF Len(inbox[c]) < 3 THEN Len(inbox[c]) ELSE 3)

\* read() overwrites a prefix of in_packet, of any length down to nothing when
\* the peer is gone; what it did not overwrite is still there.
ReadPacket(c) ==
  /\ inbox[c] # <<>> \/ peer[c] = "closed"
  /\ in_packet' = Take(c) \o SubSeq(in_packet, Len(Take(c)) + 1, 3)
  /\ inbox' = [inbox EXCEPT ![c] = SubSeq(@, Len(Take(c)) + 1, Len(@))]
  /\ UNCHANGED <<peer, buf, need_quit, typed>>

\* Mutant: a refused direction leaves the inner loop.
ObeyPacket_Breaks ==
  \/ /\ in_packet'[2] = direction \/ in_packet'[2] \in {0, 1}
     /\ direction' = in_packet'[2]
     /\ working' = AfterCommand(in_packet'[3])
     /\ NextEvent
  \/ /\ in_packet'[2] # direction
     /\ evlist' = <<>>
     /\ UNCHANGED <<direction, working>>

\* A packet whose direction cannot be set is dropped.
ObeyPacket ==
  \/ /\ in_packet'[2] = direction \/ in_packet'[2] \in {0, 1}
     /\ direction' = in_packet'[2]
     /\ working' = AfterCommand(in_packet'[3])
     /\ NextEvent
  \/ /\ in_packet'[2] # direction
     /\ NextEvent
     /\ UNCHANGED <<direction, working>>

DataFromClient ==
  /\ evlist # <<>>
  /\ Head(evlist).fd \in 1..MaxFds /\ Head(evlist).in
  /\ \E c \in Clients :
       /\ file[Head(evlist).fd] = c
       /\ (ReadError(c) /\ NextEvent) \/ (ReadPacket(c) /\ ObeyPacket)
  /\ UNCHANGED <<file, backlog, wire, sent, ended, world, passed>>

\* Mutant: the loop does not go on to the next event.
PeerDisconnected_Again ==
  /\ evlist # <<>> /\ ~Head(evlist).in
  /\ file' = [file EXCEPT ![Head(evlist).fd] = Free]
  /\ UNCHANGED <<evlist, in_packet, buf, direction, working, need_quit,
                 clients, input, passed>>

\* Reached only by an event without EPOLLIN.
PeerDisconnected ==
  /\ evlist # <<>> /\ ~Head(evlist).in
  /\ file' = [file EXCEPT ![Head(evlist).fd] = Free]
  /\ NextEvent
  /\ UNCHANGED <<in_packet, buf, direction, working, need_quit, clients, input, passed>>

-----------------------------------------------------------------------------

Init ==
  /\ file = [fd \in Fds |-> IF fd = STDIN_FILENO THEN Stdin ELSE Free]
  /\ evlist = <<>>
  /\ in_packet \in Garbage
  /\ buf = Other
  /\ direction = 0
  /\ working = 0
  /\ need_quit = FALSE
  /\ peer = [c \in Clients |-> "none"]
  /\ backlog = <<>>
  /\ wire = [c \in Clients |-> <<>>]
  /\ inbox = [c \in Clients |-> <<>>]
  /\ sent = [c \in Clients |-> 0]
  /\ typed = <<>>
  /\ passed = {}
  /\ ended = FALSE
  /\ world \in Worlds

Environment ==
  \/ \E c \in Clients :
       \/ Connect(c) \/ Arrive(c)
       \/ \E p \in Packets, n \in 1..3 : Send(c, p, n)
       \/ \E how \in {"closed", "reset"} : Leave(c, how)
  \/ \E line \in Lines : Type(line)
  \/ HangUp

Loop ==
  \/ EpollWait
  \/ Accept \/ DataFromStdin \/ DataFromClient \/ PeerDisconnected

\* After quit the program leaves, and what its peers do is of no interest.
Gone == need_quit /\ UNCHANGED vars

Next == (~need_quit /\ Environment) \/ Loop \/ Gone

\* The program runs.  Nobody need connect, send, type or leave.
Fairness == WF_vars(Loop)

Spec == Init /\ [][Next]_vars /\ Fairness

-----------------------------------------------------------------------------
(* Properties.                                                             *)

\* Every variable has its type.
TypeOK ==
  /\ file \in [Fds -> {Free, Stdin} \cup Clients]
  /\ evlist \in Seq([fd : Fds \cup {Listener}, in : BOOLEAN,
                     file : {Free, Stdin} \cup Clients])
  /\ in_packet \in Int \X Int \X Int
  /\ buf \in (Lines \ {EndOfFile}) \cup Accidents
  /\ direction \in {0, 1}
  /\ working \in {0, 1}
  /\ need_quit \in BOOLEAN
  /\ peer \in [Clients -> {"none", "open", "reset", "closed"}]
  /\ backlog \in Seq(Clients)
  /\ wire \in [Clients -> Seq(Int)] /\ inbox \in [Clients -> Seq(Int)]
  /\ sent \in [Clients -> 0..MaxPackets]
  /\ typed \in Seq(Lines)
  /\ passed \subseteq Fds \cup {Listener}
  /\ ended \in BOOLEAN /\ world \in Worlds

(***************************************************************************)
(* An event waiting to be handled still concerns the file it was reported  *)
(* for, although handling an earlier event of the same batch may have      *)
(* closed a descriptor and accept() may have given its number away.        *)
(***************************************************************************)
EventsNotStale ==
  \A k \in DOMAIN evlist :
    evlist[k].fd \in Fds => file[evlist[k].fd] = evlist[k].file

\* The descriptor of a client that was accepted.
Accepted(c) == \E fd \in Fds : file[fd] = c

(***************************************************************************)
(* Where packets arrive whole, in_packet never holds a mixture: it is what *)
(* the stack held before the first packet, or a packet clients do send,    *)
(* though the buffer is shared and read again and again from dead clients. *)
(***************************************************************************)
NoMixedPacket ==
  world.whole => in_packet \in Garbage \cup Packets

(***************************************************************************)
(* A quit typed on its own ends the program, however busy the clients,     *)
(* dead ones included, keep the loop.                                      *)
(***************************************************************************)
QuitObeyed ==
  typed # <<>> /\ Head(typed) = Quit ~>
    need_quit \/ (world.pipe /\ Len(typed) > 1)

(***************************************************************************)
(* What has arrived from an accepted client is read, however many other    *)
(* descriptors are ready all the time.                                     *)
(***************************************************************************)
ClientsServed ==
  (\E c \in Clients : Accepted(c) /\ inbox[c] # <<>>) ~>
    (\A c \in Clients : Accepted(c) => inbox[c] = <<>>) \/ need_quit

(***************************************************************************)
(* Connections are taken from the backlog as long as a descriptor is free, *)
(* and none is left for the event that came with the last one.             *)
(***************************************************************************)
ConnectionsAccepted ==
  backlog # <<>> ~>
    backlog = <<>> \/ need_quit \/ \A fd \in Fds : file[fd] # Free

-----------------------------------------------------------------------------
(* What comments of the repository say, and the code does not do.          *)

(***************************************************************************)
(* stepper.c:416, "peer disconnected": the descriptor of a client that has *)
(* gone is closed.                                                         *)
(***************************************************************************)
PeerGoneIsClosed ==
  \A c \in Clients :
    Accepted(c) /\ peer[c] = "closed" ~> ~Accepted(c) \/ need_quit
=============================================================================
