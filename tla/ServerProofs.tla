---------------------------- MODULE ServerProofs ----------------------------
(***************************************************************************)
(* Theorems about the command loop of the stepper program, for any number  *)
(* of clients, descriptors and packets.                                    *)
(***************************************************************************)
EXTENDS StepperServer, FiniteSetTheorems, SequenceTheorems, TLAPS

-----------------------------------------------------------------------------
(* The inductive invariant.                                                *)

\* No descriptor is reported twice in a batch.
DistinctInv ==
  \A j, k \in DOMAIN evlist : evlist[j].fd = evlist[k].fd => j = k

\* What an event promises is still there when its turn comes: a connection, the
\* open file it was reported for, text to read.
Promised(e) ==
  /\ e.fd = Listener => e.in /\ backlog # <<>>
  /\ e.fd \in Fds => /\ e.file = file[e.fd] /\ e.file # Free
                     /\ e.in /\ e.file = Stdin => typed # <<>>
                     /\ ~e.in => e.file = Stdin

PromiseInv == \A k \in DOMAIN evlist : Promised(evlist[k])

\* Standard input is descriptor 0 if any, and a pipe holds no end of file.
InputInv ==
  /\ \A fd \in Fds : file[fd] = Stdin => fd = STDIN_FILENO
  /\ world.pipe => \A k \in DOMAIN typed : typed[k] # EndOfFile

\* A buffer of whole packets.
Whole(s) ==
  \E m \in Nat : /\ Len(s) = 3 * m
                 /\ \A i \in 1..m : <<s[3 * i - 2], s[3 * i - 1], s[3 * i]>> \in Packets

\* Where packets arrive whole, every buffer is made of them, but for that of the
\* client that is read as text.
WholeInv ==
  world.whole => \A c \in Clients :
    wire[c] = <<>> /\ (Whole(inbox[c]) \/ file[STDIN_FILENO] = c)

\* A client has one descriptor, or waits in the backlog for it, once.
OnceInv ==
  /\ \A f, g \in Fds : file[f] \in Clients /\ file[f] = file[g] => f = g
  /\ \A f \in Fds : file[f] \in Clients => peer[file[f]] # "none"
  /\ \A j, k \in DOMAIN backlog : backlog[j] = backlog[k] => j = k
  /\ \A k \in DOMAIN backlog : /\ peer[backlog[k]] # "none"
                              /\ \A f \in Fds : file[f] # backlog[k]

Inv ==
  /\ TypeOK /\ DistinctInv /\ PromiseInv /\ InputInv /\ WholeInv /\ OnceInv
  /\ NoMixedPacket

-----------------------------------------------------------------------------
(* Lemmas about queues, and about buffers of packets.                      *)

\* A queue without its first element.
LEMMA TailFacts ==
  ASSUME NEW S, NEW s \in Seq(S), s # <<>>
  PROVE  /\ 1 \in DOMAIN s /\ Head(s) = s[1] /\ s[1] \in S
         /\ Tail(s) \in Seq(S)
         /\ \A k \in DOMAIN Tail(s) :
              k \in Nat \ {0} /\ k + 1 \in DOMAIN s /\ Tail(s)[k] = s[k + 1]
<1>1. Len(s) \in Nat \ {0}
  OBVIOUS
<1>2. /\ Tail(s) \in Seq(S) /\ DOMAIN Tail(s) = 1..(Len(s) - 1)
      /\ \A k \in 1..(Len(s) - 1) : Tail(s)[k] = s[k + 1]
  BY <1>1
<1>3. QED
  BY <1>1, <1>2

\* A queue with one element more.
LEMMA AppendFacts ==
  ASSUME NEW S, NEW s \in Seq(S), NEW e \in S
  PROVE  /\ Append(s, e) \in Seq(S) /\ Append(s, e) # <<>>
         /\ \A k \in DOMAIN Append(s, e) :
              Append(s, e)[k] = e \/ (k \in DOMAIN s /\ Append(s, e)[k] = s[k])
<1>1. Len(s) \in Nat
  OBVIOUS
<1>2. /\ Append(s, e) \in Seq(S) /\ Len(Append(s, e)) = Len(s) + 1
      /\ DOMAIN Append(s, e) = 1..(Len(s) + 1)
      /\ \A k \in 1..(Len(s) + 1) :
           Append(s, e)[k] = IF k <= Len(s) THEN s[k] ELSE e
  BY <1>1
<1>3. QED
  BY <1>1, <1>2

\* Two buffers, one after the other.
LEMMA Concatenation ==
  ASSUME NEW S, NEW a \in Seq(S), NEW b \in Seq(S)
  PROVE  /\ a \o b \in Seq(S) /\ Len(a \o b) = Len(a) + Len(b)
         /\ \A j \in 1..(Len(a) + Len(b)) :
              (a \o b)[j] = IF j <= Len(a) THEN a[j] ELSE b[j - Len(a)]
  OBVIOUS

\* A packet is a sequence of three numbers,
LEMMA TripleIsSeq ==
  ASSUME NEW p \in Int \X Int \X Int
  PROVE  /\ p \in Seq(Int) /\ Len(p) = 3
         /\ p[1] \in Int /\ p[2] \in Int /\ p[3] \in Int /\ p = <<p[1], p[2], p[3]>>
<1>1. PICK x \in Int, y \in Int, z \in Int : p = <<x, y, z>>
  OBVIOUS
<1>2. p \in Seq(Int) /\ Len(p) = 3
  BY <1>1
<1>3. p[1] = x /\ p[2] = y /\ p[3] = z
  BY <1>1
<1>4. QED
  BY <1>1, <1>2, <1>3

\* and three numbers are a packet.
LEMMA SeqIsTriple ==
  ASSUME NEW s \in Seq(Int), Len(s) = 3
  PROVE  s = <<s[1], s[2], s[3]>> /\ s \in Int \X Int \X Int
<1>1. \A u \in Seq(Int) : Len(u) = 3 => u \in [1..3 -> Int]
  <2>1. \A u \in Seq(Int) : u \in [1..Len(u) -> Int]
    OBVIOUS
  <2>2. QED
    BY <2>1, Zenon
<1> DEFINE t == <<s[1], s[2], s[3]>>
<1>2. s[1] \in Int /\ s[2] \in Int /\ s[3] \in Int
  BY <1>1
<1>3. t \in Seq(Int) /\ Len(t) = 3 /\ t[1] = s[1] /\ t[2] = s[2] /\ t[3] = s[3]
  BY <1>2
<1>4. t \in Int \X Int \X Int
  BY <1>2
<1>5. \A k \in 1..3 : k = 1 \/ k = 2 \/ k = 3
  OBVIOUS
<1> HIDE DEF t
<1>6. s \in [1..3 -> Int] /\ t \in [1..3 -> Int]
  BY <1>1, <1>3
<1>7. \A k \in 1..3 : s[k] = t[k]
  BY <1>3, <1>5
<1>8. s = t
  BY <1>6, <1>7
<1>9. QED
  BY <1>4, <1>8 DEF t

\* A packet that arrives whole is appended to whole packets.
LEMMA SendWhole ==
  ASSUME NEW s \in Seq(Int), NEW p \in Packets, Whole(s)
  PROVE  Whole(s \o SubSeq(p, 1, 3)) /\ SubSeq(p, 4, 3) = <<>>
<1>1. p \in Int \X Int \X Int
  BY ServerAssumption
<1>2. p \in Seq(Int) /\ Len(p) = 3 /\ p = <<p[1], p[2], p[3]>>
  BY <1>1, TripleIsSeq
<1>3. SubSeq(p, 4, 3) = <<>> /\ SubSeq(p, 1, 3) = p
  BY <1>2
<1>4. PICK m \in Nat :
        /\ Len(s) = 3 * m
        /\ \A i \in 1..m : <<s[3 * i - 2], s[3 * i - 1], s[3 * i]>> \in Packets
  BY DEF Whole
<1> DEFINE t == s \o p
<1>5. /\ Len(t) = 3 * m + 3
      /\ \A j \in 1..(3 * m) : t[j] = s[j]
      /\ t[3 * m + 1] = p[1] /\ t[3 * m + 2] = p[2] /\ t[3 * m + 3] = p[3]
  <2> DEFINE l == Len(s)
  <2> HIDE <1>1
  <2>1. l \in Nat /\ p \in Seq(Int) /\ Len(p) = 3
    BY <1>2
  <2>2. Len(t) = l + 3 /\ \A j \in 1..(l + 3) : t[j] = IF j <= l THEN s[j] ELSE p[j - l]
    <3>1. \A a, b \in Seq(Int) :
            /\ Len(a \o b) = Len(a) + Len(b)
            /\ \A j \in 1..(Len(a) + Len(b)) :
                 (a \o b)[j] = IF j <= Len(a) THEN a[j] ELSE b[j - Len(a)]
      BY Concatenation
    <3>2. QED
      BY <2>1, <3>1, Zenon
  <2>3. l = 3 * m
    BY <1>4
  <2> HIDE DEF l, t
  <2>4. \A j \in 1..l : t[j] = s[j]
    BY <2>1, <2>2
  <2>5. t[l + 1] = p[1] /\ t[l + 2] = p[2] /\ t[l + 3] = p[3]
    BY <2>1, <2>2
  <2>6. QED
    BY <2>2, <2>3, <2>4, <2>5
<1> HIDE DEF t
<1>6. ASSUME NEW i \in 1..(m + 1)
      PROVE  <<t[3 * i - 2], t[3 * i - 1], t[3 * i]>> \in Packets
  <2>1. CASE i \in 1..m
    <3>1. /\ 3 * i - 2 \in 1..(3 * m) /\ 3 * i - 1 \in 1..(3 * m)
          /\ 3 * i \in 1..(3 * m)
      BY <2>1
    <3>2. QED
      BY <1>4, <1>5, <2>1, <3>1
  <2>2. CASE i = m + 1
    <3>1. 3 * i - 2 = 3 * m + 1 /\ 3 * i - 1 = 3 * m + 2 /\ 3 * i = 3 * m + 3
      BY <2>2
    <3>2. QED
      BY <1>2, <1>5, <3>1
  <2>3. QED
    BY <2>1, <2>2
<1>7. Len(t) = 3 * (m + 1) /\ m + 1 \in Nat
  BY <1>5
<1>8. Whole(t)
  BY <1>6, <1>7 DEF Whole
<1>9. QED
  BY <1>3, <1>8 DEF t

\* What read() does to the buffer of a client, s, and the packet buffer, q: it
\* leaves a packet, and of whole packets it takes one or, at the end, none.
LEMMA ReadTakes ==
  \A s \in Seq(Int), q \in Int \X Int \X Int :
    LET new  == SubSeq(s, 1, IF Len(s) < 3 THEN Len(s) ELSE 3)
        p    == new \o SubSeq(q, Len(new) + 1, 3)
        rest == SubSeq(s, Len(new) + 1, Len(s))
    IN  /\ p \in Int \X Int \X Int
        /\ rest \in Seq(Int)
        /\ Whole(s) => Whole(rest) /\ (p = q \/ p \in Packets)
<1> SUFFICES ASSUME NEW s \in Seq(Int), NEW q \in Int \X Int \X Int
             PROVE  LET new  == SubSeq(s, 1, IF Len(s) < 3 THEN Len(s) ELSE 3)
                        p    == new \o SubSeq(q, Len(new) + 1, 3)
                        rest == SubSeq(s, Len(new) + 1, Len(s))
                    IN  /\ p \in Int \X Int \X Int
                        /\ rest \in Seq(Int)
                        /\ Whole(s) => Whole(rest) /\ (p = q \/ p \in Packets)
  OBVIOUS
<1> DEFINE n    == IF Len(s) < 3 THEN Len(s) ELSE 3
           new  == SubSeq(s, 1, n)
           p    == new \o SubSeq(q, Len(new) + 1, 3)
           rest == SubSeq(s, Len(new) + 1, Len(s))
<1>1. Len(s) \in Nat
  OBVIOUS
<1>2. n \in 0..3 /\ n <= Len(s)
  <2>1. \A l \in Nat : LET k == IF l < 3 THEN l ELSE 3 IN k \in 0..3 /\ k <= l
    OBVIOUS
  <2>2. QED
    BY <1>1, <2>1, Zenon
<1>3. n = 3 \/ n = Len(s)
  OBVIOUS
<1> HIDE DEF n
<1>4. new \in Seq(Int) /\ Len(new) = n /\ \A j \in 1..n : new[j] = s[j]
  BY <1>1, <1>2
<1>5. q \in Seq(Int) /\ Len(q) = 3 /\ q = <<q[1], q[2], q[3]>>
  BY TripleIsSeq
<1> HIDE DEF new
<1>6. rest \in Seq(Int) /\ Len(rest) = Len(s) - n
      /\ \A j \in 1..(Len(s) - n) : rest[j] = s[j + n]
  BY <1>1, <1>2, <1>4
<1>7. /\ SubSeq(q, n + 1, 3) \in Seq(Int) /\ Len(SubSeq(q, n + 1, 3)) = 3 - n
      /\ \A j \in 1..(3 - n) : SubSeq(q, n + 1, 3)[j] = q[j + n]
  BY <1>2, <1>5
<1>8. p \in Seq(Int) /\ Len(p) = 3 /\ \A j \in 1..n : p[j] = s[j]
  BY <1>2, <1>4, <1>7
<1>9. n = 0 => p = q
  <2>1. n = 0 => new = <<>> /\ SubSeq(q, n + 1, 3) = q
    BY <1>4, <1>5
  <2>2. QED
    BY <1>4, <1>5, <2>1
<1> HIDE DEF p, rest
<1>10. p \in Int \X Int \X Int /\ p = <<p[1], p[2], p[3]>>
  BY <1>8, SeqIsTriple
<1>11. ASSUME Whole(s) PROVE Whole(rest) /\ (p = q \/ p \in Packets)
  <2>1. PICK m \in Nat :
          /\ Len(s) = 3 * m
          /\ \A i \in 1..m : <<s[3 * i - 2], s[3 * i - 1], s[3 * i]>> \in Packets
    BY <1>11 DEF Whole
  <2>2. CASE m = 0
    <3>1. n = 0 /\ Len(rest) = 3 * 0
      BY <1>1, <1>2, <1>6, <2>1, <2>2
    <3>2. QED
      BY <1>9, <3>1 DEF Whole
  <2>3. CASE m # 0
    <3>1. n = 3 /\ 1 \in 1..m /\ m - 1 \in Nat /\ Len(rest) = 3 * (m - 1)
      BY <1>1, <1>2, <1>3, <1>6, <2>1, <2>3
    <3>2. p = <<s[1], s[2], s[3]>>
      BY <1>8, <1>10, <3>1
    <3>3. p \in Packets
      <4>1. <<s[3 * 1 - 2], s[3 * 1 - 1], s[3 * 1]>> \in Packets
        BY <2>1, <3>1
      <4>2. 3 * 1 - 2 = 1 /\ 3 * 1 - 1 = 2 /\ 3 * 1 = 3
        OBVIOUS
      <4>3. QED
        BY <3>2, <4>1, <4>2
    <3>4. ASSUME NEW i \in 1..(m - 1)
          PROVE  <<rest[3 * i - 2], rest[3 * i - 1], rest[3 * i]>> \in Packets
      <4>1. /\ i + 1 \in 1..m /\ 3 * (i + 1) - 2 = (3 * i - 2) + 3
            /\ 3 * (i + 1) - 1 = (3 * i - 1) + 3 /\ 3 * (i + 1) = 3 * i + 3
        OBVIOUS
      <4>2. /\ 3 * i - 2 \in 1..(Len(s) - n) /\ 3 * i - 1 \in 1..(Len(s) - n)
            /\ 3 * i \in 1..(Len(s) - n)
        BY <2>1, <3>1
      <4>3. /\ rest[3 * i - 2] = s[(3 * i - 2) + 3]
            /\ rest[3 * i - 1] = s[(3 * i - 1) + 3] /\ rest[3 * i] = s[3 * i + 3]
        BY <1>6, <3>1, <4>2
      <4>4. QED
        BY <2>1, <4>1, <4>3
    <3>5. Whole(rest)
      BY <3>1, <3>4 DEF Whole
    <3>6. QED
      BY <3>3, <3>5
  <2>4. QED
    BY <2>2, <2>3
<1>12. QED
  BY <1>6, <1>10, <1>11 DEF p, rest, new, n

-----------------------------------------------------------------------------
(* The start, and the other ends.                                          *)

\* What an epoll_event says.
Events == [fd : Fds \cup {Listener}, in : BOOLEAN, file : {Free, Stdin} \cup Clients]

\* The names of what a descriptor can refer to are different, and so are the
\* descriptors.
LEMMA Names ==
  /\ Free # Stdin /\ Free \notin Clients /\ Stdin \notin Clients
  /\ Listener \notin Fds /\ STDIN_FILENO \in Fds /\ Listener # STDIN_FILENO
  BY ServerAssumption DEF Free, Stdin, Listener, Fds, STDIN_FILENO

\* The start of the program has the invariant.
LEMMA InitInv == Init => Inv
<1> SUFFICES ASSUME Init PROVE Inv
  OBVIOUS
<1>1. TypeOK
  <2>1. in_packet \in Int \X Int \X Int
    BY ServerAssumption DEF Init
  <2>2. sent \in [Clients -> 0..MaxPackets]
    BY ServerAssumption DEF Init
  <2>3. file \in [Fds -> {Free, Stdin} \cup Clients]
    BY DEF Init
  <2>4. wire \in [Clients -> Seq(Int)] /\ inbox \in [Clients -> Seq(Int)]
    BY DEF Init
  <2>5. peer \in [Clients -> {"none", "open", "reset", "closed"}]
    BY DEF Init
  <2>6. evlist \in Seq(Events) /\ backlog \in Seq(Clients) /\ typed \in Seq(Lines)
    BY DEF Init
  <2>7. /\ buf \in Accidents /\ direction = 0 /\ working = 0 /\ need_quit = FALSE
        /\ passed = {} /\ ended = FALSE /\ world \in Worlds
    BY DEF Init, Accidents
  <2>8. QED
    BY <2>1, <2>2, <2>3, <2>4, <2>5, <2>6, <2>7 DEF TypeOK, Events
<1>2. DistinctInv /\ PromiseInv
  BY DEF Init, DistinctInv, PromiseInv
<1>3. InputInv
  BY Names DEF Init, InputInv
<1>4. Whole(<<>>)
  BY DEF Whole
<1>5. WholeInv /\ OnceInv /\ NoMixedPacket
  BY <1>4, Names DEF Init, WholeInv, OnceInv, NoMixedPacket
<1>6. QED
  BY <1>1, <1>2, <1>3, <1>5 DEF Inv

\* What the other ends do keeps the promises of the events.
LEMMA PromisesKept ==
  ASSUME PromiseInv, UNCHANGED <<file, evlist>>,
         backlog # <<>> => backlog' # <<>>, typed # <<>> => typed' # <<>>
  PROVE  PromiseInv'
  BY DEF PromiseInv, Promised

\* What a client that has connected does is nothing to the others' descriptors.
LEMMA OnceKept ==
  ASSUME OnceInv, UNCHANGED <<file, backlog>>,
         \A c \in Clients : peer[c] # "none" => peer'[c] # "none",
         backlog \in Seq(Clients)
  PROVE  OnceInv'
<1>1. \A k \in DOMAIN backlog : backlog[k] \in Clients
  OBVIOUS
<1>2. QED
  BY <1>1 DEF OnceInv

\* A client connects, sends, is heard or leaves.
LEMMA ClientStep ==
  ASSUME Inv, NEW c \in Clients,
         \/ Connect(c) \/ Arrive(c)
         \/ \E p \in Packets, n \in 1..3 : Send(c, p, n)
         \/ \E how \in {"closed", "reset"} : Leave(c, how)
  PROVE  Inv'
<1> USE DEF Inv
<1> USE DEF server, clients, input
<1>1. CASE Connect(c)
  <2>1. /\ peer' = [peer EXCEPT ![c] = "open"] /\ backlog' = Append(backlog, c)
        /\ UNCHANGED <<server, wire, inbox, sent, input, passed>>
    BY <1>1 DEF Connect
  <2>2. backlog' \in Seq(Clients) /\ backlog' # <<>>
    BY <2>1, AppendFacts DEF TypeOK
  <2>3. TypeOK'
    BY <2>1, <2>2 DEF TypeOK
  <2>4. PromiseInv'
    BY <2>1, <2>2, PromisesKept
  <2>5. OnceInv'
    <3>1. /\ peer[c] = "none" /\ peer'[c] # "none" /\ backlog \in Seq(Clients)
          /\ \A d \in Clients \ {c} : peer'[d] = peer[d]
      BY <1>1, <2>1 DEF Connect, TypeOK
    <3>2. /\ Len(backlog) \in Nat /\ DOMAIN backlog = 1..Len(backlog)
          /\ DOMAIN backlog' = 1..(Len(backlog) + 1) /\ backlog'[Len(backlog) + 1] = c
          /\ \A k \in 1..Len(backlog) : backlog'[k] = backlog[k]
          /\ \A k \in 1..Len(backlog) : backlog[k] \in Clients
      BY <2>1, <3>1
    <3>3. \A k \in DOMAIN backlog' : k \in 1..Len(backlog) \/ k = Len(backlog) + 1
      BY <3>2
    <3>4. \A f \in Fds : file[f] # c
      BY <3>1 DEF OnceInv
    <3>5. \A k \in 1..Len(backlog) : /\ backlog[k] # c /\ peer'[backlog[k]] # "none"
                                     /\ \A f \in Fds : file[f] # backlog[k]
      BY <3>1, <3>2 DEF OnceInv
    <3>6. \A j, k \in DOMAIN backlog' : backlog'[j] = backlog'[k] => j = k
      BY <3>2, <3>3, <3>5 DEF OnceInv
    <3>7. \A k \in DOMAIN backlog' : /\ peer'[backlog'[k]] # "none"
                                     /\ \A f \in Fds : file[f] # backlog'[k]
      BY <3>1, <3>2, <3>3, <3>4, <3>5
    <3>8. \A f \in Fds : file[f] \in Clients => peer'[file[f]] # "none"
      BY <3>1, <3>4 DEF OnceInv
    <3>9. UNCHANGED file
      BY <2>1
    <3>10. QED
      BY <3>6, <3>7, <3>8, <3>9 DEF OnceInv
  <2>6. QED
    BY <2>1, <2>3, <2>4, <2>5 DEF DistinctInv, InputInv, WholeInv, Whole, NoMixedPacket
<1>2. CASE Arrive(c)
  <2>1. /\ wire[c] # <<>>
        /\ inbox' = [inbox EXCEPT ![c] = @ \o wire[c]]
        /\ wire' = [wire EXCEPT ![c] = <<>>]
        /\ UNCHANGED <<server, peer, backlog, sent, input, passed>>
    BY <1>2 DEF Arrive
  <2>2. inbox[c] \o wire[c] \in Seq(Int)
    BY DEF TypeOK
  <2>3. inbox' \in [Clients -> Seq(Int)] /\ wire' \in [Clients -> Seq(Int)]
    BY <2>1, <2>2 DEF TypeOK
  <2>4. TypeOK'
    BY <2>1, <2>3 DEF TypeOK
  <2>5. PromiseInv'
    BY <2>1, PromisesKept
  <2>6. WholeInv' /\ OnceInv'
    BY <2>1, OnceKept DEF WholeInv, TypeOK
  <2>7. QED
    BY <2>1, <2>4, <2>5, <2>6 DEF DistinctInv, InputInv, NoMixedPacket
<1>3. ASSUME NEW p \in Packets, NEW n \in 1..3, Send(c, p, n) PROVE Inv'
  <2>1. /\ sent[c] < MaxPackets /\ wire[c] = <<>>
        /\ world.whole => n = 3
        /\ inbox' = [inbox EXCEPT ![c] = @ \o SubSeq(p, 1, n)]
        /\ wire' = [wire EXCEPT ![c] = SubSeq(p, n + 1, 3)]
        /\ sent' = [sent EXCEPT ![c] = @ + 1]
        /\ UNCHANGED <<server, peer, backlog, input, passed>>
    BY <1>3 DEF Send
  <2>2. p[1] \in Int /\ p[2] \in Int /\ p[3] \in Int
    <3>1. p \in Int \X Int \X Int
      BY ServerAssumption
    <3>2. QED
      BY <3>1, TripleIsSeq
  <2>3. SubSeq(p, 1, n) \in Seq(Int) /\ SubSeq(p, n + 1, 3) \in Seq(Int)
    <3>1. \A i \in 1..3 : p[i] \in Int
      <4>1. \A i \in 1..3 : i = 1 \/ i = 2 \/ i = 3
        OBVIOUS
      <4>2. QED
        BY <2>2, <4>1, Zenon
    <3>2. \A i \in 1..n : p[i] \in Int
      BY <3>1
    <3>3. \A i \in (n + 1)..3 : p[i] \in Int
      BY <3>1
    <3>4. n \in Int /\ n + 1 \in Int /\ 1 \in Int /\ 3 \in Int
      OBVIOUS
    <3>5. SubSeq(p, 1, n) \in Seq(Int)
      BY <3>2, <3>4, SubSeqProperties
    <3>6. SubSeq(p, n + 1, 3) \in Seq(Int)
      BY <3>3, <3>4, SubSeqProperties
    <3>7. QED
      BY <3>5, <3>6
  <2>4. inbox[c] \o SubSeq(p, 1, n) \in Seq(Int)
    BY <2>3 DEF TypeOK
  <2>5. inbox' \in [Clients -> Seq(Int)] /\ wire' \in [Clients -> Seq(Int)]
    BY <2>1, <2>3, <2>4 DEF TypeOK
  <2>6. sent' \in [Clients -> 0..MaxPackets]
    <3>1. sent[c] \in 0..MaxPackets /\ sent[c] + 1 \in 0..MaxPackets
      <4>1. sent[c] \in 0..MaxPackets
        BY DEF TypeOK
      <4>2. \A m \in Nat : \A k \in 0..m : k < m => k + 1 \in 0..m
        OBVIOUS
      <4>3. QED
        BY <2>1, <4>1, <4>2, ServerAssumption, Zenon
    <3>2. QED
      BY <2>1, <3>1 DEF TypeOK
  <2>7. TypeOK'
    BY <2>1, <2>5, <2>6 DEF TypeOK
  <2>8. PromiseInv'
    BY <2>1, PromisesKept
  <2>9. WholeInv'
    <3> SUFFICES ASSUME world.whole, NEW d \in Clients
                 PROVE  wire'[d] = <<>> /\ (Whole(inbox'[d]) \/ file[STDIN_FILENO] = d)
      BY <2>1 DEF WholeInv
    <3>1. wire[d] = <<>> /\ (Whole(inbox[d]) \/ file[STDIN_FILENO] = d)
      BY DEF WholeInv
    <3>2. CASE d = c
      <4>1. wire'[c] = SubSeq(p, 4, 3) /\ inbox'[c] = inbox[c] \o SubSeq(p, 1, 3)
        <5>1. n + 1 = 4
          BY <2>1
        <5>2. inbox \in [Clients -> Seq(Int)] /\ wire \in [Clients -> Seq(Int)]
          BY DEF TypeOK
        <5>3. QED
          BY <2>1, <5>1, <5>2, Zenon
      <4>2. inbox[c] \in Seq(Int)
        BY DEF TypeOK
      <4>3. /\ SubSeq(p, 4, 3) = <<>>
            /\ Whole(inbox[c]) => Whole(inbox[c] \o SubSeq(p, 1, 3))
        <5>1. SubSeq(p, 4, 3) = <<>>
          OBVIOUS
        <5>2. QED
          BY <4>2, <5>1, SendWhole
      <4>4. QED
        BY <3>1, <3>2, <4>1, <4>3
    <3>3. CASE d # c
      BY <2>1, <3>1, <3>3 DEF TypeOK
    <3>4. QED
      BY <3>2, <3>3
  <2>10. OnceInv'
    BY <2>1, OnceKept DEF TypeOK
  <2>11. QED
    BY <2>1, <2>7, <2>8, <2>9, <2>10 DEF DistinctInv, InputInv, NoMixedPacket
<1>4. ASSUME NEW how \in {"closed", "reset"}, Leave(c, how) PROVE Inv'
  <2>1. /\ peer' = [peer EXCEPT ![c] = how] /\ wire' = [wire EXCEPT ![c] = <<>>]
        /\ UNCHANGED <<server, backlog, inbox, sent, input, passed>>
    BY <1>4 DEF Leave
  <2>2. peer' \in [Clients -> {"none", "open", "reset", "closed"}]
    BY <2>1 DEF TypeOK
  <2>3. wire' \in [Clients -> Seq(Int)]
    BY <2>1 DEF TypeOK
  <2>4. TypeOK'
    BY <2>1, <2>2, <2>3 DEF TypeOK
  <2>5. PromiseInv'
    BY <2>1, PromisesKept
  <2>6. WholeInv'
    BY <2>1 DEF WholeInv, TypeOK
  <2>7. OnceInv'
    BY <2>1, OnceKept DEF TypeOK
  <2>8. QED
    BY <2>1, <2>4, <2>5, <2>6, <2>7 DEF DistinctInv, InputInv, NoMixedPacket
<1>5. QED
  BY <1>1, <1>2, <1>3, <1>4

\* Someone types a line, or the writer of the pipe goes.
LEMMA InputStep ==
  ASSUME Inv, HangUp \/ \E line \in Lines : Type(line)
  PROVE  Inv'
<1> USE DEF Inv
<1> USE DEF server, clients, input
<1>1. CASE HangUp
  <2>1. ended' = TRUE /\ UNCHANGED <<server, clients, typed, world, passed>>
    BY <1>1 DEF HangUp
  <2>2. PromiseInv'
    BY <2>1, PromisesKept
  <2>3. TypeOK'
    BY <2>1 DEF TypeOK
  <2>4. QED
    BY <2>1, <2>2, <2>3 DEF DistinctInv, InputInv, WholeInv, OnceInv, NoMixedPacket
<1>2. ASSUME NEW line \in Lines, Type(line) PROVE Inv'
  <2>1. /\ world.pipe => line # EndOfFile
        /\ typed' = Append(typed, line)
        /\ UNCHANGED <<server, clients, ended, world, passed>>
    BY <1>2 DEF Type
  <2>2. typed \in Seq(Lines)
    BY DEF TypeOK
  <2>3. /\ typed' \in Seq(Lines) /\ typed' # <<>>
        /\ \A k \in DOMAIN typed' :
             typed'[k] = line \/ (k \in DOMAIN typed /\ typed'[k] = typed[k])
    BY <2>1, <2>2, AppendFacts
  <2>4. TypeOK'
    BY <2>1, <2>3 DEF TypeOK
  <2>5. PromiseInv'
    BY <2>1, <2>3, PromisesKept
  <2>6. InputInv'
    BY <2>1, <2>3 DEF InputInv
  <2>7. QED
    BY <2>1, <2>4, <2>5, <2>6 DEF DistinctInv, WholeInv, OnceInv, NoMixedPacket
<1>3. QED
  BY <1>1, <1>2

-----------------------------------------------------------------------------
(* The loop.                                                               *)

\* What epoll reports is true when it is reported.
LEMMA EventPromises ==
  ASSUME TypeOK, NEW fd \in Ready
  PROVE  Event(fd) \in Events /\ Event(fd).fd = fd /\ Promised(Event(fd))
<1>1. fd \in Fds \cup {Listener} /\ (Readable(fd) \/ HungUp(fd))
  BY DEF Ready
<1> DEFINE e == Event(fd)
<1>2. Readable(fd) \in BOOLEAN
  BY DEF Readable
<1>3. /\ e.fd = fd /\ e.in = Readable(fd)
      /\ e.file = IF fd = Listener THEN Free ELSE file[fd]
  BY DEF Event
<1>4. e \in Events
  BY <1>1, <1>2 DEF Event, Events, TypeOK
<1> HIDE DEF e
<1>5. fd = Listener => Readable(fd) /\ backlog # <<>>
  BY <1>1, Names DEF Readable, HungUp
<1>6. fd \in Fds => file[fd] # Free /\ (Readable(fd) /\ file[fd] = Stdin => typed # <<>>)
  BY <1>1, Names DEF Readable, HungUp
<1>7. fd \in Fds /\ ~Readable(fd) => file[fd] = Stdin
  BY <1>1 DEF HungUp
<1>8. Promised(e)
  BY <1>3, <1>5, <1>6, <1>7, Names DEF Promised
<1>9. QED
  BY <1>3, <1>4, <1>8 DEF e

\* When an event has been handled, and the rest of the batch is still to come or
\* was given up, it is enough that the other events' promises were kept.
LEMMA Handled ==
  ASSUME TypeOK, DistinctInv, PromiseInv, evlist # <<>>,
         evlist' = Tail(evlist) \/ evlist' = <<>>,
         \A e \in Events : Promised(e) /\ e.fd # Head(evlist).fd => Promised(e)'
  PROVE  /\ Head(evlist) \in Events /\ Promised(Head(evlist))
         /\ evlist' \in Seq(Events) /\ DistinctInv' /\ PromiseInv'
<1>1. evlist \in Seq(Events)
  BY DEF TypeOK, Events
<1>2. /\ 1 \in DOMAIN evlist /\ Head(evlist) = evlist[1] /\ evlist[1] \in Events
      /\ Tail(evlist) \in Seq(Events)
      /\ \A k \in DOMAIN Tail(evlist) :
           k \in Nat \ {0} /\ k + 1 \in DOMAIN evlist /\ Tail(evlist)[k] = evlist[k + 1]
  BY <1>1, TailFacts
<1>3. Head(evlist) \in Events /\ Promised(Head(evlist))
  BY <1>2 DEF PromiseInv
<1>4. CASE evlist' = <<>>
  <2>1. evlist' \in Seq(Events) /\ DOMAIN evlist' = {}
    BY <1>4
  <2>2. QED
    BY <1>3, <2>1 DEF DistinctInv, PromiseInv
<1>5. CASE evlist' = Tail(evlist)
  <2>1. ASSUME NEW j \in DOMAIN evlist', NEW k \in DOMAIN evlist',
               evlist'[j].fd = evlist'[k].fd
        PROVE  j = k
    <3>1. /\ j + 1 \in DOMAIN evlist /\ k + 1 \in DOMAIN evlist /\ j \in Nat /\ k \in Nat
          /\ evlist[j + 1].fd = evlist[k + 1].fd
      BY <1>2, <1>5, <2>1
    <3>2. j + 1 = k + 1
      BY <3>1 DEF DistinctInv
    <3>3. QED
      BY <3>1, <3>2
  <2>2. ASSUME NEW k \in DOMAIN evlist' PROVE Promised(evlist[k])'
    <3>1. k \in Nat \ {0} /\ k + 1 \in DOMAIN evlist /\ evlist'[k] = evlist[k + 1]
      BY <1>2, <1>5
    <3>2. evlist[k + 1] \in Events /\ Promised(evlist[k + 1])
      BY <1>1, <3>1 DEF PromiseInv
    <3>3. evlist[k + 1].fd # Head(evlist).fd
      <4>1. k + 1 # 1
        BY <3>1
      <4>2. QED
        BY <1>2, <3>1, <4>1 DEF DistinctInv
    <3>4. PICK e \in Events : evlist'[k] = e /\ Promised(e) /\ e.fd # Head(evlist).fd
      BY <3>1, <3>2, <3>3
    <3>5. Promised(e)'
      BY <3>4
    <3>6. QED
      BY <3>4, <3>5 DEF Promised
  <2>3. DistinctInv'
    BY <2>1 DEF DistinctInv
  <2>4. PromiseInv'
    BY <2>2 DEF PromiseInv
  <2>5. QED
    BY <1>2, <1>3, <1>5, <2>3, <2>4
<1>6. QED
  BY <1>4, <1>5

\* A batch is at most as long as there are descriptors, and has no one twice.
LEMMA BatchFacts ==
  ASSUME NEW b \in Batches
  PROVE  \E n \in Nat : b \in [1..n -> Ready] /\ \A j, k \in 1..n : b[j] = b[k] => j = k
<1>1. IsFiniteSet(Ready)
  <2>1. IsFiniteSet(0..(MaxFds + 1))
    BY ServerAssumption, FS_Interval
  <2>2. Ready \in SUBSET (0..(MaxFds + 1))
    BY ServerAssumption DEF Ready, Fds, Listener
  <2>3. QED
    BY <2>1, <2>2, FS_Subset
<1> DEFINE n == IF Cardinality(Ready) < EventSize THEN Cardinality(Ready) ELSE EventSize
<1>2. n \in Nat
  BY <1>1, FS_CardinalityType, ServerAssumption
<1>3. b \in [1..n -> Ready] /\ IsInjective(b)
  BY DEF Batches
<1> HIDE DEF n
<1>4. \A j, k \in 1..n : b[j] = b[k] => j = k
  BY <1>3 DEF IsInjective
<1>5. QED
  BY <1>2, <1>3, <1>4

\* epoll_wait() keeps the invariant.
LEMMA EpollWaitStep ==
  ASSUME Inv, EpollWait
  PROVE  Inv'
<1> USE DEF Inv
<1> USE DEF clients, input
<1>0. PICK b \in Batches : /\ evlist' = [k \in DOMAIN b |-> Event(b[k])]
                            /\ passed' = Ready \ ToSet(b)
  BY DEF EpollWait
<1>1. /\ evlist' = [k \in DOMAIN b |-> Event(b[k])]
      /\ passed' = Ready \ ToSet(b)
      /\ UNCHANGED <<file, in_packet, buf, direction, working, need_quit, clients, input>>
  BY <1>0 DEF EpollWait
<1>2. PICK n \in Nat : b \in [1..n -> Ready] /\ \A j, k \in 1..n : b[j] = b[k] => j = k
  BY BatchFacts
<1>3. DOMAIN evlist' = 1..n /\ \A k \in 1..n : evlist'[k] = Event(b[k]) /\ b[k] \in Ready
  BY <1>1, <1>2
<1>4. \A k \in 1..n : /\ evlist'[k] \in Events /\ evlist'[k].fd = b[k]
                      /\ Promised(evlist'[k])
  BY <1>3, EventPromises
<1>5. evlist' \in Seq(Events)
  <2>1. evlist' = [k \in 1..n |-> evlist'[k]]
    BY <1>1, <1>2
  <2>2. QED
    BY <1>4, <2>1
<1>6. passed' \subseteq Fds \cup {Listener}
  BY <1>1 DEF Ready
<1>7. TypeOK'
  BY <1>1, <1>5, <1>6 DEF TypeOK, Events
<1>8. DistinctInv'
  BY <1>2, <1>3, <1>4 DEF DistinctInv
<1>9. PromiseInv'
  BY <1>1, <1>3, <1>4 DEF PromiseInv, Promised
<1>10. QED
  BY <1>1, <1>7, <1>8, <1>9 DEF InputInv, WholeInv, Whole, OnceInv, NoMixedPacket

\* A connection that is accepted, refused or dropped.
LEMMA AcceptStep ==
  ASSUME Inv, Accept
  PROVE  Inv'
<1> USE DEF Inv
<1> USE DEF input
<1>1. /\ evlist # <<>> /\ Head(evlist).fd = Listener /\ evlist' = Tail(evlist)
      /\ UNCHANGED <<in_packet, buf, direction, working, need_quit,
                     wire, inbox, sent, input, passed>>
  BY DEF Accept, NextEvent
<1>2. \/ UNCHANGED <<file, backlog, peer>>
      \/ /\ peer' = [peer EXCEPT ![Head(backlog)] = "closed"]
         /\ backlog' = Tail(backlog) /\ UNCHANGED file
      \/ \E fd \in Fds : /\ file[fd] = Free
                         /\ file' = [file EXCEPT ![fd] = Head(backlog)]
                         /\ backlog' = Tail(backlog) /\ UNCHANGED peer
  BY DEF Accept
<1>3. Promised(Head(evlist))
  <2>1. evlist \in Seq(Events)
    BY DEF TypeOK, Events
  <2>2. 1 \in DOMAIN evlist /\ Head(evlist) = evlist[1]
    BY <1>1, <2>1, TailFacts
  <2>3. QED
    BY <2>2 DEF PromiseInv
<1>4. Head(backlog) \in Clients /\ Tail(backlog) \in Seq(Clients)
  <2>1. backlog # <<>> /\ backlog \in Seq(Clients)
    BY <1>1, <1>3 DEF Promised, TypeOK
  <2>2. QED
    BY <2>1, TailFacts
<1>5. /\ file' \in [Fds -> {Free, Stdin} \cup Clients]
      /\ peer' \in [Clients -> {"none", "open", "reset", "closed"}]
      /\ backlog' \in Seq(Clients)
  BY <1>2, <1>4 DEF TypeOK
<1>6. \A fd \in Fds : /\ file[fd] # Free => file'[fd] = file[fd]
                      /\ file[fd] = Free => file'[fd] # Stdin
  BY <1>2, <1>4, Names DEF TypeOK
<1>7. \A e \in Events : Promised(e) /\ e.fd # Head(evlist).fd => Promised(e)'
  BY <1>1, <1>6 DEF Promised
<1>8. evlist' \in Seq(Events) /\ DistinctInv' /\ PromiseInv'
  BY <1>1, <1>7, Handled
<1>9. TypeOK'
  BY <1>1, <1>5, <1>8 DEF TypeOK, Events
<1>10. InputInv'
  BY <1>1, <1>6 DEF InputInv
<1>11. WholeInv' /\ NoMixedPacket'
  <2>1. \A c \in Clients : file[STDIN_FILENO] = c => file'[STDIN_FILENO] = c
    BY <1>6, Names
  <2>2. QED
    BY <1>1, <2>1 DEF WholeInv, NoMixedPacket
<1>12. OnceInv'
  <2>1. backlog # <<>> /\ backlog \in Seq(Clients)
    BY <1>1, <1>3 DEF Promised, TypeOK
  <2>2. PICK c \in Clients : c = Head(backlog) /\ c = backlog[1] /\ 1 \in DOMAIN backlog
    BY <2>1, TailFacts
  <2>3. \A k \in DOMAIN Tail(backlog) :
          k \in Nat \ {0} /\ k + 1 \in DOMAIN backlog /\ Tail(backlog)[k] = backlog[k + 1]
    BY <2>1, TailFacts
  <2>4. \A k \in DOMAIN backlog : backlog[k] \in Clients
    BY <2>1
  <2>5. /\ \A d \in Clients : peer[d] # "none" => peer'[d] # "none"
        /\ \A k \in DOMAIN backlog : peer'[backlog[k]] # "none"
        /\ \A f \in Fds : file[f] \in Clients => peer'[file[f]] # "none"
    <3>1. \A d \in Clients : peer[d] # "none" => peer'[d] # "none"
      BY <1>2, <2>2 DEF TypeOK
    <3>2. QED
      BY <2>4, <3>1 DEF OnceInv
  <2>6. CASE UNCHANGED <<file, backlog>>
    BY <2>1, <2>5, <2>6, OnceKept
  <2>7. ASSUME backlog' = Tail(backlog),
               \A k \in DOMAIN Tail(backlog), f \in Fds : file'[f] # Tail(backlog)[k],
               \A f, g \in Fds : file'[f] \in Clients /\ file'[f] = file'[g] => f = g,
               \A f \in Fds : file'[f] \in {file[f], Free, c}
        PROVE  OnceInv'
    <3>1. \A j, k \in DOMAIN backlog' : backlog'[j] = backlog'[k] => j = k
      BY <2>3, <2>7 DEF OnceInv
    <3>2. \A k \in DOMAIN backlog' : peer'[backlog'[k]] # "none"
      BY <2>3, <2>5, <2>7
    <3>3. \A f \in Fds : file'[f] \in Clients => peer'[file'[f]] # "none"
      BY <2>2, <2>5, <2>7, Names
    <3>4. QED
      BY <2>7, <3>1, <3>2, <3>3 DEF OnceInv
  <2>8. \A k \in DOMAIN Tail(backlog) :
          Tail(backlog)[k] # c /\ \A f \in Fds : file[f] # Tail(backlog)[k]
    BY <2>2, <2>3 DEF OnceInv
  <2>9. CASE backlog' = Tail(backlog) /\ UNCHANGED file
    BY <2>7, <2>8, <2>9 DEF OnceInv
  <2>10. ASSUME NEW fd \in Fds, file[fd] = Free, backlog' = Tail(backlog),
                file' = [file EXCEPT ![fd] = c]
         PROVE  OnceInv'
    <3>1. file'[fd] = c /\ \A f \in Fds \ {fd} : file'[f] = file[f]
      BY <2>10 DEF TypeOK
    <3>2. \A f \in Fds : file[f] # c
      BY <2>2 DEF OnceInv
    <3>3. \A f, g \in Fds : file'[f] \in Clients /\ file'[f] = file'[g] => f = g
      BY <3>1, <3>2 DEF OnceInv
    <3>4. \A k \in DOMAIN Tail(backlog), f \in Fds : file'[f] # Tail(backlog)[k]
      BY <2>8, <3>1
    <3>5. QED
      BY <2>7, <2>10, <3>1, <3>3, <3>4
  <2>11. QED
    BY <1>2, <2>2, <2>6, <2>9, <2>10
<1>13. QED
  BY <1>8, <1>9, <1>10, <1>11, <1>12

\* The head of the batch is an event of the batch.
LEMMA HeadEvent ==
  ASSUME TypeOK, PromiseInv, evlist # <<>>
  PROVE  Head(evlist) \in Events /\ Promised(Head(evlist))
<1>1. evlist \in Seq(Events)
  BY DEF TypeOK, Events
<1>2. 1 \in DOMAIN evlist /\ Head(evlist) = evlist[1] /\ evlist[1] \in Events
  BY <1>1, TailFacts
<1>3. QED
  BY <1>2 DEF PromiseInv

\* An event that was not about input.
LEMMA PeerDisconnectedStep ==
  ASSUME Inv, PeerDisconnected
  PROVE  Inv'
<1> USE DEF Inv
<1> USE DEF clients, input
<1>1. /\ evlist # <<>> /\ evlist' = Tail(evlist)
      /\ file' = [file EXCEPT ![Head(evlist).fd] = Free]
      /\ UNCHANGED <<in_packet, buf, direction, working, need_quit,
                     clients, input, passed>>
  BY DEF PeerDisconnected, NextEvent
<1>2. file' \in [Fds -> {Free, Stdin} \cup Clients]
  BY <1>1 DEF TypeOK
<1>3. \A fd \in Fds : /\ fd # Head(evlist).fd => file'[fd] = file[fd]
                      /\ file'[fd] = Stdin => file[fd] = Stdin
  BY <1>1, Names DEF TypeOK
<1>4. \A e \in Events : Promised(e) /\ e.fd # Head(evlist).fd => Promised(e)'
  BY <1>1, <1>3 DEF Promised
<1>5. evlist' \in Seq(Events) /\ DistinctInv' /\ PromiseInv'
  BY <1>1, <1>4, Handled
<1>6. TypeOK'
  BY <1>1, <1>2, <1>5 DEF TypeOK, Events
<1>7. InputInv'
  BY <1>1, <1>3 DEF InputInv
<1>8. \A c \in Clients : file[STDIN_FILENO] = c => file'[STDIN_FILENO] = c
  <2>1. Head(evlist).fd = STDIN_FILENO => file[STDIN_FILENO] = Stdin
    BY <1>1, HeadEvent, Names DEF PeerDisconnected, Promised
  <2>2. QED
    BY <1>3, <2>1, Names
<1>9. WholeInv' /\ NoMixedPacket'
  BY <1>1, <1>8 DEF WholeInv, NoMixedPacket
<1>10. OnceInv'
  <2>1. \A f \in Fds : file'[f] = file[f] \/ file'[f] = Free
    BY <1>1 DEF TypeOK
  <2>2. \A k \in DOMAIN backlog : backlog[k] \in Clients
    BY DEF TypeOK
  <2>3. QED
    BY <1>1, <2>1, <2>2, Names DEF OnceInv
<1>11. QED
  BY <1>5, <1>6, <1>7, <1>9, <1>10

\* What a command leaves the flag at is run or stop.
LEMMA AfterCommandRuns ==
  ASSUME working \in {0, 1}, NEW rotations
  PROVE  AfterCommand(rotations) \in {0, 1}
  BY DEF AfterCommand

\* Reading from descriptor 0, whether or not it is still standard input.
LEMMA DataFromStdinStep ==
  ASSUME Inv, DataFromStdin
  PROVE  Inv'
<1> USE DEF Inv
<1>1. /\ evlist # <<>> /\ Head(evlist).fd = STDIN_FILENO /\ Head(evlist).in
      /\ \/ \E c \in Clients : file[STDIN_FILENO] = c /\ ReadError(c) /\ NextEvent
         \/ /\ ReadInput \/ \E c \in Clients : ReadPacketAsText(c)
            /\ ObeyText
            /\ UNCHANGED <<in_packet, direction>>
      /\ UNCHANGED <<file, backlog, wire, sent, ended, world, passed>>
  BY DEF DataFromStdin
<1>2. Head(evlist) \in Events /\ Promised(Head(evlist))
  BY <1>1, HeadEvent
<1>3. UNCHANGED typed \/ (file[STDIN_FILENO] = Stdin /\ typed # <<>>)
  <2>1. file[STDIN_FILENO] = Stdin => typed # <<>>
    BY <1>1, <1>2, Names DEF Promised
  <2>2. QED
    BY <1>1, <2>1 DEF ReadError, ReadInput, ReadPacketAsText
<1>4. evlist' = Tail(evlist) \/ evlist' = <<>>
  BY <1>1 DEF NextEvent, ObeyText
<1>5. \A e \in Events : Promised(e) /\ e.fd # Head(evlist).fd => Promised(e)'
  BY <1>1, <1>3 DEF Promised, InputInv
<1>6. evlist' \in Seq(Events) /\ DistinctInv' /\ PromiseInv'
  BY <1>1, <1>4, <1>5, Handled
<1>7. UNCHANGED <<in_packet, direction>>
  BY <1>1 DEF ReadError
<1>8. OnceInv'
  <2>1. \A c \in Clients : peer[c] # "none" => peer'[c] # "none"
    BY <1>1 DEF ReadError, ReadInput, ReadPacketAsText, TypeOK
  <2>2. QED
    BY <1>1, <2>1, OnceKept DEF TypeOK
<1>9. CASE \E c \in Clients : file[STDIN_FILENO] = c /\ ReadError(c) /\ NextEvent
  <2>1. PICK c \in Clients : ReadError(c)
    BY <1>9
  <2>2. /\ peer' = [peer EXCEPT ![c] = "closed"]
        /\ UNCHANGED <<buf, working, need_quit, inbox, typed>>
    BY <2>1 DEF ReadError
  <2>3. peer' \in [Clients -> {"none", "open", "reset", "closed"}]
    BY <2>2 DEF TypeOK
  <2>4. TypeOK'
    BY <1>1, <1>6, <1>7, <2>2, <2>3 DEF TypeOK, Events
  <2>5. QED
    BY <1>1, <1>6, <1>7, <1>8, <2>2, <2>4 DEF InputInv, WholeInv, NoMixedPacket
<1>10. CASE ReadInput /\ ObeyText
  <2>1. typed # <<>> /\ UNCHANGED <<peer, inbox>>
    BY <1>1, <1>2, <1>10, Names DEF ReadInput, Promised
  <2>2. /\ 1 \in DOMAIN typed /\ Head(typed) = typed[1] /\ typed[1] \in Lines
        /\ Tail(typed) \in Seq(Lines)
        /\ \A k \in DOMAIN Tail(typed) :
             k + 1 \in DOMAIN typed /\ Tail(typed)[k] = typed[k + 1]
    BY <2>1, TailFacts DEF TypeOK
  <2>3. buf' \in (Lines \ {EndOfFile}) \cup Accidents
    <3>1. world.pipe => Head(typed) # EndOfFile
      BY <2>2 DEF InputInv
    <3>2. Head(typed) \in Lines
      BY <2>2
    <3>3. QED
      BY <1>10, <3>1, <3>2 DEF ReadInput, TypeOK, Accidents
  <2>4. typed' \in {<<>>, Tail(typed)}
    BY <1>10 DEF ReadInput
  <2>5. /\ typed' \in Seq(Lines)
        /\ \A k \in DOMAIN typed' : k + 1 \in DOMAIN typed /\ typed'[k] = typed[k + 1]
    <3>1. CASE typed' = <<>>
      <4>1. typed' \in Seq(Lines) /\ DOMAIN typed' = {}
        BY <3>1
      <4>2. QED
        BY <4>1
    <3>2. CASE typed' = Tail(typed)
      BY <2>2, <3>2
    <3>3. QED
      BY <2>4, <3>1, <3>2
  <2>6. need_quit' \in BOOLEAN /\ working' \in {0, 1}
    <3>1. working \in {0, 1}
      BY DEF TypeOK
    <3>2. QED
      BY <1>10, <3>1, AfterCommandRuns DEF ObeyText
  <2>7. TypeOK'
    BY <1>1, <1>6, <1>7, <2>1, <2>3, <2>5, <2>6 DEF TypeOK, Events
  <2>8. InputInv'
    BY <1>1, <2>5 DEF InputInv
  <2>9. QED
    BY <1>1, <1>6, <1>7, <1>8, <2>1, <2>7, <2>8 DEF WholeInv, NoMixedPacket
<1>11. ASSUME NEW c \in Clients, ReadPacketAsText(c), ObeyText PROVE Inv'
  <2>1. /\ inbox' = [inbox EXCEPT ![c] = SubSeq(inbox[c], TextSize + 1, Len(inbox[c]))]
        /\ file[STDIN_FILENO] = c /\ UNCHANGED <<peer, typed>>
        /\ buf' \in Accidents \cup {buf}
    BY <1>11 DEF ReadPacketAsText
  <2>2. inbox' \in [Clients -> Seq(Int)]
    <3>1. inbox[c] \in Seq(Int) /\ Len(inbox[c]) \in Nat /\ TextSize + 1 \in Nat \ {0}
      BY ServerAssumption DEF TypeOK
    <3>2. \A i \in (TextSize + 1) .. Len(inbox[c]) : inbox[c][i] \in Int
      BY <3>1
    <3>3. SubSeq(inbox[c], TextSize + 1, Len(inbox[c])) \in Seq(Int)
      BY <3>1, <3>2, SubSeqProperties
    <3>4. QED
      BY <2>1, <3>3 DEF TypeOK
  <2>3. buf' \in (Lines \ {EndOfFile}) \cup Accidents
    BY <2>1 DEF TypeOK
  <2>4. need_quit' \in BOOLEAN /\ working' \in {0, 1}
    <3>1. working \in {0, 1}
      BY DEF TypeOK
    <3>2. QED
      BY <1>11, <3>1, AfterCommandRuns DEF ObeyText
  <2>5. TypeOK'
    BY <1>1, <1>6, <1>7, <2>1, <2>2, <2>3, <2>4 DEF TypeOK, Events
  <2>6. WholeInv'
    <3>1. \A d \in Clients \ {c} : inbox'[d] = inbox[d]
      BY <2>1 DEF TypeOK
    <3>2. QED
      BY <1>1, <2>1, <3>1 DEF WholeInv
  <2>7. QED
    BY <1>1, <1>6, <1>7, <1>8, <2>1, <2>5, <2>6 DEF InputInv, NoMixedPacket
<1>12. QED
  BY <1>1, <1>9, <1>10, <1>11

\* Reading a client's packet, or what there is of it.
LEMMA DataFromClientStep ==
  ASSUME Inv, DataFromClient
  PROVE  Inv'
<1> USE DEF Inv
<1>1. PICK c \in Clients :
        /\ evlist # <<>> /\ Head(evlist).fd \in 1..MaxFds
        /\ file[Head(evlist).fd] = c
        /\ (ReadError(c) /\ NextEvent) \/ (ReadPacket(c) /\ ObeyPacket)
        /\ UNCHANGED <<file, backlog, wire, sent, ended, world, passed>>
  BY DEF DataFromClient
<1>2. UNCHANGED <<typed, buf, need_quit>> /\ evlist' = Tail(evlist)
  BY <1>1 DEF ReadError, ReadPacket, ObeyPacket, NextEvent
<1>3. \A e \in Events : Promised(e) /\ e.fd # Head(evlist).fd => Promised(e)'
  BY <1>1, <1>2 DEF Promised
<1>4. evlist' \in Seq(Events) /\ DistinctInv' /\ PromiseInv'
  BY <1>1, <1>2, <1>3, Handled
<1>5. InputInv'
  BY <1>1, <1>2 DEF InputInv
<1>6. OnceInv' /\ file[STDIN_FILENO] # c
  <2>1. \A d \in Clients : peer[d] # "none" => peer'[d] # "none"
    BY <1>1 DEF ReadError, ReadPacket, ObeyPacket, TypeOK
  <2>2. OnceInv'
    BY <1>1, <2>1, OnceKept DEF TypeOK
  <2>3. file[Head(evlist).fd] = c /\ Head(evlist).fd \in Fds
    BY <1>1 DEF Fds
  <2>4. Head(evlist).fd # STDIN_FILENO
    BY <1>1 DEF STDIN_FILENO
  <2>5. QED
    BY <2>2, <2>3, <2>4, Names DEF OnceInv
<1>7. CASE ReadError(c)
  <2>1. /\ peer' = [peer EXCEPT ![c] = "closed"]
        /\ UNCHANGED <<in_packet, direction, working, inbox>>
    BY <1>7 DEF ReadError
  <2>2. peer' \in [Clients -> {"none", "open", "reset", "closed"}]
    BY <2>1 DEF TypeOK
  <2>3. TypeOK'
    BY <1>1, <1>2, <1>4, <2>1, <2>2 DEF TypeOK, Events
  <2>4. QED
    BY <1>1, <1>4, <1>5, <1>6, <2>1, <2>3 DEF WholeInv, NoMixedPacket
<1>8. CASE ReadPacket(c) /\ ObeyPacket
  <2> DEFINE rest == SubSeq(inbox[c], Len(Take(c)) + 1, Len(inbox[c]))
  <2>1. /\ in_packet' = Take(c) \o SubSeq(in_packet, Len(Take(c)) + 1, 3)
        /\ inbox' = [inbox EXCEPT ![c] = rest] /\ UNCHANGED peer
    BY <1>8 DEF ReadPacket
  <2>2. inbox[c] \in Seq(Int) /\ in_packet \in Int \X Int \X Int
    BY DEF TypeOK
  <2>3. /\ in_packet' \in Int \X Int \X Int
        /\ rest \in Seq(Int)
        /\ Whole(inbox[c]) =>
             Whole(rest) /\ (in_packet' = in_packet \/ in_packet' \in Packets)
    BY <2>1, <2>2, ReadTakes, Zenon DEF Take
  <2> HIDE DEF rest
  <2>4. inbox' \in [Clients -> Seq(Int)]
    BY <2>1, <2>3 DEF TypeOK
  <2>5. direction' \in {0, 1} /\ working' \in {0, 1}
    <3>1. working \in {0, 1} /\ direction \in {0, 1}
      BY DEF TypeOK
    <3>2. QED
      BY <1>8, <3>1, AfterCommandRuns DEF ObeyPacket
  <2>6. TypeOK'
    BY <1>1, <1>2, <1>4, <2>1, <2>3, <2>4, <2>5 DEF TypeOK, Events
  <2>7. WholeInv'
    <3> SUFFICES ASSUME world.whole, NEW d \in Clients
                 PROVE  wire'[d] = <<>> /\ (Whole(inbox'[d]) \/ file[STDIN_FILENO] = d)
      BY <1>1 DEF WholeInv
    <3>1. /\ wire[d] = <<>> /\ (Whole(inbox[d]) \/ file[STDIN_FILENO] = d)
          /\ Whole(inbox[c])
      BY <1>6 DEF WholeInv
    <3>2. inbox'[d] = rest \/ inbox'[d] = inbox[d]
      BY <2>1 DEF TypeOK
    <3>3. QED
      BY <1>1, <2>3, <3>1, <3>2
  <2>8. NoMixedPacket'
    <3> SUFFICES ASSUME world.whole PROVE in_packet' \in Garbage \cup Packets
      BY <1>1 DEF NoMixedPacket
    <3>1. Whole(inbox[c]) /\ in_packet \in Garbage \cup Packets
      BY <1>6 DEF WholeInv, NoMixedPacket
    <3>2. QED
      BY <2>3, <3>1
  <2>9. QED
    BY <1>4, <1>5, <1>6, <2>6, <2>7, <2>8
<1>9. QED
  BY <1>1, <1>7, <1>8

-----------------------------------------------------------------------------
(* The safety properties of StepperServer.                                 *)

\* No step breaks the invariant.
LEMMA StepInv == Inv /\ [Next]_vars => Inv'
<1> SUFFICES ASSUME Inv, [Next]_vars PROVE Inv'
  OBVIOUS
<1>1. CASE Environment
  BY <1>1, ClientStep, InputStep DEF Environment
<1>2. CASE Loop
  BY <1>2, EpollWaitStep, AcceptStep, DataFromStdinStep, DataFromClientStep,
     PeerDisconnectedStep DEF Loop
<1>3. CASE UNCHANGED vars
  BY <1>3 DEF vars, server, clients, input, Inv, TypeOK, DistinctInv, PromiseInv,
              Promised, InputInv, WholeInv, Whole, OnceInv, NoMixedPacket
<1>4. QED
  BY <1>1, <1>2, <1>3 DEF Next, Gone

\* Every reachable state satisfies the inductive invariant, whatever clients send
\* and users type.
THEOREM Invariance == Spec => []Inv
  BY InitInv, StepInv, PTL DEF Spec

\* Every variable has its type, whatever clients send and users type: the flag and
\* the direction are 0 or 1, and an event's file was open.  (stepper.c:355-423)
THEOREM TypeCorrect == Spec => []TypeOK
<1>1. Inv => TypeOK
  BY DEF Inv
<1>2. QED
  BY <1>1, Invariance, PTL

\* An event waiting to be handled concerns the file it was reported for, for any
\* number of descriptors and events to a batch.  (stepper.c:361-421)
THEOREM EventsCorrect == Spec => []EventsNotStale
<1>1. Inv => EventsNotStale
  BY DEF Inv, PromiseInv, Promised, EventsNotStale
<1>2. QED
  BY <1>1, Invariance, PTL

\* Where packets arrive whole, the packet buffer holds no mixture of two.
\* (stepper.c:402-410)
THEOREM PacketsCorrect == Spec => []NoMixedPacket
<1>1. Inv => NoMixedPacket
  BY DEF Inv
<1>2. QED
  BY <1>1, Invariance, PTL

=============================================================================
