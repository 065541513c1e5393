----------------------------- MODULE LightProofs ----------------------------
(***************************************************************************)
(* Theorems about the light server and its clients, for any clients, any   *)
(* number of packets and any limits of the process.                        *)
(***************************************************************************)
EXTENDS LightServer, TLAPS

-----------------------------------------------------------------------------
(* The inductive invariant.                                                *)

Halves == {Time, On, Off}

TypeInv ==
  /\ srv \in {"select", "events", "toggle", "dead"}
  /\ select_list \subseteq Clients
  /\ events \subseteq select_list \cup {Listener}
  /\ limits \in Limits /\ fd \in [Clients -> Nat]
  /\ backlog \in Seq(Clients)
  /\ peer \in [Clients -> {"off", "open", "closed", "reset", "released"}]
  /\ sent \in [Clients -> 0 .. MaxPackets]
  /\ wire \in [Clients -> Seq(Halves)] /\ inbox \in [Clients -> Seq(Halves)]
  /\ command \in [from : Clients \cup {Listener}, data : {On, Off}]
  /\ lamp \in {On, Off}
  /\ told \in [Clients -> Nat]
  /\ cut \in [Clients -> BOOLEAN]

\* A client waits once or is in the list, with an end of its own that is there;
\* the listener's event has a connection; what is obeyed comes from the list.
ConnectionInv ==
  /\ \A j, k \in DOMAIN backlog : backlog[j] = backlog[k] => j = k
  /\ \A k \in DOMAIN backlog :
       peer[backlog[k]] \notin {"off", "released"} /\ backlog[k] \notin select_list
  /\ \A c \in select_list : peer[c] \notin {"off", "released"}
  /\ Listener \in events => backlog # <<>>
  /\ srv = "toggle" => command.from # Listener
  /\ srv \in {"select", "events"} => command.from = Listener
  /\ command.from \in select_list \cup {Listener}
  /\ \A c, d \in select_list : fd[c] = fd[d] => c = d

\* What is to be looked at has something to read, or nothing more to come; what
\* was let go has neither.
EventInv == \A c \in events \ {Listener} : Readable(c)

ReleasedInv ==
  \A c \in Clients : peer[c] = "released" => inbox[c] = <<>> /\ wire[c] = <<>>

\* The commands taken from a client's connection, the one being obeyed included.
Taken(c) == told[c] + (IF command.from = c THEN 1 ELSE 0)

\* What the client has sent and the server has not taken.
Stream(c) == inbox[c] \o wire[c]

\* The statuses in a stream are those of the packets after the n-th.
Follows(stream, n) ==
  \A i \in Nat :
    2 * i + 2 <= Len(stream) => stream[2 * i + 2] = Status(n + i + 1)

\* Each command takes one half at least.  Until one takes no more than that, the
\* stream goes on with the packet after the last one taken, and nothing is lost
\* but by a reset.
StreamInv ==
  \A c \in Clients :
    /\ Taken(c) + Len(Stream(c)) <= 2 * sent[c]
    /\ ~cut[c] =>
         /\ peer[c] # "reset" => 2 * Taken(c) + Len(Stream(c)) = 2 * sent[c]
         /\ Follows(Stream(c), Taken(c))

Inv ==
  /\ TypeInv /\ ConnectionInv /\ EventInv /\ ReleasedInv /\ StreamInv
  /\ NoInventedCommand

-----------------------------------------------------------------------------
(* Lemmas about streams of halves.                                         *)

\* A stream is what is in the buffer, and then what is on the network.
LEMMA Concatenation ==
  ASSUME NEW S, NEW a \in Seq(S), NEW b \in Seq(S)
  PROVE  /\ a \o b \in Seq(S)
         /\ Len(a) \in Nat /\ Len(b) \in Nat /\ Len(a \o b) = Len(a) + Len(b)
         /\ \A j \in 1..(Len(a) + Len(b)) :
              (a \o b)[j] = IF j <= Len(a) THEN a[j] ELSE b[j - Len(a)]
  OBVIOUS

\* What arrives moves from the network to the buffer, and the stream stays.
LEMMA ArriveKeepsStream ==
  ASSUME NEW S, NEW a \in Seq(S), NEW b \in Seq(S), b # <<>>
  PROVE  /\ Append(a, Head(b)) \in Seq(S) /\ Tail(b) \in Seq(S)
         /\ Append(a, Head(b)) \o Tail(b) = a \o b
<1> DEFINE s == Append(a, Head(b)) \o Tail(b)
           t == a \o b
<1>1. /\ Head(b) \in S /\ Head(b) = b[1] /\ Tail(b) \in Seq(S)
      /\ Len(Tail(b)) = Len(b) - 1 /\ Len(b) \in Nat \ {0} /\ Len(a) \in Nat
      /\ \A j \in 1..(Len(b) - 1) : Tail(b)[j] = b[j + 1]
  OBVIOUS
<1>2. Append(a, Head(b)) \in Seq(S) /\ Len(Append(a, Head(b))) = Len(a) + 1
  BY <1>1
<1>3. s \in Seq(S) /\ t \in Seq(S) /\ Len(s) = Len(t) /\ Len(t) = Len(a) + Len(b)
  BY <1>1, <1>2
<1>4. ASSUME NEW j \in 1..Len(t) PROVE s[j] = t[j]
  <2>1. CASE j <= Len(a)
    BY <1>1, <1>2, <1>3, <2>1
  <2>2. CASE j = Len(a) + 1
    BY <1>1, <1>2, <1>3, <2>2
  <2>3. CASE j > Len(a) + 1
    BY <1>1, <1>2, <1>3, <2>3
  <2>4. QED
    BY <1>1, <2>1, <2>2, <2>3
<1> HIDE DEF s, t
<1>5. s \in [1..Len(s) -> S] /\ t \in [1..Len(t) -> S]
  BY <1>3
<1>6. s = t
  BY <1>3, <1>4, <1>5
<1>7. QED
  BY <1>1, <1>2, <1>6 DEF s, t

\* The smaller of two numbers.
LEMMA MinOfTwo ==
  ASSUME NEW a \in Int, NEW b \in Int
  PROVE  Min({a, b}) = IF a <= b THEN a ELSE b
<1> DEFINE n == IF a <= b THEN a ELSE b
<1>1. n \in {a, b} /\ \A y \in {a, b} : n <= y
  OBVIOUS
<1>2. \A x \in {a, b} : (\A y \in {a, b} : x <= y) => x = n
  OBVIOUS
<1> HIDE DEF n
<1>3. Min({a, b}) = n
  BY <1>1, <1>2 DEF Min
<1>4. QED
  BY <1>3 DEF n

\* recv() takes a packet, or the half there is.
LEMMA RecvSize ==
  ASSUME NEW l \in Nat \ {0}
  PROVE  Min({PacketSize, l}) = IF l = 1 THEN 1 ELSE 2
<1>1. Min({PacketSize, l}) = IF PacketSize <= l THEN PacketSize ELSE l
  BY MinOfTwo DEF PacketSize
<1>2. QED
  BY <1>1 DEF PacketSize

\* A prefix of a buffer, and what it leaves.
LEMMA PrefixAndRest ==
  ASSUME NEW S, NEW s \in Seq(S), NEW n \in Nat \ {0}, n <= Len(s)
  PROVE  /\ Len(SubSeq(s, 1, n)) = n
         /\ \A j \in 1..n : SubSeq(s, 1, n)[j] = s[j]
         /\ SubSeq(s, n + 1, Len(s)) \in Seq(S)
         /\ Len(SubSeq(s, n + 1, Len(s))) = Len(s) - n
         /\ \A j \in 1..(Len(s) - n) : SubSeq(s, n + 1, Len(s))[j] = s[j + n]
<1>1. Len(s) \in Nat
  OBVIOUS
<1>2. Len(SubSeq(s, 1, n)) = n /\ \A j \in 1..n : SubSeq(s, 1, n)[j] = s[j]
  BY <1>1
<1>3. /\ Len(SubSeq(s, n + 1, Len(s))) = Len(s) - n
      /\ \A j \in 1..(Len(s) - n) : SubSeq(s, n + 1, Len(s))[j] = s[j + n]
  BY <1>1
<1>4. SubSeq(s, n + 1, Len(s)) \in Seq(S)
  BY <1>1
<1>5. QED
  BY <1>2, <1>3, <1>4

\* What recv() does: it takes n halves, and the stream goes on n further.
LEMMA RecvTakes ==
  \A a, b \in Seq(Halves) : a # <<>> =>
    LET raw  == SubSeq(a, 1, Min({PacketSize, Len(a)}))
        rest == SubSeq(a, Len(raw) + 1, Len(a))
    IN  /\ rest \in Seq(Halves)
        /\ \E n \in {1, 2} :
             /\ Len(raw) = n /\ n <= Len(a \o b) /\ raw[n] = (a \o b)[n]
             /\ Len(rest \o b) = Len(a \o b) - n
             /\ \A j \in 1..(Len(a \o b) - n) : (rest \o b)[j] = (a \o b)[j + n]
<1> SUFFICES ASSUME NEW a \in Seq(Halves), NEW b \in Seq(Halves), a # <<>>
             PROVE  LET raw  == SubSeq(a, 1, Min({PacketSize, Len(a)}))
                        rest == SubSeq(a, Len(raw) + 1, Len(a))
                    IN  /\ rest \in Seq(Halves)
                        /\ \E n \in {1, 2} :
                             /\ Len(raw) = n /\ n <= Len(a \o b) /\ raw[n] = (a \o b)[n]
                             /\ Len(rest \o b) = Len(a \o b) - n
                             /\ \A j \in 1..(Len(a \o b) - n) :
                                  (rest \o b)[j] = (a \o b)[j + n]
  OBVIOUS
<1> DEFINE n    == IF Len(a) = 1 THEN 1 ELSE 2
           raw  == SubSeq(a, 1, n)
           rest == SubSeq(a, n + 1, Len(a))
<1>1. Len(a) \in Nat \ {0} /\ Min({PacketSize, Len(a)}) = n
  <2>1. \A l \in Nat \ {0} : Min({PacketSize, l}) = IF l = 1 THEN 1 ELSE 2
    BY RecvSize
  <2>2. Len(a) \in Nat \ {0}
    OBVIOUS
  <2>3. QED
    BY <2>1, <2>2, Zenon
<1>2. n \in {1, 2} /\ n \in Nat \ {0} /\ n <= Len(a)
  <2>1. \A l \in Nat \ {0} : (IF l = 1 THEN 1 ELSE 2) <= l
    OBVIOUS
  <2>2. n \in {1, 2}
    BY Zenon
  <2>3. n <= Len(a)
    BY <1>1, <2>1, Zenon
  <2>4. QED
    BY <2>2, <2>3
<1> HIDE DEF n
<1>3. /\ Len(raw) = n /\ \A j \in 1..n : raw[j] = a[j]
      /\ rest \in Seq(Halves) /\ Len(rest) = Len(a) - n
      /\ \A j \in 1..(Len(a) - n) : rest[j] = a[j + n]
  BY <1>2, PrefixAndRest
<1>4. /\ Len(b) \in Nat /\ Len(a \o b) = Len(a) + Len(b)
      /\ \A j \in 1..(Len(a) + Len(b)) :
           (a \o b)[j] = IF j <= Len(a) THEN a[j] ELSE b[j - Len(a)]
  BY Concatenation
<1>5. n \in 1..n /\ n \in 1..(Len(a) + Len(b)) /\ n <= Len(a \o b)
  BY <1>1, <1>2, <1>4
<1>6. raw[n] = (a \o b)[n]
  BY <1>2, <1>3, <1>4, <1>5
<1> HIDE DEF rest
<1>7. /\ Len(rest \o b) = Len(a \o b) - n
      /\ \A j \in 1..(Len(a \o b) - n) : (rest \o b)[j] = (a \o b)[j + n]
  <2>1. /\ Len(rest) \in Nat /\ Len(rest \o b) = Len(rest) + Len(b)
        /\ \A j \in 1..(Len(rest) + Len(b)) :
             (rest \o b)[j] = IF j <= Len(rest) THEN rest[j] ELSE b[j - Len(rest)]
    BY <1>3, Concatenation
  <2>2. ASSUME NEW j \in 1..(Len(a \o b) - n) PROVE (rest \o b)[j] = (a \o b)[j + n]
    <3>1. CASE j <= Len(rest)
      BY <1>1, <1>2, <1>3, <1>4, <2>1, <3>1
    <3>2. CASE j > Len(rest)
      BY <1>1, <1>2, <1>3, <1>4, <2>1, <3>2
    <3>3. j \in Nat
      BY <1>2, <1>4
    <3>4. j <= Len(rest) \/ j > Len(rest)
      BY <2>1, <3>3
    <3>5. QED
      BY <3>1, <3>2, <3>4, Zenon
  <2>3. QED
    BY <1>2, <1>3, <1>4, <2>1, <2>2
<1>8. SubSeq(a, Len(raw) + 1, Len(a)) = rest
  BY <1>3 DEF rest
<1> HIDE DEF raw
<1>9. SubSeq(a, 1, Min({PacketSize, Len(a)})) = raw
  BY <1>1 DEF raw
<1>10. QED
  BY <1>2, <1>3, <1>5, <1>6, <1>7, <1>8, <1>9

\* A packet that is sent is the next one of the stream.
LEMMA SendExtends ==
  ASSUME NEW S, NEW a \in Seq(S), NEW b \in Seq(S), NEW new \in Seq(S), Len(new) = 2
  PROVE  /\ b \o new \in Seq(S)
         /\ Len(a \o (b \o new)) = Len(a \o b) + 2
         /\ (a \o (b \o new))[Len(a \o b) + 2] = new[2]
         /\ \A j \in 1..Len(a \o b) : (a \o (b \o new))[j] = (a \o b)[j]
<1> DEFINE c == b \o new
<1>1. /\ Len(a) \in Nat /\ Len(b) \in Nat /\ Len(a \o b) = Len(a) + Len(b)
      /\ \A j \in 1..(Len(a) + Len(b)) :
           (a \o b)[j] = IF j <= Len(a) THEN a[j] ELSE b[j - Len(a)]
  BY Concatenation
<1>2. /\ c \in Seq(S) /\ Len(c) = Len(b) + Len(new)
      /\ \A j \in 1..(Len(b) + Len(new)) :
           c[j] = IF j <= Len(b) THEN b[j] ELSE new[j - Len(b)]
  BY Concatenation
<1> HIDE DEF c
<1>3. /\ Len(a \o c) = Len(a) + Len(c)
      /\ \A j \in 1..(Len(a) + Len(c)) :
           (a \o c)[j] = IF j <= Len(a) THEN a[j] ELSE c[j - Len(a)]
  <2>1. c \in Seq(S)
    BY <1>2
  <2>2. QED
    BY <2>1, Concatenation
<1>4. Len(a \o c) = Len(a \o b) + 2
  BY <1>1, <1>2, <1>3
<1>5. (a \o c)[Len(a \o b) + 2] = new[2]
  <2>1. (a \o c)[Len(a) + Len(b) + 2] = c[Len(b) + 2]
    BY <1>1, <1>2, <1>3
  <2>2. c[Len(b) + 2] = new[2]
    BY <1>1, <1>2
  <2>3. QED
    BY <1>1, <2>1, <2>2
<1>6. ASSUME NEW j \in 1..Len(a \o b) PROVE (a \o c)[j] = (a \o b)[j]
  <2>1. CASE j <= Len(a)
    BY <1>1, <1>2, <1>3, <2>1
  <2>2. CASE j > Len(a)
    <3>1. j - Len(a) \in 1..Len(b) /\ j \in 1..(Len(a) + Len(b))
      BY <1>1, <2>2
    <3>2. \A k \in 1..Len(b) : c[k] = b[k]
      BY <1>1, <1>2
    <3>3. c[j - Len(a)] = b[j - Len(a)]
      BY <3>1, <3>2, Zenon
    <3>4. QED
      BY <1>1, <1>2, <1>3, <2>2, <3>1, <3>3
  <2>3. j <= Len(a) \/ j > Len(a)
    BY <1>1
  <2>4. QED
    BY <2>1, <2>2, <2>3, Zenon
<1>7. QED
  BY <1>2, <1>4, <1>5, <1>6 DEF c

\* The same of any halves.
LEMMA HalvesSent ==
  \A a, b, new \in Seq(Halves) : Len(new) = 2 =>
    /\ b \o new \in Seq(Halves)
    /\ Len(a \o (b \o new)) = Len(a \o b) + 2
    /\ (a \o (b \o new))[Len(a \o b) + 2] = new[2]
    /\ \A j \in 1..Len(a \o b) : (a \o (b \o new))[j] = (a \o b)[j]
  BY SendExtends

\* What a reset leaves is a prefix.
LEMMA ResetCuts ==
  ASSUME NEW S, NEW a \in Seq(S), NEW b \in Seq(S)
  PROVE  /\ Len(a \o <<>>) \in Nat /\ Len(a \o <<>>) <= Len(a \o b)
         /\ \A j \in 1..Len(a \o <<>>) : (a \o <<>>)[j] = (a \o b)[j]
<1>1. a \o <<>> = a
  OBVIOUS
<1>2. /\ Len(a) \in Nat /\ Len(b) \in Nat /\ Len(a \o b) = Len(a) + Len(b)
      /\ \A j \in 1..(Len(a) + Len(b)) :
           (a \o b)[j] = IF j <= Len(a) THEN a[j] ELSE b[j - Len(a)]
  BY Concatenation
<1>3. QED
  BY <1>1, <1>2

\* A stream that follows still does when the next packet is sent,
LEMMA FollowsOn ==
  ASSUME NEW s, NEW t, NEW n \in Nat, NEW k \in Nat, Len(s) \in Nat,
         Follows(s, n), 2 * n + Len(s) = 2 * k,
         Len(t) = Len(s) + 2, t[Len(s) + 2] = Status(k + 1),
         \A j \in 1..Len(s) : t[j] = s[j]
  PROVE  Follows(t, n)
<1> SUFFICES ASSUME NEW i \in Nat, 2 * i + 2 <= Len(t)
             PROVE  t[2 * i + 2] = Status(n + i + 1)
  BY DEF Follows
<1>1. CASE 2 * i + 2 <= Len(s)
  BY <1>1 DEF Follows
<1>2. CASE 2 * i + 2 > Len(s)
  <2>1. 2 * i + 2 = Len(s) + 2 /\ n + i = k
    BY <1>2
  <2>2. QED
    BY <2>1
<1>3. QED
  BY <1>1, <1>2

\* when its end is lost,
LEMMA FollowsPrefix ==
  ASSUME NEW s, NEW t, NEW n, Len(s) \in Nat, Len(t) \in Nat, Follows(s, n),
         Len(t) <= Len(s), \A j \in 1..Len(t) : t[j] = s[j]
  PROVE  Follows(t, n)
  BY DEF Follows

\* and when its first packet is taken.
LEMMA FollowsTaken ==
  ASSUME NEW s, NEW t, NEW n \in Nat, Len(s) \in Nat, Follows(s, n), Len(s) >= 2,
         Len(t) = Len(s) - 2, \A j \in 1..(Len(s) - 2) : t[j] = s[j + 2]
  PROVE  s[2] = Status(n + 1) /\ Follows(t, n + 1)
<1>1. s[2] = Status(n + 1)
  <2>1. 2 * 0 + 2 = 2 /\ n + 0 + 1 = n + 1 /\ 0 \in Nat
    OBVIOUS
  <2>2. QED
    BY <2>1 DEF Follows
<1>2. ASSUME NEW i \in Nat, 2 * i + 2 <= Len(t)
      PROVE  t[2 * i + 2] = Status((n + 1) + i + 1)
  <2>1. /\ t[2 * i + 2] = s[2 * (i + 1) + 2] /\ 2 * (i + 1) + 2 <= Len(s)
        /\ n + (i + 1) + 1 = (n + 1) + i + 1 /\ i + 1 \in Nat
    BY <1>2
  <2>2. s[2 * (i + 1) + 2] = Status(n + (i + 1) + 1)
    BY <2>1 DEF Follows
  <2>3. QED
    BY <2>1, <2>2
<1>3. QED
  BY <1>1, <1>2 DEF Follows

-----------------------------------------------------------------------------
(* The steps.                                                              *)

\* Nobody has connected or sent anything.
LEMMA InitInv == Init => Inv
<1> SUFFICES ASSUME Init PROVE Inv
  OBVIOUS
<1> USE LightAssumption DEF Init, NoCommand
<1>1. TypeInv
  BY DEF TypeInv, Halves
<1>2. ConnectionInv
  BY DEF ConnectionInv
<1>3. StreamInv
  <2> SUFFICES ASSUME NEW c \in Clients
               PROVE  Len(Stream(c)) = 0 /\ Taken(c) = 0 /\ sent[c] = 0
    BY DEF StreamInv, Follows
  <2>1. inbox[c] = <<>> /\ wire[c] = <<>> /\ <<>> \o <<>> = <<>>
    OBVIOUS
  <2>2. QED
    BY <2>1 DEF Stream, Taken
<1>4. NoInventedCommand /\ EventInv /\ ReleasedInv
  BY DEF NoInventedCommand, EventInv, ReleasedInv
<1>5. QED
  BY <1>1, <1>2, <1>3, <1>4 DEF Inv

\* A step that takes nothing from any stream and adds nothing keeps StreamInv.
LEMMA SameStreams ==
  ASSUME StreamInv, UNCHANGED <<sent, cut>>,
         \A c \in Clients :
           /\ Taken(c)' = Taken(c) /\ Stream(c)' = Stream(c)
           /\ peer'[c] # "reset" => peer[c] # "reset"
  PROVE  StreamInv'
  BY DEF StreamInv, Follows

\* A step about one client has only that client's stream to answer for.
LEMMA StreamsChange ==
  ASSUME StreamInv, NEW c \in Clients,
         \A d \in Clients \ {c} :
           /\ Taken(d)' = Taken(d) /\ Stream(d)' = Stream(d)
           /\ sent'[d] = sent[d] /\ cut'[d] = cut[d] /\ peer'[d] = peer[d],
         Taken(c)' + Len(Stream(c)') <= 2 * sent'[c],
         ~cut'[c] /\ peer'[c] # "reset"
           => 2 * Taken(c)' + Len(Stream(c)') = 2 * sent'[c],
         ~cut'[c] => Follows(Stream(c)', Taken(c)')
  PROVE  StreamInv'
<1> SUFFICES ASSUME NEW d \in Clients
             PROVE  /\ Taken(d)' + Len(Stream(d)') <= 2 * sent'[d]
                    /\ ~cut'[d] =>
                         /\ peer'[d] # "reset"
                              => 2 * Taken(d)' + Len(Stream(d)') = 2 * sent'[d]
                         /\ Follows(Stream(d)', Taken(d)')
  BY DEF StreamInv, Follows
<1>1. CASE d = c
  BY <1>1
<1>2. CASE d # c
  <2>1. /\ Taken(d)' = Taken(d) /\ Stream(d)' = Stream(d)
        /\ sent'[d] = sent[d] /\ cut'[d] = cut[d] /\ peer'[d] = peer[d]
    BY <1>2
  <2>2. /\ Taken(d) + Len(Stream(d)) <= 2 * sent[d]
        /\ ~cut[d] => /\ peer[d] # "reset"
                           => 2 * Taken(d) + Len(Stream(d)) = 2 * sent[d]
                      /\ Follows(Stream(d), Taken(d))
    BY DEF StreamInv
  <2>3. QED
    BY <2>1, <2>2, Zenon
<1>3. QED
  BY <1>1, <1>2

\* The streams are sequences of halves; the counts are numbers.
LEMMA StreamTypes ==
  ASSUME TypeInv
  PROVE  \A c \in Clients :
           /\ Stream(c) \in Seq(Halves) /\ Len(Stream(c)) \in Nat
           /\ Taken(c) \in Nat /\ sent[c] \in Nat
<1> SUFFICES ASSUME NEW c \in Clients
             PROVE  /\ Stream(c) \in Seq(Halves) /\ Len(Stream(c)) \in Nat
                    /\ Taken(c) \in Nat /\ sent[c] \in Nat
  OBVIOUS
<1>1. inbox[c] \in Seq(Halves) /\ wire[c] \in Seq(Halves)
  BY DEF TypeInv
<1>2. Stream(c) \in Seq(Halves)
  BY <1>1, Concatenation DEF Stream
<1>3. Taken(c) \in Nat
  BY DEF TypeInv, Taken
<1>4. QED
  BY <1>2, <1>3, LightAssumption DEF TypeInv

\* Whatever a client does, in whatever pieces it arrives, keeps the invariant.
LEMMA ClientStep ==
  ASSUME Inv, NEW c \in Clients, Client(c)
  PROVE  Inv'
<1> USE LightAssumption DEF Inv, server, network
<1>0. NoInventedCommand' /\ \A d \in Clients : Taken(d)' = Taken(d)
  BY DEF Client, Connect, Send, Arrive, Leave, NoInventedCommand, Taken
<1>1. CASE Connect(c)
  <2> USE <1>1 DEF Connect
  <2>1. backlog \in Seq(Clients) /\ peer[c] = "off"
    BY DEF TypeInv
  <2>2. /\ backlog' \in Seq(Clients) /\ backlog' # <<>>
        /\ Len(backlog) \in Nat /\ DOMAIN backlog = 1..Len(backlog)
        /\ DOMAIN backlog' = 1..(Len(backlog) + 1)
        /\ \A k \in 1..Len(backlog) : backlog'[k] = backlog[k]
        /\ backlog'[Len(backlog) + 1] = c
    BY <2>1
  <2>3. TypeInv'
    BY <2>2 DEF TypeInv
  <2>4. peer'[c] = "open" /\ \A d \in Clients \ {c} : peer'[d] = peer[d]
    BY DEF TypeInv
  <2>5. ConnectionInv'
    <3>1. \A k \in DOMAIN backlog : backlog[k] \in Clients
      BY <2>1
    <3>2. \A k \in DOMAIN backlog :
            /\ peer[backlog[k]] \notin {"off", "released"}
            /\ backlog[k] \notin select_list
      BY DEF ConnectionInv
    <3>3. \A k \in 1..Len(backlog) :
            /\ backlog[k] # c /\ backlog[k] \notin select_list
            /\ peer'[backlog[k]] \notin {"off", "released"}
      BY <2>1, <2>2, <2>4, <3>1, <3>2
    <3>4. c \notin select_list
      BY <2>1 DEF ConnectionInv
    <3>5. \A k \in DOMAIN backlog' : k \in 1..Len(backlog) \/ k = Len(backlog) + 1
      BY <2>2
    <3>6. \A k \in DOMAIN backlog' :
            /\ peer'[backlog'[k]] \notin {"off", "released"}
            /\ backlog'[k] \notin select_list
      BY <2>2, <2>4, <3>3, <3>4, <3>5
    <3>7. \A j, k \in DOMAIN backlog' : backlog'[j] = backlog'[k] => j = k
      BY <2>2, <3>3, <3>5 DEF ConnectionInv
    <3>8. \A d \in select_list' : peer'[d] \notin {"off", "released"}
      BY <2>4, <3>4 DEF ConnectionInv, TypeInv
    <3>9. QED
      BY <2>2, <3>6, <3>7, <3>8 DEF ConnectionInv
  <2>6. StreamInv'
    BY <1>0, <2>1, <2>4, SameStreams DEF Stream
  <2>7. EventInv' /\ ReleasedInv'
    <3>1. \A d \in events \ {Listener} : d \in Clients /\ d # c
      BY <2>1 DEF TypeInv, ConnectionInv
    <3>2. EventInv'
      BY <2>4, <3>1 DEF EventInv, Readable
    <3>3. QED
      BY <2>4, <3>2 DEF ReleasedInv
  <2>8. QED
    BY <1>0, <2>3, <2>5, <2>6, <2>7
<1>2. CASE Send(c)
  <2> DEFINE new == <<Time, Status(sent[c] + 1)>>
  <2>1. /\ peer[c] = "open" /\ sent[c] < MaxPackets
        /\ sent'[c] = sent[c] + 1 /\ wire'[c] = wire[c] \o new
        /\ \A d \in Clients \ {c} : sent'[d] = sent[d] /\ wire'[d] = wire[d]
        /\ sent' \in [Clients -> 0..MaxPackets]
        /\ wire' = [wire EXCEPT ![c] = wire[c] \o new]
        /\ UNCHANGED <<server, backlog, peer, inbox, command, lamp, told, cut>>
    <3>1. /\ peer[c] = "open" /\ sent[c] < MaxPackets
          /\ sent' = [sent EXCEPT ![c] = @ + 1]
          /\ wire' = [wire EXCEPT ![c] = @ \o <<Time, Status(sent'[c])>>]
          /\ UNCHANGED <<server, backlog, peer, inbox, command, lamp, told, cut>>
      BY <1>2 DEF Send
    <3>2. sent \in [Clients -> 0..MaxPackets] /\ wire \in [Clients -> Seq(Halves)]
      BY DEF TypeInv
    <3>3. sent'[c] = sent[c] + 1
      BY <3>1, <3>2
    <3>4. /\ sent' \in [Clients -> 0..MaxPackets]
          /\ \A d \in Clients \ {c} : sent'[d] = sent[d]
      BY <3>1, <3>2
    <3>5. <<Time, Status(sent'[c])>> = new
      BY <3>3
    <3> HIDE DEF new
    <3>6. wire' = [wire EXCEPT ![c] = wire[c] \o new]
      BY <3>1, <3>5
    <3>7. wire'[c] = wire[c] \o new /\ \A d \in Clients \ {c} : wire'[d] = wire[d]
      BY <3>2, <3>6
    <3>8. QED
      BY <3>1, <3>3, <3>4, <3>6, <3>7
  <2>2. new \in Seq(Halves) /\ Len(new) = 2 /\ new[2] = Status(sent[c] + 1)
    BY DEF Status, Halves
  <2> HIDE DEF new
  <2>3. wire[c] \in Seq(Halves) /\ inbox[c] \in Seq(Halves)
    BY DEF TypeInv
  <2> DEFINE s == inbox[c] \o wire[c]
             t == inbox[c] \o (wire[c] \o new)
  <2>4. /\ wire[c] \o new \in Seq(Halves) /\ Len(t) = Len(s) + 2
        /\ t[Len(s) + 2] = new[2] /\ \A j \in 1..Len(s) : t[j] = s[j]
    <3>1. Len(new) = 2 /\ new \in Seq(Halves)
      BY <2>2
    <3>2. \A a, b \in Seq(Halves) :
            /\ b \o new \in Seq(Halves)
            /\ Len(a \o (b \o new)) = Len(a \o b) + 2
            /\ (a \o (b \o new))[Len(a \o b) + 2] = new[2]
            /\ \A j \in 1..Len(a \o b) : (a \o (b \o new))[j] = (a \o b)[j]
      BY <3>1, HalvesSent, Zenon
    <3>3. QED
      BY <2>3, <3>2, Zenon
  <2> HIDE DEF s, t
  <2>5. TypeInv'
    <3>1. wire \in [Clients -> Seq(Halves)] /\ wire[c] \o new \in Seq(Halves)
      BY <2>4 DEF TypeInv
    <3>2. wire' \in [Clients -> Seq(Halves)]
      BY <2>1, <3>1
    <3>3. QED
      BY <2>1, <3>2 DEF TypeInv
  <2>6. ConnectionInv' /\ EventInv' /\ ReleasedInv'
    <3>1. ConnectionInv'
      BY <2>1 DEF ConnectionInv
    <3>2. \A d \in events \ {Listener} : d \in Clients
      BY DEF TypeInv
    <3>3. EventInv'
      BY <2>1, <3>2 DEF EventInv, Readable
    <3>4. QED
      BY <2>1, <3>1, <3>3 DEF ReleasedInv
  <2>7. /\ Stream(c) = s /\ Stream(c)' = t
        /\ \A d \in Clients \ {c} : Stream(d)' = Stream(d)
    BY <2>1 DEF Stream, s, t
  <2>8. Len(s) \in Nat /\ Taken(c) \in Nat /\ sent[c] \in Nat
    BY <2>7, StreamTypes
  <2>9. Taken(c) + Len(s) <= 2 * sent[c]
    BY <2>7 DEF StreamInv
  <2>10. ~cut[c] => 2 * Taken(c) + Len(s) = 2 * sent[c] /\ Follows(s, Taken(c))
    BY <2>1, <2>7 DEF StreamInv
  <2>11. Taken(c) + Len(t) <= 2 * sent'[c]
    BY <2>1, <2>4, <2>8, <2>9
  <2>12. ~cut[c] => 2 * Taken(c) + Len(t) = 2 * sent'[c]
    <3>1. ~cut[c] => 2 * Taken(c) + Len(s) = 2 * sent[c]
      BY <2>10
    <3>2. sent'[c] = sent[c] + 1 /\ Len(t) = Len(s) + 2
      BY <2>1, <2>4
    <3>3. QED
      BY <2>8, <3>1, <3>2
  <2>13. ~cut[c] => Follows(t, Taken(c))
    BY <2>2, <2>4, <2>8, <2>10, FollowsOn
  <2>14. \A d \in Clients \ {c} :
           /\ Taken(d)' = Taken(d) /\ Stream(d)' = Stream(d)
           /\ sent'[d] = sent[d] /\ cut'[d] = cut[d] /\ peer'[d] = peer[d]
    BY <1>0, <2>1, <2>7
  <2>15. Taken(c)' = Taken(c) /\ Stream(c)' = t /\ cut'[c] = cut[c]
    BY <1>0, <2>1, <2>7
  <2>16. StreamInv'
    BY <2>11, <2>12, <2>13, <2>14, <2>15, StreamsChange
  <2>17. QED
    BY <1>0, <2>5, <2>6, <2>16
<1>3. CASE Arrive(c)
  <2>1. /\ wire[c] # <<>>
        /\ inbox' = [inbox EXCEPT ![c] = Append(@, Head(wire[c]))]
        /\ wire' = [wire EXCEPT ![c] = Tail(@)]
        /\ UNCHANGED <<server, backlog, peer, sent, command, lamp, told, cut>>
    BY <1>3 DEF Arrive
  <2>2. wire \in [Clients -> Seq(Halves)] /\ inbox \in [Clients -> Seq(Halves)]
    BY DEF TypeInv
  <2>3. wire[c] \in Seq(Halves) /\ inbox[c] \in Seq(Halves)
    BY <2>2
  <2>4. /\ inbox'[c] = Append(inbox[c], Head(wire[c])) /\ wire'[c] = Tail(wire[c])
        /\ \A d \in Clients \ {c} : inbox'[d] = inbox[d] /\ wire'[d] = wire[d]
    BY <2>1, <2>2
  <2>5. /\ inbox'[c] \in Seq(Halves) /\ wire'[c] \in Seq(Halves)
        /\ inbox'[c] \o wire'[c] = inbox[c] \o wire[c]
    <3>1. \A a, b \in Seq(Halves) :
            b # <<>> =>
              /\ Append(a, Head(b)) \in Seq(Halves) /\ Tail(b) \in Seq(Halves)
              /\ Append(a, Head(b)) \o Tail(b) = a \o b
      BY ArriveKeepsStream
    <3>2. QED
      BY <2>1, <2>3, <2>4, <3>1, Zenon
  <2>6. wire' \in [Clients -> Seq(Halves)] /\ inbox' \in [Clients -> Seq(Halves)]
    BY <2>1, <2>2, <2>4, <2>5
  <2>7. TypeInv'
    BY <2>1, <2>6 DEF TypeInv
  <2>8. ConnectionInv' /\ EventInv' /\ ReleasedInv'
    <3>1. ConnectionInv'
      BY <2>1 DEF ConnectionInv
    <3>2. \A d \in events \ {Listener} : d \in Clients
      BY DEF TypeInv
    <3>3. inbox'[c] # <<>> /\ peer[c] # "released"
      BY <2>1, <2>3, <2>4 DEF ReleasedInv
    <3>4. EventInv'
      BY <2>1, <2>4, <3>2, <3>3 DEF EventInv, Readable
    <3>5. ReleasedInv'
      BY <2>1, <2>4, <3>3 DEF ReleasedInv
    <3>6. QED
      BY <3>1, <3>4, <3>5
  <2>9. \A d \in Clients : Stream(d)' = Stream(d)
    BY <2>4, <2>5 DEF Stream
  <2>10. StreamInv'
    BY <1>0, <2>1, <2>9, SameStreams
  <2>11. QED
    BY <1>0, <2>7, <2>8, <2>10
<1>4. CASE Leave(c)
  <2>1. /\ peer[c] = "open" /\ peer'[c] \in {"closed", "reset"}
        /\ \A d \in Clients \ {c} : peer'[d] = peer[d] /\ wire'[d] = wire[d]
        /\ wire'[c] = wire[c] \/ wire'[c] = <<>>
        /\ peer'[c] # "reset" => wire'[c] = wire[c]
        /\ peer' \in [Clients -> {"off", "open", "closed", "reset", "released"}]
        /\ wire' \in [Clients -> Seq(Halves)]
        /\ UNCHANGED <<server, backlog, sent, inbox, command, lamp, told, cut>>
    <3>1. PICK end \in {"closed", "reset"} :
            /\ peer' = [peer EXCEPT ![c] = end]
            /\ end # "reset" => wire' = wire
      BY <1>4 DEF Leave
    <3>2. wire' = wire \/ wire' = [wire EXCEPT ![c] = <<>>]
      BY <1>4 DEF Leave
    <3>3. /\ peer[c] = "open"
          /\ UNCHANGED <<server, backlog, sent, inbox, command, lamp, told, cut>>
      BY <1>4 DEF Leave
    <3>4. /\ peer \in [Clients -> {"off", "open", "closed", "reset", "released"}]
          /\ wire \in [Clients -> Seq(Halves)]
      BY DEF TypeInv
    <3>5. /\ peer' \in [Clients -> {"off", "open", "closed", "reset", "released"}]
          /\ peer'[c] = end /\ \A d \in Clients \ {c} : peer'[d] = peer[d]
      BY <3>1, <3>4
    <3>6. /\ wire' \in [Clients -> Seq(Halves)]
          /\ wire'[c] = wire[c] \/ wire'[c] = <<>>
          /\ \A d \in Clients \ {c} : wire'[d] = wire[d]
      <4>1. <<>> \in Seq(Halves)
        OBVIOUS
      <4>2. QED
        BY <3>2, <3>4, <4>1
    <3>7. peer'[c] # "reset" => wire'[c] = wire[c]
      BY <3>1, <3>5
    <3>8. QED
      BY <3>3, <3>5, <3>6, <3>7
  <2>2. TypeInv'
    BY <2>1 DEF TypeInv
  <2>3. \A d \in Clients :
          /\ peer[d] \notin {"off", "released"} => peer'[d] \notin {"off", "released"}
          /\ peer[d] = "reset" => peer'[d] = "reset"
    BY <2>1
  <2>4. ConnectionInv' /\ EventInv' /\ ReleasedInv'
    <3>1. \A k \in DOMAIN backlog : backlog[k] \in Clients
      BY DEF TypeInv
    <3>2. select_list \subseteq Clients /\ \A d \in events \ {Listener} : d \in Clients
      BY DEF TypeInv
    <3>3. ConnectionInv'
      BY <2>1, <2>3, <3>1, <3>2 DEF ConnectionInv
    <3>4. EventInv'
      BY <2>1, <3>2 DEF EventInv, Readable
    <3>5. ReleasedInv'
      BY <2>1 DEF ReleasedInv
    <3>6. QED
      BY <3>3, <3>4, <3>5
  <2> DEFINE s == Stream(c)
             t == Stream(c)'
  <2>5. /\ Len(t) \in Nat /\ Len(t) <= Len(s) /\ \A j \in 1..Len(t) : t[j] = s[j]
    <3>1. CASE wire'[c] = wire[c]
      <4>1. t = s
        BY <2>1, <3>1 DEF Stream
      <4>2. Len(s) \in Nat
        BY StreamTypes
      <4>3. QED
        BY <4>1, <4>2
    <3>2. CASE wire'[c] = <<>>
      <4>1. t = inbox[c] \o <<>> /\ s = inbox[c] \o wire[c]
        BY <2>1, <3>2 DEF Stream
      <4>2. inbox[c] \in Seq(Halves) /\ wire[c] \in Seq(Halves)
        BY DEF TypeInv
      <4> HIDE DEF s, t
      <4>3. QED
        BY <4>1, <4>2, ResetCuts
    <3>3. QED
      BY <2>1, <3>1, <3>2
  <2>6. Len(s) \in Nat /\ Taken(c) \in Nat /\ sent[c] \in Nat
    BY StreamTypes
  <2>7. Taken(c) + Len(s) <= 2 * sent[c] /\ (~cut[c] => Follows(s, Taken(c)))
    BY DEF StreamInv
  <2>8. Taken(c)' = Taken(c) /\ cut'[c] = cut[c] /\ sent'[c] = sent[c]
    BY <1>0, <2>1
  <2>9. \A d \in Clients \ {c} :
          /\ Taken(d)' = Taken(d) /\ Stream(d)' = Stream(d)
          /\ sent'[d] = sent[d] /\ cut'[d] = cut[d] /\ peer'[d] = peer[d]
    BY <1>0, <2>1 DEF Stream
  <2>10. t = Stream(c)'
    OBVIOUS
  <2> HIDE DEF s, t
  <2>11. Taken(c) + Len(t) <= 2 * sent'[c]
    BY <2>5, <2>6, <2>7, <2>8
  <2>12. ~cut[c] => Follows(t, Taken(c))
    BY <2>5, <2>6, <2>7, FollowsPrefix
  <2>13. ~cut[c] /\ peer'[c] # "reset" => 2 * Taken(c) + Len(t) = 2 * sent[c]
    <3>1. peer'[c] # "reset" => t = s
      BY <2>1 DEF s, t, Stream
    <3>2. ~cut[c] => 2 * Taken(c) + Len(s) = 2 * sent[c]
      BY <2>1 DEF s, StreamInv
    <3>3. QED
      BY <3>1, <3>2
  <2>14. StreamInv'
    BY <2>1, <2>8, <2>9, <2>10, <2>11, <2>12, <2>13, StreamsChange
  <2>15. QED
    BY <1>0, <2>2, <2>4, <2>14
<1>5. QED
  BY <1>1, <1>2, <1>3, <1>4 DEF Client

\* Whatever the server finds, reads and obeys, in whatever order, keeps it.
LEMMA ServerStep ==
  ASSUME Inv, Server
  PROVE  Inv'
<1> USE LightAssumption DEF Inv, server, network
<1>1. CASE Select
  <2>1. /\ srv = "select" /\ srv' \in {"events", "dead"}
        /\ events' \in {events, {c \in select_list : Readable(c)}
                                \cup (IF backlog # <<>> THEN {Listener} ELSE {})}
        /\ UNCHANGED <<select_list, fd, limits, network, command, lamp, told, cut>>
    BY <1>1 DEF Select
  <2>2. TypeInv'
    BY <2>1 DEF TypeInv
  <2>3. Listener \in events' => backlog # <<>>
    BY <2>1 DEF TypeInv, ConnectionInv
  <2>4. ConnectionInv'
    BY <2>1, <2>3 DEF ConnectionInv
  <2>5. EventInv' /\ ReleasedInv'
    <3>1. \A c \in events' \ {Listener} : Readable(c)
      BY <2>1 DEF EventInv
    <3>2. EventInv'
      BY <2>1, <3>1 DEF EventInv, Readable
    <3>3. QED
      BY <2>1, <3>2 DEF ReleasedInv
  <2>6. StreamInv'
    BY <2>1, SameStreams DEF Taken, Stream
  <2>7. NoInventedCommand'
    BY <2>1 DEF NoInventedCommand
  <2>8. QED
    BY <2>2, <2>4, <2>5, <2>6, <2>7
<1>2. CASE Accept
  <2>1. /\ srv = "events" /\ Listener \in events /\ events' = events \ {Listener}
        /\ UNCHANGED <<limits, peer, sent, wire, inbox, command, lamp, told, cut>>
    BY <1>2 DEF Accept, Take
  <2>2. backlog # <<>> /\ backlog \in Seq(Clients)
    BY <2>1 DEF ConnectionInv, TypeInv
  <2>3. EventInv' /\ ReleasedInv'
    BY <2>1 DEF EventInv, ReleasedInv, Readable
  <2>4. CASE srv' = "dead" /\ UNCHANGED <<select_list, fd, backlog>>
    <3>1. TypeInv' /\ ConnectionInv'
      BY <2>1, <2>4 DEF TypeInv, ConnectionInv
    <3>2. StreamInv' /\ NoInventedCommand'
      BY <2>1, <2>4, SameStreams DEF Taken, Stream, NoInventedCommand
    <3>3. QED
      BY <2>3, <3>1, <3>2
  <2>5. ASSUME NEW n \in Nat, IsFree(n), fd' = [fd EXCEPT ![Head(backlog)] = n],
               select_list' = select_list \cup {Head(backlog)},
               backlog' = Tail(backlog), srv' \in {"select", "events"}
        PROVE  Inv'
    <3>1. /\ 1 \in DOMAIN backlog /\ Head(backlog) = backlog[1] /\ backlog[1] \in Clients
          /\ backlog' \in Seq(Clients) /\ DOMAIN backlog' \subseteq Nat \ {0}
          /\ \A k \in DOMAIN backlog' :
               k + 1 \in DOMAIN backlog /\ backlog'[k] = backlog[k + 1]
      BY <2>2, <2>5
    <3>2. PICK h \in Clients : h = Head(backlog) /\ h = backlog[1]
      BY <3>1
    <3>3. /\ fd' \in [Clients -> Nat] /\ fd'[h] = n
          /\ \A c \in Clients \ {h} : fd'[c] = fd[c]
      BY <2>5, <3>2 DEF TypeInv
    <3>4. TypeInv'
      <4>1. select_list' \subseteq Clients /\ events' \subseteq select_list' \cup {Listener}
        BY <2>1, <2>5, <3>1 DEF TypeInv
      <4>2. QED
        BY <2>1, <2>5, <3>1, <3>3, <4>1 DEF TypeInv
    <3>5. \A k \in DOMAIN backlog : /\ peer[backlog[k]] \notin {"off", "released"}
                                    /\ backlog[k] \notin select_list
      BY DEF ConnectionInv
    <3>6. \A j, k \in DOMAIN backlog : backlog[j] = backlog[k] => j = k
      BY DEF ConnectionInv
    <3>7. \A j, k \in DOMAIN backlog' : backlog'[j] = backlog'[k] => j = k
      BY <3>1, <3>6
    <3>8. \A k \in DOMAIN backlog' : /\ peer'[backlog'[k]] \notin {"off", "released"}
                                     /\ backlog'[k] \notin select_list'
      BY <2>1, <2>5, <3>1, <3>5, <3>6
    <3>9. \A c, d \in select_list' : fd'[c] = fd'[d] => c = d
      <4>1. \A c \in select_list' : c = h \/ (c \in select_list /\ c # h)
        BY <2>5, <3>2
      <4>2. \A c \in select_list : c # h => fd'[c] = fd[c] /\ fd[c] # n
        BY <2>5, <3>3 DEF IsFree, TypeInv
      <4>3. QED
        BY <3>3, <4>1, <4>2 DEF ConnectionInv
    <3>10. ConnectionInv'
      <4>1. \A c \in select_list' : peer'[c] \notin {"off", "released"}
        BY <2>1, <2>5, <3>1, <3>5 DEF ConnectionInv
      <4>2. QED
        BY <2>1, <2>5, <3>7, <3>8, <3>9, <4>1 DEF ConnectionInv, TypeInv
    <3>11. StreamInv'
      BY <2>1, <2>5, SameStreams DEF Taken, Stream
    <3>12. NoInventedCommand'
      BY <2>5 DEF NoInventedCommand
    <3>13. QED
      BY <2>3, <3>4, <3>10, <3>11, <3>12
  <2>6. QED
    <3>1. PICK n \in 0 .. Cardinality(select_list) :
            /\ IsFree(n)
            /\ \/ /\ select_list' = select_list \cup {Head(backlog)}
                  /\ fd' = [fd EXCEPT ![Head(backlog)] = n]
                  /\ backlog' = Tail(backlog) /\ NextEvent
               \/ srv' = "dead" /\ UNCHANGED <<select_list, fd, backlog>>
      BY <1>2 DEF Accept
    <3>2. n \in Nat
      OBVIOUS
    <3>3. QED
      BY <2>4, <2>5, <3>1, <3>2 DEF NextEvent
<1>3. CASE Toggle
  <2>1. /\ srv = "toggle" /\ UNCHANGED <<events, select_list, fd, limits, network, cut>>
        /\ \/ /\ srv' \in {"select", "events"} /\ lamp' \in {lamp, command.data}
              /\ told' = [told EXCEPT ![command.from] = @ + 1] /\ command' = NoCommand
           \/ srv' = "dead" /\ UNCHANGED <<lamp, told, command>>
    BY <1>3 DEF Toggle, NextEvent
  <2>2. told \in [Clients -> Nat] /\ command.from \in Clients
    BY <2>1 DEF TypeInv, ConnectionInv
  <2>3. told' \in [Clients -> Nat] /\ \A c \in Clients : Taken(c)' = Taken(c)
    BY <2>1, <2>2 DEF Taken, NoCommand
  <2>4. /\ command.data \in {On, Off}
        /\ command' \in [from : Clients \cup {Listener}, data : {On, Off}]
    BY <2>1 DEF TypeInv, NoCommand
  <2>5. TypeInv'
    BY <2>1, <2>3, <2>4 DEF TypeInv
  <2>6. ConnectionInv' /\ NoInventedCommand'
    BY <2>1 DEF ConnectionInv, NoInventedCommand, NoCommand
  <2>7. EventInv' /\ ReleasedInv'
    BY <2>1 DEF EventInv, ReleasedInv, Readable
  <2>8. StreamInv'
    BY <2>1, <2>3, SameStreams DEF Stream
  <2>9. QED
    BY <2>5, <2>6, <2>7, <2>8
<1>4. ASSUME NEW c \in Clients, Recv(c) PROVE Inv'
  <2> DEFINE raw  == SubSeq(inbox[c], 1, Min({PacketSize, Len(inbox[c])}))
             rest == SubSeq(inbox[c], Len(raw) + 1, Len(inbox[c]))
             s    == Stream(c)
             t    == Stream(c)'
  <2>1. /\ srv = "events" /\ srv' = "toggle" /\ inbox[c] # <<>>
        /\ c \in events /\ events' = events \ {c}
        /\ command' = [from |-> c, data |-> Data(raw)]
        /\ inbox' = [inbox EXCEPT ![c] = rest]
        /\ cut' = [cut EXCEPT ![c] = @ \/ Len(raw) < PacketSize]
        /\ UNCHANGED <<select_list, fd, limits, backlog, peer, sent, wire, lamp, told>>
    BY <1>4 DEF Recv, Take
  <2>2. inbox[c] \in Seq(Halves) /\ wire[c] \in Seq(Halves)
    BY DEF TypeInv
  <2>3. /\ rest \in Seq(Halves)
        /\ \E n \in {1, 2} :
             /\ Len(raw) = n /\ n <= Len(s) /\ raw[n] = s[n]
             /\ Len(rest \o wire[c]) = Len(s) - n
             /\ \A j \in 1..(Len(s) - n) : (rest \o wire[c])[j] = s[j + n]
    BY <2>1, <2>2, RecvTakes, Zenon DEF Stream
  <2> HIDE DEF rest, raw
  <2>4. t = rest \o wire[c]
    <3>1. inbox'[c] = rest /\ wire' = wire
      BY <2>1 DEF TypeInv
    <3>2. QED
      BY <3>1 DEF Stream
  <2> HIDE DEF s, t
  <2>5. PICK n \in {1, 2} :
          /\ Len(raw) = n /\ n <= Len(s) /\ raw[n] = s[n]
          /\ Len(t) = Len(s) - n /\ \A j \in 1..(Len(s) - n) : t[j] = s[j + n]
    BY <2>3, <2>4
  <2>6. TypeInv'
    <3>1. inbox \in [Clients -> Seq(Halves)] /\ cut \in [Clients -> BOOLEAN]
      BY DEF TypeInv
    <3>2. inbox' \in [Clients -> Seq(Halves)]
      BY <2>1, <2>3, <3>1
    <3>3. cut' \in [Clients -> BOOLEAN]
      BY <2>1, <3>1
    <3>4. command' \in [from : Clients \cup {Listener}, data : {On, Off}]
      BY <2>1 DEF Data
    <3>5. QED
      BY <2>1, <3>2, <3>3, <3>4 DEF TypeInv
  <2>7. ConnectionInv'
    BY <2>1 DEF ConnectionInv, TypeInv
  <2>8. EventInv' /\ ReleasedInv'
    <3>1. \A d \in Clients \ {c} : inbox'[d] = inbox[d]
      BY <2>1 DEF TypeInv
    <3>2. \A d \in events' \ {Listener} : d \in Clients \ {c} /\ d \in events
      BY <2>1 DEF TypeInv
    <3>3. peer[c] # "released"
      BY <2>1 DEF TypeInv, ConnectionInv
    <3>4. EventInv'
      BY <2>1, <3>1, <3>2 DEF EventInv, Readable
    <3>5. ReleasedInv'
      BY <2>1, <3>1, <3>3 DEF ReleasedInv
    <3>6. QED
      BY <3>4, <3>5
  <2>9. Len(s) \in Nat /\ Taken(c) \in Nat /\ sent[c] \in Nat /\ told[c] \in Nat
    BY StreamTypes DEF TypeInv, s
  <2>10. Taken(c) = told[c] /\ Taken(c)' = told[c] + 1
    BY <2>1, <2>9 DEF Taken, ConnectionInv
  <2>11. \A d \in Clients \ {c} :
           /\ Taken(d)' = Taken(d) /\ Stream(d)' = Stream(d)
           /\ sent'[d] = sent[d] /\ cut'[d] = cut[d] /\ peer'[d] = peer[d]
    <3>1. command.from = Listener /\ command'.from = c
      BY <2>1 DEF ConnectionInv
    <3>2. \A d \in Clients \ {c} : Taken(d)' = Taken(d)
      BY <2>1, <3>1 DEF Taken
    <3>3. \A d \in Clients \ {c} : inbox'[d] = inbox[d] /\ cut'[d] = cut[d]
      BY <2>1 DEF TypeInv
    <3>4. QED
      BY <2>1, <3>2, <3>3 DEF Stream
  <2>12. ~cut'[c] => n = 2 /\ ~cut[c]
    <3>1. cut'[c] = (cut[c] \/ Len(raw) < PacketSize)
      BY <2>1 DEF TypeInv
    <3>2. n # 2 => Len(raw) < PacketSize
      BY <2>5 DEF PacketSize
    <3>3. QED
      BY <3>1, <3>2
  <2>13. Taken(c) + Len(s) <= 2 * sent[c]
    BY DEF StreamInv, s
  <2>14. ~cut[c] => /\ Follows(s, Taken(c))
                    /\ peer[c] # "reset" => 2 * Taken(c) + Len(s) = 2 * sent[c]
    BY DEF StreamInv, s
  <2>15. t = Stream(c)'
    BY DEF t
  <2>16. (told[c] + 1) + Len(t) <= 2 * sent[c]
    BY <2>5, <2>9, <2>10, <2>13
  <2>17. ~cut'[c] => s[2] = Status(told[c] + 1) /\ Follows(t, told[c] + 1)
    BY <2>5, <2>9, <2>10, <2>12, <2>14, FollowsTaken
  <2>18. ~cut'[c] /\ peer[c] # "reset"
           => 2 * (told[c] + 1) + Len(t) = 2 * sent[c]
    <3>2. Len(t) \in Nat /\ Len(t) = Len(s) - n
      BY <2>5, <2>9
    <3> HIDE DEF Inv
    <3>3. SUFFICES ASSUME ~cut'[c], peer[c] # "reset"
                   PROVE  2 * (told[c] + 1) + Len(t) = 2 * sent[c]
      OBVIOUS
    <3>4. 2 * told[c] + Len(s) = 2 * sent[c] /\ Len(t) = Len(s) - 2
      BY <2>10, <2>12, <2>14, <3>2, <3>3
    <3>5. QED
      BY <2>9, <3>2, <3>4
  <2>19. StreamInv'
    BY <2>1, <2>10, <2>11, <2>15, <2>16, <2>17, <2>18, StreamsChange
  <2>20. NoInventedCommand'
    <3>1. ~cut'[c] => Data(raw) = Status(told[c] + 1)
      <4> SUFFICES ASSUME ~cut'[c] PROVE Data(raw) = Status(told[c] + 1)
        OBVIOUS
      <4>1. Len(raw) = 2 /\ raw[2] = Status(told[c] + 1)
        BY <2>5, <2>12, <2>17
      <4>2. Status(told[c] + 1) \in {On, Off}
        BY DEF Status
      <4>3. QED
        BY <4>1, <4>2 DEF Data, On, Off
    <3>2. QED
      BY <2>1, <3>1 DEF NoInventedCommand
  <2>21. QED
    BY <2>6, <2>7, <2>8, <2>19, <2>20
<1>5. ASSUME NEW c \in Clients, EndOfStream(c) PROVE Inv'
  <2>1. /\ srv = "events" /\ srv' \in {"select", "events"}
        /\ c \in events /\ events' = events \ {c} /\ peer[c] = "closed"
        /\ inbox[c] = <<>> /\ fd' = [fd EXCEPT ![c] = 0]
        /\ peer' = [peer EXCEPT ![c] = "released"] /\ select_list' = select_list \ {c}
        /\ UNCHANGED <<limits, backlog, sent, wire, inbox, command, lamp, told, cut>>
    BY <1>5 DEF EndOfStream, Take, Forget, NextEvent
  <2>2. TypeInv'
    BY <2>1 DEF TypeInv
  <2>3. c \in select_list /\ select_list \subseteq Clients
    BY <2>1 DEF TypeInv
  <2>4. peer'[c] = "released" /\ \A d \in Clients \ {c} : peer'[d] = peer[d]
    BY <2>1 DEF TypeInv
  <2>5. \A k \in DOMAIN backlog : backlog[k] \in Clients /\ backlog[k] # c
    BY <2>3 DEF TypeInv, ConnectionInv
  <2>6. ConnectionInv'
    <3>1. \A d \in select_list' : d \in select_list /\ d # c /\ fd'[d] = fd[d]
      BY <2>1, <2>3 DEF TypeInv
    <3>2. \A d, e \in select_list' : fd'[d] = fd'[e] => d = e
      BY <3>1 DEF ConnectionInv
    <3>3. QED
      BY <2>1, <2>3, <2>4, <2>5, <3>1, <3>2 DEF ConnectionInv
  <2>7. StreamInv'
    <3>1. \A d \in Clients : Taken(d)' = Taken(d) /\ Stream(d)' = Stream(d)
      BY <2>1 DEF Taken, Stream
    <3>2. \A d \in Clients : peer'[d] # "reset" => peer[d] # "reset"
      BY <2>1, <2>4
    <3>3. QED
      BY <2>1, <3>1, <3>2, SameStreams
  <2>8. EventInv' /\ ReleasedInv'
    <3>1. c \in events \ {Listener} /\ \A d \in events' \ {Listener} : d \in Clients \ {c}
      BY <2>1 DEF TypeInv
    <3>2. wire[c] = <<>>
      BY <2>1, <3>1 DEF EventInv, Readable
    <3>3. EventInv'
      BY <2>1, <2>4, <3>1 DEF EventInv, Readable
    <3>4. ReleasedInv'
      BY <2>1, <2>4, <3>2 DEF ReleasedInv
    <3>5. QED
      BY <3>3, <3>4
  <2>9. NoInventedCommand'
    BY <2>1 DEF NoInventedCommand
  <2>10. QED
    BY <2>2, <2>6, <2>7, <2>8, <2>9
<1>6. ASSUME NEW c \in Clients, Reset(c) PROVE Inv'
  <2>1. /\ srv = "events" /\ srv' = "dead" /\ events' = events \ {c}
        /\ UNCHANGED <<select_list, fd, limits, network, command, lamp, told, cut>>
    BY <1>6 DEF Reset, Take
  <2>2. TypeInv' /\ ConnectionInv'
    BY <2>1 DEF TypeInv, ConnectionInv
  <2>3. EventInv' /\ ReleasedInv' /\ NoInventedCommand'
    BY <2>1 DEF EventInv, ReleasedInv, Readable, NoInventedCommand
  <2>4. StreamInv'
    BY <2>1, SameStreams DEF Taken, Stream
  <2>5. QED
    BY <2>2, <2>3, <2>4
<1>7. QED
  BY <1>1, <1>2, <1>3, <1>4, <1>5, <1>6 DEF Server

\* So does every step of the system.
LEMMA StepInv == Inv /\ [Next]_vars => Inv'
<1> SUFFICES ASSUME Inv, [Next]_vars PROVE Inv'
  OBVIOUS
<1>1. CASE Next
  BY <1>1, ClientStep, ServerStep DEF Next
<1>2. CASE UNCHANGED vars
  <2> USE <1>2 DEF vars, server, network, Inv
  <2>1. TypeInv' /\ ConnectionInv' /\ NoInventedCommand'
    BY DEF TypeInv, ConnectionInv, NoInventedCommand
  <2>2. EventInv' /\ ReleasedInv'
    BY DEF EventInv, ReleasedInv, Readable
  <2>3. StreamInv'
    BY SameStreams DEF Taken, Stream
  <2>4. QED
    BY <2>1, <2>2, <2>3
<1>3. QED
  BY <1>1, <1>2

-----------------------------------------------------------------------------
(* The safety properties of LightServer.                                   *)

\* Every reachable state satisfies the inductive invariant.
THEOREM Invariance == Spec => []Inv
  BY InitInv, StepInv, PTL DEF Spec

\* Every variable keeps its type, no client is obeyed more than twice for a
\* packet, and no event or member of the list is a connection that was closed.
THEOREM TypeCorrect == Spec => []TypeOK
<1>1. Inv => TypeOK
  <2> SUFFICES ASSUME Inv PROVE TypeOK
    OBVIOUS
  <2> USE LightAssumption DEF Inv
  <2>1. told \in [Clients -> 0 .. 2 * MaxPackets]
    <3>1. \A c \in Clients : told[c] \in Nat /\ told[c] <= 2 * MaxPackets
      <4> SUFFICES ASSUME NEW c \in Clients
                   PROVE  told[c] \in Nat /\ told[c] <= 2 * MaxPackets
        OBVIOUS
      <4>1. Taken(c) + Len(Stream(c)) <= 2 * sent[c]
        BY DEF StreamInv
      <4>2. Len(Stream(c)) \in Nat /\ Taken(c) \in Nat
        BY StreamTypes
      <4>3. told[c] \in Nat /\ sent[c] \in 0..MaxPackets
        BY DEF TypeInv
      <4>4. told[c] <= Taken(c)
        BY <4>3 DEF Taken
      <4>5. QED
        BY <4>1, <4>2, <4>3, <4>4
    <3>2. QED
      BY <3>1 DEF TypeInv
  <2>2. /\ \A c \in Clients : c \in select_list => peer[c] # "released"
        /\ \A c, d \in select_list : fd[c] = fd[d] => c = d
    BY DEF ConnectionInv
  <2>3. QED
    BY <2>1, <2>2 DEF TypeOK, TypeInv, Halves
<1>2. QED
  BY <1>1, Invariance, PTL

\* As long as a client's packets were never split, each command that is obeyed is
\* the next one it sent, however the clients' packets interleave and pile up.
THEOREM CommandsCorrect == Spec => []NoInventedCommand
<1>1. Inv => NoInventedCommand
  BY DEF Inv
<1>2. QED
  BY <1>1, Invariance, PTL

\* A client that left in order is let go when each of its commands was obeyed,
\* unless one of its packets was split.
THEOREM ReleaseCorrect == Spec => []ObeyedBeforeRelease
<1>1. Inv => ObeyedBeforeRelease
  <2> SUFFICES ASSUME Inv, NEW c \in Clients, peer[c] = "released", ~cut[c]
               PROVE  told[c] = sent[c]
    BY DEF ObeyedBeforeRelease
  <2> USE DEF Inv
  <2>1. inbox[c] = <<>> /\ wire[c] = <<>> /\ <<>> \o <<>> = <<>>
    BY DEF ReleasedInv
  <2>2. Len(Stream(c)) = 0
    BY <2>1 DEF Stream
  <2>3. c \notin select_list /\ c # Listener
    BY LightAssumption DEF ConnectionInv
  <2>4. Taken(c) = told[c]
    BY <2>3 DEF Taken, ConnectionInv, TypeInv
  <2>5. 2 * Taken(c) + Len(Stream(c)) = 2 * sent[c]
    BY DEF StreamInv
  <2>6. told[c] \in Nat /\ sent[c] \in Nat
    BY StreamTypes DEF TypeInv
  <2>7. QED
    BY <2>2, <2>4, <2>5, <2>6
<1>2. QED
  BY <1>1, Invariance, PTL
=============================================================================
