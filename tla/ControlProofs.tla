---------------------------- MODULE ControlProofs ---------------------------
(***************************************************************************)
(* Theorems about the control program over the network, for any finite     *)
(* set of sensors and any readings and thresholds.                         *)
(***************************************************************************)
EXTENDS ControlInet, FiniteSetTheorems, TLAPS

-----------------------------------------------------------------------------
(* The inductive invariant.                                                *)

\* A sensor in the epoll set, or asked about, was accepted; none is both.  A
\* role is given only to a sensor in the set.
WatchInv ==
  /\ \A s \in watched : link[s] \in {"open", "closed"}
  /\ data_fd \in Sensors => link[data_fd] \in {"open", "closed"}
  /\ alive => /\ data_fd \notin watched
              /\ indoor_fd # NoConnection /\ outdoor_fd # NoConnection
  /\ RolesAreWatched

Closed == {s \in Sensors : link[s] = "closed"}

\* What an event says of its descriptor, given the sensors that have sent bytes
\* that were not read, and those that are closed.
SoundEvent(e, waiting, closed) ==
  /\ e.fd \notin Sensors => e.in /\ ~e.rdhup
  /\ e.fd \in Sensors =>
       /\ e.in => e.fd \in waiting \/ e.rdhup
       /\ ~e.in => e.rdhup
       /\ e.rdhup => e.fd \in closed

\* What the events of a batch were reported for still holds when they are
\* handled, and no descriptor is reported twice.
EventsInv ==
  /\ \A j, k \in DOMAIN events : events[j].fd = events[k].fd => j = k
  /\ \A k \in DOMAIN events : SoundEvent(events[k], unread \cup begun, Closed)
  /\ data_fd # NoFd => events # <<>> /\ Head(events).fd = ConnFd

\* A ready flag, a role and a command need the answers that led to them.
AskedInv ==
  /\ indoor_fd # NoFd => "indoor" \in asked
  /\ outdoor_fd # NoFd => "outdoor" \in asked
  /\ indoor_ready => "indoor" \in asked
  /\ outdoor_ready => "outdoor" \in asked

\* The sensor whose end of data is the next thing to be handled.
BeingDropped(s) ==
  /\ s \in {indoor_fd, outdoor_fd}
  /\ events # <<>> /\ Head(events).fd = s /\ ~Head(events).in

\* The event that reported the end of its data has been handled, or its input.
Dropped(s) == s \notin watched \/ BeingDropped(s)

\* How often a sensor's last reading may have been used again: once by a read
\* that waited for the rest of a packet, once by the event that has it dropped.
\* An event that does not report the end came before either.
StaleInv ==
  \A s \in Sensors :
    /\ link[s] # "closed" \/ s = data_fd => stale[s] = 0
    /\ stale[s] <= (IF s \in begun THEN 1 ELSE 0) + (IF Dropped(s) THEN 1 ELSE 0)
    /\ \A k \in DOMAIN events :
         events[k].fd = s /\ ~events[k].rdhup => stale[s] = 0

Inv ==
  /\ TypeOK /\ WatchInv /\ EventsInv /\ AskedInv /\ StaleInv /\ NoCommandBeforeBoth

-----------------------------------------------------------------------------
(* Lemmas about the operators the actions are built from.                  *)

EventSet ==
  [fd : {STDIN_FILENO, ConnFd} \cup Sensors, in : BOOLEAN, rdhup : BOOLEAN]

\* The first event, once its input was handled, goes or waits for its hang-up.
LEMMA InputHandledEvents ==
  ASSUME events \in Seq(EventSet), events # <<>>, InputHandled
  PROVE  /\ events' \in Seq(EventSet)
         /\ Head(events).rdhup =>
              /\ Len(events') = Len(events)
              /\ events'[1] = [Head(events) EXCEPT !.in = FALSE]
              /\ \A k \in 2..Len(events) : events'[k] = events[k]
         /\ ~Head(events).rdhup =>
              /\ Len(events') = Len(events) - 1
              /\ \A k \in 1..Len(events') : events'[k] = events[k + 1]
<1> DEFINE left == [Head(events) EXCEPT !.in = FALSE]
<1>1. Head(events) \in EventSet /\ Tail(events) \in Seq(EventSet)
  OBVIOUS
<1>2. left \in EventSet
  BY <1>1 DEF EventSet
<1>3. CASE Head(events).rdhup
  <2>1. events' = <<left>> \o Tail(events)
    BY <1>3 DEF InputHandled
  <2> HIDE DEF left
  <2>2. <<left>> \in Seq(EventSet) /\ Len(<<left>>) = 1 /\ <<left>>[1] = left
    BY <1>2
  <2>3. events' \in Seq(EventSet) /\ Len(events') = Len(events)
    BY <1>1, <2>1, <2>2
  <2>4. events'[1] = left /\ \A k \in 2..Len(events) : events'[k] = events[k]
    BY <1>1, <2>1, <2>2
  <2>5. QED
    BY <1>3, <2>3, <2>4 DEF left
<1>4. CASE ~Head(events).rdhup
  <2>1. events' = Tail(events)
    BY <1>4 DEF InputHandled
  <2>2. QED
    BY <1>1, <1>4, <2>1
<1>5. QED
  BY <1>3, <1>4

\* update() keeps the types, raises no flag, and sends nothing unless both flags
\* are up.
LEMMA UpdateEffect ==
  ASSUME TypeOK, NEW in, NEW out, NEW inReady \in BOOLEAN, NEW outReady \in BOOLEAN,
         Update(in, out, inReady, outReady)
  PROVE  /\ alive' \in BOOLEAN /\ light_on' \in BOOLEAN
         /\ motor_fd' \in BOOLEAN /\ motor' \in {"up", "gone", "reset"}
         /\ told' \in {"none", "raise", "lower", "stop"}
         /\ indoor_ready' \in BOOLEAN /\ (indoor_ready' => inReady)
         /\ outdoor_ready' \in BOOLEAN /\ (outdoor_ready' => outReady)
         /\ told' = told \/ (inReady /\ outReady)
<1>1. CASE ~(inReady /\ outReady)
  BY <1>1 DEF Update, TypeOK, motors
<1>2. CASE inReady /\ outReady
  <2>1. PICK result \in {"ok", "error", "killed"} :
          /\ Tell(CommandFor(in, out), result)
          /\ light_on' = IF result = "ok" THEN LightFor(in) ELSE light_on
          /\ indoor_ready' = (result # "ok") /\ outdoor_ready' = (result # "ok")
          /\ alive' = (result # "killed")
    BY <1>2 DEF Update
  <2>2. light_on' \in BOOLEAN
    BY <2>1 DEF LightFor, TypeOK
  <2>3. CommandFor(in, out) \in {"none", "raise", "lower", "stop"}
    BY DEF CommandFor
  <2>4. /\ motor_fd' \in BOOLEAN /\ motor' \in {"up", "gone", "reset"}
        /\ told' \in {"none", "raise", "lower", "stop"}
    BY <2>1, <2>3 DEF Tell, TypeOK, motors
  <2>5. QED
    BY <1>2, <2>1, <2>2, <2>4
<1>3. QED
  BY <1>1, <1>2

\* Every event that is left was there, with its hang-up.
Remaining ==
  \A k \in DOMAIN events' : \E j \in DOMAIN events :
    events'[k].fd = events[j].fd /\ (~events'[k].rdhup => ~events[j].rdhup)

\* A step that counts no stale reading keeps the count right if a sensor that has
\* ended stays as it is, but for being dropped.
LEMMA StaleKept ==
  ASSUME TypeOK, StaleInv, stale' = stale,
         \A s \in Sensors : link[s] = "closed" /\ s # data_fd =>
           /\ link'[s] = "closed" /\ s # data_fd'
           /\ s \in begun => s \in begun'
           /\ Dropped(s) => Dropped(s)'
           /\ \A k \in DOMAIN events' : events'[k].fd = s /\ ~events'[k].rdhup =>
                \E j \in DOMAIN events : events[j].fd = s /\ ~events[j].rdhup
  PROVE  StaleInv'
<1> SUFFICES ASSUME NEW s \in Sensors
             PROVE  /\ link'[s] # "closed" \/ s = data_fd' => stale'[s] = 0
                    /\ stale'[s] <= (IF s \in begun' THEN 1 ELSE 0)
                                      + (IF Dropped(s)' THEN 1 ELSE 0)
                    /\ \A k \in DOMAIN events' :
                         events'[k].fd = s /\ ~events'[k].rdhup => stale'[s] = 0
  BY DEF StaleInv
<1>1. CASE stale[s] = 0
  BY <1>1
<1>2. CASE stale[s] # 0
  <2>1. link[s] = "closed" /\ s # data_fd
    BY <1>2 DEF StaleInv
  <2>2. /\ link'[s] = "closed" /\ s # data_fd'
        /\ \A k \in DOMAIN events' : ~(events'[k].fd = s /\ ~events'[k].rdhup)
    BY <1>2, <2>1 DEF StaleInv
  <2>3. /\ s \in begun => s \in begun'
        /\ Dropped(s) => Dropped(s)'
    BY <2>1
  <2>4. /\ stale[s] \in Nat
        /\ stale[s] <= (IF s \in begun THEN 1 ELSE 0) + (IF Dropped(s) THEN 1 ELSE 0)
    BY DEF StaleInv, TypeOK
  <2>5. stale[s] <= (IF s \in begun' THEN 1 ELSE 0) + (IF Dropped(s)' THEN 1 ELSE 0)
    BY <2>3, <2>4
  <2>6. QED
    BY <2>2, <2>5
<1>3. QED
  BY <1>1, <1>2

\* Handling the input of the first event leaves every event true to its file.
LEMMA InputKeepsEvents ==
  ASSUME TypeOK, EventsInv, events # <<>>, InputHandled, data_fd' = NoFd,
         link' = link, (unread \cup begun) \ {Head(events).fd} \subseteq unread' \cup begun'
  PROVE  EventsInv' /\ events' \in Seq(EventSet) /\ Remaining
<1> DEFINE e == Head(events)
<1>1. events \in Seq(EventSet)
  BY DEF TypeOK, EventSet
<1>2. /\ 1 \in DOMAIN events /\ e = events[1] /\ e \in EventSet
      /\ DOMAIN events = 1..Len(events) /\ Len(events) \in Nat
      /\ \A k \in DOMAIN events : events[k] \in EventSet
  BY <1>1
<1>3. /\ \A j, k \in DOMAIN events : events[j].fd = events[k].fd => j = k
      /\ \A k \in DOMAIN events : SoundEvent(events[k], unread \cup begun, Closed)
  BY DEF EventsInv
<1>4. events' \in Seq(EventSet) /\ DOMAIN events' = 1..Len(events')
  BY <1>1, InputHandledEvents
<1>5. ASSUME NEW k \in DOMAIN events, k # 1 PROVE SoundEvent(events[k], unread' \cup begun', Closed)
  <2>1. events[k].fd # e.fd
    BY <1>2, <1>3, <1>5
  <2>2. QED
    BY <1>2, <1>3, <1>5, <2>1 DEF SoundEvent
<1> HIDE DEF e
<1>6. Closed' = Closed
  BY DEF Closed
<1>7. CASE e.rdhup
  <2>1. /\ Len(events') = Len(events)
        /\ events'[1] = [e EXCEPT !.in = FALSE]
        /\ \A k \in 2..Len(events) : events'[k] = events[k]
    BY <1>1, <1>7, InputHandledEvents DEF e
  <2>2. events'[1].fd = e.fd /\ ~events'[1].in /\ events'[1].rdhup
    BY <1>2, <1>7, <2>1 DEF EventSet
  <2>3. DOMAIN events' = DOMAIN events
    BY <1>2, <1>4, <2>1
  <2>4. \A k \in DOMAIN events : k # 1 => events'[k] = events[k]
    <3>1. \A k \in DOMAIN events : k # 1 => k \in 2..Len(events)
      BY <1>2
    <3>2. QED
      BY <2>1, <3>1
  <2>5. SoundEvent(events'[1], unread' \cup begun', Closed)
    BY <1>2, <1>3, <1>7, <2>2 DEF SoundEvent
  <2>6. \A k \in DOMAIN events' : SoundEvent(events'[k], unread' \cup begun', Closed')
    BY <1>5, <1>6, <2>3, <2>5, <2>4
  <2>7. \A k \in DOMAIN events' : events'[k].fd = events[k].fd
    BY <1>2, <2>2, <2>3, <2>4
  <2>8. \A k \in DOMAIN events' : ~events'[k].rdhup => ~events[k].rdhup
    BY <2>2, <2>3, <2>4
  <2>9. QED
    BY <1>3, <1>4, <2>3, <2>6, <2>7, <2>8 DEF EventsInv, Remaining
<1>8. CASE ~e.rdhup
  <2>1. /\ Len(events') = Len(events) - 1
        /\ \A k \in 1..Len(events') : events'[k] = events[k + 1]
    BY <1>1, <1>8, InputHandledEvents DEF e
  <2>2. \A k \in DOMAIN events' : k + 1 \in DOMAIN events /\ k + 1 # 1
    BY <1>2, <1>4, <2>1
  <2>3. \A k \in DOMAIN events' : SoundEvent(events'[k], unread' \cup begun', Closed')
    BY <1>5, <1>6, <2>1, <2>2, <1>4
  <2>4. QED
    BY <1>2, <1>3, <1>4, <2>1, <2>2, <2>3 DEF EventsInv, Remaining
<1>9. QED
  BY <1>4, <1>7, <1>8

\* So does handling its hang-up.
LEMMA TailKeepsEvents ==
  ASSUME TypeOK, EventsInv, events # <<>>, events' = Tail(events), data_fd' = NoFd,
         UNCHANGED <<link, unread, begun>>
  PROVE  EventsInv' /\ events' \in Seq(EventSet) /\ Remaining
<1>1. events \in Seq(EventSet)
  BY DEF TypeOK, EventSet
<1>2. /\ events' \in Seq(EventSet)
      /\ \A k \in DOMAIN events' : k + 1 \in DOMAIN events /\ events'[k] = events[k + 1]
      /\ DOMAIN events' \subseteq Nat
  BY <1>1
<1>3. Closed' = Closed
  BY DEF Closed
<1>4. EventsInv'
  <2>1. unread' \cup begun' = unread \cup begun
    OBVIOUS
  <2>2. \A k \in DOMAIN events' : SoundEvent(events'[k], unread' \cup begun', Closed')
    BY <1>2, <1>3, <2>1 DEF EventsInv
  <2>3. \A j, k \in DOMAIN events' : events'[j].fd = events'[k].fd => j = k
    BY <1>2 DEF EventsInv
  <2>4. QED
    BY <2>2, <2>3 DEF EventsInv
<1>5. Remaining
  BY <1>2 DEF Remaining
<1>6. QED
  BY <1>2, <1>4, <1>5

\* A read that fails counts once before the event that reports the end, and only
\* in the middle of a packet, and once in that event, which has the sensor dropped.
LEMMA ReadingKeepsCount ==
  ASSUME TypeOK, WatchInv, EventsInv, StaleInv,
         NEW fd \in {indoor_fd, outdoor_fd} \ {NoFd}, Handling(fd), Head(events).in,
         NEW tmp, NEW received, UseSensor(fd, tmp, received), InputHandled,
         UNCHANGED <<data_fd, watched, roles, link, begun>>
  PROVE  /\ events' \in Seq(EventSet) /\ EventsInv' /\ StaleInv'
         /\ unread' \subseteq Sensors /\ stale' \in [Sensors -> Nat]
<1>1. /\ alive /\ data_fd = NoFd /\ events # <<>> /\ Head(events).fd = fd
      /\ (unread \cup begun) \ {fd} \subseteq unread' \cup begun'
      /\ unread' \subseteq unread
      /\ stale \in [Sensors -> Nat]
  BY DEF Handling, UseSensor, TypeOK
<1>2. events' \in Seq(EventSet) /\ EventsInv' /\ Remaining
  BY <1>1, InputKeepsEvents
<1>3. fd \in watched /\ fd \in Sensors /\ fd # NoFd
  BY <1>1 DEF WatchInv, RolesAreWatched, TypeOK
<1>4. \A s \in Sensors : ~BeingDropped(s)
  BY DEF BeingDropped
<1>5. \A s \in Sensors : Dropped(s) => Dropped(s)'
  BY <1>4 DEF Dropped
<1>6. CASE fd \in unread
  <2>1. stale' = stale
    BY <1>6 DEF UseSensor
  <2>2. StaleInv'
    BY <1>2, <1>5, <2>1, StaleKept DEF Remaining
  <2>3. QED
    BY <1>1, <1>2, <2>1, <2>2 DEF TypeOK
<1>7. CASE fd \notin unread
  <2>1. link[fd] = "closed" /\ stale' = [stale EXCEPT ![fd] = @ + 1]
    BY <1>7 DEF UseSensor
  <2>2. events \in Seq(EventSet)
    BY DEF TypeOK, EventSet
  <2>3. /\ 1 \in DOMAIN events /\ Head(events) = events[1] /\ events[1] \in EventSet
        /\ DOMAIN events = 1..Len(events) /\ Len(events) \in Nat
    BY <1>1, <2>2
  <2>4. SoundEvent(Head(events), unread \cup begun, Closed)
    BY <2>3 DEF EventsInv
  <2>5. /\ stale[fd] \in Nat /\ stale'[fd] = stale[fd] + 1
        /\ \A s \in Sensors \ {fd} : stale'[s] = stale[s]
    BY <1>1, <1>3, <2>1
  <2>6. stale[fd] <= IF fd \in begun THEN 1 ELSE 0
    <3>1. ~Dropped(fd)
      BY <1>3, <1>4 DEF Dropped
    <3>2. stale[fd] <= (IF fd \in begun THEN 1 ELSE 0) + (IF Dropped(fd) THEN 1 ELSE 0)
      BY <1>3 DEF StaleInv
    <3>3. QED
      BY <2>5, <3>1, <3>2
  <2>7. /\ stale'[fd] <= (IF fd \in begun THEN 1 ELSE 0)
                          + (IF Dropped(fd)' THEN 1 ELSE 0)
        /\ \A k \in DOMAIN events' : ~(events'[k].fd = fd /\ ~events'[k].rdhup)
    <3>1. CASE Head(events).rdhup
      <4>1. events'[1] = [Head(events) EXCEPT !.in = FALSE] /\ Len(events') = Len(events)
        BY <1>1, <2>2, <3>1, InputHandledEvents
      <4>2. Len(events) > 0
        BY <1>1, <2>2
      <4>3. /\ 1 \in DOMAIN events' /\ events' # <<>> /\ Head(events') = events'[1]
        BY <1>2, <4>1, <4>2
      <4>4. events'[1].fd = fd /\ ~events'[1].in /\ events'[1].rdhup
        BY <1>1, <2>3, <3>1, <4>1 DEF EventSet
      <4>5. BeingDropped(fd)'
        BY <4>3, <4>4 DEF BeingDropped, roles
      <4>6. Dropped(fd)'
        BY <4>5 DEF Dropped
      <4>7. \A k \in DOMAIN events' : events'[k].fd = fd => k = 1
        BY <1>2, <4>3, <4>4 DEF EventsInv
      <4>8. QED
        BY <2>5, <2>6, <4>4, <4>6, <4>7
    <3>2. CASE ~Head(events).rdhup
      <4>1. stale[fd] = 0
        BY <1>1, <1>3, <2>3, <3>2 DEF StaleInv
      <4>2. fd \in begun
        BY <1>1, <1>3, <1>7, <2>4, <3>2 DEF SoundEvent
      <4>3. /\ Len(events') = Len(events) - 1
            /\ \A k \in 1..Len(events') : events'[k] = events[k + 1]
        BY <1>1, <2>2, <3>2, InputHandledEvents
      <4>4. DOMAIN events' = 1..Len(events')
        BY <1>2
      <4>5. \A k \in DOMAIN events' : k + 1 \in DOMAIN events /\ k + 1 # 1
        BY <2>3, <4>3, <4>4
      <4>6. \A k \in DOMAIN events' : events'[k].fd # fd
        BY <1>1, <2>3, <4>3, <4>4, <4>5 DEF EventsInv
      <4>7. stale'[fd] <= (IF fd \in begun THEN 1 ELSE 0)
                          + (IF Dropped(fd)' THEN 1 ELSE 0)
        BY <2>5, <4>1, <4>2
      <4>8. QED
        BY <4>6, <4>7
    <3>3. QED
      BY <3>1, <3>2
  <2>8. stale' \in [Sensors -> Nat]
    BY <1>1, <1>3, <2>1, <2>5
  <2>9. ASSUME NEW s \in Sensors
        PROVE  /\ link'[s] # "closed" \/ s = data_fd' => stale'[s] = 0
               /\ stale'[s] <= (IF s \in begun' THEN 1 ELSE 0)
                                 + (IF Dropped(s)' THEN 1 ELSE 0)
               /\ \A k \in DOMAIN events' :
                    events'[k].fd = s /\ ~events'[k].rdhup => stale'[s] = 0
    <3>1. CASE s = fd
      BY <1>1, <1>3, <2>1, <2>7, <3>1
    <3>2. CASE s # fd
      <4>1. stale'[s] = stale[s] /\ stale[s] \in Nat
        BY <1>1, <2>5, <3>2
      <4>2. /\ link[s] # "closed" \/ s = data_fd => stale[s] = 0
            /\ stale[s] <= (IF s \in begun THEN 1 ELSE 0) + (IF Dropped(s) THEN 1 ELSE 0)
            /\ \A k \in DOMAIN events : events[k].fd = s /\ ~events[k].rdhup => stale[s] = 0
        BY DEF StaleInv
      <4>3. \A k \in DOMAIN events' :
              events'[k].fd = s /\ ~events'[k].rdhup => stale[s] = 0
        BY <1>2, <4>2 DEF Remaining
      <4>4. stale[s] <= (IF s \in begun' THEN 1 ELSE 0) + (IF Dropped(s)' THEN 1 ELSE 0)
        BY <1>5, <4>1, <4>2
      <4>5. QED
        BY <4>1, <4>2, <4>3, <4>4
    <3>3. QED
      BY <3>1, <3>2
  <2>10. StaleInv'
    BY <2>9 DEF StaleInv
  <2>11. QED
    BY <1>1, <1>2, <2>8, <2>10 DEF TypeOK
<1>8. QED
  BY <1>6, <1>7

\* epoll_wait() reports each descriptor once, and for what holds of it.
LEMMA BatchSound ==
  ASSUME TypeOK, data_fd = NoFd, EpollWait
  PROVE  /\ events' \in Seq(EventSet) /\ EventsInv'
         /\ \A k \in DOMAIN events' : events'[k].fd \in Closed => events'[k].rdhup
<1> DEFINE sockets == {fd \in {ConnFd} \cup watched : In(fd)}
<1>0. PICK b \in Batches : events' = [k \in DOMAIN b |-> Event(b[k])]
  BY DEF EpollWait
<1>1. PICK fds \in {sockets, sockets \cup {STDIN_FILENO}} :
        b \in [1..Cardinality(fds) -> fds] /\ IsInjective(b)
  BY DEF Batches
<1>2. Cardinality(fds) \in Nat
  <2>1. IsFiniteSet({STDIN_FILENO} \cup ({ConnFd} \cup Sensors))
    <3>1. IsFiniteSet(Sensors \cup {ConnFd})
      BY ControlAssumption, FS_AddElement
    <3>2. IsFiniteSet((Sensors \cup {ConnFd}) \cup {STDIN_FILENO})
      BY <3>1, FS_AddElement
    <3>3. (Sensors \cup {ConnFd}) \cup {STDIN_FILENO}
            = {STDIN_FILENO} \cup ({ConnFd} \cup Sensors)
      OBVIOUS
    <3>4. QED
      BY <3>2, <3>3
  <2>2. fds \subseteq {STDIN_FILENO} \cup ({ConnFd} \cup Sensors)
    BY DEF TypeOK
  <2>3. QED
    BY <2>1, <2>2, FS_Subset, FS_CardinalityType
<1>3. \A fd \in fds : /\ Event(fd) \in EventSet
                      /\ SoundEvent(Event(fd), unread \cup begun, Closed)
                      /\ Event(fd).fd \in Closed => Event(fd).rdhup
  <2> SUFFICES ASSUME NEW fd \in fds
               PROVE  /\ Event(fd) \in EventSet
                      /\ SoundEvent(Event(fd), unread \cup begun, Closed)
                      /\ Event(fd).fd \in Closed => Event(fd).rdhup
    OBVIOUS
  <2>1. fd \in {STDIN_FILENO, ConnFd} \cup Sensors /\ watched \subseteq Sensors
    BY DEF TypeOK
  <2>2. Event(fd) \in EventSet /\ Event(fd).fd = fd /\ Event(fd).in
    BY <2>1 DEF Event, EventSet
  <2>3. Event(fd).rdhup = (fd \in watched /\ link[fd] = "closed")
    BY DEF Event
  <2>4. CASE fd \in Sensors
    <3>1. fd \notin {STDIN_FILENO, ConnFd}
      BY <2>4, ControlAssumption DEF STDIN_FILENO, ConnFd, NoFd
    <3>2. fd \in watched /\ (fd \in unread \cup begun \/ link[fd] = "closed")
      BY <3>1 DEF In
    <3>3. QED
      BY <2>2, <2>3, <2>4, <3>2 DEF SoundEvent, Closed
  <2>5. CASE fd \notin Sensors
    BY <2>1, <2>2, <2>3, <2>5 DEF SoundEvent, Closed
  <2>6. QED
    BY <2>2, <2>4, <2>5
<1>4. /\ events' \in Seq(EventSet) /\ DOMAIN events' = DOMAIN b
      /\ \A k \in DOMAIN b : b[k] \in fds /\ events'[k] = Event(b[k])
  BY <1>0, <1>1, <1>2, <1>3
<1>5. \A j, k \in DOMAIN events' : events'[j].fd = events'[k].fd => j = k
  BY <1>1, <1>4 DEF Event, IsInjective
<1>6. Closed' = Closed /\ UNCHANGED <<unread, begun>> /\ data_fd' = NoFd
  BY DEF EpollWait, Closed, sensors
<1>7. \A k \in DOMAIN events' : SoundEvent(events'[k], unread' \cup begun', Closed')
  BY <1>3, <1>4, <1>6
<1>8. \A k \in DOMAIN events' : events'[k].fd \in Closed => events'[k].rdhup
  BY <1>3, <1>4
<1>9. QED
  BY <1>4, <1>5, <1>6, <1>7, <1>8 DEF EventsInv

\* The program starts in the invariant: no sensors, no roles, no readings.
LEMMA InitInv == Init => Inv
<1> SUFFICES ASSUME Init PROVE Inv
  OBVIOUS
<1> USE ControlAssumption DEF Init
<1>1. TypeOK
  <2>1. events \in Seq([fd : {STDIN_FILENO, ConnFd} \cup Sensors,
                       in : BOOLEAN, rdhup : BOOLEAN])
    OBVIOUS
  <2>2. /\ {data_fd, indoor_fd, outdoor_fd} \subseteq Sensors \cup {NoFd, NoConnection}
        /\ link \in [Sensors -> {"none", "backlog", "open", "closed"}]
    OBVIOUS
  <2>3. QED
    BY <2>1, <2>2 DEF TypeOK
<1>2. WatchInv
  BY DEF WatchInv, RolesAreWatched, NoFd, NoConnection
<1>3. EventsInv
  BY DEF EventsInv
<1>4. AskedInv
  BY DEF AskedInv
<1>5. StaleInv
  <2>1. \A s \in Sensors : stale[s] = 0 /\ Dropped(s)
    BY DEF Dropped
  <2>2. QED
    BY <2>1 DEF StaleInv
<1>6. NoCommandBeforeBoth
  BY DEF NoCommandBeforeBoth
<1>7. QED
  BY <1>1, <1>2, <1>3, <1>4, <1>5, <1>6 DEF Inv

\* Every event the program handles, and all that others do meanwhile, keep it.
LEMMA StepInv == Inv /\ [Next]_vars => Inv'
<1> SUFFICES ASSUME Inv, [Next]_vars PROVE Inv'
  OBVIOUS
<1> USE ControlAssumption
    DEF Inv, roles, levels, ready, limits, motors, sensors, history
<1>0. events \in Seq(EventSet)
  BY DEF TypeOK, EventSet
<1>1. ASSUME NEW s \in Sensors, SensorConnects(s) PROVE Inv'
  <2> USE <1>1 DEF SensorConnects
  <2>1. TypeOK'
    BY DEF TypeOK
  <2>2. WatchInv'
    BY DEF WatchInv, RolesAreWatched, TypeOK
  <2>3. Closed' = Closed
    BY DEF Closed, TypeOK
  <2>4. EventsInv' /\ AskedInv'
    BY <2>3 DEF EventsInv, AskedInv
  <2>5. StaleInv'
    BY StaleKept DEF Dropped, BeingDropped, TypeOK
  <2>6. NoCommandBeforeBoth'
    BY DEF NoCommandBeforeBoth
  <2>7. QED
    BY <2>1, <2>2, <2>4, <2>5, <2>6
<1>2. ASSUME NEW s \in Sensors, SensorSends(s) PROVE Inv'
  <2> USE <1>2 DEF SensorSends
  <2>1. TypeOK'
    BY DEF TypeOK
  <2>2. WatchInv'
    BY DEF WatchInv, RolesAreWatched
  <2>3. EventsInv' /\ AskedInv'
    BY DEF EventsInv, AskedInv, SoundEvent, Closed
  <2>4. StaleInv'
    BY StaleKept DEF Dropped, BeingDropped
  <2>5. NoCommandBeforeBoth'
    BY DEF NoCommandBeforeBoth
  <2>6. QED
    BY <2>1, <2>2, <2>3, <2>4, <2>5
<1>3. ASSUME NEW s \in Sensors, SensorLeaves(s) PROVE Inv'
  <2> USE <1>3 DEF SensorLeaves
  <2>1. TypeOK'
    BY DEF TypeOK
  <2>2. WatchInv'
    BY DEF WatchInv, RolesAreWatched, TypeOK
  <2>3. Closed \subseteq Closed'
    BY DEF Closed, TypeOK
  <2>4. EventsInv' /\ AskedInv'
    BY <2>3 DEF EventsInv, AskedInv, SoundEvent
  <2>5. StaleInv'
    BY StaleKept DEF Dropped, BeingDropped, TypeOK
  <2>6. NoCommandBeforeBoth'
    BY DEF NoCommandBeforeBoth
  <2>7. QED
    BY <2>1, <2>2, <2>4, <2>5, <2>6
<1>4. CASE MotorLeaves
  <2> USE <1>4 DEF MotorLeaves
  <2>1. TypeOK'
    BY DEF TypeOK
  <2>2. WatchInv' /\ EventsInv' /\ AskedInv' /\ NoCommandBeforeBoth'
    BY DEF WatchInv, RolesAreWatched, EventsInv, AskedInv, NoCommandBeforeBoth, Closed
  <2>3. StaleInv'
    BY StaleKept DEF Dropped, BeingDropped
  <2>4. QED
    BY <2>1, <2>2, <2>3
<1>5. CASE EpollWait
  <2>1. /\ events' \in Seq(EventSet) /\ EventsInv'
        /\ \A k \in DOMAIN events' : events'[k].fd \in Closed => events'[k].rdhup
    BY <1>5, BatchSound DEF EpollWait, AtWait
  <2> USE <1>5 DEF EpollWait, AtWait
  <2>2. TypeOK'
    BY <2>1 DEF TypeOK, EventSet
  <2>3. WatchInv' /\ AskedInv' /\ NoCommandBeforeBoth'
    BY DEF WatchInv, RolesAreWatched, AskedInv, NoCommandBeforeBoth
  <2>4. StaleInv'
    BY <2>1, StaleKept DEF Dropped, BeingDropped, Closed
  <2>5. QED
    BY <2>1, <2>2, <2>3, <2>4
<1>6. CASE Command
  <2> USE <1>6 DEF Command, Handling
  <2>1. events' \in Seq(EventSet) /\ EventsInv' /\ Remaining
    BY <1>0, InputKeepsEvents
  <2>2. TypeOK'
    <3>1. /\ min' \in Mins \cup {DefaultMin} /\ max' \in Maxs \cup {DefaultMax}
          /\ motor_fd' \in BOOLEAN /\ motor' \in {"up", "gone", "reset"}
          /\ told' \in {"none", "raise", "lower", "stop"}
      BY DEF TypeOK, Motor
    <3>2. QED
      BY <2>1, <3>1 DEF TypeOK, EventSet
  <2>3. WatchInv' /\ AskedInv'
    BY DEF WatchInv, RolesAreWatched, AskedInv
  <2>4. NoCommandBeforeBoth'
    BY DEF NoCommandBeforeBoth, Motor
  <2>5. StaleInv'
    <3>1. \A s \in Sensors : ~BeingDropped(s)
      BY DEF BeingDropped, STDIN_FILENO, NoFd
    <3>2. QED
      BY <2>1, <3>1, StaleKept DEF Dropped, Remaining
  <2>6. QED
    BY <2>1, <2>2, <2>3, <2>4, <2>5
<1>7. ASSUME NEW s \in Sensors, Accept(s) PROVE Inv'
  <2> USE <1>7 DEF Accept, Handling
  <2>1. TypeOK'
    BY DEF TypeOK
  <2>2. WatchInv'
    BY DEF WatchInv, RolesAreWatched, TypeOK, NoConnection
  <2>3. Closed \subseteq Closed' /\ s \notin Closed
    BY DEF Closed, TypeOK
  <2>4. EventsInv' /\ AskedInv'
    BY <2>3 DEF EventsInv, AskedInv, SoundEvent
  <2>5. StaleInv'
    <3>1. \A t \in Sensors : ~BeingDropped(t)
      BY DEF BeingDropped, ConnFd
    <3>2. QED
      BY <2>3, <3>1, StaleKept DEF Dropped, Remaining, TypeOK, NoConnection, NoFd
  <2>6. NoCommandBeforeBoth'
    BY DEF NoCommandBeforeBoth
  <2>7. QED
    BY <2>1, <2>2, <2>4, <2>5, <2>6
<1>8. ASSUME NEW role \in {"indoor", "outdoor"}, Answer(role) PROVE Inv'
  <2> USE <1>8 DEF Answer
  <2>1. data_fd # NoFd /\ events # <<>> /\ Head(events).fd = ConnFd /\ data_fd' = NoFd
    BY DEF EventsInv
  <2>2. events' \in Seq(EventSet) /\ EventsInv' /\ Remaining
    BY <1>0, <2>1, InputKeepsEvents
  <2>3. TypeOK'
    <3>1. /\ {data_fd', indoor_fd', outdoor_fd'}
               \subseteq Sensors \cup {NoFd, NoConnection}
          /\ watched' \subseteq Sensors /\ alive' \in BOOLEAN
          /\ asked' \subseteq {"indoor", "outdoor"}
      BY <2>1 DEF TypeOK, NoFd
    <3>2. QED
      BY <2>2, <3>1 DEF TypeOK, EventSet
  <2>4. WatchInv'
    BY <2>1 DEF WatchInv, RolesAreWatched, TypeOK, NoConnection, NoFd
  <2>5. AskedInv' /\ NoCommandBeforeBoth'
    BY DEF AskedInv, NoCommandBeforeBoth, TypeOK
  <2>6. StaleInv'
    <3>1. \A s \in Sensors : ~BeingDropped(s)
      BY <2>1 DEF BeingDropped, ConnFd
    <3>2. QED
      BY <2>1, <2>2, <3>1, StaleKept DEF Dropped, Remaining, NoFd
  <2>7. QED
    BY <2>2, <2>3, <2>4, <2>5, <2>6
<1>9. CASE IndoorReading
  <2>1. /\ indoor_fd \in {indoor_fd, outdoor_fd} \ {NoFd}
        /\ Handling(indoor_fd) /\ Head(events).in /\ InputHandled
        /\ UNCHANGED <<data_fd, watched, roles, outdoor, outdoor_tmp, limits>>
        /\ UNCHANGED <<link, begun, asked>>
    BY <1>9 DEF IndoorReading
  <2>2. PICK v \in Readings \cup {indoor_tmp} :
          /\ UseSensor(indoor_fd, indoor_tmp, v)
          /\ indoor_tmp' = v
          /\ \/ v < 0 /\ UNCHANGED <<alive, indoor, ready, light_on, motors>>
             \/ v >= 0 /\ indoor' = v /\ Update(v, outdoor, TRUE, outdoor_ready)
    BY <1>9 DEF IndoorReading
  <2>3. /\ events' \in Seq(EventSet) /\ EventsInv' /\ StaleInv'
        /\ unread' \subseteq Sensors /\ stale' \in [Sensors -> Nat]
    BY <2>1, <2>2, ReadingKeepsCount
  <2>4. v \in Readings \cup {0} /\ v \in Int
    BY <2>2 DEF TypeOK
  <2>5. /\ alive' \in BOOLEAN /\ light_on' \in BOOLEAN
        /\ motor_fd' \in BOOLEAN /\ motor' \in {"up", "gone", "reset"}
        /\ told' \in {"none", "raise", "lower", "stop"}
        /\ indoor_ready' \in BOOLEAN /\ outdoor_ready' \in BOOLEAN
        /\ (outdoor_ready' => outdoor_ready)
        /\ told' = told \/ outdoor_ready
        /\ indoor' \in Nat
    <3>1. CASE v < 0
      <4>1. ~(v >= 0)
        BY <2>4, <3>1
      <4>2. UNCHANGED <<alive, indoor, ready, light_on, motors>>
        BY <2>2, <4>1, Zenon
      <4>3. QED
        BY <2>1, <4>2 DEF TypeOK, Handling
    <3>2. CASE v >= 0
      <4>1. ~(v < 0) /\ v \in Nat
        BY <2>4, <3>2
      <4>2. Update(v, outdoor, TRUE, outdoor_ready) /\ indoor' = v
        BY <2>2, <4>1, Zenon
      <4>3. outdoor_ready \in BOOLEAN /\ TRUE \in BOOLEAN
        BY DEF TypeOK
      <4>4. QED
        BY <4>1, <4>2, <4>3, UpdateEffect
    <3>3. QED
      BY <2>4, <3>1, <3>2
  <2>6. TypeOK'
    BY <2>1, <2>2, <2>3, <2>4, <2>5 DEF TypeOK, EventSet
  <2>7. WatchInv'
    BY <2>1 DEF WatchInv, RolesAreWatched, Handling
  <2>8. AskedInv' /\ NoCommandBeforeBoth'
    BY <2>1, <2>5 DEF AskedInv, NoCommandBeforeBoth, TypeOK
  <2>9. QED
    BY <2>3, <2>6, <2>7, <2>8
<1>10. CASE OutdoorReading
  <2>1. /\ outdoor_fd \in {indoor_fd, outdoor_fd} \ {NoFd}
        /\ Handling(outdoor_fd) /\ Head(events).in /\ InputHandled
        /\ UNCHANGED <<data_fd, watched, roles, indoor, indoor_tmp, limits>>
        /\ UNCHANGED <<link, begun, asked>>
    BY <1>10 DEF OutdoorReading
  <2>2. PICK v \in Readings \cup {outdoor_tmp} :
          /\ UseSensor(outdoor_fd, outdoor_tmp, v)
          /\ outdoor_tmp' = v
          /\ \/ v < 0 /\ UNCHANGED <<alive, outdoor, ready, light_on, motors>>
             \/ v >= 0 /\ outdoor' = v /\ Update(indoor, v, indoor_ready, TRUE)
    BY <1>10 DEF OutdoorReading
  <2>3. /\ events' \in Seq(EventSet) /\ EventsInv' /\ StaleInv'
        /\ unread' \subseteq Sensors /\ stale' \in [Sensors -> Nat]
    BY <2>1, <2>2, ReadingKeepsCount
  <2>4. v \in Readings \cup {0} /\ v \in Int
    BY <2>2 DEF TypeOK
  <2>5. /\ alive' \in BOOLEAN /\ light_on' \in BOOLEAN
        /\ motor_fd' \in BOOLEAN /\ motor' \in {"up", "gone", "reset"}
        /\ told' \in {"none", "raise", "lower", "stop"}
        /\ indoor_ready' \in BOOLEAN /\ outdoor_ready' \in BOOLEAN
        /\ (indoor_ready' => indoor_ready)
        /\ told' = told \/ indoor_ready
        /\ outdoor' \in Nat
    <3>1. CASE v < 0
      <4>1. ~(v >= 0)
        BY <2>4, <3>1
      <4>2. UNCHANGED <<alive, outdoor, ready, light_on, motors>>
        BY <2>2, <4>1, Zenon
      <4>3. QED
        BY <2>1, <4>2 DEF TypeOK, Handling
    <3>2. CASE v >= 0
      <4>1. ~(v < 0) /\ v \in Nat
        BY <2>4, <3>2
      <4>2. Update(indoor, v, indoor_ready, TRUE) /\ outdoor' = v
        BY <2>2, <4>1, Zenon
      <4>3. indoor_ready \in BOOLEAN /\ TRUE \in BOOLEAN
        BY DEF TypeOK
      <4>4. QED
        BY <4>1, <4>2, <4>3, UpdateEffect
    <3>3. QED
      BY <2>4, <3>1, <3>2
  <2>6. TypeOK'
    BY <2>1, <2>2, <2>3, <2>4, <2>5 DEF TypeOK, EventSet
  <2>7. WatchInv'
    BY <2>1 DEF WatchInv, RolesAreWatched, Handling
  <2>8. AskedInv' /\ NoCommandBeforeBoth'
    BY <2>1, <2>5 DEF AskedInv, NoCommandBeforeBoth, TypeOK
  <2>9. QED
    BY <2>3, <2>6, <2>7, <2>8
<1>11. ASSUME NEW fd \in Sensors, Disconnected(fd) PROVE Inv'
  <2> USE <1>11 DEF Disconnected, Handling
  <2>1. events' \in Seq(EventSet) /\ EventsInv' /\ Remaining
    BY <1>0, TailKeepsEvents
  <2>2. TypeOK'
    BY <2>1 DEF TypeOK, EventSet
  <2>3. WatchInv'
    BY DEF WatchInv, RolesAreWatched, TypeOK, NoFd, NoConnection
  <2>4. AskedInv' /\ NoCommandBeforeBoth'
    BY DEF AskedInv, NoCommandBeforeBoth
  <2>5. StaleInv'
    <3>1. \A s \in Sensors : BeingDropped(s) => s \notin watched'
      BY DEF BeingDropped
    <3>2. watched' \subseteq watched
      OBVIOUS
    <3>3. \A s \in Sensors : Dropped(s) => Dropped(s)'
      BY <3>1, <3>2 DEF Dropped
    <3>4. QED
      BY <2>1, <3>3, StaleKept DEF Remaining
  <2>6. QED
    BY <2>1, <2>2, <2>3, <2>4, <2>5
<1>12. ASSUME NEW fd \in Sensors, Ignored(fd) PROVE Inv'
  <2> USE <1>12 DEF Ignored, Handling
  <2>1. events' \in Seq(EventSet) /\ EventsInv' /\ Remaining
    BY <1>0, InputKeepsEvents
  <2>2. TypeOK'
    BY <2>1 DEF TypeOK, EventSet
  <2>3. WatchInv' /\ AskedInv' /\ NoCommandBeforeBoth'
    BY DEF WatchInv, RolesAreWatched, AskedInv, NoCommandBeforeBoth
  <2>4. StaleInv'
    <3>1. \A s \in Sensors : ~BeingDropped(s)
      BY DEF BeingDropped
    <3>2. QED
      BY <2>1, <3>1, StaleKept DEF Dropped, Remaining
  <2>5. QED
    BY <2>1, <2>2, <2>3, <2>4
<1>13. CASE UNCHANGED vars
  <2> USE <1>13 DEF vars
  <2>1. TypeOK' /\ WatchInv' /\ AskedInv' /\ NoCommandBeforeBoth'
    BY DEF TypeOK, WatchInv, RolesAreWatched, AskedInv, NoCommandBeforeBoth
  <2>2. EventsInv' /\ StaleInv'
    BY DEF EventsInv, Closed, StaleInv, Dropped, BeingDropped
  <2>3. QED
    BY <2>1, <2>2
<1>14. QED
  BY <1>1, <1>2, <1>3, <1>4, <1>5, <1>6, <1>7, <1>8, <1>9, <1>10, <1>11, <1>12, <1>13
  DEF Next, Environment, Loop, Handle, Killed

-----------------------------------------------------------------------------
(* The safety properties of ControlInet.                                   *)

\* Every reachable state satisfies the inductive invariant, whatever sensors,
\* motor and user do.
THEOREM Invariance == Spec => []Inv
  BY InitInv, StepInv, PTL DEF Spec

\* Every variable keeps its type; readings in use are never negative.
THEOREM TypeCorrect == Spec => []TypeOK
<1>1. Inv => TypeOK
  BY DEF Inv
<1>2. QED
  BY <1>1, Invariance, PTL

\* A sensor has one role at most, and one with a role is in the epoll set,
\* through disconnections and replacements in the middle of a batch.
THEOREM RolesCorrect == Spec => []RolesAreWatched
<1>1. Inv => RolesAreWatched
  BY DEF Inv, WatchInv
<1>2. QED
  BY <1>1, Invariance, PTL

\* No command reaches the motor before both roles were given.
THEOREM CommandsCorrect == Spec => []NoCommandBeforeBoth
<1>1. Inv => NoCommandBeforeBoth
  BY DEF Inv
<1>2. QED
  BY <1>1, Invariance, PTL

\* A sensor that goes away has its last reading used again once at most, or twice
\* if it ended in the middle of a packet, and one that is there never has.
THEOREM StaleCorrect == Spec => []StaleOnlyByLoss
<1>1. Inv => StaleOnlyByLoss
  <2> SUFFICES ASSUME Inv, NEW s \in Sensors
               PROVE  stale[s] <= CASE link[s] # "closed" -> 0
                                    [] link[s] = "closed" /\ s \notin begun -> 1
                                    [] OTHER -> 2
    BY DEF StaleOnlyByLoss
  <2>1. /\ stale[s] \in Nat
        /\ link[s] # "closed" => stale[s] = 0
        /\ stale[s] <= (IF s \in begun THEN 1 ELSE 0) + (IF Dropped(s) THEN 1 ELSE 0)
    BY DEF Inv, TypeOK, StaleInv
  <2>2. QED
    BY <2>1
<1>2. QED
  BY <1>1, Invariance, PTL
=============================================================================
