# Verification of real_time_systems

TLA+ models of the programs in this repository, the TLC configurations that
check them on small instances, and TLAPS proofs of what matters most for every
instance. Paths below are relative to the repository: `src/stepper.c`,
`light/server.py`. In `PROJECT.json` they carry the prefix of the tree.

The repository drives a window curtain and a lamp from two light sensors:

    sensor program --readings--> control program --motor packets--> stepper program --GPIO--> motor
    (src/sensor_thread_*.c)      (src/control_thread_*.c)           (src/stepper.c)
                                        |
                                        +--(a connection, never used)--> light server (light/server.py) --> Hue lamp

Every arrow is a stream socket carrying a C structure. A program keeps all its
state in memory; nothing is persisted and nothing reconnects. Each program is
one thread around an epoll or select loop, except for the stepper program,
which has a second thread that keeps the motor running.

## 1. Inventory

### 1.1 Stepper motor driver (`src/stepper.c`, `src/stepper.h`) — modelled

*State.* The flag `working` (volatile, 1 run, 0 stop, -1 terminate); the mutex
`motor_mutex`; the descriptors and with them the levels of the GPIO lines ENA,
DIR and PUL; main's idea of the `direction`; each thread's position and loop
counter in `rotate`.

*Operations.* `rotate` (enable the driver, n pulses, disable it), called by both
threads; `set_direction`; `seq_rotate` (turns < 0 resume, 0 stop, > 0 a turn of
so many pulses); `workerFn` (terminate, wait at the mutex, or drive a batch of
`WORKER_ROUNDS` pulses, by the flag); the startup lock; the way out.

*Interaction.* Main holds the mutex while the motor is stopped: a worker that
reads 0 parks in `pthread_mutex_lock`. Lock and unlock are in different calls of
`seq_rotate`, matched by the value of the flag alone. `rotate` itself is not
protected: the batch under way goes on while main already turns.

*Hard.* The interleavings of the two threads; the flag read before and used
after; waiting for the mutex; the descriptor number of ENA reused by `unexport`
while the worker still writes.

*Correct when.* Mutex and flag always agree; nobody unlocks what he does not
hold; a stop is followed by at most one batch, a turn is exact when it meets no
batch; the driver is off when nobody drives; no command and no worker waits for
ever.

### 1.2 Stepper command loop (`main` of `src/stepper.c`) — modelled

*State.* The descriptor table and the epoll set, the events of the current
batch, one text buffer, one (never initialised) packet buffer for all clients.

*Operations.* `epoll_wait`, `accept`, a read of standard input (quit, number,
anything else), a read of a client's packet, the branch for peers that are gone.

*Interaction.* Each legal number or packet is a call of `seq_rotate` (1.1).

*Hard.* Packets in pieces; clients that leave orderly or with a reset; end of
file and hang-up of standard input; descriptors that run out; descriptor numbers
that are freed and given away within a batch.

*Correct when.* An event concerns the file it was reported for; whole packets
stay whole; quit, connections and packets are served however busy the others
keep the loop.

### 1.3 GPIO export and setup (`src/stepper.c` 77-110, 175-302, 426-432) — modelled

*State.* In the kernel: which lines are exported, their directions and levels,
and who has the port. In the program: three descriptors and a loop counter.

*Operations.* Unexport what may be left, export, set the directions, set the
levels and keep the descriptors, bind and listen; at the exit close and unexport.
Any failure of an `open` or `write` of the setup is `exit(EXIT_FAILURE)` and cleans
up nothing.

*Interaction.* With other instances on the same lines (one from cron, one by
hand) and with instances that were killed, through the kernel only.

*Hard.* A crash between two steps; the lines taken from a running instance by a
second one that then finds the port taken; ENA, which is low (driver on) from the
moment it becomes an output until its value is set: an error in between (no
permission yet, no descriptor left, a pin that is input only) leaves the motor
powered with no program about.

*Correct when.* A start fails on no line an earlier instance left; a running program
has its lines and the driver off while idle, unless another instance interferes; an
exit leaves the driver enabled only after an error in that window, and an orderly one
leaves no line exported.

### 1.4 Control program over the network (`src/control_thread_inet.c`) — modelled

*State.* The descriptors of the two sensors, the motor and the light, the last
readings (received, in use) and their ready flags, the thresholds, `light_on`.

*Operations.* Typed commands (thresholds, motor, light); accepting a sensor and
asking for its role; a reading of either sensor, followed by `update`; a sensor's
disconnection.

*Interaction.* Sensors connect and send readings; `update` sends the motor
packets "run one way", "run the other way" and "stop".

*Hard.* A failed read that passes for a new reading, and a sensor that ends in the
middle of a packet; roles that are given away
between events; flags that outlive their sensor; a send to a motor that is gone;
a prompt that blocks everything; zones in which nothing is commanded.

*Correct when.* A sensor with a role is listened to; a reading is taken for a new
one again only when its sensor is lost, and not for ever; nothing is commanded before both sensors have been there; a curtain that moves is
stopped in the end.

### 1.5 Control program over local sockets (`src/control_thread_unix.c`) — modelled

*State, operations.* As 1.4, without ready flags and without a motor: `update`
returns before it would command one, and only keeps `light_on`. The thresholds are
typed. A disconnected sensor stays in the epoll set. The timeout branch is dead
code: `EPOLL_TIMEOUT` is -1.

*Hard.* Events of a batch that follow a prompt which gave their role away; the end
of standard input, which leaves `scanf("%c")` with the last character typed;
sensors that are reported for ever and never read; the socket's name, which
outlives a killed program.

*Correct when.* Every reading of a sensor with a role is used, whoever else is
ready; the light agrees with the readings in use.

### 1.6 Sensor program (`src/sensor_thread_unix.c`, `..._inet.c`) — partly

Reads the device every period and sends a packet when the reading changed; ends
when it cannot send. It repeats nothing and never reconnects. Correct when what it
sent last is known to the control program or on its way. The network version is
the same loop behind an `accept`; since the network control program also waits
for connections, no program of the repository connects to it.

### 1.7 Sensor input (`src/sensor_io.c`) — modelled; blocking input and output (`src/blocking_io.c`) — not modelled

Arithmetic on register bytes held in `char`, whose sign is the compiler's choice.
The loops of `blocking_io.c` wait for all bytes; an I2C device transfers a message
whole or fails, so that they run once.

### 1.8 Sockets (`src/socket_unix.c` — modelled, `src/socket_inet.c` — partly)

`init_socket`, `conn_socket`, `send_packet`, `recv_packet`. The test of `inet_aton`
is inverted in both functions of the network version; `init_socket` is only called
with a null host, which skips it.

### 1.9 Light server and client (`light/`) — modelled

*State.* The list of watched sockets, the lamp. *Operations.* Accept, receive a
packet and switch the lamp, forget a client that closed. *Hard.* Packets in
pieces, which are decoded as if they were whole; several packets in the buffer of a
client that has closed; connections that are closed within a batch; the exceptions
nobody catches: of a reset, of `accept` and `asyncio.run` without descriptors, of
`select` with one that is too high. *Correct when.* Whole packets are obeyed in
order and all of them, everybody is served, and no client that merely closes harms
the others.

### 1.10 Not part of the system's behaviour

`test/` (programs that drive the sockets by hand), the Arduino sketch (two input
levels to two output levels), `Makefile`, `src/error.h` (constants).

The main hazards of all components, each at its line and with the properties about
it, are listed in `PROJECT.json`.

## 2. Modules

| module | models | how |
|---|---|---|
| `MotorPromise` | nothing: the abstract specification of 1.1 | who may drive the motor when, as `running`, `budget` (pulses left in a batch) and `turning` (pulses left in a turn) |
| `Stepper` | 1.1 | one action per access of a thread to the flag, the mutex, a line or a descriptor |
| `MCStepper` | | small instance |
| `StepperProofs` | | the theorems about `Stepper` |
| `StepperServer` | 1.2 | one action per event, the clients and standard input as environment |
| `MCStepperServer` | | small instance |
| `ServerProofs` | | the theorems about `StepperServer` |
| `ControlInet` | 1.4 and `conn_socket` | one action per event, `update` as an operator, sensors and motor as environment |
| `MCControlInet` | | small instance |
| `ControlProofs` | | the theorems about `ControlInet` |
| `GpioLifecycle` | 1.3 | one action per write to sysfs, several instances, kill and restart |
| `MCGpioLifecycle` | | small instance |
| `GpioProofs` | | the theorems about `GpioLifecycle` |
| `LocalSockets` | `src/socket_unix.c` and the kernel behind it | the name, the backlog, a bounded channel per connection; no behaviour of its own |
| `SensorUnix` | 1.6, 1.7 | extends `LocalSockets`: start, read, send, exit of each sensor |
| `ControlUnix` | 1.5 | extends `LocalSockets`: one action per event, the user, kill and restart |
| `ChangeFeed` | nothing: the abstract specification of 1.5 with 1.6 | what the sensors said, what of it was not learnt yet, who listens to whom, what was learnt last |
| `LocalSystem` | 1.5 with 1.6 | composes the two; states the properties |
| `MCLocalSystem` | | small instances |
| `LocalProofs` | | the theorems about `LocalSystem`, and that it implements `ChangeFeed` |
| `LightServer` | 1.9 | one action per event of the server, the clients as environment |
| `MCLightServer` | | small instance |
| `LightProofs` | | the theorems about `LightServer` |

### Stepper and the code

`pc[Main]` is main's place in the command loop, `seq_rotate` or `rotate`;
`pc[Worker]` the worker's in `workerFn` or `rotate`. `Enable`, `PulseHigh`,
`PulseLow` and `Disable` are the writes of `rotate`, parameterised by the thread.
`Packet` and `Line` are the commands, `Dispatch` is `seq_rotate` up to the first
touch of the mutex, `Lock` ... `Unlock` the rest. `working` is volatile and a
short: its reads and writes are single actions. (It is still a data race; the
build can only produce an old or a new value.) `Dispatch` merges the read of
`working` with a resume's write of it, since main is its only writer. The sleeps between
pulses take time and nothing else. `moved` and `overlapped` are history: they
record what a turn did to the shaft and whether a batch was under way when it
began. A write through a closed descriptor fails and is ignored; the descriptor
number of ENA was the first the program kept, so that the first `open` after its
`close` gets it.

### StepperServer and the code

`file` says what each descriptor number refers to; `evlist` is what is left of
the batch. A packet is three units (what precedes the direction, the direction,
the turns), and a read takes what has arrived up to three. `wire` holds the part
of a packet still on its way. The worlds a run covers (standard input a terminal
or a pipe, packets whole or in pieces, an uninitialised `addr_len` that `accept`
can use or not) are initial states. `seq_rotate` is one step, `AfterCommand`: `FlagFollowsCommand` in
`Stepper`, proved, says what it leaves `working` at. That main may be busy for
the duration of a turn does not matter for an order of events.

Facts about the outside the model relies on: a TCP socket whose peer has closed
or reset it is reported with `EPOLLIN` as well as `EPOLLRDHUP`/`EPOLLHUP`; a
pipe without writer is reported with `EPOLLHUP` alone once it is empty; the
kernel's ready list is first in, first out, so that what one `epoll_wait` had no
room for heads the next (`passed`); `accept` takes the lowest free number, fails
before it touches the backlog when there is none, and after it has taken the
connection when `addr_len` is negative. Where a client has got descriptor 0 its
packets are read as text: what their bytes spell up to the first zero is any of
`Accidents`, a number and a quit among them, since the bytes of a time stamp are
arbitrary. The byte before the text buffer, which
an empty read overwrites, is taken to be padding.

### ControlInet and the code

No descriptor is ever closed, so that a connection is named by its descriptor.
`events` is the batch with the input and hang-up part of each event handled in
this order; `data_fd` is set while the prompt for a role waits. `Update` is
`update()`, split into what is to be sent (`CommandFor`), what becomes of the
light (`LightFor`) and the outcome of the send (`Tell`). `told` is the last
command that reached the motor. A packet arrives whole or in two parts:
`begun` has the sensors of which the first part is there, which is enough for
`EPOLLIN`, and `recv` then waits for the rest or for the end. `asked` and `stale` are
history. The
source does not compile without the macros its header lacks (`MAX_EVENTS`,
`SOCK_BACKLOG` and the two prompt answers); they are taken from
`src/control_thread_unix.h`. A light descriptor is opened and never written to,
and is left out.

### GpioLifecycle and the code

`pc[p]` is the stage of an instance's `main`, `i[p]` its loop over the lines.
`gpio` is what sysfs shows of each line, `fd` what has become of the descriptor an
instance keeps of its value file: unexporting a line makes every open one `dead`,
and exporting it again does not revive it. Writing `out` to a direction file makes
the line a low output, as the kernel documents. `claimed` is a line some kernel
driver has, the ordinary reason for `export` to fail on one line. The port is held
back after a program that was first to close a connection, since `SO_REUSEADDR` is
not set. The motor loop is reduced to its writes to ENA and DIR; `Stepper` has the
rest. `rival` and `erred` are history: whether another instance has run since this
one was started, and at which of its steps an `open` or a `write` (of the setup or of
`unexport`), or a call between `socket` and `pthread_detach`, failed for a reason the
model does not have. Any of them may, at any step. Only a write through a value file
that is open and of an output is assumed to succeed once the program serves.

The model also reaches states worth knowing of that no document excludes: two
instances started together may both fail; a running instance may be left with some
of its lines; and after such a race the driver may stay on with nobody running.

### LocalSockets, SensorUnix, ControlUnix and the code

A sensor program connects once in its life, so that a sensor names its connection
and a program that is started again is another member of `Sensors`. A packet is
its three numbers; sequence number and time stamp are only printed. `Decode` has
the arithmetic of `read_sensor`. `packet` and `last_packet` are the variables of
the same name.

In `ControlUnix` the twin branches and variables for indoor and outdoor are
functions over `Roles`: `role_fd`, `data_tmp`, `data`. A batch is a set of events,
each with the hang-up flag it was reported with; `SensorEvent` handles the input
and then the hang-up part of one event. `cpc` is `scanf` or `prompt` while the
program waits for the user and serves nobody. `sensor_type` starts with any value:
it is not initialised. `CloseControl` is the kernel after the program's end, by a kill or by its return when
`accept` failed and -1 cannot be added to the epoll set: the name stays, and the next
`send` of each sensor raises SIGPIPE. `StartControl` calls `unlink`, which may fail
unnoticed and leave the name, on which `init_socket` then fails. `judged` is history.

`LocalSystem` implements `ChangeFeed`: a sensor says only what is new, and whoever
listens to it learns all of it, in order and once. `said` is `last_packet`,
`pending` the connection's channel, `feed` is `role_fd` and `known` is `data_tmp`;
`fresh` are the sensors whose connection was not given to a role yet. A connection
that `accept` drops is `Refuse`. Batches, prompts, the user and the lamp are stutters;
the end of the control program is `Forget`.

### LightServer and the code

The unit of a stream is half a packet: the time stamp, then sequence number and
status. `Recv` takes what has arrived up to a whole packet, and `Data` decodes it
as `from_raw` does: a missing half reads as 0, which is off; a time stamp in its
place reads as on. (Its nanoseconds are taken not to be 0.) `Toggle` may leave the
lamp as it was, since `toggle_light` catches everything. A connection that was
reset yields what had arrived and then an exception. `fd` numbers the descriptors of
the connections, lowest free number first; `limits` is how many of them the process
may open and how many `select` can watch: beyond the one `accept` raises, beyond the
other `select`, and `asyncio.run` needs `LoopFds` for as long as a command takes. Each
of these ends the server (`srv` is `dead`). `told` and `cut` are history.

## 3. Runs

| run | instance | shows |
|---|---|---|
| `stepper` | 3 pulses at most, batches of 2, turns -1, 0, 1, 3 and 4, directions 0, 1 and 2 | type, mutex discipline, agreement of mutex and flag, release of the driver, exact turns, the flag after a command, the directions, refinement of `MotorPromise` with its fairness, and three liveness properties |
| `stepper_stop` | same | violated: a batch after the stop (`src/motor_packet.h:34`) |
| `stepper_turns` | same | violated: an overlapped turn is too short (`src/motor_packet.h:33`) |
| `stepper_direction` | `DIRECTION` + | violated: the first packet turns the wrong way (`README.md:78`) |
| `server` | two clients, one descriptor for them besides 0, batches of 2 events, one packet each, in pieces or whole, reads of text of 2 units | events never stale, no mixed packets, quit, clients and connections served |
| `server_peer_gone` | one client | violated: a client that has left is never closed (`src/stepper.c:416`) |
| `control` | two sensors, readings -1 (refused), 0 and 2, thresholds 1 to 2 until a maximum of 1 is typed | roles watched, no command before both sensors, an old reading used again only for a sensor that is lost, once or, in mid-packet, twice |
| `control_dim` | same | violated: the curtain is lowered on when it is too dim (`src/control_thread_inet.c:46`) |
| `gpio` | two instances, four starts in all, the PUL line claimed by another driver or not | a start repairs, a running program has its lines, an orderly exit leaves nothing, and which errors leave the driver enabled |
| `unix` | two sensors, readings 406 and -10 lux, a channel of one packet, limits 128 to 256 with 500 typed for either, two starts of the control program | type, no change of the light lost on the way, the light agrees with the readings, refinement of `ChangeFeed` |
| `unix_live` | same, one start, no limits typed | readings are used, the prompt ends but in one case |
| `light` | two clients, two packets each, in halves; descriptors for both and the event loop, for both only, for one, or for both with one beyond `select` | type, commands as sent and all of them while packets arrive whole, everybody served |

*Why the bounds are enough.* `rotate` treats all pulses between the first and
the last alike, so that a batch of 2 and turns of 1 to 3 have a first, a middle
and a last, and turns shorter and longer than a batch; 4 is refused like 1001.
With two clients and one descriptor, `accept` fails; when the pipe on standard
input hangs up its number goes to a client; a batch of two events leaves a third
ready descriptor waiting. The reading 2 is right under the default maximum and too
bright under the typed one, so that every branch of `update` is taken; with two
sensors roles are replaced, swapped and lost, and either may break off its last
packet. One packet per client is enough for a dead client to replay it for ever.

Four starts let one instance be killed, be started again, be killed or quit, and
meet another that was started twice. With two sensors one replaces the other after
a disconnection or takes its role while it is connected; the channel of one packet
fills, so that a sensor without a role blocks. 406 lux is too bright by default and
too dim for a minimum of 500, which takes every branch of `update`, with minimum
above maximum as well; its low byte is above 127. Two packets per client are one
on and one off, and may be cut, merged in the buffer, or lost in a reset.

Bounds, by name: `MaxRotations`, `WorkerRounds`, `Turns`, `Directions`
(Stepper); `Clients`, `MaxFds`, `EventSize`, `Packets`, `MaxPackets`, `TextSize`,
`Lines`, `Garbage`, `Worlds` (StepperServer); `Sensors`, `Readings`, `Mins`, `Maxs`
(ControlInet); `MaxStarts`, `Claims`, `Procs` (GpioLifecycle); `Sensors`, `Capacity`,
`Registers`, `Limits`, `MaxControls` (LocalSystem); `Clients`, `Limits`,
`MaxPackets` (LightServer). The runs of `Stepper`, `StepperServer` and `ControlInet`
check for deadlock: a program that has ended stutters by an action of its own
(`Exited`, `Gone`, `Killed`). The runs of the other modules do not: there the bounded starts
are used up and every program has ended, or only the silent are left.

`unix` and `control` take the sensors as symmetric and `gpio` the instances;
`unix_live`, which checks liveness, does not.

*What the passing runs do not claim.* `QuitObeyed` is about a quit typed on its
own: two lines of a pipe that are read together are neither. `NoMixedPacket` is
about packets that arrive whole. `ExactWhenAlone` is about turns that met no
batch. `ConnectionsAccepted` lets connections wait for a free descriptor, which
may never come. `StaleOnlyByLoss` allows what the code does: the reading of a
sensor that leaves is used once more, and of one that broke off a packet twice.
`RepairedStart`, `ReadyOwnsLines`, `CleanExit` and `LeftOnOnlyInWindow` are about an
instance nobody interfered with: beside another one all four fail. An error of its own
may fail any start, and what it leaves behind `LeftOnOnlyInWindow` says only of ENA:
an error of `Window` does leave the driver enabled, although `src/stepper.c:231` says
that the low is for working only. An instance that fails or is killed leaves
its lines exported, although `README.md:26` has them unexported when the program
terminates.
`KnownOrUnread` ends with the role: the packets a lost sensor sent last are not
read. `LightFollowsReadings` says nothing between a typed limit and the next
reading, since `update` runs on readings only. `NoInventedCommand` ends with the
first packet that `recv` splits, and so does `ObeyedBeforeRelease`, which is about
clients that leave in order. Nothing is claimed of how the light server ends: a reset
ends it, and so do clients that merely stay connected until it is out of descriptors.
Nothing is claimed of the ready flags of the network control program either: an error
of a send leaves both up, and one sensor alone then runs `update`.

## 4. Fairness

`Stepper`: both threads run (weak fairness of `SeqRotate \/ Leave` and of
`WorkerFn`); commands need not come. The startup lock needs strong fairness: the
worker, which finds the flag at 0, takes and releases the mutex in a loop, so
that the lock main waits for is free only again and again. A default mutex does
not promise that main gets it; that it does is an assumption. Once the program is
in its loop no further assumption is needed: before main locks, the flag is 1 and
the worker does not touch the mutex but to leave it.

`StepperServer`: weak fairness of the loop as a whole; `epoll_wait` reports in the
kernel's order. Nothing is assumed of clients and users.

`ControlInet`, `GpioLifecycle` have no fairness: their properties are safety
properties.

`LocalSystem`: weak fairness of the control program's loop while something is
ready; nothing is assumed of the sensors. The user completes a command he has begun
(weak fairness of `Typed`) and in the end answers a prompt with a role while
standard input lasts (strong fairness of `Answer`: other characters may come
first). The kernel reports every ready file in a batch, since `MAX_EVENTS` is more
than there are files, in any order.

`LightServer`: weak fairness of the server's loop; `select` reports every ready
socket. This takes in that `set_power` (`light/server.py:84`), which waits for the
bridge without a timeout, returns or raises.

## 5. Proofs

Every invariant and every safety refinement that a passing run checks is also a
theorem, for every value of the constants. Each proof module is laid out alike: the
parts of the inductive invariant `Inv` with what they say; lemmas about the operators
the actions are built from; `InitInv`; one lemma or step per action, and under it one
step per part the action can disturb; `StepInv`; `Invariance`; one theorem per
property. Before it was proved, each `Inv` was checked by TLC on the instance of the
module's run (for `LocalSystem` with a channel of two packets, for `StepperServer`
also with two packets per client and batches of three events).

The assumptions are those the modules state about their constants
(`StepperAssumption`, `ServerAssumption` and so on). Apart from types and bounds they
say:

* Names of different things differ. A client is not "free" or "stdin", a sensor of
  `LocalSystem` is not the listener, standard input or the missing descriptor, the
  listener of `LightServer` is no client. In the code these are different descriptors,
  or a descriptor and -1.
* The sensors of `ControlInet` are finitely many descriptors, none of them that of
  standard input, of the listening socket or -1. (They are finitely many because `epoll_wait` reports all that are ready.)
* `LocalProofs!TypeCorrect` alone assumes `~CharIsSigned`: with a signed `char` a
  count may leave the 16 bits, which is the hazard at `src/sensor_io.c:83`. Everything
  else about `LocalSystem` is proved for either sign.

### Stepper (`StepperProofs`)

`TypeCorrect`, `MutexCorrect`, `ParkedCorrect`, `ReleaseCorrect`, `TurnsExact`,
`FlagCorrect` (on which `AfterCommand` of `StepperServer` rests), `ImplementsPromise`
(the refinement of `MotorPromise` without its fairness), and `DirectionCorrect`: if
the `DIRECTION` argument put LOW on the DIR line, every packet that is taken up finds
the line at its direction.

None of these invariants is inductive on its own. `Inv` adds to `TypeOK`:

* `GateInv`: for each place of main, who holds the mutex, what the flag is and
  what `seq_rotate` remembers of it. This is what replaces the missing link
  between a lock and the unlock in a later call: at `restore`, say, the flag is 0
  and the mutex main's, whichever of the two calls locked it; the worker holds it
  only at its own unlock.
* `CountInv`: the loop counter of a thread inside `rotate` is within its limit.
* `LineInv`: ENA and PUL as functions of where both threads are. It is not enough
  to know one thread's place: after one has switched the driver off under the
  other, ENA is HIGH although a thread is in `rotate`. What holds is that they are
  released once both are out.
* `AloneInv`: during a turn that met no batch the worker is not in `rotate` (it
  cannot enter since the flag is 0), and `moved` is the number of rising edges so
  far.

`PromiseStep` maps each action to a step of `MotorPromise` or to a stutter, with
`PulsesLeft` as the refinement mapping.

### StepperServer (`ServerProofs`)

`TypeCorrect`, `EventsCorrect`, `PacketsCorrect`, for any clients, descriptors, size
of a batch, lines and packets.

* `DistinctInv`, `PromiseInv`: no descriptor is twice in a batch, and what an event
  promised is still there when its turn comes: a connection for the listener's, the
  same open file for a descriptor's, text for standard input's. `EventsNotStale` is
  a part of it, and needs the rest: `accept` takes only numbers that are free, and a
  number that was reported is not; a close frees only the number of the event being
  handled, and the others are different.
* `InputInv`: standard input is descriptor 0 or gone, so that a read of descriptor 0
  takes text from no other event.
* `OnceInv`: a client has one descriptor or one place in the backlog.
* `WholeInv`: where packets arrive whole, every receive buffer is a row of packets, but
  for that of the client at descriptor 0, of which a read takes as much as the text
  buffer holds; `OnceInv` keeps that client's bytes out of the packet buffer.
  That each `read` leaves such a row, and takes one packet or, of a dead client,
  nothing, is the lemma `ReadTakes`; it is what keeps mixtures out of the buffer the
  clients share.

### ControlInet (`ControlProofs`)

`TypeCorrect`, `RolesCorrect`, `CommandsCorrect`, `StaleCorrect`, for
any finite set of sensors and any readings and thresholds.

* `WatchInv`: what is in the epoll set was accepted, and what is asked about is not yet
  in it.
* `EventsInv`: an event with input has a packet or an end of data behind it, one
  without has an end; no sensor is twice in a batch. Without it a disconnection could
  take another sensor's role away.
* `AskedInv`: no role and no ready flag without an answer at the prompt.
* `StaleInv`: a sensor's last reading was used again at most once if it broke off a
  packet, and once more if it was dropped or its drop is the next thing to be handled;
  never while it is connected, and never before an event that was reported without its
  end. This is the argument the property hides: the last such use and the drop are two
  steps of one event, and a use before that needs an event that was reported for the
  first bytes of a packet, of which there is one.

### GpioLifecycle (`GpioProofs`)

`TypeCorrect`, `RepairCorrect`, `OwnershipCorrect`, `CleanExitCorrect`,
`LeftOnCorrect`, for any number of instances and starts.

* `AloneInv`: an instance that has had no rival is the only one that runs.
* `IndexInv`: each loop over the lines starts at the first.
* `StageInv`: for an instance without rival, what each stage has done to the lines below
  its counter and what the stage before left above it (`UnexportInv`, `ExportInv`,
  `DirectionInv`, `ValueInv`), what it owns from `bind` on (`OwnerInv`), and how it may
  have ended (`EndInv`). What such an instance meets on its way is its own doing or a
  claimed line, which stops it while no line is an output; ENA is LOW only from its
  direction to its value, so that only the errors of `Window` leave it so. An ENA that
  could not be unexported at the start or the end is the other case the property has.

### LocalSystem (`LocalProofs`)

`TypeCorrect`, `KnownCorrect`, `LightCorrect`, and
`FeedImplemented`: `Spec => ImplementsFeed`, the refinement of `ChangeFeed`, for any
sensors, registers, limits, capacity and number of restarts.

* `SensorInv`: what a sensor is about to send is not what it sent last.
* `BacklogInv`, `RoleInv`: who waits, who is asked about and who has a role are
  different connections, whatever batches and prompts came in between.
* `UnreadInv`: on a connection nobody has read from, the last packet of the channel is
  the last one sent. It is what makes `KnownOrUnread` true at the moment a role is
  given, and it is lost exactly when a role is.

`SensorFeed` and `ControlFeed` map each step of a program to a step of `ChangeFeed` or
to a stutter.

### LightServer (`LightProofs`)

`TypeCorrect`, `CommandsCorrect`, `ReleaseCorrect`, for any clients and number of packets.

* `ConnectionInv`: a client waits in the backlog once or is in the list, a connection
  that the server closed is in neither, and no two in the list have one descriptor.
* `EventInv`, `ReleasedInv`: what is still to be looked at in a batch has something to
  read or has ended, so that a client is let go only when nothing of it is left to read
  or on the way. With `StreamInv` this is `ObeyedBeforeRelease`.
* `StreamInv`: what a client has sent and the server has not taken is the continuation
  of what it has, half by half; each command took one half at least, two as long as
  no packet was split, and what was sent is taken or there, unless a reset lost it.
  `RecvTakes` says what one `recv` does to such a stream. The bound of two commands
  for a packet in `TypeOK` follows from it, too.

### Only model-checked

The liveness properties of all modules and the fairness in `KeepsPromise`: fairness
and ENABLED are out of the prover's reach. The violations, each by a run that shows one.
That `FlagCorrect` is about the same `seq_rotate` as `AfterCommand` is by reading: the
two modules share no state.

## 6. Not modelled

Timing (periods, latencies, the pulse interval), wording of output, command-line
parsing, the kernel's GPIO and I2C drivers beyond what a write does, failures of
`epoll_ctl` and `socket` at startup of the control programs (the program exits), memory
of strings read by `scanf`. Numbers typed as text are taken as their value. Signals other than SIGPIPE
and a kill: SIGINT at the light server runs a handler that assigns a local variable
(`light/server.py:23`), so that it has no action.

There is one motor in `ControlInet`: a command that connects to another replaces the
connection to the first, which is neither told to stop nor closed
(`src/control_thread_inet.c:307`).

The control programs never close a descriptor. That they run out of them, after about
a thousand sensors for each of which a user has answered the prompt, is not modelled;
`accept` fails in the models for the other reason, an `addr_len` nobody initialised. On
a local socket a small packet is sent as a whole, so that no read returns part of one.

`blocking_io.c`: see 1.7. The network sensor program: see 1.6. The curtain and the
rooms, and with them what the commands of the control program do to the light they
are derived from. That a sensor notices a dead control program only when the light
changes, and that nothing reconnects, follows from the programs' lack of any code
for it and is in the models as such.

## 7. Plan

Done: `MotorPromise`, `Stepper`, `StepperServer`, `ControlInet`, `GpioLifecycle`,
`LocalSockets`, `SensorUnix`, `ControlUnix`, `ChangeFeed`, `LocalSystem`,
`LightServer`, and the proofs of all their invariants and safety refinements.

Next, in this order:

1. An abstract specification of a command stream (what a client sent, what of it was
   obeyed, in which order) that `LightServer` implements while packets arrive whole,
   with the proof, and the same for the clients of `StepperServer`.
2. What `MotorPromise` promises on its own: a bound on the pulses between a stop and the
   next resume or turn, proved of the abstract specification and carried over by
   `ImplementsPromise`.
3. A curtain that moves as `MotorPromise` allows, with `ControlInet`'s commands: a
   curtain that moves comes to a stop, and for which rooms it does not.
