# A verification project for the CCP client and its LowNet firmware

The repository is an ESP32 firmware (ESP-IDF, FreeRTOS): a console user controls a
crane with the Crane Control Protocol (CCP), which runs over LowNet, a small
broadcast network on ESP-NOW. This directory holds TLA+ models of the parts of the
firmware that keep state, TLC configurations that check them on small instances,
and TLAPS proofs of their main invariants.

Contents: [the system](#the-system) · [the models](#the-models) ·
[the runs](#the-runs) · [fairness](#fairness) · [the proofs](#the-proofs) ·
[what the code does otherwise than it says](#what-the-code-does-otherwise-than-it-says) ·
[what is not modelled](#what-is-not-modelled) · [plan](#plan)

## The system

### Tasks, queues, shared state

| task | where | runs |
|---|---|---|
| `app_main` | core 0, priority 1 | `lownet_init`, the registrations, then the console: one command at a time, to its end |
| `lownet_service` | core 1, priority 10 | takes frames from `inbound`, runs the protocol handler of each |
| `decrypt_service` | any core, priority 10 | takes encrypted frames from `decrypt_queue`, puts the plain ones in `inbound` |
| ESP-NOW callback | Wi-Fi task | `lownet_inbound_handler`: into `inbound` or `decrypt_queue`, by size and mode |
| `svc_serial` | core 0, priority 4 | lines from `queue_write` to the UART, lines from the UART to `queue_read` |

Queues: `inbound` 16, `decrypt_queue` 16, CCP `acks` 8, serial output 16, serial
input 4. Every `xQueueSend` has timeout 0 or its result ignored: a full queue drops
the element. There is no mutex. The tasks share two plain structs: `state` of
`crane.c` (console task and service task) and `net_system` of `lownet.c` (all four
network tasks).

### Components

For each: its state, its operations, what is hard, what makes it correct.

* **Crane client** (`crane/crane.c`). State `state.state`, `state.seq`,
  `state.crane`, `state.acks`, `g_last_backlog`. The console task runs
  `crane_connect`, `crane_disconnect`, `crane_action` (send, wait for an
  acknowledgement up to 5 s, five attempts), `crane_test` (a scripted session). The
  service task runs `crane_receive`: SYN|ACK completes the handshake, STATUS queues an
  acknowledgement and stores the backlog, CLOSE resets the state. Hard: both tasks
  write the same fields without a lock; acks outlive the action they were for; frames
  are lost. Correct: an action that returns 0 was acknowledged under its own number
  and accepted by the crane; client and crane stay in step; the number never wraps;
  every command returns.
* **Signed commands** (`command/command.c`). State: the command in progress and its
  hash, two signature halves, the last valid sequence number. One entry,
  `command_receive`. Hard: halves come in any order, twice, for another command,
  late, across a change of the clock. Correct: executed exactly when both genuine
  halves came, in sequence order, within 10 s.
* **LowNet service** (`lownet/lownet.c`). State: protocol table, `inbound`,
  `decrypt_queue`, the key, the time. Operations: receive, decrypt, dispatch, send,
  `lownet_set_key`, `lownet_register_protocol`. Hard: the key is changed by one task
  and read, twice per frame, by two others. Correct: each receive path is a lossy
  FIFO; sound frames are handled; frames leave under the selected key.
* **Encryption commands** (`crypt/crypt.c`): `/setkey`, `/testenc` and the two
  ciphers that the service calls.
* **Startup and key store** (`main/app_main.c`, `init_serial_service`, `lownet_init`,
  `lownet_crypt.c`, the `..._init` of every protocol). Hard: a service fails or is late
  while `app_main` waits; frames arrive before the system is complete; `app_main` goes
  on after a failure. Correct: success means that everything is there and stays there;
  the console opens whatever fails, or the processor stops for a reason that is known.
* **Network time** (`lownet_get_time`, `lownet_set_time`, `lownet_util.c`). State:
  the time that was set, in seconds and 1/256 s, and the uptime it was set at. Read by
  the console and the service task, set by the service task, without a lock. Hard: two
  roundings, 32-bit products, a setting under a reading. Correct: undisturbed readings
  are accurate and never run back.
* **Ping** (`ping/ping.c`). Stateless; the time it was sent travels in the packet.
  Hard: both nodes run the same handler; a ping may be for all nodes. Correct: the reply
  lines of each node answer pings of this node, in order and once each, with the round
  trip the clock measured.
* **Serial service** (`serial/serial_io.c`) and **console** (`app_main.c`, `cli.c`,
  `lownet-commands.c`). State: two queues of lines, the line being assembled. Hard: two
  writers, bounded queues that drop, one polling task for both directions. Correct:
  lines are whole, in order, never stuck.
* **Chat**, **hash and signature comparison**, **device table**, **utilities**:
  parsers, formatters and stateless senders.

Interaction: console → command function → `lownet_send` → air;
air → callback → (`decrypt_queue` → decrypt task →) `inbound` → service task →
`chat_receive` / `ping_receive` / `crane_receive` → `lownet_send`, shared structs.

## The models

| module | models | extends |
|---|---|---|
| `CraneClient` | `crane.c`: both tasks, one action per access to the shared struct | – |
| `CraneSystem` | the client, one crane, a lossy FIFO air in each direction | `CraneClient` |
| `CraneClaims` | what comments and README say of the client, refuted by runs | `CraneSystem` |
| `Command` | `command.c` with the network time it reads and sets | – |
| `StopAndWait` | abstract: what a crane session promises | instantiated by `CraneSystem` |
| `LossyFifo` | abstract: what a path of bounded queues promises | instantiated by `LowNet` and `SerialIO` (twice each) and `NetTime` |
| `LowNet` | `lownet.c` once it runs, `crypt.c` | – |
| `Startup` | `app_main` up to the console, `lownet_init`, the start and kill of the services | – |
| `SerialIO` | `serial_io.c` and the loop of `app_main` | – |
| `NetTime` | network time and `ping.c` | – |
| `CraneClientProofs`, `CommandProofs`, `LowNetProofs`, `StartupProofs`, `SerialIOProofs`, `NetTimeProofs`, `LossyFifoProofs` | theorems | their module |
| `CraneSystemProofs` | theorems | `CraneSystem` and `CraneClientProofs` |
| `MC...` | values of constants for TLC | their module |

Definitions carry the source's names where TLA+ allows it; `PROJECT.json` maps each
of them to its lines. Operators marked "Mutant of X" are deliberate bugs in X that
show a property can fail; no specification uses them.

### LossyFifo and StopAndWait

The two abstract specifications. Things that enter a `LossyFifo` are numbered; `pending`
is the set of the numbers on their way, `delivered` the sequence of those that came out.
`Offer` adds a number or drops it at once, `Lose` removes one, `Deliver` lets the
smallest out. A set is enough: the numbers say which went in first, and a path that
keeps several queues (decrypt queue, decrypt task, `inbound`, service task) need not say
where in them a thing is. `StopAndWait` is one crane session: the crane takes an action,
the client confirms it, then the next.

### CraneClient and CraneSystem

`pc` is the control point of the console task: `"cli"` between commands, then the
statement of `crane_connect`, `crane_test`, `crane_disconnect` or `crane_action` that
comes next (`crane_disconnect` reads `state.seq` in one step and `state.crane` in the next). `rx` is that of the service task inside `crane_receive`. `call` holds the
locals of `crane_action` (packet, attempt, last ack; `copies` is history). Every
access to `state` that the other task could observe is a step of its own, in source
order: `state.state = ST_DISCONNECTED`, `state.seq = 0` and so on. Accesses that
commute with everything the other task does are merged with their neighbour.

* `state.seq++` is a load and a store on another core's word: `Bump` adds one to the
  present value or to the one compared just before. Other races are on single aligned
  words, whose stores the compiled code does in source order.
* `read_acks` takes one ack with a timeout (`FirstAck`, `AckTimeout`), then drains the
  queue keeping the largest (`DrainAck`, `Drained`).
* `attempt` and `MaxAttempts` are the loop of `crane_action`. An ack below `state.seq`
  uses up an attempt without a retransmission, as in the code (`Stale`).
* A NAK is dropped at `crane.c:199`, before anything reads it.
* Polling loops of `crane_test` (30 polls of the handshake, 100 of the backlog) are a
  "done" and a "timed out" action each.
* The backlog is the byte of the STATUS payload; it shares the packet's union with the
  challenge and the action code, here the field `d`.
* The proof of work (`~challenge`) is the complement in `0..WordMax`.
* The crane is external: its firmware is not in the repository. `CraneSystem` models
  what `crane.c` and `crane.h` expect of it, and marks these definitions external.

### Command

One action per outcome of `command_receive`. A command stands for its own hash (equal
hashes mean equal commands), a signature half for the command it signs, or `Junk`.
Time is in whole seconds and `TimeDiff` wraps at `TimeMod` (2^24 s: 32 bits of
1/256 s). No file calls `lownet_register_protocol` for protocol 0x04, so in the
firmware as it stands the component receives nothing; the model is of what it does
with the frames it is written for.

### LowNet

`snd[t]` is the progress of `lownet_send` in the console and service tasks: the test of
the key, the lookup of `crypt_encrypt`, the read of its bytes. `dec` and `cur` are the
frames the decrypt and service tasks hold, and `decAt` is how far the first is with its
own lookup, its read of the bytes and its `xQueueSend`; `pc` is the console. A reply
whose length is impossible is not sent (`TooLong`).
`lownet_set_key` is three steps (size, first part, rest of the `memcpy`), because
other tasks read in between. A key is a model value for its 32 bytes; decrypting with
other bytes gives a frame whose CRC fails. `lownet_get_key()` returns NULL while the
size is 0, and following it stops the processor (`halted`). `selected` is the key the
last `/setkey` named: none, a stored one, or `"typed"` for any other argument. The code
parses no such argument and passes an uninitialised struct instead: `SetUnknown` has its
three outcomes (the size is refused, junk is copied, a wild pointer is followed). Registering a protocol
is atomic because the entry is invisible until `num_protocols` is incremented.

### Startup

One action per call of `init_serial_service`, `lownet_init`, `lownet_service_main` and
the `..._init` functions that can fail or that another task can see; `app_main` ignores
every result, so it goes on after each failure. `result` remembers how `lownet_init`
ended; `halted` why the processor stopped: an `ESP_ERROR_CHECK`, a null queue, a null
signing key (`command_init` takes its length), a deleted event group. What
`xEventGroupSetBits` does to a group that was deleted depends on the heap; both outcomes
that matter are there (it goes unnoticed, it stops). The end of the wait (`InitFails`)
and the delete (`CleanUp`) are two steps: a bit may still be set in between. `Slow` says whether the service may
take longer than `TIMEOUT_STARTUP`. Creations whose result the code never checks
(the tasks, the acks queue, the key store's memory) are taken to succeed.

### SerialIO

`svc` is the loop of `svc_serial`: `"drain"` is its inner loop over `queue_write`,
`"get"` the poll of one character. A character is an action; so is the newline, which
queues the line or drops it, and clears the buffer. A character of line *n* is the number
*n* and the terminator is 0, so a character that strays into another line is seen.
`main` is `app_main`: it takes a line, dispatches it and writes the replies. Lines of
output are numbers, in the order `serial_write_line` was called. A lone `/`, `@` or `/tell`
gives a null pointer to `strcmp` or `strlen` (`halted`).
Three things are left out: `printf` with the line as its own format (output lines are
taken to hold no conversion specification), the length 126 to which output is cut, and
the missing newline after a prompt, which no caller writes.

### NetTime

`get[t]` is a call of `lownet_get_time` in task `t`: the test of the seconds, the
uptime, stamp and fraction, then the seconds again. `set` is `lownet_set_time` in the
service task: seconds, fraction, stamp. Two adjacent reads are merged where nothing
could tell. A second has `Parts` fractions and `Millis` milliseconds; `Quot` and `Rem`
round towards zero, as in C. `epoch` counts the stores of `lownet_set_time`, so that a
property can tell a reading that a setting disturbed: of those the code guarantees
nothing, and nothing is claimed. In the firmware the clock is set only by
`command.c`, whose handler no file registers; the model takes it as registered.
`Destinations` are what `/ping` may name: one node, all of them (0xff), or one that is not
there. A ping is one frame on the air, which each node it is for gets or misses. The
other nodes run the same `ping_receive` (`Echo`), and the air loses frames. Between this
node and another the frames stay in order, as `LowNet` shows of frames of one mode; what
a change of the mode does to pings on their way is left out.

## The runs

| run | question | bounds |
|---|---|---|
| `client_any_network` | Do the two tasks keep their invariants whatever the network delivers? | packets of every kind the code tells apart, all sequence numbers 0..3 where 0 and 3 are the filtered ones; one ack in the queue; two attempts |
| `one_session` | Within the session, is an acknowledged action an accepted one, and do client and crane stay in step, when frames are lost? | one connection, two frames per direction, two attempts, a crane that may quit at any time |
| `returns` | Does every console command end? | as above with one frame per direction and one ack |
| `good_link` | On a sound link, is every action of a test accepted? | three actions and a pause, nothing lost, `Prompt` |
| `command` | Signed commands: genuine, ordered, in time? | three commands, two with the same number, two that set the clock (one backwards); every signature frame; 5 s of uptime, timeout 2 s |
| `lownet` | Are both receive paths lossy FIFOs, and what does a change of key do? | four kinds of frame, two arrivals, two `/setkey`, one console send, queues of 1 |
| `startup` | Does startup reach a serving system, or the console, and what can stop it? | every checked call may fail; `Slow` |
| `serial` | Are lines whole, in order, and never stuck in either direction? | three lines of up to three characters in a buffer of three, input queue of one, output queue of two, a command that writes three lines, one line from the network |
| `nettime` | Is an undisturbed reading right, and a ping's round trip, and do the replies of each node come in order and once each? | 3 fractions and 5 milliseconds per second, words of 24, a clock that is not set, then set once to a time in the last second before the wrap; 2 ms of uptime; two peers (interchangeable, so symmetric), two pings to one, to both or to none, one of a peer, one frame on the way to each node |
| `stale_ack`, `pause`, `key_is_there` | Counterexamples, see below | |

Why the bounds are enough. Sequence numbers matter only as 0, 0xFFFF and the numbers
between: `SeqMax = 3` has both sentinels and two numbers, so an older ack, an equal ack and a
wrap all happen. `MaxAttempts = 2` has a first and a last attempt. A full queue, an overtaken ack and a retransmission
need one or two elements. In `one_session` the second attempt overlaps the first
one's late answer. A second connection is what `stale_ack` adds; an ack can also
outlive its session when the crane quits, which is why `AcceptedInSession` speaks of a
session that lasts. In `lownet` a queue
of one is full after one frame and two arrivals are in order or not; two `/setkey`
switch on, off, or from one key to the other. In `serial` a line of three
characters overruns the buffer, a second line fills the input queue, and one command
overfills the output queue. In `nettime` 3 and 5 have no common factor, so both
roundings lose something; the time set, 7 2/3 s of 8, reaches the end of its second and
the wrap of the 24 fractions after 2 ms; a reading may begin before the time is set, or
between its three stores. Two pings, any of them lost to any node on either way, can be
answered out of order or twice if anything can, and two peers answer the same ping.
The theorems below remove the bounds for every safety property and every refinement that a passing run checks; for the properties of a
crane session up to the second connection attempt, which is where they end.

What the properties say:

* `NoJoinWhileActing`: no handshake completes under a running `crane_action`, so only
  a CLOSE can change `state.seq` under it.
* `AckIsOwn`, `NoWrap`: the ack that ends an action has its packet's number, and the
  increment cannot wrap, even when a CLOSE resets the number between the comparison
  and the increment.
* `AcceptedInSession`, `LockStep`, `NoGap`: inside one session the protocol is
  stop-and-wait; a gap, and so the ignored NAK, cannot occur.
* `ImplementsStopAndWait`: the same as a refinement of `StopAndWait`: session by session,
  the crane takes an action only after the one before it was confirmed, and the client
  confirms only what was taken.
* `ForgottenIsClosed`: `crane_action` tests `state.crane` once and uses it for up to
  25 s. When a CLOSE clears it meanwhile, the session is closed already, so that only the
  action that is running can send to node 0 (and it can: see below).
* `CommandReturns`, `TestDelivers`: liveness, with and without losses.
* `GenuineIsExecuted`, `ExecutedIsGenuine`, `SequenceGrows`, `NotExecutedLate`: the two
  halves of "executed exactly when signed", replay order, the timeout. The histories
  `got`, `spoilt` and `done` survive the end of the command they are about, so a
  command cannot become correct by being forgotten.
* `PlainFifo`, `CipherFifo`: `LowNet` implements `LossyFifo` twice, with
  `pending` mapped to the frames of one kind in all queues and hands on their way.
* `CalmSend`, `SoundIsHandled`, `NullNeedsSetKey`: what two unlocked lookups of the key
  guarantee: with encryption off or a stored key, everything is right unless a change of
  the key overlaps the frame. The first and the last show how far the hazard goes;
  `key_is_there` shows it is real. `CalmSend` says nothing of a key that was typed,
  which the code does not use (below).
* `PlainIsOld`: the mode is tested on arrival only; a plain frame handled under
  encryption is one that was already on its way.
* `Drains` (`LowNet`): frames skipped with `continue` never block those behind them.
* `InitMeansServing`, `RadioHasQueue`, `ConsoleOpens`: startup. `StopsConfined`: the
  stops no check covers need a service slower than the timeout, a STATUS within
  `crane_init`, or an early return of `lownet_init`.
* `LineIntegrity`, `InputFifo`, `OutputFifo`, `Drains` (`SerialIO`): the console works on
  what was typed, no part of another line in it; both directions are lossy FIFOs; all
  that was queued is printed and run in the end.
* `Punctual`, `NeverBack`, `RttFollowsClock`: network time against exact arithmetic in
  1/(`Parts` x `Millis`) s. The round trip that is printed is that of the clock: right to
  a fraction when the clock is set, and zero whatever time passed when it is not, which
  is what the firmware prints as long as no file registers `command_receive`.
* `RepliesInOrder`: the replies of each node implement `LossyFifo`. A ping to all is
  answered by each node, and between the replies of two nodes there is no order.

Deadlock is checked for the client and the whole CCP system. It is off for `Command`,
`LowNet`, `Startup`, `SerialIO` and `NetTime`: there the bounds on uptime, arrivals and commands run out, or
the processor has stopped.

## Fairness

* Every task that is ready runs eventually: weak fairness of the console task inside a
  command, of the service task, of the decrypt task. FreeRTOS schedules preemptively
  on two cores; the console has the lowest priority but the others block on queues.
* A timeout expires: `AckTimeout`, `HandshakeTimeout`, `IdleTimeout` are steps of the
  console task.
* A frame in the air is heard or lost. There is no fairness on frames being
  delivered rather than lost, on the crane sending, or on the user.
* `Unhurried` (`returns`, `good_link`): the crane sends no STATUS while the client
  drains its acks queue. Otherwise the drain loop could run for ever. It takes
  microseconds; the crane repeats its STATUS at most once a second.
* `Prompt` (`good_link` only): timeouts, a repeated STATUS and the next command happen
  only when nothing is under way, that is, the link answers well within 5 s. Without
  it a late answer is one more loss, which `returns` covers.
* `SerialIO`: `svc_serial` sleeps 50 ms whenever there is no character, so `app_main`,
  below it on the same core, gets its turn; it does not wait for the user, since `fgetc`
  returns at once.
* The startup run assumes that `app_main` and the service run; `ConsoleOpens` lets the
  processor stop, since `ESP_ERROR_CHECK` does stop it.

## The proofs

All theorems hold for every value of the constants under the named assumptions of the
modules (`ClientAssumption`, `SystemAssumption`, `CommandAssumption`, `NetAssumption`,
`SerialAssumption`, `StartupAssumption`, `TimeAssumption`), and for the client and the
network service whatever set of packets or frames arrives. `SystemAssumption` says that
the crane is a node other than the address 0 that stands for none, and that a sequence
number fits the word that also carries the backlog. Two limits of the network time are
hypotheses of its theorems, not assumptions: `ClockLasts`, no time that is set comes
closer to the end of a 32-bit count of seconds than the uptime is long (for times of
day, until 2106), and `UptimeFits`, the uptime in fractions fits 32 bits (194 days).

* `CraneClientProofs`: `ClientInvariant` proves `IInv`, from which follow
  `ClientTypeCorrect` (with the bounds of attempts and queues), `ClientNoJoinWhileActing`, `ClientAckIsOwn`,
  `ClientNoWrap`. `IInv` adds to the properties: the type of a command's argument at
  each control point (`Arguments`); that a running test still has its hang-up ahead
  (`Scripted`); that queued acks are proper numbers and that `state.seq` during an
  action is the packet's number or 0 (`Numbers`); that a handshake completes only from
  a client that is not connected (`Joins`). Without `Numbers` the comparison in `Match` says
  nothing about the packet; without `Joins` a handshake accepted before an action
  began could end inside it. One lemma per group of actions, one step per action.
  `ClientForgottenIsClosed` needs the order of the two stores of `crane_recv_close`
  (`Closes`), and that no handshake completes during the action.
* `CommandProofs`: `CommandInvariant` proves its `IInv`; from it `CommandTypeCorrect`,
  `CommandGenuineIsExecuted`, `CommandExecutedIsGenuine` and the action properties
  `CommandSequenceGrows`, `CommandNotExecutedLate`. `IInv` adds: stored halves are
  those the history counts (`Halves`); the awaited half has not come, unless the
  command has been executed (`Awaited`); on a steady clock the stored
  arrival time is the network time of the arrival (`Stamped`); the command in progress
  is not older than the last one executed (`Ordered`). `NotExecutedLate` needs
  `MaxUptime < TimeMod`: over 194 days of uptime a half that is 2^24 s late looks
  punctual.
* `LowNetProofs`: `LowNetInvariant`, and from it `LowNetTypeCorrect`, `LowNetCalmSend`,
  `LowNetPlainIsOld`, `LowNetNullNeedsSetKey`. `IInv` ties every decision to the mode
  it was taken in: a frame that arrived since the last store of `lownet_set_key` is
  encrypted exactly when the mode is (`FrameInv`), and the branch a `lownet_send` took
  since then is that of the mode (`SendInv`). A store makes all earlier decisions old,
  so one lemma (`StoreKeepsRest`) covers every statement of `lownet_set_key`. `KeyInv`
  says that outside it the key in use is the one selected, if that is none or a stored one.
  `LowNetPlainFifo` and `LowNetCipherFifo` are the refinements of `LossyFifo`. They need
  `OrderInv`: of two frames of one kind the one nearer to the handler arrived first, over
  all four places of the path. Of one kind only: a plain frame may overtake an encrypted
  one. `PathStep` is what a step does to one kind; each action of the path has its lemma,
  every other step is `RestPath`. `LowNetHandledInOrder` follows with `FifoInOrder`.
  `LowNetSoundIsHandled` needs `GoodInv`, what the CRC says of a frame: before decryption
  that it is intact, after it that it is intact and was encrypted with the key of now, if
  it arrived in this epoch; a store of the key begins an epoch without frames.
* `StartupProofs`: `StartupInvariant`, and from it `StartupTypeCorrect`,
  `StartupInitMeansServing`, `StartupRadioHasQueue`, `StartupStopsConfined`. `IInv` says
  what `app_main` has created at its control point (`MainInv`), what the service has at
  its own and which bit it has set (`SvcInv`), and that crane's handler without its queue
  exists only between two statements (`CraneInv`). `MainInv` is what relates the two
  tasks: a result of "error" has its bit, a bit has its control point, so a service that
  is still to set a bit in a deleted group can only have been late.
* `SerialIOProofs`: `SerialInvariant`, and from it `SerialTypeCorrect` and
  `SerialLineIntegrity`. `IInv` says what the buffer holds between two characters
  (`BufferInv`): without it a line that ends tells nothing of its bytes.
  `SerialInputFifo` and `SerialOutputFifo` are the refinements of `LossyFifo`, by the
  numbers in both queues rising (`InputInv`, `OutputInv`); `SerialLinesInOrder` follows.
* `LossyFifoProofs`: `FifoInOrder`, what `LossyFifo` amounts to: what came out went in,
  in the same order, none twice. It is inductive together with: what is on its way went
  in after all that came out (`FifoInv`).
* `CraneSystemProofs`: `SystemInvariant` proves `SystemInv`, in two parts. `AnyInv` holds
  for any number of sessions: types, the client's `IInv`, and that the crane executed no
  more than it accepted; `SystemTypeCorrect` and `SystemKeepsClient` follow.
  `SessionInv` holds while `opens <= 1`; from it follow `FirstSessionLockStep`,
  `FirstSessionNoGap` and `FirstSessionAccepted`. It has to say where the one SYN, SYN|ACK and
  final ACK of the handshake are (`TokenInv`), for a second one would reset the crane's
  number under the client; that before the crane hears the SYN nothing has come from it
  (`QuietInv`); that no acknowledgement, on its way or queued, runs ahead of the crane
  (`AckInv`); and that an ACTION in the air was confirmed before or is the one the client
  waits for, or waited for when it gave up (`WindowInv`). The last two imply stop-and-wait:
  `SessionImplementsStopAndWait`, step by step, for `MaxOpens = 1`. Beyond the first
  attempt the properties fail: the acks queue is never emptied, and `stale_ack` is
  the counterexample. `SystemImplementsClient` is the refinement of `ClientSpec` by the
  whole system (with `Incoming = Packet`, the network that may deliver anything).
* `NetTimeProofs`: `NetTimeInvariant`, and from it `NetTimeTypeCorrect`,
  `NetTimePunctual`, `NetTimeNeverBack` and `NetTimeRttFollowsClock`. `IInv` says that what an
  undisturbed reading has read is still what is set (`Fresh`), and that a ping that left
  under the clock that is still set carries the reading of the moment it left
  (`AllSound`). The rest is arithmetic with two roundings: the milliseconds since the
  second began are cut by less than one, the fraction made of them again by less than
  one; both grow with the uptime, and the difference of two times modulo the word is the
  true one, wrapped or not. `NetTimeRepliesInOrder` is the refinement of `LossyFifo` by
  `ping.c` and the air, once for each other node: of the pings to it, those further on
  the way out and back left earlier, and the one in the hands of the service task before
  all of them (`OrderInv`). `NetTimeNoDoubleReply` follows, node by node.

Only model-checked: liveness (`CommandReturns`, `TestDelivers`, both `Drains`,
`ConsoleOpens`), since ENABLED, and with it fairness, is beyond the prover; and the
counterexamples of the next section, which are single behaviours. Every invariant, every
action property and every refinement that a passing run checks has a theorem.

## What the code does otherwise than it says

Each of these has a run that finds the counterexample.

1. **Stale acks** (`stale_ack`). The acks queue is never emptied. An ack of an earlier
   session with the right number makes `crane_action` return 0 for a packet the crane
   never accepted (`crane.c:20`: "returns zero if ACK is received").
2. **A pause that ends early** (`pause`). The backlog is stored after the ack is queued
   (`crane.c:452`: "Pause until all commands have executed").
3. **A null key** (`key_is_there`). `/setkey` between the two lookups of the key
   (`lownet.c:232`: "We have an AES key -- use it to encrypt the frame.").

Other behaviours the models reach, without a run of their own, some against what the
documentation says, some where it says nothing:

* `/setkey` with a key that is typed does not set it. `crypt.h:11-15` says "Otherwise KEY
  has been set as the active key", padded with zeroes; `crypt.c:81` parses nothing, as its
  comment admits, and passes an uninitialised struct on. The key before stays active, or
  bytes nobody set become the key, or the processor stops (`SetUnknown`);
* a CLOSE between the test of `state.crane` and the send makes an ACTION go to node 0
  (`CloseCrane` between `ActCrane` and `ActSend`), though `crane.c:325` says "refusing to
  send";
* five repeated STATUS packets use up the five attempts of `crane_action`: the
  connection is closed with the packet sent once (`Stale`), though `README.md:22` speaks
  of retransmissions on missing acknowledgements;
* a SYN|ACK of an earlier attempt can complete the handshake between
  `state = ST_HANDSHAKE` and `seq = 0`: the client is connected with number 0, whose
  ack is filtered out;
* a lost SYN or final ACK leaves the client in `ST_HANDSHAKE` (or connected, with a
  crane that is not) until the user closes; a failed test leaves `ST_HANDSHAKE` too;
* `crane_test` on a live connection forgets it without a CLOSE, and a SYN|ACK of a
  plain `open` may complete the handshake of a test;
* a disconnect during the completion of a handshake is overwritten by
  `state = ST_CONNECTED`; when a CLOSE from the crane comes between its two reads, its own
  CLOSE goes to node 0;
* on a clock that was never set every round trip is printed as zero;
* a duplicate of a signature half, or a replay of the last command, executes the
  command again; before the first synchronisation every half is in time;
* a plain frame that was queued before `/setkey` switched encryption on is handled
  after it;
* `lownet_service_kill` deletes its own task before `decrypt_task`; after a startup
  timeout the late service sets a bit in a deleted event group; a STATUS between the
  two halves of `crane_init` finds no acks queue; after an early return of
  `lownet_init` `command_init` takes the length of a null key;
* the round trip printed for a ping that was under way when the clock was set is wrong,
  and wraps when the clock was set back, against "B must be greater than A"
  (`lownet_util.h:25`);
* `README.md:23` promises NAK handling; `crane.c:199` drops NAKs. `NoGap` shows that in
  one session none is needed.

## What is not modelled

* Chat beyond its registration and its lines, utilities, hash and signature comparison:
  sequential, without state of their own. What they do to shared state is an action of
  the modules above (`User`, `MainSend`, `Handle`, `NetLine`); the messages that
  `chat_valid_message` refuses are commands that send nothing.
* The entries of the device table, the text of commands and replies, the UART's own
  buffer and its overruns.
* Readings of the time that a setting disturbs: modelled, but nothing is claimed of them.
* A change of the encryption mode while pings are on their way (`NetTime`): the frames of
  two modes may overtake each other, as `LowNet` has it, and so may their replies.
* CRC and AES as algorithms, frame layout, log texts.
* `/testenc` runs both ciphers in the task that alone changes the key.
* `lownet_sync_time`, which nothing calls; `compare_time`.
* A second `lownet_init`: `app_main` never tries one.

## Plan

Done, in this order: `CraneClient`, `CraneSystem`, their runs, the client's proofs;
`Command` and its proofs; `LossyFifo`, `LowNet` and its proofs; `Startup` and its proofs;
`StopAndWait`; `SerialIO` and its proofs; `NetTime`; `CraneSystemProofs`;
`LossyFifoProofs` with the refinements of `LossyFifo` by `SerialIO`, `NetTime` and
`LowNet`; `NetTimeProofs`; the rest of `LowNetProofs`.

Next:

1. What `StopAndWait` implies by itself: the client is never more than one action behind
   the crane, nor ahead of it.
2. The later sessions of `CraneSystem`: what holds of them when no ack of an earlier
   session is left, in the queue or on its way.
3. What a disconnect leaves behind when it meets the completion of a handshake.
