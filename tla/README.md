# bukapilot in TLA+

bukapilot is a fork of openpilot: a driver assistance system that reads the
car's CAN buses and cameras and steers, brakes and accelerates. This directory
models two things. The first is the chain that decides whether a computer may act
on the car at all: the *panda*, a microcontroller between the host (the phone-like
device that runs bukapilot) and the car's CAN buses; the USB link to *boardd*, the
host process at its other end; and the processes that start a drive and give it
up, `boardd`'s threads, `thermald`, the manager and `controlsd`. The second is what
that chain stands on and what a test hardly reaches: the message queue `msgq`
in shared memory, the parameter files, the updater and the rotation of the log.

Every definition is translated from `src/`; `PROJECT.json` says from which
lines. Paths below are relative to `src/`.

## 1. The system

```
  cameras ─ modeld ─┐                      ┌── car bus 0 (ECUs, radar)
                    ▼                      │
  sensors ─ msgq ─ controlsd ─ sendcan ─ boardd ─USB─ panda ── relay ── camera bus 2
                    ▲                      │             ▲
  params (files) ───┘        pandaStates, can ◄──────────┘
  manager starts and stops all of them; loggerd / uploader / updated / athenad look after data
```

### 1.1 Components that are modelled

**Safety hooks** (`panda/board/safety.h`, `safety/safety_*.h`).
State: `current_safety_mode`, `controls_allowed`, `relay_malfunction`, the
driver's pedals and their previous values, `cruise_engaged_prev`,
`vehicle_moving`, the time stamps of the monitored messages; of the torque checks the last torque, the reference with its
time, and the samples of the motor's torque. Operations: a frame
from the car (`can_rx` → forward hook, `safety_rx_hook`), a frame from the host
(`can_send` → `safety_tx_hook`), `set_safety_hooks`, `safety_tick`. Hard: the
frames that decide come as separate messages in any order; two variables
(`controls_allowed`, `cruise_engaged_prev`) mean nearly the same and are reset by
different code; the limits on a torque come from three memories of different ages and a clock
that wraps. Correct when the host can actuate only while the driver has engaged cruise and does not
override it, and a torque grows no faster than the limits say and can always be let go.

**Supervisor** (`panda/board/main.c`, the requests of `usb_comms.h`,
`power_saving.h`, `ignition_can_hook`). State: the heartbeat counter and its two
flags, the count of unused seconds, siren and recent-control countdowns, the relay,
bus silence, power saving, ignition. Operations: mode requests, heartbeats, power
saving requests, resets, the 1 Hz tick. Hard: the host may crash between any two
requests; the ignition decides which time-out counts; counters outlive the
modes they count for. Correct when a host that is silent loses the car.

**CAN queues** (`drivers/can_common.h`, `can_ring`). A ring array with two pointers.
Operations push, pop, slots, clear. Hard: wrap-around and the one slot that stays
free. Correct when it is a bounded FIFO.

**CAN transmit path** (`drivers/can_common.h`, `drivers/bxcan.h`, `drivers/usb.h`,
`usb_comms.h`). State: three send queues, a mailbox per controller, USB endpoint 3
armed or refusing, `outep3_processing`. Operations: USB packets and their completion,
mailbox interrupts, error interrupts, forwarding, clearing, re-initialisation.
Hard: nobody polls; an endpoint that refuses is woken only by whoever frees a slot,
and an idle mailbox makes no interrupt. Correct when no wakeup is lost, no
frame sits behind an idle mailbox and the reserve prevents drops.

**USB framing** (`usb_protocol.h` on the panda, `selfdrive/boardd/panda.cc` on the host).
State: half messages (`ep1_buffer`, `ep3_buffer`), the counter of each side, the
size of the transfer. Operations: a packet each way, the end of a transfer, a
transfer that stops, a boardd that restarts. Hard: three limits fit by two packets;
each side keeps counting when the other is gone. Correct when no message is put
together from parts of two, and the counters disagree only after a cut.

**A drive** (`selfdrive/boardd/boardd.cc`, `controls/controlsd.py`, `thermald/thermald.py`,
`manager/process_config.py`, `boardd/pandad.py`). State: the ignition as the car has it, as
boardd read it and as thermald believes it; `safety_setter_thread` and where it is; the
parameters `CarVin`, `CarParams` and `ControlsReady` by which it and controlsd wait for
each other; controlsd's `state`, `soft_disable_timer` and `mismatch_counter`. Operations: a round of
boardd's state thread, a step of the setter, start and stop of controlsd, a step of controlsd.
Hard: six threads and processes see the ignition at different times and clear or wait for the same
parameters; the panda can be unplugged anywhere. Correct when every drive gets the car's
safety mode, a parked car loses it, and controlsd does not stay enabled against the panda.

**Message queue** (`cereal/messaging/msgq.cc`). A ring in shared memory, a write pointer, and per
reader a pointer, a valid flag and a uid. Operations: send, receive, subscribe, reset, evict.
Hard: no locks; the publisher never waits and overwrites what a reader may be copying;
processes restart in the middle. Correct when a reader is given whole messages in their order,
or notices that it was left behind.

**Parameters** (`selfdrive/common/params.cc`). Files, a lock file, temporary files. Operations:
put, remove, clearAll, readAll. Hard: a killed process, a system call that fails and a loss of power between write,
fsync, rename and the fsync of the directory. Correct when a parameter is its old value or its new
one, and what a call that returned success has written stays.

**Updater and launcher** (`selfdrive/updated.py`, `launch_chffrplus.sh`). State: BASEDIR, the overlay and
its mark `.overlay_init`, the finalised tree and its mark `.overlay_consistent`, the
backup, the two slots of the operating system. Operations: the turns of the update loop,
fetch, flash, finalise; at boot the swap of the tree, and `agnos.py` with its installer, which
switches slots. Hard: power may go after every step and take any
unsynced file with it; somebody may commit to BASEDIR meanwhile. Correct when what is swapped in is a
whole release on an operating system it runs on, local work is kept, and the newest release
arrives in the end.

**Log rotation** (`selfdrive/loggerd/loggerd.cc`, `logger.cc`). State: the handles with their
reference counts, the current segment, `ready_to_rotate`, the first common frame. Threads: the
logging thread and one encoder per camera. Hard: the encoders count themselves ready
without the lock; the segment may be rotated by time meanwhile; the lock of a handle is let
go for its last message. Correct when files and logs of a segment belong together, every log
ends with its sentinel and no encoder sleeps for ever.

### 1.2 Not modelled

| Component | Why |
|---|---|
| `SubMaster`, sockets (`cereal/messaging`) | `Onroad` uses that an old message does not count as alive; frequencies and the ZMQ transport add no protocol of this code |
| manager's watchdog and shutdown (`manager/*.py`) | the stop of a process is one step of `Onroad`; signals that escalate and unkillable processes are the operating system's |
| `uploader`, `deleter` | files and network; the deleter leaves a segment alone while it has a `.lock` file (`deleter.py:26`) |
| `athenad` | network services; its upload queue is the next candidate |
| driver monitoring, lane change, alerts | real-valued counters and timers in one process, fed by a neural network |
| `controlsd`'s choice of events | which of its inputs raises which event is a list of tests; `Onroad` takes any set of the kinds that `state_transition` tells apart |
| CAN parser and packer (`opendbc/can`) | counters and checksums computed from a generated database of signals |
| `visionipc` | buffers are handed out in turn with no agreement on who still reads them: there is no protocol to model |
| other makes' hooks, CAN FD driver | the shape of the modelled ones, other signals and registers |
| GMLAN, K-line, LIN, UART, GPS link | bit timing and serial lines the supported cars do not need |
| planners, control, model, camera, location | numerics over real numbers |
| UI, sound, tools, bootstub, flasher, vendored and generated code | presentation, run instead of the system, or not this code |

`PROJECT.json` lists every component with its sources and the reason. By lines most of the
repository is vendored or generated (headers of microcontrollers, filters, solvers), which is not
modelled and not counted as missing.

### 1.3 Interaction

* Interrupts. The panda's firmware sets no interrupt priorities, so no handler
  preempts another, and their order is arbitrary. This is what makes "one handler, one
  action" faithful. The CAN peripherals do not wait for a handler, though: a mailbox may be
  done in the middle of one. That matters where a handler looks at mailboxes in a loop, and
  there `CanTx` takes a step per turn.
* boardd → panda: control requests (mode, heartbeat, power saving, clear) and bulk
  endpoint 3 (frames to send). panda → boardd: bulk endpoint 1 (frames received,
  echoes, rejected frames) and health.
* car → panda: frames, the ignition line.
* boardd, thermald, the manager and controlsd share `pandaStates`, `deviceState` and three
  parameters. None waits for an answer: each acts on the last message it has seen, which may be
  older than the state it acts on. `Onroad` is that composition.
* Every message goes through `msgq`, every parameter through `params`. `Onroad` takes a message
  as the latest state its sender published, which a conflating reader of `Msgq` gets, and a
  change of a parameter as atomic, which is what `Params` implements (`ParamMap`).
* updated and the launcher share only the file system, across reboots; loggerd's threads share one
  address space and two locks.

## 2. The modules

| Module | What it is | Corresponds to |
|---|---|---|
| `PandaHooks` | frames, modes and the lag check | `safety.h`, `safety_toyota.h`, `safety_defaults.h`, `safety_elm327.h`, the callers in `bxcan.h` and `can_common.h` |
| `Steering` | the torque limits and the samples they are drawn from, over `PandaHooks` | `safety.h`, `safety_toyota.h` |
| `Panda` | extends `PandaHooks` with heartbeat, relay, siren, power and ignition | `main.c`, `usb_comms.h`, `power_saving.h` |
| `PandaHost` | composes `Panda` with a host that dies and returns | `boardd.cc` as the panda sees it |
| `DeadMan` | **abstract**: a dead man's switch | what `Panda` promises the driver |
| `CanRing` / `CanFifo` | the ring, and **abstract**: a bounded FIFO | `can_common.h` |
| `CanTx` | endpoint 3, send queues, mailboxes, forwarding | `can_common.h`, `bxcan.h`, `usb.h` |
| `UsbStream` | what both directions of the stream share | |
| `UsbIn`, `UsbOut` | the stream to the host and from it | `usb_protocol.h`, `panda.cc` |
| `Onroad` | threads and processes from the ignition to the safety mode, and controlsd | `boardd.cc`, `controlsd.py`, `thermald.py`, `process_config.py`, `pandad.py` |
| `Msgq` / `MsgBus` | the queue, and **abstract**: a bus that gives whole messages in order | `msgq.cc` |
| `Params` / `ParamMap` | the parameter files, and **abstract**: a map that survives a loss of power | `params.cc` |
| `Updated` | updater, launcher, disk and power | `updated.py`, `launch_chffrplus.sh` |
| `Logger` | handles, rotation, encoders | `logger.cc`, `loggerd.cc` |
| `PandaProofs` (`PandaHooks`, `Panda`, `PandaHost`), `SteeringProofs`, `CanTxProofs`, `UsbProofs` (`CanRing`, `UsbIn`, `UsbOut`), `MsgqProofs`, `ParamsProofs`, `UpdatedProofs`, `LoggerProofs` | theorems | |
| `MC…` | alphabets and sizes for TLC; `MCSteering`, `MCUsb` and `MCStorage` each join parts that are checked apart (`PandaHooks` and `Steering`; the ring and the two directions of the stream; `Params` and `Updated`): each of their behaviours is one of the parts | |

How state and actions correspond. Variables have the names they have in C where
there is one. An action is one interrupt handler or control request, with every
call it makes: `RxFrame` is `can_rx` with forwarding, checks, hook and
`generic_rx_checks`; `Tick` is the part of `tick_handler` that runs at 1 Hz with
`safety_tick`, `set_safety_mode` and power saving; `TxIrq` is `process_can` with
the echo, the pop and the wakeup of the endpoint. Two handlers of `CanTx` are loops:
`Ep3Out` takes a packet and `Ep3Send` sends its frames one by one; `SetMode` starts
`can_init_all` and `CanInit` takes one controller. Until the loop is done (`frames`,
`next_can`) no other handler starts (`OneStep`), while the buses go on.

The grain differs where the code's concurrency does. In `Msgq` a step is one load, store or
compare-and-swap in shared memory, and a message is read word by word. In `Params` it
is a system call, in `Updated` a command of the script or of the loop up to the next point where
the disk may be behind, in `Logger` a lock region, and in `Onroad` a stretch of a thread's
round between two accesses to what others change.

Operators introduced by `\* Mutant:` are never used by a specification: each is a plausible slip in the definition after it, kept to show that a property would
notice.

Abstractions, and why they are sound for what is checked:

* A received frame is the Boolean its hook reads (cruise on, brake pressed, ...), the outcome of its
  checksum, and whether it fits its check. A frame of a monitored id with another length, or of the second address of
  a check, belongs to no check: it counts as valid and keeps no message from lagging. ACC frames are assumed
  to have their length (`HooksAssumption`); `LagEndsControls` rests on it.
  A host frame is one of five kinds. `Steering` says which torque makes a steering
  frame idle, actuating or excessive, with the state its checks keep; it leaves the tick and
  the host's other frames, which touch none of that state, to `PandaHooks`. The limits on
  acceleration (a comparison with two constants) stay behind the kinds.
* Toyota stands for the car modes; its hooks have every feature the others have
  (gas interceptor, relay check, forwarding with a block list). Requests for a mode
  that is not in the registry (among them the fork's own `proton`, `perodua` and
  `byd` models, which this firmware's registry lacks) fall back to SILENT.
* Time is counted in ticks. `missed[c]` counts the ticks since message `c`. The
  microsecond timer is in `Steering`, with its wrap; the 2-bit message counters of other makes
  are left to a later module.
* In `CanTx` a queue is its length: that a `can_ring` with that length is a FIFO is
  what `CanRing` shows. A USB packet is the frames it completes: how
  frames and packets correspond is what `UsbOut` shows.
* In `UsbIn` and `UsbOut` a message is its size, because only the place where
  packets cut it matters. `Runs(n)` is the set of lengths whole messages can have
  together; `SizesAssumption` makes that every length from one message on.
* The queue towards the host is any sequence of messages in `UsbIn`. `usb_bulk_read` repeats a transfer
  after an error of libusb, over what it had received (`panda.cc:233-245`), and gives up after a time-out;
  neither is modelled: a transfer ends where the panda ends it, or with boardd. Nor is the repetition of a
  write (`panda.cc:207-218`); a transfer to the panda may stop after any packet.
* `Msgq` assumes that accesses are sequentially consistent: they are `std::atomic`, and
  `__sync_synchronize` surrounds the copies. The history `lost` says that a reader lost its footing
  without having noticed yet: it was evicted, the publisher restarted under it, a store of another
  went into the slot it owns, or its reset was overtaken (the valid flag is set before a
  write pointer loaded earlier is stored). `MsgBus` promises nothing to such a reader until
  its next reset, and everything to the others. `msgq_msg_ready` is a prefix of receiving. Not
  modelled: `msgq_poll` and its signals, `msgq_all_readers_updated`, a second publisher. Two facts met
  on the way, which the properties allow for: a reader exactly one lap behind finds its pointer equal to
  the publisher's and takes the queue for empty (cycles are not compared), and a publisher that
  restarts between a reader's compare-and-swap and the store of its uid leaves it in a slot that does
  not count.
* `Params` has no `get`, which reads one file and changes nothing. Every write, fsync, rename and unlink may
  fail; a lock file that cannot be opened
  and two temporary files of one name are left out. `Torn` is a file whose data never
  reached the disk. The history `promised` says what the last call that changed a key and returned success
  has stored.
* `Updated` is a TICI device; the EON's NEOS and its installer are left out. `slot` is the system that `agnos.py` would
  find whole in the other slot, `Partial` once a hash is cleared. The flash of the other slot is durable when it
  returns (`os.sync`), the zeros over the last hash may not be; renames are journaled and in order; every other unsynced change may be
  lost, in any combination (`Survives`). The parameters and alerts it sets, and git itself, are left
  out; a tree is its release or `Partial`.
* `Logger` takes the tests of one call of `sync_encoders` as one step (they take far less than the time
  between two frames), and lets `do_exit` be set only between two rotations, when the main
  loop looks. It is a TICI: the branch of `sync_encoders` for one camera (`max_waiting` 1, `loggerd.cc:9, 18`) and a camera without
  `trigger_rotate` (`loggerd.cc:76`, `loggerd.h:82`), which together are the EON and its driver camera, are left out.
  After a handle was reopened while its last holder closes it (`clash`) the model makes no step: no property says
  anything of a log after that. The quick log, the init data and what messages say are left out. Two narrow windows are left to
  review: several threads writing `max_waiting` at start-up (`loggerd.cc:216`) and the wake-up at
  the shutdown, sent without the lock (`loggerd.cc:255`).
* `Onroad` has one panda, takes the manager's stop of controlsd as immediate, and thermald, `deviceState` and the manager as one
  step. The ignition is the only condition of being onroad: temperature, free space and the others are left out, and so is
  `IgnoreHardIgnition` (`thermald.py:261-262`), with which thermald takes the ignition from CAN alone while boardd
  does not. Without messages of the panda controlsd raises `commIssue`, a soft disable and no entry (`controlsd.py:279`,
  `events.py:686-689`). What the code does
  not guard against is named and left out of `ModeIsSet`: boardd clears the
  parameters of a drive at its start, perhaps after the controlsd of that drive has set
  them (`robbed`).

Not modelled of the modelled files: GMLAN, LIN, fans, LEDs, infrared, USB power
modes, statistics, the debug build (`ALLOW_DEBUG`), siren tests by request 0xf6; of boardd the GPS link, the
fan and a second panda; of thermald everything but the ignition.

## 3. What is checked

Passing runs:

| Run | Distinct states | Question |
|---|---|---|
| `hooks_safety` | 525,632 | may the host actuate only when the driver lets it, and how fast may the torque grow? |
| `host` | 287,812 | is the panda a dead man's switch, and does a dead host leave it passive? |
| `can_tx` | 115,744 | is a wakeup or a frame ever lost? |
| `usb` | 33,924 | is `can_ring` a FIFO, and do both ends of the USB stream stay in step? |
| `onroad` | 125,015 | does every drive get its safety mode and lose it, and does a disagreement end? |
| `msgq` | 629,696 | is what a reader gets what a bus would give it? |
| `storage` | 344,082 | what may a loss of power or a failing call do to parameters and to the software? |
| `logger` | 621,032 | do files, frames and logs of a segment belong together? |

*Hooks.* `ControlsFollowCruise`, `LagEndsControls` (invariants), `OverrideExits`, `ReengageNeedsEdge`, `ActuationNeedsDriver`
(what a step may never do). Alphabet: every kind of frame on the
buses it can come from, with both signal values, a bad checksum where one is
checked, and brake and torque frames that belong to no check; every mode request; all four monitored messages. Ticks of absence are
counted up to 2, one more than the code's limit of one.

*Steering* (part of `hooks_safety`). `ReleaseAllowed`: the host can always let go of the wheel, though the
limits on both sides come from a last torque, a reference and samples of different ages. `RealTimeLimit`: from
any moment on the torque grows by at most two steps at once and one more per interval, however many frames
come (375 each 250 ms are the 1500 a second `safety_toyota.h` speaks of, which the first two steps precede). `StartsFromZero`: after a refusal, a
disengagement the check has seen, or a change of the mode, nothing of the old torque is left. Torques from -3 to 1
with a step of 1 let the torque outgrow two steps and meet the other sign; two samples in place of six, an
interval of one tick of a timer that wraps after four.

*Host.* `SilentHostLosesMode`, `LostMeansPassive`, `UnusedControlsExpire`, `LossSounds`,
the refinement `IsDeadManSwitch` and the liveness property `DeadHostEndsPassive`: a dead host leaves the panda
in SILENT, listening only, with the relay off and the siren quiet, and in power save too if it is not
reset for ever (a reset turns the transceivers on).
The heartbeat limits are the real ones, 5 ticks with the ignition on and 2 with it
off, and so are the 3 unused seconds; 3 and 2 stand for the 30 and 5 seconds of the siren: only
whether they have run out matters, and the theorems hold for all values.
The alphabet is cut to the frames that give and take controls or turn the ignition;
the hooks have their own run.

*Ring* (part of `usb`). Four elements, two packets: all positions of both pointers and many laps.

*CanTx.* Two buses on a harness that swaps them (so queue and mailbox have different
numbers), joined both ways by the forward hook, three slots per queue with a
reserve of two, two USB packets to a transfer of up to two frames each. Three slots
are the least where "room for the reserve" differs from both "empty" and "not
full". In SILENT nothing is forwarded and no frame of the host accepted (`safety_defaults.h`). `PausedMeansFull` says no wakeup is lost at any moment, `EndpointComesBack` that
the endpoint is taken up again for ever while both buses are acknowledged,
`IdleMeansEmpty` that no frame waits behind an idle mailbox, `ReserveCovers` that
frames are only dropped when more were queued than reserved.

*Usb.* The real sizes of messages (5 to 69 bytes, CAN FD included) and packets (64
bytes), with transfers of 6 packets instead of 256 and a counter of 6 values; the
relations between the limits (`InAssumption`) are those of the code.
`HealthyUnlessCut`: boardd finds a packet out of place only after a boardd that died
in a transfer. `CutOnlyAtRecvSize`: only a transfer that fills boardd's buffer may end
inside a message. `NothingStitched`, `BufferFits`: the panda's reassembly never joins
two messages or outgrows its buffer, wherever transfers stop.

*Onroad.* `ModeIsSet`: with the ignition on and the panda plugged for good the panda comes to
the car's mode, whatever half-finished drives and threads came before. `ModeEnds`: a parked
car does not keep it, though the setter may be past its last look at the ignition.
`DisagreementEnds`: controlsd does not stay enabled against a panda that allows no controls, be it for the
count of mismatches, the safety mode or the want of messages; the last is a soft disable, which `state_transition` does not look at in
`preEnabled`, so that state is the named exception while nothing is heard of the panda. Three turns of the ignition are a
drive, its end and the next drive over what the first left behind; one pull of the plug. Two
samples stand for the 200 of the mismatch limit and one for the soft disable: only that the
count can be interrupted before it is reached matters.

*Msgq.* `ImplementsBus` and `SharedImplementBus` (refinement), `SizeIsSize` (a reader with its footing never takes a word
of a message for a size), `CatchesUp`, and the types, which hold the claim that a pointer never
comes so near the end that the tag of the wrap-around does not fit behind it. The run has two parts. In the one
a reader is lapped and the publisher or the reader restarts: one slot, so that a restarted
reader has to evict; a ring of 9 words and messages of one and two, which is three of the largest, the
least the assert in `msgq_msg_send` allows; four messages are two laps; conflating readers and others.
In the other two readers share two slots, and the third subscription, of one that was restarted, evicts
them both. (Nothing restarts with a conflating reader or after the last message has begun, nor anything but one reader
in the second part, which keeps the parts small.) `CatchesUp` says that each of them comes to the end of the queue with the newest message in hand; the one end
it grants besides is exactly a lap behind, where `msgq_msg_recv` cannot tell (see above). It is a property of these
sizes: with more readers than slots they evict each other for ever, and when both subscribe while a restarted
publisher clears the slots they may do so in turn, step for step, which is why the publisher does not restart in the second part.
Safety was also explored with two readers in the larger ring (3.3 million states).

*Storage.* `ImplementsMap` (refinement), `ReturnedIsDurable` (what a put or remove that returned success has stored
outlives every loss of power until the key is changed again, though other calls fail at their fsync or die in the lock; a call that
returns an error, and clearAll, which looks at no result, promise nothing), `SnapshotConsistent` (readAll gives keys
values they had together), with two processes, keys and values. `SwappableBoots`, `LocalWorkKept`, and
`UpdateArrives` with three releases on two operating systems: the third release arrives while the second is
half prepared. `agnos.py` clears the hashes of the other slot before it makes it active, so a cut in between leaves the
device at the installer, and an installer that ends leaves the launcher to go on to the manager on the wrong
system. `UpdateArrives` therefore supposes a driver who sits through the installation, and `SwappableBoots` allows an
update for the same missing system as BASEDIR's. The one exception without remedy is a cut between the two
moves of the swap.

*Logger.* `SentinelIsLast`, `CamerasInStep`, `WaitEnds`. Two cameras whose first frames are one apart,
segments of one frame (the stages of a rotation do not depend on its length), five frames, two
rotations, and a pool in which a handle is free only when the last two segments were let go.

The type invariants of the hooks, the supervisor, the ring, the transmit path, the USB stream, the parameters
and the updater are parts of the invariants proved in section 5; they have no run of their own.

Fairness. `host`: weak fairness of the tick only, which is a hardware timer. Nothing
is assumed of host or car. `can_tx`: weak fairness of the steps of a
handler (loops over at most a packet or the controllers) and of the transmission of a
pending frame on a bus that stays acknowledged (the peripheral retransmits by itself);
strong fairness of the transfer-complete interrupt and of a mailbox's interrupt: they stay
pending while other handlers run, so weak fairness, which any handler that starts over and over
defeats, would be too little. The hardware takes pending interrupts in the order of their
numbers when a handler ends; the assumption is that the others leave room now and then, which
their rate limits (`CAN_INTERRUPT_RATE` and its kind) are there for. `EndpointComesBack` also supposes that forwarded frames
stop: otherwise another bus can keep the queue full. `onroad`: weak fairness of every thread and
process, of the panda's heartbeat clock and of the ageing of a message. `msgq`: weak fairness of
every reader and of the publisher within a send; that it sends is not assumed. `storage`:
programs go on (weak fairness); turns of the loop, fetches that work and reboots
come again and again (strong fairness: failures and power cuts come in between), which is a
device that is online and rebooted now and then; and the driver starts the installation that the launcher
asks for (weak fairness of `Install`; `AgnosFails` and the end of the installer stop with `quiet`). `logger`: weak fairness of the logging thread, of
each encoder and of the rotation by time (the clock runs, and when no camera is seen the code rotates by
itself); a camera need not deliver frames.

Deadlock is checked except in `msgq` (a reader ended by its assert, nothing more sent), `storage` (no
BASEDIR to boot) and `logger` (the end of the route, or of the modelled segments).

## 4. Where code and words differ

Four runs end in a counterexample, on purpose; each checks what a comment says.

1. `hooks_relay_fault`: `safety_tx_hook` returns −1 while `relay_malfunction` is set, and
   `can_send` sends every frame whose result is not 0. Under a relay fault every frame
   of the host leaves, allowed or not; "no torque if controls is not allowed".
2. `steering_reset`: `set_safety_hooks` sets `torque_meas.max` to 0 twice and never `torque_meas.min`, nor the
   samples; until the motor has reported six times, the torque limit of the new mode is drawn from the old one.
   "reset state set by safety mode".
3. `can_tx_full`: the queues are looked at when the endpoint is armed, not per packet,
   and forwarded frames or SET_CONFIGURATION are not accounted for, so an accepted frame may
   be dropped; "If the receive buffer on the panda is full it will NAK".
4. `onroad_disconnect`: thermald learns of the ignition from `pandaStates` only, and without a panda there
   are none; `DISCONNECT_TIMEOUT`, "wait 5 seconds before going offroad after disconnect",
   is used nowhere.

Noticed while modelling, with no run: after the lag check an ACC edge returns controls although the
message is still missing ("2s of lag is worse case", `safety.h:138`); the count of unused seconds survives a
disengagement (`main.c:205`), so a new engagement may end at its first tick; controlsd's count of mismatches is not
reset by samples that agree (`controlsd.py:388` speaks of a delay of two samples, the limit is 200);
pandad is not restarted when it dies (`process.py:236`).

## 5. What is proved

TLAPS checks the theorems for every value of the constants that the named
assumptions allow (sizes positive, limits ordered as in the code).

**Hooks** (`PandaProofs`), every property of `PandaHooks` in the run `hooks_safety`. `HooksInv`, the
types with `ControlsFollowCruise` and `NoControlWhileBraking`, is inductive as it stands:
the reset of the driver's state and of `controls_allowed` in `SetSafetyHooks` is what makes
it so, and it gives `HooksSafe`, `ReengagesOnEdge` and `ActuationGuarded`.
`OverrideEnds` needs more: the edge tests of `generic_rx_checks` compare with the previous
pedals, so they see every press only because `PrevInv` keeps previous and current pedals
equal between frames. `LagEnds` follows from `HooksInv` and itself: after a tick that leaves
controls every message is at most one tick old, and only an ACC frame gives them
back before the next. The lemmas have one step per handler and are used again for the panda.

**Steering** (`SteeringProofs`), every property of `Steering` in that run, for all limits, any interval and any width
of the timer. `ReferenceSteps` carries the real time limit: since the moment the peak was marked the reference has
moved some n times, so it is within n steps of the mark and the peak within n + 1; the first move
may come at once, and each later one costs an interval, which `Elapsed` shows even when the timer has wrapped (it can only be
less than the time gone by). `ReleaseNeverRefused` needs the types only, which is its point: it does not depend on
which samples are stale.

**Panda** (`PandaProofs`). `HostInv` adds to `HooksInv` three parts. `RelayInv`: the relay is on only in
a car mode, and a lost heartbeat excludes the modes that restart it. `SilenceInv`: in
any mode but SILENT the panda's heartbeat counter is at least the true silence of the
host, which is what a mode request that restarted the counter without a heartbeat
could break. `IdleInv`: the panda's count of unused seconds is at least the true one, which
is below the limit. From them follow `SilentHostLosesControl`, `LostHostStaysOut` (of `RelayInv`) and `UnusedControlsGo`, and step by
step `ImplementsDeadMan`: host steps are `Contact`, car steps `Driver` or `Restart`, ticks
`Second`, and death and return of the host stutter. `LossIsHeard` needs no invariant: only one
kind of tick loses the heartbeat, and it counts down from a positive value while controls are
allowed.

**Ring** (`UsbProofs`). The refinement maps the ring to the sequence of its
packets from the read pointer on, built as a function on indices with the modulus
written as a conditional. `PushAppends` and `PopDropsHead` are the two facts the
refinement rests on.

**Usb** (`UsbProofs`). To the host, `CountersInStep` is the heart: while no transfer was cut
the panda's counter, its size of the transfer and the host's count are equal
between packets, and a full packet under way is followed either by the next count or,
at the limit, by zero — and then it fills the host's buffer. That counts never wrap
within a transfer follows from the relation of the three limits. For classical
messages (`Classical`) the stronger `Clean` shows that what is left of a message
leaves room in the next packet, so no transfer ends inside one (`StartsClean`; with CAN
FD this is false, and `CutsAtTheEnd` proves that a message is cut only where the host's buffer ends). To the panda,
`BytesInStep` relates the bytes the host owes to the bytes the panda waits for; it gives `OutSafe` and
`BufferSuffices`.

**Transmit path** (`CanTxProofs`), every invariant of the run `can_tx`: `FlowControl` (no wakeup is lost, and the types),
`NoFrameLeftBehind` and `ReserveSuffices`. They need each other, so one invariant, `TxInv`, holds all three and adds two parts. `Budget`: a queue holds at most what the
reserve left when the endpoint was armed and what was queued since, so a full queue means
that the reserve is used up, which is `ReserveCovers`. `Armed`: an endpoint that takes packets
was armed for one more. The lemmas on the queues say what `PushTx`, `PushRx` and `ProcessCan` do to
a record; `Outcome` collects what every handler keeps: a queue grows by at most what was
pushed, it shrinks only if a frame was popped, and nothing stays behind an idle mailbox.
`Handling` (a frame popped looks at the endpoint) and `Resuming` (so does a queue cleared) then
give `TxInv` for all handlers; a handler that neither pops nor clears cannot make room, which is
why `PausedMeansFull` needs no look there.

**Message queue** (`MsgqProofs`), every safety property of `Msgq` and that it implements `MsgBus`, for any number of
readers and slots, any size of the ring, any sizes of messages that pass the assert of `msgq_msg_send`, and any
number of restarts. `MsgqInv` says that there are two sets of places in the ring. `C` are the starts of the messages of the
current lap with the write pointer, one behind the other from word 0, whole and with rising numbers (`Lap`). `T` are
what is left of earlier laps from the write pointer on: messages that lead to each other or to the tag of a wrap-around
(`Tail`), older than the current lap (`Older`). The sets are quantified in the invariant, because no variable of the code has
them; a message that is published joins `C`, what its area covers leaves `T`, and the wrap-around makes `C` the
new `T`. A reader with its footing (`Footed`) and a valid slot is *sighted*: its pointer is in `C` or, with an older cycle, in
`T`; all that is ahead is newer than what it was given (`CurAhead`, `TailAhead`); and from the load of the size to the check
after the copy the words it is reading are a whole published message (`Sees`) or the tag of a wrap-around (`SeesWrap`).
Two parts are about the race of a reader with the publisher's scan. Between the scan and the write a reader that
the scan has passed may not stand in the area, so its `T` is smaller (`Scanned`, `TailFor`); a reader that registers after the scan
has counted the slots is not looked at, and harmless because it has only just loaded the write pointer (`Late`). A reader
whose flag was cleared is owed nothing until it looks at the flag, and it looks after each use of what it read;
that is why `Footing` is about readers with a valid slot only, and why the clearing has to come before
the first write (`SightCleared`, `LayoutKept`, `SightKept` for the publisher's steps; `PrivateStep`,
`StoreReadStep` and `FootingAfter` for the readers'). `TagsFit` is needed besides for readers without footing: a size they find
anywhere keeps them inside the ring, without which the types would not hold. It gives `QueueTypes`, `SizesAreSizes`, and step by
step `QueueImplementsBus`.

The proof changed the model twice. `AfterSize` was a CASE with arms that overlap, which TLA+ may decide either way and
TLC decides for the first; it is an IF ... ELSE chain now, in the order of the tests of `msgq_msg_recv`. And the
copy kept its place implicitly, which allowed messages of one or two words only; a reader has a counter of
words now, and the theorems hold for messages of any size.

**Parameters** (`ParamsProofs`), every property of `Params`. `ParamsInv` relates a call's place to what it
knows: a file that is renamed was synced (`CallsOK`), what a snapshot has is what the directory has while the lock is
held (`AllSeenOK`), whoever is between rename and fsync holds the lock (`LockHeld`), the disk
only ever holds whole values (`DiskWhole`), and what was promised of a key is what the directory has and
all the disk may hold (`PromisesKept`): a failed fsync leaves the disk open, but then the key was changed and nothing is
promised until a later call succeeds. It gives
`DurableWhenReturned`, `ReadAllConsistent` and `LockExcludes` (two processes are never both in the critical section), and
step by step `ParamsRefineMap`.

**Updater** (`UpdatedProofs`). `SwapInv` is about the files: what the flag vouches for was synced before
the flag was (`FlagMeansReady`, `FinalReady`), the flag is down, on the disk too, while the finalised tree or the
other slot change (`LowFlag`), and the marks on the disk agree with the marks seen up to what may be
lost (`MarksAgree`). The flag of the last swap, which came to BASEDIR with the tree, must not get into the copy
(`NoRelic`: `init_overlay` unlinks it), and `agnos.py` runs only where nothing is to be swapped in, with disk and
files agreeing (`LauncherFiles`). It is inductive by itself and gives `SwapIsSafe`: whenever the power goes, what would be
swapped in boots, as far as BASEDIR does; and `ChangesUnseen`: while FINALIZED or the other slot change, at boot
or in a turn of the updater, nothing would be swapped in. `FetchSaved` and `CommitsSeen` are added for `CommitsStay`: local commits not made in the
window between `check_git_saved` and `.overlay_init` leave a stale mark or no mark, so nothing is swapped over
them. One lemma per action.

**Log rotation** (`LoggerProofs`). `LoggerInv` says what a handle's count is worth: it is the number of those that
hold the handle (`Counted`), so who finds it at one is alone (`Alone`), writes the sentinel with nobody else
to write after it, and only then lets go (`Closing`); no two handles in use log the same segment, and a log that was
closed has no handle (`OneLogEach`). It holds up to a clash (a handle reopened while its last holder closes it), after which
the model makes no step, and gives `SentinelLast`. `Together` adds the agreement of the cameras, for as long as no
segment was rotated by time: the count of ready cameras is the number of those that wait (`CountRight`), so all wait
during a rotation, none is closing a handle and there is no clash; the numbers of the segment are one apart in a known way
in each stage of the rotation (`Numbers`); a camera that has not begun is before the first frame that was agreed on
(`StartAgreed`); and one that has is in the current segment, or one behind and waiting (`CameraRight`).
It gives `CamerasMoveTogether` under `DropsFit`: no more frames are dropped at once than a segment has (20 Hz for
a minute: 1200). Without that a frame beyond the next segment's end would be encoded into that
segment.

Only model-checked: the liveness properties (`DeadHostEndsPassive`, `EndpointComesBack`, `CatchesUp`,
`UpdateArrives`, `WaitEnds`, `ModeIsSet`, `ModeEnds`, `DisagreementEnds`; temporal logic with fairness and
ENABLED is out of the prover's reach). Every invariant, action property and refinement that a passing run
checks is a theorem too. No proof uses induction over data; recursion is avoided in every module.

## 6. Plan

What is left, in order of importance:

1. The safe core of the liveness properties of `Onroad`: which threads and processes may exist together.
   In `MsgBus`, that a reader that neither conflates nor was reset skips no message: `MsgqInv` knows that the
   messages ahead follow each other, so the stronger bus should need little more.
2. `RxChecks`: message counters and checksums of the other makes, and their torque limits against the driver
   (`driver_limit_check`).
3. A second publisher and `msgq_poll` in `Msgq`.
4. Athena's upload queue: cancellation against retry, and its copy on the disk.
5. The manager's shutdown and watchdog, in `Onroad`.
