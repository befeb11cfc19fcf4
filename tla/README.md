# PiStorm in TLA+

A formal model of the concurrent core of PiStorm, the program that replaces an
Amiga's 68000 by a Raspberry Pi. The repository's own code (without the Musashi CPU
core, softfloat, raylib, flashing tools and bitstreams) is a set of emulated
devices, called from the CPU thread, and a handful of threads that talk to them.
The part with the hardest concurrency is **A314**: a network of logical channels
between Amiga programs and Pi processes, over two byte rings in shared memory, with
one end running as an Amiga device driver on the emulated CPU and the other as a
thread of the emulator. It is modelled first and in full detail. The other parts
modelled are the way of keys and interrupts to the emulated CPU, the memory map
with AutoConfig, and PiSCSI.

    tlc -config A314Link.cfg A314Link            # model-check one run
    tlc -config MemoryMap.cfg MCMemoryMap        # the module of each run is in PROJECT.json
    tlapm A314Link_proofs.tla                    # check the proofs

## Inventory

| Component (under `src/`) | State | Operations and interactions | Hard about it | Correct when |
|---|---|---|---|---|
| A314 communication area: `a314/a314.cc`, `a314/a314device/{a314driver,startup}.c`, `int_server.asm` | two 256-byte rings with 8-bit head and tail, `a_events`/`a_enable`, `r_events` (a byte pipe to the Pi thread) | driver task (`task_main`), interrupt server, Pi thread (`main_loop`), each with cached copies of the other's pointers | wake-ups on both sides, reads that clear, pointers read earlier, resets | no overrun, nobody sleeps on work, every packet is received |
| A314 channels: `a314driver.c`, `sockets.c`, `a314.cc` | sockets with pending requests and flags, driver's send queue; channels with packet queues, Pi's send queue; services, client connections | requests of applications, packets, client messages, death of a client, STARTED | closes that cross each other, half-closed streams, queue membership, reuse of ids, resets | streams are FIFO and end with EOS, both sides learn of closes, no channel leaks |
| A314 services and clients: `a314/files_pi`, `a314/software-amiga` | their own | use the channels | – | – |
| Emulator threads: `emulator.c` | `irq`, `last_irq`, `last_last_irq`, `irq_delay`, `do_reset`, `ipl_enabled[]` | `ipl_task` samples the GPIO, `cpu_task` runs the core and delivers interrupts, `keyboard_task` raises interrupts, NMI and reset | unsynchronised flags between three threads | an asserted level reaches the core, a released one leaves it, a reset is done once |
| Emulated interrupts: `platforms/amiga/amiga-interrupts.c` | `emulated_irqs`, `emulated_ipl` | raised by the keyboard thread (the sound thread's raise is behind a flag that nothing sets), read and cleared by the CPU thread's INTREQ accesses, cleared by reset | read-modify-write from several threads, level recomputed on clear | level = highest pending, no raise lost |
| Input queue: `input/input.c` | ring of 256 keys, three 8-bit counters | pushed by keyboard thread and mouse wheel, popped by CIA reads | two producers, one consumer, no lock, limit 255 | FIFO, count = contents |
| Autoconfig: `amiga-autoconf.c`, `amiga-platform.c` | two board lists, current board of each, base addresses, ranges of the platform | reads and writes of the configuration window, physical boards before emulated ones, reset | addresses written in parts into variables that survive resets, one array for both lists, ranges computed at some moments only | every board is reached where the Amiga put it, every boot ends |
| CPU core's memory ranges: `m68kcpu.c`, `m68kcpu.h` | tables of eight ranges for reads and for writes, translation caches | filled by AutoConfig and the configuration, looked through at every access | a table that is full, ranges adjusted in one table, caches nobody empties | reads and writes reach the same memory, none that was freed |
| PiSCSI: `piscsi/piscsi.c`, `device_driver_amiga/piscsi-amiga-2.c` | seven drives, selected drive, four argument registers; partition and file-system lists | the Amiga's driver writes and reads registers in the task that asks for a transfer; drive refresh at reset | several tasks at once without a lock, 32-bit arithmetic, indices from registers | a transfer moves its own bytes of its own drive |
| Pi-AHI: `ahi/pi_ahi.c` | play/record threads, interrupt flags | registers, sound threads | thread start/stop against register writes | no interrupt after stop |
| RTG, Gayle/IDE, CDTV, RTC, Pi-NET, pistorm-dev | register files, render thread of RTG | registers | render thread against CPU thread | – |
| Configuration and memory map: `config_file.c`, `memory_mapped.c` | mapped items, their memory | loading and freeing a configuration, look-up on every access the core's tables do not cover, and for transfers of the Pi | freed memory, limits of the map | CPU and Pi find the same memory |
| GPIO bus: `gpio/ps_protocol.c`, `rtl/pistorm.v` | GPIO lines, CPLD state machine | word-wise bus cycles | used from the CPU and the A314 thread without a lock | one bus cycle at a time |
| CPU core, softfloat, raylib, tools | – | – | third party | – |

The hazards, each at its line, are in `PROJECT.json`.

## Plan

1. `A314Ring`, `A314Link`, its proofs; `A314Channels` with `A314Stream` — **done**
   (below).
2. `KeyQueue` (input.c) with its proofs; `IrqDelivery` (amiga-interrupts.c, ipl_task,
   cpu_task, keyboard_task, reset) — **done** (below).
3. `MusashiRanges`, `MemoryMap` (AutoConfig, ranges, tables and caches,
   configurations) and `PiScsi` (driver and registers), with their proofs — **done**
   (below).
4. Left: the boot part of PiSCSI (partitions and file systems read from an image,
   the boot ROM's registers); the edges of the reset line between ipl_task and
   cpu_task; shutdown (SIGTERM) of a314d; stream-id allocation with all ids in use.
5. Every invariant that a run checks, and both refinements of `A314Stream`, are stated by
   theorems — **done** (below). What a run checks without fairness is proved; liveness
   stays with TLC.

## The modules

**`A314Ring`** – pointer arithmetic of a ring of N cells (256 in the code): `Used`,
`RoomFor`, `Advance`. Constant-level, used by the link and its proofs.

**`A314Link`** – the two rings and the wake-up protocol, step by step.
`pc` is the place of the Amiga's task in `task_start`/`task_main`, `ppc` that of the Pi
thread in `main_loop`; each shared load or store that matters is an action of
its own (`TaskEvents` reads `a_events` away, `TaskCheck` looks at the rings,
`TaskEnable` stores `a_enable`, `TaskNotify` writes `r_events`; `PiReadTail`/`PiReadHead`
fill `channel_status`, `PiWriteTail`/`PiWriteHead`/`PiRaise` are the three stores of
`write_channel_status`). `IntServer` may run between any two steps of the task,
because any device may raise PORTS. Packets are their sizes: `sendq` is the
driver's send queue, `pq` the Pi's `send_queue` with the packets of each waiting
channel, `port` the number of requests in the message port, `irq` the bytes in
the socket pair. `r2aBytes`/`a2rBytes` are history: the bytes really written and not
yet read. `missed` is history too: it records the three ways the code can lose a
wake-up – an event read away while disabled, a tail (or head) that came round to its
old value within one round, packets of an earlier session that task_start's
read of `a_events` silences – so that the invariants can say "... unless one of
these happened".

**`A314Channels`** – what the packets mean. The rings are short queues of typed
packets; delay is arbitrary and "no room" may be answered even when there is
room, because a side may look at an old pointer (that part is A314Link's
business). One action per request (`AppConnect`, `AppRead`, `AppWrite`, `AppEos`,
`AppReset`), per turn of the driver's loops (`DriverSend`, `DriverReceive`), per
packet or turn of the Pi (`PiReceive`, `PiFlush`, `PiStarted`) and per message or end
of the client. `sock[i]` is the socket with stream id i, `chan[i]` the Pi's channel,
`streams` what a314d and the client process said to each other. `wrote` and `seen`
are history. With `MaxSessions` > 1 the Amiga may be reset and open the device
again: everything in the driver starts over, the rings and the Pi's state
remain, as in `handle_reset_amiga`, which does not touch A314. `started` counts the
STARTED bytes that wait in the pipe to the Pi thread: once the first was handled
(`a314_device_started`) packets are received whatever else waits there, those of a new
session before its own STARTED too. Stream ids are not used a second time within a
session (a bound: the code comes round after 128). `MCA314Channels` declares
the applications' socket numbers alike, for TLC.

**`A314Stream`** – the abstract specification of one direction of a stream: packets
come out in the order they went in, and nothing after EOS. `A314Channels`
implements it in both directions (`StreamToClient`, `StreamToApp`).

**`A314Link_proofs`** – the theorems about `A314Link`.

**`A314Channels_proofs`** – what holds of the channels in every session: types and the Pi's
send queue, after the facts about sequences used as queues (a member appended, taken from
the front or from the middle) that this needs. **`A314Session_proofs`** extends it with what
relates the two sides, which holds until the Amiga is reset, and **`A314Streams_proofs`**
extends that with the refinements of `A314Stream`.

**`KeyQueue`** – the queue of key presses between keyboard and CPU thread. `pc[t]` is the
place of thread t in `queue_keypress` (`Accept`, `Store`, `Move`, `More`) or
`pop_queued_key` (`Pop`, `Less`); `count[t]` and `pos[t]` are what it loaded. `Reload` is the
compiler's freedom to load a plain variable again. The ring, its counter and the
two positions have the width `Cells` (256). Both threads put keys in: the CPU thread
does so for the wheel. `torn` is history: an update of the counter was lost to the
other thread's; and so is `overlap`: both were in `queue_keypress` at once, so that one
stored over the other's key. What the properties say of the contents holds until
either happens; what they say of the counter's range needs `overlap` alone, and holds
with lost updates.

**`KeyQueue_proofs`**, **`IrqDelivery_proofs`** – the theorems about the queue and the interrupts.

**`IrqDelivery`** – the way of an interrupt to the emulated CPU. `raise` is the place of
the keyboard thread in `amiga_emulate_irq` (load, store, compare, store); `cpu` that of
the CPU thread in `cpu_task` and in an INTREQ write; `kbd` that of the keyboard thread.
`irq`, `last_irq`, `last_last_irq`, `int_level`, `ipl_enabled`, `emulated_irqs` and
`emulated_ipl` are the code's variables; of `emulated_irqs` only the PORTS bit exists,
because the sound thread, which would raise EXTER, never does. `server` is the
Amiga's interrupt server, external: it reads INTREQR, CIAAICR and CIAADAT and clears
INTREQ; the actions of these accesses are the code's handlers. A reset clears the two
variables by a store each (`Reset`, `ResetLevels`). `hw` are the requests
of the real chips. `overlap` is history: two threads changed `emulated_irqs` at once.

**`MusashiRanges`** – the CPU core's tables of memory it accesses by pointer, as
operators on sequences: what a look-up finds, what `m68k_add_ram_range` and
`m68k_add_rom_range` change, with the limit (`MaxRanges`) and its silence.

**`MemoryMap`** – where an access goes. `read_ranges`, `write_ranges`, `fc_read` and `fc_write`
are the core's tables and caches, `map_offset` the map of the configuration, `custom` and
`mapped` the two ranges that `adjust_ranges_amiga` computes, `ac_base` and `io_base` the
addresses the boards were given, `z2_current` ... `z3_done` the places in the two lists,
`waiting` is `ac_waiting_for_physical_pic`. `Reads(a)` and `Writes(a)` follow an access
through cache, table, platform and map, `Pointer(a)` is the look-up for the Pi's own
transfers (of a byte: of the boards the A314 answers to no wider write); an access that fills a cache is an action (`CpuRead`, `CpuWrite`). The writes
of an address in parts are actions of their own (`Z2Low`, `Z2High`; `Z3Low`, `Z3High` or
`Z3Word`), each doing what the register's handler does to the variable an earlier
boot left, with a reset possible between them. `amiga` is expansion.library, external: it probes, writes, and starts
over until no board answers. An address is three digits of two bits, a board one
slot long: boards either coincide or do not meet. `LoadConfig` is the interaction
device's request for another configuration: memory is a pair of the configuration's
number and a name, so that freed memory is told from the new one. The last
section of the module says what the addresses have to be for memory and registers to be
reached (`AllPlaced`, `RamClear`, `StraysClear`, `PiscsiFirst`). `MCMemoryMap` holds the
boards and addresses for TLC: `MCZ2`, `MCZ3` follow amiga.cfg, `AloneZ2` is amiga.cfg with
the A314 alone; its assumption `MCAddresses` has TLC find that these addresses are so.

**`PiScsi`** – the driver and the registers. A task's request is a program of register
accesses (`Program`), one access per step: `SelectDrive`, `ReadBlockSize`, `ReadBlocks`,
`WriteAddr`, `Command` are the handlers of the controller together with what the
driver does with their result. The selected drive and the arguments are shared by
all tasks. An outcome says which bytes of which drive a command moved, to or from which
address. `WORD` is 2^32 and `SECTOR` is 512. `owner` and `own` are history: who wrote a
register last, and whether all that a task used was its own. `MCPiScsi` holds the
requests: whole blocks and too few bytes; inside an image, across its end and beyond
it.

**`MemoryMap_proofs`**, **`PiScsi_proofs`** – the theorems about them.

In every module `<operator>_<slip>` is a plausible mistake in `<operator>`, kept
beside it; `PROJECT.json` pairs each property with a slip that breaks it.

## The runs

| Run | Shows | Bounds and why they suffice |
|---|---|---|
| `link` | type, ring accounting, no deaf sleep, quiet means delivered, across resets | N=4 with two-cell packets: one fits, one does not, with cells left over; full, empty, wrap-round and a whole turn within one round occur; one request and one queued packet outstanding per side; two bytes in the pipe (a third is dropped), resets between any two steps |
| `link_live` | every published packet is received | as `link` without resets, one byte in the pipe |
| `channels` | send queues sound, closes reach both sides, ids meet no stale channel, refinement of `A314Stream` in both directions, who waits in a send queue is not passed | two connections, at once or the second while the first lingers on the Pi, on two socket numbers or one (the numbers are symmetric), the service started on demand; rings of one packet, so that each of the two waits for the other's packets; response, a data packet and EOS per direction of the first connection (queues longer than one), everything but data in the second |
| `channels_live` | sockets that wait to send get their turn, channels end | two connections that compete for rings of one packet, a registered service, no data |
| `channels_restart` | the Pi's queue across a reset | one connection, two sessions, packets of either before and after the new STARTED |
| `channels_restart_connect` (violation) | a CONNECT of the old session meets one of the new | two sessions, rings of two packets |
| `key_queue` | the counter never wraps while producers do not meet; keys in order, count = contents while also no update was lost | four cells, limit three, five keys from both threads: the ring fills, wraps round, and a key is refused; every load and store interleaved |
| `irq` | outside changes and overlaps the emulated level belongs to the pending interrupt; queued keys get through | the keyboard, a CIA timer on the same level and vertical blanks, two queued keys, the pause key, resets |
| `memory_map` | CPU and Pi reach every board's memory and registers where the Amiga put it; once resets end, so does the boot | four Zorro II and two Zorro III boards, one physical board before or after them, tables of three places for four memories, resets between any two writes, two configurations whose memories change places; the second has no room for the A314 |
| `a314_alone` (violation) | the A314 is not reached once AutoConfig has ended | amiga.cfg with that line alone |
| `piscsi` | no division by zero, exactly the own bytes of the own drive unless torn | two tasks with five requests each, one drive of six sectors, one longer than a word with blocks of two sectors, aborts, resets |
| `piscsi_block_size` (violation) | a SCSI command of a drive with other blocks moves too little | as `piscsi` |

`CHECK_DEADLOCK FALSE` for the link, the channels and the queue: the link really can
stop (a lost wake-up with idle applications), and the bounds end every behaviour of
the channels and the queue. `IrqDelivery`, `MemoryMap` and `PiScsi` never stop, and are
checked for it.

Bounds are constants: `MaxRequests`, `MaxPending`, `IrqCap` (link), `MaxConns`, `MaxData`, `LaterData`,
`MaxSessions`, `A2RCap`, `R2ACap` (channels), `MaxKeys` (queue), `MaxQueued` (interrupts),
`MaxLoads` and `Physical` (memory map); `PiScsi` has none but the requests. The code's own limits
differ in number, not in kind: N=256, packets of 3 to 255 bytes, 255 keys, tables of
seven ranges, words of 32 bits.

## Fairness

`A314Link`: the task runs whenever it is ready (priority 80, highest on the
system), the Pi thread is scheduled by Linux, PORTS interrupts keep coming (the
CIA timers share the level): weak fairness of `Task`, `PiSteps`, `IntServer`. The last is
an assumption about the Amiga: the emulator itself would raise the interrupt in
`a314_process_events`, which nothing calls. epoll
returns every ready descriptor in turn, so the pipe is read even if clients are
always ready: strong fairness of `PiIrq`. Applications, clients, resets and opening
the device are not fair. `A314Channels`: weak fairness of the driver's and the Pi's
steps, which is what `link_live` provides, up to lost wake-ups.

`IrqDelivery`: the CPU thread's loop, the IPL thread and the keyboard thread's raise
are scheduled (weak fairness); vertical blanks keep coming, 20 ms apart, so
that the core has followed one before the next (weak fairness of `Request(3)` with
its guard). The Amiga's servers run if their level keeps being delivered, and the poll
of the keyboard thread, whose time-out has nothing to do with the interrupts, does
not always end in the moments when level 2 was delivered last (strong fairness).
Keys, INTENA and unplugging are not fair. `KeysGetThrough` needs the
vertical blanks: a level is announced only when it differs from the last one
announced, so a raise for which nothing changes is delivered after some other
interrupt has come and gone. It says nothing of behaviours in which the core stays
at another level than `last_last_irq`: the pause key writes 7 and a reset writes 0
to the core without it, and if a request was announced and not yet served at that
moment, its level is never told again.

`MemoryMap`: the emulator loads its configuration and Kickstart goes on with AutoConfig
(weak fairness of `Starting`); resets, configurations and other accesses are free to
happen, and `BootEnds` is about behaviours in which resets and new configurations end:
from some time on the Amiga is booted, whatever the boots before left behind.

## Findings

Three disagreements between code and what it says of itself, each a violation run:

- `channels_restart_connect`: `task_start` leaves the rings as they are, and a CONNECT of
  the session before a reset makes the emulator exit at the new session's. For
  the same reason `SendQueueSound` and `ResponseExpected` hold within a session only: a
  response left in R2A answers a CONNECT that still waits in the send queue ("Was in
  send queue but has nothing to send") or is taken for the real one ("received a
  CONNECT RESPONSE even though no connect was pending"). That is why
  `channels_restart` checks less than `channels`.
- `a314_alone`: `a314/README.md` says that one line enables the A314; with that line
  alone its registers are not reached, because `adjust_ranges_amiga` leaves the A314 and
  the interaction device out. With PiSCSI configured before them they are inside its range,
  which is why `memory_map` can check `IoBoardsReached`.
- `piscsi_block_size`: the driver counts a SCSI transfer in blocks of 512 bytes, the
  controller in those of the drive. `UndisturbedIsExact` is therefore about drives with
  512-byte blocks where SCSI commands are concerned (`Direct`).

What the models have in them that no document denies is recorded by a history
variable or named in a property. `missed`: `IntServer` reads events away while the task
has them disabled; a round that appends exactly 256 bytes leaves the 8-bit tail where it
was. `overlap` of `KeyQueue`: a wheel event and a key are put into the same cell. `Fresh`
of `MemoryMap`: the core's caches keep freed memory after another configuration was
loaded. And a Zorro II memory board that is told to shut up is mapped at the address
of an earlier boot, or at 0 after the first.

## What is proved

For every ring size N > 1, every set of packet sizes from 1 to N - 1 that
contains the header's, and every bound (assumptions `RingSizeAssumption` and
`LinkAssumption`, evaluated by TLC in every run):

- `LinkTypeOK`: `Spec => []TypeOK`.
- `RingsNeverOverrun`: `Spec => []RingAccounting`. The inductive invariant is
  `R2AInv /\ A2RInv`: besides the accounting itself it says how stale a cached
  pointer can be. The Pi's copy of the Amiga's head lies between the head it will
  find and its own tail, so the room it computes is never more than there
  is; the Amiga's view of A2R is the same with the roles exchanged; between
  `PiFlush` and `PiWriteTail` the published tail lags behind the Pi's own. The proof
  goes action by action, with lemmas on modular differences (`UsedCases`,
  `UsedAfterAppend`, `UsedAfterConsume`, `UsedDifference`).
- `TaskNeverSleepsDeaf`: `Spec => []NeverSleepsDeaf`. Its invariant `ListenInv` follows
  the chosen events from `TaskCheck` through `TaskEnable` to the wait, and says
  that `IntServer` disables events only together with a signal.
- `QuietDelivers`: `Spec => []QuietMeansDelivered`: when both sides rest, no packet is left
  that fits, but for the wake-ups in `missed`. `RaiseInv` says of every pointer the Amiga
  moved that the Pi has seen it, will look again, or is about to be told; `TaskDoneInv`
  says the same of what the Pi moved; `PiDoneInv` that the Pi rests only when it can
  do nothing more. Two pointers the Amiga moves in one round are told together,
  so that each part has to say at which steps of the other side it is still looked at.

For any number of connections and sockets, any ring sizes and amount of data, and either
way of starting a service (`ChannelAssumption`):

- `ChannelTypesHold`: `Spec => []TypeOK` of `A314Channels`, and `PiQueueStaysSound`:
  `Spec => []PiQueueSound`, in every session. The types need that a socket waits for one
  thing at a time (`OneRequest`), or `DriverSend` would have two packets to choose from;
  the death of a client, which rebuilds the send queue, needs lemmas on sequences in
  growing order (`InOrderMembers`, `RequeuedMembers`).
- `ChannelsAreFair`: `Spec => ChannelsTakeTurns`, in every session and however much each channel
  has to send. A queue is compared by who is before whom: `AheadAppend`, `AheadTail`,
  `AheadRemove` and `AheadRequeued` say what the operations do to it, and the steps that
  touch the Pi's queue are reduced to them (`EnqueueTurns`, `FlushTurns`). Only the
  flush puts packets into R2A (`OnlyFlushSends`). A channel that is given up is told from
  the others by its packets: they are not its old ones with more behind them (`GivenUpLost`).
- `DriverQueueSound`, `ResponsesAreExpected`, `ConnectsFindNoChannel`, `PiIsTold`, `DriverIsTold`:
  `SendQueueSound`, `ResponseExpected`, `ConnectFindsNoChannel`, `PiLearnsOfClose` and
  `DriverLearnsOfClose`, each as `Spec => [](FirstSession => ...)`. A reset leaves the packets of
  the old session in the rings, and then the first three do not hold (see Findings); with
  `MaxSessions = 1` every state is one of the first session. None of the five is inductive.
  `FirstInv` says of each connection how its socket, its place in the send queue, the kinds of
  its packets in either direction, its channel and its client fit together (`Fits`):
  the CONNECT is in one place at a time and first (`ConnectInv`, `A2ROrder`), it is answered once
  (`R2AOrder`), and whoever has ended its side has told the other, or is about to (`CloseInv`).
  Kinds of packets are enough: one lemma for each thing that can happen to a connection (`FitsNew`
  to `FitsGivenUp`) says that it still fits, and the steps of the specification are
  reduced to these.
- `SocketsAreFair`: `Spec /\ []FirstSession => SocketsTakeTurns`: the same of the driver's send
  queue. It needs `FirstInv`, as an old session's response would let a socket queue twice.
- `ClientStream` and `AppStream`: `Spec /\ []FirstSession => StreamToClient` and `=> StreamToApp`:
  `A314Channels` implements `A314Stream` in both directions, with `wrote` and what the clients
  were told as the ends of the one stream, what they sent and `seen` as those of the other.
  `OneSession` shows that `MaxSessions = 1` implies `[]FirstSession`. A reset begins new
  streams under old ids, so that nothing of the kind holds across it. To the
  invariants above `Flows` adds, for each connection and each direction, where the
  pieces of its stream are (`Piping`). The packets on the way (in A2R; in R2A and then in the
  channel's packet queue, `Way`) are pieces that were sent, in the order they were sent in
  (`From`), whatever becomes of the connection. As long as the reader listens they begin with the
  piece after the last it got (`Gapless`) and end with the last that was sent (`Full`), so
  that the next packet is the next piece and none is lost; on the Amiga's side the socket's
  receive queue counts as got. The writer has ended its stream only when its flags say so
  (`WriterInv`, `SenderInv`), and a connection not yet asked for has no stream (`NewInv`).
  A channel that is given up loses packets from the end of its queue on (`Cut`); what is
  left stays in order, and `Full` is no longer asked for. The lemmas about a packet appended to a
  queue, taken from it or moved on (`PieceAppended` to `AmigaCut`) know nothing of the
  specification; one lemma for each action (`AppConnectPipes` to `StartedPipes`) reduces it
  to these and shows which step of `A314Stream`, or none, it takes in each direction.

For every size of the key ring and every limit from 1 to below that size
(`KeyQueueAssumption`):

- `QueueTypeOK`: `Spec => []TypeOK` of `KeyQueue`; positions and counter keep their width.
- `KeysStayInOrder`: `Spec => []KeysInOrder`, and `CountTellsContents`: `Spec => []CountIsContents`.
  Both follow from `QueueInv`: until something is lost, the counter is the number of
  keys put in and not taken out, positions are the lengths of the histories modulo the
  size of the ring, a step ahead while a thread is between its steps, and every waiting key is in its
  own cell, because fewer than `Cells` wait (`ByteApart`).
- `NoWrap`: `Spec => []CountNeverWraps`. The counter itself does not
  tell that an update based on an old value is harmless; the inductive `WrapInv` adds
  that, until two producers meet, what a thread that puts a key in loaded below the
  limit stays below it, since no other adds, and that what the CPU thread loaded above
  zero stays above, since only it takes away, lost updates included.

For any number of queued keys (`IrqAssumption`):

- `IrqTypeOK`: `Spec => []TypeOK`.
- `IrqLevelMatches`: `Spec => []LevelMatches`. `LevelMatches` is silent while a thread changes
  `emulated_irqs`; `LevelInv` says what each half of a change leaves behind: unless they
  overlap, a raise has set the interrupt before it compares, and a clear has taken it away
  before it settles the level. `RaiseInv` is the keyboard thread's own order.

For every list of boards, items, set of assignments and size of the tables
(`RangesAssumption`, `MapAssumption`):

- `BoardsAsProbed`: `Spec => []WritesReachProbedBoard`; the property is inductive as it
  stands.
- `RangesOwn`: `AllPlaced` implies `Spec => []RangesOfTheirOwn`. `AllPlaced` says that no memory board is told to shut up:
  such a board is mapped at what is left in `ac_base`, which may be another's address.
  The inductive `RangesInv` says that every place of a table belongs to this configuration,
  to a board at the address the Amiga gives it or to a ROM at its own (`TablesInv`),
  where the places in the lists are (`PlacesInv`), that what was written of an address so
  far is that part of it (`PartsInv`), and that the write goes to the probed board. Since
  assignments are injective, a hit at a board's address is the board's own.
- `MapTypeOK`: `Spec => []TypeOK` of `MemoryMap`; the places in the lists (`PlacesInv`) bound what
  is written to them.
- `RamWorks`: `AllPlaced`, `RamClear` and `StraysClear` imply `Spec => []ConfiguredRamWorks`; and
  `RegistersReached`: `AllPlaced`, `StraysClear` and `PiscsiFirst` imply `Spec => []IoBoardsReached`.
  The inductive `WorksInv` adds to `RangesInv` what each look-up holds: the tables lack no
  configured board while there is room (`FilledInv`), the map has every item where the file
  or the Amiga put it (`MapInv`), an address of a board is one that some boot gave it, in
  whole or in part (`IoInv`), caches come from tables of this configuration or an earlier one
  (`CacheInv`), and the platform's range is that of the map once the window is closed
  (`LimitsInv`). What these theorems ask of the addresses is what the code leaves to the
  configuration and to the Amiga: no memory at 0 or over PiSCSI's fixed address, nor
  where an item that is found first has its address (`RamClear`: `handle_mapped_read`
  takes the first that matches); no board where a board without an address in this
  boot had one in an earlier one (`StraysClear`: the base addresses survive a reset); PiSCSI
  configured, and before the other boards (`PiscsiFirst`: `adjust_ranges_amiga` begins the
  range there, see `a314_alone`). TLC evaluates them for the addresses of every run
  (`MCAddresses`).

For all tasks, requests, drives, image and block sizes, word lengths (`DriveAssumption`):

- `PiScsiTypeOK`: `Spec => []TypeOK` of `PiScsi`.
- `NeverDividesByZero`: `Spec => []NoDivisionByZero`. Its invariant `DriveSelected`: once any task
  is past its first access the selected drive has an image, because every program
  begins by selecting the requester's.
- `ExactUnlessTorn`: `Spec => []UndisturbedIsExact`. The inductive `SoundInv` says that images only
  grow, that a request under way has no outcome yet, and, for each access it has made,
  that the register still holds what the access left, as long as the task is its last
  writer. `BlocksInside` is the arithmetic: a block number that passed the driver's
  32-bit check is inside the image.

Only model-checked: everything under
fairness, as liveness and ENABLED are beyond the proof system: `R2AIsReceived` and
`A2RIsReceived` of the link, `SocketsGetTheirTurn` and `ChannelsEnd` of the channels, `KeysGetThrough` of the interrupts and `BootEnds` of the memory map.

## Not modelled

The contents of packets and the data copy into the rings (a packet is written
before the tail that publishes it; the emulator runs on hardware with weaker
ordering, which the code does not order either); memory access messages of
clients; SIGTERM; socket errors; stream ids that come round. Of the emulator's threads: starting, stopping and
quitting, the keyboard's reset key, mouse events, real interrupts of levels 1, 4 and 5,
INTENA's master bit (which `ipl_enabled` ignores: interrupts the Amiga switched off by
it alone are modelled as a program that does not serve them), wheel events in
`IrqDelivery`. Of the memory map: kick13, the entries that `cpu_slot_ram` and WTC RAM
put into the core's tables beside those of the boards, accesses of words and longwords (a
wide write to the A314 is refused), the ranges of RTG, sound and network,
register items, mirrors and the overlay, moved slow RAM, the limit of 16
boards, `remove_z2_pic` and `m68k_remove_range`, which nothing calls, the code
translation cache, and the second configuration window at FF000000 with the registers only it
would use (it is outside the platform's range). Of PiSCSI: everything the boot ROM does (copying the driver,
partitions, file systems), reading an image's partition table again at a reset, the
errors of reads and writes, whose results the code does not look at. And the components marked "not modelled" in
`PROJECT.json`, with their reasons.
