# A TLA+ verification of uReticulum

uReticulum is a C++ implementation of the Reticulum networking protocol for
microcontrollers: a protocol library (`src/src`, `src/include/rtreticulum`), a
small hardware abstraction (`src/port`) and a firmware for the Heltec V3 board
(`src/firmware/heltec_v3`). This directory models its protocol and concurrency
in TLA+, checks the models with TLC on small instances and proves the most
important invariants with TLAPS for every instance. Paths below are relative
to the repository's root, which the file `PROJECT.json` calls `src/`.

Contents: [the system](#1-the-system), [the modules](#2-the-modules-and-the-code),
[the runs](#3-the-runs-and-what-they-show), [fairness](#4-fairness),
[the proofs](#5-what-is-proved), [disagreements](#6-where-code-and-documents-disagree),
[what is not modelled](#7-what-is-not-modelled), [the plan](#8-the-plan).

## 1. The system

A node is a set of *destinations* (an identity and a name), *interfaces* (LoRa,
TCP, loopback) and one static class `Transport` between them. Everything meets
in `Transport::inbound`, which every interface calls with a received frame while
holding one recursive mutex, and in `Transport::broadcast`, which hands a frame
to every interface but one.

| Component | State it keeps | Operations | Talks to | What is hard | What makes it correct |
|---|---|---|---|---|---|
| Transport (`src/transport.cpp`) | `_interfaces`, `_destinations`, `_path_table`, `_seen_announces`, `_links`, one lazily created recursive mutex | register / deregister, `inbound` (ANNOUNCE, DATA, LINKREQUEST, PROOF), `broadcast`, `clear_paths`, `reset` | called by interfaces, destinations, links; calls interfaces, `Identity`, link and packet callbacks | copies of a frame by several ways, in any order, garbled or lost; calls from two tasks; forgotten state | an announce is acted on once; hop counts are lengths of ways that exist; routes lead home; the flood reaches all; one task at a time |
| Link (`src/link.cpp`) | status, both ephemeral keys, session key, MTU, callbacks | `request`, `validate_request`, `on_proof`, `send`, `send_with_context`, `on_inbound`, `handle_request` | Transport's dispatch, the firmware's link request handler, request handlers of destinations, Resource | duplicates of a handshake frame, proofs that are late, wrong or lost, reboots of one end | ends agree on the key; key and MTU are what was signed; an established link is not touched by old frames; the handshake and requests end |
| Resource (`src/resource.cpp`) | sender: status; receiver: id, sizes, map of chunks, status | `send`, `receive`, `on_chunk` | a Link's packet callback and `send` | no acknowledgements: loss, duplicates, overtaking, two resources on one link, chunk arithmetic | `on_complete` gets exactly one whole payload |
| Reticulum loop task (`src/reticulum.cpp`) | atomics `_running`, `_stop_requested` | `start`, `stop`, `is_running`, `run_once`, `task_entry` | HAL's task spawn, `loop()` of every interface | calls from any task between any two accesses; spawn fails | one loop at a time; a start is not undone by an old stop; `_running` is never left set |
| HAL (`port/*`) | tasks, mutexes | spawn, delay, recursive lock, clock | used by all | a FreeRTOS task must not return | primitives |
| Destination, Identity, Packet | names and handlers; known destinations; header fields and hash | `announce`, `register_request_handler`, `recall`, `validate_announce`, `pack`, `unpack` | Transport, Link | what the hash covers decides what is a duplicate; name hash and hash are computed apart; the constructor cuts what is too long | a packet and a link are known by the same hash over any route; an announce reads back as it was made |
| MsgPack (`src/msgpack.cpp`) | writer: the output; reader: a position | six writers, six readers, `skip` | Link's requests and responses | several widths for one value; a reader that skips what it does not know; a buffer that ends early | the reader stays in step with the writer |
| Interface, loopback | name, on/off | `handle_incoming`, `send_outgoing` | Transport | the loopback re-enters `inbound` | part of Transport's |
| LoRa interface (`firmware/.../lora_interface.cpp`) | transmit queue of FreeRTOS, interrupt flag, radio mode | `send_outgoing` (any task), `poll` (main task), `send_raw`, parameters | Transport, the radio driver | a bounded wait under Transport's lock; every exit of `poll` must rearm the radio | the radio listens between polls; nobody waits for ever |
| TCP interface (`firmware/.../tcp_interface.cpp`) | `_sock`, `_connected`, `_reconnect_at`, HDLC parser | `loop` (connect, receive, parse), `send_outgoing`, `disconnect` | lwIP, Transport | a connection that breaks at any byte; a pool of ten sockets; two tasks in one unlocked object | frames up are frames sent; no socket is lost; it reconnects |
| RNode KISS core, BLE bridge (`firmware/.../rnode_*.cpp`) | KISS parser, radio parameters; byte ring, connection | feed, dispatch, emit | host over UART or BLE, LoRa interface | ring between two tasks, connection changes in the middle of a frame | frames in are frames out |
| Firmware main loop (`firmware/.../main.cpp`) | identity in NVS, `g_out_link`, `g_hello_sent`, button flag, timers | boot, announce timer, button, `on_announce`, hello, polling | all | what runs on which task; what is never retried; a reset in the middle of storing; its own announces coming back | node lives, comes round, keeps its identity, says hello to another board |
| WiFi station (`wifi_sta.cpp`), OTA (`ota_update.cpp`), display (`oled.cpp`) | `g_connected`; nothing; up and suspended | `init`, event handlers; `pull`; `init`, `suspend`, `resume` | main loop, ESP-IDF's event task | an association that fails or is lost at any time; a press while the display is dark or WiFi is down | WiFi comes back; a press lights the display |
| NomadNet node (`firmware/.../nomadnet_node.cpp`) | two page handlers | `start`, two generators | Destination, Transport, Link | replaces a global handler; reads Transport's tables from another call | pages are served |
| Bytes (`include/rtreticulum/bytes.h`, `src/bytes.cpp`) | per handle a shared buffer and a flag that it is the only owner | copy, assign, append, slice, `+`, `[]`, `writable`, `resize`, comparison, digits | used by all | the flag is cleared through const references; returned, empty and null contents | a handle behaves like a value of its own; keys of tables are ordered |
| Cryptography, memory, log, utilities | — | — | — | see section 7 | — |

How they interact. A received frame goes interface → `Transport::inbound` (the
lock is taken and held to the end) → one of: the announce branch (validate,
replace the path, call `on_announce`, `broadcast` with one hop more), a local
destination's packet callback, a link's `on_inbound` (decrypt, packet callback
or request handler, which may `send` and so `broadcast` again), the link request
handler (which creates a link and sends its proof), or forwarding along the path
table. Everything the callbacks do happens inside that call. The firmware has
two tasks: the Reticulum task polls every interface's `loop()` (the LoRa
interface's does nothing), and the main task announces, polls the LoRa radio
and, once more, the TCP interface.

## 2. The modules and the code

Every definition that models code is listed with its lines in the `map` of
`PROJECT.json`. Definitions named `<definition>_<fault>` are plausible faults of
that definition; they are used nowhere, and each is paired in `PROJECT.json`
with the property that rejects it.

| Module | Models | Kind |
|---|---|---|
| `Transport` (`MCTransport`, `TransportProofs`) | a mesh of nodes: announces, path tables, DATA | state machine, instances, proofs |
| `Link` (`MCLink`, `LinkProofs`) | handshake and encrypted traffic of links between two nodes | state machine, instances, proofs |
| `Resource` (`MCResource`, `ResourceProofs`) | chunked transfer over one direction of a link | state machine, instances, proofs |
| `ResourceTransfer` | what Resource promises | abstract specification, implemented by `Resource` |
| `ReticulumTask` (`MCReticulumTask`, `NodeTasksProofs`) | `start`, `stop` and the loop task | state machine, instances, proofs |
| `TcpInterface` (`MCTcpInterface`, `TcpInterfaceProofs`) | the TCP interface, lwIP's pool, the upstream node's bytes | state machine, instances, proofs |
| `FrameChannel` | a channel of whole packets in order that may break | abstract specification, implemented by `TcpInterface` |
| `NodeTasks` (`NodeTasksProofs`) | the two tasks of the firmware with Transport's lock, the LoRa queue and the radio | composition of tasks, instance by cfg, proofs |
| `Bytes` (`MCBytes`, `BytesProofs`) | byte strings with copy-on-write | state machine over pure functions, instances, proofs |
| `MsgPack` (`MCBytes`) | a MessagePack writer and a reader of what it wrote | state machine over pure functions, instance |
| `Packets` (`MCBytes`, `BytesProofs`) | one packet from the call that builds it over its relays to its reader | state machine over pure functions, instance, proofs |
| `Firmware` (`MCFirmware`, `FirmwareProofs`) | `app_main` in node mode from reset to reset, with flash, WiFi, button, display and outgoing link | composition of tasks, instance, proofs |
| `ByteValues` | what Bytes promises: independent values | abstract specification, implemented by `Bytes` |
| `RNodeBle` (`MCRNodeBle`, `RNodeBleProofs`) | RNode mode over BLE: the byte ring, the KISS core, notifications, the radio's settings | state machine, instances, proofs |

**Transport.** State: per node `interfaces`, `destinations`, `path_table`,
`seen_announces` and `known` (Identity's `_known_destinations`), and the set
`air` of frames in flight from interface to interface. `inbound` holds its mutex
from the first line to the last, so a received frame is one step
(`ReceiveAnnounce`, `ReceiveData`); `NodeTasks` is about that lock. An announce
packet is one model value, and `form` says how a frame of it reads now: as it was
`Sent`, `Broken` where a signature or ciphertext covers it, or recast (`Recasts`) in a byte
that is hashed and not signed (the context byte). The hash of a frame is its packet
and its form, and leaves the hop byte out (`Packet::get_hashable_part`). Who hears whom is a
constant: point-to-point links, or radios that all hear each other. `Lose`,
`GarbleHops` and `GarbleContent` are the medium: no check covers the hop byte, so a frame with
a false one is taken, recorded and relayed; `misread` remembers whose it was. `Churn` is
deregistration, `clear_paths` and `reset`. `accepted`, `delivered` and `misread` are history.

**Link.** Two nodes, an initiator "c" and a responder "s", and `Shared`
interfaces they have in common: each frame is broadcast, so it can arrive once
per common interface. Cryptography is symbolic: a link id stands for the
initiator's ephemeral keys, a responder's key is a number that grows with each
request, a session key is the pair, and a frame decrypts under its pair only.
Frames may be lost, cut, garbled; MTU bytes may change, be cut off or be added, which leaves the
link id as it is and, in a LINKREQUEST, nothing checks (`OtherMtu`). `local` is
`_local_mtu`, what the initiator advertised. Either node may reboot and lose its RAM. A
failed decryption throws through `inbound` and aborts the firmware (`Abort`).
The two link request handlers (app_main's and NomadNet's) differ in the packet
callback, hence `handler`.

**Resource.** A chunk is the interval of payload bytes it holds, with the sizes
of `resource.cpp` kept as numbers. Each common interface is a queue, in order,
that may lose a chunk; the same chunk may come over each. `Takes`, `Store`,
`Assembles` and `Settle` are the parts of `on_chunk`; `Arrive` is the whole of it.

**ReticulumTask.** Every access to an atomic is a step. `owed` and `asked` are
history: a start past its clearing of the request that nobody stopped since, and
a stop of a running loop (`raced` if it fell in start's window, see section 6).

**TcpInterface.** A step is what a task does between two calls into lwIP.
`disconnect()` is two steps, `close(_sock)` and then `_sock = -1`, because
another task can run in between. Bytes are real bytes (0 to 255), since escaping is what
the parser is about. Sockets are numbered by the pool and numbers are reused
after close, as descriptors are. The parser's state survives a disconnect, as in the code.
There are two next-state relations: in `Next` tasks interleave at every such step, which is what the
firmware's two pollers can do; in `NextInTurn` a task that is inside `loop()` or `send_outgoing()`
(`Inside`) finishes before another enters, in any order of tasks. No code enforces the second.

**NodeTasks.** `at[t]` is where a task is in its call, `lock` the mutexes with
owner and depth, `mine[t]` the mutex a task got hold of. The mutex is created by
the first caller in two steps, test and create. `Broadcasts` takes the lock again
inside `inbound`, `Snapshot` leaves that one level. `Enqueue` and `WaitTimesOut`
are `xQueueSend` with its 100 ms. `radio` is the mode of the SX1262. `StartReceive` may be
refused, which the code does not look at; `refused` says that the last command to the radio was
such a one.

**RNodeBle.** The NimBLE task's steps are the cases of `gap_event_cb` and the
two halves of `nus_access_cb`'s loop: it fills a slot (`StoreByte`), then moves the head
(`Publish`). The bridge task reads a slot (`Drain`), then moves the tail and feeds the
byte to the parser (`Consume`, which is `feed_byte` and, at the end of a frame,
`handle_frame`). `Handled` gives the possible outcomes of a frame, since RadioLib
may take or refuse a setting; a parameter's value is the bytes of the command. `SendFrame`,
`Cut` and `Notify` are `ble_tx_sink`, with the connection read anew each time, as
in the code. `conn` is the connection handle with a number of its own for each
connection. The central decodes what it is notified of with the same
framing. The loop calls `poll_lora`, which does nothing (section 6).
Only the ring's indices are `volatile`; the model takes the accesses of
each task to ring and index in program order, as the in-order cores of the ESP32-S3 make them
when the compiler leaves the order alone.
The UART transport runs the same core from one task and is not modelled.

**Bytes.** A handle is a variable of type Bytes with its `_data` and
`_exclusive`; `heap` has the buffers' contents, and a buffer without a handle is
freed. `exclusiveData` is `Write`'s choice of a buffer. `Returned` is a value
that a call returns: constructed in place, it owns its buffer; assigned from a
temporary, it does not, although nobody else has it, and is copied once more when written.
`Plus` leaves the flag of its left operand cleared. Digits are characters, read
and written by the arithmetic of the code.

**MsgPack.** Each call of the writer and the reader is an operator on byte
strings; a position is what the reader is. An integer is its eight bytes, since
TLC's integers are too narrow, so a width is chosen by the leading bytes, which are
all equal where the code compares with a power of two. `Skip` is `skip()` as a function of position and count. The
state machine packs some values, may cut the end off, then reads or skips them
one by one (`ReadNext`, `SkipNext`). `ReaderInStep` compares the position with `Ends`,
where the calls end by the lengths of what was packed; which calls make up a skipped value is said
by the format (`Open`: an array's elements are still to come), not by `Skip`.

**Packets.** A byte is a number or one place of an opaque string: a hash, key,
signature or ciphertext is equal to another only if it was made from the same.
`Built` is what `Destination::announce`, `Link::request` or a DATA packet
put on the air, `PassOn` a node of this stack, `ToRelay` and `LastHop` a
relay that writes a transport id and one that takes it away, `ReadAnnounce`, `ReadRequest` and `Unpack` the receiver.

**Firmware.** `pc` is where the main task is: eight places of the boot, six of
the loop, or "halted", where a board without a radio parks. `nvs` is the flash,
`unsaved` a blob that was set and not committed: a `Reset` may find it or
not, and loses everything else. `station` and `events` are the WiFi driver and the
handlers' queue on the event task. `out_link` is `g_out_link`, `drawn` the keys that
`createKeys` drew on any boot, `announced` the identities that the mesh heard, and `lost`
counts the flash's failures. A turn of the loop is `TestButton`, perhaps a press,
`SayHello` (with the display before it), `AnnounceTurn` and `EndTurn`; time is
counted in turns, which take a second. Frames come in while the main task polls and, over
TCP, at any time (`Listens`). Transport's lock is left to `NodeTasks`.

Abstract specifications. `ResourceTransfer` has two actions: a payload is
offered when its last chunk was handed to the link, and a receiver delivers at
most one payload, an offered one. `FrameChannel` has three: the far end writes
a packet, the near end hands up the oldest, clipped to its room, and a break
loses a suffix and may leave a beginning of one packet. `ByteValues` has one
operation per kind of call, each of which sets one value. The refinement mappings
are `offered` and `result` in `Resource`, `Transit` in `TcpInterface` (what
the parser holds, and the packets in the bytes it has not read) and `Value` in `Bytes`.

## 3. The runs and what they show

Passing runs:

| Run | Instance | Shows |
|---|---|---|
| `transport` | diamond of 4 nodes, 1 announce, 1 DATA packet, limit 2, 1 fault (loss, any other hop byte, broken or recast content), 1 deregistration / clear / reset | `ActedOnOnce`: between two resets a node acts on an announce once. `PathIsAWalk`: every path's hop count is within the limit and the length of a chain of relays that exists, unless a hop byte was garbled. `RouteNeedsNewAnnounce`: copies, repeats, false hop bytes and announces whose signature fails never move a route. `RoutesLeadHome`: following the paths never leads in a circle. `FloodReachesAll`: without loss every node processes the announce. `DataFollowsRoute`: DATA sent when paths exist reaches the callback. |
| `link_faults` | 2 links, 2 common interfaces, 2 faults, 1 reboot, MTUs none / small / wider than the signalling field | `ActiveAsSigned`: an ACTIVE initiator has a key that a responder session signed, and the MTU signed with it or, where none was signed, the one it advertised. `EstablishedIsFrozen`: an established or refused link does not change until a reboot. |
| `link_live` | 2 links, requests for a served page, 1 common interface, 2 reboots, no loss | `KeysAgree`, `HandshakeCompletes`, `RequestAnswered`. |
| `resource_two_paths` | 3 resources (two of 300 bytes, one empty), 2 receivers, 2 common interfaces, MTU 356 (full chunks) and 301 (reduced), 1 loss | `TypeOK`, `ImplementsTransfer`, `FullChunksFit`, `HookedCompletes`. |
| `task_callers` | 2 callers without bound, 3 loop tasks | `OneLoop`, `StartedStaysUp`, `StopEndsLoop`. |
| `tcp_in_turn` | 2 tasks that poll and send in turn, pool of 2, buffers of 3 and 8 bytes, 3 packets with escaped bytes, 2 breaks, 1 refused attempt | `OwnsItsSocket`, `ImplementsChannel`, `StreamIsDrained`. |
| `node_tasks` | 2 tasks, queue of 2, 3 announces, 3 TCP frames, 3 radio frames, any `startReceive` refused | `TransportIsExclusive`. `RadioListens`: between two polls the radio listens, unless it refused the last `startReceive`. `MainComesRound`. |
| `rnode_ble` | ring of 6 slots, 2 connections, 3 frames (radio off; random, answered with the byte that must be escaped; data of both escape bytes), writes of 4 bytes, notifications of 3 or 5, 1 refused | `SlotsAreStable`: the unlocked ring never gives a slot to both tasks. `CommandsIntact`, `AnswersIntact`: across connections, frames in and out are never joined. `RadioAsTold`, `SubscriberIsReady`. |
| `bytes` | 3 handles, 4 addresses, contents of up to 2 bytes; up to 3 MessagePack values, both ends of every width; announces, link requests and DATA of 2 identities and 2 names over up to 3 relays | `ImplementsValues`: no write is seen through another handle. `KeysAreOrdered`. `ReaderInStep`: any mixture of reads and skips stays in step with the writer, and never passes the end of a cut buffer. `HashIgnoresTheRoute`: packet hash and link id are the same over any route, and of one packet only. `AnnounceReadsBack`: an announce is accepted, as it was made, exactly if its destination was given its identity and the data fit. |
| `firmware` | 2 keys, 1 other board, 1 reset, 1 failure, 1 WiFi loss, announces every 1 or 2 turns | `AddressIsKept`: a reset anywhere costs no identity that the mesh has heard. `LinkIsToAnother`: no echo takes the place of the outgoing link. `HelloIsSent`, `AnnouncesAgain`, `WifiComesBack`, `PressShows`. |

Type invariants are checked in one run (`Resource`) and proved for every other
module that has one (section 5). Two runs end in a counterexample, which section 6 explains:
`link_two_paths`, `tcp_two_pollers`.

Why the bounds are enough for what they are for:

- The diamond is the smallest mesh in which a copy comes back by another way and
  a node has two routes to one destination. A copy that goes round, over one
  relay and the far node to the other relay, arrives there with the limit of 2 hops; were it relayed again, the home
  would record a path of 3. The uint8_t is a counter modulo 4, above the limit, so that wrapping
  would show, and a garbled hop byte can be below, at and above the limit. One announce is in flight, one fault may take or garble any copy of it.
- Two links and two common interfaces make every handshake frame arrive twice
  and let one link's frames meet the other's state. One reboot suffices to leave
  the ends on different sessions; two let each end reboot, or one twice.
- Two chunks per resource with equal sums of lengths: a swapped chunk would add
  up, so only the right one assembles. 356 is the least MTU that takes full
  chunks; 301 makes the chunk smaller and 300 bytes still two chunks; a third
  resource of 0 bytes takes the special case of `on_chunk`.
- Calls of `start` and `stop` are unbounded. `StartedStaysUp` and `OneLoop` could
  fail with two loop tasks; the third slot is for one on its way out.
- One packet needs both escapes and fills the receive buffer exactly; the other
  is one byte longer and fills the transmit buffer exactly. Two breaks allow a
  frame torn twice in a row; two sockets are enough to see one forgotten.
- A queue of two can be full while both tasks want to send; three frames of each
  kind fill it from each side.
- A ring of six holds five bytes: a write of four meets what is left of the one before,
  so the ring wraps and overflows. Frames and answers are longer than a
  write and a notification, so that each is cut; of the payloads, one fills
  `FRAME_MAX` (1 here) and one exceeds it. With two connections, the second finds what the
  first left in the ring, in the parser, in `g_pending_ready` and in a half-sent answer.

- One failure, one reset and one lost association can each come at any step, the reset
  also after the failure; a second key is drawn only on a second boot, so
  there are as many keys as boots. The number of turns until the display goes dark or
  an announce is due matters only as to whether it is over.
- MessagePack values of both ends of each width occur alone if they are long, and short ones in
  any sequence of three, with arrays that hold what follows. The parts of a packet
  keep their order but not their length: a hash of two bytes is as unequal
  to another as one of sixteen. The MDU is set so that an announce with two bytes of
  app data fits and one with three does not. The three state machines of `MCBytes`
  have nothing in common, so one moves at a time.
- Three handles are two that share and a third that takes what was freed or shares as
  well; four addresses are one more than handles, since a new buffer is
  filled before the old one is let go. Addresses are symmetric. Contents of two
  bytes can differ at the first or second place or be a prefix of each other; the digits
  are of both cases, with one too many.

`CHECK_DEADLOCK FALSE` is set where the traffic is bounded and a finished system
may stop: `Transport`, `Link`, `Resource`, `Firmware` (a halted board), `Bytes` with its packets,
and the runs that end in counterexamples. The runs `task_callers`, `tcp_in_turn`, `node_tasks`
and `rnode_ble` check for deadlock.

## 4. Fairness

- `Transport!Fairness`: a link between two interfaces on which frames are in flight keeps
  delivering, in any order, as long as nothing was lost, garbled, deregistered or reset;
  afterwards it owes nothing. No fairness on applications: nobody has to
  announce or send. The properties that need everything to arrive say so (`Disturbed`).
- `Link!Fairness`: each kind of frame of each link on each common interface
  arrives, if it stays in flight. The firmware owes no retry, because it has none.
- `Resource!Fairness`: a loop of `Resource::send` that has begun goes on
  (`next[r] > 0`), and the head of each interface's queue arrives.
- `ReticulumTask!Fairness`: the scheduler runs each task that is ready
  (preemptive FreeRTOS or POSIX threads, `rt_hal_delay_ms` in every turn).
  Callers need not call.
- `TcpInterface!FairInTurn`: each poller polls again (`run_once` every 100 ms, the main loop
  every second) when no other is inside, a
  task inside `disconnect` leaves it, the 5 s between attempts pass. The upstream
  node owes nothing.
- `NodeTasks!FairSpec`: weak fairness of each of the two tasks as a whole. Weak
  is enough because a task that waits for the lock is let in when the holder
  leaves, the holder's wait is bounded by its timeout, and every traffic is
  bounded. With unbounded TCP traffic a starving main task is excluded only by
  FreeRTOS's priority queue on mutexes, which the model does not use.
- `Firmware!Fairness`: the main task and the event task run, and an attempt to associate
  ends, one way or the other. Each is a task or driver of its own that nothing
  here can block for ever. Nobody has to let go of the button, to announce or to answer.
- `RNodeBle`, `Bytes`, `MsgPack`, `Packets` and the `Spec` of every other module are without fairness; only safety is checked of them.

## 5. What is proved

Every proof is for all values of the constants under the modules' ASSUMEs, which
only give the constants their types, order the hop limit below the counter's
size, give the ring more than one slot, and keep packets of both kinds, and the
keys of this board and of others, apart. In `TcpInterface` packets are strings of bytes
(`PacketsAssumption`). `RNodeBle` further assumes that no command of the script is a FEND or the parser's `CMD_UNKNOWN` (`CommandAssumption`):
a host has no such command. `MsgPackAssumption` says that what is packed is a call with arguments of its
type, data and arrays shorter than 2^31 (section 7).

| Theorem | Says | Inductive invariant |
|---|---|---|
| `TransportProofs!TypeCorrect` | hop counts fit, path entries are whole, in every mesh | `TypeOK` itself |
| `TransportProofs!ActedOnOnceHolds` | an announce is acted on once between resets | `ActedInv`: what was acted on is in `seen_announces`, and at most once |
| `TransportProofs!PathIsAWalkHolds` | hop counts are lengths of existing relay chains and within the limit, where no hop byte was garbled | `WalkInv`: a node's interfaces are its own; of a destination whose hop bytes are as sent (`HopsRead`), every announce in flight and every path is within the limit and ends a walk of its length |
| `TransportProofs!AnnounceHopLimitHolds` | nobody sends an announce with more than `PATHFINDER_M` hops, whatever hop byte it received | types and `OwnInterfaces`: a node sends on its own interfaces only |
| `TransportProofs!RoutesLeadHomeHolds` | one announce per destination gives routes without loops, on every mesh, with any hop bytes | `RouteInv`, beside `WalkInv`: a copy in flight was sent by the home or by a node that has a path (`FromRouted`), a path is there only for an announce its node has seen (`OfMade`), and out of every set of nodes with a path one path leads (`Exits`): a node that takes its path points to an older one. Hop counts have no part in it |
| `TransportProofs!RouteNeedsNewAnnounceHolds` | only an announce whose signature holds and that its node had not seen moves a route | `TypeOK`; a step moves a path only where it enters the announce into `seen_announces` |
| `LinkProofs!ActiveAsSignedHolds` | for any number of links, interfaces, MTUs, faults, an ACTIVE initiator has a key that the responder signed, and the MTU signed or, where none was, its own | `SignedInv`: a proof in flight that verifies carries what was signed (`ProofsAreSigned`), a link that waits for its proof has the MTU it advertised (`OwnMtu`), no frame bears the id of a link still to be asked for (`AskedFor`) |
| `LinkProofs!EstablishedIsFrozenHolds` | an established or refused link changes by a reboot only | the same `SignedInv` |
| `LinkProofs!KeysAgreeHolds` | over one common interface (`Shared = 1`), both ACTIVE ends have one session key | `SignedInv` and `OneSession`: a link has one LINKREQUEST in flight until the responder signs, and it signs once per link |
| `LinkProofs!TypeCorrect` | the types of link objects, frames and histories | `TypeInv`: `TypeOK`, and an ACTIVE link has the responder's key |
| `NodeTasksProofs!OneLoopHolds`, `StartedStaysUpHolds`, `RunningIsOwnedHolds` | for any number of callers and loop tasks | `ClaimInv`: `_running` is a lock; it is set exactly when there is a claimant, a start past its exchange or a loop before its last store, and there is at most one |
| `TcpInterfaceProofs!OwnsItsSocketHolds` | if calls of any number of tasks do not overlap, the interface never forgets a socket and is connected only on one that got through | `SocketInv`: every socket in use is `_sock`, and at each place of a task `_sock` is what that place expects |
| `TcpInterfaceProofs!TypeCorrect` | what was received fits the receive buffer; the types, with any number of tasks | `TypeOK` itself; an encoded packet is a string of bytes (`EncodedType`) |
| `TcpInterfaceProofs!ImplementsChannelHolds` | if calls of any number of tasks do not overlap, with room in the send buffer for the frame of as many bytes as the receive buffer holds, the interface is a `FrameChannel`, for any packets, breaks and failures | `ChannelInv`: `TypeOK`, `SocketInv`, and a closed socket has nothing left to receive |
| `TcpInterfaceProofs!FramesIntactHolds` | under the same conditions every frame handed up is a packet or the beginning of one | `ChannelInv`, and every packet of `Transit` and of `handed` is a beginning of one |
| `NodeTasksProofs!TransportIsExclusiveHolds` | never two tasks inside Transport | `LockInv`: before the radio is registered there is one task, afterwards one mutex; its owner and depth are those of the one task at a place under the lock |
| `NodeTasksProofs!RadioListensHolds` | for any traffic, the radio receives whenever the main task is between two polls, unless it refused its last `startReceive` | `LockInv /\ Rest`: only a task that still has to start the receiver, or a refusal, leaves the radio in standby |
| `NodeTasksProofs!TypeCorrect` | the types; the queue keeps to its room and the mutex is taken twice at most | `LockInv /\ Rest` |
| `RNodeBleProofs!SlotsAreStableHolds` | for a ring of any size, the two tasks never use one slot at once | `SlotsInv`: head and tail are places of the ring, and `SlotsAreStable`; the head moves only in front of the tail, the tail only behind the head |
| `RNodeBleProofs!RadioAsToldHolds` | for any script of commands, the host is told the radio's state | `Told`: `RadioAsTold` and the shape of `cfg` and `radio` |
| `RNodeBleProofs!TypeCorrect` | head and tail are places of the ring, no payload outgrows `frame_buf`; the types | `TypeInv`: `TypeOK`, and the types of the central |
| `RNodeBleProofs!CommandsIntactHolds` | for any frames, ring, `FRAME_MAX` and writes, a command that runs was written, or begins one that was | `CommandsInv`, beside `SlotsInv` and `TypeInv`: the bytes in the ring and those yet to be stored are one string; after each of its bytes the parser will hold the beginning of a frame (`Parses`), and at its end it waits for what the central has yet to write (`Resumes`) |
| `RNodeBleProofs!AnswersIntactHolds` | if an answer fits into one notification after the MTU exchange, what a central decodes was sent, or begins what was | `AnswersInv`: what is left of an answer is the end of its frame, and the central is in step with it or outside any frame (`Tracks`); a cut is the whole of it or no longer than the shortest notification |
| `RNodeBleProofs!SubscriberIsReadyHolds` | a subscriber has decoded READY, unless a notification was refused | `ReadyInv`: a central not told yet is being told, and its parser waits for exactly what is left of the frame (`Telling`) |
| `FirmwareProofs!AddressIsKeptHolds` | through any number of resets, the board announces one identity, and one more for each failure of the flash | `AddressInv`: the keys that were announced or that the flash, RAM or the open handle hold, and the next one if it must be drawn, are at most one more than the failures (`Paid`); between setting and committing, flash and handle hold what `Saving` says |
| `FirmwareProofs!LinkIsToAnotherHolds` | unless the flash failed, the outgoing link is to another board | `AddressInv` and `LinkInv`: with no failure all announced keys are the present identity, which `on_announce` leaves out |
| `FirmwareProofs!TypeCorrect` | the types; a key is in place from `createKeys` or the flash on | `TypeInv`: `TypeOK`, and there is an identity in RAM exactly past the load |
| `BytesProofs!ImplementsValuesHolds` | for any handles, buffers, inputs and lengths, `Bytes` implements `ByteValues` | `IInv`: `TypeOK` and `ExclusiveOwns`. Every operation has an `Effect` on one handle: its contents become s, in a buffer nobody else has, or one that holds s already |
| `BytesProofs!ExclusiveOwnsHolds`, `TypeCorrect` | the flag is true to what is shared | the same `IInv` |
| `BytesProofs!KeysAreOrderedHolds` | `compare` orders contents of any length totally | none: the least index at which two contents differ decides |
| `BytesProofs!FrameInvariant` | a packet on its way is the frame of the call, laid end to end, but for hops and what a relay may change | `FrameInv` itself |
| `BytesProofs!HashIgnoresTheRouteHolds` | every relay and the reader hash the same part of a packet | `FrameInv` |
| `BytesProofs!AnnounceReadsBackHolds` | an announce is read as it was written, over any route | `FrameInv`; the parts have fixed lengths, so the cuts fall between them |
| `BytesProofs!ReaderInStepHolds` | for any mixture of packs, reads and skips, integers, data and counts of every width, a reader is in step with the writer; in a buffer cut short it stays inside | `PackInv`: until the end is lost, the calls fill the buffer one after another, the reader stands where one of them ends and read what was packed; afterwards it is within what there is |
| `ResourceProofs!ImplementsTransferHolds` | for any resources, sizes, MTUs, interfaces and losses, `Resource` implements `ResourceTransfer` | `IInv`: what is in flight was sent; a receiver has the numbers of one HEAD and pieces of that resource only, each in its place; a complete one has them all |
| `ResourceProofs!FullChunksFitHolds` | with the constants of `resource.cpp` (256 and 100) no frame of a full chunk exceeds the MTU | `IInv` |
| `ResourceProofs!TypeCorrect` | the types; a receiver holds chunks of its resource | `IInv` |
| `BytesProofs!HexRoundTripHolds` | digits read back, for contents of any length | none: a fact about `FromHex` and `ToHex`, digit by digit |

The named properties are not inductive on their own. A path's hop count depends on
that of announces still in flight, so `WalkInv` speaks of those;
the exclusion of two loop tasks depends on a start that has not yet spawned, so
`Claim` counts it as a claimant; a lock left inside `inbound` by `broadcast`
must leave one level behind, so `LockInv` ties the depth to the place.
An ACTIVE link's MTU depends on proofs in flight, and on what an unproved link
advertised, so `SignedInv` speaks of both; and a reset between two announces is harmless only because
of what the flash holds meanwhile, so `Paid` counts the keys that may still come back.

`SignedInv` rests on the id of a garbled LINKREQUEST being nobody's, as for a hash
over its keys. `Garbled` has it so.

`OwnsItsSocketHolds`, `ImplementsChannelHolds` and `FramesIntactHolds` are about `SpecInTurn`: any number of
tasks poll and send, in any order, but no call of `loop()` or `send_outgoing()` begins inside
another task's. That is what `transport.cpp:51-53` intends of the loop pump, and what a lock around the two calls
would give. The firmware has no such lock (`main.cpp:474`): its two pollers mostly do not
overlap, and when they do, the run `tcp_two_pollers` violates
`FramesIntact` (section 6). `TypeCorrect` holds of `Spec`, with every overlap.
The last two also assume `TxCap >= 2 * RxCap + 2`: the code's 1400 and 600
satisfy it, even for a packet of 600 bytes that are all escaped. A sender that
stops earlier would cut a packet before the receiver does.

The step to `FrameChannel` is an argument about strings of bytes, of whatever length. `Run` is the
parser over a string: over two in turn it is the run over the first and then, from the parser that
leaves, the run over the second (`RunConcat`). A parser that holds something holds the beginning of the next packet it
hands up, or of what a flag would make it hand up (`Grows`); so a string that loses its end hands up
packets that lose their end (`UnparsedCut`, for `Break`). A frame first completes what stood before it and
then, byte by byte, leaves the parser with the packet, clipped (`BufferRun`), so that it
adds one packet at the end (`UnparsedWrite`, for `Write`), or none if there is nothing in it.

`AnswersIntactHolds` assumes `NotifyMax >= 11`: the code's 244, and room for the longest
answer, four bytes each of which is escaped. A longer answer, cut before a disconnection and
notified after the next connection, would lose the bytes between the two sizes, because
`ble_tx_sink` cuts by `g_notify_mtu` before it notifies, and the central may be another by then
(the run of `rnode_ble` has 5, enough for the answers of its script).

The library's induction theorems cannot be used, but a least counterexample can: what
a fold or a recursive function computes is found by taking the least number, or the least
set, at which it would differ (`LeastNumber` and the lemma on `Less` in `BytesProofs`, `TotalIs` in
`ResourceProofs`, which shows that the sum of chunk lengths is the same in every order). In `RNodeBleProofs` it gives
induction over the numbers of one set (`NumberByNumber`), with it the values of a recursive function
step by step (`StepsExist`; both are used in `TcpInterfaceProofs` as well), and with these what the framing rests on: where each byte of a payload is
in its frame (`Layout`), that a parser which has read the frame up to some place holds the payload up to
there (`FollowsOn`), and that it meets a FEND only at the two ends. The three properties on frames follow from that one lemma.
`Skip` calls itself with a count read from the buffer, so its values are found from the end of the buffer
backwards, for every count at once (`WalkExists`): a call always moves on. The same way, skipping m values and then n is
shown to be skipping m + n, whatever the bytes are (`WalkOn`); with it an array of n elements is n
more values to skip (`WalkStep`), and the walk over the calls of one value ends where `ValueEnd` says.

Only model-checked: everything about liveness, which is beyond the proof system (`HookedCompletes`,
`StopEndsLoop` and the others that section 4 is about); `KeysAgree` of two common interfaces does not hold
(section 6).

## 6. Where code and documents disagree

With a run that ends in a counterexample:

1. `link_two_paths`. A LINKREQUEST that arrives over two common interfaces (LoRa
   and TCP, say) makes the responder open a second session with a fresh key
   under the same link id (`transport.cpp:172`, `link.cpp:130`), while the
   initiator keeps the first proof's. `test_link.cpp:18`: "Link handshake
   derives matching session keys on both sides". The next DATA frame throws.
2. `tcp_two_pollers`. Both tasks poll the TCP interface (`main.cpp:474` and
   `Reticulum::run_once`), whose parser has no lock; bytes of one stream are
   parsed in another order. `transport.cpp:52-53` calls the pump "single-threaded by
   design". When calls overlap `OwnsItsSocket` fails as well: a task that closed the
   socket stores -1 after the other has reconnected.

Met while modelling, without a run:

- `type.h:431` says of `PATHFINDER_M` "Maximum amount of hops that Reticulum will
  transport a packet", but DATA is forwarded with hops + 1 and no limit
  (`transport.cpp:200`). In a radio cell where two relays took the announce from
  each other's rebroadcast, their paths point at each other and a DATA packet goes to and fro.
- `resource.h:29-30`: "if the underlying transport drops a chunk, the resource
  fails". No code sets FAILED for it (`resource.cpp:155`): the resource stays RECEIVING for
  ever. `HookedCompletes` is therefore about resources that lost no chunk.
- A node with one radio never relays: the arrival interface is skipped
  (`transport.cpp:267`), while `README.md:28-29` promises "automatic announce
  rebroadcast" over the LoRa mesh. `FloodReachesAll` is therefore checked on links.
- A second announce of a destination that overtakes the first makes routes
  that loop, because a path is replaced whatever its age (`transport.cpp:258`).
  `RoutesLeadHome` is therefore stated for one announce per destination.
- The context byte of an announce is hashed and not signed (`packet.cpp:107-128`,
  `transport.cpp:227-229`). A copy garbled there verifies and has a hash nobody has seen: it is
  acted on again, and its routes can loop with those of the genuine copies: in the diamond the far node
  and one relay then route to each other. `RoutesLeadHome` excludes it (`OneAnnounceSeen`).
- The hop byte is neither hashed nor signed: a false one is recorded and relayed
  (`transport.cpp:255-265`). `PathIsAWalk` excludes it (`HopsRead`); what is relayed stays within the limit
  all the same, and routes still have no loops.
- A LINKREQUEST that loses exactly its 3 MTU bytes has an accepted length and the same link id
  (`link.cpp:72-85`, `118`). The responder uses and signs no MTU, its proof verifies, and the ends are ACTIVE with
  different MTUs, the default and the advertised one; neither end can tell.
- The status of `startReceive` is ignored (`lora_interface.cpp:116`, `133`, `163`): a radio that refuses it
  is deaf until the next transmission ends with another `startReceive`. `RadioListens` excludes it (`refused`) and shows that there is no other way.
- `NomadnetNode::start` replaces app_main's link request handler by one without a
  packet callback (`nomadnet_node.cpp:212`, `main.cpp:312-313`).
- A BODY before its HEAD is thrown away (`resource.cpp:143`), although
  `resource.h:24-26` speaks of seeing every index; and under a reduced MTU a frame can be up to
  12 bytes larger than the MTU, although chunks are "sized to fit the link's
  negotiated MTU" (`resource.h:39-40`): 100 bytes of headroom are too few for
  the padding.
- A stop between `start`'s exchange and its clearing of the request is lost
  (`reticulum.cpp:31-32`, `reticulum.h:34-35`). `StopEndsLoop` excludes it (`raced`).
- The loop's task function returns (`reticulum.cpp:28`), which FreeRTOS does not
  allow; no firmware calls `stop`.
- `broadcast` says that it does not hold the lock while calling interfaces
  (`transport.cpp:97-101`); its callers `inbound` and `process_announce` still do,
  so a full LoRa queue blocks everybody for up to 100 ms. `NodeTasks` has this, and
  `MainComesRound` shows that it is no deadlock.
- `poll_lora` calls `LoraInterface::loop`, a no-op by intention
  (`rnode_bridge.cpp:316-322`, `lora_interface.h:33-36`), so that in RNode mode
  nothing the radio hears reaches the host.
- A full ring drops the rest of a write without a sign (`rnode_ble_bridge.cpp:105`), and
  the frame that was being received goes on with the next write. `CommandsIntact` excludes it (`dropped`).
- `tcp_interface.h:11` says "length-prefixed frames"; the frames are HDLC.

## 7. What is not modelled

- Cryptographic primitives, CRC, the clock, the allocator (vendored TLSF), logging:
  libraries or pure functions without protocol state.
  Their failures are in the models where a caller meets them (a signature that
  does not verify, an HMAC that throws, a spawn or a socket that is refused).
- `TcpInterface::stop`: nothing in the repository calls it.
- What the display and NomadNet's pages say, the pixels and the bus of the display, the
  steps of an update inside ESP-IDF, power management. Of RNode mode's
  `app_main`, only what `RNodeBle` starts from.
- MessagePack lengths from 2^31 on, where `_pos + len` of a 32-bit `size_t`
  may wrap (`msgpack.cpp:134`); TLC's integers do not reach there.
- A torn `std::shared_ptr` (`g_out_link`, `main.cpp:424`): what follows is outside any model of the protocol.
- Garbling that turns a frame into another kind of packet, or changes its destination hash: an announce
  whose destination hash changed fails its signature like a broken one, and other frames would go astray.
- A read of the flash that fails once while its partition is usable (`main.cpp:274-280`).
- A TCP `send` that blocks under Transport's lock, and a half-open connection of which `recv` reports nothing.
- The loopback interface's re-entrant delivery, GROUP and PLAIN destinations.
- Memory as a bound: the tables only grow, and so do the sets of the models.
- The parts that section 8 names.

`PROJECT.json` lists the hazards with the properties that cover them; a hazard
without a property has a note. Further, lesser ones: DATA to a local
destination has no duplicate filter (`transport.cpp:183`); LoRa frames
hold 255 bytes but the queue takes 532 (`lora_interface.cpp:156`); if WiFi is not up
in 15 s the TCP interface is never made (`main.cpp:251`), even if WiFi comes later; new firmware is
marked valid before the radio was ever started (`main.cpp:178`); a path keeps naming an
interface that was deregistered (`transport.cpp:46`); a frame that `poll` could not
read is gone (`lora_interface.cpp:162`).

## 8. The plan

Done, in this order: Transport, Link, Resource, the loop task, the TCP
interface, the firmware's tasks, RNode mode over BLE, Bytes, the firmware from reset
to reset, MessagePack, packets and announces byte by byte; proofs about all state
machines.

Left, in order of importance:

1. Callers that walk Transport's tables without the lock (the Reticulum loop), and the
   loopback's re-entrant delivery.
2. The UART transport of RNode mode, flow control from the host's side.
3. `Transport` with several announces of one destination on meshes with cycles: there
   routes may loop (section 6), and what can be said of them is weaker.

