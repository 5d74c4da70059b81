# A verification project for the network stack and the memcached server

The repository collects Vivado HLS designs: a TCP/IP and UDP stack in hardware
(`src/Acceleration/tcp_ip`), a memcached server in hardware with a memory manager on the host
(`src/Acceleration/memcached`), and numeric kernels (DSP, mathematics, vision). This
directory holds TLA+ models of the parts whose control is intricate: the TCP offload engine (TOE) in
`src/Acceleration/tcp_ip/hls/toe`, the UDP core, the services for IP, ICMP and ARP, and the hash table and value stores of the memcached server with
the host; the runs of TLC that check them on small instances, and theorems about them for all
values of the constants, proved with TLAPS.

Contents: [how the designs work](#how-the-designs-work), [the components](#components-and-what-makes-them-correct),
[the modules](#modules-and-the-code), [the runs](#runs), [what the code does not do](#findings),
[the proofs](#proofs), [limits](#what-is-not-modelled), [the plan](#plan).

## How the designs work

Every `.cpp` file of the stack and of the server holds a few functions of one HLS dataflow region. Each is a
hardware process: it runs on every clock, does at most one step, and keeps its state in
`static` variables. Processes share nothing but bounded FIFOs (`hls::stream`). A function
tests its inputs with `empty()`; a write to a full FIFO blocks it, and since the function is
one pipeline, a blocked write blocks all of it. Every table belongs to one process, which
serves the requests of the others one at a time.

Two consequences shape the models.

* *A step is a call of a function*, up to the point where it may block or where its state
  machine waits for another process. What a call reads and writes without waiting is one action;
  what it does after a wait is another action, and everybody else may act in between. Nothing is assumed
  about the relative speed of processes, so an interleaving of the model may
  be one that the pipeline depths of a certain build exclude.
* *What a process knows is a copy.* The receive engine asks five tables about a segment
  and decides on the answers, the transmit engine sends several segments from one answer of the
  SAR table. What the tables hold may have moved on. Most hazards are of this kind.

The way of a segment: parsing and checksum; a check of its port (port table); a lookup of its
session (session lookup); the connection state with a lock (state table); the SAR tables; the
`rxTcpFSM`, which updates tables, sets and clears timers, notifies the application and fires an event.
The way of an event: event engine, ACK delay, `metaLoader` of the transmit engine, which reads the SAR
tables, sends segments, and sets timers. Timers fire events into the same path, so
does the application, when it opens, closes, or has written data to the buffer in memory.

The way of a frame: `ip_handler` sorts it by protocol, checks its length, version, fragment, sum and address, drops it or cuts off the
padding of the network, and hands it to TCP, UDP or `icmp_server`, which answers pings and quotes packets that nobody takes. A packet that is
sent gets the sum of its header and asks the ARP table for the MAC address of its next hop (`mac_ip_encode`); without one it is dropped and
`arp_server` asks for the address.

The way of a packet through the UDP core: its header, its datagram and the words to be summed part in three FIFOs, and the port
table is asked; all four meet again, by their order alone. The way of a memcached request: the parser, which
separates metadata, key and value; hash, concurrency filter, read, compare and write of a bucket; then, with the entry it found, one of two
value stores; then the merger, and the response, which puts a header in front. Addresses of
values come from the host over FIFOs, and deletes and flushes give them back.

## Components and what makes them correct

`PROJECT.json` lists the source files and the hazards of each, with their lines.

| component | state | operations | hard in it | correct when | status |
|---|---|---|---|---|---|
| state table | state per session, 2 locks, 3 wait registers | read or write by rx engine and tx_app_if, query by tx_app_stream_if, close by the timers | two clients that read, think, and write; a fixed priority among waiting requests; a close that finds a lock | every update is atomic, every request is served, a closed session is announced for release once per close | modelled |
| receive engine: control | lookup state, segment in work | port check, session lookup, `rxTcpFSM` for each combination of flags | decides on copies that are old; repeated, late and lost segments | acknowledged bytes and the peer's bytes are counted once; timers run while something is outstanding | modelled |
| receive engine: payload | words under way, verdicts, notifications | take apart, sum, drop or write to memory, notify | headers that end within a word; verdicts and payload in separate FIFOs | a write gets the payload of its own segment, the application hears of written data only | without checksum arithmetic |
| transmit engine | event in work, copy of the SAR entry | SYN, SYN_ACK, ACK, TX, RT, FIN, RST | several segments for one event; window moves meanwhile; 16 bit differences | nothing is sent that was not written or does not fit the window; nothing is skipped; a segment has one length, address, payload and checksum | modelled |
| SAR tables | ackd, not_ackd, app, window, recvd, appd, flags | requests of rx engine, tx engine, application | three writers | pointers never cross or go back | without congestion window |
| timers | per session: time, retries, kind | set, clear, expire, abort after 4 retries; probe; TIME_WAIT | a timer against a late answer; a sweep that shares its process with the requests | something outstanding is sent again or the session is given up; TIME_WAIT ends | without times and sweep |
| event engine, ACK delay | 4 counters of 8 bits, token FIFOs, time per session | merge three sources, delay and merge ACKs | knows FIFOs only by counters that wrap; one write without a test for space | nothing blocks or is lost, each acknowledgement is sent | modelled |
| session lookup | free ids, reverse table, queues to a content addressable memory | lookup, insert, delete, release | insertions, deletions and lookups of one tuple under way; releases of released sessions | each id is in exactly one place, the memory and the reverse table agree | modelled |
| port table | ports that listen, ports in use, position of the search | listen, find a free port, check, release | two tables answer at their own pace; network and host byte order | answers reach their questions; ports do not run out | modelled |
| application connection interface | state of `tx_app_if`, `rx_app_if` | open, close, listen | three services in one process with priorities | each request gets its answer | without pure forwarding |
| application data paths | rings in memory, pointers, statuses | write, publish; notify, read | accesses that pass the end of the ring; published behind accepted; failing accesses | what is made known is in the ring; a read brings its bytes; unread data is not overwritten before it is asked for | modelled, without over-long writes |
| TOE top level | depths of FIFOs | wiring | cycles of full FIFOs | no cycle can fill | as far as its parts |
| UDP core | open ports, state of eight processes | send, receive, refuse, open and release ports | header, data, sum and verdict in FIFOs of their own; every alignment; lengths without end marks | what is delivered is one packet that was sent; nothing is left behind | modelled |
| memcached hash table | bins, in-flight filter | get, set, delete, flush | several requests of one bucket in work; a filter popped by position | it acts as an atomic table; no address is lost or given twice | modelled |
| memcached value store, splitter, merger | values, filter of addresses, queues | read, write | two ways to one memory; two stores with different speed | whole answers, in order, with no old word | keys of one word, values of two or more |
| host memory manager | pools of addresses, flush state | give and take back addresses, flush | signals that are polled | addresses come back from a flush | the management loop |
| memory models | order of commands | read, write | | | as the memory of the two above |
| IP services: `ip_handler`, `icmp_server`, `arp_server`, `mac_ip_encode` | words and sums under way, ARP table | sort, check, answer, report, address | verdicts, sums and answers of the table in FIFOs of their own; two sources of ICMP messages; every alignment | what is passed on, answered or sent is one packet, whole, and with its own address; nothing is left behind | modelled |
| UDP multiplexer and loopback, DHCP | one packet or exchange at a time | parse, build, merge | | | no |
| TCP echo application, RTL, drivers | | | | | no |
| memcached protocol: binary parser and response | lengths that are left, bytes left over from a word | parse, format | keys and values at any alignment; nothing marks the end of a request; three FIFOs between two processes | a client gets back the bytes that were set | without the ASCII response and statistics |
| memcached adapters | one word at a time | convert | | | no |
| Reed-Solomon, fixed point kernels | none between calls | pure functions | boundaries of widths | equal to a reference definition | no |
| floating point, filters, transforms, images, matrices | none between calls | loops over arrays | | | no |

## Modules and the code

| module | stands for |
|---|---|
| `TcpStates` | `sessionState` and who may write which state: `RxMayWrite` collects the writes of `rxTcpFSM`, `AppCloseWrites` those of `tx_app_if` |
| `StateTable` | `state_table.cpp`: each branch of its if/else chain an action, with the registers it reads and writes |
| `StateTableSystem` | the table with its clients, reduced to their locking protocol: read, wait, write |
| `AtomicSessions` | what clients count on: each update of a session is one step, and each close of a session is announced |
| `ToeSession` | the variables of one connection, `tx_sar_table` and `rx_sar_table` requests, sequence numbers modulo `SeqMod`, the event engine, the three timers and `timerCloseMerger` without their times |
| `RxFsm` | `rxMetadataHandler` and `rxTcpFSM`: `RxLoad` takes a segment and the copies, `RxTransition` is the FSM |
| `TxMetaLoader` | `metaLoader`, each kind of event with each state of its inner machine |
| `AppPath` | `tx_app_if`, `tx_app_stream_if` and `txAppStatusHandler` for one session |
| `ToeConnection` | all of these with the network and a peer |
| `EventPath` | `event_engine.cpp`, `ack_delay.cpp`, and their neighbours reduced to the events they exchange |
| `PortTable`, `SessionLookup` | `port_table.cpp`, `session_lookup_controller.cpp`, each process and FIFO |
| `SessionSystem` | both with their users: `rxMetadataHandler`, `tx_app_if`, and whoever closes sessions |
| `RxPath` | the rest of `rx_engine.cpp`: how a packet is taken apart, and the payload with its verdicts, up to memory and application |
| `RingAccess` | the four functions that break an access at the end of a ring into two: `rxEngMemWrite`, the package pusher of `tx_app_stream_if`, `rxAppMemDataRead`, `tcpPkgStitcher` |
| `RingBuffers` | a ring of a session with its pointers, from either side |
| `UdpRx`, `UdpTx`, `UdpPath` | `udp.cpp`: receive path with port table, transmit path, and both with a network between them |
| `IpHandler`, `IcmpServer`, `ArpServer` | `ip_handler.cpp`; `icmp_server.cpp`; `arp_server.cpp` and `mac_ip_encode.cpp`: each process and FIFO |
| `TxSegments` | the rest of `tx_engine.cpp`: how headers, payload and checksum become a segment |
| `IpServices` | these together, with what they must deliver |
| `McdAtomicTable` | what clients of the hash table count on: requests are executed one at a time, in their order |
| `McdHost` | the management loop of `memManager.cpp` and the address FIFOs of the bridge |
| `McdHashTable`, `McdTableSystem` | `hashTable/*.cpp`, each process; with host and clients |
| `McdValueStore`, `McdValues` | both value stores with their memories, as an index of all variables; with splitter and merger |
| `McdServer` | `requestParser.cpp` in front of these and `binResponse.cpp` behind them, from the bytes of requests to those of answers |
| `MC...` | budgets, packets and requests for TLC; `...Proofs`: theorems |

`PROJECT.json` maps each definition to its lines. Definitions whose comment begins with "Fault" or "A fault" are
not part of a model; each is a plausible bug that a property is known to find.

### State table

The variables are those of the function; a lock (`rxLock`, `txLock`) is `None` or the session,
which joins a flag and a register of the code, and a wait register is a sequence of at most one
request. The order of the branches is kept: a request at a port is looked at before the
register of a request that waits. `rxSeen` and `txSeen` are history: the state a client was handed.
In this module clients do all that their protocol allows; what they
decide is a choice among `RxMayWrite(state)`.

`StateTableSystem!AtomicUpdates` justifies the grain of `ToeConnection`: since locked updates are
atomic, there the state is one variable, which `RxTransition` and `AppClose` read and write
in one step. `rxPkt = <<>>` in `AppOpen` and `AppClose` stands for the lock of the receive engine.

### Connection

One session of the TOE, a wire and a peer. The peer is a correct TCP: it takes segments in order,
acknowledges what it has, never shrinks its window, and is otherwise free: to send, to close, to
abort, to read slowly. The wire towards the peer is a *set* of segments, each of which may be received any number of times,
at any time or never: loss, repetition and reordering without a bound. Towards the engine, a segment is built from the
peer's state when it arrives; the peer may send each of its segments again, and with `Reorder` with any earlier
acknowledgement. With `OldPeer` a SYN_ACK of an earlier connection may arrive. What the application and the peer are going to do is a
*plan*, one of `Plans`, that a behaviour starts with: `MCToeConnection` names the transfer, the teardown, the passive open that is given up and
comes again, the open and close, and the single byte that its runs use. `Reorder`, `OldPeer`, `AppBytes` and the like are fields of the plan.

Sequence numbers are taken modulo `SeqMod` = 16, with initial numbers 13 and 15, so that both
streams wrap around in each run. The engine's 16 bit buffer pointers and 32 bit sequence numbers
are one number here. `Mms` is the maximum segment size, 2.

Each SYN or SYN_ACK that is not a repetition draws an initial number (`Draws`; `ml_randomValue` in `tx_engine.cpp`). The first one is called `Isn`, which
only fixes where the count starts; a later one is any of `Isns` (5 in the run that opens a session again). The peer counts from the
number of the SYN that it took (`irs`).

What it assumes, beside the peer:

* *Time scale.* A timer expires when the engine is `Idle`, i.e. has nothing to do without the
  peer, the application or a timer. The engine's own work takes microseconds, its shortest timer
  50 ms. `Overload` lifts this. In the same way the probe timer does not expire while a FIN is
  unacknowledged, unless `SlowPeer`. No run sets the two: they are there for a reader who wants to see what they let happen.
* *The application* writes and closes on sessions that it knows of (the answer to an open, or a
  notification), and does not close in the middle of a write.
* Memory writes succeed and the send buffer is not full (`RingBuffers` has both); the receive buffer may be full or not for
  each segment, which is a choice.
* Segments that the engine sends carry no acknowledgement number and no window; the peer of the
  model does not need them. `told` records what the application was notified of as a set.
* The congestion window is left out: the peer's window is the only limit, as it is in the code
  when the congestion window is larger.

`AckdNeverBack` is about the time until the peer sends its FIN: the FIN branch of the FSM writes
the acknowledgement without a test of its range, as a TODO at `rx_engine.cpp:899` says. `SentIsWritten` and `WindowKept` are about the time
until the engine sends its own: behind an acknowledged FIN the length at `tx_engine.cpp:206` wraps to 65535, which the model
reaches too. Both are among the hazards.

`SentIsWritten`, `WindowKept`, `NoGaps`, `AckdNeverBack` and what `HandshakeAgreement` says of `ackd` are about sessions that are `OpenedOnce`. A passive
open that is given up is closed (the application is told), and the next SYN of the peer opens it again: its SYN_ACK draws another number and sets `ackd`,
`app` and `mempt` to it, while segments of the first session may still be on their way. If the peer took the first SYN_ACK, and its
acknowledgement comes before the second SYN_ACK is sent, the handshake is completed with the first number; then the second SYN_ACK moves
the pointers of an established session to the second one, which the peer never took, so the two ends count from different numbers. The plan `Reopen` reaches this,
and TLC finds the violation as soon as the premise is dropped. The hazard at `rx_engine.cpp:722` in `PROJECT.json` names it. That the peer has seen a SYN, and that
`recvd` is nothing that the peer has not sent, holds for every session.

### Event path

FIFOs hold events; for the ACK delay an event is an ACK, something that carries one with it
(`DATA`), or something that sends nothing for its session (`BLANK`: a TX or RT without anything to send, or the
RST for an unknown connection, which has session 0). Counters are modulo `CounterMod`. `DelayTake` and `DelayPut` are
the two halves of one call that may block between them. `owed` and `cancelled` are history: sessions with an
acknowledgement due, and those of which a `BLANK` has cleared the timer. That is what the code does, so
`AckUnderWay` excepts it; it says that there is no other way to lose an acknowledgement.

### Session ids and ports

A port number is two digits to the base `Byte` (256 in the code, 2 in the runs), so that the conversion between
host and network order is a real conversion: tuples hold the swapped number, as `tx_app_if.cpp:105`
makes them, and the upper half of the numbers are the free ports. A connection is only alive or closed: a SYN opens
it, any other segment and any timer may close it. The content addressable memory is Verilog; it is an external table that answers
lookups and carries out updates in order. Releases come from `state_table`, also for
sessions that are closed already, because it announces each write of CLOSED.

`tx_app_if` blocks and prefers as in the code: a request of the application, then the reply to
a lookup, then a port. Its close branch touches no session id and is in `AppPath`.

### Received payload

`RxPath` begins with the three processes that take a packet apart. A word is two half-words, since all headers are multiples of four
bytes; a half-word is its packet and its index, so the properties see where each one ends up. Whether a packet is valid, its
port open, and its session known is part of the packet. `rxTcpFSM` is reduced to the choice that `RxFsm` makes, to accept
a payload or not; the flags of a packet tell which branch it takes. FIFOs have one place, the tightest.

The IP handler removes padding, so a packet ends with its payload. A SYN, SYN_ACK or RST has no
payload in the run: `rxTcpFSM` gives no verdict for them (`rx_engine.cpp:808`, `:853`, `:955`), and `rxPackageDropper` would take
the verdict of the next segment for a payload that came with one. That is listed as a hazard.

### Rings

The buffer of a session is a ring of `B` bytes in words of `W`. A byte is its position in the stream, so a byte of another lap
is seen. The two sides differ in the test for space, in how they learn of a second access (`doubleAccess`, or the address), in what
they do with statuses, and in when space becomes free; `side` chooses. Reading is one machine for both sides, as the code has it twice.

On the receive side the space is free from the request of a read on, and not from its end (`rx_app_stream_if.cpp:77`), so a
segment that arrives meanwhile may overwrite bytes on their way to the application. `BytesKeepPlace` has two parts: what is made known is
in place (`ToldIsInPlace`), and answers bring the bytes asked for (`AnswersWhole`), where a byte may be laps later and nothing
else. After a failed access neither side says what is in the ring; `BytesKeepPlace` is about behaviours without, `AccessesFit` and `NeverStuck` about all. A write of the application of more words than its FIFO holds
waits for the state of the session while the FIFO fills, and is left out.

On the receive side a segment is taken by one of two branches of `rxTcpFSM`. The ACK branch tests `free_space` (`Accept`), the FIN branch
(`rx_engine.cpp:897`) takes the payload of an in-order FIN without a test (`AcceptFin`). A peer that keeps to the window it was told never sends more than is free;
nothing in the code enforces this. A FIN beyond the window overwrites bytes that were made known and are not read: each position more than a lap behind
the end of its payload may hold a byte of a later lap. `ToldIsInPlace` admits that and no more (`Overrun`), and it is a hazard at that line.
`written` is without the number that the FIN itself takes, so a FIN without payload changes nothing here. The peer sends nothing after its FIN, which is
an assumption too: the ACK branch would take in-order data in CLOSE_WAIT.

The two copies of the reading machine end differently. `rxAppMemDataRead` counts a last word that is filled exactly; `tcpPkgStitcher` does not, and then sends one
more last word with no byte in it (`Fits`). `AnswersWhole` counts bytes and admits it.

### UDP core

Half-words again. The sum of a datagram is the set of half-words it covers: `SumIsRight` wants the pseudo header and the
datagram, each once, and the packet unspoilt. The receive path is fed by the transmit path of another core
and by other hosts, whose headers may have options. Ports open and close at any time, except one that
stays open, so that something can be said about what must be delivered.

Two cases are outside of the packets of the run, as the code breaks down in them, without a comment that says otherwise. A
header with options that ends with a word has no half-word marked as its last, so the port unreachable message for such a packet
runs on into the next packet (`udp.cpp:192`); and the sum of its datagram never ends when the datagram ends within a word (`:354`).
Such headers come with whole words of payload, for the port that is open.

### IP services

Half-words once more, each the frame it belongs to and its index in it; a half-word that the server changes has its index negated. Fields of
headers are properties of a frame, and a process that looks for one in the wrong half-word reads garbage. A sum is the
half-words that it covers, a checksum that is inserted is named by the packet that it was made of; only for the reply to a ping it is a number, since
`check_icmp_checksum` computes it from the sum of the request. `insertChecksum` keeps the two flags of its sources in an array of one element
(`icmp_server.cpp:372`); what an access beyond it does depends on the build, so the model has the two flags that the conditions
are written for, and says nothing of a build where they share a place. All that will come is in the input FIFOs when a behaviour starts, so each process may
be as far ahead of the others as the FIFOs allow.

Segments of `tx_engine` go the same way out as packets of the application, so `TxSegments` is composed here. What `metaLoader` has written into its
FIFOs is there when a behaviour starts, the payload comes from memory in one piece (`RingAccess` is about pieces). Five streams meet by their order:
lengths, addresses, pseudo headers, payloads and checksums. The checksum is right when it covers the pseudo header and the segment, each
half-word once; the frame that leaves must have the checksum of its own segment.

`FramesLeaveRight` admits any MAC address that the table had for the next hop: the table may learn while a packet is looked up. The table
is a memory outside with a port for updates and one for lookups.

`Taken` says what the node takes, and leaves out what the code drops without a comment that says so: packets with options. With an
odd number of words of options `check_ip_checksum` sums a half-word too much (`ip_handler.cpp:248`; the comment there says "Sum up part 0-2", the loop runs
to 3), and with more than one word it reads half of the address again behind it (`:235`). `RestIsServed` counts the answers to updates that `arp_table` leaves in
their FIFO when it takes an entry and a packet in one call (`arp_server.cpp:204`).

### Memcached hash table and host

A request is in one FIFO after another; `mdBuffer` keeps all that are in work in order. The buckets are an
external memory that does reads and writes in the order of the simulation model. A bucket has two bins in the run, four in the code.
`McdTableSystem!AtomicTable` is the refinement: a request is executed when `memWrite` evaluates it, and what a
bucket holds is what it will hold when the writes on their way are done.

`memManager.cpp` polls, so one step of `McdHost` is a turn of its loop that finds something to do. The
registers for addresses of medium and large slots lead nowhere (`pcie_mem_alloc.v:121`), so there are two pools, DRAM and flash.

`NeverStuck` names three ways in which the code does stop: `memWrite` is lost in MW_EVAL when a key is set again in a
bucket without a free bin (`memWrite.cpp:132`); the host ends itself when its pool is empty, which it takes for an address
returned twice (`memManager.cpp:419`); and the host misses `flushDone` when the next flush takes it back before the
host has looked (`:397`). It shows that there is no fourth.

### Memcached values

The two stores are the same five processes with other widths and three switches: the filter (DRAM only), the order in which the
memory takes commands, and the words of a line. The table is reduced to the addresses it gives: a key keeps its address, a
deleted key's is free. Values have two words or more (`LongValues`): `demux` and `remux` count two words of metadata in every packet, and would
take a shorter value for the start of the next one.

What the properties leave open is what the code leaves open. A get may bring the word of a *later* set, as
`accessControl` only keeps a get behind a set. It may also miss a word: the lines of a later, shorter set are written whole, and
behind the end of its value the last line has what `setValueBuffer` holds there, which is nothing if the value fills one line, since SET_IDLE clears it, and
else words of the value's line before (`PutInLine`, `valueStore.cpp:271`). `Fresh` names both. In the run a value fills one line, so that only the first
can occur; with DRAM values of 3 and 4 words in lines of 2 the second does, and `NoOldWords` still holds (checked apart, the state space is too large for a run).
`MdDepth` is 4, deep enough for a set to overtake a get that waits in front of it (24 in the code). `NoOldWords` relies on a memory
that takes writes before reads, as `dramModel` does; the board design `mcdSingleDramPCIe.v` has separate converters for writes and reads in
front of its memory, of whose order the repository says nothing. The flash store has no filter and its memory takes reads first, so there a get
may overtake the set in front of it; `NoOldWords` is about the DRAM store. `SlotLines` lines belong to each address: the host
hands out addresses 64 bytes apart for all values below 2048 bytes, so that longer values overwrite their
neighbours, and with slots of one line no property of values could hold. A value of exactly `splitLength` bytes gets an address
of the flash and goes to DRAM, and a set that replaces a short value by a long one keeps the address of the short one.

An idle `remux` falls through to the test of the operation with the metadata that it read last. The model leaves this out, since it has no effect: the last word is
a packet's second, whose bits of the operation are zero (`udpShim.cpp:34` sets only the user bits below 96). That reads as a get, so no answer
without a value is sent once more; and for a get there is no value without new metadata in front of it, as `WaitingIsExpected` shows.

`McdServer` puts the parser in front and the binary response behind. A byte is known by the request and place it comes from, so `BytesReturn`
can ask whether the answer to a get is, byte for byte, the value and flags of the last set of the key, with the lengths of that answer, after
any other request. The run has two kinds of behaviours. With `requests = <<>>` the table sends any packets but failed sets, and nobody looks at
the bytes; this is where the stores meet all orders. Otherwise the requests are the bytes of `MCRequests`, and the table is the
atomic one (`mcd_table` shows that it is). Keys are of one or two words, since the model of the stores joins key and
metadata. Every pair of a key of 1 to 16 bytes and a value of 1 to 20 was checked once; the run keeps those next to a boundary.

Two requests are left out, since they spoil those behind them: bp_f has no way out of word 2 for an operation other than
get, set, delete and flush (`requestParser.cpp:80`), and for a set with an empty value it takes the first word of the next request
(`:145`), or, if the key ends within a word, passes on a word that bp_r leaves to the next set (`:134`). The answer to a set that found no space has eight bytes behind its header that the length in it does not count
(`binResponse.cpp:163`, `:236`); `RightAnswer` states what the code does there.

## Runs

All runs end on their own. The sizes are those of complete state spaces.

| run | question | bounds | states |
|---|---|---|---|
| `state_table` | Are updates atomic, and does everything drain? | 2 sessions; FIFO depth 2; 2 segments, 2 application requests, 1 query, 1 time-out | 302,758 |
| `toe_connection` | Do a transfer and a teardown keep their promises when segments and acknowledgements are lost, repeated and late? | transfer: active open, 3 bytes in writes of 1 or 3, window 2, 4 arriving segments, 2 time-outs; teardown: open by either side, a byte each way, each side closes, RST, old SYN_ACK, 3 segments (4 for a passive open), 1 time-out; reopening: a passive open with 2 time-outs, 5 segments, another initial number; 1 retry | 3,367,338 |
| `toe_live` | Are opens answered, does TIME_WAIT end? | open and close; 4 segments; timers without a budget | 117,696 |
| `event_path` | Are the counters true, and is no event or acknowledgement lost? | 2 sessions; depths 2, tokens 1, counters modulo 4; 2 events of the receive engine, one of each other source | 530,028 |
| `session_system` | Are ids and tables consistent, is everybody served? | 2 ids, 4 port numbers of which 2 free, 1 peer; 2 segments, 3 opens, 1 time-out, 1 listen, 4 together | 588,847 |
| `toe_rxpath` | Does each payload meet its own verdict? | 3 packets of 8 kinds; FIFOs of 1 word; 1 notification that waits | 1,517,849 |
| `toe_ring` | Does an access that passes the end of a ring lose, double or misplace bytes? | ring of 9 bytes, words of 3; 2 writes and 3 reads of any length, 1 failure; the last write may be a FIN, which nobody tests for space; 2 starting points; both sides | 1,838,159 |
| `udp_path` | Does a datagram leave as it came, whatever came before it? | 2 packets, each of 6 that are sent or 8 foreign ones; 2 port calls; FIFOs of 1 word, those that hold a datagram just large enough | 2,548,814 |
| `ip_services` | Does each packet leave whole, with its own verdict, sum and address, whatever came before it? | 27 kinds of frames that are received, each with one of 2 or 3 behind it that share its way, and 3 pairs more, 13 sequences to be sent or with ARP, 3 pairs of segments with a payload of 0 to 8 half-words; FIFOs of 1 word, those that hold a packet 3 or 5; sums modulo 32 | 442,637 |
| `mcd_table` | Is the pipelined table atomic, and are addresses kept? | 1 bucket of 2 bins, 2 keys; 2 DRAM addresses, 1 flash; filter of 2; 3 requests, up to 2 flushes; FIFOs of 1 | 398,480 |
| `mcd_values` | Do answers stay whole and in order, and sets in front of gets, and do clients get back their bytes? | any 3 packets, 2 keys, values of 2 or 3 words, 2 addresses; or a set and a get of keys of 3 to 16 bytes and values of 1 to 20, or 3 requests; filter of 2; FIFOs of 1, keys and values of 2, metadata of 4 | 1,297,425 |

What each property says is in the comment in front of it. What the runs show:

* `state_table`: `LocksDisjoint`, `ReadStaysCurrent`, the refinement
  `AtomicUpdates`, and, with fairness, `Drains` and `DeferredCloseHappens`.
* `toe_connection`: `SentIsWritten`, `WindowKept`, `NoGaps`, `AckdNeverBack` about the send pointers, `HandshakeAgreement` about the open, also of a
  session that is opened again,
  `TimeWaitEnds`, `CloseIsTold` (no open connection vanishes without a word to the application).
* `toe_live`: `OpenAnswered`, `TimeWaitOver`. The answer to an open may be the failure after the last retry.
* `event_path`: `CountersTrue`, `NeverBlocks`, `AckUnderWay`, `EventsDrain`. Its deadlock check is on, since the
  sweep of the ACK delay never ends; in the other runs the budgets end, and the system may stop: there `Drains`, `EverythingServed`, the
  liveness of the connection, `RestIsDelivered`, `RestIsServed` and each `NeverStuck` say that it does not stop halfway.
* `session_system`: `IdsAccounted`, `CamMirrors`, `AnswersInOrder`, `EverythingServed`.
* `toe_rxpath`: `PayloadIsItsOwn`, `ToldIsWritten`, `NeverStuck`.
* `toe_ring`: `AccessesFit`, `BytesKeepPlace`, `NeverStuck`.
* `udp_path`: `PacketsKeepApart` (`DeliveredIsSent` and `RefusalQuotes`), `RestIsDelivered`.
* `ip_services`: `PacketsStayWhole` (what TCP and UDP get, and what `icmp_server` sends), `FramesLeaveRight`, `RestIsServed`.
* `mcd_table`: `AtomicTable`, `AddressesAccounted`, `NeverStuck`.
* `mcd_values`: `WaitingIsExpected` (remux joins value and metadata of one packet), `AnswersWhole`, `AnswersRight` (`LongValues`, `NoOldWords`, `BytesReturn`), `NeverStuck`.

**Why the bounds are enough to be interesting.** Two sessions are needed for a lock that is not
in the way and one that is. Most FIFOs between the processes of the TOE are 2 or 4 deep; a depth of 2 lets a FIFO be empty, partly filled, and full.
Three bytes against a window of two with segments of two give a partial acknowledgement, a write that does not fit, and a
probe. One retry gives a retransmission, its reset by an acknowledgement, and the abort. Counters modulo 4 with depths
of 2 and one token are the tightest that `EventPathAssumption` allows, and wrap around within
a run. Three opens with two ids and two free ports run out of both. In `toe_rxpath`,
`udp_path` and `ip_services` a packet can harm a later one only through what it leaves in FIFOs and flags, so pairs and triples of every alignment are
what matters. In `toe_ring` three words make a ring in which an access may touch one, two or all of them, and end in front of,
at and behind the end; the starting points put the first access on either side of it. Two bins, of which
one key may take either, and three requests are enough for a get between a set and its write, for a full bucket and for empty
pools; two flushes for one that comes before the first is done with. Three packets are a set, a get of it and something
between or behind, in either store. Each property is broken by a
fault in the code it is about, within the same bounds (`mutants` in `PROJECT.json`), so none of them
holds because its case does not occur.

**Fairness.** Each function is called on every clock, so what it can do and what stays possible
happens: weak fairness per process. The other six runs of the safety of whole paths state no fairness: their `NeverStuck`, `RestIsDelivered` and `RestIsServed` say that some process can go
on as long as work is left, and every step of theirs takes a bounded amount of work further. Nothing is assumed of the network, the peer or the application. Exceptions:

* `StateTableSystem`: weak fairness of the table as a whole, not of its branches. It needs finite traffic:
  under a constant stream of requests the registers may wait for ever.
* `ToeConnection`: strong fairness for taking timer and application events, which
  wait behind other events, and for timers, which count down all the time although the model lets them expire only
  when the engine is idle.
* `SessionSystem`: weak fairness of all processes together, and of the search for a port, which
  could go on for ever. That is less than the hardware gives; with finitely many inputs it is enough.

## Findings

One run checks what a comment of the code says, and finds that the code does otherwise. `PROJECT.json` quotes the comment.

| run | property | what happens |
|---|---|---|
| `toe_ack_race` | `Delivered` | An acknowledgement is compared with a copy of `not_ackd`. A transmission in between sets the retransmit timer, and the FSM stops it (`rx_engine.cpp:697`): a lost segment is not sent again, the session is not aborted. |

The models show more that a reader of the code should know of, and the properties are stated around it. Each is named by a hazard in `PROJECT.json`:

* a repeated FIN stops the retransmit timer in LAST_ACK (`rx_engine.cpp:895`), and an odd acknowledgement that in SYN_RECEIVED;
  a new acknowledgement stops the probe timer (`:707`) while written bytes wait for the window;
* the FIN of a passive close is placed behind the published bytes (`tx_engine.cpp:335`), so accepted ones that are on their way to
  memory come after it; when a TX event follows a FIN, the difference of pointers wraps (`:129`);
* a SYN_ACK of an earlier connection closes the session (`rx_engine.cpp:872`) without an answer to the open; an open may also be answered twice;
* `free_port_table` frees a port whose number is in network order (`port_table.cpp:121`), and the port of an open that
  gets no session id is never given back;
* payload in a SYN, SYN_ACK or RST shifts all later verdicts; space is free before the read of it is done;
* the cases of IP options and of the answers to ARP updates, and a ping of more than 64 words, for which `icmp_server` has no room
  (`icmp_server.cpp:441`), so that reception stops;
* the cases of the UDP core, of the flush protocol, of full buckets and of address slots told above.

## Proofs

All theorems are about the specifications without budgets (those of `McdTableSystem` for any budget), for all values of
the constants that their assumptions admit.

**`StateTableProofs`** (any set of sessions, any depth of at least 2, any traffic): `TypeCorrect`,
`Invariance` (of `IInv`), `MutualExclusion`, `NoLostUpdate`, `Refinement`. That nobody changes a locked session
is not inductive: it depends on what is still in the FIFOs. `IInv` adds where in its protocol each client can be.
`RxProtocol`: at most one write is pending, at the head of its FIFO and for the locked session; a read is the last
request; the lock is held exactly between the reply and the write. `TxProtocol`: the same, with writes of SYN_SENT that come without a
lock, but never to the head of the FIFO while one is held. The proof has a lemma for each kind of step of
table and clients. For the refinement, a served write or close is an atomic update, everything else a stutter; that a
served write continues the read it belongs to is `IInv`.

**`EventPathProofs`** (any depths and counters with depth + tokens < counter range, any number of sessions, any
events): `TypeCorrect`, `CountersAlwaysTrue`, `EngineNeverBlocks`. Types and counters need each other: a
counter that wraps can be trusted only while the lengths are bounded, and the lengths stay bounded because
the counters are trusted. `Ahead` states a difference modulo the range as three cases, and two lemmas say what an increment on either side does to
it. In the code the counters have 8 bits, the FIFOs 4 and 16 entries (`toe.cpp:609`), the token FIFOs 2.

`AcksStayUnderWay` adds that an acknowledgement that the receive engine asked for is in one of the FIFOs, in `ack_delay`, or already sent.

**`SessionProofs`** (any number of ids, ports, requests and any depth of the FIFOs): `TypeCorrect`, `IdsStayAccounted`,
`AnswersStayInOrder`, `CamStaysMirrored`. Where an id can be, the free list, the requests on their way and the table, is counted, and lemmas about `Count` say
how a FIFO access moves the sum. For the answers of the port check, `OrderInv` gives each answer and each waiting check its turn in
`dst`, so the answer at the head belongs to the oldest question. That CAM and reverse table mirror each other follows from counting the
claims on a tuple (`MirrorInv`): one if the CAM has it and none otherwise, because `LookupInv` and `InsertInv` let one
insert be under way, of a tuple that was not found.

**`ToeConnectionProofs`** (any peer, application, window, number of retries; either end sends, and the peer admits, fewer bytes than there are sequence
numbers, since a number must stand for one position only; any numbers drawn, but not 0). `NothingIsSkipped`, `WindowIsKept`, `OnlyWrittenIsSent`,
`AckdStaysAhead` and the part of `EndsAgree` about `ackd` are about sessions opened once; the rest is about all. So the invariant
`SessionInv` has two parts: `BothInv` for every session, and `OnceOpenInv` for as long as it is `OpenedOnce`. What was told to the application stays told, so a step never makes
`OpenedOnce` true again, and the second part is only ever lost.

* `TimeWaitNeverStuck`: a session in TIME_WAIT has its close timer running or its release under way. `TimeWaitEnds` is
  inductive with the type of `giveUp`.
* `NoSilentClose`: `CloseIsTold` speaks of sessions that are gone, so its invariant `CloseInv` speaks of the time before: nothing has
  happened before the open request (`Untouched`); in SYN_SENT nothing but the opening is under way, so a time-out can only
  give up the SYN, which the application learns (`OpenUnderWay`); a session of whose end nobody was told is ESTABLISHED and
  nothing asks for its release (`Undisturbed`).
* `EndsAgree`: `HandshakeAgreement` relates registers of the engine to what the peer has sent and received by now. `BothInv` has what needs no
  initial number: a segment that waits in `rx_engine` was sent by this peer (`PacketInv`, because what the peer has done only grows, `PeerStep`), and so
  `recvd` is the number of something that it sent (`RecvdInv`), however often the session was opened. For `ackd` the two ends must count from the
  same number. `FirstNumbers`: in a session opened once one opening writes the table, and its number, `Isn`, is the one that the peer takes (`irs`). `CallInv`: until
  the peer hears of the engine, table and repetitions hold that number. Then `SegmentInv` and `StreamInv` say that
  acknowledgements and `ackd` are `Isn` and what the peer has received, and `SynNumber` that in SYN_SENT `not_ackd` is the number behind the SYN or not
  yet written, so that only the answer to this SYN is accepted. The last is why no initial number is 0 (`IsnAssumption`): until the SYN is
  sent the table says 0, and a SYN_ACK that acknowledges 0 would be accepted. `tx_engine.cpp:111` says that it keeps the number away from 0.
  A session that is opened again draws another number, for which the part about `ackd` is false, as told above.

* `NothingIsSkipped`: `NoGaps` compares the table with what is on the wire. `CoverInv` says it of the table and of the copy that `metaLoader`
  works on: everything below `not_ackd` is in a segment, and a copy that has seen the FIN sent is not ahead of the table. Before the SYN is sent
  the table says 0, and a FIN in the table of an earlier opening would make the claim void, so `FreshInv` says that until the
  peer was reached nothing but an opening is under way anywhere (no data, no FIN, no probe, nothing in the application's
  FIFOs), and `OrderInv` that the first opening `tx_engine` handles is not a repetition, which would not write the table.
* `WindowIsKept`: `WindowKept` compares what is on the wire with the window that the peer has announced by now, `metaLoader` compares its copy's
  `ackd` and window. `WindowInv` says that both copies, and what waits in `rx_engine`, were announced by the peer, and `LimitInv` that `Top`
  is the end of what is on the wire and within that window; `Top` is `not_ackd` of the copy while a TX event is in work, since the table
  learns of it only afterwards, and of the table otherwise. A SYN sets all pointers to the start, so `EarlyInv` and `AskedInv` say that an
  opening that will write the table comes before all data, a repeated request of the peer included.
* `OnlyWrittenIsSent`, `AckdStaysAhead`: a session that was opened once (`OnceInv`: a second opening can only come after the application was told of
  the end of the first). `WrittenInv` orders the pointers on the way of a write: `app` of the copy, of the table, the writes that wait in the
  cache of `tx_app_interface` in their order, `mempt`, and what the application has left. `SentInv` puts `Top` behind `app`. `AckInv` puts the copies
  of the receive engine in order: its `prevAck` is still the `ackd` of the table when the test is made, because only this
  test moves `ackd`, and its `nextByte` is not ahead of `not_ackd`, whatever the transmit engine did since. An acknowledgement between them is one that the table admits.

**`McdTableProofs`** (any keys, buckets, bins, addresses and depths of the FIFOs; requests of clients are requests):

* `TableIsAtomic`, the refinement of `McdAtomicTable`. Its invariant `TableInv` has four parts. `InOrder`: `mdBuffer` is what has an answer, is
  in the hand of `memWrite`, waits to be judged, was read, is to be read, is held by the filter and has just come, in this order; `Lies` states
  that a FIFO is such a segment, so the proof of a step moves one boundary. `Filtered`: the filter is, likewise, the pops under way and
  then the requests behind `concurrencyControl`, and none of them conflicts with a later one. `ReadsCurrent`: therefore what was read of a
  bucket is what the bucket holds (`Held`, the memory with the writes on their way) when it is judged. `OneBin`: a key is in one bin
  at most, so that the first match is the only one. Then `EvalGet`, `EvalSet`, `EvalSetFails`, `EvalDelete` and the sweep of a flush are the
  execution of the first waiting request, and everything else is a stutter.
* `NoAddressIsLost`: `AddressesAccounted` is about a time without a flush, so `FlushPhases` says what holds during one: the request is up
  exactly while `memWrite` is in its two states; meanwhile the FIFOs between host and table
  are empty, and until the host manages again no entry is used. `Accounted` is carried by lemmas that count how often an address
  is in a FIFO (`Times`) and in entries (`EntriesOf`), and what one write of one bin changes in the latter.

**`McdValueProofs`** (any lines of the memories, filters, addresses and depths of the FIFOs, any requests of clients):

* `WaitingValuesBelong`: `WaitingIsExpected` needs the order of everything between the splitter and `remux`. `ValuesInv` states it per store. `WordsOk`:
  what comes (`Words`, from the splitter to `demux`) are whole packets, one behind the other. `MetadataOk`: the metadata goes on where
  the packet that `remux` sends ends, and ends where the words begin; half of a packet's metadata is there exactly while its second word is
  the next to come. `GetsOk`: the gets to be read (`Awaited`) and the values that were read belong, in order and without a gap, to the gets whose
  metadata waits. A value can therefore not come first, because `demux` hands on the metadata and the command to read in one
  step. Filter, memory and addresses do not occur in the invariant: they delay a value and cannot move it.
* `AnswersLeaveWhole`: `AnswersInv` goes on to the merger. What `remux` sent are whole answers up to the one it is sending (`SentOk`), older than all that
  waits (`InOrder`); each packet of a store is answered or its end is still to come (`AllComes`), so that the first one that is not answered comes
  next; and the merger continues the packet that it began (`NextOk`, `AnswerOk`).

Both have `LongValues` as a hypothesis about the run: what the parser makes of a client's bytes is computed by recursion over
them (`FlattenSeq`, and remainders kept from word to word), which is induction over data; TLC checks `LongValues` for the requests of the run. Where the
table sends what it likes, `WaitingValuesBelongFree` and `AnswersLeaveWholeFree` need no such hypothesis, since it is part of the invariant. The first attempt at
the proof made `WaitingIsExpected` stronger: it used to say only that there is metadata, not that it is that of the waiting
value and of the word that `remux` sends next.

**`RingProofs`** (any ring of whole words, any depths of the FIFOs, any positions and lengths; any failures, where they do not matter):

* `AccessesStayInside`: `AccessesFit` is about the command and the word at the memory. Its words are cut and put together anew
  behind the end of the ring, and the pusher takes the last one where the package ends or where `residue` does; that the command ends there too
  needs to know where each byte is. `WriterInv` says it with two lists of parts of the stream, each position and length: `pkgBuffer` is the
  words of the package in work and of those to come (`Pending`), `wrData` the words of the commands but for the bytes of the last one that are missing (`Commanded`). `Run`
  says what the words of a list of parts are, by the places between the words, so that taking the first word, adding one, and adding a
  package each keep it. For each state of the pusher `InFirst` to `InResidue` say where the missing bytes are: next in
  `pkgBuffer`, or in the split word from `lengthBuffer` on, `residue` of them.
* `BytesStayInPlace`: `BytesKeepPlace`, for as long as no access fails. `BytesInv` is `WriterInv` and, on both ways, one chain of parts without a gap.
  `BytesWritten`: from what is made known on come the accesses that are done (`Reported`, one status each), those in work, the second half that is
  not commanded yet, and the writes to do (`InWork`). `Counted` says that `doubleAccess` is about the first
  notices, in their order, so that a write is made known with its last status and not with a later one. `InMemory`: up to the end of what
  the memory took last, each byte that is not free is at its place, and a place that has become free holds its byte or one of a later lap; taking a
  word keeps this because what is in work ends at most `B` behind a place that is less than a lap behind `written` (`written <= pos + B`). Before a FIN those places are all
  that is not free, since `Ordered` has `written <= freed + B - 1`; the payload of a FIN may lie further on, and then the first
  of them are no longer claimed, which is `Overrun`. `BytesRead`: from the answer on come the words that arrived, the
  commands, the second access and the requests (`Reads`, `Arrived`, `Asked`, `LeftOver`), each access up to the end that the request or the end of
  the ring gives it; and for each state of the reader `Answered` says which bytes the answer has and which wait in the held word.
  The two sides meet in `WrittenIs`: what is asked for has been made known. On the transmit side nothing is freed that is still to be read, on the
  receive side it may be, which is why an answer there may hold a byte of a later lap and nothing else.

Model-checked only: all liveness (outside of the prover's reach); `NoOldWords`, `BytesReturn` and `LongValues` of the value path; and
all of `RxPath`, `UdpPath` and `IpServices`. Those that speak of ENABLED (each `NeverStuck`, `RestIsDelivered`, `RestIsServed`) are out of the prover's reach.

## What is not modelled

*Left out of the modelled parts.* The arithmetic of checksums, which depends on no state but the sum; the constant fields of headers; the congestion window; the times of the timers and the sweep over
their tables. The sweep runs one entry beyond the table (`retransmit_timer.cpp:107`), and a probe time of zero wraps when the FIFO behind
it is full (`probe_timer.cpp:95`): both are about one process alone. `mergeFunction` (`toe.cpp:78`) is folded into the order of events. The
FIFOs between `rxMetadataHandler` and `rxTcpFSM` hold one segment in `ToeConnection`, because the next one
waits for the lock or, if it is for another session, does not matter. Sessions influence each other
only through the tables and paths of the other models. A full circle of blocked FIFOs through `free_port_table`,
`tx_app_if`, `state_table` and the session lookup needs five opens and seven releases at once with the
depths of the code; it is out of reach of the bounds. Keys and values of the memcached server are as short as the control allows.

*Parts without control of their own.* The memcached stream converters handle one word at a time, the ASCII response is a
second format for the same answers that `memcachedPipeline` does not use. The UDP multiplexer and loopback and the DHCP client keep
little between packets. A ping longer than its buffer is outside of `ip_services`: it stops the reception, and with it every run.

*Out of reach.* Most of the lines of the repository are numeric kernels (filters, transforms, images, matrices, floating point),
their coefficient and ROM tables, test benches, user interfaces, and copies of the same HLS sources (the memcached
build has the UDP core and the IP services again). A kernel is loops over arrays: a model of it would be the program
again, and its hazards are of rounding and scaling, which TLA+ does not have numbers for. Test benches and
copies have nothing of their own to state.

## Plan

Done, in this order: the state table and its refinement (everything else relies on it), the
connection, the event path, session ids and ports; the memcached table with its host, and the value stores; the rings and the payload path of the
receive engine; the UDP core and the IP services. Next, theorems:

1. `NoOldWords`: that the pops of the filter come in the order of `filterSeq`, and a set's last line is in front of a get's first command.
2. `ToldIsWritten`, with the chains of `BytesInv`; `PacketsStayWhole`: that verdicts and packets are aligned, for any lengths and depths.

Of the parts that are not modelled, the times of the timers come first, then DHCP.
