# A TLA+ verification project for hspp

hspp is a collection of small network programs in C: **YAK** (a two-threaded
bridge between DPDK ports and host interfaces), **YALIN** (a monitor of the
kernel's rtnetlink messages) and a few one-shot experiments (`chained_mbuf`,
`ip_reassembly`, `bpf`, `yoda`). This directory holds TLA+ models of all of them
but `yoda`, TLC configurations that check them, and TLAPS proofs of every invariant
and both refinements for all values of the constants.

## 1. Inventory

### YAK (`src/yak`)

| part | code | state | operations |
|---|---|---|---|
| bring-up | `main.c` 96-106, `port.c` 27-104, `tap.c` 49-80 | `port[]`, per port: the mbuf pool, the tap's fd, the ring `from_hostif` | `port_alloc()`, `port_configure()`, `tap_alloc()`; every failure is `rte_exit()` |
| forwarding thread | `main.c` 21-80 | the loop variable, the arrays `mbufs[]` and `bufs[]` | poll the ring, dequeue a burst, transmit, receive a burst, `port_input()` each |
| tap thread | `main.c` 82-94, `tap.c` 27-35 | the loop variable, `m` | `tap_recv()` (allocate, mtod, blocking read), enqueue |
| NIC and poll-mode driver | not in the repository | receive and transmit queues | receive into an mbuf of the pool, transmit and free |
| host | not in the repository | the tap interface `ge-0-0-<pid>` | send frames, set the link down or up, delete the interface |

The threads share, per port, a ring (tap thread to forwarding thread) and a
pool (the tap thread allocates; the NIC's receive side allocates; the
forwarding thread, `tap_send()` and the driver free). There is no lock.

What is hard: who frees an mbuf depends on what a call accepted (`main.c` 35
and 62, `tap.c` 41); results are ignored (`main.c` 90, `tap.c` 29); a test and
the action it guards are separate steps (`main.c` 52-55); one blocking read
serves all ports in turn; the NIC and the host are active as soon as
`port_alloc()` has started the device and raised the link; the first thread
runs while the second is created.

What makes it correct: no mbuf is in two hands, none is lost, each stays with
its port's pool, the unchecked enqueue succeeds, threads only see finished
ports, and a port is a FIFO in each direction.

### YALIN (`src/yalin`)

| part | code | state | operations |
|---|---|---|---|
| socket | `yalin/socket.h` | the fd, the socket's receive buffer | `netlink_open()`, `netlink_close()` (never reached) |
| listener | `yalin/request.h`, `main.c` | `buf[16384]`, `status`, `h`, `msg_flags` | receive, retry, fail, one round of the loop, truncated, remnant |
| dumpers | `yalin/dump.h`, `yalin/hexdump.h`, `yalin/types.h` | none | one per kind of message: fixed part, then walk the attributes; unknown values end the process |
| attributes | `yalin/rtattr.h` | none | `rta_to_str()`, the nested walk of `IFLA_LINKINFO` |
| flags | `yalin/flags.h` | none | names of the set bits into a fixed buffer |
| filter, tests | `yalin/filter.h`, `test/` | none | unused predicate; programs that print two captured attributes |

What is hard: signed and unsigned lengths are mixed (`request.h` 36,
`rtattr.h` 52); the buffer is never cleared, so bytes of earlier datagrams lie
behind a message; the same payload macro is used for headers of different
sizes (`dump.h` 36, 58, 83, 104); datagrams are lost (ENOBUFS) or cut off
(MSG_TRUNC); unknown values, over-long payloads and a false assertion end the
daemon.

What makes it correct: every message received is dumped once and in order,
with its own attributes; no remnant is seen; no byte outside the buffer is
touched; the loop ends.

### The experiments

| program | code | state | operations |
|---|---|---|---|
| `chained_mbuf` | `main.c`, `dpdk.h` | the pool, three mbufs `m0`-`m2`, the NIC's queues | start the device; allocate and fill three mbufs; chain; linearize (result ignored); transmit; free twice; free the pool |
| `ip_reassembly` | `main.c`, `pcapw.h` | the pool, the fragment table and its death row, the capture | seven calls of `recvpkt()`: allocate, read a record, copy it, classify, reassemble |
| `bpf` | `main.c`, `bpf.h`, `code/t1.c`-`t3.c` | the loaded program; for `t2` and `t3`, a packet | load, run once on an array of bytes; rewrite a source address |
| `yoda` | `main.cc` | none | an endless loop with an empty body |

`chained_mbuf` and `ip_reassembly` check every call that sets something up and
none of those that move packets. What is hard in the first is that a NIC sends
at a time of its own while `main()` frees what it has just handed over
(`main.c` 49-53); in the second, that `pcap_next()`, `rte_pktmbuf_alloc()` and the
copy are not checked (`main.c` 25-33), that `recvpkt()` frees nothing and that it takes
every IP header to have 20 bytes (`main.c` 39); in `bpf`,
that the program is declared to take a `struct rte_mbuf` and gets bytes, and that
the bytes of an address are swapped twice.

What makes them correct: the unchecked allocations succeed; a packet is handed
over whole and stays whole while the driver has it; every mbuf is in one place;
a datagram without IP options is reported if and only if all its fragments were
read; only a bad file makes the program fail; `t2` and `t3` change one address in
IPv4 packets and nothing else.

## 2. Modules

| module | what it models | code |
|---|---|---|
| `YakPort` | bring-up as a line of checked calls per port, each of which may fail | `main.c` 96-106, `port.c`, `tap.c` 49-80 |
| `Yak` (extends `YakPort`) | the two threads, the NIC, the host, and the invariants | `main.c`, `tap.c` |
| `CrossConnect` | what YAK promises: per port and direction a FIFO, lossy towards the wire, filtering by ether_type towards the host | abstract |
| `MCYak` | instances of `Yak` | |
| `SequenceLemmas` | facts about sequences: append, tail, split; those without repetitions and the cardinality of their range; what `FlattenSeq` does | proofs |
| `YakProofs` | theorems about `Yak`, and that it implements `CrossConnect` | proofs |
| `Yalin` | opening the socket, receiving into a dirty buffer, the message loop, the dumpers' walks, the families they know | `socket.h`, `request.h`, `dump.h`, `types.h`, `main.c` |
| `Monitor` | what YALIN promises: pending messages are shown once, in order, a cut-off tail may be passed over | abstract |
| `MCYalin` | messages, datagrams and buffers for TLC | |
| `YalinProofs` | the layout of datagrams, what the walks show, the theorems about the listener and that it implements `Monitor`, for any buffer and datagrams | proofs |
| `RtAttr` | `rta_to_str()` on one attribute of a link message: what it reads, and the walk of a nested VLAN description | `rtattr.h` |
| `MCRtAttr` | the attributes the kernel sends | |
| `RtAttrProofs` | the nested walk and the readers, for any attributes | proofs |
| `Flags` | the strings of flag names, as lengths, in their fixed buffers | `flags.h`, `dump.h` |
| `MCFlags` | the sets of flags of the kernel's messages | |
| `FlagsProofs` | what the strings are and when they fit, for any messages and buffer | proofs |
| `ChainedMbuf` | `main()` call by call, the chain, the NIC | `chained_mbuf/main.c`, `dpdk.h` |
| `ChainedMbufProofs` | the unchecked allocations succeed and the packet is whole, for any pool and sizes | proofs |
| `IpReassembly` | `recvpkt()` on any capture file, the fragment table | `ip_reassembly/main.c`, `pcapw.h` |
| `MCIpReassembly` | capture files | |
| `IpReassemblyProofs` | where the mbufs are, what is reported and what can go wrong, for any file and pool | proofs |
| `Bpf` | the loader, `t1`, and the address rewriting of `t2` and `t3` | `bpf/main.c`, `bpf.h`, `code/t1.c`-`t3.c` |
| `BpfProofs` | types and the addresses on the wire, for any octets | proofs |

`Yak` composes with `CrossConnect`, and `Yalin` with `Monitor`, by an
`INSTANCE ... WITH` at the end of the module.

### Yak

The grain is one step per call that touches something another thread, the NIC
or the host can see:

| code | action |
|---|---|
| a checked call in `port_alloc()` or `tap_alloc()` | `port_alloc_step`, `port_alloc_fail` |
| `main()`'s loop, `pthread_create()` | `main_next_port`, `main_create_fwd`, `main_create_tap`, `main_create_fail` |
| `rte_ring_empty()`, `rte_ring_dequeue_burst()` | `fwd_poll`, `fwd_dequeue` |
| `rte_eth_tx_burst()` and the free of a rejected mbuf | `fwd_tx`, `fwd_tx_done` |
| `rte_eth_rx_burst()`, `port_input()`, end of the burst | `fwd_rx`, `port_input`, `fwd_next_port` |
| `rte_pktmbuf_alloc()`; mtod and `read()`; `rte_ring_enqueue()` | `tap_recv_alloc`, `tap_recv_read`, `tap_enqueue` |
| NIC, host | `NicReceive`, `NicTransmit`, `HostSend`, `HostSetLink` |

`pool`, `nicRx`, `nicTx`, `from_hostif`, `burst` and `tapM` say where the
mbufs are; `data` what is in them; `fwdPc`, `tapPc` where the threads stand;
`proc` whether the process lives. `burst` holds the not yet handled rest of
`mbufs[]` or `bufs[]`. A frame is a member of a set; only whether its
ether_type is known to `port_input()` matters (`Forwarded`). A `write()` to the
tap fails when the interface is down or deleted, a blocked `read()` when it is
deleted; both are fatal in the code.

### Yalin

The buffer is a function from word to the half word that is `rta_len` if a
dumper takes that word for an attribute's head. A message carries its kind,
the `rta_len` of its attributes, the value of all its other words (so that
stale bytes can look like attributes), and whether the dumpers accept its
values: one that they do not accept ends the process with `exit()` or
`assert()`. The family belongs to the message too, not to a word of the buffer:
the dumpers of links, addresses and routes give up on one they do not know
(`KnownFamily`, which ends with the `AF_MAX` of 41 of the time's headers; `Known`).
What stale bytes taken for an attribute lead to is not decided by their value:
they may be refused (`MayRefuse`). Bytes are counted as in the code; `status` is a
signed int, and `AnotherMessage` is the comparison with the unsigned `sizeof(*h)`.
The dumpers' `rta_len` is unsigned in the code and an integer here; it is always a
multiple of 4, because the kernel pads messages, and never goes below 0.

`recvmsg_ok` overwrites the head of the buffer and leaves the rest.
`listen_message` is one whole round: the handler, then both updates. A read
outside the buffer ends the process, since the Makefile builds with
`-fsanitize=address`; where it is certain that a dumper reads there
(`LeavesBuffer`) the process ends, where it depends on an attribute's type
(`MayLeaveBuffer`) it may. How far a reader looks is `Reach`. It is a bound on what
the code reads only with an assumption: the string of an `IFLA_IFNAME` is read up to
a NUL (`rtattr.h` 215), and the same number means another attribute in route and
neighbour messages, where nothing but a zero byte within `Reach` ends it.

### RtAttr

A state is one point of `rta_to_str_IFLA_LINKINFO()`; `reach` records the
furthest byte looked at. `SizeT` stands for 2^64: `rtattr_next()` subtracts in
`size_t`, so a difference below 0 is large. Attributes are built in the way
and in the order the kernel builds them (padding counts for a nest, not for a
leaf).

### Flags

`netlink_msg_dump()` makes two strings of the flags of a header and, for a link,
one of those of the interface. A state is a round of the loop in
`snprintflags_long()`; `used` is `strlen(str)`, and the names are represented by
their lengths, counted in the tables of `flags.h`. `strncat()` is given the size
of the whole buffer, which bounds nothing: a write behind the buffer ends the
process, since the program is built with `-fsanitize=address`.

### ChainedMbuf

One action per call of `main()`, in its order. `pool[m]` counts how often an mbuf
has been put back, because DPDK does not notice a second time. `Segs` follows the
`next` pointers as `rte_pktmbuf_free()` does. The receive queue takes mbufs when
the device starts, any number up to its size; `NicTransmit` may come at any time
after `rte_eth_tx_burst()`, also never.

### IpReassembly

A file is a set of records, read in any order; a record says of which datagram
it is which fragment, its EtherType, whether its IP header has options, and whether
it is whole, cut short by the capture (`caplen < len`) or longer than an mbuf. An
mbuf is the record in it: `free`, `tbl`, `dr` and `lost` say where the mbufs are.

Two things of its inside are taken from DPDK. The fragment table drops a datagram
with more than `MaxFrag` fragments. And it takes the total length without `l3_len`
for the length of a fragment's payload, where `recvpkt()` sets `l3_len` to 20 whatever
the header says (`main.c` 39). Options in a fragment other than the last (`Stretched`)
make the sum of the lengths larger than what the last fragment says the datagram
has, so it is dropped when it is complete. Before that the sum may be smaller, larger
(dropped early) or by chance equal, when the gap of a missing fragment has the size
of the options: the datagram is then reported without it. Lengths are not modelled,
so which of the three happens is a free choice. Options of the last fragment count
on both sides and do no harm. `main_end` gives back what is in the table, as
`rte_ip_frag_table_destroy()` does; what is on the death row or lost stays so until
`rte_mempool_free()`.

### Bpf

Numbers are tuples of their bytes, so that the byte order of memory, of the
machine and of the program's constants is modelled and not assumed. `t2` and `t3`
are the same operator with other addresses, as in the code.

## 3. Runs

| run | question | bounds | distinct states |
|---|---|---|---|
| `yak_one_port` | ownership of mbufs, room on the ring, types; order, loss and duplication (`Yak` implements `CrossConnect`) | 1 port, 3 mbufs, bursts of 2, NIC queues of 2, 1 frame waiting for the tap, 2 known kinds of frame and an unknown one | 875338 |
| `yak_two_ports` | pools stay separate, threads see finished ports, the cross connect with two ports; every mbuf in flight comes back, the blocking read serves all ports | 2 ports, 1 mbuf for one and 2 for the other, bursts of 2, NIC queues of 1 | 153828 |
| `yak_mtod` | expected violation: `rte_pktmbuf_mtod()` of NULL | 1 port, 2 mbufs | |
| `yalin` | dumps show their message, no remnant, buffer kept, the monitor only gives up for a cause; `Yalin` implements `Monitor`; the loop ends | 64-byte buffer, 14 datagrams of 1 or 2 messages, queue of 1, stale word 4 | 52384 |
| `yalin_trunc` | expected violation: a truncated datagram is not skipped | queue of 2, 3 datagrams | |
| `rtattr` | VLANs are shown as sent, reads stay inside, the walk ends | 108 VLAN descriptions, 3 other kinds, 24 plain attributes | 903 |
| `rtattr_slave` | expected violation: the assertion on the first nested attribute | the same and a slave without a kind | |
| `flags` | a string is the names of its bits, and which sets of flags overflow the buffer | every set of the 12 named interface flags, with and without an unnamed one; every set of 7 header flags; buffers of 100 | 553052 |
| `chained` | the allocations succeed, the packet is handed over whole | 5 mbufs, receive queue of 2, buffers of 1000 in mbufs of 2048 | 4056 |
| `chained_queued` | expected violation: the packet stays whole while the driver has it | 3 mbufs | |
| `ip_reassembly` | where the mbufs are, what is reported, what makes it fail | 7 mbufs, 43 files: datagrams of 2, 4, 5 and 7 fragments, of 3 and 4 with IP options in all, the first or the last, other packets, cut and long records, short files | 5905 |
| `bpf` | what `t2` and `t3` do to every packet; types | 3 EtherTypes, addresses of the octets 0, 2, 10, 20 | 4608 |

Why the bounds are enough. *YAK*: with three mbufs the ring, the burst array,
the driver's queue, the pool and the tap thread can all be non-empty or empty
in every combination of three, a burst can be partial (burst of 2, queue of 2,
one slot left) and the pool can run dry; NIC queues are smaller than the pool
as in the code (128 and 512 against 8191) and the ring is larger. Safety for
every size is proved (section 5). With two ports the hand-over between ports
and the blocking read can go wrong; a third port would add nothing that the
round-robin does not already do with two. *YALIN*: the buffer is scaled to 64
bytes, and the datagrams are chosen around it: fitting with room, exactly, to
within the slack, and too large with the excess in the first or the second
message. Messages of 24 to 72 bytes keep every length class modulo 16, and
`fill` makes stale bytes look like short attributes. `Reach` (12 here) stands
for the 188 bytes from its head that the largest fixed-size reader needs.
Symmetry is used for the mbufs of `yak_one_port`, which checks no liveness, and
never with fairness. *Flags*: complete for the interface flags; the header flags
are those that messages of the kernel carry (`MCFlags`). *ChainedMbuf*: the
smallest pool `ChainedMbufAssumption` allows for a queue of 2, where a fourth
allocation would fail; three segments of 1000 bytes do not fit an mbuf, as in the
code. *IpReassembly*: as many calls and as large a table as in the code; the
smallest pool. *Bpf*: every address made of the octets of the two, in any
order, and both byte orders of the EtherType of IPv4 next to another type.

Deadlock is checked in every run: a process that has ended stutters in
`Terminated` or `Done`.

### What is expected to fail, and why

- `MtodOnMbuf` (`tap.c` 29-30): all mbufs of a port may be queued when the tap
  thread allocates; the NULL is used.
- `TruncatedEndsLoop` (`request.h` 36): `status` minus the full length of a
  cut-off message is negative, which compares as large with `sizeof`, so the
  loop goes on to a header behind the buffer instead of coming to the branch
  `// Message truncated`. In the counterexample the last attribute of a message of
  72 bytes is cut off after 64, and of a type whose reader does not look at the
  missing part: the dump succeeds, `status` becomes -8 and `h` leaves the buffer. A
  reader that does look at it ends the process earlier, in the dumper
  (`MayLeaveBuffer`). The branch is reached when fewer than 16 bytes of the cut-off
  message are left in the buffer.
- `KindComesFirst` (`rtattr.h` 147): a device that has a master but no
  rtnl_link_ops is announced with `IFLA_INFO_SLAVE_KIND` alone.
- `QueuedPacketIsWhole` (`chained_mbuf/main.c` 52): the chain is freed right after
  `rte_eth_tx_burst()` has accepted it. The free cuts the chain apart while the
  driver may still have it, so `pkt_len` is no longer "sum of all segments"
  (`bpf/code/mbuf.h` 432), and the segments are in the pool.

One comment disagrees with the code in a way that a passing property shows: `t3.c` 24
says "MODIFY IP SRC FIELD to 10.0.0.20", while the code (`t3.c` 37-38) puts 10.0.0.2 in
the place of 10.0.0.20, the reverse of `t2`. `AliasOnTheWire` states what the code does,
and is what contradicts the comment.

Three properties that hold do so by luck more than by design, and are worth
knowing: `VlanShown` needs the unsigned wrap of `rtattr_next()`, which is called
with the length of the kind alone (a signed comparison is the mutant that
breaks it); `RingHasRoom` needs `ringsize` to stay above `num_mbufs`;
and `SixFlagsNeeded` says that the unbounded `strncat()` is harmless because the
kernel seldom sets six named flags at once on an interface.

## 4. Fairness

- `main`, `fwd_main`, `tap_main`: weak fairness each. They are threads of the
  operating system and contain no lock; `fwd_main` never blocks, `tap_main` is
  only disabled inside `read()`.
- `NicTransmit(p)`: weak fairness. A driver sends what it has accepted.
- Nothing is assumed of the host and the wire. `TapServesAll` has the condition
  it needs in its premise: no host is silent for ever.
- YALIN: weak fairness of opening, receiving and the loop; none of the kernel.
- RtAttr: weak fairness of the only thread.
- The other modules state no liveness and no fairness: their programs are a
  straight line, and a NIC need not send.

## 5. Proofs

Every theorem holds for all values of the constants that satisfy the assumptions
of its module; TLC evaluates the assumptions in every run. Every invariant of the
passing runs is a theorem, and so are the two refinements.

What is proved of data is proved by induction over a set of naturals (`InductionOnSet`
and its uses): the installed provers cannot instantiate an induction theorem that
takes an operator, but a set of the numbers with a property is first-order. What a
recursive function computes is proved by giving a function that satisfies the
recursion and concluding that the one TLA+ chooses does too (`WalkExists` for the
walk over attributes).

### YAK

From `NumPortsAssumption` and `SizesAssumption`: finitely many mbufs, each
belonging to one port; a ring larger than its pool, as `num_mbufs` 8191 and
`ringsize` 8192 are; bursts of at least one.

| theorem | says |
|---|---|
| `TypeCorrect` | `Spec => []TypeOK` |
| `MbufsExclusive` | `Spec => []NoAliasing` |
| `MbufsNotLost` | `Spec => []NoLeak` |
| `MbufsStayWithPort` | `Spec => []PoolAffinity` |
| `EnqueueSucceeds` | `Spec => []RingHasRoom` |
| `ThreadsStartLast` | `Spec => []ThreadsSeeReadyPorts` |
| `YakIsCrossConnect` | `Spec => ImplementsCrossConnect` |

The invariants. `TypeOK` is not inductive: a NULL could be put on the ring if
nothing said that `tap_main()` holds an mbuf when it enqueues. `TypeInv` adds
that (`Hands`) and the order in which `main()` starts its threads (`Started`).
None of the ownership properties is inductive alone: no mbuf is lost only if
the enqueue succeeds, which needs room on the ring, which needs that the ring
holds distinct mbufs of one pool and that the one in the tap thread's hands is
another of them. `OwnInv` is their conjunction: `Queues` and `Held` (each queue,
and each hand, holds distinct mbufs of its port's pool), `Exclusive` and
`NoLeak`. `RoomOnRing` is the counting step: the ring's mbufs and `tapM` are a
subset of the pool, whose cardinality is below `RingSize`. `AppendAt`, `TailAt`
and `BurstAt` say what the three queue operations do to `Queues`; `OwnMain`,
`OwnFwd`, `OwnTap` and `OwnEnvironment` treat the steps. `SequenceLemmas` holds what
is needed of sequences. `ThreadsStartLast` has an invariant of its own, `Upward`:
`main()`'s loop has finished every port before `mainPid`, and all of them when it
is left.

The refinement. Between the host and the wire a port's frames stand in a row of
five queues; a step either passes an mbuf on within the row, which changes nothing, or
takes a frame off an end, puts one on, or takes one out. The second half of
`YakProofs` has one lemma per kind of step of `CrossConnect` (`MapsTo...`) and
one per action of `Yak` that says which it is (`...Refines`): `main`, polling,
allocating, reading, enqueueing, dequeueing, receiving a burst and handing an
mbuf to the driver are stutters, unless they end the process; a refused mbuf is
`LoseHostFrame`; `port_input` is `ToHost` or `FilterWireFrame`; the NIC and the
host are the rest. The invariant is needed twice: storing a frame in an mbuf may
not change a frame on its way (`OnNoWay`, from `Exclusive`), and `tap_enqueue` is
a stutter only because the ring has room.

### YALIN's listener

From `BufLenAssumption` (a buffer of whole words with room for a header; a reader
reaches at least to the end of an attribute's head) and `DatagramAssumption` (the
kernel sends one message or more at a time, no attribute is shorter than its head,
and links and addresses have families of interfaces).

| theorem | says |
|---|---|
| `ListenerTypeCorrect` | `Spec => []TypeOK` |
| `RemnantsNeverFound` | `Spec => []NoRemnant`: `exit(1)` at `request.h` 52 is never reached |
| `DumpsShowMessages` | `Spec => []DumpShowsMessage`: a dump shows the attributes of its message, all and in order, and at most stale bytes within the slack behind them |
| `BufferIsEnough` | `Spec => []BufferHolds`: a byte outside the buffer is touched only if the datagram does not fit, or leaves less room behind it than a reader may look at |
| `RefusalsHaveCause` | `Spec => []RefusalHasCause` |
| `YalinIsMonitor` | `Spec => ImplementsMonitor` |

The argument has four layers. *Layout*: the messages of a datagram stand one behind
the other, each beginning with its own length, its attributes behind the fixed part
(`AttrLayout`, `MsgLayout`, `Layout`). *Walk*: what a walk shows lies inside the
length it was given (`WalkElements`) and begins with the attributes that stand there
(`WalkOwn`). *Dump*: with a message in the buffer, `DumpShows` says what each element
of its dump is, and `AbortCause` and `RefusalCause` why a dump ends the process.
*Loop*: `ListenInv` holds what the four properties lack to be inductive (`Following`):
the datagram stands in the buffer as far as it fits (`InPlace`), `h` is at one of its
messages or at its end (`AtMessage`), and `status` is what is left of the received
bytes from there, which is negative once `h` has passed a message that was cut off.
That one round keeps this (`MessageStep`) is the point: the length that `h` and
`status` move on by is read from the buffer, where it is the message's own.

The refinement. The messages on their way are what is left of the datagram from `h`
on, followed by those of the socket's queue (`OnTheWay`). Receiving is a stutter, a
round of the loop is `Show`, leaving the loop of a datagram that was cut off passes
its tail over, and arriving, losing and ending are the kernel's and the process's
steps (`MapsTo...`, `...Refines`).

### YALIN's attributes

From `SizeTAssumption`, `LinkInfoAssumption` (a kind is a string with its NUL, `"vlan"`
comes with a description that says nothing twice, and lengths fit in a `size_t`) and
`LinkAttrAssumption` (an attribute of a link has at least the payload of its type,
`LeastPayload`).

| theorem | says |
|---|---|
| `AttrTypeCorrect` | `Spec => []TypeOK` |
| `VlansAreShown` | `Spec => []VlanShown`, for descriptions of any length and order |
| `ReadsStayInside` | `Spec => []ReadsInside` |

`VlanShown` speaks of the end and says nothing of the way there. `AttrInv` adds
`Walking`: at every round `nrta` is at the head of some field, `nbuflen` is what is
left from there, and `vlan` has what the fields in front of it say (`AtField`).
`FieldLayout` says where fields start and `SaidStep` what one more of them adds.
`DataStep` is where the unsigned wrap of `rtattr_next()` is needed; `WalkStep` needs
that the rest behind a field is 0 or the 8 bytes of another field at least, never the
4 at which `rtattr_next()` gives up.

### The others

| theorem | says | from |
|---|---|---|
| `FlagsTypeCorrect` | `Spec => []TypeOK` | `FlagsAssumption` |
| `StringsAreNames` | `Spec => []StringIsNames`: a string is the names of its bits, and overflows exactly when they need more than the buffer | the same |
| `FiveFlagsFit` | `Spec => []SixFlagsNeeded`, for buffers of 100 bytes or more and headers with the bits that the kernel sets | the same, and the two conditions in the theorem |
| `ChainedTypeCorrect` | `Spec => []TypeOK` | `ChainedMbufAssumption` |
| `AllocationsSucceed` | `Spec => []AllocSucceeds`: none of the three unchecked allocations of `chained_mbuf` fails | the same |
| `WholePacketSent` | `Spec => []SentWhole`: one whole packet of three buffers is handed over | the same; three buffers do not fit into one mbuf |
| `IpTypeCorrect` | `Spec => []TypeOK` | `IpReassemblyAssumption`, `FilesAssumption` |
| `MbufsInOnePlace` | `Spec => []MbufsAccounted`: each mbuf is in the pool, in the table, on the death row or lost | `IpReassemblyAssumption` |
| `OnlyBadFilesFail` | `Spec => []FailsOnBadFile`: a pool of seven mbufs lasts for every file, so only a short, cut or long one makes `recvpkt()` fail | the same |
| `CompleteDatagramsShown` | `Spec => []CompleteAreShown`: a datagram without IP options before its last fragment is reported if and only if all its fragments were read and the table has room for them | the same and `FilesAssumption`: the records of a datagram agree |
| `BpfTypeCorrect` | `Spec => []TypeOK` | `BpfAssumption` |
| `RewritesOnTheWire` | `Spec => []AliasOnTheWire` | the same |

*Flags*: `Exact` says that `used` is what the names seen so far need; `Fits` bounds it
with the lengths of the tables.
*ChainedMbuf*: one invariant counts the free mbufs before each allocation (at least
three, two, one); until then nothing is put back and the NIC takes no more than its
queue. The other, `PacketInv`, has the shape of the chain at each call (`Loose`,
`Pair`, `Chain`), from which `Segs` follows. *IpReassembly*: `IpInv` counts the calls
(what is free is the pool without one mbuf per finished call) and says where the
others are; `ShownInv` says of each record read, if its datagram
has no options before the last fragment (`Plain`): the datagram was reported and is
complete, or one of its fragments has not been read and the others are in the table
until `main()` ends (`Handled`). A datagram is complete when there are as many
fragments as numbers (`Numbers`), and a free choice of `reassemble_packet` is only open
for one that is not `Plain`. *Bpf*: reversing
bytes twice gives them back (`ReverseTwice`), so what `t2` and `t3` compare and store
are the octets on the wire (`Rewrites`).

### Only model-checked

The four liveness properties: `BuffersRecycled` and `TapServesAll` of `Yak`,
`BackToRecv` of `Yalin`, `WalkEnds` of `RtAttr`. Liveness under fairness needs ENABLED,
which is out of the prover's reach. The four expected violations are TLC's
counterexamples.

## 6. Not modelled

- What is printed: formats, names, indentation. Of `types.h` only the families
  matter, whose unknown values end the process; the other tables give names.
  `rte_bpf_dump()` prints the loaded instructions.
- `port_free()`, `tap_free()`, `netlink_close()`, `snprintflags_short()`,
  `rte_pktmbuf_set()`, `netlink_is_link_msg()` (`filter.h`): never called or never
  reached, and none of them is more than a line of calls or comparisons.
- `main()`'s `pthread_join()` and the return after it: the threads never end.
- Frame contents beyond the ether_type, MTU and the length `read()` returns.
- EINTR and EAGAIN: handled exactly like ENOBUFS, in `recvmsg_retry`.
- The leak in the error paths of `netlink_open()`: the process ends with it.
- A read outside the buffer that lands in another variable of the stack
  without the address sanitizer noticing: the model ends the process there.
- Attributes of address, route and neighbour messages in `RtAttr`:
  `rta_to_str()` reads them by the numbers of link attributes. `Yalin` covers
  how far such a reader may go (`Reach`), not what it shows.
- Whether a flag's name is the right one: the table of `flags.h` 66 is text.
- The packets of `t2` and `t3` beyond EtherType and source address. Neither program
  updates the checksum of the IP header.
- The argument of `t1`, which it does not look at: `main()` passes plain bytes where a
  `struct rte_mbuf` is declared (`bpf.h` 83).
- The text that `rta_to_str()` builds, and with it the writes of its `strncat()` to
  `substr[1000]` (`rtattr.h` 222-229) and `dstr[10000]` (336-343), which bound nothing:
  an attribute without a reader of its own overflows the second with 5000 bytes.
- The failure of `rte_eal_init()` (`yak/main.c` 98) as a step of its own: it ends as
  that of the first call of `port_alloc()` does, with nothing done.
- Whether a NIC that still has a packet of `chained_mbuf` uses the memory of its
  pool after `rte_mempool_free()`.
- The fragment table's timeouts and hash collisions: the clock moves by less than
  a timeout in seven calls, and the table has room for all of them.
- `bpf/code/mbuf.h`: a copy of DPDK's header. `yoda`: an endless loop with an empty
  body, which has no state. The programs in `yalin/test/`: `monitor.c` is `main.c`
  again, and the captured attribute of the other is one of `RtAttr`'s inputs.

## 7. Plan

Done, in this order: `YakPort`, `Yak`, `CrossConnect` and the ownership proofs;
`Yalin` with `Monitor`; `RtAttr`; `Flags`, `ChainedMbuf`, `IpReassembly` and `Bpf`;
the proof that `Yak` implements `CrossConnect`; the proofs about all invariants of the
other modules and that `Yalin` implements `Monitor`.

What would add most next:

1. The attributes of the other messages in `RtAttr`.
2. A measure for each loop (`listen_message`, `linkinfo_vlan`) that every round
   lowers, as an action property with a proof: the safety half of the liveness that
   only TLC checks.
