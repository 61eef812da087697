# Verification of the computer network assignments

The repository collects programs of a networks course: a peer-to-peer file
sharing overlay (assignment 6), a file server and client (assignment 5), a lab
test with two more file servers, and a modified CSMA network device for the
ns-3 simulator with scenarios and trace statistics (assignments 3 and 4). Most
of the tree is recorded traces and plots. This directory holds TLA+ models of
its programs, the TLC runs that check them, and theorems that TLAPS proves.

Paths are abbreviated: `server.cpp` and `__init.cpp` are those of assignment 6,
`csma-net-device.cc` is the one under `1-persistent/`.

## The system

### Overlay of assignment 6 (`__init.cpp`, `server.cpp`)

| Part | State | Operations |
|---|---|---|
| bootstrap (`__init.cpp` main) | `all_info`, the array of registered nodes | collect n registrations, sort by `node_id`, set successor and predecessor, distribute the file index, send each node its part, exit |
| peer, until configured | `my_node` | register, wait for one datagram, read it as the configuration |
| peer, terminal process | copy of `my_node` | `search <file>`, `download <file> from <ip:port>` |
| peer, parent process | copy of `my_node`, a socket that lives for one datagram | `__recvinfo`, then print an answer or pass a search to `search_func` |
| peer, TCP server | listening socket, a child per connection | serve a file |

The parts share nothing but datagrams and connections. What is hard: a UDP
socket is opened, bound and closed for *each* datagram, so whatever comes in
between is lost; nobody retries; the first datagram a peer receives is its
configuration, whatever it says; a search is forwarded until some index has the
file. It is correct when an answer is true and reaches the asker, a shared file
is found within a round of the ring, and the ring and the index are those of the
registered nodes.

### File transfer (assignments 5 and 6)

`Peer_Server.cpp` accepts a connection, forks, and the child reads one name and
sends the file in blocks of 256 bytes until a read returns 0; the parent closes
its copy of the connection and accepts the next. `Peer_Client.cpp` sends a name
and copies what it reads into `new <name>` until the connection ends.
`server.cpp` repeats both. State: the connections and who holds them, the
offsets, the files. What is hard: reads of any size, blocked writes, a file that
two clients write at once, children that end or are killed, a process limit, no
way to tell the end of a file from the end of the server. It is correct when
what is written is the file, and every client comes to an end.

### CSMA device (assignment 4)

`CsmaNetDevice` is an event-driven state machine (READY, BUSY, GAP, BACKOFF) with
a transmit queue, a current packet and a `Backoff` object; devices meet on one
channel. Operations: `SendFrom` (which puts the header on with `AddHeader`),
`SetSendEnable`, and the events `TransmitStart`, `TransmitCompleteEvent`,
`TransmitReadyEvent`; `TransmitAbort` when the retries are used up;
`GetBackoffTime` of `backoff.cc` draws how long to wait. The channel delivers a
frame to every device, the sender's own included: `Receive` throws it away there,
and elsewhere where the receive side is disabled or the error model says so,
takes the header off, and passes the packet up with its classification, what is
for another host only to the promiscuous callback, where one is set. What is
hard: handlers call each other, drop the packet on some paths and reschedule
themselves on others; the send side, the receive side, the encapsulation, the
callback or the channel may be switched between two events; a frame is built in one mode and read
in the mode its length field suggests. It is correct when the wire has one
transmitter, every event finds the state it asserts, no accepted packet is lost,
doubled, overtaken or left waiting, and what is passed up is what was sent.

### Forking server with a size header (lab test, `server1.cpp`, `cli/client.cpp`)

The server of assignment 5 once more, which first sends a buffer that begins with
the file's size in decimal, and sends nothing where there is no such file. The
client takes *one read* for the header, whatever it returned, writes everything
after it into the file, and divides by the size it was told. What is hard, besides
all of the above: a header that arrives in parts, a size of 0 or one whose
percentage does not fit an int, a file that `stat` finds and `open` or a read
fails on. It is correct when the file is what followed the header and the last
percentage tells the truth.

### Select server (lab test, `server2.cpp`, `cli/client.cpp`)

One process serves all connections from one select loop. State: the descriptor
sets `master` and `read_fds`, `fdmax`, and one variable `newsockfd` for the
connection accepted last; the client's are the size it was told and the file it
writes. Operations: accept, hang-up, a request answered with a header of 1024 bytes
and the file; connect, ask, read the header, read on. What is hard: descriptors
close, open and are reused during a pass; replies go to `newsockfd`; a write may
block the loop for all; a missing file, a reset or a broken pipe ends the
process. It is correct when the sets are the open sockets, replies are whole
and reach who asked, and a download ends.

### The rest

`no.py` computes statistics from traces. `udp-echo.cc` builds simulation
scenarios. `FIS_Server.cpp` is an unfinished fragment that does not compile.
PROJECT.json lists them all.

## Modules

| Module | Models | Composed of |
|---|---|---|
| `Overlay` | ring and index as operators on `all_info` | |
| `OverlayProofs` | lemmas about the operators of `Overlay` | `Overlay` |
| `Lookup` | abstract: a search is answered at most once, truly, where it was asked | |
| `PeerRing` | configured peers and the network between them | `Overlay`, implements `Lookup` |
| `PeerRingProofs` | theorems about `PeerRing` | `PeerRing`, `OverlayProofs` |
| `Startup` | bootstrap and peers until they are configured, and searches meanwhile | `Overlay` |
| `StartupProofs` | theorems about `Startup` | `Startup`, `OverlayProofs` |
| `CsmaNetDevice` | the transmit side of several devices and the channel | |
| `CsmaNetDeviceProofs` | theorems about it | `CsmaNetDevice` |
| `Framing` | headers, their removal, and the slots of a backoff, as operators | |
| `CsmaLink` | whole devices: transmit side, frames, delivery by the channel, receive side | `CsmaNetDevice`, `Framing`; implements `CsmaNetDevice` |
| `CsmaLinkProofs` | theorems about it, the refinement among them | `CsmaLink`, `CsmaNetDeviceProofs` |
| `FileTransfer` | forking file server, clients, TCP connections, the clients' files | |
| `FileTransferProofs` | theorems about it | `FileTransfer` |
| `SizedTransfer` | forking server with a size header, and its client | `FileTransfer` |
| `SizedTransferProofs` | theorems about it | `SizedTransfer`, an instance of `FileTransferProofs` |
| `SelectServer` | select loop of the lab test and its clients | |
| `SelectServerProofs` | theorems about it | `SelectServer` |
| `MC...` | constants of the instances TLC checks | |

Operators called `Wrong_...` are faulty variants of the operator that follows
them. Nothing uses them except the mutation checks listed in PROJECT.json, which
put one in the place of the right one and expect its property to fail.

### Overlay

`map_file_to_node` returns a slot number where the code returns a pointer into
the array. The code collects and sorts the identifiers not below the file's, takes the
least and scans for the first slot that has it; the operator is that slot.
`MyFileInfo` is the `map` of a slot after the double loop: entries of one name
overwrite each other, so the last slot that shares it stays (`LastSharer`).
`oat_hash` is a constant function into the naturals: no property depends on how
it mixes bits, collisions are in the instances.

### PeerRing

One action per step of a process: `TypeSearch` is the terminal process's search
command; `Bind`, `Receive`, `Show` and `Search` are one turn of the parent's loop
(`__recvinfo` up to `bind`, `recvfrom` and `close`, then the two branches).
`search_func` returns the one datagram it sends. `dgrams` holds every datagram
with the place it is in; the text is a record. `Arrive`, `Refuse` and `Lose` are
the network. `IsOwnerOf` is the test for `owner_of` anywhere in the text, which
a file name may contain. The index and the successor never change after the
fork, so they are constant operators; peers are named by their slot. `asked` and
`lookups` are history.

### Startup

`Collect` is a turn of the bootstrap's loop; with the n-th registration it also
sorts (`Sortings`: any order of equal identifiers, since `std::sort` is not
stable). `SendConfig` sends one slot. `Start` is a peer's main up to its first
`__recvinfo`, `Configure` takes *any* datagram for the configuration (`Parsed`),
`Serve` is the loop afterwards, in which a configuration that comes late is
dropped (its file names are taken to contain neither word the loop looks for).
`Kill` and a second `Start` are a restart by the
user. The words of a search are no address: `inet_addr` fails and `sendto` sends
nothing, hence `NoAddr`.

### CsmaNetDevice

The simulator runs one handler at a time, so an action is a whole handler with
what it calls. `TransmitStart` is an operator with the state, packet and queue
its caller has set, since it runs both within other handlers and as an event
(`BackoffEvent`). `TransmitAbort` folds its recursion through `TransmitStart`:
the wire was just found busy and the retries just reset, so either the next
packet backs off for the first time or, with no retries at all, the whole queue
is dropped. `events` counts what is scheduled. Time is left out: any scheduled
event may be next, which allows more orders than the simulator has. `accepted`,
`finished` and `rejected` are history.

### Framing and CsmaLink

Of a frame, `Framing` keeps the length/type field, the number of bytes between
header and trailer, and the type in an LLC/SNAP header: nothing else is told
apart by what `Receive` does. `AddHeader` and `Unframed` are the two directions,
`PaddingFits` the assertions of `Receive`. `GetBackoffTime` is the set of slots
the method may return for a number of retries: `pow` converted to an unsigned
integer of `Width` bits, which is any integer when it does not fit, then the
smaller of it and `MaxSlots`, then a draw from the range, which ns-3 makes
from a range given upside down as well. The product with the slot time is left out.

`CsmaLink` takes every handler of `CsmaNetDevice` (`Transmits`) and adds what
the rest of the device does in the same step: `LinkSendFrom` frames the packet in
the mode of the moment, before it is queued; a handler that starts a transmission
leaves its packet on the wire (`Carries`); the end of a transmission schedules
`Receive` of every device, and the channel is idle only when all have run.
Encapsulation, receive side and promiscuous callback may be switched by anybody
at any time.
`SendFrom` also frames a packet that the full queue then refuses; nobody sees
it again, so `RefuseSend` leaves the frame out. `heard` (history) is what a
device passed up: `m_rxCallback`, which the node always sets, gets everything but
`PACKET_OTHERHOST`; `m_promiscRxCallback`, where it is not null, gets everything,
so a packet for another host is heard only there (`Taken`).
The sizes the layers above use are those `GetMtu` permits, which says the same in
both encapsulations. What the assertion of `AddHeader` is about is a property,
`HeaderFits`; the model goes on where it fails, as a build without assertions does.
The checksum is left out, since nothing in the repository damages a byte; the
error model only marks packets.

### FileTransfer

A connection is named by its client and is open for it while `Held`: in the
backlog, in the parent's `newsockfd`, or with a running child. `Accept` is accept
and fork (whose failure the code does not distinguish from being the parent),
`CloseNewsockfd` the parent's close; `ReadRequest`, `SendChunk` and `Exit` are
the child. A client does `Connect`, `Ask` (write the name, open the file),
`Receive` as often as there is something to read, `EndOfFile`. Bytes are numbers;
0 is the hole the file system leaves where nothing was written. `Open` covers
both clients: `server.cpp` gives a mode, `Peer_Client.cpp` calls open without
one, so that the file's permission is arbitrary (`NoMode`). A name is read whole:
it is one small segment.

### SizedTransfer

The server's steps are those of `FileTransfer` (`ServerStep`): what a child sends is
`Content`, and `SentAssumption` says what that is (`Sent`): the header, built by
`Header` from the decimal digits of the size `stat` gives (`Kept`), followed by what
`open` and the reads give of the file (`Given`): all of it, a part where a read
fails, nothing where `open` does, since the code looks at neither. `ReadHeader` is the client's
first read, of whatever has come; what it took is `hdr`, and `file_size` is
`atoi` of that. `SizedReceive` and `SizedEndOfFile` are turns of the loop, the last read
included, each of which shows a percentage (`Percent`): the product wraps round at
the width of an int (`MaxInt`), the quotient is truncated, and with a size of 0 the
client dies there. 100 and the base of the digits are constants, so that an
instance can be small. The server exits when `stat` fails, which its client sees as a
connection that ends without a byte.

### SelectServer

A descriptor is a number, the lowest free one when accepted; `conn` says whose
connection it is, and the listening socket is the lowest. `Select` starts a pass:
`read_fds` is what is readable, and `Serves` takes its members in the order of
the loop. `Accept`, `HangUp`, `ReadFails` and `Request` are the branches of the
loop's body; the writes of a reply are steps of their own (`SendChunk`, the first
being the header), since each may wait for room while the clients go on. A
reply goes to `conn[newsockfd]`, looked at when it is used. `Exit` is every way
the process ends: a failed stat, a failed read, SIGPIPE (`BrokenPipe`). A client
takes any part of what has come (`Consume`); the first part is its header, and
`file_size` the number at its beginning, by which it later divides. `order` and
`replies` are history. md5sum, which the server calls before it replies, changes
nothing. A file that is there but cannot be read to its end (`Given`) is answered
with its size and what the reads gave, as nobody looks at what `open` returned.

## Runs

| Run | Instance | Checks | Distinct states |
|---|---|---|---|
| `peerring_safety` | 4 peers, two with one identifier; 4 files: shared twice, wrapping to slot 0, named `owner_of`, missing; 2 searches; lossy network | one datagram per search, true answers, no peer asked twice, refinement of `Lookup` | 195,512 |
| `peerring_liveness` | 3 peers, 2 searches, patient network | a shared file is found; a missing one is searched for ever | 36,800 |
| `startup_safety` | 3 peers, two with one identifier, one restart each, 1 search, lossy network | what a configured peer knows, one ring, true answers | 1,770,000 |
| `startup_ready` | the same, patient network, no restarts, no early search | every peer is configured in the end | 1,406 |
| `startup_race` | the same with early searches | **violated**: `TopologyReady` | |
| `csma_safety` | 2 devices, 3 packets (20 bytes for one device, 1492 for all, 1493 for a group), queue of 2, 1 retry, all switches, refusals, corruption; the switches of one device, one away from its start at a time (`OneSwitch`) | one sender, handlers' assertions, order and accounting of packets, frames intact, one order everywhere, what may stop a device | 225,350 |
| `csma_liveness` | the same devices and packets, queue of 3, 3 retries, nothing switched off | fresh retries, empty queue when idle, every packet finished, everybody hears, backoffs do not get shorter | 56,096 |
| `csma_wedge` | 2 devices, 3 packets, `SetSendEnable` | **violated**: `NeverWedged` | |
| `transfer` | 2 clients in one directory, 3 downloads, 2 processes, a file of 3 bytes and a missing one, blocks of 2, a connection of 2 | only source bytes, the end means all, whole when quiet, every download ends | 107,377 |
| `transfer_sized` | 2 clients with a directory each, 2 downloads, files of 3 and 0 bytes, and one of 3 of which 2 can be read, blocks and connection of 3, sizes to base 2, 2 for 100 percent, ints up to 6 | what follows the header is the file, what the last percentage tells, every download ends | 161,306 |
| `select_server` | 2 clients that may be killed; files of 3 and 0 bytes, one that cannot be opened and a missing one; blocks of 2, a connection of 2 | descriptor sets, whole replies, a download ends only with the server, the last client is served | 73,925 |
| `select_reply` | 2 clients, nobody killed | **violated**: `OwnReply` | |

### Why the bounds are enough

Ring: four slots give a search a middle, a wrap-around, a collision and a peer
in between; a second search is enough to meet the first in a socket. Startup:
three peers are the least with a successor that differs from the predecessor and
a third party; one restart shows what a second registration does.
CSMA: two devices are the least that collide, back off and hear each other, and
the theorems hold for any number of them; three packets are one in flight, one that waits behind it and
one of the other device; the sizes are one that is
padded, the largest that leaves room for an LLC/SNAP header, and the first that
leaves none. A retry that may
be made and one that aborts are in `csma_safety`, retries up to the ceiling and
beyond it in `csma_liveness`. Integers of 3 bits stand for 32: the
power of two that no longer fits is reached after 3 retries without the ceiling,
after 2 at most with it. `OneSwitch` keeps the switches from multiplying each
other: of the send side, receive side, encapsulation and promiscuous callback of
`d1` one at a time is away from its start, each of them at any moment; the theorems
need no such bound. `d2` is sent nothing that is for another host, so its callback
makes no difference (`NoCallback`).
`SendFrom` of a READY device whose queue is not empty, which needs more packets,
is covered by the proofs alone. With `Packet` bounded the runs end, whence no
deadlock check; in the overlay nobody is obliged to type, and in the transfer
downloads are bounded by `MaxDownloads`, so there too a stop is legal.
Transfer: three bytes in blocks of two give a full and a partial block; a
connection of two blocks the second until something was read; a third download with a limit of two
processes meets the zombies of the others. With a header: two digits to base 2
(the size 3) are the least whose first part is another number (1), a header of
three bytes leaves a first read that ends in the digits, at the newline, or takes
all; two downloads are enough, as clients have directories of their own. With 2
for 100 percent and ints up to 6, the product of three bytes just fits, and that of
the four or five which a header read in part makes of them wraps round; that the product of
a whole file does not fit is covered by the proof. A missing file, of which the
client sees what it sees of a server killed early, is in `transfer`.
Select server: two clients are the least that can take each other's reply and
reuse a descriptor; a header of two bytes is the least that can be read in parts, and
a reply of three or four blocks meets a connection of one; a file that cannot be
opened leaves a reply that is a header alone. A server that
has ended stops, whence no deadlock check.

### What the violated runs show

`startup_race`: the comment above the fork in `server.cpp` (line 332) says
"topology ready now". It is not, for a peer whose first datagram was a search by
its configured neighbour. Its own configuration comes later, contains neither
word the loop looks for, and is dropped. No loss is involved.

`csma_wedge`: the comment in `SendFrom` (lines 949-951) says a packet queued while
the device is not idle is started when the current packet finished. If the send
side is disabled when the backoff ends, `TransmitStart` drops the packet and
returns (428-433): the state stays BACKOFF, no event is scheduled, and after
`SetSendEnable (true)` the device queues packets until the queue is full.

`select_reply`: the client's comment after it has written the name
(`client.cpp:70`) says it "will receive the size of the file". A second client
that connects before the first request is served gets the answer to it, and the
first gets nothing. `LastIsServed` is what does hold: the client that connected
last is answered. And even its download does not end while the server runs
(`EndOnlyWithServer`), as nothing closes a connection after a reply.

### Fairness

- `PeerRing`, `Startup`: weak fairness of each process's own steps (the loops
  never stop and nothing in them waits except `recvfrom`). Strong fairness of
  `Arrive`, per search and per registration or configuration, stands for a
  network that does not starve a datagram whose destination is ready again and
  again. The code retries nothing, so liveness is only claimed for a *patient*
  network that keeps a datagram until it is wanted; the safety runs use the real
  one. Nobody is obliged to type; in `startup_ready` each peer is started.
- `CsmaNetDevice`, `CsmaLink`: weak fairness of every scheduled event, the
  deliveries and the end of a propagation included; that is what
  `Simulator::Run` does. Nobody is obliged to send or to switch.
- `FileTransfer`: weak fairness of every process's steps; `SizedTransfer`: of every
  process (parent, children, clients). No fairness of connecting and killing.
- `SelectServer`: weak fairness of the loop, which waits for nothing but `select`
  and room for a write, and of every client's reads; none of connecting and
  killing.

## Proofs

Checked by TLAPS for all values of the constants that satisfy the named
assumptions. Every invariant and every action property of the passing runs is a
theorem here; what needs a hypothesis beyond the assumptions says so.

**Overlay** (`OverlayProofs`): the home of a file and the last sharer are slots,
the last sharer shares, and the successor of a slot is one step nearer to any
other slot. That the least identifier exists is `LeastNat`: a set of naturals that
is not empty has a least element, because the naturals are well founded.

**PeerRing** (`PeerRingProofs`), from `NAssumption` (a ring has a peer), `NodeId`
sorted, and the typing of the constants: type correctness, `OneDatagramPerSearch`,
`AnswersAreTrue`, `NoPeerAskedTwice`, and `Spec => ImplementsLookup`. None is
inductive alone. The invariant adds that every datagram belongs to the one
search with its identity, which was typed and whose file and asker it carries
(`AskedOnce`, `DgramsAreAsked`), and that every peer that looked in its index for a
shared file is further from the file's home, along the successors, than the peer
the search is addressed to (`SearchApproachesHome`). A peer that does not find
the file is not its home, so forwarding brings the search one step nearer and it
cannot come back to a peer that looked. The refinement
maps an answer to the moment it is printed; printing is the only step that is
not a stutter besides typing.

**Startup** (`StartupProofs`), from the finiteness of `Peer`: `TypeOK`,
`ConfiguredAfterAll`, `OneRing`, `AnswersAreTrue`. The invariant is
`IInv == TypeOK /\ Array /\ Sending /\ FromSlots /\ AnswersAreTrue /\ Once`: the
array has room for the registrations to come, and is full and sorted when the
last was taken (`Array`); `sent` belongs to the phase (`Sending`); a
configuration, on its way or taken, is that of a slot of the final array with
its receiver's address (`FromSlots`), hence there is none before all have
registered, and a peer that took a search for its configuration has an empty
index and answers nothing; a peer that was started once has at most one registration, on
its way or in the array (`Once`). When all are configured and were started
once, the array therefore numbers the peers (`Numbering`; `Peer` is finite, and as
large as the array). `HopsAre` says which slot k hops along the
successors reach, by least counterexample, and the lemmas of `OverlayProofs` place
every file.

**CsmaNetDevice** (`CsmaNetDeviceProofs`), from the assumptions on queue limit and
retries: `TypeOK`, `OneSender`, `EventsFindTheirState` and `InOrder` together are
inductive, and none is alone: `OneSender` needs that a `TransmitCompleteEvent`
finds its device BUSY, which is `EventsFindTheirState`; that needs `OneSender` and
the types; `InOrder` needs that a READY device has no current packet. Two lemmas
say what `TransmitStart` does to the order of packets (`TransmitStartOrder`) and
in which state it leaves the device (`TransmitStartOutcome`); each of its three
callers uses them through `TransmitStartIInv`. The theorems include calls of
`SetSendEnable`, refusals of the channel and `MaxRetries = 0`. `StopsHaveCauses`
is the action property `StopHasCause`: of all steps, only a
`TransmitStart` with the send side disabled or the wire refused leaves a device
that was going, or had an empty queue, without an event to come and work to do.
Two theorems need an assumption on the instance, and fail without it: `FreshRetries`
that the channel refuses nothing (`~MayDetach`), `ReadyIsIdle` that in addition
nobody disables the send side (`~MayDisable`): both kinds of dropping return
without resetting the retries or looking at the queue.

**CsmaLink** (`CsmaLinkProofs`), from the assumptions on addresses, payloads (EtherTypes
are no lengths, sizes are what `GetMtu` permits) and `Mtu`: `LinkTypeOK`, `FramesIntact`, and `LinkSpec => Spec`, which carries every
theorem about the transmit side over to the composition. The invariant `LinkInv`
adds to `LinkTypeOK` that accepted packets have frames made by `AddHeader` in one
of the modes (`AcceptedFramed`), that the packet the channel carries was accepted
(`WireFramed`: the packet a device transmits is its current one, and that one is in
`accepted` by `InOrder`), and that what was heard is intact (`HeardIntact`).
`FrameRoundTrip` is the lemma about `AddHeader` and `Unframed`. Its exception is
the one of the property: a packet that leaves no room for its LLC/SNAP header may be
passed up with its length for its protocol (`Misread`). The code has such packets: the
assertion of `AddHeader` (`csma-net-device.cc`, line 349) says that with its
LLC/SNAP header a packet is no longer than `GetMtu ()`, but `GetMtu` (lines
226-231) returns the same 1500 in both encapsulations, so the layers above may hand
over 1493 to 1500 bytes, for which it fails. `csma_safety` has a packet of 1493.
`HeaderFitsWithRoom` gives the condition under which the assertion (`HeaderFits`)
is true: all sizes leave that room.

`WireOrders` proves `OneOrder`. Its invariant, `OrderInv`, says that no packet is
accepted twice (`AcceptedOnce`), that what a device has heard another device is done with
(`HeardFinished`), that the channel carries the current packet of its sender
while it transmits (`CarriesCurrent`), and while it delivers, a packet later than
all that was heard of its sender, after which nobody has heard another
(`DeliversLatest`). With it every place of every `heard` stays in order
(`AllInPlace`): a packet that is heard comes last everywhere.
`BackoffLengthens` proves the action property `BackoffGrows` where `BackoffsFit`:
the power of two fits the integers (below the ceiling, or because the
retries end before), and `MinSlots = 1`, as the constructor of `Backoff` sets it. With a
greater least number of slots the first ranges are upside down, and the property is
false. Powers of two grow because they count subsets. The invariant adds that
a device which waits for another try has counted one (`Counted`); a device that
gave a packet up waits with another one, since none is accepted twice.

**FileTransfer** (`FileTransferProofs`), from the assumptions on contents,
directories and sizes: `OnlySourceBytes` and `EndMeansAll`. The invariant `FInv` says of
each connection that it waits once and has a child only afterwards (`Places`), and
of each download (`Download`) that the bytes on the way are those of the server's
file that follow what the client has written, and together as many as the child has
read; a child that has exited has read all. `WriteAtPlace` is the lemma that a write of such
bytes leaves a file the server's, whatever another download has truncated or
written there.

`TypeOK` and `WholeWhenQuiet` need more: `TInv` adds the bounds of the variables
(`Bounds`), that the file of a client that reads is there (`Opened`), and `Covered`: of
a file for which no download has failed, every byte is on disk or awaited by a
client that has still to write it. A second download truncates the file, but has
all of it before it. When nobody reads it any more, all bytes are on disk.

**SizedTransfer** (`SizedTransferProofs`), for clients with a directory each
(`OwnDirectories`): `AfterTheHeader` and `PercentageTells`. That these clients give a
mode for the files they make is an assumption of the model (`ModeAssumption`), as
`client.cpp` does. To the server these clients are those of
`FileTransfer`, so `FInv` is taken over by an instance of `FileTransferProofs`, in
which the offset of a client counts the bytes of the header as well and nothing
is kept on disk. `Follows` adds what is on disk: the bytes after those the first
read took. The rest is about numbers: `Digits` writes a number in any base
and `atoi` reads it back, also with what follows it, and a part of
the digits reads as a number that is no greater. With the whole header the last
quotient is 100 only where the product fits and every byte counted has come
(`PercentFits`, `PercentWraps`); with a part of it, more bytes are counted than the
size read from it, and the truncated quotient is 100 or more. It can be exactly 100
of a corrupt file: 1020 bytes of the header read, the other 4 written before 2000
bytes of a file, is 200400 / 2000. So a percentage of 100 says that the file is good
only of a header that was read whole. `Digits` and `atoi` are recursive functions:
`HasSolution` shows that a recursion over the naturals has a solution, and what it
computes is proved by least counterexample.

**SelectServer** (`SelectServerProofs`), from the finiteness of `Client`:
`TypeOK`, `MasterIsOpen`, `WholeReplies` and `EndOnlyWithServer`. The invariant `SInv` says that a connection
is in the backlog or at one descriptor, once, and a client that still reads has
one (`OnePlace`); that what `select` found is still true when the loop comes to
it (`PassIsTrue`), so a descriptor is closed only for a client that has gone; and
that nothing is open once the server has ended. There are as many descriptors as
clients, so a connection that waits finds a free one (`FreeDescriptor`, by the
pigeonhole principle), and the least of them exists (`LeastNat`).
`WholeReplies` and `TypeOK` need `WInv`, which adds to `SInv` that a client that is
not idle has a name (`Named`), the types of what is sent and read (`Bytes`), that a
reply is being written only to a descriptor that is open (`SendingTo`), and that
requests and replies are for the names of their clients, which they keep (`Asked`).
The replies of a connection are joined by a recursive function; a lemma says
what one more reply adds.

Only model-checked: all liveness (`SharedFileIsFound`, `UnsharedSearchNeverEnds`,
`EveryPeerConfigured`, `EveryPacketFinished`, `EverybodyHears`, and that downloads end
and the last client is served), which is out of the prover's reach, as is ENABLED; and the three violated
properties, which TLC refutes. The library's induction theorems take an operator
as a parameter, which the provers cannot instantiate; `LeastNat`, which takes a
set, does their work. The assumptions on constants are evaluated by TLC in each run.

## Not modelled

- Text: datagrams are records. The 1000 bytes `recvfrom` takes (`server.cpp:177`),
  the parsing of names with spaces, and a `bind` that fails (173) are listed as
  hazards without a property.
- Simulated time. A backoff is a number of slots, and any scheduled event may be
  next; the product with the slot time, and the draw itself, are left out.
- Of `csma-net-device.cc`: attributes, getters, trace sources, the registration with
  the node, and `SetMtu` (`Mtu` is a constant: a change of it within a run would only
  move the sizes for which the assertion of `AddHeader` fails), the checksum, and several channels or devices attached and detached one by one; a
  detached device is what makes the channel refuse (`MayDetach`). The second
  constructor of `Backoff`, which leaves the retries unset, is called by nobody.
- Of the lab test: `md5sum` and times.
- `no.py`, the scenarios and `FIS_Server.cpp`, for the reasons in PROJECT.json: a
  computation in floating point over one file, straight-line scripts, and a
  fragment that does not compile.
- Different files of one name on two servers, downloaded into one directory at
  once.

## Plan

1. An abstract specification of a download (nothing, a part, all) that both
   `FileTransfer` and `SizedTransfer` implement, and a proof that they do, from
   `FInv` and `HInv`.
2. The datagram's 1000 bytes: entries of a configuration with a length.
