# CodeTest in TLA+

The repository is a collection of C programs. The largest body of original
concurrent code in it is the emergency-broadcast terminal in
`src/gs_em_protocol`: five threads and three in the library below them, sharing
a connection, two message queues and a byte stream. Next to it stand an RTSP
server, `ashwing-rtspserver`, whose main thread, schedule thread and camera
thread share a schedule list and a frame ring without a lock, and the small
kernel driver `globalfifo`. This project models these three. Line numbers refer to `src/`.

## Inventory

### The terminal: `gs_em_protocol`

| Part | Source | State it keeps | Operations |
| --- | --- | --- | --- |
| ring buffer | `comm/gs_comm.c` 593-690 | array, reader and writer index, full flag | create, write, read, used size |
| message queues | `comm/gs_comm.c` 470-581 | System V queue, its limit | create, send without waiting, receive by type |
| user buffer | `comm/gs_comm.c` 389-454 | a buffer and how much of it is used | create, hand out the next piece, free the whole |
| TCP engine | `prot_proc/gs_tcp.c` | handle, connection flag, server address, socket | create, destroy, reconfigure, mark down; monitor, receive and send threads |
| packet framing | `prot_proc/gs_tcp.c` 275-350 | parser flags, bytes of the packet so far | one byte at a time; reset when the connection is down |
| IP protocol codec | `em_broadcast/gs_em_ip_prot.c` | none | pack, parse, checksum |
| protocol task | `prot_proc/gs_dev_if.c` | run flag, session number, registered address (a file) | create, destroy, reconnect; heartbeat, command and post-back threads |
| demo | `demo/main.c` | the device's parameters | callbacks, signal handler |
| test server | `tcp_server/gs_tcp_server.c` | list of clients | accept, broadcast a command, drop a client |

How they interact. The protocol thread creates the engine and two worker
threads. It puts a heartbeat into the send queue; the engine's send thread
sends it; the receive thread puts the answer into the receive queue, where the
protocol thread looks for it once a second. A command takes the same way to the
command thread; its response is queued for sending *before* the command is
queued for the device. A command may change the server address: then the command
thread calls `GS_EM_RemoteReConnect`, which copies the address into the handle
and marks the connection down. The monitor sees the flag, replaces the socket
and dials. The flag, the address and the descriptor are plain variables that
several threads read and write without a lock.

What is hard about it, and what makes each part correct:

- *TCP engine.* Threads act on a descriptor after they looked at the flag; a
  failure met on the old socket may clear the flag of the new one; the address
  is copied while it is read; queues fill; threads are cancelled wherever they
  block. Correct when the flag promises a connected socket, commands and
  responses keep their order and are not doubled, a lost connection is noticed
  and comes back at the configured address, and destruction returns.
- *Packet framing.* `read` cuts the stream anywhere and content may look like
  the start of a packet. Correct when exactly the packets sent are handed on.
- *Ring buffer.* Indices that meet mean full or empty; copies wrap. Correct when
  it is a bounded first-in first-out queue.
- *Protocol task.* Answers come late, twice, never, or from another server; the
  address changes while the monitor dials; destruction races everything.
  Correct when a silent server is noticed, commands are applied once and in
  order, no thread outlives what it uses, and destruction returns.
- *Codec, user buffer, demo, test server.* Sequential conversions, and programs
  around the terminal. Not modelled.

### The RTSP server: `ashwing-rtspserver`

| Part | Source | State it keeps | Operations |
| --- | --- | --- | --- |
| event loop | `rtspservice.c` 1640-1829 | list of connections | accept, read, end a connection |
| RTSP sessions | `rtspservice.c` 891-1494 | state of each session, its RTP sessions | OPTIONS, SETUP, PLAY, TEARDOWN |
| ports | `rtspservice.c` 119-134, 1769-1777 | the free ports | take a pair, refill all |
| schedule list | `rtsputils.c` 216-440 | entries: valid, RTP session, BeginFrame; `g_s32DoPlay` | add, start, remove; the pass of the schedule thread |
| RTP | `rtputils.c` 98-335 | handles with socket and sequence number | create, delete, send a frame as packets |
| frame ring | `ringfifo.c` | slots, two indices, count | put, get |
| camera | `rtspservice.c` 1845-1895 | none | a frame for each turn while someone plays |

The main thread reads requests. SETUP creates an RTP session with a handle and a
port and puts it into the schedule list; PLAY starts it and counts the players;
TEARDOWN, or the end of the connection, deletes the handle and takes the entry
out. The schedule thread goes round the list, takes a frame from the ring and
sends it to every entry that plays, from its first I frame on. The camera thread
fills the ring while the count of players is positive. There is a mutex and
nobody takes it.

Hard: an entry is valid before it is filled in; a handle is deleted while the
thread that found it valid is about to use it; an entry changes hands while
BeginFrame is being set in it; `n ++` and `n --` overwrite each other; the slot
that is being sent counts as free. Correct when every session has an entry of
its own, players are counted exactly, ports come back, a deleted handle is used
in no visit that began after the deletion, a stream begins with an I frame, the
count of the ring stays in range, a frame being sent is whole, and what is not
sent leaves a gap in the numbers.

### Other parts

- `baohua_driver_study/globalfifo/globalfifo.c`: a character device. State: the
  stored bytes and two wait queues. Operations: read, write, poll, clear. Hard:
  sleeping and waking, signals. Correct when no wake-up is lost and the device
  is a queue.
- `hisi_rtspserver`: a later copy of `ashwing-rtspserver` around the encoder of a
  vendor. Not modelled a second time.
- `work_test`: modulator firmware around registers, parameter files and web pages,
  with libraries that are not in the repository. Its switch between a main and a
  backup transport stream (`multi_ts_backup.c`) is decided and applied by one
  message loop.
- Vendored or adapted programs (`vsftpd-2.3.4`, `rtspServer`, `rtsp_server`, V4L2
  capture programs), generated font tables (`lib_font_print`), and exercises of a
  few lines each. Not modelled: they are other projects' code, or have no state
  worth checking.

`PROJECT.json` lists every component with its sources and its status.

## Modules

```
ByteQueue  <--- implemented by ---  RingBuffer          RingBuffer_proofs
    ^  ^--- Put, Get used by ------ PacketFramer        PacketFramer_proofs
    |------ IsAQueue of ----------- GlobalFifo          GlobalFifo_proofs

MsgQueue <- GsTcp <- DevIf          (EXTENDS)           GsTcp_proofs <- DevIf_proofs

PacketArrivals <--- implemented by --- PacketFramer
CommandChannel <--- implemented by --- DevIf
FrameQueue     <--- implemented by --- RingFifo, and so by RtspStream

RingFifo <- RtspStream              (EXTENDS)           RingFifo_proofs <- RtspStream_proofs
RtspServer                                                  RtspServer_proofs
```

**ByteQueue** is abstract: a bounded first-in first-out queue of bytes. A write
keeps the prefix that fits, a read hands out at most what is stored.

**RingBuffer** has the array, indices and full flag of the code. A call is one
step, for the receive thread is its only user. `FirstPart` is the length
expression of line 655, negative values included. Memory starts arbitrary
(`malloc`). `Contents` is the refinement mapping to `ByteQueue`.

**MsgQueue** gives the System V queues as sequences: a send that does not fit
leaves the queue as it was, a receive takes the oldest message of a type.

**GsTcp** is the engine. `mon`, `rcv` and `snd` are the three threads, each with
a program counter that names the point before its next access to shared state.

| Thread | Steps | Lines of `gs_tcp.c` |
| --- | --- | --- |
| monitor | `MonRenew` (close, new socket), `MonPort`, `MonIp` (the two halves of the address), `MonConnectOk`, `MonConnectFail` (doubled pause), `MonPublish` | 36-108 |
| receive | `RcvCheck`, `RcvRead`, `RcvTimeout`, `RcvFail`, `RcvClear`, and per packet `RcvRefuse`, `RcvQuit`, `RcvRespond`, `RcvDeliver`, `RcvReply` | 124-353 |
| send | `SndCheck`, `SndTake`, `SndDeliver`, `SndLose`, `SndFail`, `SndClear` | 154-382 |
| callers | `TcpCreate`, `TcpCancel`, `ThreadEnds`, `TcpFree`, `SetConnStatFalse`, `ReconfigBegin`, `ReconfigEnd` | 384-463 |

`sock` is the socket behind the descriptor *number*: the kernel hands the number
out again, so a thread that saw the flag before `MonRenew` acts on the new
socket. `SndLose` is a `send` whose message never arrives whole. A packet is a
kind and a session number: `request`, `reply` (to a heartbeat), `refused`
(checksum or size: an error response, which one does not matter), `unsupported`
(the parser ends the process). `ServerSends` and `PeerCloses` are the
environment; a reset may discard the end of what was under way, or all of it.

**DevIf** extends `GsTcp` with the threads of `gs_dev_if.c`: `Dev...` is
`GS_ProtProcThread` (443-572), `Apply...` and `ReConnect...` are
`GS_ApplyParamThread` and `GS_EM_RemoteReConnect` (209-441, 616-637), `Post...`
is `GS_PostBackThread` (131-206). Every call into the engine is an action of
`GsTcp` conjoined with the caller's step: the composition uses the engine by
construction, and no property is about that. `lTimeOut` is counted as `while (lTimeOut --)`
does, down to -1. `owed` lets the server answer only heartbeats it received on
this connection.

**PacketFramer** models the arrival of packets by bytes: the ring buffer (as the
`ByteQueue` that `RingBuffer` implements) and the parser of lines 294-329. The header
is `HEADER` bytes, three in the run and twelve in the code. The monitor has its own
steps, for a connection carries bytes from `connect` on (`MonConnectOk`), while
`GS_TCP_ConnectRetry` sleeps before line 99 raises the flag (`MonPublish`). A thread
that passed line 287 before the socket was replaced reads from the new one in that time;
it then sees the flag down and resets the parser (344-347) with the front of a packet in
it (`RcvSeesDown`). `stream`, `handed` and `ends` are histories: the bytes of the packets
sent and of those handed on, and the places in the stream where packets end. So is
`mixed`: the connection was made while bytes of the last one were held, or lost the front
of a packet in the way just described. `Current` says that the monitor will not
replace the connection, `Reading` that the thread reads from it or may come to.

**PacketArrivals** is abstract: whole packets on the wire and in a chunk; a chunk is
read from the front of the wire when the last one is used up, its packets are handed on
one by one, and packets are lost from the end of the wire. `PacketFramer` implements it
with what its bytes amount to: `Within` counts the packets that end at or before a place in the stream,
`WholeInHand` are those that the thread holds to their last byte, `WholeOnWire` those of
which it will if nothing is lost; what nobody will read counts as lost. `GsTcp` takes
whole packets for granted, and this is what the framing of the bytes provides, with the
exception of `blurred` connections (`mixed`).

**CommandChannel** is abstract too, and says what the terminal as a whole promises for
commands: they are numbered as given, the first of those under way is applied next, and
any may be lost. `DevIf` implements it: `given` is the number the server gave last,
`underway` are the numbers on the wire, in the chunk, in the device's queue and in the
command thread's hand (`Underway`), `applied` is the one that reached the device last.
Connections, threads, queues and restarts of the task are hidden.

**GlobalFifo** has processes that read, write, poll, clear and get signals. What
happens under the mutex is one step. A process counts as asleep from the moment
it sets its task state, before it drops the mutex. Calls to kernel primitives
are modelled from their use.

**RtspServer** is the control side of the RTSP server: main and the schedule
thread over the schedule list. A step of a thread is one access to what both
use.

| Thread | Steps | Lines |
| --- | --- | --- |
| main, connections | `Accept`, `Closed`, `Truncated`, `Delete`, `Unschedule`, `AbortEnds` | `rtspservice.c` 1568-1829 |
| main, requests | `Options`, `SetupMalformed`, `SetupRefused`, `Setup`, `ScheduleFill`, `PlayRefused`, `Play`, `ScheduleStart`, `StartCounts`, `StartSkips`, `PlayReplies`, `Teardown`, `TeardownEnds` | `rtspservice.c` 891-1494, `rtsputils.c` 392-440 |
| schedule thread | `Gate` (a pass begins), `TestValid`, `LookPause`, `MarkBegin`, `Send`, `SendEnds` | `rtsputils.c` 236-389 |

The state is the code's, faults included: an RTP session has the `entry` that
`calloc` made 0 even when its SETUP was refused, `entry` -1 indexes the array when
the schedule list was full, PLAY of a session starts the session its entry points to,
and `up` becomes FALSE where a NULL pointer is followed. An RTP session's handle
is `none`, `live` or `dead` (deleted); a visit that works with a dead one reads
freed memory. `irregular`, `unplayed`, `crossed`, `smudged` and `begun` are history
variables. They state the conditions under which a property holds: `Regular` says
that every SETUP so far was granted and the first of its connection, `Balanced`
that endings subtracted what they had added, `Disturbed` that main was at the
entry during this visit.

**RingFifo** is `ringfifo.c`. The load and the store of `n` are two steps, a
`memcpy` into a slot has a beginning and an end, and the count can lose an update
(`lost`). `ringget` returns the address of the slot, so `held` is the time in which
the schedule thread works with memory that the ring counts as free. The size of a
frame is its number of packets.

**FrameQueue** is abstract: a bounded queue of whole frames, numbered as they are put,
which promises nothing after `Break`. `RingFifo` implements it: the queue is what the
slots from `iget` on hold (`Waiting`), a frame enters with the camera's store to `n` and
leaves when `ringget` moves `iget`, and `Break` is the first update of `n` that is lost.

**RtspStream** puts the ring between the camera thread, which runs while the viewer
watches, and the schedule thread, which cuts each frame into packets and reads the
slot for each of them (`SendPart`). `SendFails` is a `sendto` that fails: the rest of
the frame is not sent, and the number is used up. The viewer comes and goes; the
ring keeps what the last one left, for `ringreset;` calls nothing.

The `MC...` modules only give values to constants. Operators such as
`MonRenewAlways` or `DevPollForEver` that no action uses are faulty variants
of the definition below them: each shows that a property would notice that bug.

## Runs

| Run | Asks | States |
| --- | --- | --- |
| `ring_buffer` | does the ring buffer implement `ByteQueue`? | 384 |
| `tcp_engine` | are commands and responses in order and not doubled (`CommandsInOrder`, `ResponsesInOrder`)? does the flag promise a connected socket (`UpMeansConnected`), and is the socket left alone while it is up (`DialOnlyWhileDown`)? | 1.8 million |
| `tcp_live` | does a lost connection come back (`ComesBack`), where it is configured (`ConnectsWhereConfigured`), and is its loss noticed (`LossNoticed`)? | 45 thousand |
| `dev_lifetime` | does no thread outlive the handle and queues it uses, and does `GS_EM_ProtProcTaskDestroy` return? | 250 thousand |
| `dev_commands` | are commands applied once and in order, over reconfiguration, reconnection and restart? is the whole a channel in which a lost command never comes back (`ImplementsCommandChannel`)? | 939 thousand |
| `dev_silent` | is a server that no longer answers noticed? | 105 thousand |
| `framer` | are the packets handed on those sent, is no byte lost, is everything delivered, whenever connections go and come, and from the bytes on that arrive before the flag is raised? do the bytes amount to the whole packets of `PacketArrivals` (`ImplementsArrivals`)? | 632 thousand |
| `global_fifo` | is no wake-up lost, and is the device a queue? | 49 thousand |
| `rtsp_server` | does every session keep an entry of its own (`OwnEntry`), are players counted (`CountIsExact`), do ports come back (`PortsComeBack`), is a deleted handle used only in a visit main disturbed (`DeadHandleOnlyInRace`), does a stream begin with an I frame (`BeginsWithI`)? | 2.0 million |
| `rtsp_stream` | does the unlocked count stay in range (`CountInRange`), is the frame being sent whole (`LentIntact`), does what is not sent leave a gap (`GapsAreVisible`), is every frame taken (`FrameTaken`)? is the ring a queue of whole frames until an update is lost (`ImplementsFrameQueue`)? | 505 thousand |

The runs that follow expect a violation: the property states what a comment
says, and the counterexample is what the code does.

| Run | The repository says | The code does |
| --- | --- | --- |
| `answered_last_poll` | `gs_dev_if.c:542`, "heartbeat answer timed out" | an answer found at the last poll leaves the count at 0, and `lTimeOut <= 0` takes it for a timeout: a good connection is dropped |
| `rtsp_uncounted` | `rtsputils.c:275`, "when a client is connected, g_s32DoPlay is greater than zero" | every connection that breaks off subtracts one (`rtspservice.c:1709`), also one that never played: the count is 0 with a client playing, the camera and the schedule thread stop, and the ports in use are handed out again |

Further observations came out of the modelling. The models contain each of these
behaviours, and the properties are stated so that they name the exception:

- A reconnection triggered while the monitor dials is lost, for the flag is down
  already (`gs_dev_if.c:635`): the terminal ends up connected to the old address
  (`ConnectsWhereConfigured` excepts an address changed meanwhile).
- SUCCESS is queued before the command is; when the device's queue is full the
  command is dropped and the result ignored (`gs_tcp.c:221-241`).
- The parser is reset only by a thread that *sees* the flag down. If the next
  connection is up before, the halves of two packets are joined (`mixed` in
  `PacketFramer`).
- Conversely, bytes of a new connection can be read before its flag is raised
  (`gs_tcp.c:99`), and are thrown away by the reset (344-347): the rest of the packet is
  then taken for noise until its next tag (`mixed` as well).
- A late answer of one server registers the address of another
  (`gs_dev_if.c:531-537`), overlapping increments give two requests one session
  number (175, 184, 515), and a packet with an unsupported command ends the
  process (`gs_em_ip_prot.c:1038-1070`).
- RTSP: a refused SETUP leaves a session whose end removes entry 0, whoever has it
  (`rtspservice.c:933`); entries are valid before they are filled in
  (`rtsputils.c:400`); deleting a handle races sending with it (`rtspservice.c:1700`);
  the end of the last of several connections follows a NULL pointer in a message
  (1742); ports in use by a client that does not play yet go back into the pool
  (1769-1777); a connection beyond the limit is accepted and never closed (1818).

### Bounds

- `MaxWire`, `MaxRequest`: packets under way and requests of the server. Two
  requests suffice for order and duplication, which are about pairs; one chunk
  can then hold two packets, and one packet can wait behind it.
- `MaxQueueSize` 1 or 2: both queues are empty, partly filled and full. `tcp_engine`
  has two, so that the order within a queue counts.
- `MAXSLEEP` 1 or 2 in place of 16: one or two calls of `connect` in a row.
- `DEV_HEARTBEAT_TIMEOUT` 1 or 2: with 2 an answer can come at the first poll,
  at the last one or not at all.
- `Addr`: two servers that differ in both halves, so that an address copied half
  way is neither, in `tcp_live`; two servers of one host in `dev_commands`, where
  a command must be able to change the server and no property is about torn addresses;
  one server elsewhere.
- `MaxOwed` 1: a heartbeat beyond it is one the server never answers. It is 0 in
  `dev_commands`, where the server sends no answers.
- `MaxSent` 2, `MaxConnections` 3 in `framer`: a packet left over from one
  connection can meet one of the next, and the connection after that is clean
  again. One of the two packets has the tag in its content.
- `globalfifo`: two bytes of memory, three processes: two on one side and one
  on the other. Processes are symmetric (only safety is checked there).
- `ring_buffer`: three bytes, inputs up to one byte longer than that.

- `rtsp_server`: three clients for two connections, entries and pairs of ports, so
  that each of them runs out and is reused; two SETUPs that are granted and the first
  of their connection, and one that is not (`MaxRegular`, `MaxIrregular`). After an
  irregular one the schedule thread rests: properties about it assume `Regular`, and
  those that do not concern main alone. The count may fall one below zero
  (`MaxBelow`). Clients are symmetric (only safety is checked).
- `rtsp_stream`: three slots and four frames, so that both indices come round and the
  lent slot can be overwritten; an I frame of two packets and a P frame of one; three
  sequence numbers, so that they come round too; a viewer who comes twice.

Deadlock is checked except in `tcp_engine` and `dev_lifetime`, where the process
may exit (`GS_COMM_ErrQuit`), and in the runs of the RTSP server, where it may die or
its bounds are used up and nobody plays; after that nothing happens.

### Fairness

`TcpFairness`: the operating system schedules the monitor and the receive thread
(weak fairness: each is one thread, whose next step stays enabled until it takes
it), a cancelled thread comes to a cancellation point, and a joined one is freed.
`connect` succeeds *strongly fairly*: a server dialled for ever answers some
day; without that nothing can come back. The send thread has **no** fairness:
`select` without a timeout (line 163) may block for ever when the server does not
read. `FairSpec` of `DevIf` adds the task's threads. Nothing makes the device ask,
the server answer, or the connection fail. `ReadingServerSpec` adds fairness of the
send thread, and only `dev_silent` uses it: the heartbeat notices a server that
reads but does not answer. For a server that does not even read, the property is
false: no heartbeat can be queued once the queue is full, so none times out.

`RtspStream` assumes weak fairness of the schedule thread: it polls with
`nanosleep` and sends over UDP, so nothing but the scheduler holds it up. Nothing
is assumed of the camera, the viewer, or the network. `RtspServer` states safety
only and needs no fairness.

## Proofs

TLAPS proves the following for every value of the constants that meets the named
assumptions (sizes are positive, addresses are records of numbers, messages of
the task are among `ClientMsg`, none of these is a response to the server, and packets
are well formed).

- **RingBuffer_proofs**: `RingBufferTypeOK`, `RingBufferFullFlag` and
  `RingBufferImplementsQueue`. The invariant is `TypeOK /\ FullMeansIndicesMeet`.
  Without the second part the used size after a write that fills the buffer would
  be unknown. The step proof computes the memory after both `memcpy` calls slot by
  slot (`WriteMemory`) and compares it with the abstract queue; the modulus is
  eliminated first (`ModOnce`, `SameSlot`), for indices never pass the end twice.
- **GsTcp_proofs**: `GsTcpTypeOK`, `GsTcpUpMeansConnected`,
  `GsTcpDialOnlyWhileDown`, `GsTcpCommandsInOrder`, `GsTcpResponsesInOrder`.
  `UpMeansConnected` is not inductive: `MonPublish`
  raises the flag, so the socket must be connected at that point
  (`PublishesConnected`), and `MonRenew` must not run meanwhile, which holds
  because the monitor is away from its check only while the flag is down
  (`DialOnlyWhileDown`). `TcpCreate` starts a new monitor; that no old one is in
  the middle of dialling is `DialerIsAlive`. `ChunkInHand` lets the receive thread
  take the head of its chunk. `TcpInvariant` is stated for steps of `TcpNext` or
  the end of the process, so that the composition can use it. The order properties
  follow from `OrderInv`: within each queue, the chunk and the wire numbers increase
  (`PartsOrdered`), every number nearer to the device, or to the server for responses,
  is below those farther away, none is above the number the server gave last
  (`NosInOrder`), and the receive thread delivers only a request, and reads only when its
  chunk is used up (`ChunkInv`). The lemmas before it say what cutting, appending and
  taking do to an ordered sequence.
- **PacketFramer_proofs**: `PacketFramerTypeOK`, `PacketFramerPacketsAreThoseSent`,
  `PacketFramerNoByteLost`, for every length of header and buffer, every packet that has
  the tag in front and its length in the header's last byte, and every cut of the
  stream. The properties are about whole packets, the steps about single bytes;
  `FramerInv` ties them by places in the stream. `Cuts` says where in the stream each
  packet lies, `HandedOn` that what was handed on ends at such a place, `Follows` that
  the bytes handed on, in the parser, in the ring buffer and on the wire are together
  how the stream begins as long as somebody is `Reading`, and `InPlace` that the
  parser's flags and length are those of its place in the packet. So the byte that comes
  next is the packet's next one (`NextByte`), and the parser completes the packet with
  its last byte, neither before nor after (`ParserReads`). Content that looks like a tag
  does no harm, for the parser looks for one only where a packet begins. A new
  connection begins with nothing (`NothingInOrder`, `ConnectKeepsOrder`), a closed one
  keeps a beginning of what was under way (`WireCut`, `CloseKeepsOrder`), and from one
  the monitor will replace only a thread that is past its check still reads.
  `PacketFramerImplementsArrivals` rests on `PlacesInv`: the ends lie in the stream in
  order, and what was handed on ends where its last packet does. Then `Within` counts
  exactly the first packets (`WithinCounts`, by the least number principle), the packets
  handed on are among those read whole, which are among those left whole
  (`WholeCounted`), and a step that moves bytes moves whole packets as the two places
  move (`CountsFollowPlaces`): a read moves the first place and not the second, a byte
  that completes a packet neither, a closed connection the second only. When nobody
  reads any more, or the socket is replaced, all that was under way counts as lost
  (`NobodyReads`, `LosesAll`), and what is sent after that never counts
  (`SendsToNobody`).
- **DevIf_proofs**: the actions of `DevIf` are made of those of `GsTcp`, so every
  step is a step of `GsTcp`, the end of the process or a stutter by construction
  (`ProgramUsesEngine`). Hence what is proved of the engine's invariants holds of the
  program: `DevIfUpMeansConnected`, `DevIfDialOnlyWhileDown`,
  `DevIfResponsesInOrder`. `DevIfTypeOK` needs
  `PollCount`: the count is not negative while it is polled.
  `DevIfNoThreadOutlivesItsHandle` needs `ThreadOwnsHandle`, which ties the
  protocol thread's program counter to the state of the handle.
  `DevIfCommandsAppliedInOrder` adds the device to the engine's order (`AppliedOrder`): the
  command thread takes the oldest command (`OldestIsBelow`), and a step of the engine puts
  no number on its way that was not there, but one above the last given (`OnlyNewNos`).
  `DevIfImplementsCommandChannel` adds that no step brings back a number that is not under
  way: those under way are the one in hand and those of one ordered line (`CommandLineNos`,
  `UnderwayNos`), the command taken was in it (`TakenWasAhead`), a request of the server
  joins it at once (`RequestIsAhead`), and every other step leaves out some (`StepUsesChannel`).
  It needs that requests carry a number (`Numbered`, `HandNumbered`), for 0 stands for none.
- **GlobalFifo_proofs**: `GlobalFifoTypeOK`, `GlobalFifoNoReaderMissesData`,
  `GlobalFifoNoWriterMissesRoom`, `GlobalFifoIsAQueue`, from `OnItsWaitQueue`: a
  process asleep is on the wait queue that the operation it waits for wakes.

- **RingFifo_proofs**: `RingSafety`, from `RingInv`. Each thread may lose the other's
  update, but what it stores is what its own test allowed (`CountInv`), so the count
  stays in range for every number of slots. `OrderInv` says, while no update was lost,
  how the indices, the count and the numbers of the frames in the slots belong
  together (`SlotsHold`, `LentPlace`); `LentIntact` follows from it. Positions are
  compared by differences, which keeps the arithmetic linear.
  `RingFifoImplementsFrameQueue` follows a frame by its distance from `iget`: the i-th
  slot from there holds frame `Taken + i` (`FramePlaces`, `FrameHeld`), whole, and it is
  never the slot the camera copies into. So copying leaves the queue as it is
  (`CopyingStands`), a store to `n` appends (`StoringPuts`), a step of `iget` takes the
  head (`TestingGets`). It needs `ShapesInv`: a frame's header is one that was put.
- **RtspStream_proofs**: `RtspStreamTypeOK`, `RtspStreamCountInRange`,
  `RtspStreamLentIntact`, `RtspStreamGapsAreVisible`,
  `RtspStreamImplementsFrameQueue`. Every step is a step of the ring or
  leaves it alone (`StepIsRingStep`), so `RingInv` holds here too. `NumbersAgree` ties
  the next number to the last packet and the number of those missed, `PlaceAgrees` says
  where in the frame the sender is when none was missed.

- **RtspServer_proofs**: `RtspServerTypeOK`, `RtspServerOwnEntry`,
  `RtspServerDeadHandleOnlyInRace`, `RtspServerBeginsWithI`, `RtspServerCountIsExact`,
  `RtspServerPortsComeBack`: every property of the run. `OwnEntry` follows from `ListInv`,
  which says for each program counter of main who owns a session: the client whose list
  it is in (`ListsApart`, `ListsScheduled`), the entry that points to it
  (`EntriesOwned`), and main, which adds or removes it (`AddsNewest`, `TakesOut`). That
  SETUP finds an entry is a pigeonhole argument (`EntryLeft`): main takes at most as many
  connections as there are entries, and each entry in use is that of another one.
  `VisitInv` keeps what a visit of the schedule thread found unless main came to the
  entry, and `BeginInv` says for whom BeginFrame was set; with `EntriesOwned` they give the
  two properties of the visits. `CountInv` counts the sessions that play (`Playing`, a
  subset of a finite set) and says how far `g_s32DoPlay` is behind in the middle of PLAY and
  TEARDOWN; the ports come back because the count reaches 0 with the last session.

Model-checked only: every liveness property, because it rests on fairness and ENABLED,
which the prover does not handle, and the properties of the runs that expect a violation.

## Not modelled

- In the modelled parts: the text of packets and logs, the translation of each
  parameter of a command (one step), `GS_EM_RemoteReConnect` called from other
  threads of an application, failures of `malloc`, `pthread_create` and `msgget`
  (all end the process before there is anything to check), asynchronous
  notification and removal of the `globalfifo` device.
- In the terminal: an address given as a domain name (`gs_tcp.c:94-96`); packets lost
  from the front of a connection, or made up of misplaced bytes, in `GsTcp` (they are
  `mixed` in `PacketFramer`); the substring match of `GS_DEV_IsFirstRegister`
  (`gs_dev_if.c:84-99`), which compares addresses in the model; a cancellation of the
  command thread in the middle of a command (it takes effect at the next receive).
- In the other models: reads and writes of no bytes of the `globalfifo` device;
  `RtspSend` with a handle that is still NULL (`rtsputils.c:361-370`), which goes on
  sending in the model; frames of no bytes in the frame ring, and a memory that is not
  sequentially consistent.
- A second caller of `GS_TCP_Create` on the same queues: `gs_dev_if.c` makes one.
- In the RTSP server: requests that arrive in pieces or several at once (a piece keeps
  main in the loop of `RTSP_handler`), DESCRIBE and the text of requests and
  replies, the file that stands in for the camera, the end of the process by signal.
- The IP protocol codec: sequential functions over bytes; a model would restate its
  tables field by field.
- The components marked `not_modelled` in `PROJECT.json`, each with its reason.

## Plan

Built first, because the terminal's behaviour rests on it: `RingBuffer`, `GsTcp`,
`DevIf`, `PacketFramer`, then `GlobalFifo`, each with its runs, and the theorems above.

Then the RTSP server, because it is the other program in which threads of this
repository share state: `RtspServer`, `RingFifo`, `RtspStream`, with their runs and the
theorems about all three. Last the abstract specifications: `PacketArrivals`, which says
what framing makes of the bytes, `CommandChannel`, what the terminal promises for
commands, and `FrameQueue`, what the frame ring is to its two threads.

What would add most from here:

1. The age of frames: a viewer who comes is offered what the last one left.
2. An abstract specification of the RTSP server: sessions that play and streams that
   begin with an I frame, with no schedule list or ports.
3. The demo's signal handler and calls of `GS_EM_RemoteReConnect` from other threads,
   over `DevIf`; the test server composed with the terminal.

## Running

```
tlc -config MCGsTcp.cfg MCGsTcp        # and so on, see PROJECT.json "runs"
tlapm GsTcp_proofs.tla
```
