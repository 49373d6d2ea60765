# WindowsNbdServer: models, checks and proofs

WindowsNbdServer serves block devices over the NBD protocol (newstyle
handshake, port 10809). It is one process with one working thread: a select
loop (`SelectServer`) calls the handler of each socket that is ready or whose
timeout has passed. The listening socket's handler accepts connections; a
connection's handler feeds each chunk of bytes to a resumable parser, first of
the handshake, then of requests. This directory holds TLA+ modules that model
the program, TLC runs that check them on small instances, and proofs checked by
TLAPS. Line numbers below are those of the repository's files.

## 1. The system

| Part | State | Operations | Model |
|---|---|---|---|
| Select loop and socket registry (`SelectServer.cpp`, `.h`) | `socks[]`, `socksReserved`, `flags`, the critical section; in `Run`: `activeSockCount`, `minSockToRemove`, the three fd_sets, `handled[]`, `minTimeDiff` | `Run`, `TryAddSock`, `SetStopFlag`, `AvailableSocks`, `LockedSelectServer`; a handler's `UpdateEventFlags`, `UpdateTimeout`, `UpdateHandler` | `SelectServer` |
| Handshake of a connection (`NbdServer.cpp` 159-196, 350-548) | `Connection`: `currentHandler`, `state`, `dataUnion`, `heapBuffer`, `blockDevice` | `HandshakeHandler`, `ToTransmissionMode` | `NbdHandshake` |
| Heap buffer (94-154) | `ptr`, `length` | `EnsureCapacity` | in `NbdHandshake` for option data, in `NbdTransmission` for the read queue |
| Requests of a connection (550-793) | `state`, `dataUnion.request` | `TransmissionHandler` | `NbdTransmission` |
| Read queue (226-310) | `count`, requests in the heap buffer | `Add`, `HandleRequests` | `NbdTransmission` |
| Device (`Nbd.cpp`) | memory | `Read`, `Write` | `NbdTransmission` |
| Connections (797-926) | sockets, `Connection` objects | `TcpAcceptHandler`, `TcpRecvHandler`, `RunNbdServer` | `NbdServer`, composed with `SelectServer` |
| Test client (`Test.cpp`) | - | sends handshakes in chunk patterns, reads | not modelled |
| Byte order helpers (`Nbd.cpp`) | - | `AppendUint64` | in `NbdTransmission` |
| Start-up, logs, address formatting | - | - | not modelled |

How they interact:

* `RunNbdServer` registers the listening socket and calls `Run`, which never
  returns in normal operation. Everything else happens in handlers that `Run`
  calls, on its thread, with one shared buffer.
* A handler gets a `SynchronizedSelectServer`, whose `TryAddSock` and
  `SetStopFlag` take no lock. Another thread would use a `LockedSelectServer`,
  which holds the critical section while it exists. The program has no other
  thread; the class is written for them (comments at `SelectServer.h` 112-123).
* A socket leaves the registry when its handler returns with no flags and an
  infinite timeout. Its slot stays, dead, until the next pass packs the array.
* `TcpRecvHandler` calls `recv`, hands the chunk to the connection's current
  handler, then lets the read queue answer. Handshake data, queued read
  requests and nothing else use the connection's heap buffer, in turn.

What makes it hard, and what must hold:

* *Registry.* Slots are found by handle while handlers of the same pass add and
  remove sockets, the new ones wait in a reserved tail, dead ones are packed
  later, and `minSockToRemove` says where to start. A registered socket must
  stay in exactly one slot, a removed one must never be called or selected.
* *Timers.* `GetTickCount` wraps; deadlines are compared by 32-bit differences.
  No timeout early, none forgotten, no waiting past the first deadline.
* *Call discipline.* Between two selects a handler is called for an error only,
  a timeout only, or a read and/or a write.
* *Threads.* Whoever adds a socket and is told it was taken must be served.
* *Handshake.* `recv` cuts the stream anywhere. What is accepted, skipped or
  refused must depend on the bytes; option data, which may sit in the shared
  buffer or be collected on the heap, must be what the client sent and fit.
* *Transmission.* Reads are answered after the chunk, writes at once, partial
  writes are visible, replies are cut into blocks, sends block the one thread.
* *Accepting.* The failure paths of `TcpAcceptHandler` (847-878) act on the
  listening socket.

`PROJECT.json` lists every hazard with its line and the properties aimed at it.

## 2. Modules

| Module | What it is |
|---|---|
| `SockRegistry` | What users of `SelectServer` are promised: register, call, return. No array, lock, packing, sets or clock. |
| `SelectServer` | `Run`, `TryAddSock` and what other threads do. |
| `SelectServerProperties` | Its properties, and the refinement mapping to `SockRegistry`. |
| `MCSelectServer` | Constants for TLC. |
| `SelectServerProofs` | Theorems for every value of the constants: the registry. |
| `SelectCallProofs` | What handlers are called for, what `select` is asked for, when `Run` stops. |
| `SelectRegistryProofs` | That `SelectServer` implements `SockRegistry`. |
| `Negotiation` | What a client's bytes mean, option by option. No chunks, no states within an option. |
| `NbdHandshake` | The connection's parser, its properties, and the mapping to `Negotiation`. |
| `MCNbdHandshake` | Byte streams and other constants for TLC. |
| `NbdHandshakeProofs` | Theorems about the parser, and that it implements `Negotiation`. |
| `BlockService` | What a client in transmission mode is promised for its requests. No chunks, buffers, queue memory or reply blocks. |
| `NbdTransmission` | The request parser, the read queue, the device, its properties, and the mapping to `BlockService`. |
| `MCNbdTransmission` | Request streams and devices for TLC. |
| `NbdTransmissionProofs` | Theorems about the request parser, the read queue and the buffers. |
| `NbdServer` | Accept handler, connections and clients on top of `SelectServer`, which it extends. |
| `NbdServerProperties` | Its properties, among them that it uses `SelectServer` as that asks to be used. |
| `MCNbdServer` | Constants for TLC. |
| `NbdServerProofs` | Theorems about the server, from those about `SelectServer`. |
| `NbdListenerProofs` | More of them: what is counted, what is open, what stays reachable. |

Operators named `...Fault` are wrong versions of the definition after them:
substituted for it they make the property that `PROJECT.json` pairs them with
fail. Nothing else uses them.

### SelectServer

`pc` is where `Run` is: `top` (before the lock), `pack`, `unlock`, `test` (left
the lock), `select`, `popped` (in the loop over the three sets), `handler`,
`sweep` (the timer loop), `stopped` (returned 0), `failed` (returned 1).

| Code | Action |
|---|---|
| take the lock, append reserved sockets, start their timers (149-169) | `Activate` |
| one iteration of the pack loop; its end (178-199) | `PackSlot`, `PackEnd` |
| stop flag test, end of the lock's scope (200-211) | `Unlock` |
| no sockets (213-217) | `NoMoreSockets` |
| fill the sets, compute the timeout (222-293) | `SetupSelect` |
| `select` (306-319) | `SelectPops`, `SelectTimesOut`, `SelectFails` |
| one popped socket up to its handler call (339-374) | `TakePopped` |
| next set, or on to the timers (391-404) | `NextSet` |
| timer loop up to a handler call; its end (406-447) | `CallTimeout`, `EndSweep` |
| a handler's own change, and the bookkeeping after the call (375-388, 430-444) | `HandlerReturns` |
| `TryAddSock`: check; store; increment (28-36) | `TryAddSock`, `StoreSock`, `IncrementReserved` |
| `LockedSelectServer`, `SetStopFlag` (`.h` 152-175) | `LockServer`, `UnlockServer`, `SetStopFlag` |
| `GetTickCount` | `Tick` (external) |

Choices made in it:

* Handlers are arbitrary: `HandlerReturns` picks any of `Settings` for the
  handler's own socket; a handler may call `TryAddSock` and `SetStopFlag` as
  often as it likes. A handler that lets its socket go is taken to have closed
  it, so the handle may be handed out again at once (`Free`), also while the
  dead slot is still in the array.
* `TryAddSock` is three steps because another thread can run between them. The
  compiler may read `socksReserved` once or each time: `ReadReserved` allows
  both. In a single-threaded run the steps make no difference.
* `select` may pop any non-empty part of what it was asked for, or, with a
  timeout, nothing at any moment. It fails for reasons of the system's own if
  `SelectMayFail`, and always with three empty sets, as Winsock documents.
  The order of the sockets in a set is arbitrary.
* The tick counter counts modulo `TickMod`, which stands for 2^32; INF and the
  half range 0x7FFFFFFF follow it. `Tick` is disabled when no timer runs, since
  only differences are ever used, and when a timer is about to be overdue by
  half the range (*LagBound*: no pass of the loop lasts 24 days).
* History variables: `accepted` (sockets taken and not let go of), `called`
  (why each slot's handler was called since the last select), `age` in a slot
  (time since its timer was started). No action reads them, except that `Free`
  asks `accepted` which handles are open.

### NbdHandshake

One action per case of the switch; `pc` says which is next, `recv` that the
handler has returned. The chunk being parsed is `stream[taken+1 .. arrived]`,
so `size` is `arrived - taken`.

| Code | Action |
|---|---|
| `recv` and the switch (797-819, 356) | `Recv`, `RecvFails` |
| client flags (359-392) | `GetClientFlags`, `RefuseFlags` |
| magic (393-421) | `GetMagic`, `RefuseMagic` |
| option id, option length (422-483) | `GetOptionID`, `GetOptionLength` |
| where the data goes (485-497) | `UseBuffer`, `UseHeap`, `OutOfMemory` |
| data over several calls (499-522) | `GetOptionData` |
| the option (524-545) | `SkipOption`, `RefuseMore`, `RefuseExport`, `ToTransmissionMode`, `ReplyFails` |

A UINT is kept as its four bytes (shifting a byte in is appending it and keeping
the last four), lengths and sums are modulo `Base^4` as in the code. `word` is
the union member that `clientFlags` and `optionID` share. The heap buffer's
contents are the bytes of the current option written so far. The 134 bytes of
the reply are abstracted to the export whose size they carry. The process ends
(`OutOfMemory`) when the heap cannot provide a buffer: `HeapAlloc` is told to
raise an exception and nobody catches it.

### NbdTransmission

The same scheme: one action per case of the switch, per send of
`HandleRequests`. `pc` is `recv` (waiting for the client), `parse`, `command`
(the header is complete), `reply` (a write is done), `serve` (in
`HandleRequests`).

| Code | Action |
|---|---|
| `recv`; its failure (797-812) | `Recv`, `RecvFails` |
| magic (557-588) | `GetMagic`, `RefuseMagic` |
| command, handle, offset, length (590-711) | `GetCommand`, `GetHandle`, `GetOffset`, `GetLength`, all by `GetField` |
| the commands (713-747) | `QueueRead`, `BeginWrite`, `RefuseCommand` |
| write data (749-767) | `WriteData` |
| reply to a write (769-787) | `ReplyToWrite`, `WriteReplyFails` |
| one block of a read's reply (246-303) | `SendBlock`, `SendBlockFails` |
| end of the queue (304-309) | `EndOfQueue` |

Choices made in it:

* The thread runs one handler at a time, so another connection can write to the
  device (`OtherWrites`) only while this one waits in `recv`.
* The chunk and the blocks of replies are in the same buffer, `sharedBuffer`;
  `sharedResponseBuffer` (26) is another one, and `AllAnswered` shows why it must be.
* A heap buffer that has to grow may stay in place or move; in a new place only
  `preserveLength` bytes are what they were. What lies in the queue's memory
  beyond `count` is never read and is dropped. Running out of memory, which
  ends the process, is left out here.
* A field is set to 0 when the one before it is complete (588, 619, 652, 685);
  the model starts from 0 at the field's first state, which is the same, since
  nothing reads it between.
* The code checks neither offset nor length against the device. The streams ask
  for addresses within it. Where theorems need that of reads they have it as a
  hypothesis, `AskedInDevice`. A write outside the device is dropped in the model;
  `Nbd.cpp` 40 copies it to wherever it points. What that would do to the
  process, its heap and buffers included, is in no theorem or run.
* Command flags are ignored by the code (713) and by both modules.

### NbdServer

It extends `SelectServer`: each of its actions is an action of that module
with more conjuncts, or leaves its variables alone. `handle` says what the
system has behind each SOCKET value (the listening socket, a client, nothing),
`bound` what handler and user pointer each slot holds, `conns` which
`Connection` objects exist, `hpc` where the running handler is.

| Code | Action |
|---|---|
| the select loop | `ServerPack` (moves the user pointer with the slot), `ServerRun`, `ServerSelect`, `ServerReturn` |
| `accept` (844-854) | `Accept`, `AcceptFails` |
| greeting, `new Connection` (855-865) | `Greet`, `GreetFails` |
| `TryAddSock` (867) | `AddConnection`, `StoreConnection`, `ConnectionAdded`, `ServerFull` |
| exit of the accept handler (874-878) | `CloseListener` |
| `recv` (800-812) | `RecvChunk`, `RecvEnds` |
| the connection's handler and the read queue (815-827) | `Reply`, `ServeFails`, `ChunkServed` |
| exit of the recv handler (829-839) | `CloseConnection` |
| clients (external) | `Connect`, `Ask`, `ReadReply`, `HangUp` |

Choices made in it:

* The bytes of requests are left to the other modules: a request is answered
  (`Reply`), refused or lost (`ServeFails`). `recv` returns any part of what has
  been sent. `send` waits while the client's window is full.
* A client sends requests for as long as it likes: `asked` and `answered` count
  from the last time it had all its replies, and only how far it runs ahead of
  them is bounded (`MaxRequests`). So its socket can be ready at every select.
* A Connection is named by the client it was made for. The C++ object of a
  deleted Connection may be allocated again; the model would not notice that,
  and no property depends on it.
* `accept` returns any handle that is not open, also one that a handler of the
  same pass has closed and whose slot is still in the array.
* A client that hung up while in the backlog may be accepted all the same, or
  make `accept` fail.
* `accept` and `send` on closed or invalid handles fail, `select` with a closed
  handle in a set fails: `SelectServerUsed` shows that this last case is never met.
* As the code has it, the exit of the accept handler closes the listening
  socket, and leaves `newSock` open and the Connection undeleted.

## 3. Runs

| Run | Bounds | What it shows |
|---|---|---|
| `select_events` | 3 sockets, 3 slots, no timers, one thread, tick range 4 | Registry and call discipline as the program uses the class. Three slots are the least in which a dead slot, one to move down and a newly reserved one coexist. |
| `select_timers` | 2 sockets, 2 slots, one other thread, handlers that drop their socket or set a timer and do not add; tick range 8 (half range 3), timeouts of 1 and 2 with and without events | Deadlines across the wrap of the counter; the critical section does its work. |
| `select_liveness` | 2 sockets, tick range 6, sockets that may always be ready | Timers are served; a stop request is obeyed. |
| `select_race`, `select_exit`, `select_lone` | as small as shows it | Section 5. |
| `handshake_chunks` | 31 streams: up to two skipped options (empty, short, long, one whose data looks like a magic) before EXPORT_NAME, and streams that are wrong or end at each kind of place; chunks of 1 to 24 bytes; bytes 0..15; heap of 64; failures anywhere | Option data both in the buffer and on the heap, in any number of chunks; growth of the heap buffer from `DEFAULT_INITIAL_LENGTH` 1 (the value `NbdServer.cpp` 96 suggests for testing); the well-formed streams get to transmission mode. |
| `transmission` | chunks of up to 60 bytes, a header being 28; bytes 0..3; failures anywhere. On a device of 4 bytes, 5 streams of up to three requests (one truncated, one with a command that is not implemented, one with a wrong magic) and a heap of 1 left by the handshake, 2 per queued request. On one of 120, reads of 44, 45 and 105 bytes. On one of 2, a write between two reads while another connection writes | The parser; the queue in its growing heap buffer; replies in one, two and three blocks, at and around the boundaries, none of which reads past the end of the device; writes in pieces on a shared device; what is answered, and in which order. |
| `server_drops` | 3 clients with one request at a time, 3 handles, 3 slots, hang-ups at any point, refused requests, every failure path of the accept handler | Slots stay consistent, nothing leaks while the server accepts, `SelectServer` is used as it asks to be. The third client gets a handle and a slot that another had before. |
| `server_serve` | 2 clients that send requests for ever, up to 2 before they have the replies, window of 1, 3 handles, 3 slots, hang-ups after the greeting | The server stays reachable; a client is taken from the backlog though the other's socket may be ready at every select; requests are answered though the other never stops. Each client connects once, so three slots always do. |
| `server_full` | 2 clients, 2 slots | Section 5. |
| `handshake_wrap` | an option length of 2^32 - 19 (in base 16), a heap that can hold it | Section 5. |

The properties are stated, with the lines they are about, in
`SelectServerProperties` and `NbdServerProperties`, at the end of `NbdHandshake`
and `NbdTransmission`, and, where they speak of the streams of a run, in
`MCNbdHandshake` and `MCNbdTransmission`. The deepest ones:
`RegistryImplemented` and `NegotiationImplemented` are refinements: the array
with its tail and its packing, seen through the live slots, takes only steps of
`SockRegistry`; the parser, seen through the number of bytes before the current
option, takes only steps of `Negotiation`, which decides by the whole stream.
`NoSockLost` relates what callers of `TryAddSock` were told to what the array
holds, in every state, also in the middle of packing.

`ServiceImplemented` is the same for requests: whatever chunks they come in and
blocks they are answered in, the client gets whole replies, in order, to the
requests that are in its stream, and the device what the writes say.
`SelectServerUsed` is `SelectServer`'s own specification, as a property of the
server. `SlotsFit` relates a slot's handle, its handler, its user pointer and
the client behind the handle. `NothingLeaks` is claimed while the listening
socket is open, and `ListenerOpen` where accept and the greeting succeed and
there is room; elsewhere the code does not keep them (section 5).

`select_events`, `select_timers` and `server_drops` use symmetry: sockets and
clients are interchangeable model values there, and the properties are
invariants and action properties, which symmetry does not affect.
`server_serve`, which checks liveness, uses none; since handles differ in name
only, it starts with the listening socket at one of them.

`ClientsTaken` says that nobody in the backlog is starved. That depends on two
things in the code: a pass of `Run` goes through all the sockets that `select`
popped, and `TcpRecvHandler` receives one chunk and returns. A handler that
received again as long as there is more (`AfterChunkFault`), a loop that left a
set after one call, or a `select` that reported the listening socket only when
no connection is ready would each let a busy client keep the other out for
ever; TLC finds a loop of requests and replies for each of the three.

### Fairness

`FairSpec` of `SelectServer`: the thread of `Run` keeps going between its waits
(the scheduler), handlers return (none of the program's loops or waits for
another handler), time passes, and `select` returns once its timeout has passed or it fails. Nothing
is assumed of sockets becoming ready, of other threads, or of `SetStopFlag`. A
stop flag set by another thread is noticed only when `select` returns, which
the code does not bound; `StopHonoured` and `StopNeverWaits` are for one thread.

`FairSpec` of `NbdHandshake`: the handler runs on, and the bytes that were sent
arrive unless the connection fails (`lost`).

`FairSpec` of `NbdTransmission`: the same. `send` returns, which supposes that
the client reads its replies.

`ServerFairness` of `NbdServer`: the one thread goes on whenever it can, and
clients read what they are sent. The second is needed because sockets are
blocking: one client that does not read stops the server for all (hazard at
264). Nothing is assumed of clients connecting, asking or hanging up, and
nothing of which popped socket comes first: a client may go on asking for ever.

## 4. Proofs

`SelectServerProofs` proves, for every capacity, set of sockets, number of
threads, tick width and set of handler behaviours:

| Theorem | Says |
|---|---|
| `Invariant` | `IInv`, the inductive invariant, always holds |
| `TypeCorrect` | `TypeOK`: no index leaves the array, counts and ticks stay in range |
| `PackMarkCorrect` | `minSockToRemove` marks the first dead slot, and only then |
| `RemovedNotSelected` | no dead slot takes part in a select |
| `RemovedNotCalled` | no handler is called for a dead slot |
| `NothingLost` | `NoSockLost` |

All assume `RaceFree`: there is no other thread, or handlers do not call
`TryAddSock`. Without it `NoSockLost` is false (section 5). The assumptions on
the constants are `ConstantsOK`, which includes the assumption that
`TryAddSock` states (line 26).

`TypeOK` is not inductive: that an append does not run past the array needs
`socksReserved` to be at most the capacity after an increment, and that needs to
know that nobody changed it since the check. `IInv` adds who holds the lock in
which part of `Run` and during which call (`LockInv`), what is known of a call
in progress (`CallInv`), how the counts relate (`CountInv`), where dead slots
can be (`PackMark`), and that the slot being served is live (`CallsLiveSlot`).
There is one lemma per action, or per group of actions that change nothing of
interest. `NoSockLost` is then proved to be preserved given `IInv`, together
with `FreshInv` (the socket a call is adding is in no live slot). `FindCorrect`
states that `Find` returns the slot of the handle, whatever the hint.

`NbdServerProofs` proves, for every number of clients, handles, slots and
requests:

| Theorem | Says |
|---|---|
| `ServerInvariant` | `ServerInv`, the inductive invariant, always holds |
| `SlotsAlwaysFit` | `SlotsFit` |
| `UsesSelectServer` | the server implements `SelectServer` (`SelectServerUsed`) |
| `ServerNothingLost` | `NoSockLost` holds of the running server |

The assumptions are `ServerConstantsOK`: one thread, handlers that add, reading
sockets without timers. That each step is one of `SelectServer` (`Simulates`) is
not true of every state: an accepted handle has to be one that no registered
socket has, and the sets given to `select` must hold open handles. Both follow
from `SlotsFit`, since a registered socket's handle is open and `accept` hands
out closed ones; `SlotsFit` in turn needs that a client has at most one handle
(`HandleInv`), that the handle being added is in no slot yet and the slot it is
written to gets its Connection (`AcceptInv`), and where the live slots are,
which is `SelectServer`'s `IInv` and `NoSockLost`. So the conjunction
`ServerInv` is proved inductive as a whole: `SelectStep` takes the half about
`SelectServer` from the lemmas of `SelectServerProofs`, through `Simulates`, and
one lemma per action (or group of actions) takes the other half.
`ServerNothingLost` is then `NothingLost` of `SelectServer`, by `UsesSelectServer`.

`SelectCallProofs` proves, for the same parameters:

| Theorem | Says |
|---|---|
| `DisciplineKept` | `CallDiscipline` (if `RaceFree`) |
| `StopObeyed` | `StopNeverWaits` (one thread) |
| `ExitsWhenEmpty` | `ExitOnlyWhenEmpty` (one thread) |
| `AsksAll` | `SelectAsksAll` (one thread) |

`CallDiscipline` speaks of what handlers *were* called for, the code decides by
`handled[]`, which set it is at and how far the sweep is. `PassInv` ties them:
a slot not marked has not been called in this pass, or only by the sweep that
is past it; and as long as the error set is gone through, which is first,
nobody else has been called. The one slot whose handler runs is in between
(`Served`), since the mark is made after the call. The other three rest on
`AloneInv`: with one thread the array is whole and the stop flag is down from
the end of the critical section until `select`. `select_exit` shows that the
third needs the hypothesis; with another thread the second and the fourth are
not meant (it may add a socket or set the flag at any moment).

`SelectRegistryProofs` proves `ImplementsRegistry`: if `RaceFree`, then
`SelectServer` implements `SockRegistry` (`RegistryImplemented`). Appending,
packing, filling sets and passing over are stutters: they keep the set of live
slots' contents, though not their places, and `StoreSock` writes to a slot that
does not count yet. `IncrementReserved` is `Register`; entering a handler is
`Call`, for which `PassedOver` must have left only reasons the socket still asks
for; leaving it is `Return`, which removes the socket exactly if it asks for
nothing. Each step uses what the theorems above rest on (`Known`), before it and
after it.
`NothingIsNothing`, an assumption of `SelectServerProperties`, says that
`NoSocket` is none of the records it is told apart from.

`NbdListenerProofs` proves, of the whole server:

| Theorem | Says |
|---|---|
| `ServerTypeCorrect` | `ServerTypeOK`: counts stay in range, none is sent more than fits its window |
| `NothingEverLeaks` | `NothingLeaks` |
| `ListenerStaysOpen` | `ListenerOpen`, if `RoomForAll` |
| `ServerKeepsRegistry` | `RegistryImplemented` holds of the running server |
| `ServerWaitsForAll` | so do `ExitOnlyWhenEmpty` and `SelectAsksAll` |

`ServerTypeOK` needs each request counted once (`CountsInv`: answered, in the
chunk being served, or not received) and the greeting to be the first thing a
client is sent (`GreetInv`). `NothingLeaks` is strengthened to `LeakInv`, an
equivalence between being open and being used that also covers the moments
when a handler has closed its socket and not yet returned, and when the new
socket is accepted and not yet registered. `RoomForAll` says that there are
slots and handles for all clients beside the listening socket and that clients
hang up only after the greeting. `RoomInv` then counts: `socksReserved` is at
most one more than the number of clients ever greeted, so `TryAddSock` has room, also
for a slot that is not packed yet. Both hypotheses are needed: a server that
gets full, or whose client aborts before it is greeted, closes its listening
socket (section 5). The last two carry over by `UsesSelectServer`.

`NbdTransmissionProofs` proves, for every stream, way of cutting it, buffer
size, queue and other connection (as long as no write outside the device has
damaged other memory, see section 2):

| Theorem | Says |
|---|---|
| `QueueFits` | `HeapHoldsQueue` |
| `BufferFits` | `BufferInBounds`: chunks and replies stay within the shared buffer |
| `NoReadWaits` | `NothingWaits` |
| `StaysInDevice` | `ReadsInDevice`, if reads are asked for within the device |
| `TypeCorrect` | `TypeOK`, under the same hypothesis |

The first three need nothing of the reads a client asks for. Their inductive invariant is
`IInv`: shapes and widths of all fields, that the shared buffer holds the chunk
while it is parsed, and where the queue is when (`ServeInv`). What a device
returns for addresses it does not have is unknown, so that replies are
sequences of *bytes* needs `AskedInDevice`: a read the parser has completed lies
within the device, which the code leaves to the client. From it follows that no
later block leaves it either, which takes offset and length of a queued read to
move together. `Power` is a recursive function on 0 .. 8; `PowerUnfolds` gives its
witness, so no induction is needed.

`NbdHandshakeProofs` proves, for every stream and way of cutting it:

| Theorem | Says |
|---|---|
| `TypeCorrect` | `TypeOK` |
| `DataFits` | `HeapInBounds` |
| `TakesAll` | `NothingPending` |
| `OptionsAsSent` | `OptionAsSent`, if `SmallHeap` |
| `ImplementsNegotiation` | `NegotiationImplemented`, if `SmallHeap` |

`SmallHeap`, that 20 more bytes than the heap can provide are fewer than 2^32,
is what `handshake_wrap` shows to be needed; the first three do without, so an option
that ends early by the wrap still writes nothing outside its buffer. `ConstantsOK` has that
20 more than the shared buffer's 8192 fit a UINT. `IInv` says where the handler may
be in each state (`PlaceInv`), that the bytes of a word shifted in so far are the
last of the stream, and then that the word is what the option has at its
place (`WordInv`), the same for data on the heap (`CollectInv`), and what is
complete when an option is acted upon (`OptionInv`). The refinement adds `HeadInv`:
what has been received of the flags and of the magic. `StartKept` shows that
every step but four kinds leaves the start of the option where it is, so that it
stutters; the others are `Flags`, `Skip`, and the ends of the negotiation. That the
handler refuses only what is wrong is `FlagsSeen`, `MismatchSeen` and `OptionSeen`:
the bytes it goes by are those of the stream at that place. `LongOption` bounds from
below the length an allocation fails for, through the doubling of the buffer.

Model-checked only:

* `ServiceImplemented`, the refinement of `BlockService`, so far;
* `NoEarlyTimeout`, `NoTimeoutSkipped` and `SleepIsTight`, which hang on differences
  modulo 2^32;
* the liveness properties (`TimerServed`, `StopHonoured`, `EntersTransmission`,
  `AllAnswered`, `ClientsTaken`, `RequestsAnswered`): fairness is out of reach of
  the prover.

## 5. Where the code and its comments part

| Run | What happens |
|---|---|
| `select_race` | A handler adds a socket without the lock while another thread adds one with it: both store into the same slot. `SelectServer.h` 112 says "only read/modify inside critical section". |
| `select_exit` | Another thread's socket is accepted after `Run` left the lock with none active; `Run` returns at line 213. `SelectServer.h` 115 ties shutting down to `socksReserved` being 0. |
| `select_lone` | Sockets with a timeout and no flags are allowed (`SelectServer.cpp` 26), but alone they make `select` fail and `Run` return 1. |
| `handshake_wrap` | `20 + optionLength` wraps for lengths within 20 of 2^32; the option ends early (`NbdServer.cpp` 515; 499 says "`<option-length>` bytes"). Needs a heap that can hold 4 GB; otherwise the allocation ends the process. |
| `server_full` | `TryAddSock` refuses the new socket, and the accept handler's exit closes the listening socket instead; `NbdServer.cpp` 869 logs "server full, rejected socket" with the new one. The new socket and its Connection leak, the backlog is refused, nobody can connect any more. A slot emptied earlier in the same pass still counts (`SelectServer.cpp` 30), so this can happen with one slot to spare; the run's trace is the plain case. |

The program as it stands meets none of the first three: it has one thread and no
timers. A timeout of 2^31 - 1 ms or more counts as past at once
(`SelectServer.cpp` 253, 413), although `SelectServer.h` 76 promises to wait for
it; no run is spent on it, and the timeouts in the runs stay below half the
tick range.

Where an abstract specification allows what the code does, no property objects
to it: bytes after EXPORT_NAME that are refused or served depending on the chunk
they are in (`Negotiation`), and in `BlockService` reads answered after a later
write, reads dropped by a command that is refused, writes that others see half
done. `PROJECT.json` lists these hazards without a property, and the one of a client
that reads nothing, which the fairness above excludes.

## 6. Plan

Done: `SelectServer`, `NbdHandshake` and `NbdTransmission`, each with its
abstraction; `NbdServer`, their composition with the select loop; every safety
invariant that a run checks, proved; two of the refinements to abstract
specifications (`SockRegistry`, `Negotiation`) and that of `SelectServer` by the
server. Left, in this order:

1. `ServiceImplemented`: the request parser and the queue implement
   `BlockService`, from `IInv` and `BytesInv`, and an invariant that ties
   `request` and `requests` to the bytes of the stream.
2. The action properties on timers.

### Not modelled

The test client (`Test.cpp`) is a program of its own that only drives the
server. Start-up, logging and formatting (`Main.cpp`, `Wsa`, `AddrToString`,
`sprintsets`, log macros) change no state the properties are about; what
`RunNbdServer` does before its listening socket is registered (895-914) either
succeeds or ends the program.
