# protobuf-c in TLA+

Specifications of protobuf-c: the C runtime for protocol buffers
(`src/src/google/protobuf-c`), its event loop, its RPC client and server, and
the plugin of `protoc` that prints C code. The modules say what the code does,
TLC checks them on small instances, and TLAPS proves the safety properties of
the event loop and its timers, the client, the server, the data buffer, of
packing, unpacking and of the lookups for every instance. `PROJECT.json` lists the runs, the theorems,
which source lines each definition stands for, the hazards that guided the
choice of properties, and the mistakes (operators marked *Mistake*) that show
that each property can fail.

Paths below are relative to `src/src/google/protobuf-c/` unless they start with
`src/`.

## Inventory

### Dispatch (`protobuf-c-dispatch.c`, `.h`)

A single-threaded event loop, either run by itself (`dispatch_run`, on `poll`)
or embedded in a foreign main loop (`dispatch_dispatch`).

* **State.** `notifies_desired` and the parallel `callbacks`: what is watched.
  `changes`: a log of changed interests for an embedding loop. `fd_map`: per
  descriptor the index in both arrays (-1 for none) and
  `closed_since_notify_started`. A red-black tree of timers, a list of idle
  functions, recycling lists, `has_timeout` and `timeout_secs/usecs`.
* **Operations.** `watch_fd`, `close_fd`, `fd_closed`, `clear_changes`,
  `dispatch_dispatch`, `dispatch_run`, `add_timer`, `add_idle`, `remove_timer`,
  `remove_idle`.
* **Interactions.** Calls the callbacks of the RPC client and server and of the
  program, which call its operations in the middle of a pass.
* **Hard.** Callbacks that close, reopen and re-watch descriptors other
  notifications of the same pass are about; removal by moving the last array
  element, with three indices to repair; a log that is read, cleared and
  discarded at different times.
* **Correct means.** The index and the arrays agree; no callback gets another
  descriptor's event; an embedding loop that follows the log watches what the
  dispatch wants; timers fire in order and are neither lost nor late.

### RPC client (`protobuf-c-rpc.c` 39-795)

* **State.** A state (INIT, NAME_LOOKUP, CONNECTING, CONNECTED, FAILED_WAITING,
  FAILED, DESTROYED) with a union that belongs to it: idle function, socket,
  timer, or the closure table with a free list threaded through it. An incoming
  and an outgoing data buffer.
* **Operations.** `client_new`, `invoke` (through the service), the handlers of
  connection, descriptor, timer and idle events, `set_autoreconnect_period`,
  `destroy`.
* **Interactions.** Watches its socket with the dispatch; calls the program's
  closures, which call back into the client; exchanges messages with a server
  that it does not control.
* **Hard.** Failure at any point with calls in progress, ids reused, a table
  that moves while a closure runs, watch interest kept by hand.
* **Correct means.** Every closure is invoked exactly once, eventually, and with
  the response to its own request.

### RPC server (`protobuf-c-rpc.c` 797-1502)

* **State.** Connections with two buffers and a list of pending requests each;
  a recycling list of requests; in threaded use a pipe through which worker
  threads hand over responses.
* **Operations.** Accepting, reading requests, invoking the service, responding
  from the dispatch thread or through the pipe, closing a connection with
  requests pending, destruction.
* **Hard.** Requests outlive their connections; responses come from other
  threads; destruction races both.
* **Correct means.** A request gets at most one response, on its own connection;
  no request is freed and recycled, or used after either.

### Data buffer (`protobuf-c-data-buffer.c`, `.h`)

* **State.** A list of fragments of fixed size, `buf_start` and `buf_length` in
  each, and the total `size`.
* **Operations.** Append in several forms, read, peek, discard, read a line or a
  string, search, write to and read from a descriptor, drain, transfer, reset.
* **Hard.** Fragments that are full, partly read, or shared out between buffers;
  partial writes.
* **Correct means.** It is a queue of bytes, and `size` is exact.

### Messages (`protobuf-c.c`, `protobuf-c.h`)

* **Operations.** Packed size, packing into memory or into a buffer, unpacking,
  freeing, initialising; lookups of fields, enum values and methods in
  descriptors by number and by name. No state survives a call; the state is that
  of unpacking in progress.
* **Hard.** Unpacking is three passes with allocations between them, each of
  which may fail; fields come in any order, repeatedly, packed or not; widths
  and wraparound in varints and lengths.
* **Correct means.** The result is what the input says or nothing; memory is
  neither lost nor freed twice; packing writes as much as it announced, and
  unpacking inverts it; a lookup finds what was declared and nothing else.

### The rest

The red-black tree and list macros (`gskrbtreemacros.h`, `gsklistmacros.h`)
serve the timers and lists above. The plugin
(`src/src/google/protobuf/compiler/c`) prints text from descriptors; what the
runtime depends on in it are the tables it writes for the lookups: values and
fields sorted by number, runs of numbers (`WriteIntRanges` and the same loop in
`c_enum.cc`), names sorted with the indices they lead to. `src/src/sctp-rpc` and `src/src/simplerpc` are
sketches outside the build.

## Modules

| Module | Of | Extends or uses |
|---|---|---|
| `Dispatch` | watches, change log, dispatch pass | |
| `EmbeddedLoop` | a foreign main loop that follows the change log | `Dispatch` |
| `EmbeddedLoopProofs` | theorems about `Dispatch` and `EmbeddedLoop` | `EmbeddedLoop` |
| `RpcCalls` | abstract: what a client promises about closures | |
| `RpcClient` | the client | `INSTANCE RpcCalls` |
| `RpcClientProofs` | theorems about its table, closures, watches and answers | `RpcClient`, `RecursionLemmas` |
| `ByteQueue` | abstract: queues of bytes | |
| `DataBuffer` | the fragment list | `INSTANCE ByteQueue` |
| `DataBufferProofs` | theorems about `DataBuffer` | `DataBuffer`, `RecursionLemmas` |
| `Unpack` | unpacking and freeing a message | |
| `UnpackProofs` | theorems about `Unpack` and about `Lookups` | `Unpack`, `Lookups`, `RecursionLemmas` |
| `WireFormat` | the encodings of numbers, tags and lengths, as operators | |
| `Pack` | packed size, packing into memory and into a buffer, reading back | `WireFormat` |
| `PackProofs` | theorems about `WireFormat` and `Pack` | `Pack`, `RecursionLemmas` |
| `RpcServer` | the server | |
| `RpcServerProofs` | theorems about `RpcServer` | `RpcServer`, `RecursionLemmas` |
| `RbTree` | insertion, removal and first node of the tree macros, as operators | |
| `Timers` | timers and idle functions of the dispatch | `RbTree` |
| `TimersProofs` | theorems about the tree, timers and waits | `Timers`, `RecursionLemmas` |
| `Lookups` | the generated tables and the searches in them | |
| `RecursionLemmas` | lemmas about recursive functions, `FlattenSeq` and lists | `TLAPS` |
| `MC...` | symmetry sets, views and samples for TLC | |

### Dispatch

A C index `i` is `i + 1`, so that -1 becomes `None = 0`. `changes` is the whole
array, with the entries past `n_changes` that stay in memory, because a wrong
index can lead to one of them. Descriptor numbers are reused by the kernel:
`incarnation` counts how often a number was opened, and a callback and a
notification carry the incarnation they belong to. That is history the code does
not have, and what lets a property say "the wrong descriptor".

Each operation of the program is an action (`OpenFd`, `WatchFd`, `UnwatchFd`,
`CloseFd`, `ClearChanges`); a pass is `Run` or `EmbeddedDispatch`, then one
`Skip`, or `Deliver` and `CallbackReturns`, per notification, then
`DiscardChanges` and `Finish`. Between `Deliver` and `CallbackReturns`, and while
idle and timer functions run (`pc = "after"`), the program's operations
interleave freely. The timers themselves are in `Timers`; the two share no state
but the order in a pass. `deallocate_change_index` is modelled as written, reading the
descriptor at the wrong entry; the out-of-bounds read that can follow, and the
assertion of `clear_changes`, end in `pc = "crashed"`.

### EmbeddedLoop

The loop and the kernel are external: an interest set that is updated from
`changes` and then waits. `CloseInOrder` and `CallbacksWatch` restrict the
program, because without the restrictions the log does not serve its purpose
(see *Observations*).

### RpcClient

A buffer is a sequence of whole messages; one that is partly written or read
stays where it is until the rest follows. The resolver is synchronous: nothing
in the repository installs another, so NAME_LOOKUP is entered and left in one
handler. `frame` is the function that is waiting for one of the program's
closures: the response loop with the slot it points to, or the loop over the
closures of a table that is going away. In such a frame the program may make
calls and change the reconnection period, and the action that resumes the
function goes on with what it had read before. `status = "undefined"` stands for
having read a union member of another state.

`FaultyServer` lets the server send, once per connection, a response that nobody
asked for; the ghost `faulty` says that it has, because from then on a response
may be taken for that of another call and only the bookkeeping can be right.
`EarlyInvoke` and `GrowInClosure` switch on uses of the client that it does not
survive. Destroying the client from one of its closures is left out:
the code goes on with freed memory and no document allows it.

### DataBuffer

A fragment is the bytes written to it and `buf_start`; `buf_length` follows. Each
function the build contains is an action, including the ones on two buffers and
those on descriptors, where the kernel takes or gives any number of bytes up to
what was offered, or fails. `last` records the latest operation with its result,
in the vocabulary of `ByteQueue`, so that the refinement covers what the
functions return and not only what they leave behind. Bytes are numbers, because
`str_index_of` compares those of the buffer, which are unsigned, with those of a
string, which are plain chars: `as_char` is the conversion, for the limits
`UCHAR_MAX` and `CHAR_MAX`. Recycling of fragments and the printf family are
compiled out.

### Unpack

`protobuf_c_message_unpack` in steps that are as large as what happens between
two allocations: `ScanMember` (first pass; the input is drawn member by member
as the scan meets it), `FieldSucceeds` or `FieldFails` (second pass: arrays and
required fields), `AllocateUnknown`, `ParseMember` or one of its failures (third
pass), `Succeed`, and `FreeUnpacked` by the program. The heap is a set of blocks
named for what they hold; freeing a block that is not there, or reading array
elements that are not there, sets `wild`. Bytes of packed members are modelled
only as far as both ways of counting them need: whether they end a number. A
sub-message is one step that yields a block or fails. Allocators with
`tmp_alloc`, which never free slabs, are left out. If the very first allocation
fails nothing has happened, so the model starts after it.

### WireFormat and Pack

An int has `H` bits here instead of 32, a byte of a varint carries `W` instead of 7: the encodings keep
every step (groups of a varint, the cut of a 64-bit number after the first
groups, sign extension of a negative `int32`, zigzag, tags with the wire type in
the first byte, fixed lengths), at a size at which all boundaries are near. The
three functions a program calls are the three phases of `Pack` (`Size`,
`PackItem`, and `BufferItem` with `DoAppend`, `OpenInner` and `JoinInner`), one
field after another; a last phase (`ReadMember`) reads the bytes back with the
functions of unpacking. Each append to a simple buffer may find no memory, which
the code does not report. Nested messages are packed recursively, each into a
buffer of its own on the stack of `buffers`. A function that calls itself for the
messages in a message is a recursive function of the depth: `Sizes[d]`, `Packs[d]`
and `StepsOf[d]` say what it does to the messages that have fewer than d messages
below them, and `MaxDepth` bounds a message that is packed (a message in memory is
a tree). Powers of two are a recursive function too, `Pow2`. `WireAssumption` has
what the code relies on in 7 and 32, and `PackAssumption` the messages a program can
have: fields with values of their types, an id that fits a tag, and a packed size
that fits an int.

### RpcServer

The requests of the clients are read into `incoming` and taken from there one by
one (`ProcessRequest`), with the service running in between (`frame`), where it
may answer any request it holds. `tasks` are the response closures that have not
been invoked; each may be invoked in the thread of the dispatch
(`RespondInThread`) or, if the server is threaded, in another
(`RespondInOtherThread`), through the pipe that `ReadPipe` and `ForwardResponse`
empty. Request structures are addresses, reused from `recycled_requests` or
allocated lowest first. `status` is what the code has done to memory: `"wild"`
for following a pointer to a request or a connection that is gone, which must not
happen; `"late_answer"` and `"server_gone"` for the two uses by the program that
end in undefined behaviour (see *Observations*). A ghost `call` in each task says
whose answer it really is.

### RbTree and Timers

The tree is a record of a top and four fields, functions of the node, as the
macros see it; a loop of the macros is a recursive function (`Loop`) with as many turns as there are nodes,
which stands still once the condition of the loop is false: that this is enough
turns is proved. Left and right are a parameter where the macros
spell both out. `Timers` has a moment as a number of microseconds in seconds of
few milliseconds, timers by their addresses (which decide between equal moments),
and a pass as `Poll`, `FdsDone`, `RunIdle` / `IdleReturns`, `IdlesDone`,
`FireTimer` / `TimerReturns`, `EndPass`; the program adds and removes timers and
idle functions outside of a pass and in every function of one. `dispatch_new`
does not initialise the public timeout, so it is anything at first. The wait is an
int of `INT_MAX`, and `as_int` what the build makes of a sum that is larger: the last
addition of `dispatch_run` wraps around for some waits (see *Observations*), and
with a negative wait `poll` does not run into its timeout (`Expires`).

### Lookups

`Generate` writes the tables as the plugin does (sorted by number, repetitions
dropped, runs of numbers, sorted names); `GetByNumber` and `GetByName` begin a
search and `ProbeRange`, `LastRange`, `ProbeName`, `LastName` are its steps. An
int has four bits, so that the overflow next to the largest one is in reach.
`SortedBy` says what `qsort` leaves (each item behind those that are less) and
not how. The two loops that cut numbers into runs are recursive functions whose
turns are `EnumTurn` and `RangeTurn`.

## Runs

| Run | Bounds | States | Shows |
|---|---|---|---|
| `dispatch` | 2 descriptors opened twice each, 3 operations per callback, 2 notifications | 365 434 | watches stay consistent and deliveries fresh, also after the change log was corrupted |
| `embedded_loop` | 2 descriptors, 2 interests, 2 operations per callback | 404 754 | under the two restrictions, log and interest set give exactly what is wanted, and `old_events` is what the kernel holds |
| `client` | 3 calls, table of up to 4, a server that may invent a response | 616 664 | slots, free list, answers, watches, handlers; every closure exactly once and eventually |
| `client_grow_in_closure` | 3 calls | violation | finding 1 |
| `data_buffer` | 2 buffers, 2-byte fragments, 4 bytes in all, 3 per operation; with a negative char among them 3 bytes in all | 12 351 | buffers are byte queues, `size` exact, fragments sound, what a search finds |
| `unpack` | 7 messages, 3 members, packed members of 3 bytes, numbers of 2 bytes, slabs of 1 and 2 | 474 167 | result exact; no leak, double free or overrun, whatever fails |
| `unpack_required` | 3 required fields, real bitmap size | violation | finding 2 |
| `server` | 2 clients, 3 requests, a pipe for 2 responses | 317 698 | no request is used after it was freed or recycled; each client gets its own answers, once and in the end |
| `timers` | 4 timers for 2 moments, 1 idle function, 1 operation per pass, ints of 3 bits | 86 988 | the tree stays sound, timers fire in order and in the end, poll waits neither too short nor without need, and for ever only where the sum of its wait overflows |
| `timers_first` | 3 timers for 3 moments | violation | finding 3 |
| `pack` | 216 messages, `W` = 4, `H` = 13, scratch buffers of 4 and 8 bytes | 14 059 | sizes exact, both ways of packing agree, assertions hold, buffers hold no more than they have room for and do not leak, packing is inverted |
| `lookups` | enums of up to 9 values and messages of up to 6 fields, 16 ints, 10 names | 51 752 | exactly what was declared is found, inside the table, and every search ends |

**What the runs check, by name.** Type invariants are conjuncts of the first
property of a module, or stand alone as `TypeOK`.

- `dispatch`: `TypeOK`; `DesiredConsistent` (`fd_map` and the two parallel arrays
  describe the same watches of open descriptors); `NoStaleDelivery` (a callback
  never gets an event of an earlier owner of its descriptor's number).
- `embedded_loop`: `ChangesIndexed`, `EmbedderInSync`, `OldEventsExact` (the change
  log, the loop's interest set and what the kernel holds agree).
- `client`: `TypeOK`; `CallsHaveSlots` and `FreeListExact` (the closure table);
  `RightAnswer`; `WatchesWhatItNeeds` and `HandlersFitState` (what is registered with
  the dispatch); `KeepsContract` (the refinement of `RpcCalls`: each closure once,
  and in the end). `client_grow_in_closure`: `CalledOnce`.
- `data_buffer`: `BuffersSound` (size and fragments), `StringFound` (a string of
  chars that are not negative is found at its first place in what the search sees,
  another never), and `IsByteQueue` (the refinement of `ByteQueue`).
- `unpack`: `MemorySound` (no leak, no double free), `ArraysInBounds`, `ResultExact`,
  `NoFalseAlarm`. `unpack_required`: `RequiredPresent`.
- `server`: `NoWildAccess` and `RequestsSound` (the memory of requests),
  `OwnAnswerOnce`, `WatchFitsOutgoing`, `EventuallyAnswered`.
- `timers`: `TimersSound` and `EveryTreeSound` (tree and lists), `PublicMembersRight`
  and `WaitsRight` (what a main loop goes by; the latter is `NoFutileWait`, the wait
  is long enough, and `WaitEnds`, it is negative only where the sum overflows),
  `FiresInTurn`, `EveryTimerFires`.
  `timers_first`: `PublishedIsFirst`.
- `pack`: `SizeExact`, `AssertionsHold`, `BufferAgrees`, `BufferSound`, `RoundTrip`.
- `lookups`: `InTable`, `NumberFound`, `NameFound`, `SearchEnds`.

**Why the bounds are enough to be of interest.** Two descriptors are what it
takes for one removal to move the other's entry; two incarnations to have a
number reused; two notifications for the first callback to act on the second's
descriptor. Three calls make the closure table grow twice (1, 2, 4), leave free
slots between used ones, and let an id be reused while another call waits. With
fragments of two bytes a buffer of four has full, partly read and partly filled
fragments in every combination, an operation of three spans two or three of them,
and an iovector of two does not cover the buffer; a state with a byte beyond
`CHAR_MAX` is not followed further when there are four (`FewNegative`). Three members overflow the
first slab, give a singular field two values and an unknown member besides, and
make one packed member follow another; three bytes with numbers of at most two
include an overlong and an unterminated number. A bitmap of one
word of two bits makes fields of the sample messages share bits, as they do in
the code beyond 128 fields; `unpack_required` has the real sizes.

Three requests on two connections let a structure be recycled from one connection
to the other while the third waits; a pipe for two is filled by two threads while
a third is to wait, and both responses in it may outlive their connection. Four
timers give trees of three levels; as that is too few for some cases of the
removal, `EveryTreeSound` adds every tree of six nodes that eight insertions and
removals lead to. Two microseconds in a millisecond and two milliseconds in a
second make moments that do not divide and waits that carry over a second; with
ints up to 3 there are a wait that is cut short and one whose sum overflows. Two
timers for each of two moments make equal ones.
The numbers of `pack` lie on both sides of every power of two at which an
encoding changes, counts of packed values around the length that takes one byte
more than guessed, and strings and nested messages around the size of the scratch
buffers. The tables of `lookups` are those of every sequence of up to four numbers out
of four, every set of three and more out of nine, in declared and mixed order
of the names, and enums at both ends of the ints.

Deadlock is checked everywhere but in `pack`, where the program ends; elsewhere
states in which it has ended have an explicit stuttering action (`Dead`,
`Terminated`, `Returned`).

**Fairness.** `RpcClient` assumes weak fairness of `ClientRuns` (the
program keeps running the main loop and its closures return: everything in
`ClientRuns` is either a handler whose event is pending or the return of a
closure) and of `ServerResponds` (a server that has a request answers it or the
connection ends). The program is under no obligation to call, destroy or
configure anything, nor the server to close. Without the first, nothing
asynchronous can be promised; without the second, a client with no timeout for
calls, as this one is, waits for ever.

`RpcServer` assumes weak fairness of its thread (`RpcThread`: handlers whose event
is pending, a socket of a client that stays taking at least one response) and of
the service answering (`Respond`). It needs no fairness among clients, as they
send finitely many requests. `Timers` assumes that a pass that has begun goes on
(`PassGoesOn`: functions return) and, strongly, that `poll` runs into its timeout
now and then at a later moment: time passes, and descriptors are not ready for
ever before. This is asked only of moments at which `poll` is sure to be told a time
that ends (`~MaySleepForEver`), and `EveryTimerFires` promises as much. `Lookups`
assumes only that a search takes its next step.

**Abstract specifications.** The reference of `pack` is reading back, of
`lookups` the declaration, of `timers` the set of armed timers, of `server` the
ghost `call`. `client` checks `RpcClient => RpcCalls`, liveness
included, with the history variables `asked` and `answers` as the mapping.
`data_buffer` checks `DataBuffer => ByteQueue`, where a buffer maps to the
concatenation of the valid parts of its fragments.

## What is proved

Every theorem holds for all values of the constants, so for any set of
descriptors, calls, connections, buffers or fields and any sizes and bounds,
from the named assumptions of the module it is about (which TLC evaluates on
every run). `RecursionLemmas` has the facts several proofs share.

### Dispatch (`EmbeddedLoopProofs`, first part)

About `Dispatch` with any set of descriptor numbers (infinite ones too), any
interests and any bounds, from `BoundsAssumption` (the bounds are naturals) and
`InterestsAssumption` (`watch_fd` is not called with a callback and no events,
which it asserts):

* `TypeCorrect`: `Spec => []TypeOK`. The part that is not a formality is that
  `change_index` and `n_changes` stay within `changes`, although
  `deallocate_change_index` corrupts them: a wrong index is still one of an entry
  that was written once, unless the log is empty, which is where the model
  crashes.
* `WatchesConsistent`: `Spec => []DesiredConsistent`.
* `DeliveryFresh`: `Spec => NoStaleDelivery`, an action property.
* `Invariance`: `Spec => []IInv`, on which the three rest.

`IInv` is `TypeOK /\ DesiredConsistent /\ PendingFresh`. Freshness of a delivery
is a property of one step; what makes it inductive is `PendingFresh`: a
notification of the pass in progress whose descriptor was not closed since the
pass began belongs to the present incarnation, which is open. `CloseFd` sets the
flag, so it may close the descriptor; `OpenFd` needs a closed descriptor, so by
`PendingFresh` the flag is set already and it may begin a new incarnation; a new
pass resets only the flags of descriptors it has notifications of. For these, `Run` takes its
notifications from `notifies_desired`, so it needs the last conjunct of
`DesiredConsistent`, that only open descriptors are watched. `Deliver` then needs
`DesiredConsistent` again: the callback beside the entry is of the descriptor's
present incarnation. The proof has one lemma per action (`OpenStep`, `WatchStep`,
`UnwatchStep`, `CloseStep`, `ClearStep`, `DispatchStep`, `RunStep`, `LoopStep`),
and one lemma each for the two array operations under them (`PutType`,
`MoveLastToType`).

### Embedded loop (`EmbeddedLoopProofs`, second part)

On top of `IInv`, with the two restrictions of the program as hypotheses (both
are needed: see the first two *Observations*).

* From `CloseInOrder`: `LogIndexed` (`ChangesIndexed`), `ClosingInOrderIsSafe`
  (neither the wild read of `deallocate_change_index` nor the assertion of
  `clear_changes` is reached) and `EmbeddedDeliveryFresh` (`NoStaleDelivery`, with
  an interest set that may lag behind what the dispatch wants). `LogInv` says that log and
  `change_index` name each other entry by entry, that only open descriptors are
  waited for or logged with events, and that nothing has crashed; closing in order removes a
  descriptor's entry only when the wrong read of `deallocate_change_index` reads
  the right entry.
* From `CloseInOrder` and `~CallbacksWatch`: `LoopInSync` (`EmbedderInSync`) and
  `LoopKnowsOldEvents` (`OldEventsExact`). `SyncInv` says that nothing is logged
  during the pass over the notifications, after which the log is discarded, and
  that the loop's interest with the log applied (`Wanted`) is what the dispatch
  wants.

### Client (`RpcClientProofs`)

From `ClientAssumption`. `ClientTypeCorrect` and `ClientHandlersFit` hold for
every use of the client. The others have the hypothesis `~GrowInClosure`, because
without it they fail (finding 1):

* `EveryCallHasASlot` (`CallsHaveSlots`), `FreeListHoldsTheRest`
  (`FreeListExact`). The inductive invariant `SlotsInv` has types, handlers,
  `Quiet` (a client without a connection holds nothing of one), `SlotInv` (the
  calls in the table are exactly those asked and not answered, each once, and the
  one whose closure is running) and `FreeInv` (the slots that the free
  list links form a chain without repetition that ends, and its members are the
  slots without a call). The last needs the chain itself as a sequence: growth
  appends to it, a call takes its head, an answer puts its slot in front.
* `ClosuresInvokedOnce` (`CalledOnce`): every step of the client is a step of
  `RpcCalls` or a stutter, the safety part of the refinement `KeepsContract`.
* `ClientWatchesWhatItNeeds`, from `WatchInv`: with requests queued both events
  are watched, which is why the code need not ask again then.
* `ClosuresGetTheirAnswer` (`RightAnswer`), from `AnswerInv`: unless the server
  has invented a response, each message under way (queued, with the server, or
  coming back) carries the slot that its call has in the table, and there is one
  message per call. An id is free for reuse only when no message with it is
  left.

### Server (`RpcServerProofs`)

From `ServerAssumption` (finitely many connections, and `NoConn` is none of
them): `RequestsOutliveAnswers` (`NoWildAccess`), `RequestMemorySound`
(`RequestsSound`), `AnsweredOnce` (`OwnAnswerOnce`), `ServerWatchesWhatItNeeds`
(`WatchFitsOutgoing`). The invariant `IInv` is the types, that nothing wild
happened, that the replies and watches are right, and, as long as the program
has not misused the server (`Running`), `Core`:

* `HoldInv`: every request structure in use has one holder, a response closure
  that was not invoked or a response in the pipe, or is lost, and belongs to the
  request its holder answers;
* `MemInv`: structures are in use or recycled, never both; the pending list of a
  connection is exactly the structures in use that point to it, and none points
  to a connection that is gone;
* `IdInv`: the ids of a client's requests are used once, from being sent to being
  answered;
* `FrameInv`: what the function in progress has read still holds when it goes on.

`Running =>` is needed because after a late answer the memory really is
corrupt; that states after it do not count is what the two statuses mean. That
fresh memory can always be had is the pigeonhole principle for the addresses.

### Data buffer (`DataBufferProofs`)

From `BufferAssumption` (sizes are positive, bytes are up to `UCHAR_MAX`, which is
no less than `CHAR_MAX`, `Nul` is a byte), for fragments of any size:
`FragmentsAlwaysSound` (`BuffersSound`), `FragmentsAreByteQueues`
(`IsByteQueue`, the whole refinement of `ByteQueue`: what every function returns
and what it leaves), `SearchFindsFirst` (`StringFound`, for signed and unsigned
chars). The invariant is small:
every fragment has something to read and is not overfull, `size` is the sum, and
`last` names an operation. The work is in what the operators compute for lists
of any length: `CutAt` and `PeekDiscard` (reading up to n bytes over fragments),
`ChunksHold` and `AppendIs` (cutting what is appended into fragments), `MovedIs`
and `TransferIs`, `WritevFront` and `WritevLenFront` (an iovector covers a prefix),
`IndexIs` and, for a buffer not read in part, `SearchIs`. A search in a buffer whose
first fragment has been read in part is one in what it sees of it (`SearchSeen`), and
a char is the byte it is made of or no byte at all (`CharsOf`). Each
operation then has a lemma that its step keeps the
invariant and one that it is a step of the queue.

These are inductions over lists. The induction rules of the library take a
predicate as a parameter, which the provers cannot instantiate; instead the
smallest number at which a claim fails is taken (`SmallestExists`, from
well-foundedness of the naturals) and led to a contradiction, claim by claim.
That recursive functions such as `FlattenSeq` and the total length have a
solution, and only one, is proved the same way (`RecursionExists`,
`RecursionUnique`).

### Unpack (`UnpackProofs`, first part)

From `UnpackAssumption` and `SlabAssumption` (a power of two is positive: the
provers know nothing of exponentiation, TLC evaluates it), for any message and
any input, whatever fails:

* `UnpackKeepsMemory` (`MemorySound`). `Inv` says that the heap is exactly what
  the half-built message and the slabs account for, block by block. The tags of
  members (`Tags`, `Sources`) keep the blocks of different fields apart; `Stages`
  says what is in the fields between the passes, which is why the counters that
  are cleared on the way out are the right ones.
* `NoFieldMissedWrongly` (`NoFalseAlarm`): a required field of the input has its
  bit set, and so its word is not empty.
* `ArraysNeverOverrun` (`ArraysInBounds`). The first pass counts ends of numbers,
  the third finds numbers, perhaps in a member that breaks off. The invariant
  `RoomOK` is that what is stored in a field's array and what the members not
  parsed yet were counted to add are together no more than its room. It rests on
  `OrderInv`: the slabs hold the members in order, and the third pass takes them
  one after the other.
* `MessageHoldsInput` (`ResultExact`): by `ExactInv`, after p members the message
  holds what these p say.

### Lookups (`UnpackProofs`, second part)

For tables of any size and ints of any width, from `LookupAssumption` (the
number of ints is even and positive), `DeclarationsAssumption` (what `protoc`
accepts: names differ, and so do the numbers of fields) and `KeysAssumption` (what
is looked up is an int, or a name): `LookupsInTable` (`InTable`),
`LookupsNumberFound` (`NumberFound`) and `LookupsNameFound` (`NameFound`). The
invariant `LookupInv` has, besides the types:

* `TablesRight`, what the generator leaves. Entries are in strict order of their
  numbers, which are exactly the declared ones (`NumbersGenerated`); the ranges begin with index 0, end with the sentinel, and
  inside each the numbers are consecutive (`RangesRight`); names are in strict
  order, and each leads to the entry with the number of its item, also when that
  entry has another name (`NamesGenerated`).
* `NumberWindow` and `NameWindow`, what every probe keeps: the window is in the
  table, and if what is looked up is there at all it is in the window.

The argument for the tables: by counting, each place of a sorted table is taken
by exactly one item (`PlacesRight`); `final_index` counts the changes of number, so
it goes up by one where the number changes (`FinalIndexStep`) and the entries are
the firsts (`EntriesRight`); then an induction over the turns of each of the two
loops (`EnumPassStep`, `RangePassStep`). Both compare sums that wrap around;
`JoinsNext` shows that of two sorted ints they join exactly consecutive ones. For
the searches the ends of ranges are sums of ints, which next to `IntMax` overflow:
`EndFacts` says that the sum is right or one past `IntMax`, and `AroundRun` that a
number is missed only in that case.

### Packing (`PackProofs`)

For any messages with any fields, nested to any depth, and any widths of a byte and
of an int, from `WireAssumption` and `PackAssumption`: `PackSizeExact`
(`SizeExact`), `PackAssertionsHold` (`AssertionsHold`), `PackBufferAgrees`
(`BufferAgrees`) and `PackBufferSound` (`BufferSound`), from two invariants.

* `LoopInv` (`PackLoops`): after each turn of a loop, `size` and `out` are those of
  the fields so far, and neither assertion has failed. The lemmas under it go from
  the encodings (a number takes as many bytes as its size function counts: both
  count the powers of two below it) over values and fields to messages, by induction
  on the depth. The packed length is guessed from the smallest payload; that it is one
  byte short at most rests on no number being longer than a byte has values
  (`WireAssumption`).
* `BufferInv` (`PackBuffers`): what is left of `todo`, done to the stack of buffers
  with memory for every append, leads to one buffer with the bytes `pack` has written
  (`Follows`). `Does` says that a list of steps appends given bytes to the buffer on
  top, and `StepsDo` and `MessagesDo` that the steps for a message do so with the bytes
  of `pack`, by induction on the depth. The real buffers are `Like` those: the same
  while no append was dropped, never fuller otherwise. `blocks` is the number of
  buffers that have outgrown their scratch memory.

### Red-black tree and timers (`TimersProofs`)

For any number of timers and idle functions, any moments and any length of a second
and of a millisecond, from `TimerAssumption` (the bounds are naturals, a second and
a millisecond are not empty, moments are within their bound and
their seconds fit an int): `TimersAreSound`
(`TimersSound`), `TimersFireInTurn` (`FiresInTurn`, an action property),
`PublicMembersAreRight` (`PublicMembersRight`) and `WaitsAreRight`
(`WaitsRight`), all from `TimersInductive`.

**The tree.** `GoodTree(t, S, R)` says that t is a red-black tree of the nodes S in the
order R, in a form that local changes can be checked against: there is a function
`sub` from nodes to sets (`Shape`) with `sub[n]` the node itself and the sets of its
children, everything in the left one before n and in the right one after it, and
`sub` of the top all of S; there are heights (`Heights`) that go down by one at
every black child; and no red node has a red child (`Reds`). The tree operators then
are Hoare triples:

* A rotation moves one set between two nodes (`RotateShape`) and, as it is used with
  an exchange of colours, keeps the heights (`TradedHeights`).
* `TreeInsertGood`. `Fixing` is the invariant of the fixup: all is well but that
  `s.at` and its parent may both be red. Going down finds a leaf where the new node
  belongs (`InsertPointIs`); a turn of the fixup repairs or goes two levels up
  (`InsertStep`).
* `TreeRemoveGood`. `Heavy` is the invariant of the other fixup: the way down to
  `s.x`, a node or NULL, is short of one black, which `Heights` has as a parameter;
  a turn ends or moves the deficit one level up (`RemoveStep`). Splicing out a node
  with one child leaves such a tree (`SpliceOutGood`); that the successor then takes
  the place of z is a renaming (`Renaming`), allowed because nothing lies between
  the two (`NextInOrder`).
* `TreeFirstIs`: the leftmost node is before all others. `GoodIsSound`: what the
  walks of `SoundTree` compute (`SubtreeIs`, `PathUpIs`) is what `sub` says, and
  equal heights are equal counts of black nodes (`SameSum`).

Each loop ends within its turns because the set of the node it is at grows or
shrinks strictly (`LoopEnds`). Induction over a tree is by the smallest set for
which a claim fails (`TreeInduction`).

**The timers.** `IInv` is types, `InTree` (`GoodTree` of the armed timers in
the order of `TIMERS_COMPARE`), `Lists`, `IdlesKnown`, `PublishedIsArmed` and
`NoFutileWait`. A timer's moment changes only while it is not in the tree, and a tree depends
only on the order among its nodes (`OrderInTree`). That a timer which is not
published never is the only one is `EdgeOfOne`: the first node of an empty tree is
on its left edge, although "on the left edge" is not "first" (finding 3). The wait is
arithmetic: quotient and remainder of the difference after the borrow (`Between`),
the rounding (`Rounded`), and what an int holds of the sum (`IntHolds`); from these,
what `millis_until` is at any distance (`MillisIs`, `WaitIs`), that it is enough
(`WaitIsEnough`) and that it is negative exactly in the window of `TooFar`
(`WaitEndsThere`).

### Only model-checked

* Liveness, which is beyond the prover: `KeepsContract` beyond its safety part,
  `EventuallyAnswered`, `EveryTimerFires`, `SearchEnds`.
* `EveryTreeSound`: the theorems about the tree say more, for trees of any size; the
  run keeps it because it goes through every case of the removal with the
  operators evaluated.
* `RoundTrip`, that what is packed is read back. `PackProofs` shows that reading never
  goes beyond the bytes or stands still, but not what it reads: the numbers would
  have to be put together again from their bytes, for every width.
* What the properties of the runs that expect a violation exclude.

## Findings

1. `client_grow_in_closure`: the response loop keeps a pointer into the closure
   table across the closure (`protobuf-c-rpc.c:605`). A closure that makes a call
   when no slot is free moves the table; the answered call stays in it and is
   answered again, with NULL, when the connection is lost.
2. `unpack_required`: a macro without parentheses makes the test for missing
   required fields see only the first of eight, and only if none of the eight was
   given (`protobuf-c.c:2364`). `NoFalseAlarm` shows that it never refuses a
   message wrongly.
3. `timers_first`: `add_timer` decides by the new timer's way up the tree whether
   it is the earliest, after the insertion has rebalanced the tree
   (`protobuf-c-dispatch.c:808`). A timer that becomes the top has no way up:
   after timers for 1, 8 and 5 the moment 5 is published and `poll` sleeps past
   the first timer. `timers` shows what holds all the same: the public timeout is
   that of some armed timer, and every timer fires in the end, unless the wait overflows
   (see below).

### Observations

What the models show besides and the runs leave out, by a switch, a ghost or a
condition in a property:

* `deallocate_change_index` (`protobuf-c-dispatch.c:431`) reads `from_fd` at the
  removed entry instead of the moved one: with `CloseInOrder = FALSE` in
  `MCEmbeddedLoop.cfg`, `ChangesIndexed` fails. As long as the log is discarded
  unread, as in `dispatch_run`, nothing else breaks (`dispatch`).
* `dispatch_dispatch` discards the log after the descriptor callbacks
  (`protobuf-c-dispatch.c:607`), so an embedding loop never learns what they
  watched: with `CallbacksWatch = TRUE`, `EmbedderInSync` fails.
* A call before the client is connected works on a union member of another state
  (`protobuf-c-rpc.c:647`): with `EarlyInvoke = TRUE` the client ends in `status =
  "undefined"`.
* `str_index_of` compares a `uint8_t` of the buffer with a plain `char` of the string
  (`protobuf-c-data-buffer.c:776` and `:801`). Where char is signed, a string with a
  byte of 128 or more is never found, although the comment at
  `protobuf-c-data-buffer.c:756-758` promises its index; it also begins every fragment
  at the start of its memory and not at `buf_start` (`:768`), so that in a fragment
  read in part it finds bytes that are gone and misses as many that are there.
  `StringFound` and its theorem say exactly this, of buffers in which only the first
  fragment has been read in part.
* The wait for `poll` overflows when the public timeout is `INT_MAX / 1000` = 2147483
  seconds away and at least 647001 microseconds (`protobuf-c-dispatch.c:739`):
  the sum of the milliseconds is then beyond `INT_MAX`, in practice negative, and
  `poll` waits for ever with a timer armed. `add_timer_millis` with 2147483700 leads
  there. `WaitsRight` and its theorem say that this happens in that window and nowhere
  else, and `EveryTimerFires` excludes it.
* A response given in the dispatch's thread to a request whose connection is gone
  frees the request and then recycles it (`protobuf-c-rpc.c:1094`): status
  `"late_answer"`. Through the pipe the same response is handled well, which is
  what `RequestsSound` shows.
* A server that is destroyed with requests unanswered is followed by their
  closures, and the watch on the pipe outlives it (`protobuf-c-rpc.c:1399`): status
  `"server_gone"`.
* A response whose way into the pipe fails leaves its request pending for ever
  (`protobuf-c-rpc.c:1079`): the ghost `lost`. `max_pending_requests_per_connection`
  is stored and never read (line 2 of the file says so), a client that shuts down its
  sending side loses the responses queued for it, and the ends of the pipe are never closed.
* An append of the simple buffer that finds no memory is not reported
  (`protobuf-c.c:209`), so the bytes have a gap, and of a nested message more
  bytes are read than were written (`protobuf-c.c:1161`): the ghost `dropped`.
  `BufferSound` is about what is written to a buffer and does not cover that read.
* The end of a range at the largest int overflows (`protobuf-c.c:1461`), so the
  numbers of that range are not found; `NumberFound` leaves such enums out.
* A negative enum value is packed in five bytes, where the documentation of the
  format has ten; it is read back right here. A repeated field with a NULL string
  crashes in `get_packed_size`, so no sample has one.
* `remove_timer` neither frees nor recycles the timer; `remove_idle` leaves
  `has_idle` set, so that one poll returns at once for nothing;
  `add_timer_millis` counts from the beginning of the last pass, not from now.

## Not modelled

* The asynchronous name resolver: no function installs one.
* Destroying a client in one of its own closures, or a server in its service:
  undefined from then on.
* Fragment recycling and the printf functions of the data buffer: compiled out.
* Allocators with `tmp_alloc`; allocation failure outside unpacking and packing.
* The other macros of the red-black tree and of the lists (lookup, neighbours, the
  variants with the colour in a pointer, sorting): the build does not use them.
* The plugin apart from the tables of the lookups: it prints text and keeps no
  state. `protobuf-c.h` apart from the simple buffer: declarations.
* Malformed input beyond what `Unpack` draws (unknown wire types and lengths
  beyond the input are one kind of bad member there).
* The sketches in `sctp-rpc` and `simplerpc`, outside the build; the tests.

## Plan

The modelling is complete up to the list above; what is left is to prove more.

1. A composition of `RpcClient` and `RpcServer` over one connection, in the place
   of the external peer of each.
2. A proof of `RoundTrip`.
