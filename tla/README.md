# A TLA+ verification project for iouxx

iouxx is a header-only C++ wrapper over liburing. A user builds an *operation
object* that holds all the arguments of one io_uring request and its callback,
submits it to a `ring`, and an event loop reaps completions and runs the
callback of the object whose address is in the completion's `user_data`. There
is no allocation and no ownership: who may destroy or re-use an object, a buffer
or a direct descriptor, and when, follows from what the library tells the owner.
That is what this project is about.

All paths below are relative to `src/include/iouxx/`.

## 1. Inventory

| Component | State it keeps | Operations | Hard behaviour |
|---|---|---|---|
| ring and operation core (`iouringxx.hpp`) | `raw_ring`, `probe`, the queues of liburing, the callback object in each operation | constructor, `reinit`, `exit`, `stop`, `start_from_disabled`, `make*`, `submit`, `submit_and_wait`, `co_await`, `fetch_result`, `wait_for_result`, `callback` | completions in any order, failing and short submits, interrupted waits, multishot completions, cancellation of coroutines |
| buffer tables and buffer groups (`iouringxx.hpp`) | `buffer_rings`, handles into it, registered buffers with tags | `register_*`, `update_*`, `unregister_buffer_group`, `find_buffer_group`, `insert`, `swap` | stale handles, rings swapped under registered groups, one tag for many buffers |
| direct descriptors (`iouops/file/openclose.hpp`, `iouops/network/sockprep.hpp`, `connection.hpp`) | the table in the kernel, plain index handles in the program | register table, fixed open / socket / accept / multishot accept, register, batch register, install, close | who chose the slot, partial batches, conversion of handles |
| zero-copy sends (`iouops/network/sendrecv.hpp`) | the buffer lent to the kernel | `send_zc`, `sendmsg_zc` | two completions per request, failure with a notification, flags in the result |
| timeouts, cancellation, poll, futex (`iouops/*.hpp`, `iouops/file/poll.hpp`) | the target of the request | one-shot and multishot requests, remove, update, wake | cancellation racing completion, `-ETIME` that is no error |
| file I/O, directory, connect/listen/shutdown, send/recv, socket commands | the arguments of one request | `build`, `do_callback` | re-submission of objects with in/out arguments |
| protocol database, IP and Unix addresses, clocks, `version_info`, utilities | none, or read-only tables | parsing, formatting, look-up | boundary values |
| module interface units (`src/modules`) | none | re-exports | none |

How they interact: every operation class derives from `operation_base`; `submit`
calls `feature_test`, `to_sqe` (which calls the class's `build`) and
`ring::submit`; the event loop calls `fetch_result` or `wait_for_result`, and
`operation_result::callback` calls the class's `do_callback`, which decodes the
result and calls the user's callback, stores the result (`syncwait_callback`) or
resumes a coroutine (`awaiter_callback`). Operations share the ring's queues,
the direct descriptor table and the buffer tables.

What makes them correct:

* core: nothing refers to an object whose owner believes the operation to be
  over; whoever waits is called back; a synchronous call returns its own result;
  a coroutine is stopped through its own promise;
* direct descriptors: a handle stands for the file it was delivered for; no
  occupied slot is without a handle;
* zero-copy: the owner writes to its buffer only when the kernel has let go of
  it; an error is reported only if the send failed;
* buffer groups: the registry agrees with the kernel; no buffer ring leaks or is
  freed twice; inserted buffers stay where the kernel reads them;
* buffer tables: memory that its owner takes for free is not used by the kernel,
  all of it comes back, and a transfer uses the buffer and file named last;
* timeouts, polls, futex waits and their cancellation: a race has one winner and
  both sides report it truthfully; the object is free when the callback says so;
* sockets: an accept or getsockname object that is submitted again reports the
  truth, and no accepted descriptor is dropped;
* addresses: a text is accepted exactly when it means an address, and what is
  printed reads back.

`PROJECT.json` lists every component with its status, and the hazards of the
code with the line where each one bites.

## 2. Modules

| Module | Models |
|---|---|
| `Ring` | the ring and operation core |
| `OpPromise` | the abstract specification: what the owner of an operation object may rely on |
| `ZeroCopy` | `socket_send_zc_operation`, `socket_sendmsg_zc_operation` |
| `FixedFiles` | the direct descriptor table and the operations on it |
| `BufferGroups` | the registry of provided-buffer rings, the handles into it, `exit` and `swap` |
| `BufferTable` | registered buffers with tags, and the reads, writes, sends and receives |
| `Requests` | timeouts, polls, futex waits, and the operations that cancel or update them |
| `Sockets` | opening, bind, listen, connect, accept, multishot accept, getsockname, options, shutdown, close; the `sockaddr_un` conversions |
| `Addresses` | the parsers and formatters of `ip.hpp` |
| `RingProofs`, `ZeroCopyProofs`, `FixedFilesProofs`, `BufferGroupsProofs`, `BufferTableProofs`, `RequestsProofs`, `SocketsProofs`, `AddressesProofs` | theorems about the module of that name and their proofs |
| `MC...` | the instance of the module of that name for TLC |

### Ring

One thread owns the ring, as the library requires. The state has three parts.

* The queues: `sq` (SQEs handed out by `io_uring_get_sqe` that the kernel has not
  taken), `inflight` (requests of the kernel), `cq` (completions not yet reaped),
  and `ring` (invalid, disabled or running).
* The objects: `phase[o]` is what the owner of the object at address `o` was told
  ("idle": nothing is under way; "busy": accepted, wait for the callback; "none":
  no object there); `handler[o]` and `promise[o]` are the `cancel_handler` of the
  awaiter and whether the awaiting coroutine really has `unhandled_stopped`;
  `got[o]` is what the callback object received last.
* The thread: `pc` and `waiting`, since `submit_and_wait` and `stop` block.

An SQE, a request and a completion are references `[id, op]`. The program has
only `op`, the address. `id` numbers the submissions and exists to state the
properties: `cur[o]` is the submission the owner of `o` waits for.

| Action | Code |
|---|---|
| `DoInit`, `Exit`, `StartFromDisabled`, `StopBegin`/`StopReturn` | `do_init`, `exit` (also `~ring`, `reinit`), `start_from_disabled`, `stop` |
| `Make`, `Destroy` | `make*`; the owner ends the object's life |
| `Submit`, `SubmitAndWait`, `Await` | the three ways to submit; `DoSubmitOk` and `DoSubmitError` are the two outcomes of `do_submit`, the latter because the feature test refuses the opcode (`Refused`), the queue is full (`SqFull`) or `io_uring_submit` fails (`EnterFails`) |
| `Complete` | the kernel posts a completion, possibly a cancelled one, possibly with `IORING_CQE_F_MORE` (external) |
| `Reap` | `fetch_result`/`wait_for_result` and `callback` in the event loop |
| `WaitReturn`, `WaitError` | the rest of `submit_and_wait` |

`EnterTakes` lets the kernel take any non-empty prefix of the queue, because
`ring::submit` checks only the sign of the result. A callback into an object that
is gone, into a coroutine that is not suspended, or a stop through a promise
without `unhandled_stopped` is undefined behaviour: the program crashes or goes
on with nothing visible changed (`Misfire`).

Assumptions on the caller, in the guards: an object is destroyed or submitted
again only when it is idle; a ring is used only while valid (the code asserts
it); `SyncShared` says whether `submit_and_wait` is used next to other
outstanding operations; `Promises[o]` says which coroutines await `o`.

### OpPromise

Outstanding submissions, what their owners were told, and who reported last; six
actions. `Ring` implements it under `out <- Refs, owner <- phase, last <- got`: a
submission is outstanding as long as *anything* refers to it, and the owner is
released by the very step that removes the last reference.

### ZeroCopy

`owner[o]` is what the owner concludes from the decoded results, `sending` and
`lent` are what the kernel does with the buffer, `Decode` is `do_callback`.
A failed send may announce a notification (the kernel does so when the request
had got its notification before it failed), and a notification of an operation in
`ReportUsage` may carry the usage bit. `do_callback` takes both for a plain
failure, so three history variables remember where that happened: `missed` are
the objects told of an error whose `IORING_CQE_F_MORE` was not looked at,
`copied` those told of an error in place of a notification, and `due[o]` counts the
sends of `o` that are not reported yet. The invariants speak of all other
objects; the strict forms, without the exception, are `OverMeansFree` and
`NotificationIsNoError`, and the code violates both.

### FixedFiles

`table` and `fdtab` are the direct descriptor table and the descriptor table of
the process; `handles` are the index values that callbacks delivered, each with
the file it was delivered for. A handle has the index of its most derived class
and that of its `fixed_file` part; they differ for a `fixed_connection`.
`DirectResult` is the kernel's answer: the slot if it was allocated, 0 if it was
given. A caller that gives an index gives a free one. `reg` is the object of one
`fixed_file_register_operation`, which may be submitted again: with `alloc_index`
the kernel writes the slot over its `fd` member. `ReusesAllocated` says whether the
caller submits it again after that without a new `file()`.

### BufferGroups

Two `ring` objects, each with its `raw_ring` (`raw`), `probe` and registry
(`entry[r][g]`); the kernel's `groups` per io_uring instance, the `mapped` memory of
the buffer rings with their `slots` and `tail`, and `held`, the `buffer_group`
handles of the caller, each a ring and a group id because the code keeps a pointer
to the registry entry. A `buffer_ring` frees itself on the io_uring whose address it
stores, so `Freed`, `Unmapped` and `Dropped` look at what that member contains
*now*. `TailSize` is 2^16, the width of the tail; a capacity is below it because
`entries` is a `std::uint16_t`. `Exit` is `exit`, `~ring` and the first half of `reinit`; `Swap` exchanges
`raw_ring` only, as the code does. Two constants describe the caller: `Refinds`
(every insert through a handle looked up anew) and `SwapsAnything`.

### BufferTable

The kernel's side are resource nodes: a node is a registered buffer with its tag, it
lives while it is in the table or used by a request, and when it goes it posts a
completion with the tag as `user_data`. `owed[u]` is how many calls of its
unregistration operation an owner still waits for, `lent[b]` whom a buffer was
registered with. Each operation class is one definition, named after it
(`file_read` ... `socket_sendmsg`), that says what its `build` puts into the SQE from
the members; the setters (`File`, `Socket`, `FileBuffer`, ...) are above them, and
`ReapIo` is `do_callback`. `asked[o]` is what the caller named last, `member[o]` what
the object holds. One cell stands for the array of a vectored operation, and
offsets and lengths are left out. `Programs` says which classes the two objects are
of.

### Requests

A request goes from queued to armed to firing, and a cancellation finds it in one of
these. Requests have numbers that the program does not see: a cancellation names
the *address* of its target, so it hits whatever is pending there when the kernel
looks. `hit[i]` and `missed[i]` record what cancellation `i` ended and whether it
left an armed target alone; `report[i]` is what its callback was told, with 1 for
the success of a cancellation whose callback takes no number. `timeout`,
`multishot_timeout`, `poll_add`, `futex_wait`, `futex_waitv`, `cancel`,
`timeout_cancel` and so on are what each class's `build` asks for. A second thread stores into the futex words
and wakes all waiters of them (`Store`, `Wake`).

### Sockets

A `sockaddr` is a sequence of cells and its length an in/out argument that the
object sets once, when it is constructed; the kernel writes as many cells as the
length has room for and stores the length of the name. That makes re-submission of
`socket_accept` and `socket_getsockname` objects state. The other operations are
submitted and awaited, one step each. `uses` picks the operations of a program:
one with accepts, one with a multishot accept, one with names, one with options.
`Names` are sequences of `Characters` that fit: an internet address is one cell, a
path leaves room for its terminator. `sockaddr_in`, `v4_info`, `sockaddr_un` and
`path` are the conversions of the two address classes. An object remembers the name
it was answered with before (`prior`), from which `Roomy` says whether the
length that is left has room for the next one.
Only plain descriptors appear; slots of the direct table are in `FixedFiles`.

### Addresses

A caller types a text token by token, `from_string` reads it, the value is printed
with a format specification and read back. A digit is the number it stands for
(both cases of a letter are one character), a value is what memory holds:
octets for `address_v4`, 16-bit numbers in network byte order for `address_v6` and
ports. The parsers, the unchecked parsers and the formatters are operators
translated from the code; `MeansItsText` compares them with a definition of
what a text means that has another shape (where the groups are and what the gap
stands for), in which a gap stands for one group of zeros at least. The parser also
accepts `::` after eight groups; `MeansItsText` names that text as its one exception
(`GapOfNone`), and `GapStandsForZeros` has none and is violated. Loops over a text are folds from the left by `Accumulate`, a
recursive function of the length (`Number` for `std::from_chars`, `Cut` and `CutPair` for
`std::views::split`, `Scan` for the search of the longest run of zeros), so that each
iteration of the code is one application of a named step.

## 3. Runs

| Run | Checks | Result |
|---|---|---|
| `ring_clean` | `NoOrphan`, `SyncReturnsOwn`, `KeepsPromise`, `Completes` | hold without submit and wait errors, with multishot, an unsupported opcode, stop, exit and reinit |
| `ring_faults` | `TypeOK`, `NoLostWaiter` | hold under every fault of the model, for coroutines without `unhandled_stopped` |
| `ring_submit_error` | `NoOrphan` | violated: a failed submit leaves its SQE queued |
| `zc_buffers` | `BufferIsOwners`, `HonestFailure`, `OneResultEach`, `BufferReturns` | hold with failed sends that announce notifications and with usage reports, outside the named exceptions |
| `fixed_files` | `TypeOK`, `HandlesMeanFiles`, `NoLeak` | hold with allocated slots and explicit offsets |
| `buffer_groups` | `TypeOK`, `RegistryIsKernels`, `NoLeak`, `GivenBuffersStay` | hold if rings are swapped only without groups and handles are looked up anew |
| `buffer_table` | `TypeOK`, `FreeMemoryIsFree`, `TransferAsAsked`, `BuffersComeBack` | hold for an owner that counts the calls, for all transfer classes |
| `requests` | `TypeOK`, `OverMeansOver`, `OneWinner`, `CancelReportsTruth`, `RepeatsAsAsked`, `ChangedWordWakes` | hold for all targets and all cancellations but the one by file |
| `addresses` | `TypeOK`, `MeansItsText`, `ReadsBack`, `UncheckAgrees`, `LongestGap`, `MappedV4` | hold for all texts of the instance, `MeansItsText` with its exception |
| `gap_of_none` | `GapStandsForZeros` | violated: a trailing `::` after eight groups is accepted |
| `sockets` | `TypeOK`, `ReportsTruth`, `NoLeak`, `EveryoneAccepted` | hold in the unix domain, with short paths after long ones in the same object; the theorems cover internet addresses too |
| `uds_length` | `LengthAsserted` | violated: the kernel reports the length of the path |

Each violated run states what a comment, an assertion or the README of the repository
says; the quotation is in `PROJECT.json` under `findings`. The passing runs leave out more
cases in which the code goes wrong, and say nothing about them. Each is a hazard in
`PROJECT.json` with its line. Most have a configuration with which TLC finds the
violation (`tlc -config <name>.cfg <module>`):

| Configuration | Module | Property | Violated because | Against |
|---|---|---|---|---|
| `ring_wait_error` | `MCRing` | `NoOrphan` | an interrupted `submit_and_wait` returns with its request in flight | the objects "need to outlive the submission and completion of io_uring" (`README.md:28`) |
| `sync_shared` | `MCRing` | `SyncReturnsOwn` | `submit_and_wait` returns after a foreign completion | "`syncwait_callback` for simple synchronous wait use case" (`README.md:34`) |
| `stop_handler` | `MCRing` | `StopHandlerFits` | `cancel_handler` is kept when an object is awaited by another kind of coroutine | `template<has_unhandled_stopped Promise>` (`iouringxx.hpp:87`) |
| `zc_failed_send` | `MCZeroCopy` | `OverMeansFree` | the notification after an error is not waited for | "one for notification of buffer is free to reuse" (`sendrecv.hpp:361`) |
| `zc_usage` | `MCZeroCopy` | `NotificationIsNoError` | the usage bit is read as an error | the same, and "Pre: ev >= 0" (`utility.hpp:61`) |
| `buffer_update` | `MCBufferTable` | `ErrorCodePre` | a successful update passes a negated count to `make_system_error_code` | "Pre: ev >= 0" (`utility.hpp:61`) |
| `cancel_fd` | `MCRequests` | `CancelReportsTruth` | the request is also marked as one by `user_data`, with none given, so requests on the file are not found | "Cancel operation with user-defined callback by provided file descriptor" (`cancel.hpp:172`) |
| `repeat_wraps` | `MCRequests` | `RepeatsAsAsked` | the count is narrowed to 32 bits, and 0 is forever | "n = 0 means infinite" (`timeout.hpp:212`) |
| `string_option` | `MCSockets` | `OptionReadsBack` | a string option is read with the length of an empty string, and a result of 0 is reported as a failure | "updated optlen is in ev, discard it" (`sockcmd.hpp:859`) |

The rest need only a change of a constant; nothing in the repository says otherwise:

| Constant | Property that then fails | Because |
|---|---|---|
| `MaxSubmitErrors = 1` (`ring_clean`) | `Completes` | after a leftover entry a submit may be short, and nobody counts |
| `Indexes` with a number other than 0 (`fixed_files`) | `HandlesMeanFiles` | the kernel answers 0 for a given index |
| `FileOpsOnConnections = TRUE` (`fixed_files`) | `HandlesMeanFiles` | the `fixed_file` part of a `fixed_connection` has another index |
| `ReusesAllocated = TRUE` (`fixed_files`) | `HandlesMeanFiles` | the slot was written over the descriptor |
| `Refinds = FALSE` (`buffer_groups`) | `GivenBuffersStay` | a handle stays non-null after unregistration |
| `SwapsAnything = TRUE` (`buffer_groups`) | `RegistryIsKernels`, `NoLeak` | probe and registry do not move with `raw_ring` |

`ReportsTruth` says in which cases a re-submitted object reports the truth. In the
others, a path that is longer than the one before it or no name after a name, what
is reported is cut off or left over (`Roomy` dropped, the property fails).

Mutants. Each property of a passing run has an operator in the module, marked
"Mutant", that changes one definition the way a plausible mistake in the code
would (a flag ignored, a queue not dropped, a range off by one). `PROJECT.json`
says which operator replaces which definition; with it the property fails under
the run's own configuration.

Bounds. The ring runs use two to four objects, one per style that behaves
differently, a submission queue of two entries (so that it can be full, and a
submit can be short, with two objects), three or four submissions (so that an
object is submitted, destroyed, built again at the same address and submitted
while the first submission is still somewhere), one intermediate completion and
up to two submit failures (enough to fill the queue with leftovers). The
zero-copy runs have one operation of each class and up to four sends. The
descriptor run has three slots, two descriptors (one with the number of a slot, so
that a slot taken for a descriptor is a live one), three files and three handles: a batch of two, a
listener with a connection, and a slot that is freed and re-used. `buffer_groups` has
two rings, two group ids, three io_uring instances and three buffer rings: a
group that is registered again after an unregistration, and a ring that is
initialised again next to another. `buffer_table` has two buffers, two slots and two
submissions, so that a buffer is replaced while a request uses it, and an object is
submitted again after its target or its buffer changed. `requests` has one target
and one cancellation object, each with up to two requests outstanding, three
in all: two cancellations of one target, or one of two. The modulus of the timer
count is scaled down to 3. `addresses` types up to nine groups with colons between them
for IPv6 (one more than an address has, 0 or ffff each), shorter texts when there are gaps, an embedded
quad or malformed sections, and sections at both sides of the limits of
an octet and of a port. The run has the little-endian byte order; the properties hold with
`LittleEndian = FALSE` as well, and the theorems hold for both. `sockets` has three descriptors and queues of two connections, so that
descriptors run out and are re-used, and three calls, a path that fills its
structure and one that is two characters shorter, so that a short name is reported after a long one
and the other way round. A violated run, or configuration, has the constants of the passing run next to it, but for
what lets its case happen.

Deadlock is not checked where a program may end: a crash ends `ring_faults`; the
other runs that turn it off end when the caller has no more to do, that is when the
bounds on its operations are reached.

Fairness. `Completes` assumes that the kernel completes each request in flight
for good (weak fairness of the final completion per object), that a blocked call
returns when it can, and that the event loop comes back to reaping (strong
fairness of `Reap`, because the thread may call `stop` or `submit_and_wait` in
between, which disables reaping for a while). Nothing obliges a caller to
submit, so an entry that a short submit leaves queued is made up for only if
there is a next submit. Without submit errors this does not arise: the queue is
empty before each submit, and a submit takes at least the one entry
(`QueueEmpty`, proved). The zero-copy run assumes that the kernel posts
both completions and that the loop reaps. `BuffersComeBack` assumes that the kernel
finishes the requests it has and that the owner reaps. `ChangedWordWakes` assumes
that the kernel gets to queued requests, that the loop reaps and that a
thread that stored into a word goes on to wake; nobody says when a timer
expires. `EveryoneAccepted` assumes that the kernel and the loop go on, that the
program submits the multishot accept again when the result says there is no
more, and that it closes connections at some time, since otherwise the descriptors run out.

## 4. Proofs

Each theorem holds for every value of the constants that satisfies its module's
`ASSUME`s and the assumption in the last column. The runs use constants that
satisfy what the corresponding theorem assumes; the violations and the
constants listed in section 3 say what happens where an assumption is dropped: each
one is needed.

| Module | Theorem | Statement | Assumes |
|---|---|---|---|
| `RingProofs` | `TypeCorrect` | `Spec => []TypeOK` | |
| | `WaitersServed` | `Spec => []NoLostWaiter` | `OnePromise` |
| | `NobodyOrphaned` | `Spec => []NoOrphan` | `NoFaults` |
| | `SyncOwnResult` | `Spec => SyncReturnsOwn` | `NoFaults` |
| | `RingKeepsPromise` | `Spec => KeepsPromise` | `NoFaults` |
| `ZeroCopyProofs` | `TypeCorrect` | `Spec => []TypeOK` | |
| | `OwnerHasBuffer` | `Spec => []BufferIsOwners` | |
| | `FailuresAreHonest` | `Spec => []HonestFailure` | |
| | `SendsReportedOnce` | `Spec => []OneResultEach` | |
| `FixedFilesProofs` | `TypeCorrect` | `Spec => []TypeOK` | |
| | `HandlesStandForFiles` | `Spec => []HandlesMeanFiles` | `Indexes \subseteq {0}`, `FileOpsOnConnections = FALSE`, `ReusesAllocated = FALSE` |
| | `TableNeverLeaks` | `Spec => []NoLeak` | the same |
| `BufferGroupsProofs` | `TypeCorrect` | `Spec => []TypeOK` | |
| | `RegistryAgrees` | `Spec => []RegistryIsKernels` | `SwapsAnything = FALSE` |
| | `BufferRingsNeverLeak` | `Spec => []NoLeak` | `SwapsAnything = FALSE` |
| | `BuffersStayGiven` | `Spec => []GivenBuffersStay` | the same and `Refinds = TRUE` |
| `BufferTableProofs` | `TypeCorrect` | `Spec => []TypeOK` | |
| | `FreeMemoryStaysFree` | `Spec => []FreeMemoryIsFree` | |
| | `TransfersAreAsAsked` | `Spec => TransferAsAsked` | |
| `RequestsProofs` | `TypeCorrect` | `Spec => []TypeOK` | |
| | `OverIsOver` | `Spec => []OverMeansOver` | |
| | `RaceHasOneWinner` | `Spec => []OneWinner` | |
| | `ReportsAreTrue` | `Spec => []CancelReportsTruth` | `"cancel_fd" \notin CancelKinds` |
| | `RepeatsHold` | `Spec => RepeatsAsAsked` | every member of `Repeats` is below `CountModulus` |
| `SocketsProofs` | `TypeCorrect` | `Spec => []TypeOK` | |
| | `SocketsNeverLeak` | `Spec => []NoLeak` | |
| | `ReportsAreTrue` | `Spec => []ReportsTruth` | |
| `AddressesProofs` | `AddressesTypeOK` | `Spec => []TypeOK` | |
| | `AddressesMeansItsText` | `Spec => []MeansItsText` | |
| | `AddressesReadBack` | `Spec => []ReadsBack` | |
| | `AddressesUncheckAgrees` | `Spec => []UncheckAgrees` | |
| | `AddressesLongestGap` | `Spec => []LongestGap` | |
| | `AddressesMappedV4` | `Spec => []MappedV4` | |
| | `V6MeansItsText` | `V6Meaning(s)` is `{Memory(V6FromString(s))}`, or empty if the text is refused, or `s` is a `GapOfNone` | `s \in Texts` |
| | `ShownReadsBack` | `from_string` of any printed form of a value is the value | the value is one of its class |
| | `UncheckSound` | `from_string_uncheck` and `from_string` agree | the text is accepted |
| | `V4ReadsBack`, `PortReadsBack` | the printed address or port is read back | |

`OnePromise` says that each object is awaited by one kind of coroutine only;
`NoFaults` that submits and waits do not fail, the ring does not start disabled
and a synchronous call has the ring for itself, together with `OnePromise`.

Hardly any of these properties is inductive as it stands. What each proof adds, and why:

**Ring.** Reaping the completion that an owner waits for must release that owner.
`WaiterInv` adds that a synchronous operation is busy only while its owner blocks in
`submit_and_wait`, so the event loop never reaps its completion (`SyncBlocks`), and
that a `cancel_handler` was set by a promise of the kind that awaits now, so the
callback of a waiting coroutine is never undefined (`HandlerFits`). `NoOrphan` needs `OwnedInv`: between two steps the
submission queue is empty (`QueueEmpty`: without failures there are no leftovers,
so the kernel always takes the one entry), a completion without
`IORING_CQE_F_MORE` is the last reference to its submission (`FinalIsLast`), only
multishot requests announce more (`MoreIsMultishot`), and while a thread blocks in
`submit_and_wait` every reference is to its own operation (`AloneInWait`). From
`OwnedInv`, `SyncReturnsOwn` follows because the only completion that can arrive
is the caller's own. The refinement needs `Numbered` as well, `cur[o]` is
at most `nsub`, so that an accepted submission is a new one; then each
action of `Ring` is an action of `OpPromise` or leaves `Refs`, `phase` and `got`
unchanged.

**Zero-copy sends.** `BufferInv` says that a send under way and a notification that is
owed have a busy owner (`OweInv`), and that a completion without more is the last
one of its object, with nothing lent any more (`CqInv`). `ErrorInv` adds that a
negative completion is that of a failed send or a notification. For `OneResultEach`,
`ReportInv` adds that a result is the first completion of its object, with a busy
owner, and that a notification is behind it and announces nothing (`ResultInv`, `OwedInv`).
All of it is said of objects outside `missed`: after a failure that hid a
notification, completions of two sends of one object can be under way together.

**Direct descriptors.** `HandleInv` adds that no two handles have one slot
(`SlotsAreOwned`), without which closing one would take the file from under the
other, and that a handle's file is a real one (`HandlesAreOfFiles`).

**Buffer groups.** `RegistryInv` adds that no two rings hold one io_uring
(`OwnInstances`), since `exit` of one would free the groups of the other, and that an
instance that does not exist yet has none (`FutureIsEmpty`). `GivenInv` adds that no
more buffers were given than there are slots, which with a capacity below 2^16
keeps the positions behind a 16-bit tail apart.

**Buffer tables.** `NodeInv` says that every node that can be reached is known
(`NodesKnown`), which buffer is lent to whom (`LentInv`), and that `owed[u]` is the number of
nodes and completions that still carry the tag (`OwedInv`), so that the last
call finds nothing left. `TransferInv` carries what the caller asked for from the
members of an object through its request into its completion.

**Requests.** `NumberInv` says that request numbers are unique and that each pending
submission is either a request or one last completion, never both; then
`out[o]` is the number of pending submissions of `o`. `WinnerInv` adds that a request
the kernel still has was hit by nobody and a completion with `-ECANCELED` by
one cancellation. `TruthInv` relates the result of a cancellation on its way to the
requests that it hit. `RepeatInv` counts: calls made, completions on their way
and shots left make up what was asked for, and the last completion of a request is
behind all the others of it.

**Sockets.** `OwnInv` says that the handles, the result of the accept and those of the
multishot accept are disjoint and no result occurs twice; otherwise `Close` could
take a descriptor from another owner. That a descriptor is free when the kernel
gives it out rests on the existence of a lowest one (`LowestFreeIsFree`).
`HonestInv` says that an object without an answer has the length that the answer before
left, or a whole structure of zeros (`Kept`), and one with an answer the
answer's length (`Told`). From that, `AnswerReads` shows that an answer with room for it is
read as it was meant: the copy ends with its terminator, and `PathReads` says that
`path()` does not look behind it, whatever an earlier and longer path has left there.
Both domains are covered, by cases.

**Addresses.** The invariant `Kept` is small: a text that has been read, or
printed, is one that `from_string` maps to `value`, and a value has the shape of its
class. What remains are facts about the operators, for every text and every value, and
most of the module is their proof. They are inductions over data. An induction rule
that takes a predicate is of no use to the provers here, so the induction is done over sets:
`Induct` says that a set that holds 0 and the successors of its members holds every number (from
the well-foundedness of `<`, `WFMin`), `InductSeq` the same of sequences and `Append`,
and `Loop` turns a fold into one whose step is a function rather than an operator, about
which a lemma can quantify; each fold of the model is shown to be such a loop. The
argument then goes as follows.

* Splitting: what `split` leaves, put together again, is the text (`PairPieces`), and a text put
  together from pieces without the separator is split into them (`PairBetween`).
* Numbers: digits of a number read as that number, without leading zeros in one
  way only, so that IPv4 addresses and ports have one spelling.
* Reading: `Part(t, gs, seen)` says that from every state with room, reading `t` appends `gs`. Printed
  groups are such parts, and parts joined by colons are parts; so what
  `full_ipv6`, `mixed_full_ipv6` and `compressed_ipv6` print is read as the groups it was
  printed from, which with the byte order gives `ShownReadsBack`.
* Meaning: `Side` relates a side of a gap to the groups it is read as and to
  the octets it means. An accepted text stands for an address (`AcceptedMeant`), a text that
  stands for one is accepted, and no text has two readings.
* The gap: after `n` groups the best run is as far ahead as any run of zeros among
  them (`TopRun`, kept by every iteration of the loop in `compressed_ipv6`); the gap a
  caller typed is such a run of the value, and the printed gap is the best run.

Only model-checked: liveness (`Completes`, `BufferReturns`, `BuffersComeBack`,
`ChangedWordWakes`, `EveryoneAccepted`), which rests on fairness and is out of the
prover's reach. Every invariant and every safety property of a step that a passing run checks
has a theorem.

## 5. Not modelled, and why

* Directory operations, the no-op, open flags and modes: marshalling of arguments
  with no state that a later step sees. Such an operation is an object of `Ring`.
* Clocks, `version_info`, the tables of socket options and error codes: data and
  comparisons. Deadlines and the choice of a clock do not appear in `Requests` because
  when a timer expires is left open.
* The protocol database: filled once from `getprotoent` under `std::call_once`
  and read-only after that.
* `socket_multishot_recv_operation` and the consumption of buffer groups: no
  operation of the library sets `IOSQE_BUFFER_SELECT`, without which the kernel refuses a
  multishot receive, so this code never gets as far as a buffer.
* Fixed variants of the socket operations in `Sockets`: they differ in the
  descriptor flag only; the slots they allocate are in `FixedFiles`.
* Worker and NAPI settings: one register call each.
* SQPOLL and several threads on one ring: with SQPOLL the kernel thread takes
  entries by itself, which `EnterTakes` covers only at the moment of a submit.
* Completion queue overflow: the kernels that iouxx supports keep overflowed
  completions (`IORING_FEAT_NODROP`).
* The module interface units: re-exports.

## 6. Plan

Every safety property of a passing run has a theorem. What is left is the protocol
database and its iterator, checked against a reference definition.
