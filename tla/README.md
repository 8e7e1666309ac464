# A verification project for UDT

UDT (universal data transmitter) carries messages between programs. A
*customer* links the customer library and talks to the *kernel* of its machine
through a main channel (shared memory, TCP or UDP); kernels are linked to each
other over TCP, learn about each other's customers, and route every message to
the customers that subscribed to it. `SHARE` is the library under both: sockets,
shared memory, threads, the thread pool.

This directory models the parts of UDT where threads, processes and kernels
meet: the ring of events in shared memory, the thread pool, the scheduling of user
data in the kernel, the shared-memory channel between customer and kernel, the
output of the kernel, the splitting and joining of packets, the network of kernels
with its routes, and the subscriptions. TLC checks the models on small instances;
TLAPS proves most of their safety properties for every size (section 5).

`PROJECT.json` holds, for the modules and definitions named here, the source
lines they stand for, the runs, the mutants each property is tested with, and
the list of hazards. The property names below are definitions of the modules.
A definition named `Mutant…` is a plausible bug in the definition after it.

## 1. Inventory

| Part | State | Operations | Meets |
|---|---|---|---|
| Event ring `event_fifo_t` | two wrapping `uint16_t` counters, slots, count of data events | `MPut`, `MPop`, `MEraseFromFifo` | both processes, under the lock of the ring |
| Shared-memory transport `CSharedMemoryBase::CImpl` | rings, `FBuffers`, overload flag, use counts in shared memory, confirmations | `MSend`, event handler thread, `MReceiveData`, keep-alive | the peer through its ring; the receiving thread through `FBuffers` |
| Shared-memory server and client | list of clients in shared memory, ids, signal events | connect, disconnect, clean-up of dead clients | each other |
| Shared allocator, `CBuffer` | free list, use counts | allocate, refuse, release | all processes |
| Thread pool `CThreadPool` | queues of operations, threads, flags | `MAdd`, `MRemove`, `MWaitFor`, `MRemoveThread`, `MCancel` | every service |
| `CHardWorker` | a queue of objects per event type | `MPush` of events | handlers of the services |
| Kernel data object `CDataObject` | `FUserDataFIFO` per descriptor | `MPush` of user data, `MUserOperation` | routing service |
| Main channel `CSmMainChannel` (customer and kernel) | packet counters, `FRecv` | send in one or two parts, `MReceiver` | transport, data object |
| `CDescriptors` | descriptor → info, uuid → descriptor | create, open, close | all kernel services |
| Kernel output `CKernelIo`, `CBuffering` | buffer per channel, pending descriptors | `MSendTo`, `MSendUserDataImpl`, add and remove channels | pool, IO managers |
| `CPacketDivisor` | merges under way, limits per descriptor | split, merge | routing service |
| `CRoutingService`, `CRequiredDG` | subscriptions | route, report failures | all of the above |
| `CInfoService`, `CRouteGraph` | the net of kernels with index numbers, graph | open, close, synchronise, shortest path | other kernels |
| TCP/UDP links, front end, HTTP, auto search, diagnostics, time dispatcher, customer API, OS wrappers | – | – | – |

How they interact: an application calls `CCustomer::MSend`; the customer's data
object runs `CSmMainChannel::MSend` on one of its threads; the parts travel
through the ring of the kernel; the kernel's handler thread moves them to
`FBuffers`; `MReceiver` joins them and calls `CDataObject::MPush`; a pool thread
runs the handlers of the descriptor (`MRouting`); what is to be sent goes through
`CKernelIo::MSendTo` into the buffer of a channel, from which IO threads of the
pool send it with the IO manager of the channel.

Kernels tell each other which programs are connected to them (`CInfoService`);
every change of a descriptor or of a record is an event on the pool
(`CHardWorker`), the differences that come out of it are events for
`CRoutingService`, which keeps the subscriptions (`CRequiredDG`).

What is hard here:

* wake-ups: one signal per queued operation, one signal per *empty* ring, flags
  that stand for condition variables;
* "schedule only if nobody is working, stay only if there is more": twice, in the
  data object and in the output, with the decision and the work under different
  locks;
* reference counts and offsets in shared memory that outlive a failed send;
* counters that wrap (16 bits in the ring and in the parts of a packet, 30 bits in
  the packet counter);
* threads that are told to leave while they fall asleep;
* channels and descriptors that vanish between two steps of a sender;
* lost parts of packets that were split by several kernels;
* knowledge of the network that travels with a delay, in loops, and is handled by
  threads in another order than it came;
* tables of subscriptions that are never computed again, only changed.

`PROJECT.json` lists these at their lines, with the properties that would notice
them going wrong, also those no property covers. Known and not in that list: an
erased event stays counted (`event_fifo_t`), `MCancel` joins under a lock that
callbacks may want, a process that dies with the lock in shared memory before
its pid is stored, `MPutOperation` refused by the pool, an older descriptor of a
program whose close erases the newer one from `FByUUIDs`, and the stale distance in
`MDijkstraComputePathsFor` (`map::insert` does not overwrite).

## 2. Modules

| Module | Models | Abstraction |
|---|---|---|
| `BoundedFifo` | what the ring promises: a bounded queue with an erase | – |
| `EventFifo` | `event_fifo_t` (CSharedMemoryImplTypes.h) | an event is data or control; the width of the counters is a constant |
| `OperationQueue` | `COperationQueue`, `CPoolThread::MRun`, `CThreadPool` (CThreadPool.cpp) | a callback is a step that ends or keeps its operation; ids are reused |
| `DataObject` | `CDataObject::MPush` of user data and `MUserOperation` (kernel) | a packet is its ordinal number; the pool is its queue |
| `SmChannel` | customer's `CSmMainChannel::MSend…`, transport (`MSend`, `MInvokeEventTo`, handler thread, `MReceiveData`, `MGetData`), kernel's `MReceiver` | messages are numbers, all buffers have size 1, allocator = use counts |
| `KernelSend` | `CKernelIo` and `CBuffering` for user data, channels and descriptors coming and going | messages are numbers of size 1; IO managers send or fail |
| `PacketDivisor` | `CPacketDivisor` in the kernels along a chain of links | a packet is the sequence 1..n of its bytes; one sender, one receiver |
| `KernelNet` | `CInfoService`, `CRouteGraph`, `CDescriptors`, the events of `CHardWorker` and the clients of `CRoutingService`, in several kernels | a link is the two descriptors at its ends; all links have the same latency |
| `Subscriptions` | `CRequiredDG`, the names of `CAddress.cpp`, the handlers of demands and differences in `CRoutingService`, the demand lists of the customer library | a name is a program and a sequence of groups; no versions, byte orders, protocols |

`MC…` modules declare the model values for TLC; `…Proofs` modules hold theorems and
`CountingLemmas` what several of them need about sequences and counting.
`EventFifo` is shown to implement `BoundedFifo` (`RingIsFifo`, with the ring's
contents as the queue). `KernelNet` is a composition: kernels that run the same
services are joined by the messages they exchange, and in each of them the
descriptors, the pool, the information service and the routing service meet.
`Subscriptions` is driven by the differences that `KernelNet` produces: its
`Connect` and `Disconnect` are what they look like from one kernel.

**EventFifo.** Every operation holds the lock of the ring, so each is one action;
`CanPut` is the two early returns of `MPut`, `MPop`'s guard includes the
`CHECK_NE` (a model that could not pop would deadlock, and TLC looks for that).
`MEraseFromFifo` is the backward walk with `MDec` (`Back`), the first match, the
copy loop (`ShiftDown`) and the step back of `FWrite`. Two specifications:
`Spec` puts and pops (what UDT's non-blocking endpoints do), `SpecEraseInLap` adds
the erases for which the queued counters do not straddle the wrap of `FMaxValue`,
because beyond that the code goes wrong (section 4).

**OperationQueue.** `FMutex` of the queue makes its methods atomic except for the
waits; `FImpl->FMutex` is held through `MCancel` and `MRemoveThread` (`Free`). The
steps of `MRun` are separate actions wherever another thread can look at
`FDone`, `FIsWaitNextOperation` or `FInOperation` in between. Wake-ups may be
spurious. `stranded` is a history variable: the threads that sleep in `MWaitFor`
when an erase takes all they waited for. `cancel` walks through `CPoolThread::MCancel`: flag, force-unlock as long
as the thread may be waiting, join.

**DataObject.** `FFifoMutex` makes `MPush` and the two critical sections of
`MUserOperation` atomic; the handlers run between the two sections. Returning
`E_CB_SAFE_IT` and the pool's `MAdd` of the kept operation are two steps.

**SmChannel.** Per sending thread the loop reads the counter, looks at the overload
flag, puts the event, and writes the counter back. A refusal is `E_AGAIN` or
`E_ERROR`, whichever the clock and the keep-alive give, and the model takes both.
The kernel's handler thread and `MReceiver` are two processes with the wait
protocols of the code (signal only into an empty ring; a flag and a broadcast
for `FBuffers`). `refs` is the use count in shared memory; an offset is allocated
only when it is 0.

**KernelSend.** `FOperartionSendFor` (sic) is the ordered set of pending
descriptors, shared by all operations: an operation serves the smallest one. The
steps of `MSendUserDataImpl` follow its locks: pop under `FMutexOperation`, take the
data under `FBufMutex`, ask `CDescriptors`, send one by one, finish and try again. The
manager of a channel may be added before or after the descriptor's info is
opened (the TCP server does it one way, the others the other way).

**PacketDivisor.** `MSplit` is the operator that cuts a packet or a part: an even
number of parts, all but the last of one size, coefficient and counter cut to
`CounterMod`. Kernels on the way only split (`Forward`); the last one joins
(`Receive`, `PassOrRefuse`, `MMerge`, and `Supersede` for a part of another packet
while a merge is under way). `Lose` is the loss of a part on a link: refused by a full channel or a closed link, which
the kernel on the way reports (`SendError`; nothing reads the report, so the model makes
it when the part reaches the head of its link), or gone without a word with the socket or
the buffer of a closed channel. A refusal by the customer's own channel is of a whole
packet, after the merge, and is a matter of `KernelSend`. A
call of the divisor is a sequence of steps on `aWhat`, as in the loop of the code; a
merge is touched by one thread only, since `NO_MERGE_THREAD` is defined.

**KernelNet.** IO threads open and close descriptors (`MOpen`, `MClose`), which
appends an `IMMEDIATE` operation to the pool of the kernel; records received wait as
`AS_LOWER` ones. A thread takes an operation (`TakeEvent`, `TakeInfo`) and applies it
later (`MHandleOpen`, `MHandleClose`, `MHandle`, `MHandleDiff`), so with two threads
two events may be applied in the wrong order. Routing threads ask for the next
descriptor at any time (`MNextDestinations`) and fill the cache. What was sent over a
link that breaks arrives up to any point. A run chooses one of several `Worlds`: links,
those that may break, threads per pool, programs that are looked for, and kernels
that only connect.

**Subscriptions.** A call of `CRequiredDG` is an operator on a record of its fields,
with the receivers it reports and whether its `CHECK`s held; the code's loops are
folds in the order of its maps. Every handler is one action (the routing service holds
its write access). `told` is what the publishers of this kernel were told;
`overwritten` what was dropped by the assignment in the loop over several
customers; `missed` remembers that finding 4 has happened.

## 3. Runs

| Run | Expect | Shows |
|---|---|---|
| `event_ring` | pass | the ring is a bounded FIFO across all wraps (`RingIsFifo`), counts cover its data, protocol events keep their reserve, an erase withdraws exactly its event |
| `pool` | pass | threads added, removed and cancelled at every step, and a thread in `MWaitFor`: `AS_LOWER` after `IMMEDIATE`, join is safe, `FNumberOfInvoked` exact, whoever sleeps in `MWaitFor` has an operation queued or in hand unless an erase took it, cancelling ends, remaining threads take what is queued |
| `data_object` | pass | per descriptor the handlers are serial and see the packets in order; no packet is stranded; all are handled |
| `sm_channel` | pass | one sending thread: counters in sequence over the wrap, every data buffer meets its own info, no failed message is delivered, use counts exact, all messages settled |
| `sm_two_senders` | violation | two sending threads use one counter value twice; the kernel aborts |
| `kernel_send` | pass | one sender per channel, no message without a sender, exact accounting, order kept, everything for a channel that stays is sent or reported |
| `kernel_lost` | violation | a batch taken from the buffer of a channel that is then removed and closed vanishes without a report |
| `divisor` | pass | what is joined is the whole packet, except where a part of an unevenly split packet was lost; no packet is both delivered and reported as failed, except that an unevenly split one may be delivered although a kernel on the way reported a part it could not send; none is forgotten, and one that lost nothing is delivered unless a coefficient of its parts comes again after another one; packets whose parts 16 bits cannot count are exempt |
| `net` | pass | tables of a kernel agree (`FromMatchesNet`), numbers are versions everywhere (`VersionsAgree`), remembered routes are current, the routing service has the customers of the records, every kernel ends with the current records of all others where they hear of each other one way only, the exchange ends |
| `net_storm` | violation | round a loop of links the exchange about a vanished kernel never ends |
| `subscriptions` | pass | registrations kept by differences are those the demands ask for; nearest demands have the nearest senders or none; counters and callbacks agree on who gets a message; publishers are told; a kernel aborts for one reason only |
| `subscriptions_nearest` | violation | a nearest demand whose last sender left ignores a farther one that comes |

Bounds, and why they are enough:

* `event_ring`: 3 slots and counters of 0..7, so `FMaxValue` is 6: two laps, with
  a remainder as for 65535 in the code; one reserved slot; two data and two
  control events, so that an erase has something to confuse. The state space is
  finite without a bound on the length of runs: the counters wrap many times.
* `pool`: 2 threads, one of them added later and both removable, one waiter, one
  operation of each type, up to 2 queued (3 with a kept one): signals can be stolen
  and be spent on a thread that wakes by itself (half a million states).
* `data_object`: 2 descriptors, 2 workers, 4 packets each in pushes of 1 or 2, so
  that pushes fall before, into and after each critical section of each worker.
* `sm_channel`: ring of 2, receive limit 1, 2 offsets, 3 messages of up to 2
  parts with counters modulo 3: the counter wraps, ring and buffers fill, offsets
  are reused after a failure.
* `kernel_send`: 2 channels, 2 threads, 4 messages in calls of 1 or 2, limit 3.
* `divisor`: three links with limits 6, 4 and 3 and a header of 1, so that parts are
  split twice more. Sizes: 1 is delivered whole, 2 is refused (the limit of the customer
  is 1), 5 is split unevenly, 8 evenly and twice, 10 unevenly with a coefficient
  that comes again (4, 8, 8, 4, 8, 8), 24 into 16 parts. `CounterMod` 12 stands for the
  65536 of the code (nothing depends on its being a power of two): it is above the
  coefficients of 10 and so far below those of 24 that counter 1 comes up again in the
  middle of that packet. 2 packets and 2 lost parts, so that a merge is superseded
  (800000 states). Without any one of the exceptions they name, the three properties
  fail on this instance.
* `net`: four worlds: two kernels and a customer whose links may all break, with
  one and with two threads per pool; three kernels in a row with a customer, where
  knowledge is passed on; two kernels with two links, the smallest loop. `net_storm`:
  that loop and a third kernel that connects to one of them and goes.
* `subscriptions`: a near and a far publisher in nested groups, a local and a
  remote subscriber, a message with a child; demands of every kind (nearest,
  registrar, inverted group, group without a name); two customers that come and go
  together; 2 differences under way, so that demands arrive before the customer is
  known and after it has gone.

`CHECK_DEADLOCK FALSE` appears where the bounds on messages, a cancelled pool, an
aborted kernel or a network at rest let a run really stop. `event_ring` and `divisor`
are checked for deadlock, which there would be a `CHECK` that fails.

Fairness. Weak fairness of each thread's own steps: the operating system runs
threads that can run, and the condition variables of the code let a woken thread
have its mutex. In `net` it is weak fairness of the pool of each kernel as a whole: some
thread takes or applies an operation while there is one. That a callback, a handler or
an IO manager's `MSend` returns is an assumption about code outside the model, made in
`pool`, `data_object` and `kernel_send`. Nothing is assumed of pushes, additions,
spurious wake-ups, removals, links that are made or broken. `sm_channel` assumes no
fairness between `E_AGAIN` and `E_ERROR`: a sender gets through because the kernel
empties its ring.

## 4. Findings

The `violation` runs are disagreements between code and its documentation or
assertions; `PROJECT.json` quotes the lines.

1. `FCounter.FTo` is read and written back without a lock although the number of
   sending threads is configurable (`sm_two_senders`).
2. `MSendUserDataImpl` drops the batch it holds if the descriptor was closed
   (`kernel_lost`).
3. The presence of a kernel in a record has no version: when two kernels have two
   links, adding and removing a vanished third one chase each other for ever
   (`net_storm`).
4. The distance of a nearest demand stays when its last sender goes, and hides
   farther ones (`subscriptions_nearest`). Cancelling such a demand then takes a sender
   away that was never counted: another callback's count is too low, or
   `CHECK_GT` stops the kernel. `RegistrarsDoNotCount` and `AbortsOnlyByInheritance`
   are therefore stated for histories in which it has not happened.

Noted while modelling, without a run of their own:

* Ring and transport. `MDec(0)` (CSharedMemoryImplTypes.h:231) is `65535 % FMaxValue`,
  not `FMaxValue - 1`: an erase whose walk passes the wrap leads astray and leaves
  more events than slots (only blocking sends and a failed connect erase; `event_ring`
  leaves those erases out). An erased data event stays counted in `FCountRecvEvent`
  (`CountCoversData` is therefore an inequality). `MWaitForSend` uses the result of
  `MRemoveEvent` the wrong way round (blocking sends only).
* Pool. `CThreadPool::MRemove` compares ids that the copy in the queue does not
  have (the copy constructor of `operation_t` takes a new one), so it never
  removes anything. A thread that left the queue with an operation but has not yet set
  `FInOperation` counts as free for an IO operation. `MEraseAll` does not wake
  `MWaitFor`: a thread that sleeps there while nothing is in hand sleeps on until another
  operation is added and finished (`stranded`; nothing in the repository does both). And
  `MForceUnlock`, called when a thread is removed or cancelled, broadcasts to `MWaitFor` too, which
  does not look again: it may return with work outstanding, although CThreadPool.h:157
  says that it waits to the end.
* Output. `E_SOCKET_CLOSED` and `E_UNKNOWN_ERROR` are swapped in the failure code of
  `MSendingUserDataTo`.
* Divisor. The sequence of parts is checked per coefficient, and the first part of a
  new coefficient is not checked: a part lost where a packet was split unevenly a
  second time goes unnoticed (`EntireUnlessUneven` names the case). If the part was
  refused on the way, its sender has been told `E_BUFFER_IS_FULL` or `E_SOCKET_CLOSED`
  for the packet, of which the rest is still joined and delivered (`OneFate` names
  this one). The check also
  errs the other way when three links split one after the other: a packet of 10 bytes
  becomes 5+5, then 2+3+2+3, and when the next link takes 2 but not 3, the parts
  arrive with the coefficients 4, 8, 8, 4, 8, 8 and the counters 1, 3, 4, 3, 7, 8.
  Each coefficient is compared with its own last counter, 3 does not follow 1, and the
  packet is refused with `E_PACKET_LOST` though every part of it is there, each time
  it is sent. `Recurs` names these packets in `NothingIsForgotten`; over one or two
  links there are none, and the case was found when the proof for chains of any length
  asked for it. `FCounter` and
  `FCoefficient` are `uint16_t`, but `MCheckingSequence` compares `FCounter + 1`, an
  `int`, with the next counter (CPacketDivisor.cpp:214): a packet of more than 65535 parts
  is reported as lost where the counter wraps, although nothing was, and the parts
  behind the next counter 1 are then joined and may be delivered as if they were the
  packet. `EntireUnlessUneven` and `OneFate` name these packets (`cut`); that they had
  to was found when `OneFate` could not be proved without. The lost end of the
  last packet is never reported; a joined packet is not compared with the limit
  of the customer; a limit that the header alone reaches gives empty parts
  (excluded by `LinkAssumption`).
* Network. With several threads an open and the close after it may be applied in the
  wrong order, which leaves a kernel or a customer behind, or adds a customer twice and
  aborts; `ClientsMatchNet` and `EveryoneIsKnown` are stated for one thread. In a net with a loop
  of links a kernel may keep an old record for ever, with one thread and without any link
  that breaks: a kernel that opens a link to a kernel it has heard of already adds that
  kernel to its own record, and `MHandleOpen` sends the changed record over the new link only
  (`MAddKernel` says true for a new source of a known kernel as for a new kernel,
  CInfoService.cpp:291). Whoever hears of it through no other kernel keeps the old
  record: with the links a-b, b-c, a-c and c-d, where c knows b
  through a when it opens b-c, d never learns that c is connected to b. Random runs of
  the model found it on that net, and with two links a-b and a link b-c, where a record
  is handled before the link it came over is in `FAllDescriptors`; three or four kernels in a loop and nothing else, and nets
  without loops, showed nothing of the kind. `EveryoneIsKnown` is therefore
  stated for nets where kernels hear of each other one way only, or two kernels with any number
  of links (`OneWayOnly`). A record
  whose number alone changed is not stored. A record handled after its link was closed
  brings its kernel back.
* Subscriptions. A nearest demand for a message with children is met once per
  message when its sender leaves, and the second time `CHECK_GE` stops the kernel
  (`AbortsOnlyByInheritance` names the case). Of several customers that connect at once
  only the last one's receivers are told (`_update` is assigned in the loop).
  `MHandleNewDemands` never passes on removed receivers. Demands that arrive after
  their customer has gone stay.

## 5. Proofs

For every value of the constants that satisfies the named assumptions, TLAPS
proves:

* **EventFifoProofs** (`FifoAssumption`: more than one slot, the counter holds at
  least two laps), for `SpecEraseInLap`, which is what the run checks.
  `CountWithinArrayHolds`: the type alone is not inductive, the full test of `MPut`
  is an equality, so the distance of the counters must be carried along.
  `FMaxValueBounds` and `MIncIsSuccessor` turn `MInc`, with its two reductions, into a
  successor modulo `FMaxValue`. `CountCoversDataHolds` and `ControlIsNotStarvedHolds` rest
  on `Counted`: at most `FCountRecvEvent` positions of the queue hold data.
  `RingIsFifoHolds` is the refinement of `BoundedFifo`: the slots between the counters, read
  as a sequence (`Slice`), are appended to, lose their head, or lose the newest
  occurrence of an event. For the erase the backward walk and the copy loop are
  recursive functions; `Loop` and `Shifted` say what they have done after n rounds and are
  proved by induction. `EraseIsExactHolds` follows.
* **DataObjectProofs** (`DataObjectAssumption`). The inductive invariant is
  `IInv == TypeOK /\ OneOperation /\ StageOfOperation`: per descriptor at most one
  operation exists, queued or run by one thread, and its stage determines
  `FIsWorking`, whether the `user_operation_t` exists and whether it has data. From it
  `CallsAreSerialHolds`, `OperationFindsDataHolds` and `DataHasOperationHolds`
  follow. `BatchesAreInOrderHolds` adds `Order`: the batch of the calling thread and
  the data behind it continue `handled` without gaps.
* **OperationQueueProofs** (`OperationQueueAssumption`). `JoinIsSafeHolds` rests
  on `Handshake`: a thread that may wait has `FIsWaitNextOperation` set, a
  thread being cancelled has `FDone` set, so once the canceller saw the flag
  down the thread can only run into `FDone`. `IteratorAtFrontHolds` and the action
  property `LowerWaitsForImmediateHolds` rest on `ServedInOrder`: the `IMMEDIATE`
  operations are a prefix of the queue and the iterator is at the front or at `end()`.
  `InvokedIsExactHolds` counts the threads with an operation in hand (`Exact`), with
  the fact that a thread elsewhere has none. `SleepersHaveWorkHolds` needs it: who
  sleeps in `MWaitFor` unless an erase stranded it does so beside a queue that is not
  empty or a count that is not 0, and by `Exact` the count is that of the hands.
* **KernelSendProofs** (`KernelSendAssumption`). `IInv` joins `OneSender` and
  `BufferIsExact` with `Outside` (a descriptor without a manager has an empty buffer),
  `Placed` (a thread that sends does so for a channel there is or was) and `Opened` (a
  channel in use has its info). None of them is inductive alone: a channel may be taken
  down while a thread still sends for it. `DataHasSenderHolds` shows for each step that a
  channel with data is sent for, pending or about to be tried (`Served`), and that
  there are at least as many operations, queued or just begun, as pending descriptors. `SentInOrderHolds` adds `Order`: what was sent, what the
  thread holds and what waits follow each other, and all of it is numbered below the
  next call.
* **SmChannelProofs** (`SmChannelAssumption`, `NoneIsNoEvent`). `BuffersAreCountedHolds`,
  for any number of senders: the use count of an offset is the number of senders that
  hold it, of events in the ring, in the handler's hand and in `FBuffers` that name
  it (`Counted`). The other three assume `Alone`, one sending thread, as the run does and
  as the default configuration has it; with two they are false (finding 1). All three
  speak about `Path`, the parts under way from `FBuffers` back to the ring.
  `Chain`: their counters are consecutive from `FFrom` to `FTo`. `Announced`: the info before
  a data part at its offset, on the path or in `FRecv`, is its own. `Ordered`:
  delivered, under way, in the sender's hand and queued messages follow each other.
* **KernelNetProofs** (`LinkAssumption`, `CustomerAssumption`, `WorldAssumption`), for any
  number of threads per kernel, so also where events are applied in the wrong order
  (`ClientsMatchNet` and `EveryoneIsKnown` are stated for one thread).
  `FromMatchesNetHolds` and `VersionsAgreeHolds` share
  `IInv == Types /\ Known /\ Versions`; `Versions` speaks of every copy of a record, in
  tables, in letters under way and in the hands of threads, and says in addition that
  the record with number 0 is the empty one. `CacheIsCurrentHolds` rests on `CacheFits`: a
  remembered descriptor is the present choice unless an open or close is still to be
  applied, which then clears the memory. `ClientsMatchNetHolds` rests on `Behind`: with
  one thread the operations in hand and in the queue are applied in their order, and
  the differences among them, one after the other, make the customers of the records
  out of those the routing service has (`Leads`). That each handler tells the difference
  it makes (`OpenTells`, `CloseTells`, `HandleTells`) needs `Homes`: wherever a record is,
  its customers have their link to its kernel, so no two kernels have one in common
  and a record may be taken out without asking the others.
  `EveryoneIsKnownHolds`, for every net in which kernels hear of each other one way only,
  speaks of `Calm` runs: one thread, nothing broken, every kernel that has a link works;
  that a run was not calm shows in its end (`Off`). There the
  operation in hand is the first letter of its link, a link that is open is in
  `FAllDescriptors` or about to be (`Wired`), and records only grow with their numbers
  (`Mono`). What is left is stated over a snapshot of records, sources, open links and
  letters, `Good(KernelLinks, Snap)`, and kept by two steps of it, `OpenStep` and
  `HandleStep`, which `MHandleOpen` and `MHandle` are shown to be (`OpenIsCalm`,
  `InfoIsCalm`). As no two ways join the ends of a link, but for several links between two
  kernels, it divides the net in two sides (`SidesAre`, `SidesNest`). Of its own side a
  kernel knows more than its neighbour on the other (`Bounded`), of
  the other side it hears from this neighbour alone (`Rooted`), and the letters of a link
  never lose a kernel (`Ordered`), so no record is removed. The heart is `Passed`: what a kernel
  knows of its own side, its neighbour has or has in a letter under way - unless the kernel still
  waits for the first answer of another neighbour or has another link to open. These two are the
  sends left out on purpose, and `Answered` and `Joined` make both come to an end. With no
  letter left and all links open knowledge passes every link, so all over the net
  (`GoodSettles`).
* **PacketDivisorProofs** (`LinkAssumption`, `SizeAssumption`), for chains of any length,
  any limits and sizes. The links and the list of the receiver are rows of parts
  (`Lines`); `Flow` says that all parts under way are in order: packets follow each
  other, nothing of a packet follows its last part or precedes its first. That splitting
  keeps this is arithmetic on coefficient and counter (`SplitIs`, `Counted`): part k of c
  lies between (k - 1) / c and k / c of the way through the packet, and between two bytes
  (`Begin`, `End`), and `Before` compares both at once. `Fates` adds that
  what is under way is later than what was delivered, and that first parts belong to
  packets of which nothing is known yet. `FatesDiffer`, the part of `OneFate` about the
  kernel of the customer, follows; with `Awaits`,
  `ArrivedHasFateHolds`, the first half of `NothingIsForgotten`; and
  `AssertionsHold`: the `CHECK`s of the merge cannot fail.
  `OneFateHolds` adds `Holes` for the reports made on the way. A packet that lost a part
  and was not split unevenly has a byte that is nowhere any more: not under way, not
  merged, not delivered. Splitting covers no new byte, and parts joined in sequence leave
  no gap (`NoGap`), so a merge ends before that byte; `RefusedIsLossy` says that what
  was reported on the way was lost.
  `EntireUnlessUnevenHolds` and `NothingIsForgottenHolds` add `Entirety`. Before a part
  comes the part that ends where it begins, or the merge has come that far, unless
  something was lost or blamed (`Chained`); a packet that lost nothing still has its
  last part (`Lasts`) and is not blamed unless a coefficient recurs (`NotBlamed`); what is
  merged are the first bytes of the packet, as far as its last part reaches
  (`MergeFollows`). Two facts about `MCheckingSequence` carry the proof: parts of one
  coefficient that follow in counters follow in bytes, so that only a change of
  coefficient can hide a loss (`EvenFollows`); and parts that follow in
  bytes, of a packet whose coefficients do not recur, follow in counters
  (`SoundIsInSequence`).
* **CountingLemmas** has what they share: least elements and induction over the
  naturals, stated for a set instead of an operator; the number of elements of a
  sequence in a set and what `Append`, `Tail` and a removal make of it; rows of queues.

The strengthened invariants are conjunctions of the properties the runs check and
of named parts in the proof modules; each action has its own lemma.

Type invariants are not repeated in the runs: `TypeOK` of `EventFifo`, `DataObject`,
`KernelSend`, `SmChannel` and `PacketDivisor` is part of what is proved (in `KernelNet`,
`Types`), that of `OperationQueue` and `Subscriptions` documents the variables.

Only model-checked:

* all liveness (`AllHandled`, `AllSettled`, `CancelTerminates`, `OperationsAreTaken`,
  `ExchangeEnds`), because the prover has no rules for fairness;
* everything about `Subscriptions`, whose calls are folds over maps in their order: what
  a fold computes for every input would take an induction per fold.

## 6. Not modelled

* The connection over shared memory (connect, disconnect, retry after a time-out,
  clean-up of dead clients, the lock with a pid): it was studied, and rests on pids,
  named objects and clocks of the operating system. Two places deserve tests: the pid
  that `MCleanupLock` looks at may be that of an earlier holder, and a client that
  repeats its connect has two `E_CONNECT` events in the ring of the server.
* Blocking sends and their confirmations (unused by UDT), keep-alive (its outcome is a
  choice in `SmChannel`), the direction from kernel to customer.
* The allocator in shared memory: `SmChannel` uses its promise.
* The choice of IO threads in the pool, `MYield`; `KernelSend` takes the pool never to
  refuse an operation.
* The distribution of a packet to descriptors (`MRouting`) and its reports.
* Versions, byte orders and user protocols in `CRequiredDG`; latencies in
  `CRouteGraph`.
* Sockets, serial ports, TCP and UDP channels, HTTP and front end (pure I/O),
  auto search, diagnostics, the modelled clock, configuration, texts, logging, wrappers of
  the operating system.
* Vendored code. The repository carries Boost and other libraries, which make up most
  of its roughly 800000 lines; UDT and SHARE themselves are about an eighth of it. A
  share of lines of the whole tree therefore says little about what is covered, and
  stays far below that of a repository without its dependencies.

## 7. Plan

Done: all modules of section 2 with their runs, and the theorems of section 5. Left, in
this order:

1. Theorems: lemmas about the folds of `Subscriptions` and with them
   `AbortsOnlyByInheritance`; what is known after links have broken.
2. `Routing`: the distribution of packets, composed from `KernelNet`'s ways and
   `Subscriptions`' receivers, with the reports for receivers without a route.
3. `SmConnection`, if a model of the operating system's part is worth its size.
4. `KernelSend` with a pool that refuses, `SmChannel` in the opposite direction.
