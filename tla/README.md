# A TLA+ verification of ednio

ednio is a C++ library for event-driven programs on Linux. A program is made of
tasks (`EdTask`), each a thread with an epoll loop; tasks exchange messages, and
within a task timers, sockets, pipes and other descriptors call back. This
directory models its core, checks the models with TLC on small instances, and
proves every safety property of the passing runs with TLAPS for every instance.

## 1. Inventory

| Component | State | Operations | Interacts with |
|---|---|---|---|
| Task messages (`EdTask.cpp`) | `mMsgFd` and its counter, `mQuedMsgs`, `mEmptyMsgs`, `exit_flag`, senders' stack frames | `run`, `runMain`, `postMsg`, `sendMsg`, `postExit`, `terminate`, `wait`, `dispatchMsgs`, `closeMsg` | every thread of the program; the event loop |
| Event loop (`EdTask.cpp`, `EdEvent.cpp`) | epoll descriptor, `mEvtList`, `mDummyEvtList`, `mReserveFreeList`, the batch being handled; `mFd`, `mEvt`, `mIsReg` of each object | `regEdEvent`, `deregEdEvent`, `esMain`, `cleanUpEventResource`, `registerEvent`, `deregisterEvent`, `reserveFree` | all event objects, by callback |
| Timers (`EdTimer.cpp`, `setTimer` in `EdTask.cpp`) | a timerfd, `mTimerSpec`, `mTimerMap` | `set`, `kill`, `pause`, `resume`, `reset`, `setTimer`, `killTimer`, `cleanupAllTimer` | event loop |
| Task message queues (`EdTaskMsgQue.cpp`) | `mHandle` of each queue, global `gViewMap` of listeners | open, close, post, send, lookup | messages of several tasks |
| `EdSocket` | status, `mIsListen`, the task's `lastSockErrorNo` | connect, listen, accept, recv, close, the three event handlers | event loop |
| `EdSmartSocket`, `EdSocketChannel` | `mPendingBuf` and its counters; chunks free, queued and current | send, receive, completion callbacks | `EdSocket` |
| `EdTimerPool` | deadlines by handle, one timer, the nearest deadline | `setTimer`, `killTimer`, `scheduleTimer` | `EdTimer` |
| `EdLocalEvent`, `EdEventFd` | queued and used event objects, eventfd | `postEvent`, `raise`, `OnEventFd` | event loop |
| `EdSmartSocket` (SSL), `EdSSLSocket` | OpenSSL's object, session up or not, the event it waits for, the pending buffer | handshake, receive, send, close | `EdSocket`, OpenSSL |
| `EdBuffredFileReader` | blocks read ahead, end of file, a scheduled load | `open`, `getData`, `loadData`, `close` | `EdEventFd`, `EdFile` |
| `EdObjList`, `EdRingQue`, `EdByteBuffer` | links, indices, bytes | list, queue and buffer operations | their owners |
| Memory readers, pipes, POSIX queues, signals, logging | a descriptor or a buffer | wrappers of system calls | event loop |

What is hard in it:

* **Concurrency.** Only `postMsg` and `sendMsg` are meant to be called from other
  threads. `sendMsg` blocks on a condition variable in its own stack frame, to
  which the queued message holds pointers; it writes the eventfd after releasing
  the queue's mutex, and the task may end at any of these points.
* **Callbacks.** Everything else runs in one thread, but any callback may close,
  delete, reopen or re-arm any object while the loop is in the middle of a batch
  of raw pointers the kernel gave it.
* **Failure.** Full queues, failing `eventfd`, `timerfd_create` and `epoll_ctl`;
  assertions that end a debug build and are absent from a release build.
* **Ordering and time.** A reported expiry can be overtaken by `pause`, `set` or
  `kill`; the end of a task has a fixed order of steps that must suit the objects
  still alive.

The properties that make the parts correct, in words: no message is lost or
handled twice and none is forgotten by the counter that wakes the task; a send
returns, only after its message was handled, and says truthfully whether it was;
`terminate` returns; a registration is used only while it exists and only for the
object that holds it; garbage is collected; an expiry is served; the end of a
connection is reported once, truthfully and eventually; what is sent arrives in order,
whole and once; a message reaches the listener it was meant for; no deadline of a pool
is forgotten; a container is the sequence it stands for. `PROJECT.json` lists the hazards line by line.

## 2. Plan

Done: 1 `EdTaskMsg` with `TaskMailbox` and its proofs, 2 `EdEventLoop`,
3 `EdTimers`, 4 `EdSocket`, 5 `ByteStream` with `EdSmartSocket` and
`EdSocketChannel`, 6 `EdTaskMsgQue` (several tasks), 7 `EdTimerPool`,
8 `EdLocalEvent` with `EdEventFd`, 9 `EdByteBuffer`, `EdRingQue`, `EdObjList`,
10 `EdBuffredFileReader`, 11 `EdSSL`.

Modules with no state in common share a run (`parts`, `smartsocket`): a behaviour
exercises one of them and leaves the others as they are initially.

The theorems came in the same order: the message protocol first, then the event loop,
the parts of one thread, the sockets and writers with the refinement of `ByteStream`,
and last the refinement of `TaskMailbox`. Every invariant, action property and
refinement that a passing run checks is now a theorem; liveness stays with TLC.

## 3. Modules

### EdTaskMsg (src/ednio/EdTask.cpp)

One step is what a thread does between two points where another can see or change
what it sees. `postEdMsg` runs under `mMsgMutex` and is one step (`PostEdMsg`).
`sendEdMsg` is three: queueing (`SendEdMsg`), the write after the unlock
(`SendWrite`), the end of the wait (`SendWake`, `SpuriousWakeup`). `closeMsg` keeps
`mMsgMutex` (`MsgMutexFree`) but waits for each sender's own mutex, so it has a step
per message. The task's thread is `tpc`, the callers are `pc`.

| Code | Model |
|---|---|
| `run`, `runMain` | `Run`, `RunSend`; `RunMain`, `MainPost`, `MainReturn` |
| `terminate`, `wait` | `Terminate`, `WaitTask`, `Join` |
| `postMsg`, `postObj`, `postExit` | `Post`, `SelfPost` |
| `sendMsg`, `sendObj` | `Send`, `SendWrite`, `SendWake` |
| `allocMsgObj`, full queue | `HasMsgObj`, `QueueFull` |
| `msgevent_cb`, `dispatchMsgs` | `MsgEvent`, `DispatchPop`, `HandlerReturn`, `NotifySender`, `Recycle`, `DispatchEnd` |
| `setSendMsgResult` | `SetSendMsgResult` |
| `closeMsg` | `CloseMsg`, `CloseMsgDrain`, `CloseMsgEnd` |

A message is its id and who waits for it; payloads are left out. A sender that
returns while its message is still around turns the message's pointers into
`DeadFrame`; using them sets `fault = "dangling"`. An assertion that fails sets
`fault` and nothing happens afterwards. `NDEBUG` selects the build (CMake's default
is Release, which has no assertions); `SpuriousWakeups` allows `cv.wait` to return
by itself. The sender's mutex needs no variable: it is locked from before the
message is queued until the sender waits, i.e. while `pc = "write"`.

The pool is counted: `mEmptyMsgs` is the number of pooled objects. A task may be
started again after it was joined. Calls that the documentation forbids (a task that
sends to itself, two threads running or terminating the same task) are not made.

### TaskMailbox

What the queue promises: an inbox that is open or closed, messages accepted in an
order and taken one at a time in that order, senders that come out only when their
message was served or dropped. `EdTaskMsg!IsMailbox` instantiates it with the queue,
the message in dispatch and the senders' states.

### EdEventLoop (esMain and EdEvent)

`evts` are the `edevt_t` objects by address: in `mEvtList` (`live`), in
`mDummyEvtList` (`dummy`) or freed; an address can be allocated again once freed, a
descriptor once closed. `interest` is the kernel's view. `batch` holds what is left
of the entries of `epoll_wait`; `CallBack` starts the callback for the next flag of
the first entry, then any number of `OpenSock`, `RegisterEvent`, `RegisterFails`,
`CloseSock`, `ReserveFree` and `SetExitFlag` happen, then `CallbackReturns`. Which
descriptors are ready, and with which flags, is arbitrary: the mask given to epoll
restricts it in reality, so the model has more behaviours than the code.
`lpc = "close"` is the EDM_CLOSE handler, `"free"` is `freeReservedObjs`.
An object is opened as `EdSocket` does it, first the descriptor and then the
registration; other classes do both at once. Opening an object that is open is a
misuse and not modelled.

### EdTimers (EdTimer and the task timers)

Extends `EdEventLoop`; every object is a timer. `armed` and `expired` are the
kernel's state of each timerfd; `Expire` may happen at any moment. Times are in units
of 8 microseconds, so that the wrap of the u32 product `msec * 1000` at 2^32 is that
of `msec * 125` at 2^29, exactly, within TLC's integers. `CreateFails` lets
`timerfd_create` and `epoll_ctl` fail.

### EdSocket

Every socket is a record: what the class keeps (`mStatus`, `mIsListen`,
`mIsBinded`), the events it is registered for (`mask`), and what the kernel has
(`kst`, the state of the descriptor, and `inq`, the unread data of a connection or the
backlog of a listener). Peers connect, refuse, send, close and reset at any moment.
The loop is that of `EdEventLoop` with the facts checked there: closing a socket
clears its entries of the batch (its `edevt_t` is inactive) and no other socket is
called in its place.

| Code | Model |
|---|---|
| `openSock`, `connect` (both), `bindSock`, `listenSock` | `OpenSock`, `Connect`, `ConnectUnix`, `BindSock`, `ListenSock` |
| `acceptSock`, `accept`, `openChildSock`, `rejectSock` | `AcceptSock`, `RejectSock` |
| `recv`, `close` | `Recv`, `CloseSock` |
| `OnEventRead` | `OnEventRead`, `OnReadReturns`, `OnEventReadReturns`: two handlers of the program run in it |
| `OnEventHangup`, `OnEventWrite` | the same names |

A handler may make any of these calls on any socket, with one rule when `CrossCalls`
is FALSE: it receives only from its own socket, inside `OnRead`, and `OnRead` and the
`OnDisconnected` after it close no other socket. `lastSockErrorNo` is the task's, and
`sockets_cross` shows what happens without the rule. `NoSock` stands for every other
object of the task; it is always ready, so sockets compete with it for batches.
`told` is a history variable: the sockets whose program was told of the end.
`Listeners` and `Clients` are disjoint: a socket that has listened is not used to
connect.

### ByteStream, EdSmartSocket, EdSocketChannel

`ByteStream` is what a writer promises: the kernel is given the accepted bytes, in
order, each once, and a new connection starts empty. Both writers refine it. Bytes
are named by connection and position, so that a repeated, skipped or old byte shows.
The `EdSocket` below is reduced to the state of its connection and its mask; its
promises (`EndIsSeen`, `StatusAgrees`) are what the reduction takes for granted.

In `EdSmartSocket` the listener is called last in every handler, so what it does is a
step of its own. In `EdSocketChannel` `OnTxComplete` is called in the middle of
`OnWrite`: `pc = "complete"`, with the loop variable `chk` already advanced.
Assumed of the program: it sends when connected, it closes smart socket and channel
when told that the connection ended (`ClosesAtEnd`), and in `OnTxComplete` it closes
the channel only after the last packet.

### EdSSL (the SSL mode of EdSmartSocket, and EdSSLSocket)

The two classes have the same shape, and `sslCls` says which one is meant where they
differ: `EdSSLSocket` asks for read or write events without hangups, keeps no pending
buffer, ignores write events and closes itself when told of the end. A call of OpenSSL is done,
fails, or wants to read or to write first (`Outcomes`); `ProcSSLConnect` is
`procSSLConnect`, called from a connect, a read event, a write event or `sslAccept`.
`sslMask` are the events asked for. The connection is `tcp`; its end ("fin", "reset")
is noticed by whichever of handshake, `recvPacket` and hangup comes first. What the
program was told is `sslTold`. A call may fail at any time, also on a connection that is
up. `sslCause` records the five ways in which the code stalls a connection or uses it
without a handshake (listed in section 4); the properties say that, with these outcomes of
OpenSSL's calls, there is no sixth.

### EdTaskMsgQue

Several tasks, each with queues of its own. Posting reads `mHandle` (`PostReads`) and
queues the message (`PostQueues`) in separate steps, `dispatchMsgs` looks the listener
up under the lock (`LookUp`) and calls it without (`CallListener`). An opening of a
queue has a number, which the message carries as history: `ListenerIsMeant` compares
it with the opening whose listener is called. A listener may send, and then its task
waits; `CanSend` says to whom, and is assumed to have no cycle.

### EdTimerPool

Time is a counter that passes at any point, also while listeners run. `mainTimer` is
the one timerfd: its next expiry and its interval, since `EdTimer` is periodic.
The clock is read and the relative timer programmed in one step (`EdTimerPool.cpp:41`,
`99`): `PoolDeadlinesKept` says "no later" to the tick of the model's clock, and not what
the thread loses between the two.
`scheduleTimer` is `ScheduleTimer` (deadlines moved on, listeners chosen), `FireTimer`
for each listener, and `ProgramNext`. `poolCause` records the ways in which the code
loses a deadline.

### EdLocalEvent, EdBuffredFileReader

`EdLocalEvent` has its Event objects by address: an object taken again for a new event
before the old one was delivered would show in `evtId`. In `EdBuffredFileReader`
blocks are named by their position in the file; the event loop's loads (`OnJob`) and
those of `getData` (`GetNow`) interleave, and a read may fail.

### EdByteBuffer, EdRingQue, EdObjList

Each is run beside the sequence it stands for (`items`, `ringRef`, `listRef`). Numbers
in an `EdByteBuffer` are sequences of bytes, laid out as a little-endian machine does.
Its growth is the code's, with small constants for the sizes 4, 16 KiB and 128;
`Doublings` are the factors by which the capacity can have been doubled below the limit.

### MC modules

`MCEdTaskMsg`, `MCEdEventLoop`, `MCEdSocket` give sets and symmetries to TLC,
`MCParts` and `MCSecureSocket` put the modules of a run side by side, the others only
name what is run. The symmetric sets are model values no action tells
apart; the runs of liveness properties use no symmetry. The type invariants of
the modules whose runs do not list one are there for the reader and for the proofs.

## 4. Runs

| Run | Shows |
|---|---|
| `taskmsg_debug` | with assertions: types, `CountConservation`, `NoLostWakeup`, `SendOutcome`, and refinement of `TaskMailbox` |
| `taskmsg_release` | the default build, without assertions: `PoolBound`, `DanglesOnlyInDrain` |
| `taskmsg_live` | with spurious wakeups: `SendReturns`, `TerminateReturns` |
| `eventloop` | `BatchSafe`, `RegistrationsAgree`, `NoEventLeak`, `CallbackLive` |
| `timers` | with failing system calls and no assertions: `RegisteredExpiryServed` |
| `sockets` | `StatusAgrees`, `DisconnectTruthful`, `DisconnectedOnce`, `ClosesWhatEnded`, `ConnectAnswered`, `EndIsSeen` |
| `smartsocket` | plain: `NothingDropped`, refinement of `ByteStream`, `PendingEnds`; TLS: `SslToldInOrder`, `SslPendingArmed`, `SslProgress`; the event loop below them, in the same run: `ExitEnds`, the exit message and what was reported with it |
| `parts` | channel: `ChunksConserved`, `ArmedWhileWaiting`, `CompletedInOrder`, refinement of `ByteStream`, `PacketEnds`; pool: `PoolDeadlinesKept`; local events: `EventsIntact`; file reader: `ReadsAhead`; buffers and list: `NumbersReadBack`, `RingIsFifo`, `ListIsSequence`; message queues: `ListenerIsMeant`, `QueSendReturns` |

Runs in which TLC finds what the code does against its documentation or tests
(`PROJECT.json`, findings):

| Run | Finds |
|---|---|
| `taskmsg_release_terminate` | `terminate` on a full queue waits for ever |
| `sockets_cross` | reading another socket to its end inside `OnRead` disconnects the socket whose handler it is |
| `sockets_unread` | a peer that sends and closes: the hangup closes the socket before the data was read |
| `smartsocket_takebuffer` | a partial write of a taken buffer goes on at the wrong byte |

Behaviours of the code that came up while modelling and have no run of their own:

* In a build with assertions a full queue (`EdTask.cpp:196`, `302`) and a send that
  meets the end of the task (`EdTask.cpp:291`) end the process (`fault = "queue_full"`,
  `"send_write"`), where `EdTask.h` promises a negative value.
* In a build without assertions a send that finds the eventfd closed (`EdTask.cpp:292`)
  returns and leaves pointers into its frame in the queued message; `closeMsg`, which is
  draining the queue, then uses them (`fault = "dangling"`). `dispatchMsgs` and
  `setSendMsgResult` do not, as `DanglesOnlyInDrain` says, but for spurious wakeups.
* `cv.wait` has no predicate (`EdTask.cpp:276`): a spurious wakeup ends a send before
  its message was handled.
* `EdTimer::set` wraps at 4294968 ms (`Usec`, `EdTimer.cpp:50`). After one failed
  `timerfd_create` (`EdTimer.cpp:34`) `mIsReg` is true without a registration, and the
  timer never fires again. A timer paused after its expiry was reported still fires,
  the result of `read` being ignored (`EdTimer.cpp:99`).
* A task timer still pending when the task ends fails the assertion at
  `EdTask.cpp:821` before `cleanupAllTimer` can stop it.
* `mIsListen` survives `close` and a failed `listenSock` (`EdSocket.cpp:210`).
  `acceptSock` stores the child's listener in the listening socket too
  (`EdSocket.cpp:52`). A socket that is bound and never listens is closed by the
  EPOLLHUP of its first event.
* An object given to `reserveFree` is freed when the task ends (`EdTask.cpp:769`); until
  then the list grows.
* A packet sent through `EdSmartSocket` before the connection is up loses its write
  event to `OnEventWrite` (`EdSocket.cpp:414`). `fireDisconnected` keeps
  `mPendingBuf`: without a `close` the rest is written to the next connection
  (`ClosesAtEnd = FALSE`).
* `closeChannel` inside `OnTxComplete` with packets queued lets `tx` use a NULL
  `mCurChk` (`EdSocketChannel.cpp:203`).
* `EdTimerPool` loses deadlines in three ways (`poolCause`). When the nearest deadline
  has passed while listeners ran (`EdTimerPool.cpp:101`), or a timer is set with a
  first time of 0, `setUsec(0)` disarms the timerfd; no later deadline is nearer than
  `_nearTp`, so that no timer fires any more until `open` is called again.
  When it expires with no timer set, `_nearTp` stays in the past, and a timer set
  later fires only with the old interval. Besides: the count given to listeners is
  `us/period + us%period`; a period of 0 divides by zero; a listener that kills a timer
  still to be called in the same round makes the pool use freed memory; a handle that
  comes round again replaces a timer.
* `EdLocalEvent`: an event posted while closed stays queued, and after the next `open`
  every event is delivered one raise late. The object of the event being handled is
  the first to be used again: a listener that posts overwrites its own event.
  An event whose raise failed waits for the next raise.
* `EdBuffredFileReader`: `mEof` is never reset, so that nothing is read ahead of a second file; a failed read counts
  as the end of the file; `close` frees the blocks but not their list nodes.
* `EdByteBuffer`: `consume` is limited by `mSize`, not by what remains; `reserve` may
  cut off data; the rounding `(t/128 + t%128)*128` reserves far more than needed;
  `getNum` in network order extends signs, so that a byte of 128 or more spoils the
  ones before it (`EdByteBuffer.h:104`).
* `EdRingQue`: the cursor of `peekNext` is stale after a `get`. `EdObjList`: `insert`
  behind the last node leaves `mptail`; after `clear` the seed is 0, that of a node in
  no list; `pop_back` does not compile if used.
* `EdTaskMsgQue`: a post after `close` goes to the task's own `OnEventProc` in a build
  without assertions; `open` of an open queue leaks its entry; `close` in the queue's
  own listener, or by another task, destroys a listener in use.
* SSL mode: a `recvPacket` that wants to read while a write is pending takes the write
  event away, and the write and all later ones stall (`EdSmartSocket.cpp:408`); so does
  a write that wants to read. A write that fails for good on a connection that is up keeps
  its buffer and the events as they are, and the program is not told
  (`EdSmartSocket.cpp:263`, `535`): the write is repeated at every write event, if those were
  asked for, and later packets get `SEND_FAIL`. A call that wanted write events may leave the socket
  without read events, since `OnWrite` of `EdSSLSocket` is empty and `mSSLWantEvent`
  outlives the call (`EdSmartSocket.cpp:543`). A socket opened again without `close`
  skips the handshake (`EdSmartSocket.cpp:393`). `EdSmartSocket` says nothing of a
  refused connection or of a hangup during the handshake.

**Bounds.** Two clients and the owner, a queue of one or two messages: enough for one
sender to be between its unlock and its write while another's message is drained, for a
full queue, and for a restart. The event loop has two objects and the task's
registration, three descriptors, four addresses and batches of two: an object can be
closed and reopened by the callback of another while its old entry is pending, with a
descriptor or an address that was another's. For `ExitEnds` the loop has two objects,
two descriptors (one is the task's) and batches of two: the exit message and another
entry can be in a batch together, in both orders. `timers` has two timers and batches of
one, so that one can be starved by the other. `sockets` has a listener, a TCP and a Unix
client and batches of two, so that a handler meets the reported, unhandled event of
another socket; `MaxIn` is 1 unread item, and 2 in `sockets_unread` so that a part can
be read. Packets of up to four bytes are cut in all ways, over three connections (two
for the channel, with three chunks: one written, one queued, one to be sent from
`OnTxComplete`). In `parts` the message queues are two, of two tasks, with three
openings and three messages, so that a handle can outlive its queue while another queue
is open; the pool has two handles (so that the seed wraps), first times 0 and 2, periods
1 and 3 and a clock to 4, so that deadlines pass before, while and after listeners run;
the ring has three bytes; the byte buffer passes its doubling limit at three; the list
has two lists and three nodes. A file of four blocks is read two ahead, twice. TLS has
two connections, so that the second starts with what the first left.

**Fairness.** Threads that can run do run (`WF` of the task's, the owner's and each
sender's steps) and handlers return: the library's contract (`EdTask.h`: code in a task
"should not be blocked"). Nobody is obliged to make a call, no descriptor to become
ready; of the event loop its own steps are fair (`LoopRuns`). `FairTimerSpec` and the
`FairSpec` of `EdSocket` add strong fairness of each descriptor's report: epoll moves a
reported descriptor to the end of its ready list. An attempt to connect ends, if only by
the kernel's timeout. The two writers assume a peer that reads, so that write events
come and take at least a byte, and a program that closes when the connection is over.
Tasks with message queues run on and their listeners return (`ViewFairness`).
`SslFairness` is about OpenSSL and the peer: a handshake that is repeated again and
again is at last done or fails, and so is a write, until one has failed for good;
hangups are reported. It obliges nobody to send, and does not assume that a call which
wants the other direction stops doing so before the event it asked for comes.

## 5. Proofs

Each theorem is of the form `Spec => []Inv`, `Spec => [][A]_vars` or
`Spec => Abstract!Spec`, for every value of the constants that satisfies the module's
assumptions (finite sets of objects, distinct special values, positive sizes). Hypotheses
beyond those are named below: each is a way of using the library, or a build, without
which the code does otherwise, as section 4 describes.

**`EdTaskMsg_proofs`**, for any finite set of clients, any queue size and any handler
results:

* `TypeCorrect`: `TypeOK` and `TaskOK`, which ties `tpc` to `pmsg`, `cnt`, `mMsgFd` and
  the owner's position. `TypeOK` alone is not inductive: `Recycle` decrements `cnt`,
  which is positive only because the thread got to `"recycle"` from `"pop"`.
* `PoolBounded`: from `TypeInv`, since an object is allocated only below the limit
  and at most one is in flight.
* `NoWakeupLost` (any build): with `LiveOK`. A sender is in the queue at most once, is
  notified only while in a send, and a message's sender is in that send or its frame is
  dead. Without the uniqueness, notifying one message could leave another behind.
* `CountConserved`: counts senders about to write with the cardinality lemmas of
  `FiniteSetTheorems`.
* `FramesDangleOnlyInDrain` (either build, no spurious wakeups): with `FramesOK`, the
  message in dispatch never has a dead frame, because a sender leaves either after it was
  notified, when its message is out of queue and dispatch, or on a failed write, when the
  eventfd is closed and nothing is dispatched any more. Queued messages have live frames
  (`FramesLive`) with assertions, and without them but for the drain of `closeMsg`.
* `SendOutcomeTrue` (no spurious wakeups): with `OutcomeOK`, which says what the result
  will be while the send is still on its way.
* `TaskIsMailbox` (assertions on, no spurious wakeups): every step is one of
  `TaskMailbox` or leaves its state alone. It needs all of the above: that a sender comes
  out with the truth is `OutcomeOK`, that what it comes out of is its own message is
  `LiveOK`, and that no step changes the sender of a queued message is `FramesOK`.

**`EdEventLoop_proofs`** (`RegistrationsAgreeThm`, `BatchSafeThm`, `NoEventLeakThm`,
`CallbackLiveThm`, `TypeCorrect`): `RegistrationsAgree` is inductive with `FdsOwned` (an
open descriptor has one owner; otherwise closing one object would take another's
registration) and `TaskRegistered` (the task's own registration is there while the loop
runs). That a batch is pending only inside the loop (`BatchOnlyInLoop`) makes it safe to
free registrations after it.

**`EdTaskMsgQue_proofs`** (`ListenerIsMeantThm`): a message, wherever it is (being
posted, queued, in dispatch), has a handle that is that opening's or nobody's
(`Addressed`). It is inductive because handles are not used again; with a handle that
comes round it would be false.

**`EdSocket_proofs`**: `StatusAgreesThm` holds whatever handlers do. Its invariant adds
to the agreement of status, mask and descriptor what the batch still says of each socket
(`Fits`): a reported hangup is one of a connection that ended or failed to start, so that
no later call in the same batch may make it untrue. With `CrossCalls = FALSE`,
`DisconnectTruthfulThm`, `DisconnectedOnceThm` and `ClosesWhatEndedThm` follow from
`OwnInv`: `lastSockErrorNo` is set only while `OnEventRead` works on a socket that ended,
and a socket whose program was told is closed or about to be. `sockets_cross` shows that
the hypothesis is needed.

**`SecureSocket_proofs`**: `NothingDroppedThm` and `WriterIsByteStream` for
`EdSmartSocket` under `WriterUse`: buffers are copied and not taken
(`smartsocket_takebuffer` shows why), and the program closes the socket when told of
the end. The invariant says where every accepted byte is: on the wire or in the unwritten
part of the pending buffer. `SslToldInOrderThm` and `SslPendingArmedThm` are about the
SSL mode of both classes; their invariant ties the session, the connection and what the
program was told. A pending write has write events but for the causes of section 4, a
write that failed among them.

**`EdSocketChannel_proofs`** (`ChunksConservedThm`, `ArmedWhileWaitingThm`,
`CompletedInOrderThm`, `ChannelIsByteStream`), for any number of chunks and sizes of
packets. The current chunk and the queue are one line (`Line`); `ChunkInv` says that free
list and line share out the chunks without repetition, `ByteInv` that the packets of the
line hold consecutive bytes that start where the wire ends. `tx` removes the chunk that
it has written from wherever it is, which is the head of the line only by `ChunkInv`.

**`EdTimerPool_proofs`** (`PoolDeadlinesKeptThm`): `_nearTp` is no later than any
deadline (`NearInv`) and `_mainTimer` no later than `_nearTp`, but for the causes
(`WatchInv`). The deadlines alone are not inductive: `setTimer` compares with `_nearTp`
and not with them.

**`Parts_proofs`**:

* `EventsIntactThm`: an event object is in one queue at most, once (`ObjectsApart`), and
  the counts of the eventfd cover the queue.
* `ReadsAheadThm`: the position in the file is what was read and what is loaded.
* `RingIsFifoThm`: the bytes of the queue are those in the ring from `mReadPos` on,
  wrapped; the cursor of `peekNext` is so many bytes further. Reads of any size and from
  any position are then one lemma on the two pieces.
* `ListIsSequenceThm`: links, head, tail and seeds are those of the sequence, nodes are in
  one list at most, and every node's header says in which (`HeadersTruthful`), which is
  what `remove` relies on. Each operation is a change of the sequence of one list
  (`ListOperation`).
* `NumbersReadBackThm`: the numbers not yet read tile the buffer from the read position to
  the end of the data, and each piece holds the encoding of its number. The growth must
  leave at least the room that is copied (`GrownFacts`), for `DoubleLimit` up to 16384, the
  limit of the code.

The lemmas on sequences (`TailFacts`, `ConcatFacts`, `SubSeqFacts`, ...) are stated once
per module, by index, since the provers reason about indices and not about sequences.
Facts that need induction (the least element of a set of numbers, the length of
flattened sequences) are proved by a least counterexample.

**Only model-checked**: liveness, since TLAPS has no fairness and no `ENABLED`:
`SendReturns`, `TerminateReturns`, `RegisteredExpiryServed`, `ExitEnds` (with them all that
is said of `EdTimers`), `ConnectAnswered`, `EndIsSeen`, `PendingEnds`, `SslProgress`,
`PacketEnds`, `QueSendReturns`.

## 6. Not modelled

The libevent mode (not in the default build), `EdSSLContext` (it configures OpenSSL),
ALPN (disabled in the source), datagrams and the listener functions of sockets, logging
and time, pipes, POSIX queues and signals (wrappers of system calls whose registration is that of
`EdEventLoop`), `threadMain` (not called), `EsList`, `EsList2` and
`EsHandleManager` (not used), `EdMemReader` and `EdMemStreamWriter` (copies), moving an
`EdByteBuffer`. Memory
allocation does not fail. Reuse of `mMsgFd`'s number by another thread between
`closeMsg` and a sender's write is not modelled: the write is taken to fail.
