# Verification of muduo-cpp-20

muduo is a one-loop-per-thread reactor library with the servers, clients, logging and
protocols built on it. This directory holds TLA+ modules translated from its sources,
the TLC configurations that check them on small instances, and TLAPS proofs of the
central safety properties for every value of the constants. `PROJECT.json` lists the
runs, the theorems, the hazards, and for every definition the source lines it stands for.

## 1. The system

| Part | State | Operations | What makes it hard | Modules |
|---|---|---|---|---|
| `EventLoop` | `quit_`, `pendingFunctors_` under a mutex, an eventfd | `loop`, `quit`, `runInLoop`, `queueInLoop` | threads push and then wake the loop in two steps; callbacks queue more | `EventLoop`, `SerialExecutor` |
| `EventLoopThread` | `loop_` under a mutex, the thread | `startLoop`, destructor, `threadFunc` | the loop lives on the thread's stack while its owner uses it | `EventLoopThread` |
| `TimerQueue` | three containers, a timerfd, the running batch | `addTimer`, `cancel`, `handleRead`, `reset` | callbacks add and cancel timers of their own batch | `TimerQueue` |
| `Channel`, pollers | `events_`, `index_`, `pollfds_` or the epoll set, `activeChannels_` | enable, disable, remove, poll, handle | callbacks change and destroy channels of the batch being handled | `Poller`, `ChannelRegistry` |
| `TcpConnection` | `state_`, buffers, channel, callbacks | `send`, `shutdown`, `forceClose`, `startRead`, `stopRead`, `connectEstablished`, `connectDestroyed`, handlers | plain `state_` tested and stored by any thread; events of the same poll | `TcpConnection` |
| `TcpServer`, `Acceptor`, `EventLoopThreadPool` | the map, the listening socket, the idle descriptor, round robin | `start`, `newConnection`, removal, destructor | removal travels between two loops; descriptors run out | `TcpServer`, `ConnectionLifecycle` |
| `TcpClient`, `Connector` | `connection_`, `connect_`, the delay, the connecting channel | `connect`, `disconnect`, `stop`, retry, destructor | deferred functors and retry timers against `stop()` and destruction | `TcpClient`, `Connector` |
| `Buffer` | two indices over a vector | append, retrieve, prepend, `makeSpace`, `shrink`, `readFd` | boundaries of the space computation | `Buffer` |
| HTTP, `Inspector` | parser state, connection context, command tables | parse, answer, add, remove | input in arbitrary pieces; commands removed while they run | `HttpContext`, `HttpServer` |
| protobuf codec, RPC | frames, `outstandings_`, the server's channel | `CallMethod`, `onMessage`, answers | pieces, order, errors, answers after the connection is gone | `ProtobufCodec`, `RpcChannel` |
| `ThreadPool` | sharded queues, semaphores, a bound | `start`, `run`, `submit`, `stop` | stealing, the bound, stopping with blocked producers | `ThreadPool`, `TaskPool` |
| `AsyncLogging`, `LogFile` | sharded buffers, the writing thread, the file | `append`, `start`, `stop`, roll | exchange of buffers, dropping, the last collection | `AsyncLogging`, `LogFile` |
| `Logging` | level, zone, thread-local caches, output functions | the streaming and the formatting interface | stale caches, the fixed-size buffer, the life of the `Logger` | `Logging` |
| `Date`, `TimeZone` | none, or a zone's data | conversions | leap days; local times skipped and repeated | `Calendar` |

The network parts meet in one cycle. `loop()` polls; the poller lists the ready channels;
their callbacks (a timer batch, a connection's handlers, an acceptor) run one after the
other on the loop's thread; then the queued functors run, and the loop polls again. Every
method that may be called from another thread either queues a functor or, as
`TcpConnection::shutdown()` does, first touches a member directly. Servers, HTTP and RPC
live in the callbacks of connections; logging is called from everywhere and has a thread
of its own.

## 2. Modules

The modules are checked straight from their configurations, which give the constants
model values or small numbers. A module named `MC...` only adds the values that a
configuration cannot write. Operators whose comment starts with "Mutant" are deliberate
mistakes of the definition that follows them, kept to show that the properties can fail;
the specifications do not use them. A variable marked "history" records what the code
does not keep.

### EventLoop, SerialExecutor, EventLoopThread

`EventLoop` models `loop()`, `quit()`, `runInLoop()`, `queueInLoop()`,
`doPendingFunctors()` and `wakeup()`. The loop thread has a program counter `pc` (test
`quit_`, poll, between two channels, in a callback, between two functors, in a functor);
another thread takes two steps per call, because the push or the store comes before the
write to the eventfd. `handleRead()` of the wake-up channel is a step among the other
channels' callbacks, so the eventfd can be emptied before or after a callback queues
something. User code on the loop thread may call any method from a callback, a functor,
or outside `loop()`. `SerialExecutor` is the promise to users: one queue of tasks, started
in order; the refinement maps the queue to `functors \o pendingFunctors`.

`EventLoopThread` extends `EventLoop` with the owner and with `threadFunc()`: the loop is
constructed on the thread's stack (`alive`), the init callback runs, `loop_` is published
(`loopPtr`), `loop()` runs, `loop_` is cleared and the loop destroyed. The owner starts,
queues functors, and runs the destructor in the steps the code makes: read `loop_`, store
`quit_`, write the eventfd, join. Its run is also the run of `EventLoop`.

### TimerQueue

`addTimer()` and `cancel()` by the loop thread (outside a batch or in a callback of
one) and by other threads, whose functors go through a FIFO queue; the timerfd, armed at
least one unit (100 microseconds) ahead; `handleRead()` that takes the due timers,
runs them one by one with user code in between, and `reset()` that restarts repeating
ones. Time passes between any two steps, also during callbacks.

### Poller, ChannelRegistry

`Poller` models a loop's channels with either poller (`poller` is chosen in `Init`).
`index_` has two meanings, as in the code: a state (`kNew`, `kAdded`, `kDeleted`) for
`EPollPoller`, and a position of `pollfds_` for `PollPoller`. User code, in a callback
or in a functor, enables and disables events, removes a channel, lets go of its owner
and creates a new owner for the same descriptor. `MayRemove` is the assertion of
`EventLoop::removeChannel()`; `Update` and `Remove` carry the pollers' assertions as
guards, because breaking them is a mistake of the caller. A channel stands for its
descriptor. Watching a channel with no events, which a disabled channel of
`EPollPoller` is after a second `disableAll()`, may still report a hang-up.

`ChannelRegistry` is the promise to the loop: a registry from channels to events, in
which an operation on one channel changes no other, only registered channels are
reported, and a channel is not forgotten while it is still to be handled. Both pollers
implement it with `interest` mapped to what the kernel is asked to watch.

### TcpConnection

One connection in its loop. An iteration is `Poll`, then user code of other channels,
then the connection's channel in the order of `Channel::handleEventWithGuard()`
(`HandleHup`, `HandleRead`, `HandleWrite`), then a batch of functors. The methods'
second halves (`SendInLoop`, `ShutdownInLoop`, ...) are operators used both by the
functors and by direct calls on the loop thread. A call by another thread is a test of
`state_`, a store (for `shutdown()` and `forceClose()`), and a push. A write takes any
number of bytes, would block, or fails once the peer is gone. The peer sends, closes or
resets; the owner destroys the connection at any time, or after its close callback, as
`TcpServer` does. `watched` says whether the channel is in the epoll set, which
`UpdateChannel` derives as `EPollPoller::updateChannel()` does. `calls` says which methods
this user calls on which thread; it is chosen in `Init` from `CallSets`.

### TcpServer, ConnectionLifecycle

`TcpServer` composes the server with `Acceptor` and `EventLoopThreadPool`. Loop 0 is the
base loop; each loop is a serial executor with a queue of functors, which is what module
`EventLoop` implements. `HandleRead` accepts; when there are no descriptors, closing the
idle one and accepting with its place are two steps (`OutOfDescriptors`, `DropClient`),
because another part of the program may take the place in between. `NewConnection` picks
the loop by `NextIndex`, lists the connection and runs or queues `connectEstablished()`. A
close runs on the connection's loop; the removal goes to the base loop, and the
destruction back. The destructor destroys what is on the base loop at once and queues the
rest; a functor that then uses the server sets `misuse`, where the model stops.

`ConnectionLifecycle` says what a user of the server sees of a connection: it is made,
comes up, goes down and is gone, in this order, whichever loops the steps run on.

### TcpClient, Connector

`Connector` gives the connector's methods as operators from the connector before to the
connector after: `Connect`'s three outcomes, `Retry` with the capped delay, `StopInLoop`,
`Restart`, and the channel that is removed at once and reset by a functor later.
`TcpClient` composes it with the loop's phases (poll, events, functors), the retry timers,
connections reduced to state and close callback, and user code on the loop's thread and on
one other. Where the loop's thread decides on a flag that the other thread may be storing
(`connect_`, `retry_`), deciding and acting are two steps. The destructor on the other
thread is as many steps as it has accesses.

### Buffer, HttpContext, HttpServer

`Buffer` is a record of memory and two indices with the class's methods as operators, down
to `makeSpace()`'s choice between moving and growing and `readFd()`'s second buffer.
`HttpContext` is the request parser on it: a character is a word or a separator, and a
read may end between any two. `HttpServer` is one connection of the server: the client,
with or without pipelining, the reads, the parser, the callback (the default one or
`Inspector::onRequest()`), the response's head with its length and `Connection` fields, and
threads that add and remove commands of the `Inspector` under its mutex.

### ProtobufCodec, RpcChannel

`ProtobufCodec` makes and takes frames on `Buffer`: length, tag, message, checksum, with
every error path. Serialisation and the checksum are external and stand for an injective
encoding and a weighted sum. `RpcChannel` has both ends of a connection: `CallMethod()` in
its steps (take an id, insert into `outstandings_` under the mutex, send), the two loops
that read pieces and handle a frame at a time, services that answer in any order, a
frame of another protocol, and the end of the connection. `holders` is who owns the
server's channel; `RpcServer` puts it in the context and in the message callback.

### ThreadPool, TaskPool

`ThreadPool` has a step for each atomic operation, lock region and semaphore operation of
`run()`, of the workers (own queue, stealing, sleeping) and of `stop()`. The counter
`queuedTasks_` may wrap below zero for a moment and does so in the model. `stop()` while
producers are inside `run()` destroys what they use: `misuse`. `TaskPool` is the promise:
tasks wait within the limit, run at most once, and are dropped only by a stop.

### AsyncLogging, LogFile

`AsyncLogging` has appenders that lock their shard, the backend that collects shard by
shard, waits with a time-out, drops when there is too much, writes, and collects once
more after a stop, and `start()`/`stop()` repeatedly. `LogFile` is a record with the
checks of size and day; opening and writing may fail. A line is its appender and number.

### Logging, Calendar

`Logging` builds a line as units of text in a buffer of limited size: head (with the
cached time text), message, suffix (cached by file and line), end. Between the parts
other threads log, set the level and the zone, and the clock moves. The formatting
interface is modelled as written: the `Logger` of which it takes the stream is a
temporary, which ends with the declaration. `Calendar` has `Date`'s Julian day arithmetic
with C++'s truncating division, broken-down time, and `TimeZone`'s conversions over
transitions, beside the civil calendar as the reference definition.

## 3. Runs

| Run | Instance | States | Shows |
|---|---|---|---|
| `loop_thread` | owner, 1 thread, 3 functors, 1 channel, self-quitting callbacks | 24,787 | published loops are alive and initialised; serial executor; queued functors run; `startLoop()` and the destructor of a running loop return |
| `timer_queue` | 2 timers, intervals 0 and 1, delay up to 2, clock to 6 | 257,901 | timers sound (containers agree, the timerfd covers the earliest, nothing early, cancelled and spent ones stay so); order in a batch; active timers fire |
| `poller` | 4 channels, 2 events, both pollers, symmetry | 674,368 | poller in step with channels and kernel, no dead channel handled; registry |
| `connection` | 2 messages of 2 bytes, mark 3, 1 thread, 7 sets of calls | 1,363,707 | output sound; callbacks paired; asserts; `shutdown()` completes |
| `client` | 3 connections, every call on both threads | 71,028 | destruction on the loop; asserts and delay; one attempt or connection, no descriptor lost; `stop()` is final; a connection in the end |
| `server` | 3 clients, up to 2 pool loops, 3 descriptors, 1 taken by others | 61,238 | one-loop destruction; clients served or turned away; closed ones destroyed; life cycle |
| `thread_pool` | 2 producers, 2 tasks, 0 or 2 workers, limit 0 or 1, 2 starts | 330,163 | queued tasks end; nobody blocks; task pool |
| `async_logging` | 2 appenders of 2 lines, 2 shards, 1 fault, 2 starts | 798,254 | nothing lost by `stop()`; order; daily files; lines get out and `stop()` returns |
| `rpc` | 2 callers, pieces, 1 foreign frame, errors | 269,976 | the right answer once; late answers; calls return |
| `http` | up to 2 of 5 requests, pieces, both handlers, 2 changes | 115,659 | requests as sent; answers delimited; removed commands; waiting clients |
| `logging` | 2 threads, 6 calls, 5 zones, 5 instants | 365,756 | whole and truly dated lines; local times; dates |
| `logging_format` | the same | | formatted lines lose their message (a disagreement, below) |

`OutputSound`, `TimersSound` and `PollerInStep` are conjunctions of invariants that are
named, commented and proved one by one.

Further properties are stated in the modules and can be checked by adding their names to
the configurations, where they hold: `NoStrandedFunctor`, `QuitInterruptsPoll`,
`RunInQueueOrder`, `QuitEndsLoop` (`EventLoopThread.cfg`), `ServerAssertsHold`,
`MapMatchesConnections`, `LoopsShareConnections` (`TcpServer.cfg`), `NoLostWakeup`,
`CounterFollowsQueues`, `QuietStopIsSafe` (`ThreadPool.cfg`), `StreamReassembles`,
`NothingAfterRefusal` (`MCRpcChannel.cfg`), `FatalLineIsFlushed` (`MCLogging.cfg`). All but
`QuitEndsLoop` and `FatalLineIsFlushed` are proved (section 4).

**Bounds, and why they suffice.** Three functors and two threads allow a batch with one
functor left, one queued by another thread and one by the running functor. Two timers
are enough for one to cancel or overtake the other, and interval 1 with a clock to 6 for
several restarts; `LastCall` stops new calls so that the last timers can fire before
`MaxTime`. Four channels allow a swap-removal in the middle of three others. A message
of two bytes can be written in part, and a mark of 3 is crossed from below, at equality
and from above. Three connections of a client are one that is lost, its successor, and
one after a restart; `MaxPending` bounds the queue of functors there and in
`TcpConnection`. Three clients with two loops make the round robin wrap; three descriptors
with the idle one and one taken by others make every way of running out happen. Two
workers and two producers suffice for a steal between a push and its wake-up; 0 workers is
the pool that runs tasks in the caller. A buffer of one line, dropping above 2 and a
check every 2 appends make full buffers, drops and rolls happen with two lines each. Reads
of 5 units (RPC), and of 1 and 6 (HTTP), cut frames and lines inside their parts, and
initial buffers of 4 and 8 make moving, growing and spilling happen. The instants of
`logging` lie around the two transitions of one zone; the years include both kinds of
century. Symmetry is used for the poller only, whose properties are all safety properties
and treat channels and events alike; it is checked for deadlock. The other systems may
stop: a destroyed thread, connection or server, calls used up, a clock at its bound.

**Fairness.** In `EventLoop` every step of a thread that can run is weakly fair,
callbacks return, and `poll()` is assumed to return only while the eventfd is readable:
neither the 10 second time-out nor a channel event is assumed. `EventLoopThread` assumes
the same of both threads. `TimerQueue` adds that time passes. `TcpConnection` assumes that
the loop runs, that threads finish their calls, and strong fairness of a `Poll` that
reports the socket writable, that is, a peer that goes on reading; it is needed for
`ShutdownCompletes` alone. `TcpClient` assumes that the loop runs and polls, and, for
`ConnectsInTheEnd`, that timers fire and that an attempt made again and again succeeds.
`TcpServer` assumes that loops run their functors (strongly, because a step of `accept`
may hold the base loop) and that the acceptor's event is handled. `ThreadPool` has weak
fairness of each thread's steps: a semaphore with a count is acquired by a waiter in the
end, and each producer, worker and `stop()` is scheduled. `AsyncLogging` has weak
fairness of the backend, of the join and of appenders that have to notify; lines are
not assumed to be appended. RPC and HTTP have weak fairness of the loops, of
`CallMethod()`'s remaining steps, of services and of a client's sending, written out as
formulas because `ENABLED` of steps that compute on buffers is costly. Nothing is assumed
of peers that end a connection, of faults, or of user calls.

### Disagreements

`logging_format` is expected to fail. `logFmt()` takes a reference to the stream of a
temporary `Logger`, which puts its line out at the end of that declaration; the message is
then appended to a stream that is gone. `tests/Logging_test.cc:57` expects the message in
the output. The throughput in the repository's README agrees with it: the formatting
interface writes more messages but half as many bytes per second as the streaming one.

The modules show more, each with a change of one line of a configuration:

| To see it | What happens |
|---|---|
| `PROPERTY DestructorReturns` in `EventLoopThread.cfg` | `loop()` stores `quit_ = false` (EventLoop.cc:81), so a destructor's `quit()` that came after `startLoop()` returned and before `loop()` began is lost, and `join()` waits for ever |
| `INVARIANT NoUseAfterDestruction` in `EventLoopThread.cfg` | `quit()` stores `quit_` and then calls `wakeup()` (EventLoop.cc:104) on a loop that may have returned and been destroyed in between |
| `PROPERTY NoRunAfterCancel` in `TimerQueue.cfg` | a timer cancelled by a callback of the batch it expired in still runs once (TimerQueue.cc:141) |
| `INVARIANT CloseAssertHolds` in `MCTcpConnection.cfg` | `forceClose()` on the loop thread, by a callback or timer of the same iteration, closes at once, and the connection's own close event then runs `handleClose()` again (TcpConnection.cc:215, :361); with only `stopRead` in `CallSets`: `stopRead()` after `handleClose()` puts the channel back into the epoll set with no events, and a hang-up closes again (:274) |
| `INVARIANT DestructorAssertHolds` in `MCTcpConnection.cfg` | `startRead()` after `connectDestroyed()` watches the removed channel again; with only a thread's `shutdown` in `CallSets`: `shutdown()` stores `kDisconnecting` over a `kDisconnected` that came after its test (TcpConnection.cc:193, :52) |
| `CloseAtOnce = TRUE` in `TcpClient.cfg` | a connection that is forced closed in the iteration that made it restarts the connector before its old channel is reset (Connector.cc:118) |

`PlainUse` in `TcpConnection` names the calls for which the asserts hold: `send()` from
anywhere and `shutdown()` on the loop's thread.

What else the models make plain, and properties are worded around: a removal queued from
a pool's loop while the server is being destroyed uses the destroyed server, and a client
destroyed on another thread can be in use on its loop (`misuse`); when another part of the
program takes the idle descriptor's place, the acceptor never gets it back; RPC calls
outstanding at a disconnection never complete, and the channel and its connection own
each other, which is what makes late answers safe; `HttpServer` answers one request for
each `onMessage()`, so that a pipelined request waits for more input; lines appended
while `stop()` is collecting for the last time stay in their shard until the next start;
up to `checkEveryN_` appends go to the previous day's file; a line that is too long loses
its suffix and newline; after `setTimeZone()` the cached text is kept to the end of the
second.

## 4. Proofs

The theorems about state machines are of the form `Spec => []Inv`, `Spec => [][A]_vars` or
`Spec => Abstract!Spec`; those about `Buffer` are about its operators. They assume only the
named assumptions of the modules: numbers are naturals, `None` is not a message, task or
channel, the owner of an `EventLoopThread` is a thread, finitely many channels and
connections, a largest number of workers, a retry delay that starts within its range,
fields and a message limit that fit (`CodecAssumption`: a length field is no longer than the
reserve in front of the buffer, and can hold `kMaxMessageLen` with a sign; `RpcAssumption`:
requests and answers are not longer than that). TLC evaluates each of them on the runs.

* `EventLoopProofs`. `NoStrandedFunctor` speaks of `poll()` only and is not inductive;
  `PendingIsAnnounced` strengthens it to every place from the end of a batch to the next
  poll, leaving out the handling of events, where `handleRead()` may have emptied the
  eventfd but `doPendingFunctors()` is still to come. `FlagsMatchPC` ties the flags that
  `queueInLoop()` tests to the program counter. The refinement follows from associativity
  of the two-part queue. Every step of `EventLoopThread` is a step of `EventLoop` or leaves
  the loop alone, so `ELTSpec => Spec` and these theorems carry over.
  `PublishedLoopIsReady` is not inductive: `ThreadInv` ties the loop's existence,
  `loop_` and the loop's program counter to where `threadFunc()` is, and that to where the
  owner is; that the batch is empty when `loop()` returns is `FlagsMatchPC`.
* `TimerQueueProofs`. `Covered` strengthens `TimerfdCoversEarliest` to inside a batch:
  an entry that is not later than the batch's time can only have been added by a
  callback, which armed the timerfd; `reset()` arms it for the rest. `QueuedTimersAreNew`
  says that a timer waiting to be added is in no container, so an add cannot duplicate.
  `BatchInOrder` follows from the order in which `getExpired()` takes the entries and
  from the expirations of a batch, which no callback changes.
* `TcpConnectionProofs`. The four output properties are inductive together with the
  types of the queues. `SendInLoop` and `ShutdownInLoop` are treated in lemmas of their own,
  used for direct calls and for functors. `CallbacksPaired` and `LifeCycleAssertsHold` speak
  of plain use; `PlainInv` says what a connection can be in before and after
  `connectEstablished()`, and that one that is down has no events, is not watched, and has
  nothing left of what the current `poll()` reported that would close it again.
* `PollerProofs`. `Dispatching` says that what is ahead in `activeChannels_` is registered,
  listed once and is not the current channel; with the assertion of `removeChannel()` it
  makes removal harmless. `Registered` ties `addedToLoop_` to `channels_` and to the
  owner, which is what `~Channel()`'s assertion gives. One lemma for each poller's update
  and removal shows that only the given channel's interest changes, which yields both
  `WatchesEvents` and the refinement.
* `TcpServerProofs`. The inductive invariant `ServerInv` says of every queued functor that
  it fits the connection it is for (`Fits`: an establishment is on the connection's own
  loop and finds it connecting, a removal is on the base loop and finds it down and
  listed, a destruction is on its own loop), that in each queue an establishment is
  before everything else of its connection and a removal is the only one (`Ordered`), and that
  the backlog holds each waiting client once. From it follow the asserts, the exact
  content of `connections_`, and the refinement of `ConnectionLifecycle`. `OneLoopInv` adds
  that without a pool no removal is ever queued, which is why the destructor leaves
  nothing behind; `DealtInv` counts the connections that each loop was dealt by the
  position of `next_`, for the even share.
* `TcpClientProofs`. `ClientInv` says that the connector does one thing at a time
  (`MachineInv`: a queued `startInLoop()`, a retry timer, a connecting channel, a result
  being handled and a connection exclude each other; a removed channel waits for exactly
  one `resetChannel()`), where the descriptors are (`SocketsInv`), that a connection just
  made has no event before the connector's channel is reset (`ConnsInv`), and what
  `stop()` and the destructors leave (`StopInv`). It says nothing once `misuse` is set, where
  the model stops. The theorems have the hypothesis `~CloseAtOnce`: user code
  does not force a connection closed in the iteration that made it. With `CloseAtOnce` the
  assertion of `connecting()` does fail (section 3), so the hypothesis is needed; the run
  `client` has it too.
* `ThreadPoolProofs`. `NoLostWakeup` is inductive with the types: a push that finds the
  queue empty makes its producer the one that will signal, a thief only shortens the
  queue, and a worker goes to sleep only after it saw its own queue empty or with its
  signal set. `StopIsAlone` (no call of `run()` is under way unless one was when `stop()`
  began) gives `QuietStopIsSafe`. `TaskInv` says where each task is: in the hands of one
  producer, in one queue at one position, or with one worker. `PlacesInv` accounts for the
  places of the bound: free, held by a producer between the semaphore and the queue, or
  taken by a waiting task. They give the refinement of `TaskPool` and, counting producers
  between push and increment, the exact value of `queuedTasks_`.
* `RpcChannelProofs` goes from the bytes to the calls. For every buffer whose indices are in
  order (`Sound`), whatever a byte is, making space, appending, reading, prepending,
  retrieving and shrinking change the content as they say; `makeSpace()`'s assertion
  holds. Integers of any number of bytes read back (`IntegersReadBack`). So a content that
  begins with a frame of the other end, whole or in part, is waited for or taken as exactly
  that message (`OwnFrame`), and one that begins with a foreign frame is never taken
  (`ForeignFrame`). The inductive invariant `RpcInv` says that the streams are whole
  (`Streams`), that only requests, their answers and foreign frames are on their way
  (`FramesInv`), that what was refused stays in front (`RefusedInv`), and that ids are
  given once and a call is in the map only while it has no result (`CallsInv`).

Induction over data takes an operator as a parameter in the prover's library, which no
installed prover instantiates. `RpcChannelProofs` does it with sets instead: a set of
naturals that is not empty has a least member (`LeastNat`), so one that has 0 and the
successor of each member has them all (`NatSet`), and a recursion over the naturals has a
solution (`Recursion`). That is how `Power`, `Unsigned` and `Stream` are reasoned about.

Model-checked only:

* liveness and what rests on fairness, which the prover does not handle: the properties of
  the form `A ~> B`, and with them the second half of `StopIsFinal`;
* `AsyncLogging` and `LogFile` (`StopWritesAll`, `LinesInOrder`, `RollsEachDay`), HTTP
  (`RequestsAsSent`, `AnswersDelimited`, `RemovedIsNotRunning`) and `Logging`
  (`StreamedLineIsWhole`, `StampIsTrue`), which have no proof yet;
* `Calendar` (`LocalTimeReadsBack`, `DatesAreCivil`), whose reference definition sums the
  months with a fold over a set and an operator, which has no facts to cite;
* `TcpConnection` outside plain use, where the asserts do not all hold (section 3).

## 5. What is not modelled

Memory orders are taken to be sequentially consistent where the code uses atomics with
acquire and release, and plain members that several threads use (`state_` of a
connection, the logger's output functions) are read and written atomically. There is one
clock, and it does not go back. A connection's input is only "there is unread data" in
`TcpConnection`; the bytes are in the RPC and HTTP modules, whose connections are reduced.
Functors that merely call user code (write complete, high water mark) are not queued in
`TcpConnection`; the report is a history variable. `PollPoller` is not combined with
`TcpConnection`. `ThreadPool::start()` is not called while others call `run()`.
`AsyncLogging`'s recycling of buffers and `LogFile`'s flush, which does nothing, are left
out. The commands of the `Inspector` are input and output. Bodies of HTTP requests are
not parsed by the code and not sent by the model's client.

Left out as parts: the blocking queues (monitors of a few lines that nothing in the
library uses), `ZlibStream` (its behaviour is zlib's), wrappers of system calls and
addresses, thread names and stack traces, number formatting, exceptions and other
utilities without state that a property could tell apart. `PROJECT.json` gives the reason
for each part.

## 6. Plan

1. Proofs for `LinesInOrder` and `StopWritesAll` of `AsyncLogging`, and for `RequestsAsSent` of
   the HTTP parser, with the lemmas on streams that the RPC proof has.
2. The blocking queues, with a closing consumer, and `ZlibStream`'s error flags.
3. `TcpServer` over `EventLoopThread` in place of executors that always run, so that the
   lost `quit()` is seen from the server's destructor.
