# A verification project for libcold

libcold is a C++20 coroutine network library: an event loop that runs stackless
coroutines, the primitives they synchronise with, timers, sockets on
edge-triggered epoll, and TCP, HTTP, WebSocket and RPC servers above them. This
directory holds TLA+ models of its core, the TLC runs that check them on small
instances, and theorems that TLAPS checks for every instance. Paths are relative
to `src/`.

## 1. The system

| Part | State it keeps | Operations | Who uses it |
| --- | --- | --- | --- |
| `coro/IoService` | `running_`, pending tasks, frames awaiting completion, completed handles, timer queue, watcher | `Start` (the loop), `CoSpawn`, `Stop`, `AddTimer`, `CancelTimer`, `UpdateTimer`, `Listen…`, `StopListening…` | every coroutine and any thread |
| `coro/Task` | a frame, its continuation, its result | `co_await`, final suspension | everything |
| `coro/IoWatcher` | `ioEvents_` (descriptor to mask and two handles), epoll set, eventfd | `Listen…`, `StopListening…`, `WatchIo`, `WakeUp` | `IoService`, on the loop's thread except `WakeUp` |
| `coro/AsyncMutex` | one atomic word (free, locked, or a LIFO list), `waitersHead_` (FIFO list) | `Lock`, `TryLock`, `Unlock` | coroutines of any thread |
| `coro/ConditionVariable` | lock-free stack of awaiters | `Wait`, `NotifyOne`, `NotifyAll` | coroutines of any thread |
| `time/TimerQueue`, `time/Timer` | binary heap, map from identifier to position | `AddTimer`, `CancelTimer`, `UpdateTimer`, `HandleTimeout` | `IoService`, under a mutex |
| `coro/Io.h`, `net/IoAwaitable.h` | per operation: timeout flag, result | `Read`, `Write`, `Connect`, `Accept`, `SendTo`, `RecvFrom`, `…WithTimeout`, `AsyncIO` | sockets |
| `net/BasicSocket`, `TcpSocket`, `UdpSocket` | descriptor, `connected_`, addresses | open, connect, read, write, close, move, destroy | user coroutines |
| `net/Acceptor`, `TcpServer`, `TcpClient` | listening descriptor, spare descriptor | `Listen`, `Accept`, `DoAccept`, `Connect` | servers |
| `coro/IoServicePool`, `thread/Thread` | services, threads, round-robin index | `Start`, `GetNextIoService`, `Join` | servers |
| `net/rpc` | outstanding calls, read and write buffers, call counter | `CallMethod`, `DoRpc`, `StubCall` | RPC users |
| `net/http` WebSocket | parser buffers, two write buffers, `isWriting_`, registry | `DoRead`, `Send`, `Close`, ping, `DoWrite` | HTTP server |
| `net/http` server | request parser, router, sessions | `DoHttp`, dispatch, `SendBody` | users |
| `log`, `util`, `net/ssl`, addresses | registries under mutexes, or nothing | formatting, conversion | everything |

How they interact. A coroutine runs until it suspends; whoever resumes it runs it
inline, on top of its own stack. The loop resumes pending tasks, then the tasks
of due timers, then the coroutines whose descriptors are ready, then destroys the
frames of finished ones. A mutex's `Unlock` and a condition variable's `Notify…`
resume a waiter inline on the unlocking thread, which may belong to another
service. `IoTimeoutAwaitable` combines all of it: an inner coroutine is spawned
through the loop, a timer task resumes it if the descriptor does not.

What is hard. Threads that interleave between two steps of `AddTask`, `Stop`,
`Lock`, `Unlock`, `Wait` and `Notify…`; wake-ups that are consumed before the work
they announce is visible; frames that are destroyed while something still refers
to them; edges that epoll reports once; timeouts that race with data; sequences of
arming, moving and cancelling that reach a bad heap. The file `PROJECT.json` lists
each such hazard at its line, with the properties that cover it.

## 2. Plan

Order of work, most important first; everything down to 11 is done.

1. `IoService`: the loop and everything threads may do to it (proved).
2. `AsyncMutex` with its abstract specification `FifoMutex` (proved).
3. `TimerQueue` with its abstract specification `TimerSet`, and `Timer` on top of it (proved).
4. `IoTimeout`: composition of loop, timer, watcher and the reads of TCP, TLS and UDP
   sockets and of `AsyncIO` (proved).
5. `IoWatcher` with `TcpSocket`, `UdpSocket` and `AsyncIO` (proved).
6. `ConditionVariable` on `FifoMutex` (proved).
7. `WebSocket`: frame parser against a reference definition, reader, writer hand-over,
   ping, close, registry (proved).
8. `RpcChannel` (for one call at a time): connecting, framing, outstanding calls, the
   write buffer, timeouts of stub calls, the life of the channel (proved).
9. `IoServicePool` (with `Thread` and `Condition`), and `TcpServer` composed with it: the
   accept loop, running out of descriptors, TLS handshakes (proved).
10. `Router`, and `HttpServer` composed with it: the connection loop, the parser's
    callbacks and limits, dispatch, bodies, error pages, sessions (proved).
11. `Logging` (proved) and `LogFormatter`.
12. Left: overlapping calls of one RPC client, moves of sockets, the stand-alone WebSocket server.

"Proved" means every safety property a run checks of that part: each invariant and both
refinements are theorems, the liveness properties are not. A theorem to add: that a coroutine of
the mutex is on one stack only.

## 3. The modules

Every module has one action per operation or per atomic step of it, a next-state
relation that is the disjunction of these actions, and `Spec`; `FairSpec` adds
fairness. Modules whose proofs share a module say `TimerSpec`, `TimeoutSpec` and `ServerSpec`
(and `TimerNext` and so on) instead, so that the names stay apart. `MC…` modules extend a specification for TLC. Operators marked "mutant"
stand next to the definition they vary: each is a plausible mistake in that piece
of code and breaks the property that `PROJECT.json` pairs it with.

**`IoService`**: one service, its loop thread `Loop` and other `Threads`. The program
counter `pc` follows the body of `Start`: swap the pending tasks, run them,
`HandleTimeout`, run the batch, `epoll_wait`, drain the eventfd, resume active
coroutines, swap and erase completions, test `running_`. `AddTask` is two steps under
its mutex (append; write the eventfd), `Stop` two steps without one. A task of the
model is the wrapper coroutine of `WrapTask` with the user coroutine it awaits;
between two suspensions it may spawn, arm and cancel timers, stop the loop, or resume
a parked coroutine. Finishing is two steps, publication of the handle and final
suspension, because nothing makes them atomic. `Foreign` is the set of threads that
resume parked coroutines of this service, as a mutex shared by two services does.
Time is the event that a timer expires.

**`FifoMutex`, `AsyncMutex`**: `FifoMutex` is an owner and a queue. `AsyncMutex` has a step
per atomic access of lines 21–39 and 95–130: load, compare-and-swap that acquires or
enqueues, retry; load, release, exchange with reversal, pop and resume. The list in
the atomic word is the sequence `lifo` (head first), `waitersHead_` is `fifo`; a waiter
resumed by `Unlock` runs on top of the unlocker's stack. A coroutine may suspend while
it owns the mutex. The abstract queue is `fifo \o Reverse(lifo)`.

**`TimerSet`, `TimerQueue`, `Timer`**: `TimerSet` is a function from identifiers to expiry, task and
validity; `Timeout` returns the valid due tasks by expiry and then identifier.
`TimerQueue` is the heap with 0-based positions and the index map, with `Fixup`,
`FixDown`, the lazy cancellation and the sleep computed from truncated milliseconds. The three
loops of the code are instances of `Loop`: a round (`Rise`, `Sink`, `TakeDue`) is repeated as
often as the loop can go on at all, and one in which the code would break out changes nothing.
One clock tick is half a millisecond in the runs, so that truncation shows. `Timer` is what
a program calls: construction (a new identifier), `ExpiresAt`, `AsyncWait`, `Sleep`,
`Cancel`, move assignment and destruction, with the `expiry_` of every object.

**`IoTimeout`**: a client coroutine performs reads with a timeout one after another, on a
TCP socket, one with TLS, a UDP socket or a pipe behind `AsyncIO` (`kind`). A step is a
whole chain of resumptions on the loop's thread. Each operation has an inner coroutine, a
timer and a wrapper, a TLS read also the helper coroutine that calls `SSL_read` for it; the
phases of the loop, the read handle of the descriptor and the edge-triggered ready list are
explicit. `early` records that a timer task found its inner coroutine not yet started,
`kept` that a `RecvFrom` waits with a datagram in hand.

**`IoWatcher`**: one descriptor number, used again after every close, with the watcher's
entry, epoll's entry (registration, interest, ready list), the connection and both
buffers. `kind` says what the descriptor is: a socket from `Accept` or a UDP socket
(registered by its constructor), a socket from `socket()` or a file behind `AsyncIO`
(registered by the first operation that waits). A failing `epoll_ctl` or
assertion is recorded in `failed`. `FullDuplex` lets a reader and a writer wait on one
of the latter at the same time; see section 4 for why it is off.

**`ConditionVariable`**: consumers wait for messages, producers add and notify. `head_` and
the `next_` of every awaiter are explicit, so that the pop of `NotifyOne` can meet the
same head with another successor. The mutex is the abstract one. Producers either
notify while they hold the mutex, or a single producer calls `NotifyOne` after it
unlocked; `held` says which. It is assumed that the slot of the awaiter in its
coroutine's frame is not reused while `Wait` is running, which is how GCC lays out
frames; `NotifyAll` reads it there after the awaiter's lifetime ended.

**`WebSocket`**: one connection from the upgrade to its end. All of it but the calls of
`Send` and `Close` runs on one loop, so a step is the code between two suspensions. A
frame of the peer is two units, header and rest, and a read returns any number of units,
so frames are split and joined. `sent` is what the peer has sent so far; a frame is chosen when
a read reaches its header. `parser` has the frames of the unfinished message by their
positions in it. `Parse` repeats `DoParse` over the frames that begin in the buffer, and
`MessagesReassembled` says independently of it what the stream means. `temp` and `rest` are the
two buffers of the writer, `queued` and `wire` the histories of what went in and out.
Assertions are on, as in a debug build: a failed one stops the model. Time is left out:
at each round of `DoRead` the last ping may be too old. A user closes a WebSocket only
until `OnClose` told it of the end.

**`RpcChannel`**: a client and the server's end of its connection, each with its reader,
its buffers and its spawned coroutines. The client makes one call after the other; when one
fails it quits or goes on. The service gets the call and runs the closure at any later
step. A message is two units that carry the number of its call, and what goes out is what
the shared buffer holds at that moment. `givenUp` records that a call, or a read with an
answer outstanding, timed out or that the connection broke; `dangling` that something
destroyed was used. A timer that fires before its coroutine started is the subject of
`IoTimeout` and left out here.
A connection begins with `Connect`, which may fail.

**`IoServicePool`, `TcpServer`**: the main thread starts one thread after the other with the
handshake of `Thread::Start` (mutex, `started_`, condition), runs its own service, and joins in
the destructor. `Create` may fail to make the thread, which `Start` does not notice;
`SpuriousWakeUp` ends a wait nobody signalled, and `AfterWait` is the loop that tests
`started_` again. `stoppedEarly` records a service stopped before its loop
began, which then sets `running_` again. `TcpServer` extends it with `DoAccept`, which
runs on the main service: the first `accept4`, the wait for an edge, the second `accept4`,
the TLS handshake (try, wait, retry, timeout), and on `EMFILE` the four steps with the
spare descriptor, between which other threads open and close descriptors.

**`Router`**: pure definitions. A url is a sequence of names and marks; `DecodeUrl` and
`SplitToViews` make a path of it, `TryMatch` and `MatchChain` walk the two trees, given
by the calls that built them. `Covering` says independently which filters cover a path. The
walks are functions on the number of steps, so that they can be proved about.

**`HttpServer`**: one connection. A request is a sequence of tokens, the smallest units a
read can deliver; `Following` is the token after a given one, and `Feed` hands it to the
callbacks of `HttpRequestParser`, once for every token of a read. llhttp, which calls them, is
external. Sizes are numbers of tokens, so every limit is
met at it, below it and above it, and across two reads. The dispatch is one step, since the
handlers do not suspend; it ends in a servlet, a filter's refusal or an error; the root is
forwarded to `/index.html`. A file that does not open leaves its body without a length, and
`SetRelatedHeaders` returns at once; the path of an open file is searched for a suffix, and
without one the response stops in an exception.
`MakeHeaders`, the write of the head, of a text and of a file, and the decision to keep the
connection are steps, because they suspend. A client stops reading, or goes away; a file
shrinks after it was opened; another connection invalidates a session.

**`Logging`, `LogFormatter`**: a call of `Log` is a frame on its thread's stack, stepping
through the three reads of the level in `SinkIt`, the sinks one after the other under their
mutexes, the flush and the abort. A sink without a file logs an error, which pushes a frame
on the same stack with the sink's mutex held. `INFO(…)` and its like use the main logger by a
raw pointer (`owned` is false, `since` counts the main loggers replaced by then); calls on a
`LoggerPtr` keep their logger (`owned`). A logger exists while it is `Held`: the main one, in the
manager's map, or one the program has a `LoggerPtr` to; or while an owned call uses it. The map is
by name, so `AddLogger` drops a namesake. `Setups` says what the program did before its threads
log: which logger is the main one, which are in the map, which it holds; a main logger that was
never in the map is among them. `silenced` has the calls during which their logger was
switched off. `LogFormatter` compiles a pattern; the run's `ASSUME` compares
it with what the pattern stands for, over all patterns of up to five characters of five kinds.

## 4. The runs

| Run | Bounds | What it shows |
| --- | --- | --- |
| `loop` | 2 tasks, 2 threads, 1 suspension per task | `NoLostWakeUp`, `NoLostStop`: a queued task or a stop always has a wake-up on the way. `FramesSafe`: frames and handles are used as the assertions say. `LoopProgress`: tasks run, timers fire, frames are reclaimed, a stop ends the loop |
| `mutex` | 3 coroutines, 2 threads | `MutualExclusion`, `WaitersListed`, `ImplementsFifo`, `WaiterServed` |
| `timer_queue` | 4 timers, 6 instants, 2 expiries | `ImplementsTimerSet`, and `TimersPunctual`: never late by a millisecond, every armed timer fires, none fires once its `Timer` is gone |
| `read_timeout` | 4 operations, 2 units of data, 4 kinds of descriptor | `OnlyEarlyTimeoutsHurt`, `NoDataLost`, `EveryOpCompletes` |
| `watcher` | buffers of 2 units, 4 kinds of descriptor | `WatcherAgreesWithKernel`, `NoLostEdge`, `DownWakesWaiters` |
| `condition_variable` | 2 consumers, 2 producers, 2 threads, 2 messages each | `NoDanglingRead`, `WaitersReachable`, `NoLostNotification`, `MessagesTaken` |
| `websocket` | 2 frames of 5 kinds from the peer, 2 frames to it | `WireInOrder`, `MessagesReassembled`, `ForgottenUnlessDropped`, `WriterAndEnd` |
| `rpc` | 2 calls | `PatienceIsSafe`, `AnswersMatch`, `EveryCallReturns` |
| `http` | 20 requests alone, 60 pairs, 6 session and longer streams; reads of up to 4 tokens; limits of 2; files of 0 or 2 units | `AnswersMatchRequests`, `PromptUnlessJoined`, `NoFilterBypassed`, `AbortsExplained`, `ResponseEnds` |
| `server` | 2 pool threads, 3 descriptors, 3 connections | `ObjectsOutliveThreads`, `NoStrandedConnection`, `IdleDescriptorKept`, `PoolStartsAndEnds` |
| `logging` | 2 threads, 2 calls, 2 changes, 2 instants, 3 sinks, 3 loggers of which 2 share a name, 3 setups | `LinesInOrder`, `FatalLineKept`, `UsedLoggerAlive`, `NobodyStuck` |
| `foreign_completion` | 2 tasks, 1 foreign thread | violates `CompletionDone` |

Why the bounds are enough. Two threads are what an interleaving needs; three
coroutines are an owner, a waiter in each of the two lists; four timers are the
smallest heap in which a node moves two levels; three operations are one that times
out, its leftovers and the one that meets them; a buffer of two units can be empty,
partly and completely full; two frames are a fragmented message, two messages in one read,
or a frame queued behind one being written; two calls are one given up and the one its
late answer meets; a limit of two is passed by the third token, which a read may cut off;
a read of four tokens ends one request and begins the next; three descriptors are the spare
one, one in use and one to fight about; three connections are one accepted, one that came
with the same edge and one that came during a handshake; three loggers are the
configured one and a namesake pair; in the three setups the main logger is the configured one, a
registered one that its namesake may replace, and one that was never registered. The theorems below have no bounds.

### What the runs found

The violation:

- `foreign_completion`: `TaskCompletionAwaitable` pushes the handle (IoService.h:54) and
  then resumes the wrapper to its final suspension. If another service's thread does
  this, the loop can take the handle in between and destroy a running frame;
  `assert(completion.done())` at IoService.cpp:60 says it does not.

The conditions in the properties are results too: each is the weakest TLC accepts.

- `ImplementsTimerSet` is about collecting. `HandleTimeout` hands out every due task at once,
  so a task that cancels another timer of its batch is too late (IoService.cpp:41);
  TimerTest.cpp:124 has such a cancelled task abort the program. A cancelled timer stays in
  the heap until its expiry; until then `AsyncWait` on it drops the new task, and with it a
  coroutine that awaits it, with no more than a line in the log (TimerQueue.cpp:18).
- `OnlyEarlyTimeoutsHurt`: the timer is armed before the inner coroutine has run
  (Io.h:88-95). A timeout that is due first starts the inner coroutine itself, which then
  registers for an operation that is over; the next one trips IoWatcher.cpp:56. This is the
  only way to it, and TLS reads survive it, because their helper looks whether its reader is
  still there. `NoDataLost`: a `RecvFrom` waits although it already has a datagram
  (IoAwaitable.h:278), which a timeout then drops; reads of `AsyncIO` wait without having tried.
- `watcher`: a connected socket on which the writer waits first is registered for
  writing only. A reader that joins is recorded without EPOLLIN and forgotten when the writer
  is resumed (IoWatcher.cpp:54-58 and 93-101), although line 164 says "use et always read".
  With `FullDuplex = TRUE` all three properties of the run fail. Accepted sockets are
  registered for reading by their constructor and are checked with both waiting. `Waiting`
  leaves out `AsyncRead`: it waits without having tried, so after a read that left bytes, or
  after the end of the file, it is not resumed before the next edge (Io.h:120). Closing an
  `AsyncIO` erases the entry without resuming who waits on it (Io.h:259); the model closes
  only when nobody does.
- `NoDanglingRead`: two notifiers without the mutex, or a `NotifyAll` without it, read awaiters
  whose frames are gone (ConditionVariable.h:53 and 65). A rule of use: notify under the
  mutex, or from one place.
- `ForgottenUnlessDropped`: when a read returns 0, `DoRead` closes the socket without `onClose_`
  (WebSocket.cpp:20-23), and the registry keeps the WebSocket. That is so when the peer vanishes
  without a close frame, but also when it sent one: `DoRead` takes one frame per read (lines
  29-30), so a close frame that arrived in one read with an earlier frame stays in
  `completeFrames_`, and if the peer then closes its end nobody takes it.
- `PatienceIsSafe` and `AnswersMatch` hold until somebody gives up on an answer: the entry of
  a timed-out call stays (RpcChannel.cpp:161-170), so its late response writes through
  pointers into a frame that may be gone, and a server whose client left answers through a
  destroyed channel. RPC users must not reuse a client after a timeout.
- `PromptUnlessJoined`: `DoHttp` takes one request per read, so a pipelined request waits for
  more bytes; and when the read that completes a good request also brings the beginning of
  one past a limit, the good one is answered with 400 too.
- `AbortsExplained`: `substr` throws for an open file whose path has no suffix
  (StaticFileBody.h:173); one that did not open is answered with 404 or 500 (line 61). The
  exception ends in `unhandled_exception` (Task.h:23): an assertion in a debug build; with
  NDEBUG, as in the default Release build (CMakeLists.txt:23), it is swallowed and the connection
  ends without an answer. The assertion at line 189 fails when an error page keeps the
  file's body.
- `ResponseEnds`: `sendfile` of a truncated file returns 0 for ever (StaticFileBody.h:194),
  a text body is written without a timeout (HttpResponse.h:39).
- `NoStrandedConnection`: after `EMFILE` on the first `accept4` the backlog waits for the next
  client, since the drop of a connection comes only after the second. The handshake of one
  client holds up all others, and every attempt of it has a fresh timeout (Acceptor.cpp:95).
- `IdleDescriptorKept`: a thread that opens a descriptor at the wrong moment gets the spare
  one's place, and then there is none.
- `PoolStartsAndEnds`: `Start` does not look at the result of `pthread_create` (Thread.cpp:61) and
  waits for ever if it failed. The destructor waits for services nobody stopped, or that were
  stopped before their loop began. `ObjectsOutliveThreads` holds in spite of spurious wake-ups
  because of the `while` at Thread.cpp:62: with an `if`, `Start` could return before its thread had
  begun, `started_` would be false, and the destructor would not join it.
- `FatalLineKept`: the default logger does not flush at `FATAL`: its flush level is read under
  the name of the level (Logger.cpp:58) and compared with the sense inverted (line 106). And
  `SinkIt` reads the level three times (Logger.cpp:20-28): when a logger is switched off between
  the reads, a fatal message may be written to no sink and abort all the same, or the
  assertion at line 20 fails.
- `UsedLoggerAlive`: the raw main logger of `INFO(…)` dangles when it is replaced during the call
  and nothing else keeps it: it was never in the map (LogSinkTest.cpp:114-117 makes such a main
  logger), it was removed, or a namesake took its place there (Logger.cpp:142; lines 41-42 of the
  repository's README make two loggers called `example`). `NobodyStuck`: a thread whose main logger has a file sink
  without a file locks itself out. The property is about one such sink: with two, in two loggers
  that are the main logger one after the other, two threads can also wait for each other.

Hazards of the code that no property covers, beside those in `PROJECT.json`: listening calls of
a coroutine resumed by a foreign thread race on the watcher's map (IoService.cpp:93); the
counters of timers (Timer.cpp:10), of RPC calls (RpcChannel.cpp:25) and of the pool
(IoServicePool.cpp:34) are plain or read twice; the chain of `Unlock` and `resume`
deepens the native stack with every waiter (AsyncMutex.h:129); move assignment of a socket
stops listening on the descriptor it is about to take, not on the one it closes
(BasicSocket.cpp:54); the stand-alone WebSocket server drops the task of its upgrade handler
(WebSocketServer.cpp:28); sessions never expire (HttpSession.h:82); `ServletContext::GetAttribute`
returns a view it no longer protects (ServletContext.h:36); two calls of one RPC client that
overlap share a write buffer and a message per read (RpcChannel.cpp:39).

### Fairness

- The loop's thread and other threads are scheduled (weak fairness of their steps).
- Coroutines suspend or return: the loop is cooperative and depends on it (weak fairness
  of leaving in `IoService`).
- Clocks advance; armed timers expire. Data, peers and connections owe nothing.
- An owner of the mutex that awaits something else is resumed and eventually unlocks:
  strong fairness in `AsyncMutex`, since threads take turns with other coroutines.
- Consumers that are not waiting are started again (strong fairness, for the same reason).
- A WebSocket's peer reads what it is sent; pings are due in time. In `RpcChannel` only the
  client's loop is fair (it starts the call and fires its timer): servers and networks owe
  nothing.
- In `HttpServer` the writes of a response: strong fairness, because a client may stop reading
  and resume, and nothing if it stays away; the timeouts of reads and writes come (weak
  fairness). Reads of requests owe nothing.
- The threads of a pool and `DoAccept` are scheduled (weak fairness), and a new thread gets the
  mutex that `Start` takes again after every wake-up (strong fairness of `NotifyStarted`); nobody
  has to stop a service or to connect, and no wake-up comes without a signal. `Logging` has
  safety properties only.

Deadlock is checked everywhere but in `condition_variable`, where consumers may wait for a
message for ever once the producers are done, and in `rpc`, where client and server stop. In
`http`, `server` and `logging` an explicit step of rest stands for the states in which the
program is over, waits for somebody else, or is stuck in a way a property names.

## 5. What is proved

Each `…Proofs` module extends the modules it is about. All 28 invariants the passing runs check
are theorems, and both refinements. An invariant that a run checks is seldom inductive, so each
proof has its own; below is what it adds and why.

What a loop or a recursive function computes is proved by induction on the number of rounds. The
library's induction theorems take an operator as a parameter, which no prover at hand can
instantiate; `SetInduction`, derived from the well-foundedness of the naturals, says the same of
a set T (0 is in T, and n + 1 whenever n is), and T is the set of the n for which the claim
holds. The recursive functions are written so that such a set can be stated; that each exists is
itself a lemma (`RoundsExist` and its like).

`IoServiceProofs`, for any tasks, threads and bound:

- `TypeCorrect`: `Spec => []TypeOK`.
- `WakeUpNotLost`: `Spec => []NoLostWakeUp`. The invariant needs the type invariant and that
  the holder of the mutex in `AddTask` is exactly the thread that has yet to write the
  eventfd: the loop can only have missed a task if that write is still to come.
- `StopNotLost`: the same for `Stop`, where the thread between its two steps plays that role.
- `FramesSafeOnOneThread`: `FramesSafe` when `Foreign = {}`, as `foreign_completion` shows it
  must be. The handle of a coroutine is in at most one of the loop's vectors, the stack or the
  completions, and the state of the coroutine says in which.

`RefinementProofs`, the two parts with an abstract specification. The mutex, for any coroutines
and threads:

- `LockInvariant`: `LockInv` is inductive. Mutual exclusion alone is not: the release by
  compare-and-swap must know that there is an owner exactly when the word says locked, that a
  free mutex has empty lists, and that an owner past the test of `waitersHead_` left it empty.
- `MutuallyExclusive`, `UnlockNeverAborts`, `NobodyWaitsForNobody` follow; `WaitersAreListed`
  adds that each suspended operation is in one place of one list.
- `MutexImplementsFifo`: initial states and steps of `AsyncMutex` are initial states and steps
  (or stutters) of `FifoMutex` under the mapping above. The lemmas are about sequences:
  what `Reverse`, `Append` and concatenation do to the abstract queue.

The timers, for any number of them, any range of instants, resolution of the clock and tick:

- `QueueImplementsSet`: `TimerSpec => ImplementsTimerSet`. The invariant `TimerInv` says that heap
  and map are inverse to each other (`Linked`) and that no node is after one of its sons
  (`HeapOrder`). It does not hold inside an operation, so two weaker orders describe a heap in
  which one node is too early (`EarlyAt`, what `Fixup` repairs) or too late (`LateAt`, what
  `FixDown` repairs); `MoveNodeWorks` shows that `FixDown` followed by `Fixup`, as `UpdateTimer`
  calls them, repairs a node moved in either direction. `Taken` is what the loop of
  `HandleTimeout` keeps: what it has taken is due, comes before all that is left, and is listed
  in order; `RootFirst` is why nothing due is left when it ends.
- `SleepsArePunctual` (the first part of `TimersPunctual`) is arithmetic on the two truncations, from
  the same invariant; `NoTimerOutlivesOwner` (its last part) is part of it; `QueueTyped` follows.

`ConditionVariableProofs`, for finite sets of consumers and producers, any threads and messages:

- The common part: the mutex has one owner, a coroutine inside it or one already suspended for
  which a thread has still to unlock; so one coroutine notifies at a time (`NotifierAlone`).
- `AwaitersOutliveReads` (`NoDanglingRead`): what a notifier is looking at is still on the list,
  or was woken and is waiting for the mutex, which the notifier has.
- `WaitersAlwaysReachable` (`WaitersReachable`): lemmas say what pushing to and popping from the
  front does to a chain of `next_`; a chain is unaffected by the `next_` of who is not on it.
- `NotificationsNotLost` (`NoLostNotification`): consumers awake and producers about to notify
  are counted together. A consumer on its way to the list has seen no message under the mutex; a
  notifier leaves the count only when the one it woke enters it, or nobody is suspended.

`IoWatcherProofs`, for buffers of any size: `WatcherAndKernelAgree` and `EdgesNotLost`, when
`FullDuplex` is false (section 4 says why). The invariant relates the mask of `ioEvents_` to
epoll's interest and to the two handles, for each kind of descriptor, and says that a waiter
whose data or room is there is on the ready list or among the coroutines about to be resumed.

`NetProofs`, what runs on one server. The pool and the acceptor (`ServerSpec`), for any size of
the pool, number of descriptors and connections:

- `PoolObjectsSafe`, `StartSignalNotMissed`: threads are started and joined in order, and the
  mutex of `Thread::Start` is what keeps the signal from coming before the wait: a waiting
  `Start` has the signal still to come, or its thread was not created.
- `ConnectionsNotStranded`, `SpareDescriptorKept`, `TcpServerType`: the descriptors in use are
  counted, the place the acceptor has given up with them; the two properties are inductive
  together with that count.

Reads with a timeout (`TimeoutSpec`), for any number of operations and amount of data:

- `TimeoutsSafe` (`OnlyEarlyTimeoutsHurt`) and `OneReaderAtATime`: until a timeout came too early,
  and with TLS always, at most one coroutine waits for the descriptor or is about to be resumed;
  it belongs to the operation the client awaits, whose wrapper and helper stand last in the
  queue of the loop. That is what a new registration, and the resumption of a handle, rely on.
- `TimeoutsLoseNothing` (`NoDataLost`): from the same invariant, with the condition that a reader
  registered over data that is there has an edge still to come.

One HTTP connection, for any routes, streams of requests, limits, sizes of files and cuts into
reads. The inductive invariant is `HttpInv`:

- `StreamInv` says where the last token read is in its request (`TokenOk`) and what the parser then
  holds: the sizes in its buffers and the number of headers are those of the part of the
  request read so far (`Partial`), and its queue the complete requests not yet taken (`ParserOk`).
  This is what relates limits that are tested piece by piece to `Legal`, which speaks of whole
  requests. A read of several tokens is an induction on their number.
- `RespInv` says for which request the response in hand is and which body goes with its status;
  `WireInv` that there is one response for each request taken, or all but the one in hand, each
  framed by its length, only the last one possibly short.
- `ResponsesMatchRequests` (`AnswersMatchRequests`) and `NoRequestWaits` (`PromptUnlessJoined`) follow.
- `FiltersNotBypassed` (`NoFilterBypassed`): the chain that the walk along a path collects has every
  filter that `Covering` names, by induction on the nodes on the way and on the filters at each;
  a servlet is reached only when none of the chain refused.
- `AbortsAreExplained` (`AbortsExplained`): the body in hand says which handler made it and
  whether its file is open.

`RpcChannelProofs`, for any number of calls: until somebody gives up, a waiting call is in one of
nine places between the spawned request and the caller's resumption (`OnePlace`), each with
the contents of all buffers; `PatienceIsSafeAlways` and `AnswersMatchAlways` follow.

`WebSocketProofs`, for any frames and bounds: `FramesInOrder` adds to `WireInOrder` that the second
buffer is empty unless somebody writes. `RegistryForgets` adds where a close may still be:
pending, being written, or with the coroutine that starts the writer (`KeptOnlyAtEof`), and that
a close frame of the peer that was taken has called `onClose_`, so that one received by a
WebSocket still registered is in `completeFrames_` (`CloseTakenOrLeft`). `StreamReassembled`
(`MessagesReassembled`): the messages delivered and complete are those that end within the frames
parsed, and `frames_` holds the frames since the last end; a read is an induction on the frames
that begin in it. While the reader goes on, every frame read whole has been parsed.

`LoggingProofs`, for any threads, loggers, sinks and configuration:

- `UsedLoggerAliveAlways`: a call with a raw pointer has the main logger, or the main logger was
  replaced since the call began (`CurrentMain`); every other call has a `LoggerPtr`.
- `NobodyStuckAlways`: who holds a sink's mutex is a frame on that thread's stack that writes to
  it or reports that it is broken.
- `LinesInOrderAlways`, when no logger has a sink twice: calls of a
  thread are numbered upwards, and a line with the number of its present call is in a sink only
  once that call has passed the sink.
- `FatalLineKeptAlways`: a frame of a fatal call knows which sinks it has passed and that their
  lines are flushed once it flushed; streams only grow. The theorem exempts a logger that does
  not flush at `FATAL` and a call during which its logger was switched off, as the property
  does.

The assumptions are the named `ASSUME`s of the modules: threads and the loop differ, special
values differ from coroutines, sets of tasks, consumers and producers are finite, bounds are
natural numbers, the limit on descriptors is positive, the configuration names sinks and levels
that exist, and the loggers registered at first differ in name; the instant of a `Timer` just made is among the instants, a clock tick and a
millisecond are not zero; requests have a url and sizes that are numbers; routes are sequences of
names; error pages are for error statuses. TLC evaluates them on every run.

Only model-checked:

- liveness, since the prover has no `ENABLED`: `LoopProgress`, `WaiterServed`, `EveryOpCompletes`,
  `DownWakesWaiters`, `MessagesTaken`, `WriterAndEnd`, `EveryCallReturns`, `ResponseEnds`,
  `PoolStartsAndEnds`, and of `TimersPunctual` that every armed timer fires;
- `LogFormatter`, whose compiler is a recursive operator over text.

## 6. What is not modelled

- Results and exceptions of tasks; the memory order of atomics (steps are sequentially
  consistent); data races on the watcher from foreign threads; the constant array of epoll
  events.
- Assertions are on everywhere, as in a debug build: a failed one stops the model.
- HTTP: llhttp itself, so requests are well formed but for the limits and `..`; bytes after a
  request with `Connection: close`, which llhttp rejects; the text of headers, parameters,
  cookies and attributes; the upgrade to a WebSocket beyond the decision to do it; masks and
  lengths of WebSocket frames.
- RPC: the lookup of services and overlapping calls of one client.
- Moves of sockets, files and acceptors, blocking descriptors behind `AsyncIO`, socket options, `Detach`,
  timed waits, spin locks and shared mutexes: wrappers of one system call, or used by no other
  part. `GetNextIoService` and `GetIoServiceForHash`: no server calls them.
- Logging: `SetFlushLevel` while threads log, loggers made while threads log; the text of a line, the factories of sinks, patterns that do not compile
  (`SetPattern` then aborts).
- Addresses, byte order, hashing, the configuration file, certificates, the parsing and formatting
  of dates: conversions or input and output without protocol. The example programs.
