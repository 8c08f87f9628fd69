# Verification of OCTCommu

OCTCommu is a C++ communication library: TCP and UDP sockets, a serial port, and the
threads, pollers, queues, timers and tools under them. This directory holds TLA+ modules
that model it, the TLC configurations that check them on small instances, and proofs that
TLAPS checks for every value of the constants.

Paths below are relative to the root of the repository (the sources are in `src/src/`).

    tlc -workers 2 -config EventPoller_safety.cfg EventPoller    # one run
    tlapm EventPollerProofs.tla                                  # the proofs

Proofs are in modules of their own where they are long and the model is read without them
(`EventPollerProofs`, `ThreadPoolProofs`, `SocketSendProofs`, `NetworkProofs`), after the model
and its properties in `UdpSessions`, `TcpSessions` and `SqlPool`, and in `MCPeers`, which holds
`TcpClient` and `UdpSessions` together, after what it composes.

`PROJECT.json` lists components, runs, the lines each definition models, the mutants that
show each property can fail, findings, hazards and theorems.

## 1. The system

| Component | State | Operations | Hard behaviour | What makes it correct |
|---|---|---|---|---|
| `EventPoller` (`Poller/`) | `_list_task` under `_mtx_task`, the wake-up pipe, `_delay_task_map`, the table of descriptors, `_exit_flag` | `async`, `async_first`, `sync`, `doDelayTask`, `addEvent`, `delEvent`, `modifyEvent`, `runLoop`, `shutdown`, destructor | any thread against the loop; edge-triggered epoll; a descriptor reused within a batch; the end of the loop | no lost wake-up, no oversleep, closures run once and in order, nobody is called for an event after `delEvent`, `sync` and the destructor return |
| `TaskExecutor`, executor pools (`Thread/TaskExecutor.*`) | references of a task, load counters | `async`, `async_first`, `sync`, `cancel`; the choice of the least loaded executor | `cancel` against the executing thread; records that leave the window | order, no duplicate, nothing after `cancel`; loads are those of the window |
| `Timer` (`Poller/Timer.cpp`) | tag of the delayed task | `init`, `begin`, `end`, destructor | a delayed task that repeats while it is ended | never early, nothing after `end` |
| `Socket`, sending | `_sock_fd`, `_sendable`, two send lists, callbacks, three recursive locks, a speed | `send`, `flushAll`, `onWriteAble`, `enableRecv`, `emitErr` | user threads against the poller; partial writes; lock order; errors from both sides | order and conservation of buffers, no stalled data, one error, no lock cycle |
| `Socket`, life cycle | the attempt, its timer and its callback; the listening descriptor and its copies | `connect`, `listen`, `onAccept`, `closeSock` | resolver, timer and epoll answer the same attempt; several pollers accept from one descriptor | one result per attempt, no descriptor lost, no connection left waiting |
| Packets and buffers (`Network/BufferSock.cpp`, `Buffer.h`) | io vector and offsets; the shared read buffer; erased ends of a string | `send`, `reOffset`; `append`, `erase`, `setCapacity` | the kernel stops anywhere; data outlives the callback it came in | what leaves is the concatenation, once; what was read reaches its reader unchanged |
| `TcpClient`, `TCPClientImp` | connection timers | `startConnect`, `shutdown`, reconnect, destructor | retry against a late answer, `shutdown` against both | no old attempt reports, a client without a connection tries again |
| `TcpServer`, `Server`, `Session` | session maps, one per poller copy | accept, dispatch, error, manager timer, close | sessions on other pollers, removal while iterating, reuse of addresses | each session told once and removed once, nothing touched after it is gone |
| `UdpServer` | a session map shared by the pollers, under a mutex | read, `getOrCreateSession`, error | two pollers read a new peer at once; references used when the lock is free again | one session per peer, each datagram handled once and on its session's thread |
| `ThreadPool` (`Thread/`) | `_queue`, a semaphore, `_thread_group` | `async`, `async_first`, `start`, `stop`, destructor | permits of two kinds that look alike; restart | no stranded closure, no early exit, drained at `stop` |
| `UDPImp`, facade | bounded receive queue, pool of one thread, `m_send_mutex`, target and group | `init`, `shutdown`, `send`, receive callback | three threads; an `init` of which a step fails; a new target while data waits | order and delivery of datagrams; send works exactly after an `init` that succeeded |
| `ITCP`, `TCPImp`, `TCPServerImp` | the object that is client or server, functions, receive queue | `init`, the set functions, receiving | functions replaced while threads call them | the function set last is called, detached data in order |
| `SPUnix` | send cache, `listen_to_write_`, thread | `init`, `send`, select loop, `shutdown` | a flag written by both threads, partial reads | data is written in order, read data delivered in pieces of the asked length, `shutdown` returns |
| `SPWin`, parameters | overlapped reads, event handles; a termios | `init`, `shutdown`, read thread; `initSPProperty` | a read under way when the port is closed; flags of the opening before | nothing of another opening is delivered; the line has what was asked |
| `RingBuffer` | items of one writer, readers per poller | `write`, `attach`, release, `clearCache` | posts between pollers while readers come and go | each reader sees the items one after the other, from the first it is given |
| `NoticeCenter` | listeners per event, two locks | `addListener`, `delListener`, `emitEvent` | removal against registration | a registered listener is called |
| `ResourcePool`, `SqlPool` | idle connections, a flag, queries | `obtain`, recycle, `syncQuery`, `asyncQuery` | the flag nobody waits for, a failed query that returns | no connection in two hands, no failed one reused, no query lost |
| Logger | list of the asynchronous writer, last line, files | `write`, `flush`, `clean` | destructor against writer; lines that come late; midnight | what was logged is printed, the open file stays |
| SSL (`SSLBox`) | two BIOs, queue before the handshake; contexts by name | `onSend`, `onRecv`, `flush`; `findCertificate` | `flush` from its own callback, data before the handshake | order, nothing left behind; the right certificate |
| Addresses (`sockutil`) | cache of names | `connect`, `listen`, `bindUdpSock`, resolution, parsing, adapters | names expire while they are asked for, each system call may fail | no descriptor left open, no stale address, texts read right |
| `BlockingQueue`, `StreamBuffer`, `FixedBuffer` | a bounded queue, indices | `put`, `take`, `append`, `getNextFrame` | bounds, frames cut at any byte | bound, order, content |
| Utilities | - | option parser, paths, digests, base64, ini files, texts, the clock thread | threads that make the same path, a clock that is set | results of a reference definition; time that never goes back |

How they interact: every socket callback, delayed task and posted closure runs on the loop
thread of one `EventPoller`. User threads reach it by `async` (a locked list and a byte in
the pipe) or, with `Socket::send`, work on the socket's state themselves under the socket's
locks. `ThreadPool` carries callbacks that must not block a poller (`UDPImp` and
`TCPServerImp` with a detached receiver). `EventPoller` and `ThreadPool` both implement
`TaskExecutorInterface`. Servers are copied to every poller of the pool, and their
listening descriptor is shared; `WorkThreadPool` resolves names.

## 2. The modules

Order of work: first the threads that run everything (`EventPoller`, `ThreadPool`) against one
abstract contract (`TaskExecutor`), then sending (`SocketSend`) and receiving (`UdpReceive`),
then connections and sessions (`TcpClient`, `TcpSessions`, `UdpSessions`), then what stands
beside or under them.

A module that composes others says so in its header: `UdpReceive` composes `ThreadPool` with
the bounded queue; `EventPoller` and `ThreadPool` refine `TaskExecutor`. The other modules
share no state with each other.

### TaskExecutor

A queue, a set of cancelled closures and a count of executions. `async` appends,
`async_first` may overtake any prefix (the two implementations differ in what it overtakes),
the front closure is taken, and executed unless it was cancelled. An inline call executes
without queueing. Both executors are checked against `TaskExecutor!Spec` by a refinement
mapping: `queue` is `list_swap \o list_task` for the poller, and `queue` itself for the pool.

### EventPoller

A step of a thread ends where another thread's step can matter. Correspondence:

- `Async`, `DoDelayTask`, `AsyncLoop`: `async_l` up to the end of the locked block; the byte
  for the pipe is the separate step `WritePipe`, because the code writes it after unlocking.
  `sync` is `Async` with `waiting[c]` set until the body ends.
- `GetMinDelay`, `FlushDue`, `TimerEnd`, `TimerAgain`, `FlushDone`: `getMinDelay` and
  `flushDelayTask`. `now_time` is the clock as the function read it, `wake_at` the absolute
  time of the `epoll_wait` timeout after the narrowing to `int` in `EpollWait`.
- `EpollPipe`, `EpollTimeout`, `EpollOther`: what `epoll_wait` returns. The pipe is
  registered edge triggered: `edge` is set by a write and cleared by a report. A batch with
  other descriptors is a body of `Io` before or after the pipe event.
- `Drain`, `SwapList`, `RunNext`, `RunDone`: `onPipeEvent`, read until empty, swap under the
  lock, execute one by one.
- `Shutdown`, `ShutdownWrite`, `Joined`: the destructor, called by a thread that holds the
  last reference, so `Free(c)` for all clients; it takes over the loop's thread id and calls
  `onPipeEvent` once more.
- `Init` leaves `exit_flag` open because the constructor does not initialise `_exit_flag`;
  `runLoop` assigns it before it is read and the constructor waits for that.

### SocketSend

Buffers are numbers in the order `send` accepted them. `waiting` and `sending` are the two
levels of lists, flattened; `tmp[th]` is the local list of a thread inside `flushData`. The
three recursive locks have explicit holders; `pc` says between which two lock operations a
thread stands. A recursive lock that a thread already holds is taken at once
(`mtx_sock \in {None, th}`). `User = {}` is a socket created with `enable_mutex = false`.

- `Write` is `sendmsg` until the kernel refuses: it takes what fits (`KCap`).
- `ModifyEvent` is `EPOLL_CTL_MOD`. `addEvent` asks for `EPOLLEXCLUSIVE`
  (`EventPoller.cpp:132`), and on a descriptor that has it the kernel refuses the call with
  `EINVAL`, which nobody looks at: mask and edge stay what they were, and the descriptor is
  asked for everything, as it was added. Where the system does not know the flag it is 0
  (`EventPoller.cpp:21-29`), and what is ready under the new mask is reported again.
  `exclusive` says which, it is chosen in `Init` from the constant `Exclusive`.
- `EpollReport`, `ReadEvent`, `WriteEvent`, `ErrorEvent`: one epoll report and the callback
  of `attachEvent`, which handles read, write and error in this order even after `emitErr`.
  One `ReadEvent` stands for all callbacks of one `onRead`.
- `CheckOpen`, `CloseSock`: the two critical sections of `emitErr`.
- `TryFlush` and `Toggles` choose which calls the users make (`send` with
  `try_flush = false`, `enableRecv`).
- Not in it: UDP sending (`UdpCast`), `setOnFlush` removal, the execution of the posted
  `_on_err` closure (`TcpClient`, `TcpSessions`).

### ThreadPool

`Async` is the locked half of `push_task`, `Post` the permit that follows it. A worker is at
`wait` (semaphore), `take` (holds a permit), `run` (in a closure) or `gone` (found the queue
empty and left, still in `_thread_group`). `Stop` posts `_thread_num` permits whether or not
threads run; `Join` is `join_all` and `clear`. `control` is the one thread that calls `start`
and `stop`; `StopIdle` says whether it also stops a pool that has no threads, which the
destructor and `UDPImp` do. The test for cancellation is part of `GetTask`: between the pop
and the test no other step reads either. `stop` called by a thread of the pool throws and is
not modelled.

### UdpReceive

`UDPImp` with `is_to_recv_` and `is_detach_recv_`, composed with `ThreadPool` (one worker, one
closure per datagram) and `BlockingQueue`. `Put` drops the oldest before it adds, tested
before the addition, so the queue holds up to `Cap + 1`; `Take` does not wait, and a worker
that finds nothing calls the application with a buffer of no bytes or with what the copy of
a `FixedBuffer` has in place of its length (`TakeNothing`; 0 in `delivered`). `mutex` is
`m_send_mutex`, held by `init` and `shutdown` from end to end and taken by `send`. Datagrams
that arrive before the read callback is set are dropped in the code and have no step here.

### TcpClient

An attempt is a number. `ConnectStart` is `connect_l` with everything it calls: `closeSock` of
the attempt before, the timer, the resolver's closure. The result callback of an attempt is
reached from the resolver's answer, from epoll and from the timer, so each of these is an
action, and `async_con_cb`, `con_timer` and `connecting` say which attempt each of them still
holds. A descriptor is in `open` until somebody closes it. The client adds the timer of five
seconds, `shutdown` and the destructor, which a user thread calls while the poller runs; each
of its actions constrains the result its attempt reports and says what `onConnected` and
`onSockErr` do with it.

### TcpSessions and UdpSessions

`TcpSessions` follows a connection from the accept through the pick of a poller, the closure
that creates its session there, errors, the walk of the manager timer over a copy of the
session map and the end of server and clones, to the places in memory that a `SessionHelper`
leaves and the next one takes (`Address`): the map is keyed by them. The event of the listening
socket (`AcceptEvent` to `AcceptReturns`, `inside`) holds the socket while it accepts, the
server does not: `DropServer` happens at any time, also inside it. The next accept callback
then uses the raw `this`, or a clone's `_parent`, of an object that is gone (`AcceptAlone`),
and `ruined` says so from then on. `UdpSessions` follows a
datagram: which of the two pollers reads it, `getOrCreateSession` under the lock and the use
of the reference after it, the post to the session's poller and the socket of the session,
which takes over what arrives later.

### The other modules

| Module | Models | Notes |
|---|---|---|
| `SocketAccept` | `listen`, `onAccept`, `cloneFromListenSocket` | several pollers, edge-triggered, one backlog; the server may refuse, throw or close from its callbacks |
| `UdpCast` | `UDPImp::init`, `send`, `shutdown` | one step of `init` at a time, each may fail; datagrams that the kernel has not taken outlive the socket |
| `Speed` | `BytesSpeed` | no lock: each load and store is a step; `counted` remembers the bytes of the intervals that were closed |
| `TcpFacade` | `ITCP`, `TCPImp`, `TCPServerImp`, the common functions | functions are numbered by the call that set them; the queue drops its oldest, and a task may find it empty |
| `PollerEvents` | `addEvent`, `delEvent`, the batch of `runLoop` | both builds: `build` is epoll or select |
| `Timer` | `Timer.cpp` with `flushDelayTask` | rounds of the poller; a period below a millisecond is 0 |
| `Clock` | the stamp thread of `util.cpp` | four atomics, one store a step; the system's clock may be set |
| `Executors` | `ThreadLoadCounter`, `getExecutor` | one record per change of sleeping and running |
| `SerialPort` | `SPUnix` | thread, cache, pool of one thread |
| `SerialWin` | `SPWin`, asynchronous | the event handles, the read that is under way |
| `SerialParams` | `SPParamHelper`, `initSPProperty`, `SPUtil` | flags are bit numbers, so a flag of another mode hits what has its bit |
| `SockUtil` | `connect`, `listen`, `bindUdpSock`, the cache of names | each call a thread; every system call may fail |
| `NetAddress` | `inet_pton4`, `inet_pton6`, `get_local_ip` | short addresses (`Octets`, `Groups`) |
| `Packets` | `BufferSendMsg`, `BufferSendMMsg`, `BufferSendTo` | the kernel takes any number of bytes or entries |
| `ReadBuffer` | the shared buffer, `FixedBuffer`, `BufferRaw` | capacities, copies, the end mark |
| `BufferText` | `BufferLikeString` | against the text a `std::string` would hold, until a call departs from it (`departed`) |
| `StreamBuffer` | `StreamBuffer.cpp` | against the frames of the whole stream, until bytes go past the end of the array (`overrun`) |
| `Base64`, `Digest` | `base64.cpp`; the blocks of `MD5.cpp` and `SHA1.cpp` | character by character; piece by piece |
| `RingBuffer` | `RingBuffer.h` | storage, dispatchers and readers, each on its poller |
| `NoticeCenter` | `NoticeCenter.h` | one event; a step ends with each lock |
| `SqlPool` | `SqlPool.h` over `ResourcePool.h` | the flag that is tried, never waited for |
| `AsyncLog`, `LogFiles`, `LocalTime` | `logger.cpp`, `local_time.cpp` | list and writer; files by time and index; years and months counted off |
| `CommandLine` | `CMD.h` and `getopt.c` | permutation of arguments, bundled short options |
| `IniFile`, `Paths`, `Texts` | `mini.h`, `File.cpp`, `util.cpp` | a line, a part, a call is a step |
| `SSLBox`, `Certificates` | `SSLBox.cpp` | both ends of a connection; contexts by name and wildcard |

### Selector modules

Most of these modules are small and independent, and each has an instance of its own. Three
modules gather them for TLC: `MCPeers`, `MCNetwork` and `MCComponents`. Each has
a variable `unit` that picks one of the gathered specifications at the start and keeps it; the
variables of the others stay as they started, so the states are the sum of the state spaces
and not their product. A property of such a run is the conjunction of what its units promise:
`BuffersRight` is `PacketsRight /\ StreamBufferRight /\ ...`, where a unit's `...Right` is the
conjunction of its named invariants; `PollerRight` adds the units' action properties, and
`AddressRight`, `SerialRight` and the like their liveness properties too. A step of a unit that
is not picked leaves its variables alone, so its invariants need to hold in its initial state
only. Where a type invariant says something that is not obvious it is one of the named parts.

| Selector | Units |
|---|---|
| `MCPeers` | `TcpClient`, `UdpSessions`, `PollerEvents`, `Timer`, `Clock` |
| `MCNetwork` | `UdpReceive`, `TcpFacade`, `SocketAccept`, `UdpCast`, `Speed`, `SockUtil`, `NetAddress`, `Packets`, `StreamBuffer`, `BufferText`, `Base64`, `Digest`, `ReadBuffer`, `RingBuffer`, `NoticeCenter` |
| `MCComponents` | `SerialPort`, `SerialParams`, `SerialWin`, `Executors`, `SqlPool`, `CommandLine`, `IniFile`, `AsyncLog`, `LogFiles`, `LocalTime`, `Paths`, `Texts`, `SSLBox`, `Certificates` |

`MCNetwork` extends `NetworkProofs`, which has `UdpReceive` and the five units with theorems
(`SocketAccept`, `UdpCast`, `Speed`, `NoticeCenter`, `RingBuffer`); `MCComponents` extends
`SqlPool` and `MCPeers` extends `TcpClient`; their other units are instances.

The remaining runs give a module its constants directly.

## 3. The runs

A run checks all its properties over the complete state space of its instance.

| Run | Module, instance | Checks | Shows |
|---|---|---|---|
| `poller_safety` | `EventPoller`: 2 clients, 2 plain and 1 urgent closure, 1 delayed task, 1 ms, pipe of 1 byte | `TypeOK`, `NoLostWakeup`, `AtMostOnce`, `ImplementsTaskExecutor` | no interleaving of push, write, drain, swap and destruction loses or repeats a closure, or reorders it against the contract |
| `poller_live` | `EventPoller`: 1 client, 1 closure, 2 delayed tasks of 1 and 2 ms, 3 clock values, fairness | `NoOversleep`, `TimersKeepTime`, `ClosuresTaken`, `TimerFires`, `CallsReturn` | timeouts are right while delayed tasks create, repeat and cancel each other; `sync` and the destructor return |
| `send_single` | `SocketSend`: poller thread only, 4 buffers, kernel of 2, both values of `try_flush`, with and without `EPOLLEXCLUSIVE`, fairness | `OrderKept`, `NoStall`, `ErrorOnce`, `EventuallySent` | a socket with `enable_mutex = false` keeps order, does not stall and reports one error, whether `modifyEvent` has an effect or not |
| `send_threads` | `SocketSend`: 2 users and the poller, 3 buffers, kernel of 1, `enableRecv` | `Conservation` | concurrent flushes and rollbacks lose and duplicate nothing |
| `send_deadlock` | `SocketSend`: 1 user and the poller | `NoLockCycle`, violated | finding 1 |
| `pool_all` | `ThreadPool`: 2 clients, 2 workers, 3 closures (1 urgent), 2 stops, fairness | `PermitsCover`, `NoEarlyLeave`, `StopDrains`, `ImplementsTaskExecutor`, `PoolServes` | closures, permits and threads balance over restart; `stop` drains and returns |
| `udp_detached` | `UdpReceive`: 2 datagrams, 1 call, fairness | `EventuallyDelivered`, violated | finding 2 |
| `tcp_all` | `TcpSessions`: 2 pollers, 2 connections, 2 addresses, fairness | `TcpSessionsSafe`, `ToldOrStray`, `TcpSessionsEnd` | maps that only their own poller touches, callbacks before events, no erasure under a walk; sessions that were shut down end; also when the server is given up in the middle of an accept, until an accept callback uses a server that is gone |
| `tcp_unheard` | `TcpSessions`, the same instance | `DataHeard`, violated | finding 3 |
| `peers_all` | `MCPeers`: 3 attempts, 1 `shutdown`; 2 pollers, 2 peers with 2 datagrams and 2 sessions, fairness | `RetryArmed`, `UdpSessionsSafe`, `AttemptsApart`, `Recovers`, `Consumed`, `PollerRight` | late answers of an old attempt change nothing, and a client without a connection tries again; one session per peer, datagrams that were read are handled, events of a watched descriptor taken up; what a poller watches, times and reads the clock with |
| `network_all` | `MCNetwork` | `InOrder`, `EachHasClosure`, `TcpFacadeRight`, `SocketRight`, `AddressRight`, `BuffersRight`, `BroadcastRight` | facades (what a server received is delivered in order or dropped), listening sockets, groups, speeds, addresses, packets and buffers, rings and notices |
| `components_all` | `MCComponents` | `SerialRight`, `ExecutorsRight`, `SqlPoolRight`, `ProgramRight`, `TlsRight` | serial ports, the choice of an executor, connections of a data base, log, options and files, TLS |

What the parts of the umbrella properties say, where it is not plain from the name:

- `AttemptsApart`: one attempt is live, reports once and only while it is the newest, and no
  descriptor of another one stays open. `Recovers`: the retries never end by themselves, and
  end cleanly when the client is destroyed.
- `PollerRight`: the map of functions and the kernel watch the same descriptors, the function
  called is that of the watcher the event was of (unless the number was used again, see
  section 4), and with epoll nobody is called after its `delEvent`; a timer is never early and
  dead after `end()`; time never goes back for a reader, whatever somebody does to the
  system's clock. `Consumed` is the liveness beside it: a datagram that was read is handled,
  and what happens to a watched descriptor is taken up.
- `SocketRight`: no connection waits while every poller sleeps, no accepted descriptor is
  lost (`SocketAccept`); after an `init` that succeeded, and only then, `send` works, and
  nothing goes to an old target by a new call (`UdpCast`); every byte is in one speed while
  no two threads meet, and never is anything divided by zero (`Speed`).
- `AddressRight`: no descriptor is lost where a step of a call fails, a name is served from
  the cache for no longer than it may (`SockUtil`); the parsers read exactly the addresses
  (`NetAddress`).
- `BuffersRight`: wherever the kernel stops, the bytes leave in order, counted and told once
  (`Packets`); frames, strings, characters and digests are those of a reference definition,
  frames until the array is overrun and strings while no call has departed from them;
  what is read into a shared buffer reaches its application unchanged (`ReadBuffer`).
- `BroadcastRight`: a reader sees every item from the first it is given on (`RingBuffer`); a
  listener that was added is called, one that was removed is not (`NoticeCenter`).
- `SerialRight`: data is written in order and none is stuck, what was read arrives in order,
  `shutdown` returns, an opening that fails leaves nothing behind, the line has exactly what
  was asked for.
- `ProgramRight`: command line, ini file, texts and paths against reference definitions,
  paths also with two threads; log lines are printed once, in order, in the file of their day.

**Exceptions.** Where the code departs from what it should do in a known case, the property
names the case as a state (`"met" \in history`, `reused`, `raced`, `StrayDelivered`, `ruined`,
`departed`, `overrun`, `skipped`) instead
of leaving it out of the model, and holds everywhere else. The cases are in section 4.

**Mutants.** Each property of a passing run has at least one: a definition with a comment
`Fault` or `Mutant` next to the one it stands for, a plausible slip in that code, with which TLC
finds the property violated. An umbrella property has one for each unit that is worth it.

**Bounds.** They are constants and appear only in guards: `Max...` in every module, and the
finite sets of threads, closures, peers. They are chosen so that the case the module is about
happens: `PipeCap = 1` makes a full pipe happen at the second wake-up; two clients give the
third thread that races the loop and another client; `KCap` below `MaxBuf` gives partial
writes and a full kernel buffer; a queue of 1 overflows at the third datagram; two stops give
a restart; three attempts give a late answer with a replaced and a current attempt; two places
in memory are enough for a session that takes the place another one left; two pollers for
every post from one to the other; two initialisations give what is left of the first. Messages
of a digest are longer than two blocks and pieces longer than one; texts are long enough for a
pattern to appear again where it was replaced. The clock of `EventPoller` stops at `MaxTime`,
and a timeout that lies behind it may fire there, so that the bound itself never starves a
sleeping loop. What these instances cannot show for larger ones, the theorems of section 5 show
for the poller and the pool, sending, receiving and accepting, client, servers and data base.
Symmetry is used in safety runs only.

**Fairness.** `WF` of each thread's own steps: the operating system schedules every thread and
callbacks return. `SF` of `EpollPipe` and of `edge /\ EpollReport`, of `Select` that reports
writability, of the next closure or datagram of a server's poller: the loop goes through
other callbacks in between, but epoll and select include what is ready in each batch they
return, and a closure in the list is executed in the next pass. `WF` of `Tick` (time passes),
`PeerTakes` (a peer that reads), of timers that are due, of the resolver's answer, of
`AcceptReturns` (no peer connects so fast that an accept loop never ends) and of
`join`, which returns once the thread has ended. Callers need no fairness: they may never
call. In `MCPeers`, `MCNetwork` and `MCComponents` the conditions of a unit
that was not picked are void, since none of its actions is enabled.

**Deadlock** is checked for `EventPoller` (a dead poller stutters in `Destroyed`) and
`ThreadPool`. Elsewhere the bounded instance really stops: all buffers, datagrams, calls and
attempts are used up; and the lock cycles that exist have properties of their own.

## 4. Findings

1. `Network/Socket.cpp:941`, run `send_deadlock`. `_mtx_sock_fd` before `_mtx_event` in
   `send`, the other way round in a callback that sends: both wait for ever.
2. `Communcation/UDPImp.cpp:101`, run `udp_detached`. The first `init` stops a pool that has
   no thread; the permit for the end waits for the next thread, which leaves, and the
   datagrams stay in the queue.
3. `Network/TcpServer.cpp:133`, run `tcp_unheard`. A clone of the server does not have
   the callbacks of the application, so a session that is dispatched to it drops its data.

Further departures of the code, met while modelling it. The models contain them; where a
property would fail because of one, it names the case.

*Poller and threads.* A delayed task created during a flush with a deadline equal to
`now_time` makes `flushDelayTask` return 0, which `runLoop` turns into an infinite timeout
(`EventPoller.cpp:499`; `Delay = {0, 1}` violates `TimerFires`). A delay above the largest
`int` is narrowed to a negative timeout. The destructor's last pass drops closures pushed by
closures. A descriptor closed and used again within one epoll batch gets the event of its
predecessor (`EventPoller.cpp:358`); a closure of `addEvent` overtaken by a direct close
registers a stale number; with select, a closed descriptor in the map makes every select
fail, and a record is called whose `delEvent` has been made. `Timer::begin` twice without
`end` leaves a task nobody can cancel; a period below 1 ms is called once and stops.
`getExecutor` returns the thread at `_thread_pos` for as long as it is idle.

*Sending and sockets.* With user threads, `onWriteAble` decides on lists it looked at before
another thread filled them (`Socket.cpp:1050`; `NoStall` fails), the poller thread flushes
without `_mtx_sock_fd` so that a later buffer can be written first (`:942`; `OrderKept` fails),
and the two halves of `emitErr` let two threads report (`ErrorOnce` fails). On Linux
`modifyEvent` is always refused (`EventPoller.cpp:132` and `:201`), so that `enableRecv(false)`
stops no event and `startWriteAbleEvent` and `stopWriteAbleEvent` change nothing but `_sendable`
(`Socket.cpp:1067`, `:1075`, `:1088`, `UDPImp.cpp:95`). The descriptor stays watched for
writing, and each edge is reported once: a user thread that writes a part, and clears
`_sendable` only after the poller has handled the edge that followed (`Socket.cpp:989`,
`:1002`), leaves a socket that is not sendable and that no event comes back for, until its send
timeout (`NoStall` and `EventuallySent` fail). Where `modifyEvent` has an effect, `try_flush =
false` mixed with `enableRecv` violates `NoStall` on the poller thread alone. Any error of
`accept` other than `EAGAIN` closes that listener, and takes its edge with it.
`Socket::setAttach` uses `_sock_fd` without its lock. One refused datagram drops the rest of a
UDP batch.

*Client and servers.* A `TcpServer` may be destroyed while a poller is in its accept loop, which
keeps the listening socket alive: the next callback uses the raw `this` (`TcpServer.cpp:27-40`),
and in a clone, also one that a posted closure keeps for a moment, `_parent` (`:313-324`). At
best `shared_from_this` throws and the connection is closed. `TcpSessions` contains the case
(`AcceptAlone`), its properties hold until then. `shutdown` does not stop the reconnection
timer; the destructor after a failure dereferences an empty timer. `UdpServer` posts the raw
`addr` to other threads (`UdpServer.cpp:186`, `:358`); a datagram that a session's socket caught
before it was connected goes to that session, not to its sender's (`RightSession`). A helper
that got the address of one that reported twice is removed without being told (`ToldFirst`,
exception of `ToldOrStray`). `for_each_session` holds a mutex that is not recursive.

*Facades.* `UDPImp::shutdown` joins the worker with the mutex held that the callback's `send`
needs (`UDPImp.cpp:91`). `toSockAddress`'s result is ignored, a failed `init` leaves the socket
bound, `is_to_recv_ = false` after an `init` with true still delivers, and datagrams queued for
the last target go through the new socket. `ITCP`: functions set before `init` of a client go to
the server object; the server's receiver ignores `is_to_recv_`, and with a detached receiver
whose pool was not started tasks pile up while the queue drops its oldest; a task that finds no
function is used up, and its buffer stays behind; a function that is set inside itself
deadlocks.

*Buffers and addresses.* `FixedBuffer::append` needs `avail() > len`, so a read of exactly 256
KiB is lost and the application is called with no bytes; the copy of a `FixedBuffer` points into
its source, so its length is garbage (`UDPImp.cpp:404-415`). `BufferLikeString::resize` brings
erased bytes back (`Buffer.h:478`), `insert` behind the content goes into the erased tail
(`:414`), and `assign` of an own part that reaches too far throws when it has moved the head,
after which `size()` may wrap around (`:433-437`); `assign` of an own part writes no end mark, a
self-append after an erasure moves the data under the pointer. `StreamBuffer` is filled past its
end when the application does not read (`StreamBuffer.cpp:96`), `init` with too long a header
changes nothing and answers true (`:37`), and before `init` there is no end of empty frames.
`setMultiLOOP` sets an IPv4 option at the level of IPv6, so an IPv6 group can never be joined on
Linux; an unparsable local address binds to any. The family told of a datagram is that of its
address, but its text is read with the layout that the parameter `isIPV6` chooses, true for IPv4
(`sockutil.cpp:1681-1697`). `UDPImp` passes the flag it made of the address given to `init`,
true for IPv6 (`UDPImp.cpp:210-217`, `:385`), so that the text is wrong; the TCP classes pass
`is_ipv4_`, which fits. On a TCP connection `recvfrom` does not fill in the address at all
(`Socket.cpp:362-369`), so that the source told is what was on the stack.

*Serial ports.* Unix: a send during a flush may be left in the cache (`SPUnix.cpp:681`), a
remainder shorter than `next_read_len` is lost although the comment at `:726` keeps it, empty
data makes `flushAllData` recurse without end, without `is_to_recv_` nothing is written.
Software flow control sets bits of the input mode in the control mode and turns 9600 into
3,000,000 baud; custom rates are overwritten by `tcsetattr`; mark parity and one and a half
stop bits are accepted and then refused. Windows: pending reads are dropped and event handles
leak, the length asked for is delivered even if fewer bytes were read, a callback that waits
for `mutex_fd_` while `shutdown` joins deadlocks.

*Rings, notices, data base, log.* A listener added between another thread's `delListener` of
the last one and the removal of the dispatcher is lost (`NoticeCenter.h:122-139`).
`clearCache` does nothing on a dispatcher with readers; `setReadCB` twice delivers the cache
again. `asyncQuery(sql, n)` formats `n` into the query and retries for ever
(`SqlPool.h:174`); a constructor that throws leaves the flag of `ResourcePool` set. With
`_log_max_day = 1` a late line across midnight lets `clean` delete the file just opened; the
count of a repeat that is kept back at the end is never printed.

*TLS, options, files, texts.* `SSL_shutdown`'s first return is 0, so `close_notify` is not
flushed. A server whose only certificate has no name refuses every handshake; a wildcard
matches several labels. Option numbers collide after `delOption` (`CMD.h:152`). `parentDir("/")`
is empty, so that climbing above the root makes a path relative; two threads that make the
same directory: one of them fails. `trim` has a table of 255 entries; `replace` does not end
when what it puts in contains what it takes out; `split` with an empty delimiter does not end.
A key without a section reads out of range when it is dumped. A stamp thread stopped for a
second loses that time; a clock set ahead by less counts as time that passed.

## 5. The proofs

All theorems are proved with TLAPS for any sets of closures, threads, pollers, connections and
listeners, finite or not unless an assumption says so, and all values of the bounds. A module
names what it assumes of its constants (`ConstantsAssumption`, `ServerAssumption`,
`RateAssumption`, `RingAssumption`, `PollerAssumption`): bounds are natural numbers, threads of
different roles are different. What a theorem needs beyond that is a hypothesis of the theorem,
and listed here. Each argument is an inductive invariant, which holds initially, is preserved
by each action, with one lemma or one case per action, and implies the property.

`EventPollerProofs`:

- `TypeCorrect`: `TypeOK` is inductive.
- `WakeupsKept`: `NoLostWakeup` is not inductive, since a drain needs a readable pipe to be
  reported. `WakeInv` adds: a non-empty pipe is on epoll's ready list, or is being drained.
- `StartedOnce`: `OnceInv` says that the two lists hold nothing twice, nothing in common,
  nothing that ran and nothing that was not handed over; `Exit` is in the list only after the
  destructor put it there.
- `Implements`: every step is a step of `TaskExecutor` or leaves its variables alone.
  `OnceInv` gives that a closure is new when it is accepted, `SwapInv` that the swapped list
  is empty when the list is swapped again; an urgent closure overtakes up to what was swapped
  out.
- `TimersOnTime`: `TimeInv` relates `now_time` and the clock.
- `SleepsInTime`: assuming that no delay is 0 and `MaxTime <= IntMax` (section 4 shows that
  both are needed), `epoll_wait` does not sleep past the first delayed task. `DueInv`:
  whatever is inserted during a flush is due after `now_time`.

`ThreadPoolProofs`:

- `TypeCorrect`, and `PermitsSuffice`: `PermitsCover` is inductive with `TypeOK`, by counting
  permits (`Permits`) step by step, also when an empty pool is stopped.
- `ThreadsStay`, assuming `~ StopIdle`: `NoEarlyLeave` follows from `Balance`: between stops
  there are as many permits as closures, during a stop as many as closures and threads that
  have not left. Finding 2 shows that the assumption is needed.
- `StopTakesAll`, assuming `~ StopIdle` and at least one thread: `StopDrains` follows from
  `Drained`: once a thread has left, nothing that was due is queued. `Known` keeps a closure
  that was due from coming back.
- `Implements`: the pool implements `TaskExecutor` for any number of threads.

`SocketSendProofs`:

- `SendTypeCorrect`, for any number of threads.
- `SendInOrder` and `SendErrorOnce`, assuming `User = {}`: all calls come from the poller
  thread, as in a socket without mutexes. `OrderKept` speaks of the wire; `SingleInv` says
  where every accepted buffer is: what is on the wire, in the local list, in the second and in
  the first level are, in this order, the numbers given out so far (`Placed`). With user
  threads TLC finds both properties violated (section 4), so the hypothesis is needed.
- `SendNeverStalls`, with and without `EPOLLEXCLUSIVE`, assuming `User = {}`, and where
  `modifyEvent` has an effect that nobody calls `enableRecv` or that every `send` flushes:
  `StallInv` adds who will come back: if data is left, either the thread is still in a flush,
  or the writable event is asked for and will come (`Coming`): an edge is there, or in the
  report, or the kernel's buffer is full and the peer's reading makes one. With the flag the
  event is asked for all the time, and the edge that came before `_sendable` was cleared is
  what the thread has yet to handle. Without the second hypothesis TLC finds the stall of
  section 4.
- `SendConserves`, for any number of threads: the lists (wire, local list of each thread, two
  levels) share no buffer and lose none (`KeptInv`), through concurrent flushes and rollbacks.

`NetworkProofs`, about `UdpReceive` and five units of `MCNetwork`:

- `TypeCorrect`, `EachIsTaken`: `EachHasClosure` follows from `ClosureInv`: the pool's worker
  runs a closure exactly while it is in `recvWorkerThread`, and no closure is cancelled.
  `DeliveredInOrder`: `InOrder` follows from `OrderInv`: what is queued is younger than what
  was delivered, what the worker holds is in between.
- `AcceptSafe`: a connection that waits has an event or a thread that comes back for it.
  `AcceptApart`: each connection is in one place: waiting in the backlog, in one thread's
  hand, or handed on.
- `CastSafe`: `CastInv` follows `init` step by step (`CastReady`: what the socket has after
  each), and says that wire, batch and waiting list are in order and before one another.
- `SpeedSafe`: `RateAlone` says what the one thread that is in the counter knows at each of
  its loads and stores, as long as no two have met; `RateDivides`, that a divisor that was
  computed is not 0 whoever else is in it.
- `SocketsSafe`: `SocketRight` for the three of them side by side, which is what `MCNetwork`
  does with them.
- `NoticeSafe`: `Kept` needs that the dispatcher of an event is nobody's to remove unless all
  listeners added to it are known as raced (`CenterRight`), `NotAfter` that what is about to
  be copied was on since `emitEvent` began (`EmitRight`).
- `RingSafe`, assuming only that the size of a storage is a natural number (`RingAssumption`;
  the sizes of groups, with or without key items, are free). Its invariant `RingInv` follows
  an item from `write` to the readers. `Store`: the groups of a storage are together the last
  items up to some `m`, a key item only at the front of its group, and at most `MaxSize` of
  them; it is kept by `write`, by the cut of the oldest groups and by `clearCache`. `Told`: a
  dispatcher's storage has the items up to `m`, its readers got them one after the other, and
  the writes that wait in the tasks of its thread are `m + 1 .. e`, in this order, with `e`
  the last item of all while the ring has it; so a reader is never shown an item twice or
  after a gap, although the ring, the dispatchers and the readers learn of an item at
  different times. `Home` and `Members`: all of that is on one thread; a reader that was
  released stays in its set until the task that takes it out, or the next `write` finds it
  gone. `ReaderRight` counts the detach callbacks, `RingTypes` says that the tasks are those
  of `write`, `clearCache`, release and the end of the ring; and `readerCount` is the
  cardinality of the union of the sets. What the storage needs of its groups, one after the
  other (`FlattenSeq`: that its recursive function exists and is unique, and what it gives for
  a group more or less), is proved by induction on their number, which well-foundedness of `<`
  on `Nat` gives (`NatSetInduction`).
- `BroadcastSafe`: `BroadcastRight` for `NoticeCenter` and `RingBuffer` side by side.

`MCPeers`, about `TcpClient`, `UdpSessions`, `PollerEvents`, `Timer` and `Clock`:

- `LateIsHarmless` (`AttemptsApart`): `SockInv` says who owns each descriptor, which attempt
  the callback, the timer and epoll still hold, and what each of them will find reported.
- `AlwaysRetrying` (`RetryArmed`) and `ClientTypeCorrect`: `ClientInv` adds the client to it:
  a connection is lost only where a new one is on its way, also when `shutdown` takes the
  socket away in the middle of `onConnected`.
- `SessionsAgree` (`UdpSessionsSafe`), for any `MaxDatagram` and `MaxSession` in `Nat`: from
  `SessionsSafe` in `UdpSessions`. `RouteInv` follows a datagram and what is posted for it:
  each stays with its peer's session and that session's poller. `OnceInv`: it is in one place,
  a socket, a thread's hand or one posted closure, until it is handled.
- `PollerSafe` (`PollerRight`), assuming of the constants only what `PollerAssumption` says:
  finitely many descriptors, none of them 0, which stands for no descriptor, and units of time
  that are not nothing. Three inductive invariants, each checked with TLC first:
  `EventsInv`: a number is held by one watcher at a time (`HeldOnce`), and no posted closure
  adds a watcher after the one that ends it (`TasksRight`). As long as no number was used
  again while the loop still had it, kernel and map agree (`Agree`), a watcher that is to be
  added still holds its number (`AddsHeld`), and a function in the batch is that of the
  watcher the event was of, if there is one (`BatchRight`). Without that condition the
  invariant is false, as section 4 says of reused numbers.
  `TimerInv`: the next call of a timer is due no sooner than its beginning, one period for this
  call and one for each before it (`OnTime`, `Late`); a task that is waiting or in the round
  being worked off is the live one, or cancelled, or one that another `begin()` followed with
  no `end()` between them (`EndsRight`); and one that was begun is waiting or in the round
  unless it was cancelled or refused to go on, or was to be called once and has been
  (`Continues`).
  `ClockInv`: the thread's last loop and this one were at some times, with the clock set so and
  so often until then (`Looped`); what was counted is at most the first of these times and a
  second less one unit for each setting, and the difference that is judged is the time between
  the loops if the clock was not set between them. So a sound loop adds time that passed or,
  once per setting, less than a second.

`TcpSessions`:

- `SessionsSafe` and `SessionsTold`: `TcpSessionsSafe` and `ToldOrStray` are proved together, in
  `SessionsInv`: a server that is held is whole and was never used when it was gone
  (`WholeWhileHeld`, also inside an accept), and until an accept callback uses one that is gone
  (`ruined`) the rest holds, with a server given up at any moment. Its other parts: a connection
  that was not accepted has left no trace (`Fresh`); a session is made by the thread that
  accepts or by one closure on its poller, whose server waits for it (`Made`); all servers live
  while the main one does, and only living ones have a map or walk it (`Served`); one closure
  reports a shutdown (`Reported`); each of the three ways to be told (an error of the
  connection, the user's shutdown, the end of the server) is used once (`ToldThrice`); a posted
  erasure finds the session it is for, or its address is that of a session told twice
  (`Erased`).

`SqlPool`:

- `PoolSafe` (`SqlPoolRight`), for any `PoolSize` in `Nat` and any threads, `NoThread` not one
  of them and the worker not one of the users. `PoolInv`: an idle connection is in the list
  once and in nobody's hands, a lent one with one thread, and the thread that holds the flag
  is the only one at the list. `QueryInv`: a query is waiting, retried, with the worker or
  done.

Only model-checked:

- Liveness (`ClosuresTaken`, `TimerFires`, `CallsReturn`, `EventuallySent`, `PoolServes`,
  `TcpSessionsEnd`, `Recovers`, `Consumed`, and the liveness parts of the umbrella
  properties): it needs fairness and `ENABLED`, which the prover does not handle.
- What a loop or a recursive definition computes for every input (texts, addresses, digests,
  dates, options, packets against a concatenation): that is induction over data, which was
  done by hand for the groups of a ring (`FlatExists` to `FlatTail`) and nowhere else.
- `BuffersRight` and `ExecutorsRight`, most of which say what a fold over packets, bytes or
  records computes: the share of time a thread ran, the least of all loads, the concatenation
  that leaves.
- `TcpFacadeRight`, `AddressRight`, `SerialRight`, `ProgramRight` and `TlsRight`, conjunctions
  that mix invariants, action properties and liveness.

Theorems that would come next: the parts of `BuffersRight` that do not compute; `Accounted` of
`AsyncLog`.

## 6. Not modelled

- Poller: priorities and affinity of threads, the preference of `EventPollerPool` for the
  calling thread, `getExecutorDelay`.
- Sockets: `SO_SNDTIMEO`, the removal of the flush callback, a second `connect` on a socket
  that still holds buffers of the first, `BufferOffset`, the Windows build of `BufferSendMsg`.
- What memory does after it was used when it was gone or past its end (`ruined`, `overrun`), and
  what `BufferLikeString` does between an `assign` that threw and the next call that makes the
  content anew.
- Servers: the broadcast over the global `SessionMap`, which only reads it; the end of a
  `UdpServer` with sessions alive.
- Pools: `stop` called by a thread of the pool, which throws; `CountDownLatch`, used only
  inside the thread wrapper.
- Serial ports: synchronous reading, the DCB of Windows.
- Ring: the delegate, the size callback, `getInfoList`. Data base: what a connection does with
  MySQL. Log: the other channels and the layout of a line. TLS: the calls of OpenSSL on keys and
  certificates, the shutdown of a box. Addresses: options that only forward to `setsockopt`, the
  system's `inet_pton`, the texts of source addresses (section 4). Utilities: the rounds of MD5
  and SHA1, names of threads and executables, the interactive help of `CMD`.
- System glue (`uv_errno`, macros, template helpers, `strptime`, the background mode of iOS):
  tables and wrappers without a state of their own. The programs under `src/example` and
  `src/tests` only call the library.

Data races on plain fields are modelled as atomic reads and writes whose interleavings the
modules contain (`_exit_flag`, `Speed`, `listen_to_write_`); message contents, layout and
logging are left out everywhere but where a property is about them.
