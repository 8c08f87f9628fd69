----------------------------- MODULE EventPoller -----------------------------
(***************************************************************************)
(* src/Poller/EventPoller.cpp (epoll build): the thread that runs every    *)
(* callback of the library.  Other threads hand it closures through a      *)
(* locked list and wake it through a pipe; it sleeps in epoll_wait until   *)
(* the pipe is readable, another descriptor is ready or the next delayed   *)
(* task is due; the destructor stops it with a closure that throws         *)
(* ExitException and then runs what is left in the list itself.            *)
(*                                                                         *)
(* One step is what a thread does between two points at which another      *)
(* thread's step can matter: _mtx_task is held for one step only, and the  *)
(* push of a closure and the write to the pipe are two steps.              *)
(***************************************************************************)
EXTENDS SequencesExt, Integers

CONSTANTS Client,     \* threads other than the loop thread that hold a poller Ptr
          Task,       \* closures for async, async_first and sync, each handed over once
          Urgent,     \* those handed to async_first and sync_first
          Timer,      \* DelayTask objects, each created by one doDelayTask call
          Delay,      \* delays in ms, of doDelayTask and returned by a delayed task
          MaxTime,    \* bound: the last value of the millisecond clock
          IntMax,     \* largest C int; epoll_wait takes its timeout as an int
          PipeCap,    \* bytes the wake-up pipe holds
          Loop,       \* the thread whose id is _loop_thread_id
          Exit,       \* the closure of shutdown(), it throws ExitException
          Io,         \* a callback of some other descriptor
          None

ASSUME ConstantsAssumption ==
  /\ Urgent \subseteq Task
  /\ Delay \subseteq Nat
  /\ MaxTime \in Nat
  /\ IntMax \in Nat \ {0}
  /\ PipeCap \in Nat \ {0}
  /\ Loop \notin Client
  /\ Task \cap Timer = {}
  /\ Exit \notin Task \cup Timer
  /\ Io \notin Task \cup Timer
  /\ None \notin Task \cup Timer \cup {Io}

VARIABLES
  list_task,          \* _list_task, guarded by _mtx_task
  list_swap,          \* onPipeEvent's _list_swap, what is left of it
  pipe,               \* bytes in _pipe
  edge,               \* the pipe is on epoll's ready list (edge triggered)
  hand,               \* "write": the thread has pushed and not yet written the pipe
  waiting,            \* the task a thread in sync() waits for
  exit_flag,          \* _exit_flag
  loop,               \* where the thread whose id is _loop_thread_id stands
  current,            \* the closure, timer or callback whose body runs
  owner,              \* the poller object: "alive" or a point in ~EventPoller
  now,                \* getCurrentMillisecond()
  now_time,           \* the clock as getMinDelay last read it
  wake_at,            \* when epoll_wait times out, Never for -1
  delay_task_map,     \* _delay_task_map, keyed by time_line
  task_copy,          \* flushDelayTask's task_copy
  time_line,          \* key of a delayed task in whichever map holds it
  submitted,          \* closures and timers that were handed over
  cancelled,          \* those whose strong reference was dropped by cancel()
  runs                \* runs[t]: how many times the body of t was started

pollVars  == <<list_task, list_swap, pipe, edge, hand, waiting>>
timeVars  == <<now, now_time, wake_at, delay_task_map, task_copy, time_line>>
ghostVars == <<submitted, cancelled, runs>>
vars == <<pollVars, exit_flag, loop, current, owner, timeVars, ghostVars>>

Never   == -1
Time    == 0 .. MaxTime
Closure == Task \cup Timer \cup {Exit}
Thread  == Client \cup {Loop}

TypeOK ==
  /\ list_task \in Seq(Closure)
  /\ list_swap \in Seq(Closure)
  /\ pipe \in 0 .. PipeCap
  /\ edge \in BOOLEAN
  /\ hand \in [Thread -> {"idle", "write"}]
  /\ waiting \in [Client -> Task \cup {None}]
  /\ exit_flag \in BOOLEAN
  /\ loop \in {"start", "loop", "flush", "sleep", "drain", "swap", "run", "body", "exited"}
  /\ current \in Task \cup Timer \cup {Io, None}
  /\ owner \in {"alive", "write", "join", "flush", "dead"}
  /\ now \in Time
  /\ now_time \in Time
  /\ wake_at \in Nat \cup {Never}
  /\ delay_task_map \subseteq Timer
  /\ task_copy \subseteq Timer
  /\ time_line \in [Timer -> Time]
  /\ submitted \subseteq Task \cup Timer
  /\ cancelled \subseteq Task \cup Timer
  /\ runs \in [Task -> Nat]

Init ==
  /\ list_task = <<>> /\ list_swap = <<>>
  /\ pipe = 0 /\ edge = FALSE
  /\ hand = [c \in Thread |-> "idle"]
  /\ waiting = [c \in Client |-> None]
  /\ exit_flag \in BOOLEAN              \* not initialized by the constructor
  /\ loop = "start" /\ current = None /\ owner = "alive"
  /\ now = 0 /\ now_time = 0 /\ wake_at = Never
  /\ delay_task_map = {} /\ task_copy = {}
  /\ time_line = [d \in Timer |-> 0]
  /\ submitted = {} /\ cancelled = {}
  /\ runs = [t \in Task |-> 0]

-----------------------------------------------------------------------------
(* Handing a closure to the loop: async_l and what calls it.               *)

\* What async_l gets with first = true: doDelayTask and shutdown use it too.
First == Urgent \cup Timer \cup {Exit}

\* Fault: everything is inserted at the front.
PostFront(x) == list_task' = <<x>> \o list_task

\* The locked part of async_l: the closure is in the list, the pipe not yet written.
Post(x) ==
  list_task' = IF x \in First THEN <<x>> \o list_task ELSE Append(list_task, x)

\* Fault: the capacity of the pipe is forgotten.
WakeUpUnchecked == pipe' = pipe + 1 /\ edge' = TRUE

\* _pipe.write("", 1): a full pipe refuses the byte (the descriptor is non-blocking)
\* and is then readable anyway.
WakeUp ==
  IF pipe < PipeCap THEN pipe' = pipe + 1 /\ edge' = TRUE ELSE UNCHANGED <<pipe, edge>>

WritePipe(c) ==
  /\ hand[c] = "write"
  /\ hand' = [hand EXCEPT ![c] = "idle"]
  /\ WakeUp
  /\ UNCHANGED <<list_task, list_swap, waiting, exit_flag, loop, current, owner,
                 timeVars, ghostVars>>

\* A thread outside the library is between two calls and still holds its Ptr.
Free(c) == owner = "alive" /\ hand[c] = "idle" /\ waiting[c] = None

\* async, async_first, sync and sync_first from another thread.
Async(c, t, sync) ==
  /\ Free(c) /\ t \notin submitted
  /\ Post(t)
  /\ hand' = [hand EXCEPT ![c] = "write"]
  /\ waiting' = IF sync THEN [waiting EXCEPT ![c] = t] ELSE waiting
  /\ submitted' = submitted \cup {t}
  /\ UNCHANGED <<list_swap, pipe, edge, exit_flag, loop, current, owner, timeVars,
                 cancelled, runs>>

\* doDelayTask from another thread: the deadline is fixed now, the insertion is posted.
DoDelayTask(c, d, ms) ==
  /\ Free(c) /\ d \notin submitted
  /\ now + ms <= MaxTime
  /\ time_line' = [time_line EXCEPT ![d] = now + ms]
  /\ Post(d)
  /\ hand' = [hand EXCEPT ![c] = "write"]
  /\ submitted' = submitted \cup {d}
  /\ UNCHANGED <<list_swap, pipe, edge, waiting, exit_flag, loop, current, owner, now,
                 now_time, wake_at, delay_task_map, task_copy, cancelled, runs>>

\* TaskCancelableImp::cancel by whoever holds the tag; the closures of sync have none.
Cancel(x) ==
  /\ x \in submitted \ cancelled
  /\ owner = "alive" \/ loop = "body"
  /\ \A c \in Client : waiting[c] # x
  /\ cancelled' = cancelled \cup {x}
  /\ UNCHANGED <<pollVars, exit_flag, loop, current, owner, timeVars, submitted, runs>>

-----------------------------------------------------------------------------
(* The loop thread: runLoop, getMinDelay, flushDelayTask.                  *)

RunLoop ==
  /\ loop = "start"
  /\ loop' = "loop" /\ exit_flag' = FALSE
  /\ UNCHANGED <<pollVars, current, owner, timeVars, ghostVars>>

LeaveLoop ==
  /\ loop = "loop" /\ exit_flag
  /\ loop' = "exited"
  /\ UNCHANGED <<pollVars, exit_flag, current, owner, timeVars, ghostVars>>

\* epoll_wait(..., minDelay ? minDelay : -1): the uint64_t is narrowed to an int, a
\* negative timeout is forever.
EpollWait(minDelay) ==
  LET ms == minDelay % (2 * (IntMax + 1))
  IN  /\ loop' = "sleep"
      /\ wake_at' = IF minDelay = 0 \/ ms > IntMax THEN Never ELSE now + ms

\* First key of a map of delayed tasks.
FirstKey(map) == CHOOSE k \in {time_line[d] : d \in map} : \A d \in map : k <= time_line[d]

\* Fault: a task that is due right now is not flushed (> becomes >=).
GetMinDelayLate ==
  /\ loop = "loop" /\ ~exit_flag
  /\ now_time' = now
  /\ IF delay_task_map = {} \/ FirstKey(delay_task_map) >= now
     THEN /\ EpollWait(IF delay_task_map = {} THEN 0 ELSE FirstKey(delay_task_map) - now)
          /\ UNCHANGED <<delay_task_map, task_copy>>
     ELSE /\ task_copy' = delay_task_map /\ delay_task_map' = {}
          /\ loop' = "flush"
          /\ UNCHANGED wake_at
  /\ UNCHANGED <<pollVars, exit_flag, current, owner, now, time_line, ghostVars>>

GetMinDelay ==
  /\ loop = "loop" /\ ~exit_flag
  /\ \/ /\ delay_task_map = {}
        /\ EpollWait(0)
        /\ UNCHANGED <<now_time, delay_task_map, task_copy>>
     \/ /\ delay_task_map # {} /\ FirstKey(delay_task_map) > now
        /\ now_time' = now
        /\ EpollWait(FirstKey(delay_task_map) - now)
        /\ UNCHANGED <<delay_task_map, task_copy>>
     \/ /\ delay_task_map # {} /\ FirstKey(delay_task_map) <= now
        /\ now_time' = now
        /\ task_copy' = delay_task_map /\ delay_task_map' = {}
        /\ loop' = "flush"
        /\ UNCHANGED wake_at
  /\ UNCHANGED <<pollVars, exit_flag, current, owner, now, time_line, ghostVars>>

\* Fault: the cancelled tag is not looked at.
FlushDueCancelled(d) ==
  /\ loop = "flush"
  /\ d \in task_copy /\ time_line[d] <= now_time /\ time_line[d] = FirstKey(task_copy)
  /\ task_copy' = task_copy \ {d}
  /\ loop' = "body" /\ current' = d
  /\ UNCHANGED <<pollVars, exit_flag, owner, now, now_time, wake_at, delay_task_map,
                 time_line, ghostVars>>

\* flushDelayTask, one due task: a cancelled one returns 0 and is dropped.
FlushDue(d) ==
  /\ loop = "flush"
  /\ d \in task_copy /\ time_line[d] <= now_time /\ time_line[d] = FirstKey(task_copy)
  /\ task_copy' = task_copy \ {d}
  /\ IF d \in cancelled THEN UNCHANGED <<loop, current>>
                        ELSE loop' = "body" /\ current' = d
  /\ UNCHANGED <<pollVars, exit_flag, owner, now, now_time, wake_at, delay_task_map,
                 time_line, ghostVars>>

\* Fault: the timeout is computed before the maps are merged.
FlushDoneUnmerged ==
  /\ loop = "flush"
  /\ \A d \in task_copy : time_line[d] > now_time
  /\ EpollWait(IF task_copy = {} THEN 0 ELSE FirstKey(task_copy) - now_time)
  /\ delay_task_map' = task_copy \cup delay_task_map /\ task_copy' = {}
  /\ UNCHANGED <<pollVars, exit_flag, current, owner, now, now_time, time_line, ghostVars>>

\* flushDelayTask, nothing due is left: merge the maps, sleep until the first key.
FlushDone ==
  /\ loop = "flush"
  /\ \A d \in task_copy : time_line[d] > now_time
  /\ LET rest == task_copy \cup delay_task_map
     IN  /\ delay_task_map' = rest
         /\ EpollWait(IF rest = {} THEN 0 ELSE FirstKey(rest) - now_time)
  /\ task_copy' = {}
  /\ UNCHANGED <<pollVars, exit_flag, current, owner, now, now_time, time_line, ghostVars>>

\* Fault: the edge-triggered pipe is not read.
EpollPipeUndrained ==
  /\ loop = "sleep" /\ edge /\ pipe > 0
  /\ loop' = "swap" /\ edge' = FALSE
  /\ UNCHANGED <<list_task, list_swap, pipe, hand, waiting, exit_flag, current, owner,
                 timeVars, ghostVars>>

EpollPipe ==
  /\ loop = "sleep" /\ edge /\ pipe > 0
  /\ loop' = "drain" /\ edge' = FALSE
  /\ UNCHANGED <<list_task, list_swap, pipe, hand, waiting, exit_flag, current, owner,
                 timeVars, ghostVars>>

\* The last clock value stands for every later one.
EpollTimeout ==
  /\ loop = "sleep" /\ wake_at # Never
  /\ now >= wake_at \/ now = MaxTime
  /\ loop' = "loop"
  /\ UNCHANGED <<pollVars, exit_flag, current, owner, timeVars, ghostVars>>

\* Another descriptor is ready: its callback runs on this thread.
EpollOther ==
  /\ loop = "sleep"
  /\ loop' = "body" /\ current' = Io
  /\ UNCHANGED <<pollVars, exit_flag, owner, timeVars, ghostVars>>

-----------------------------------------------------------------------------
(* onPipeEvent, on the loop thread or, at the end, in the destructor.      *)

Drain ==
  /\ loop = "drain"
  /\ loop' = "swap" /\ pipe' = 0
  /\ UNCHANGED <<list_task, list_swap, edge, hand, waiting, exit_flag, current, owner,
                 timeVars, ghostVars>>

\* Fault: the list is copied instead of swapped.
SwapListCopied ==
  /\ loop = "swap"
  /\ loop' = "run" /\ list_swap' = list_task
  /\ UNCHANGED <<list_task, pipe, edge, hand, waiting, exit_flag, current, owner, timeVars,
                 ghostVars>>

SwapList ==
  /\ loop = "swap"
  /\ loop' = "run" /\ list_swap' = list_task /\ list_task' = <<>>
  /\ UNCHANGED <<pipe, edge, hand, waiting, exit_flag, current, owner, timeVars, ghostVars>>

\* (*task)() for the next closure of the swapped list.
RunNext ==
  /\ loop = "run" /\ list_swap # <<>>
  /\ LET x == Head(list_swap)
     IN  \/ /\ x = Exit
            /\ exit_flag' = TRUE
            /\ UNCHANGED <<loop, current, delay_task_map, runs>>
         \/ /\ x \in Timer
            /\ delay_task_map' = delay_task_map \cup {x}
            /\ UNCHANGED <<exit_flag, loop, current, runs>>
         \/ /\ x \in Task \cap cancelled
            /\ UNCHANGED <<exit_flag, loop, current, delay_task_map, runs>>
         \/ /\ x \in Task \ cancelled
            /\ loop' = "body" /\ current' = x
            /\ runs' = [runs EXCEPT ![x] = @ + 1]
            /\ UNCHANGED <<exit_flag, delay_task_map>>
  /\ list_swap' = Tail(list_swap)
  /\ UNCHANGED <<list_task, pipe, edge, hand, waiting, owner, now, now_time, wake_at,
                 task_copy, time_line, submitted, cancelled>>

\* The list is done: back to the loop, possibly over a callback of the same epoll
\* batch, or out of the destructor.
RunDone ==
  /\ loop = "run" /\ list_swap = <<>>
  /\ IF owner = "flush"
     THEN loop' = "exited" /\ owner' = "dead" /\ UNCHANGED current
     ELSE /\ \/ loop' = "loop" /\ UNCHANGED current
             \/ loop' = "body" /\ current' = Io
          /\ UNCHANGED owner
  /\ UNCHANGED <<pollVars, exit_flag, timeVars, ghostVars>>

-----------------------------------------------------------------------------
(* What the body of a closure, timer or callback may do on the loop thread. *)

InBody == loop = "body" /\ hand[Loop] = "idle"

\* async with may_sync, or sync: executed on the spot.
AsyncInline(t) ==
  /\ InBody /\ t \notin submitted
  /\ submitted' = submitted \cup {t}
  /\ runs' = [runs EXCEPT ![t] = @ + 1]
  /\ UNCHANGED <<pollVars, exit_flag, loop, current, owner, timeVars, cancelled>>

\* async or async_first with may_sync = false.
AsyncLoop(t) ==
  /\ InBody /\ t \notin submitted
  /\ Post(t)
  /\ hand' = [hand EXCEPT ![Loop] = "write"]
  /\ submitted' = submitted \cup {t}
  /\ UNCHANGED <<list_swap, pipe, edge, waiting, exit_flag, loop, current, owner, timeVars,
                 cancelled, runs>>

\* doDelayTask: its async_first may run at once, so the map changes here.
DelayInline(d, ms) ==
  /\ InBody /\ d \notin submitted
  /\ now + ms <= MaxTime
  /\ time_line' = [time_line EXCEPT ![d] = now + ms]
  /\ delay_task_map' = delay_task_map \cup {d}
  /\ submitted' = submitted \cup {d}
  /\ UNCHANGED <<pollVars, exit_flag, loop, current, owner, now, now_time, wake_at,
                 task_copy, cancelled, runs>>

\* Fault: the semaphore of sync is not posted.
BodyEndSilent ==
  /\ InBody /\ current \notin Timer
  /\ loop' = IF current = Io THEN "loop" ELSE "run"
  /\ current' = None
  /\ UNCHANGED <<pollVars, exit_flag, owner, timeVars, ghostVars>>

\* A task or callback returns or throws; the end of a sync closure posts its semaphore.
BodyEnd ==
  /\ InBody /\ current \notin Timer
  /\ loop' = IF current = Io THEN "loop" ELSE "run"
  /\ waiting' = [c \in Client |-> IF waiting[c] = current THEN None ELSE waiting[c]]
  /\ current' = None
  /\ UNCHANGED <<list_task, list_swap, pipe, edge, hand, exit_flag, owner, timeVars, ghostVars>>

\* A delayed task returns 0 or throws and is gone ...
TimerEnd ==
  /\ InBody /\ current \in Timer
  /\ loop' = "flush" /\ current' = None
  /\ UNCHANGED <<pollVars, exit_flag, owner, timeVars, ghostVars>>

\* ... or returns its next delay, counted from the time the flush began.
TimerAgain(ms) ==
  /\ InBody /\ current \in Timer
  /\ ms # 0 /\ ms + now_time <= MaxTime
  /\ time_line' = [time_line EXCEPT ![current] = ms + now_time]
  /\ delay_task_map' = delay_task_map \cup {current}
  /\ loop' = "flush" /\ current' = None
  /\ UNCHANGED <<pollVars, exit_flag, owner, now, now_time, wake_at, task_copy, ghostVars>>

-----------------------------------------------------------------------------
(* ~EventPoller, run by the thread that drops the last Ptr.                *)

Shutdown ==
  /\ owner = "alive" /\ loop # "start"
  /\ \A c \in Client : Free(c)
  /\ Post(Exit)
  /\ owner' = "write"
  /\ UNCHANGED <<list_swap, pipe, edge, hand, waiting, exit_flag, loop, current, timeVars,
                 ghostVars>>

ShutdownWrite ==
  /\ owner = "write"
  /\ owner' = "join"
  /\ WakeUp
  /\ UNCHANGED <<list_task, list_swap, hand, waiting, exit_flag, loop, current, timeVars,
                 ghostVars>>

\* Fault: the destructor does not run the leftovers.
JoinedOnly ==
  /\ owner = "join" /\ loop = "exited"
  /\ owner' = "dead"
  /\ UNCHANGED <<pollVars, exit_flag, loop, current, timeVars, ghostVars>>

\* join() has returned: this thread takes over _loop_thread_id and the leftovers.
Joined ==
  /\ owner = "join" /\ loop = "exited"
  /\ owner' = "flush" /\ loop' = "drain"
  /\ UNCHANGED <<pollVars, exit_flag, current, timeVars, ghostVars>>

Destroyed == owner = "dead" /\ UNCHANGED vars

Tick ==
  /\ now < MaxTime
  /\ now' = now + 1
  /\ UNCHANGED <<pollVars, exit_flag, loop, current, owner, now_time, wake_at,
                 delay_task_map, task_copy, time_line, ghostVars>>

-----------------------------------------------------------------------------
ClientStep ==
  \/ \E c \in Client, t \in Task, sync \in BOOLEAN : Async(c, t, sync)
  \/ \E c \in Client, d \in Timer, ms \in Delay : DoDelayTask(c, d, ms)
  \/ \E c \in Client : WritePipe(c)
  \/ \E x \in Task \cup Timer : Cancel(x)

BodyStep ==
  \/ \E t \in Task : AsyncInline(t) \/ AsyncLoop(t)
  \/ \E d \in Timer, ms \in Delay : DelayInline(d, ms)

\* What the loop thread goes on with by itself.
LoopStep ==
  \/ RunLoop \/ LeaveLoop \/ GetMinDelay \/ FlushDone \/ EpollPipe \/ EpollTimeout
  \/ \E d \in Timer : FlushDue(d)
  \/ Drain \/ SwapList \/ RunNext \/ RunDone
  \/ WritePipe(Loop) \/ BodyEnd \/ TimerEnd
  \/ \E ms \in Delay : TimerAgain(ms)

OwnerStep == ShutdownWrite \/ Joined

Next ==
  \/ ClientStep \/ BodyStep \/ LoopStep \/ EpollOther
  \/ Shutdown \/ OwnerStep \/ Destroyed \/ Tick

Spec == Init /\ [][Next]_vars

\* The operating system schedules every thread, callbacks return, time passes, and
\* epoll_wait reports a readable pipe in every batch it returns.
Fairness ==
  /\ WF_vars(LoopStep)
  /\ SF_vars(EpollPipe)
  /\ \A c \in Client : WF_vars(WritePipe(c))
  /\ WF_vars(OwnerStep)
  /\ WF_vars(Tick)

FairSpec == Spec /\ Fairness
-----------------------------------------------------------------------------
(* Properties.                                                             *)

\* No lost wake-up: while closures wait in the list, somebody still has to write the
\* pipe, or the pipe is readable and epoll will report it, or the loop thread is on
\* its way to the list (async_l pushes before it writes, onPipeEvent drains before it
\* swaps).
NoLostWakeup ==
  list_task # <<>> =>
     \/ \E c \in Thread : hand[c] = "write"
     \/ owner = "write"
     \/ edge /\ pipe > 0
     \/ loop \in {"drain", "swap"}
     \/ owner \in {"flush", "dead"}

\* No oversleep: a sleeping loop with delayed tasks has a finite timeout, and wakes
\* for the first of them no later than it was late when it read the clock
\* (getMinDelay and flushDelayTask compute the timeout epoll_wait gets).
NoOversleep ==
  loop = "sleep" =>
     \A d \in delay_task_map :
        wake_at # Never /\ wake_at + now_time <= time_line[d] + now

\* A closure handed over once is started at most once, by whichever of the loop, an
\* inline call or the destructor's last onPipeEvent gets to it.
AtMostOnce == \A t \in Task : runs[t] <= 1

\* A delayed task starts only when its deadline has passed and only if it is not
\* cancelled: not after end() of its Timer, not before the delay it last returned.
TimersKeepTime ==
  [][\A d \in Timer :
        current # d /\ current' = d => time_line[d] <= now /\ d \notin cancelled]_vars

\* The poller keeps what TaskExecutorInterface promises about order, loss and duplicates.
Executor == INSTANCE TaskExecutor WITH
              queue <- list_swap \o list_task, Internal <- Timer \cup {Exit},
              Urgent <- First
ImplementsTaskExecutor == Executor!Spec

\* A closure in the list before the destructor's last pass leaves it: it was executed
\* or cancelled (the loop is woken for it; the destructor flushes the leftovers).
ClosuresTaken ==
  \A t \in Task :
     (t \in ToSet(list_task) /\ owner # "flush" /\ owner # "dead")
        ~> t \notin ToSet(list_task \o list_swap)

\* sync() returns.
SyncReturns == \A c \in Client : waiting[c] # None ~> waiting[c] = None

\* An inserted delayed task is executed unless it is cancelled or the poller goes away.
TimerFires ==
  \A d \in Timer :
     d \in delay_task_map \cup task_copy
        ~> (current = d \/ d \in cancelled \/ owner # "alive")

\* The destructor of the poller returns.
ShutdownReturns == owner = "write" ~> owner = "dead"

\* Whoever waits for the poller, in sync() or in its destructor, gets an answer.
CallsReturn == SyncReturns /\ ShutdownReturns

\* For TLC: nothing tells these threads and closures apart (safety runs only).
Symmetric == Permutations(Client) \cup Permutations(Task \ Urgent)
=============================================================================
