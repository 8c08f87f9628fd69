----------------------------- MODULE ThreadPool -----------------------------
(***************************************************************************)
(* src/Thread/ThreadPool.h over TaskQueue.h and semaphore.h: a list of     *)
(* closures under a mutex and a counting semaphore.  A closure is pushed   *)
(* and then posts one permit; stop() posts one permit per thread and joins *)
(* them.  A worker that holds a permit takes the front closure, and leaves *)
(* for good when there is none: a permit does not say what it is for.      *)
(***************************************************************************)
EXTENDS Functions, Sequences, FiniteSets, Integers

CONSTANTS Client,     \* threads outside the pool that call async and async_first
          Worker,     \* _thread_num places for threads of the pool
          Task,       \* closures, each handed over once
          Urgent,     \* those handed over with async_first
          MaxStops,   \* bound: calls of stop()
          StopIdle    \* whether stop() is also called on a pool without threads

ASSUME ConstantsAssumption ==
  /\ IsFiniteSet(Client) /\ IsFiniteSet(Worker)
  /\ Client \cap Worker = {}
  /\ Urgent \subseteq Task
  /\ MaxStops \in Nat
  /\ StopIdle \in BOOLEAN

VARIABLES
  queue,      \* _queue, guarded by _mutex
  count,      \* _count of the semaphore
  posting,    \* threads between the push of a closure and the post
  worker,     \* where the thread in each place of _thread_group stands
  control,    \* the thread that calls start() and stop()
  cancelled,  \* closures whose strong reference was dropped by cancel()
  submitted,  \* closures that were handed over
  runs,       \* runs[t]: how many times the body of t was started
  stops,      \* calls of stop() so far
  due         \* closures that were queued when the last stop() was called

queueVars == <<queue, count, posting>>
ghostVars == <<submitted, runs, stops, due>>
vars == <<queueVars, worker, control, cancelled, ghostVars>>

Thread == Client \cup Worker

TypeOK ==
  /\ queue \in Seq(Task)
  /\ count \in Nat
  /\ posting \subseteq Thread
  /\ worker \in [Worker -> {"none", "wait", "take", "run", "gone"}]
  /\ control \in {"idle", "join"}
  /\ cancelled \subseteq Task /\ submitted \subseteq Task /\ due \subseteq Task
  /\ runs \in [Task -> Nat]
  /\ stops \in 0 .. MaxStops

\* auto_run = false; a pool with auto_run starts at once.
Init ==
  /\ queue = <<>> /\ count = 0 /\ posting = {}
  /\ worker = [w \in Worker |-> "none"]
  /\ control = "idle"
  /\ cancelled = {} /\ submitted = {} /\ due = {}
  /\ runs = [t \in Task |-> 0]
  /\ stops = 0

-----------------------------------------------------------------------------
Free(th) == th \notin posting /\ (th \in Worker => worker[th] = "run")

\* push_task and push_task_first, the locked part.
Async(th, t) ==
  /\ Free(th) /\ t \notin submitted
  /\ queue' = IF t \in Urgent THEN <<t>> \o queue ELSE Append(queue, t)
  /\ posting' = posting \cup {th}
  /\ submitted' = submitted \cup {t}
  /\ UNCHANGED <<count, worker, control, cancelled, runs, stops, due>>

\* Fault: the semaphore is not posted.
PostNothing(th) ==
  /\ th \in posting
  /\ posting' = posting \ {th}
  /\ UNCHANGED <<queue, count, worker, control, cancelled, ghostVars>>

\* _sem.post() of the push.
Post(th) ==
  /\ th \in posting
  /\ posting' = posting \ {th}
  /\ count' = count + 1
  /\ UNCHANGED <<queue, worker, control, cancelled, ghostVars>>

\* async with may_sync on a thread of the pool: executed on the spot.
Inline(w, t) ==
  /\ Free(w) /\ t \notin submitted
  /\ submitted' = submitted \cup {t}
  /\ runs' = [runs EXCEPT ![t] = @ + 1]
  /\ UNCHANGED <<queueVars, worker, control, cancelled, stops, due>>

Cancel(t) ==
  /\ t \in submitted \ cancelled
  /\ cancelled' = cancelled \cup {t}
  /\ UNCHANGED <<queueVars, worker, control, ghostVars>>

-----------------------------------------------------------------------------
(* run(): the threads of the pool.                                         *)

\* _sem.wait()
WaitPermit(w) ==
  /\ worker[w] = "wait" /\ count > 0
  /\ count' = count - 1
  /\ worker' = [worker EXCEPT ![w] = "take"]
  /\ UNCHANGED <<queue, posting, control, cancelled, ghostVars>>

\* Fault: the closure is left in the queue.
GetTaskKept(w) ==
  /\ worker[w] = "take" /\ queue # <<>>
  /\ worker' = [worker EXCEPT ![w] = "run"]
  /\ runs' = [runs EXCEPT ![Head(queue)] = @ + 1]
  /\ UNCHANGED <<queueVars, control, cancelled, submitted, stops, due>>

\* get_task after the wait, and (*task)(), which does nothing once cancelled.
GetTask(w) ==
  /\ worker[w] = "take" /\ queue # <<>>
  /\ queue' = Tail(queue)
  /\ IF Head(queue) \in cancelled
     THEN worker' = [worker EXCEPT ![w] = "wait"] /\ UNCHANGED runs
     ELSE /\ worker' = [worker EXCEPT ![w] = "run"]
          /\ runs' = [runs EXCEPT ![Head(queue)] = @ + 1]
  /\ UNCHANGED <<count, posting, control, cancelled, submitted, stops, due>>

\* The closure returns or throws.
Finish(w) ==
  /\ worker[w] = "run" /\ w \notin posting
  /\ worker' = [worker EXCEPT ![w] = "wait"]
  /\ UNCHANGED <<queueVars, control, cancelled, ghostVars>>

\* Fault: the thread goes on waiting.
LeaveNot(w) ==
  /\ worker[w] = "take" /\ queue = <<>>
  /\ worker' = [worker EXCEPT ![w] = "wait"]
  /\ UNCHANGED <<queueVars, control, cancelled, ghostVars>>

\* get_task found the queue empty: the thread ends.
Leave(w) ==
  /\ worker[w] = "take" /\ queue = <<>>
  /\ worker' = [worker EXCEPT ![w] = "gone"]
  /\ UNCHANGED <<queueVars, control, cancelled, ghostVars>>

-----------------------------------------------------------------------------
(* start() and stop(), which the destructor calls too.                     *)

\* Threads that ended still count in _thread_group until they are joined.
Start ==
  /\ control = "idle"
  /\ worker' = [w \in Worker |-> IF worker[w] = "none" THEN "wait" ELSE worker[w]]
  /\ UNCHANGED <<queueVars, control, cancelled, ghostVars>>

\* Fault: one permit too many.
StopTwice ==
  /\ control = "idle" /\ stops < MaxStops
  /\ StopIdle \/ \A w \in Worker : worker[w] # "none"
  /\ count' = count + Cardinality(Worker) + 1
  /\ control' = "join"
  /\ stops' = stops + 1 /\ due' = Range(queue)
  /\ UNCHANGED <<queue, posting, worker, cancelled, submitted, runs>>

\* shutdown(): as many permits as threads were asked for, whether they run or not.
Stop ==
  /\ control = "idle" /\ stops < MaxStops
  /\ StopIdle \/ \A w \in Worker : worker[w] # "none"
  /\ count' = count + Cardinality(Worker)
  /\ control' = "join"
  /\ stops' = stops + 1 /\ due' = Range(queue)
  /\ UNCHANGED <<queue, posting, worker, cancelled, submitted, runs>>

\* Fault: the threads are not waited for.
JoinNothing ==
  /\ control = "join"
  /\ control' = "idle"
  /\ worker' = [w \in Worker |-> "none"]
  /\ UNCHANGED <<queueVars, cancelled, ghostVars>>

\* wait(): join_all, then _threads.clear().
Join ==
  /\ control = "join" /\ \A w \in Worker : worker[w] \in {"none", "gone"}
  /\ control' = "idle"
  /\ worker' = [w \in Worker |-> "none"]
  /\ UNCHANGED <<queueVars, cancelled, ghostVars>>

-----------------------------------------------------------------------------
WorkerStep(w) == WaitPermit(w) \/ GetTask(w) \/ Finish(w) \/ Leave(w) \/ Post(w)

Next ==
  \/ \E th \in Thread, t \in Task : Async(th, t)
  \/ \E w \in Worker, t \in Task : Inline(w, t)
  \/ \E t \in Task : Cancel(t)
  \/ \E c \in Client : Post(c)
  \/ \E w \in Worker : WorkerStep(w)
  \/ Start \/ Stop \/ Join

Spec == Init /\ [][Next]_vars

\* The threads run and the closures return.
Fairness ==
  /\ \A w \in Worker : WF_vars(WorkerStep(w))
  /\ \A c \in Client : WF_vars(Post(c))
  /\ WF_vars(Join)

FairSpec == Spec /\ Fairness
-----------------------------------------------------------------------------
(* Properties.                                                             *)

\* Every queued closure has a permit that is on its way to the semaphore, in it or with
\* a worker: none is left behind sleeping threads (push_task pushes before it posts).
PermitsCover ==
  Len(queue) <= count + Cardinality(posting)
                  + Cardinality({w \in Worker : worker[w] = "take"})

\* No thread leaves a pool that is not being stopped: permits for closures and for the
\* end are not told apart, and yet they balance when stop() finds its threads running.
NoEarlyLeave == control = "idle" => \A w \in Worker : worker[w] # "gone"

\* stop() returns when the closures queued at its call were taken: the threads leave
\* only from an empty queue, whichever permit they hold.
StopDrains ==
  [][control = "join" /\ control' = "idle" => due \cap Range(queue) = {}]_vars

\* The pool keeps what TaskExecutorInterface promises about order, loss and duplicates,
\* for any number of threads.
Executor == INSTANCE TaskExecutor WITH Internal <- {}
ImplementsTaskExecutor == Executor!Spec

\* A closure that is queued in a pool that runs is taken, also if stop() is called then.
Running == control = "idle" /\ \A w \in Worker : worker[w] # "none"
TasksTaken == \A t \in Task : (t \in Range(queue) /\ Running) ~> t \notin Range(queue)

\* stop() returns.
StopReturns == control = "join" ~> control = "idle"

\* A running pool serves its queue and a stopping one ends.
PoolServes == TasksTaken /\ StopReturns
=============================================================================
