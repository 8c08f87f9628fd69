-------------------------- MODULE ThreadPoolProofs --------------------------
(* Theorems about ThreadPool, for any number of threads, closures and stops. *)
EXTENDS ThreadPool, SequenceTheorems, FiniteSetTheorems, TLAPS

\* Threads that hold a permit, and threads that stop() still has to wait for.
Taking  == {w \in Worker : worker[w] = "take"}
Staying == {w \in Worker : worker[w] # "gone"}

\* A closure put in front of the queue, or at its end, leaves a sequence of closures.
LEMMA QueueType ==
  ASSUME NEW t \in Task, queue \in Seq(Task)
  PROVE  /\ <<t>> \o queue \in Seq(Task) /\ Len(<<t>> \o queue) = Len(queue) + 1
         /\ Append(queue, t) \in Seq(Task) /\ Len(Append(queue, t)) = Len(queue) + 1
<1>1. <<t>> \in Seq(Task) /\ Len(<<t>>) = 1
  OBVIOUS
<1>2. <<t>> \o queue \in Seq(Task) /\ Len(<<t>> \o queue) = Len(queue) + 1
  BY <1>1, ConcatProperties
<1> QED
  BY <1>2, AppendProperties

\* The workers can be counted.
LEMMA WorkerCount == IsFiniteSet(Worker) /\ Cardinality(Worker) \in Nat
BY ConstantsAssumption, FS_CardinalityType

\* Type correctness is kept: by every operation of the pool and every step of a worker.
LEMMA TypeStep == TypeOK /\ [Next]_vars => TypeOK'
<1> USE DEF TypeOK, queueVars, ghostVars
<1> SUFFICES ASSUME TypeOK, [Next]_vars PROVE TypeOK'
  OBVIOUS
<1>1. ASSUME NEW th \in Thread, NEW t \in Task, Async(th, t) PROVE TypeOK'
  <2>1. queue' \in Seq(Task)
    BY <1>1, QueueType DEF Async
  <2> QED
    BY <1>1, <2>1 DEF Async
<1>2. ASSUME NEW w \in Worker, NEW t \in Task, Inline(w, t) PROVE TypeOK'
  BY <1>2 DEF Inline
<1>3. ASSUME NEW t \in Task, Cancel(t) PROVE TypeOK'
  BY <1>3 DEF Cancel
<1>4. ASSUME NEW th \in Thread, Post(th) PROVE TypeOK'
  BY <1>4 DEF Post
<1>5. ASSUME NEW w \in Worker, WaitPermit(w) PROVE TypeOK'
  BY <1>5 DEF WaitPermit
<1>6. ASSUME NEW w \in Worker, GetTask(w) PROVE TypeOK'
  <2>1. queue \in Seq(Task) /\ queue # <<>>
    BY <1>6 DEF GetTask
  <2>2. Head(queue) \in Task /\ Tail(queue) \in Seq(Task)
    BY <2>1, HeadTailProperties
  <2>3. queue' \in Seq(Task)
    BY <1>6, <2>2 DEF GetTask
  <2>4. runs' \in [Task -> Nat]
    <3>1. CASE Head(queue) \in cancelled
      BY <1>6, <3>1 DEF GetTask
    <3>2. CASE Head(queue) \notin cancelled
      <4>1. runs' = [runs EXCEPT ![Head(queue)] = @ + 1]
        BY <1>6, <3>2 DEF GetTask
      <4>2. runs \in [Task -> Nat]
        OBVIOUS
      <4> HIDE DEF TypeOK
      <4> QED
        BY <2>2, <4>1, <4>2
    <3> QED
      BY <3>1, <3>2
  <2>5. worker' \in [Worker -> {"none", "wait", "take", "run", "gone"}]
    BY <1>6 DEF GetTask
  <2> QED
    BY <1>6, <2>3, <2>4, <2>5 DEF GetTask
<1>7. ASSUME NEW w \in Worker, Finish(w) PROVE TypeOK'
  BY <1>7 DEF Finish
<1>8. ASSUME NEW w \in Worker, Leave(w) PROVE TypeOK'
  BY <1>8 DEF Leave
<1>9. CASE Start
  BY <1>9 DEF Start
<1>10. CASE Stop
  <2>1. due' \subseteq Task
    BY <1>10 DEF Stop, Range
  <2>2. stops' \in 0 .. MaxStops
    BY <1>10, ConstantsAssumption DEF Stop
  <2>3. count' \in Nat
    BY <1>10, WorkerCount DEF Stop
  <2> QED
    BY <1>10, <2>1, <2>2, <2>3 DEF Stop
<1>11. CASE Join
  BY <1>11 DEF Join
<1>12. CASE UNCHANGED vars
  BY <1>12 DEF vars
<1> QED
  BY <1>1, <1>2, <1>3, <1>4, <1>5, <1>6, <1>7, <1>8, <1>9, <1>10, <1>11, <1>12
     DEF Next, WorkerStep, Thread

\* Every reachable state is type correct.
THEOREM TypeCorrect == Spec => []TypeOK
<1>1. Init => TypeOK
  BY ConstantsAssumption DEF Init, TypeOK
<1> QED
  BY <1>1, TypeStep, PTL DEF Spec

-----------------------------------------------------------------------------
(* Permits: what the semaphore holds, what is on its way, what was taken.   *)

\* Permits that are not used up yet.
Permits == count + Cardinality(posting) + Cardinality(Taking)

\* The threads that count in Permits are finite, so it is a number.
LEMMA PermitsType ==
  ASSUME TypeOK
  PROVE  /\ IsFiniteSet(posting) /\ Cardinality(posting) \in Nat
         /\ IsFiniteSet(Taking) /\ Cardinality(Taking) \in Nat
         /\ IsFiniteSet(Staying) /\ Cardinality(Staying) \in Nat
         /\ Permits \in Nat
<1>1. IsFiniteSet(Client \cup Worker)
  BY ConstantsAssumption, FS_Union
<1>2. IsFiniteSet(posting) /\ IsFiniteSet(Taking) /\ IsFiniteSet(Staying)
  BY <1>1, WorkerCount, FS_Subset DEF TypeOK, Thread, Taking, Staying
<1> QED
  BY <1>2, FS_CardinalityType DEF TypeOK, Permits

\* A step that leaves posting, the threads and the semaphore alone, or only what a thread
\* does between closures.
LEMMA PermitsQuiet ==
  ASSUME TypeOK, NEW w \in Worker, NEW place \in {"wait", "run"},
         worker[w] \in {"wait", "run"},
         worker' = [worker EXCEPT ![w] = place], UNCHANGED <<count, posting>>
  PROVE  Permits' = Permits /\ Staying' = Staying
<1>1. Taking' = Taking /\ Staying' = Staying
  BY DEF TypeOK, Taking, Staying
<1> QED
  BY <1>1 DEF Permits

\* A permit that is used: its holder goes on or leaves.
LEMMA PermitUsed ==
  ASSUME TypeOK, NEW w \in Worker, NEW place \in {"wait", "run", "gone"},
         worker[w] = "take",
         worker' = [worker EXCEPT ![w] = place], UNCHANGED <<count, posting>>
  PROVE  Permits' = Permits - 1 /\ Permits > 0
<1>1. Taking' = Taking \ {w} /\ w \in Taking
  BY DEF TypeOK, Taking
<1>2. Cardinality(Taking') = Cardinality(Taking) - 1
  BY <1>1, PermitsType, FS_RemoveElement
<1>3. Cardinality(Taking) # 0
  BY <1>1, PermitsType, FS_EmptySet
<1> QED
  BY <1>2, <1>3, PermitsType DEF Permits, TypeOK

\* post() gives the semaphore the permit its thread owed.
LEMMA PermitPosted ==
  ASSUME TypeOK, NEW th \in Thread, Post(th)
  PROVE  Permits' = Permits
<1>1. posting' = posting \ {th} /\ th \in posting /\ count' = count + 1 /\ worker' = worker
  BY DEF Post
<1>2. Cardinality(posting') = Cardinality(posting) - 1
  BY <1>1, PermitsType, FS_RemoveElement
<1>3. Taking' = Taking
  BY <1>1 DEF Taking
<1> QED
  BY <1>1, <1>2, <1>3, PermitsType DEF Permits, TypeOK

\* A worker that passes the semaphore carries the permit it took.
LEMMA PermitTaken ==
  ASSUME TypeOK, NEW w \in Worker, WaitPermit(w)
  PROVE  Permits' = Permits /\ Staying' = Staying
<1>0. count \in Nat /\ Cardinality(Taking) \in Nat /\ Cardinality(posting) \in Nat
  BY PermitsType DEF TypeOK
<1>1. /\ worker' = [worker EXCEPT ![w] = "take"] /\ worker[w] = "wait"
      /\ count' = count - 1 /\ posting' = posting
  BY DEF WaitPermit
<1>2. Taking' = Taking \cup {w} /\ w \notin Taking /\ Staying' = Staying
  BY <1>1 DEF TypeOK, Taking, Staying
<1>3. Cardinality(Taking') = Cardinality(Taking) + 1
  BY <1>2, PermitsType, FS_AddElement
<1>4. Permits' = Permits
  BY <1>0, <1>1, <1>3 DEF Permits
<1> QED
  BY <1>2, <1>4

\* A push announces one permit.
LEMMA PermitAnnounced ==
  ASSUME TypeOK, NEW th \in Thread, NEW t \in Task, Async(th, t)
  PROVE  Permits' = Permits + 1 /\ Len(queue') = Len(queue) + 1
<1>1. posting' = posting \cup {th} /\ th \notin posting /\ UNCHANGED <<count, worker>>
  BY DEF Async, Free
<1>2. Cardinality(posting') = Cardinality(posting) + 1
  BY <1>1, PermitsType, FS_AddElement
<1>3. Taking' = Taking
  BY <1>1 DEF Taking
<1>4. Len(queue') = Len(queue) + 1
  BY QueueType DEF Async, TypeOK
<1> QED
  BY <1>1, <1>2, <1>3, <1>4, PermitsType DEF Permits, TypeOK

\* start() and join() do not touch a permit: no thread holds one when join() returns.
LEMMA PermitsStartJoin ==
  ASSUME TypeOK, Start \/ Join
  PROVE  Permits' = Permits
<1>1. Taking' = Taking
  BY DEF TypeOK, Taking, Start, Join
<1>2. count' = count /\ posting' = posting
  BY DEF Start, Join, queueVars
<1> QED
  BY <1>1, <1>2 DEF Permits

\* get_task() uses up one permit with one closure.
LEMMA TaskTaken ==
  ASSUME TypeOK, NEW w \in Worker, GetTask(w)
  PROVE  Permits' = Permits - 1 /\ Len(queue') = Len(queue) - 1 /\ Staying' = Staying
<1>1. PICK place \in {"wait", "run"} : worker' = [worker EXCEPT ![w] = place]
  BY DEF GetTask
<1>2. worker[w] = "take" /\ UNCHANGED <<count, posting>> /\ queue # <<>> /\ queue' = Tail(queue)
  BY DEF GetTask
<1>3. Permits' = Permits - 1
  BY <1>1, <1>2, PermitUsed
<1>4. Len(queue') = Len(queue) - 1
  BY <1>2, HeadTailProperties DEF TypeOK
<1>5. Staying' = Staying
  BY <1>1, <1>2 DEF TypeOK, Staying
<1> QED
  BY <1>3, <1>4, <1>5

\* stop() adds a permit for each thread.
LEMMA PermitsStop ==
  ASSUME TypeOK, Stop
  PROVE  Permits' = Permits + Cardinality(Worker) /\ Len(queue') = Len(queue)
<1>1. count' = count + Cardinality(Worker) /\ UNCHANGED <<queue, posting, worker>>
  BY DEF Stop
<1>2. Taking' = Taking
  BY <1>1 DEF Taking
<1> QED
  BY <1>1, <1>2, PermitsType, WorkerCount DEF Permits, TypeOK

-----------------------------------------------------------------------------
\* A queued closure always has a permit, however often the pool is stopped and started,
\* also without threads.
THEOREM PermitsSuffice == Spec => []PermitsCover
<1> DEFINE Cover == Len(queue) <= Permits
<1>1. Init => Cover
  <2> SUFFICES ASSUME Init PROVE Cover
    OBVIOUS
  <2>1. Len(queue) = 0 /\ posting = {} /\ Taking = {} /\ count = 0
    BY DEF Init, Taking
  <2> QED
    BY <2>1, FS_EmptySet DEF Permits
<1>2. TypeOK /\ Cover /\ [Next]_vars => Cover'
  <2> SUFFICES ASSUME TypeOK, Cover, [Next]_vars PROVE Cover'
    OBVIOUS
  <2>1. Len(queue) \in Nat /\ Permits \in Nat
    BY PermitsType DEF TypeOK
  <2>2. ASSUME queue' = queue, Permits' = Permits PROVE Cover'
    BY <2>2
  <2>3. ASSUME NEW th \in Thread, NEW t \in Task, Async(th, t) PROVE Cover'
    BY <2>1, <2>3, PermitAnnounced
  <2>4. ASSUME NEW th \in Thread, Post(th) PROVE Cover'
    BY <2>2, <2>4, PermitPosted DEF Post
  <2>5. ASSUME NEW w \in Worker, WaitPermit(w) PROVE Cover'
    BY <2>2, <2>5, PermitTaken DEF WaitPermit
  <2>6. ASSUME NEW w \in Worker, GetTask(w) PROVE Cover'
    BY <2>1, <2>6, TaskTaken
  <2>7. ASSUME NEW w \in Worker, Finish(w) PROVE Cover'
    BY <2>2, <2>7, PermitsQuiet DEF Finish, queueVars
  <2>8. ASSUME NEW w \in Worker, Leave(w) PROVE Cover'
    <3>1. Permits' = Permits - 1 /\ Permits > 0
      BY <2>8, PermitUsed DEF Leave, queueVars
    <3>2. Len(queue') = 0
      BY <2>8 DEF Leave, queueVars
    <3> QED
      BY <2>1, <3>1, <3>2
  <2>9. CASE Start \/ Join
    BY <2>2, <2>9, PermitsStartJoin DEF Start, Join, queueVars
  <2>10. CASE Stop
    BY <2>1, <2>10, PermitsStop, WorkerCount
  <2>11. ASSUME UNCHANGED <<queueVars, worker>> PROVE Cover'
    BY <2>2, <2>11 DEF queueVars, Permits, Taking
  <2> HIDE DEF Cover
  <2>12. ASSUME NEW w \in Worker, NEW t \in Task, Inline(w, t) PROVE Cover'
    BY <2>11, <2>12 DEF Inline
  <2>13. ASSUME NEW t \in Task, Cancel(t) PROVE Cover'
    BY <2>11, <2>13 DEF Cancel
  <2>14. CASE UNCHANGED vars
    BY <2>11, <2>14 DEF vars
  <2> QED
    BY <2>3, <2>4, <2>5, <2>6, <2>7, <2>8, <2>9, <2>10, <2>12, <2>13, <2>14
       DEF Next, WorkerStep, Thread
<1>3. Cover => PermitsCover
  BY DEF Permits, Taking, PermitsCover
<1> HIDE DEF Cover
<1> QED
  BY <1>1, <1>2, <1>3, TypeCorrect, PTL DEF Spec

-----------------------------------------------------------------------------
(* stop() on a pool whose threads run: permits, closures and threads balance. *)

\* Between stops each permit is for one closure; while stop() waits, each thread that is
\* left has one more, for the end.
Balance ==
  /\ control = "idle" =>
        Permits = Len(queue) /\ \A w \in Worker : worker[w] # "gone"
  /\ control = "join" =>
        /\ Permits = Len(queue) + Cardinality(Staying)
        /\ \A w \in Worker : worker[w] # "none"

\* At first there are neither permits nor closures.
LEMMA BalanceInit == Init => Balance
<1> SUFFICES ASSUME Init PROVE Balance
  OBVIOUS
<1>1. Len(queue) = 0 /\ posting = {} /\ Taking = {} /\ count = 0
  BY DEF Init, Taking
<1> QED
  BY <1>1, FS_EmptySet DEF Permits, Balance, Init

\* What adds as many permits as closures, and moves no worker, keeps the balance.
LEMMA BalanceKept ==
  ASSUME TypeOK, Balance, NEW d \in Int,
         Permits' = Permits + d, Len(queue') = Len(queue) + d,
         control' = control, Staying' = Staying,
         \A w \in Worker : worker[w] # "none" => worker'[w] # "none"
  PROVE  Balance'
<1>1. Len(queue) \in Nat /\ Permits \in Nat /\ Cardinality(Staying) \in Nat
  BY PermitsType DEF TypeOK
<1>2. \A w \in Worker : worker[w] # "gone" => worker'[w] # "gone"
  BY DEF Staying
<1>3. control = "idle" => Permits' = Len(queue')
  BY <1>1 DEF Balance
<1>4. control = "join" => Permits' = Len(queue') + Cardinality(Staying')
  BY <1>1 DEF Balance
<1> QED
  BY <1>2, <1>3, <1>4 DEF Balance

\* stop() finds all threads there.
LEMMA BalanceStop ==
  ASSUME TypeOK, Balance, Stop, ~ StopIdle
  PROVE  Balance'
<1>1. control = "idle" /\ control' = "join" /\ worker' = worker
  BY DEF Stop
<1>2. Staying' = Worker
  BY <1>1 DEF Balance, Staying
<1>3. Permits' = Len(queue') + Cardinality(Staying')
  BY <1>1, <1>2, PermitsStop, PermitsType, WorkerCount DEF Balance, TypeOK
<1>4. \A w \in Worker : worker'[w] # "none"
  BY <1>1 DEF Stop
<1> QED
  BY <1>1, <1>3, <1>4 DEF Balance

\* A thread leaves only with a permit for the end: the closures have used up theirs.
LEMMA BalanceLeave ==
  ASSUME TypeOK, Balance, NEW w \in Worker, Leave(w)
  PROVE  Balance' /\ control = "join"
<1>1. /\ worker[w] = "take" /\ queue = <<>>
      /\ worker' = [worker EXCEPT ![w] = "gone"]
      /\ UNCHANGED <<queue, count, posting, control>>
  BY DEF Leave, queueVars
<1>2. Permits' = Permits - 1 /\ Permits > 0
  BY <1>1, PermitUsed
<1>3. Len(queue) = 0
  BY <1>1
<1>4. control = "join"
  BY <1>2, <1>3 DEF Balance, TypeOK
<1>5. Staying' = Staying \ {w} /\ w \in Staying
  BY <1>1 DEF TypeOK, Staying
<1>6. Cardinality(Staying') = Cardinality(Staying) - 1
  BY <1>5, PermitsType, FS_RemoveElement
<1>7. Permits = Len(queue) + Cardinality(Staying) /\ \A v \in Worker : worker[v] # "none"
  BY <1>4 DEF Balance
<1>8. Permits' = Len(queue') + Cardinality(Staying')
  BY <1>1, <1>2, <1>3, <1>6, <1>7, PermitsType
<1>9. \A v \in Worker : worker'[v] # "none"
  BY <1>1, <1>7 DEF TypeOK
<1> QED
  BY <1>1, <1>4, <1>8, <1>9 DEF Balance

\* When join() returns the permits for the end are used up.
LEMMA BalanceJoin ==
  ASSUME TypeOK, Balance, Join
  PROVE  Balance'
<1>1. /\ control = "join" /\ control' = "idle" /\ queue' = queue
      /\ \A w \in Worker : worker[w] \in {"none", "gone"}
      /\ worker' = [w \in Worker |-> "none"]
  BY DEF Join, queueVars
<1>2. Staying = {}
  BY <1>1 DEF Balance, Staying
<1>3. Cardinality(Staying) = 0
  BY <1>2, FS_EmptySet
<1>4. Permits' = Permits
  BY PermitsStartJoin
<1>5. Permits' = Len(queue')
  BY <1>1, <1>3, <1>4 DEF Balance, TypeOK
<1> QED
  BY <1>1, <1>5 DEF Balance

\* The balance of permits and closures is kept, when stop() finds threads to stop.
LEMMA BalanceStep ==
  ASSUME ~ StopIdle
  PROVE  TypeOK /\ Balance /\ [Next]_vars => Balance'
<1> SUFFICES ASSUME TypeOK, Balance, [Next]_vars PROVE Balance'
  OBVIOUS
<1>0. Len(queue) \in Nat /\ Permits \in Nat /\ 0 \in Int /\ 1 \in Int /\ -1 \in Int
  BY PermitsType DEF TypeOK
<1>1. ASSUME Permits' = Permits, Staying' = Staying, UNCHANGED <<queue, control>>,
             \A w \in Worker : worker[w] # "none" => worker'[w] # "none"
      PROVE  Balance'
  <2>1. Permits' = Permits + 0 /\ Len(queue') = Len(queue) + 0
    BY <1>0, <1>1
  <2> QED
    BY <1>0, <1>1, <2>1, BalanceKept
<1>2. ASSUME UNCHANGED <<queueVars, worker, control>> PROVE Balance'
  BY <1>1, <1>2 DEF queueVars, Permits, Taking, Staying
<1>3. ASSUME NEW th \in Thread, NEW t \in Task, Async(th, t) PROVE Balance'
  <2>1. worker' = worker /\ control' = control /\ Staying' = Staying
    BY <1>3 DEF Async, Staying
  <2> QED
    BY <1>0, <1>3, <2>1, PermitAnnounced, BalanceKept
<1>4. ASSUME NEW th \in Thread, Post(th) PROVE Balance'
  <2>1. UNCHANGED <<queue, worker, control>> /\ Staying' = Staying
    BY <1>4 DEF Post, Staying
  <2> QED
    BY <1>1, <1>4, <2>1, PermitPosted
<1>5. ASSUME NEW w \in Worker, WaitPermit(w) PROVE Balance'
  <2>1. /\ UNCHANGED <<queue, control>>
        /\ \A v \in Worker : worker[v] # "none" => worker'[v] # "none"
    BY <1>5 DEF WaitPermit, TypeOK
  <2> QED
    BY <1>1, <1>5, <2>1, PermitTaken
<1>6. ASSUME NEW w \in Worker, GetTask(w) PROVE Balance'
  <2>1. control' = control
    BY <1>6 DEF GetTask
  <2>2. \A v \in Worker : worker[v] # "none" => worker'[v] # "none"
    BY <1>6 DEF GetTask, TypeOK
  <2>3. Permits' = Permits - 1 /\ Len(queue') = Len(queue) - 1 /\ Staying' = Staying
    BY <1>6, TaskTaken
  <2>4. Permits' = Permits + (-1) /\ Len(queue') = Len(queue) + (-1)
    BY <1>0, <2>3
  <2> QED
    BY <1>0, <2>1, <2>2, <2>3, <2>4, BalanceKept
<1>7. ASSUME NEW w \in Worker, Finish(w) PROVE Balance'
  <2>1. /\ UNCHANGED <<queue, count, posting, control>>
        /\ worker[w] = "run" /\ worker' = [worker EXCEPT ![w] = "wait"]
    BY <1>7 DEF Finish, queueVars
  <2>2. \A v \in Worker : worker[v] # "none" => worker'[v] # "none"
    BY <2>1 DEF TypeOK
  <2>3. Permits' = Permits /\ Staying' = Staying
    BY <2>1, PermitsQuiet
  <2> QED
    BY <1>1, <2>1, <2>2, <2>3
<1>8. ASSUME NEW w \in Worker, Leave(w) PROVE Balance'
  BY <1>8, BalanceLeave
<1>9. CASE Start
  <2>1. UNCHANGED <<queue, control>> /\ control = "idle"
    BY <1>9 DEF Start, queueVars
  <2>2. /\ \A w \in Worker : worker[w] # "none" => worker'[w] # "none"
        /\ Staying' = Staying
    BY <1>9 DEF Start, Staying, TypeOK
  <2> QED
    BY <1>1, <1>9, <2>1, <2>2, PermitsStartJoin
<1>10. CASE Stop
  BY <1>10, BalanceStop
<1>11. CASE Join
  BY <1>11, BalanceJoin
<1>12. ASSUME NEW w \in Worker, NEW t \in Task, Inline(w, t) PROVE Balance'
  BY <1>2, <1>12 DEF Inline
<1>13. ASSUME NEW t \in Task, Cancel(t) PROVE Balance'
  BY <1>2, <1>13 DEF Cancel
<1>14. CASE UNCHANGED vars
  BY <1>2, <1>14 DEF vars
<1> QED
  BY <1>3, <1>4, <1>5, <1>6, <1>7, <1>8, <1>9, <1>10, <1>11, <1>12, <1>13, <1>14
     DEF Next, WorkerStep, Thread

\* No thread leaves a pool that is not being stopped, if stop() is only called on running
\* threads; otherwise the permits for the end stay and the next threads take them.
THEOREM ThreadsStay ==
  ASSUME ~ StopIdle
  PROVE  Spec => []NoEarlyLeave
<1>1. Balance => NoEarlyLeave
  BY DEF Balance, NoEarlyLeave
<1> QED
  BY <1>1, BalanceInit, BalanceStep, TypeCorrect, PTL DEF Spec
-----------------------------------------------------------------------------
(* What is in the queue was handed over.                                    *)

\* Either end of the queue: one more closure is in it.
LEMMA QueueAdds ==
  ASSUME NEW t \in Task, queue \in Seq(Task)
  PROVE  /\ Range(<<t>> \o queue) = Range(queue) \cup {t}
         /\ Range(Append(queue, t)) = Range(queue) \cup {t}
<1> DEFINE one == <<t>>
<1>1. one \in Seq(Task) /\ Range(one) = {t}
  BY DEF Range
<1>2. Range(<<t>> \o queue) = Range(queue) \cup {t}
  <2> HIDE DEF one
  <2>1. Range(one \o queue) = Range(one) \cup Range(queue)
    BY <1>1, RangeConcatenation
  <2> USE DEF one
  <2> QED
    BY <1>1, <2>1 DEF Range, Range
<1>3. Range(Append(queue, t)) = Range(queue) \cup {t}
  <2>1. Range(queue \o <<t>>) = Range(queue) \cup Range(<<t>>)
    BY <1>1, RangeConcatenation
  <2>2. Append(queue, t) = queue \o <<t>>
    BY AppendIsConcat
  <2> QED
    BY <1>1, <2>1, <2>2 DEF Range, Range
<1> QED
  BY <1>2, <1>3

\* get_task(): the closure at the front is one of the queue, and no others come in.
LEMMA QueueDrops ==
  ASSUME queue \in Seq(Task), queue # <<>>
  PROVE  /\ Range(Tail(queue)) \subseteq Range(queue)
         /\ Head(queue) \in Range(queue) /\ Head(queue) \in Task
<1>1. /\ Len(queue) \in Nat \ {0} /\ DOMAIN queue = 1 .. Len(queue)
      /\ DOMAIN Tail(queue) = 1 .. Len(queue) - 1
      /\ \A i \in 1 .. Len(queue) - 1 : Tail(queue)[i] = queue[i + 1]
      /\ Head(queue) = queue[1] /\ Head(queue) \in Task
  OBVIOUS
<1> QED
  BY <1>1 DEF Range

\* A closure that was not handed over is not queued, did not run and nobody waits for it.
Known ==
  /\ Range(queue) \subseteq submitted
  /\ due \subseteq submitted
  /\ \A t \in Task : runs[t] # 0 => t \in submitted

\* At first the queue is empty.
LEMMA KnownInit == Init => Known
<1>1. Range(<<>>) = {}
  BY DEF Range
<1> QED
  BY <1>1 DEF Init, Known

\* What is queued or was due at a stop was handed to async() once.
LEMMA KnownStep == TypeOK /\ Known /\ [Next]_vars => Known'
<1> SUFFICES ASSUME TypeOK, Known, [Next]_vars PROVE Known'
  OBVIOUS
<1>1. ASSUME UNCHANGED <<queue, submitted, runs, due>> PROVE Known'
  BY <1>1 DEF Known
<1>2. ASSUME NEW th \in Thread, NEW t \in Task, Async(th, t) PROVE Known'
  <2>1. Range(queue') = Range(queue) \cup {t}
    BY <1>2, QueueAdds DEF Async, TypeOK
  <2>2. submitted' = submitted \cup {t} /\ UNCHANGED <<runs, due>>
    BY <1>2 DEF Async
  <2> QED
    BY <2>1, <2>2 DEF Known
<1>3. ASSUME NEW th \in Thread, Post(th) PROVE Known'
  BY <1>1, <1>3 DEF Post, ghostVars
<1>4. ASSUME NEW w \in Worker, NEW t \in Task, Inline(w, t) PROVE Known'
  <2>1. /\ submitted' = submitted \cup {t} /\ UNCHANGED <<queue, due>>
        /\ runs' = [runs EXCEPT ![t] = @ + 1]
    BY <1>4 DEF Inline, queueVars
  <2>2. \A x \in Task : x # t => runs'[x] = runs[x]
    BY <2>1 DEF TypeOK
  <2> QED
    BY <2>1, <2>2 DEF Known
<1>5. ASSUME NEW t \in Task, Cancel(t) PROVE Known'
  BY <1>1, <1>5 DEF Cancel, queueVars, ghostVars
<1>6. ASSUME NEW w \in Worker, WaitPermit(w) PROVE Known'
  BY <1>1, <1>6 DEF WaitPermit, ghostVars
<1>7. ASSUME NEW w \in Worker, GetTask(w) PROVE Known'
  <2>1. queue' = Tail(queue) /\ UNCHANGED <<submitted, due>>
    BY <1>7 DEF GetTask
  <2>2. Head(queue) \in submitted /\ Range(queue') \subseteq submitted
    BY <1>7, <2>1, QueueDrops DEF GetTask, Known, TypeOK
  <2>3. \A x \in Task : x # Head(queue) => runs'[x] = runs[x]
    BY <1>7 DEF GetTask, TypeOK
  <2> QED
    BY <2>1, <2>2, <2>3 DEF Known
<1>8. ASSUME NEW w \in Worker, Finish(w) \/ Leave(w) PROVE Known'
  BY <1>1, <1>8 DEF Finish, Leave, queueVars, ghostVars
<1>9. CASE Start \/ Join
  BY <1>1, <1>9 DEF Start, Join, queueVars, ghostVars
<1>10. CASE Stop
  BY <1>10 DEF Stop, Known
<1>11. CASE UNCHANGED vars
  BY <1>1, <1>11 DEF vars, queueVars, ghostVars
<1> QED
  BY <1>2, <1>3, <1>4, <1>5, <1>6, <1>7, <1>8, <1>9, <1>10, <1>11
     DEF Next, WorkerStep, Thread

-----------------------------------------------------------------------------
\* The first thread that leaves leaves an empty queue, and what is due does not come back.
Drained ==
  (control = "join" /\ \E w \in Worker : worker[w] = "gone") => due \cap Range(queue) = {}

\* A step in which no thread leaves keeps what is drained.
LEMMA DrainedKept ==
  ASSUME Drained, UNCHANGED <<queue, due, control>>,
         \A w \in Worker : worker'[w] = "gone" => worker[w] = "gone"
  PROVE  Drained'
BY DEF Drained

\* The first thread that leaves leaves an empty queue, the others find it so.
LEMMA DrainedStep == TypeOK /\ Known /\ Balance /\ Drained /\ [Next]_vars => Drained'
<1> SUFFICES ASSUME TypeOK, Known, Balance, Drained, [Next]_vars PROVE Drained'
  OBVIOUS
<1>1. ASSUME NEW th \in Thread, NEW t \in Task, Async(th, t) PROVE Drained'
  <2>1. Range(queue') = Range(queue) \cup {t} /\ t \notin due
    BY <1>1, QueueAdds DEF Async, TypeOK, Known
  <2> QED
    BY <1>1, <2>1 DEF Async, Drained
<1>2. ASSUME NEW th \in Thread, Post(th) PROVE Drained'
  BY <1>2, DrainedKept DEF Post, ghostVars
<1>3. ASSUME NEW w \in Worker, NEW t \in Task, Inline(w, t) PROVE Drained'
  BY <1>3, DrainedKept DEF Inline, queueVars
<1>4. ASSUME NEW t \in Task, Cancel(t) PROVE Drained'
  BY <1>4, DrainedKept DEF Cancel, queueVars, ghostVars
<1>5. ASSUME NEW w \in Worker, WaitPermit(w) PROVE Drained'
  BY <1>5, DrainedKept DEF WaitPermit, ghostVars, TypeOK
<1>6. ASSUME NEW w \in Worker, GetTask(w) PROVE Drained'
  <2>1. Range(queue') \subseteq Range(queue)
    BY <1>6, QueueDrops DEF GetTask, TypeOK
  <2>2. due' = due /\ control' = control
    BY <1>6 DEF GetTask
  <2>3. \A v \in Worker : worker'[v] = "gone" => worker[v] = "gone"
    BY <1>6 DEF GetTask, TypeOK
  <2> QED
    BY <2>1, <2>2, <2>3 DEF Drained
<1>7. ASSUME NEW w \in Worker, Finish(w) PROVE Drained'
  BY <1>7, DrainedKept DEF Finish, queueVars, ghostVars, TypeOK
<1>8. ASSUME NEW w \in Worker, Leave(w) PROVE Drained'
  <2>1. queue' = <<>>
    BY <1>8 DEF Leave, queueVars
  <2>2. Range(queue') = {}
    BY <2>1 DEF Range
  <2> QED
    BY <2>2 DEF Drained
<1>9. CASE Start
  BY <1>9, DrainedKept DEF Start, queueVars, ghostVars, TypeOK
<1>10. CASE Stop
  <2>1. \A w \in Worker : worker'[w] # "gone"
    BY <1>10 DEF Stop, Balance
  <2> QED
    BY <2>1 DEF Drained
<1>11. CASE Join
  BY <1>11 DEF Join, Drained
<1>12. CASE UNCHANGED vars
  BY <1>12, DrainedKept DEF vars, queueVars, ghostVars
<1> QED
  BY <1>1, <1>2, <1>3, <1>4, <1>5, <1>6, <1>7, <1>8, <1>9, <1>10, <1>11, <1>12
     DEF Next, WorkerStep, Thread

\* stop() returns after the closures that were queued at its call were taken, for a pool
\* with at least one thread and if it is only called on running threads.
THEOREM StopTakesAll ==
  ASSUME ~ StopIdle, Worker # {}
  PROVE  Spec => StopDrains
<1>1. TypeOK /\ Balance /\ Drained /\ [Next]_vars
        => [control = "join" /\ control' = "idle" => due \cap Range(queue) = {}]_vars
  <2> SUFFICES ASSUME TypeOK, Balance, Drained, Next, control = "join", control' = "idle"
               PROVE  due \cap Range(queue) = {}
    OBVIOUS
  <2>1. Join
    BY DEF Next, WorkerStep, Async, Inline, Cancel, Post, WaitPermit, GetTask, Finish, Leave,
           Start, Stop
  <2>2. \E w \in Worker : worker[w] = "gone"
    BY <2>1 DEF Join, Balance
  <2> QED
    BY <2>2 DEF Drained
<1>2. Init => Drained
  BY DEF Init, Drained
<1> QED
  BY <1>1, <1>2, KnownInit, KnownStep, DrainedStep, BalanceInit, BalanceStep, TypeCorrect, PTL
     DEF Spec, StopDrains

-----------------------------------------------------------------------------
(* ThreadPool implements TaskExecutor: each step maps to a step of it.       *)

\* What does not touch queue, cancellations and starts is a stutter of the executor.
LEMMA ImplementsQuiet ==
  ASSUME UNCHANGED <<queue, cancelled, runs>>
  PROVE  UNCHANGED Executor!vars
BY DEF Executor!vars

\* async() and async_first() are Enqueue and Overtake of the executor.
LEMMA ImplementsAsync ==
  ASSUME TypeOK, Known, NEW th \in Thread, NEW t \in Task, Async(th, t)
  PROVE  Executor!Enqueue(t) \/ Executor!Overtake(t)
<1>1. Executor!Fresh(t)
  BY DEF Async, Known, Executor!Fresh, Executor!Range, Range
<1>2. UNCHANGED <<cancelled, runs>>
  BY DEF Async
<1>3. CASE t \notin Urgent
  BY <1>1, <1>2, <1>3 DEF Async, Executor!Enqueue
<1>4. CASE t \in Urgent
  <2>1. SubSeq(queue, 1, 0) = <<>> /\ SubSeq(queue, 0 + 1, Len(queue)) = queue
    BY SubSeqEmpty, SubSeqFull DEF TypeOK
  <2>2. queue' = <<t>> \o queue
    BY <1>4 DEF Async
  <2>3. <<>> \o <<t>> \o queue = <<t>> \o queue
    BY ConcatEmptySeq DEF TypeOK
  <2>4. 0 \in 0 .. Len(queue)
    BY DEF TypeOK
  <2>5. \E i \in 0 .. Len(queue) :
           queue' = SubSeq(queue, 1, i) \o <<t>> \o SubSeq(queue, i + 1, Len(queue))
    <3> WITNESS 0 \in 0 .. Len(queue)
    <3> QED
      BY <2>1, <2>2, <2>3
  <2> QED
    BY <1>1, <1>2, <1>4, <2>5 DEF Executor!Overtake
<1> QED
  BY <1>3, <1>4

\* A worker that takes a closure is the Take of the executor.
LEMMA ImplementsGetTask ==
  ASSUME TypeOK, NEW w \in Worker, GetTask(w)
  PROVE  Executor!Take
<1>1. queue # <<>> /\ queue' = Tail(queue) /\ cancelled' = cancelled /\ Head(queue) \in Task
  BY QueueDrops DEF GetTask, TypeOK
<1>2. runs' = IF Head(queue) \in Task \ cancelled
              THEN [runs EXCEPT ![Head(queue)] = @ + 1] ELSE runs
  BY <1>1 DEF GetTask
<1> QED
  BY <1>1, <1>2 DEF Executor!Take

\* Whatever the number of threads and however often the pool is stopped and started, its
\* closures are taken as TaskExecutor says.
THEOREM Implements == Spec => ImplementsTaskExecutor
<1>1. Init => Executor!Init
  BY DEF Init, Executor!Init
<1>2. TypeOK /\ Known /\ [Next]_vars => [Executor!Next]_(Executor!vars)
  <2> SUFFICES ASSUME TypeOK, Known, [Next]_vars
               PROVE  Executor!Next \/ UNCHANGED Executor!vars
    OBVIOUS
  <2> USE DEF queueVars, ghostVars
  <2>1. ASSUME NEW th \in Thread, NEW t \in Task, Async(th, t) PROVE Executor!Next
    BY <2>1, ImplementsAsync DEF Executor!Next
  <2>2. ASSUME NEW w \in Worker, NEW t \in Task, Inline(w, t) PROVE Executor!Next
    <3>1. Executor!Inline(t)
      BY <2>2 DEF Inline, Known, Executor!Inline, Executor!Fresh, Executor!Range, Range
    <3> QED
      BY <3>1 DEF Executor!Next
  <2>3. ASSUME NEW t \in Task, Cancel(t) PROVE Executor!Next
    <3>1. Executor!Cancel(t)
      BY <2>3 DEF Cancel, Executor!Cancel
    <3> QED
      BY <3>1 DEF Executor!Next
  <2>4. ASSUME NEW w \in Worker, GetTask(w) PROVE Executor!Next
    BY <2>4, ImplementsGetTask DEF Executor!Next
  <2>5. ASSUME NEW th \in Thread, Post(th) PROVE UNCHANGED Executor!vars
    BY <2>5, ImplementsQuiet DEF Post
  <2>6. ASSUME NEW w \in Worker, WaitPermit(w) \/ Finish(w) \/ Leave(w)
        PROVE  UNCHANGED Executor!vars
    BY <2>6, ImplementsQuiet DEF WaitPermit, Finish, Leave
  <2>7. CASE Start \/ Stop \/ Join
    BY <2>7, ImplementsQuiet DEF Start, Stop, Join
  <2>8. CASE UNCHANGED vars
    BY <2>8, ImplementsQuiet DEF vars
  <2> QED
    BY <2>1, <2>2, <2>3, <2>4, <2>5, <2>6, <2>7, <2>8 DEF Next, WorkerStep, Thread
<1> QED
  BY <1>1, <1>2, KnownInit, KnownStep, TypeCorrect, PTL
     DEF Spec, ImplementsTaskExecutor, Executor!Spec
=============================================================================
