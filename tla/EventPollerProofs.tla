-------------------------- MODULE EventPollerProofs --------------------------
(* Theorems about EventPoller, for every value of its constants. *)
EXTENDS EventPoller, SequenceTheorems, WellFoundedInduction, TLAPS

\* Both ends of the list of closures take any closure.
LEMMA PostType ==
  ASSUME NEW x \in Closure, list_task \in Seq(Closure), Post(x)
  PROVE  list_task' \in Seq(Closure)
<1>1. <<x>> \in Seq(Closure)
  OBVIOUS
<1> QED
  BY <1>1, ConcatProperties, AppendProperties DEF Post

LEMMA WakeUpType ==
  ASSUME pipe \in 0 .. PipeCap, edge \in BOOLEAN, WakeUp
  PROVE  pipe' \in 0 .. PipeCap /\ edge' \in BOOLEAN
<1>1. pipe' \in 0 .. PipeCap
  <2>1. CASE pipe < PipeCap
    BY <2>1, ConstantsAssumption DEF WakeUp
  <2>2. CASE ~ (pipe < PipeCap)
    BY <2>2 DEF WakeUp
  <2> QED
    BY <2>1, <2>2
<1>2. edge' \in BOOLEAN
  BY Zenon DEF WakeUp
<1> QED
  BY <1>1, <1>2

LEMMA TimeIsNat == Time \subseteq Nat
BY ConstantsAssumption DEF Time

\* A non-empty map of delayed tasks has a first key, the least of its deadlines.
LEMMA FirstKeyIsLeast ==
  ASSUME NEW map, map # {}, map \subseteq Timer, time_line \in [Timer -> Time]
  PROVE  /\ FirstKey(map) \in Time
         /\ \E d \in map : FirstKey(map) = time_line[d]
         /\ \A d \in map : FirstKey(map) <= time_line[d]
<1> DEFINE keys == {time_line[d] : d \in map}
<1>1. keys \subseteq Nat /\ keys # {} /\ keys \subseteq Time
  BY ConstantsAssumption DEF Time
<1>2. \E k \in keys : \A j \in keys : k <= j
  <2>1. PICK k \in keys : \A j \in keys : ~ (<<j, k>> \in OpToRel(<, Nat))
    BY <1>1, NatLessThanWellFounded, WFMin
  <2>2. ASSUME NEW j \in keys PROVE k <= j
    <3>1. j \in Nat /\ k \in Nat
      BY <1>1
    <3>2. ~ (j < k)
      BY <2>1, <3>1, Zenon DEF OpToRel
    <3> QED
      BY <3>1, <3>2
  <2> QED
    BY <2>2
<1>3. \E k \in keys : \A d \in map : k <= time_line[d]
  BY <1>2
<1> QED
  BY <1>1, <1>3 DEF FirstKey

LEMMA KeyIsNat ==
  ASSUME NEW map, map # {}, map \subseteq Timer, time_line \in [Timer -> Time]
  PROVE  FirstKey(map) \in Nat
BY FirstKeyIsLeast, TimeIsNat

\* Whatever the delay, epoll_wait gets no deadline or one that is not in the past.
LEMMA EpollWaitType ==
  ASSUME NEW minDelay \in Int, now \in Time, EpollWait(minDelay)
  PROVE  loop' = "sleep" /\ wake_at' \in Nat \cup {Never}
<1>1. minDelay % (2 * (IntMax + 1)) \in Nat
  BY ConstantsAssumption
<1> QED
  BY <1>1, ConstantsAssumption DEF EpollWait, Time

\* Every reachable state is type correct.
THEOREM TypeCorrect == Spec => []TypeOK
<1> USE ConstantsAssumption
<1> USE DEF TypeOK,  pollVars, timeVars, ghostVars
<1>1. Init => TypeOK
  <2> SUFFICES ASSUME Init PROVE TypeOK
    OBVIOUS
  <2>1. hand \in [Thread -> {"idle", "write"}] /\ waiting \in [Client -> Task \cup {None}]
    BY DEF Init
  <2>2. 0 \in Time /\ time_line \in [Timer -> Time] /\ runs \in [Task -> Nat]
    BY DEF Init, Time
  <2>3. edge \in BOOLEAN
    BY Zenon DEF Init
  <2>4. exit_flag \in BOOLEAN
    BY Zenon DEF Init
  <2>5. pipe \in 0 .. PipeCap
    BY DEF Init
  <2>6. <<>> \in Seq(Closure)
    OBVIOUS
  <2> QED
    BY <2>1, <2>2, <2>3, <2>4, <2>5, <2>6 DEF Init
<1>2. TypeOK /\ [Next]_vars => TypeOK'
  <2> SUFFICES ASSUME TypeOK, [Next]_vars PROVE TypeOK'
    OBVIOUS
  <2>1. ASSUME NEW c \in Client, NEW t \in Task, NEW sync \in BOOLEAN, Async(c, t, sync)
        PROVE TypeOK'
    <3>1. list_task' \in Seq(Closure)
      BY <2>1, PostType DEF Async, Closure
    <3> QED
      BY <2>1, <3>1 DEF Async, Thread
  <2>2. ASSUME NEW c \in Client, NEW d \in Timer, NEW ms \in Delay, DoDelayTask(c, d, ms)
        PROVE TypeOK'
    <3>1. list_task' \in Seq(Closure)
      BY <2>2, PostType DEF DoDelayTask, Closure
    <3>2. now + ms \in Time
      BY <2>2 DEF DoDelayTask, Time
    <3> QED
      BY <2>2, <3>1, <3>2 DEF DoDelayTask, Thread
  <2>3. ASSUME NEW c \in Thread, WritePipe(c)
        PROVE TypeOK'
    <3>1. pipe' \in 0 .. PipeCap /\ edge' \in BOOLEAN
      BY <2>3, WakeUpType DEF WritePipe
    <3> QED
      BY <2>3, <3>1 DEF WritePipe
  <2>4. ASSUME NEW x \in Task \cup Timer, Cancel(x)
        PROVE TypeOK'
    BY <2>4 DEF Cancel
  <2>5. ASSUME NEW t \in Task, AsyncInline(t) PROVE TypeOK'
    BY <2>5 DEF AsyncInline
  <2>6. ASSUME NEW t \in Task, AsyncLoop(t) PROVE TypeOK'
    <3>1. list_task' \in Seq(Closure)
      BY <2>6, PostType DEF AsyncLoop, Closure
    <3> QED
      BY <2>6, <3>1 DEF AsyncLoop, Thread
  <2>7. ASSUME NEW d \in Timer, NEW ms \in Delay, DelayInline(d, ms) PROVE TypeOK'
    <3>1. now + ms \in Time
      BY <2>7 DEF DelayInline, Time
    <3> QED
      BY <2>7, <3>1 DEF DelayInline
  <2>8. CASE RunLoop BY <2>8 DEF RunLoop
  <2>9. CASE LeaveLoop BY <2>9 DEF LeaveLoop
  <2>10. CASE GetMinDelay
    <3>1. CASE delay_task_map = {}
      <4>1. EpollWait(0) /\ UNCHANGED <<now_time, delay_task_map, task_copy>>
        BY <2>10, <3>1 DEF GetMinDelay
      <4> QED
        BY <2>10, <4>1, EpollWaitType DEF GetMinDelay
    <3>2. CASE delay_task_map # {} /\ FirstKey(delay_task_map) > now
      <4>1. /\ EpollWait(FirstKey(delay_task_map) - now)
            /\ now_time' = now /\ UNCHANGED <<delay_task_map, task_copy>>
        <5>1. ~ (FirstKey(delay_task_map) <= now)
          BY <3>2, KeyIsNat, TimeIsNat
        <5> QED
          BY <2>10, <3>2, <5>1 DEF GetMinDelay
      <4>2. FirstKey(delay_task_map) - now \in Int
        BY <3>2, KeyIsNat, TimeIsNat
      <4> QED
        BY <2>10, <4>1, <4>2, EpollWaitType DEF GetMinDelay
    <3>3. CASE delay_task_map # {} /\ ~ (FirstKey(delay_task_map) > now)
      <4>1. /\ now_time' = now /\ task_copy' = delay_task_map /\ delay_task_map' = {}
            /\ loop' = "flush" /\ UNCHANGED wake_at
        BY <2>10, <3>3 DEF GetMinDelay
      <4> QED
        BY <2>10, <4>1 DEF GetMinDelay
    <3> QED
      BY <3>1, <3>2, <3>3
  <2>11. CASE FlushDone
    <3> DEFINE rest == task_copy \cup delay_task_map
    <3> DEFINE ms == IF rest = {} THEN 0 ELSE FirstKey(rest) - now_time
    <3>1. delay_task_map' = rest /\ EpollWait(ms)
      BY <2>11 DEF FlushDone
    <3>2. ms \in Int
      <4>1. CASE rest = {}
        BY <4>1
      <4>2. CASE rest # {}
        <5>1. FirstKey(rest) \in Nat
          BY <4>2, KeyIsNat
        <5> QED
          BY <4>2, <5>1, TimeIsNat
      <4> QED
        BY <4>1, <4>2
    <3> QED
      BY <2>11, <3>1, <3>2, EpollWaitType DEF FlushDone
  <2>12. CASE EpollPipe BY <2>12 DEF EpollPipe
  <2>13. CASE EpollTimeout BY <2>13 DEF EpollTimeout
  <2>14. ASSUME NEW d \in Timer, FlushDue(d) PROVE TypeOK' BY <2>14 DEF FlushDue
  <2>15. CASE Drain BY <2>15 DEF Drain
  <2>16. CASE SwapList BY <2>16 DEF SwapList
  <2>17. CASE RunNext
    <3> DEFINE x == Head(list_swap)
    <3>1. x \in Closure /\ list_swap' \in Seq(Closure)
      BY <2>17, HeadTailProperties DEF RunNext
    <3>2. CASE x = Exit
      BY <2>17, <3>1, <3>2 DEF RunNext, Closure
    <3>3. CASE x \in Timer
      BY <2>17, <3>1, <3>3 DEF RunNext, Closure
    <3>4. CASE x \in Task \cap cancelled
      BY <2>17, <3>1, <3>4 DEF RunNext, Closure
    <3>5. CASE x \in Task \ cancelled
      <4>1. runs' \in [Task -> Nat]
        BY <2>17, <3>5 DEF RunNext
      <4> QED
        BY <2>17, <3>1, <3>5, <4>1 DEF RunNext, Closure
    <3> QED
      BY <3>1, <3>2, <3>3, <3>4, <3>5 DEF Closure
  <2>18. CASE RunDone BY <2>18 DEF RunDone
  <2>19. CASE BodyEnd BY <2>19 DEF BodyEnd, InBody
  <2>20. CASE TimerEnd BY <2>20 DEF TimerEnd, InBody
  <2>21. ASSUME NEW ms \in Delay, TimerAgain(ms) PROVE TypeOK'
    <3>1. ms + now_time \in Time
      BY <2>21 DEF TimerAgain, Time
    <3> QED
      BY <2>21, <3>1 DEF TimerAgain, InBody
  <2>22. CASE EpollOther BY <2>22 DEF EpollOther
  <2>23. CASE Shutdown
    <3>1. list_task' \in Seq(Closure)
      BY <2>23, PostType DEF Shutdown, Closure
    <3> QED
      BY <2>23, <3>1 DEF Shutdown
  <2>24. CASE ShutdownWrite
    <3>1. pipe' \in 0 .. PipeCap /\ edge' \in BOOLEAN
      BY <2>24, WakeUpType DEF ShutdownWrite
    <3> QED
      BY <2>24, <3>1 DEF ShutdownWrite
  <2>25. CASE Joined BY <2>25 DEF Joined
  <2>26. CASE Tick
    <3>1. now' \in Time
      BY <2>26 DEF Tick, Time
    <3> QED
      BY <2>26, <3>1 DEF Tick
  <2>27. CASE UNCHANGED vars BY <2>27 DEF vars
  <2> HIDE DEF TypeOK, pollVars, timeVars, ghostVars
  <2>28. CASE ClientStep
    BY <2>28, <2>1, <2>2, <2>3, <2>4 DEF ClientStep, Thread
  <2>29. CASE BodyStep
    BY <2>29, <2>5, <2>6, <2>7 DEF BodyStep
  <2>30. CASE LoopStep
    <3>1. WritePipe(Loop) => TypeOK'
      BY <2>3 DEF Thread
    <3> QED
      BY <2>30, <3>1, <2>8, <2>9, <2>10, <2>11, <2>12, <2>13, <2>14, <2>15, <2>16, <2>17,
         <2>18, <2>19, <2>20, <2>21 DEF LoopStep
  <2> QED
    BY <2>22, <2>23, <2>24, <2>25, <2>26, <2>27, <2>28, <2>29, <2>30
       DEF Next, OwnerStep, Destroyed
<1> QED
  BY <1>1, <1>2, PTL DEF Spec
-----------------------------------------------------------------------------
(* The inductive invariants.                                               *)

\* A byte in the pipe is reported or about to be read: WakeUp may skip a full pipe.
WakeInv == NoLostWakeup /\ (pipe > 0 => edge \/ loop = "drain")

\* No element twice.
Single(s) == \A i, j \in DOMAIN s : s[i] = s[j] => i = j

\* A closure is in one of the lists once, or it was started, or it was never there.
OnceInv ==
  /\ Single(list_task) /\ Single(list_swap)
  /\ ToSet(list_task) \cap ToSet(list_swap) = {}
  /\ ToSet(list_task) \cup ToSet(list_swap) \subseteq submitted \cup {Exit}
  /\ owner = "alive" => Exit \notin ToSet(list_task) \cup ToSet(list_swap)
  /\ \A t \in Task : /\ runs[t] <= 1
                     /\ runs[t] > 0 => t \in submitted
                     /\ t \in ToSet(list_task) \cup ToSet(list_swap) => runs[t] = 0

\* Only the walk over the swapped list, and what it calls, finds it non-empty.
SwapInv == list_swap # <<>> => loop = "run" \/ (loop = "body" /\ current \in Task)

\* The clock does not run backwards and delayed tasks are handed over once.
TimeInv ==
  /\ now_time <= now
  /\ delay_task_map \cup task_copy \subseteq submitted
  /\ current \in Timer => current \in submitted

\* What is inserted during a flush is due after it: no timeout comes out as 0.
DueInv ==
  loop = "flush" \/ (loop = "body" /\ current \in Timer) =>
     \A d \in delay_task_map : time_line[d] > now_time

-----------------------------------------------------------------------------
\* Steps that leave the lists, the pipe and those who owe it a byte alone.
LEMMA WakeQuiet ==
  ASSUME WakeInv, UNCHANGED <<list_task, pipe, edge, hand, owner>>,
         loop' = loop \/ loop \notin {"drain", "swap"}
  PROVE  WakeInv'
BY DEF WakeInv, NoLostWakeup

\* After a push somebody still has to write the pipe.
LEMMA WakePushed ==
  ASSUME WakeInv, UNCHANGED <<pipe, edge, loop>>,
         \/ owner' = "write"
         \/ \E c \in Thread : hand'[c] = "write"
  PROVE  WakeInv'
BY DEF WakeInv, NoLostWakeup

\* After the write the pipe is readable and reported, or being read.
LEMMA WakeWritten ==
  ASSUME TypeOK, WakeInv, WakeUp, UNCHANGED <<list_task, loop>>
  PROVE  WakeInv'
<1>1. CASE pipe < PipeCap
  <2>1. pipe' > 0
    BY <1>1, ConstantsAssumption DEF WakeUp, TypeOK
  <2>2. edge'
    BY <1>1 DEF WakeUp
  <2> QED
    BY <2>1, <2>2 DEF WakeInv, NoLostWakeup
<1>2. CASE ~ (pipe < PipeCap)
  <2>1. pipe > 0
    BY <1>2, ConstantsAssumption DEF TypeOK
  <2>2. UNCHANGED <<pipe, edge>>
    BY <1>2 DEF WakeUp
  <2> QED
    BY <2>1, <2>2 DEF WakeInv, NoLostWakeup
<1> QED
  BY <1>1, <1>2

\* No wake-up is lost, whatever the number of threads, closures and timers and the size
\* of the pipe: a closure in the list has a byte, or a thread that will write one, or
\* the loop's attention.
THEOREM WakeupsKept == Spec => []NoLostWakeup
<1>1. Init => WakeInv
  BY DEF Init, WakeInv, NoLostWakeup
<1>2. TypeOK /\ WakeInv /\ [Next]_vars => WakeInv'
  <2> SUFFICES ASSUME TypeOK, WakeInv, [Next]_vars PROVE WakeInv'
    OBVIOUS
  <2> USE DEF pollVars
  <2>1. CASE ClientStep
    <3>1. ASSUME NEW c \in Client, NEW t \in Task, NEW sync \in BOOLEAN, Async(c, t, sync)
          PROVE  WakeInv'
      <4>1. hand'[c] = "write" /\ c \in Thread
        BY <3>1 DEF Async, TypeOK, Thread
      <4> QED
        BY <3>1, <4>1, WakePushed DEF Async
    <3>2. ASSUME NEW c \in Client, NEW d \in Timer, NEW ms \in Delay, DoDelayTask(c, d, ms)
          PROVE  WakeInv'
      <4>1. hand'[c] = "write" /\ c \in Thread
        BY <3>2 DEF DoDelayTask, TypeOK, Thread
      <4> QED
        BY <3>2, <4>1, WakePushed DEF DoDelayTask
    <3>3. ASSUME NEW c \in Client, WritePipe(c) PROVE WakeInv'
      BY <3>3, WakeWritten DEF WritePipe
    <3>4. ASSUME NEW x \in Task \cup Timer, Cancel(x) PROVE WakeInv'
      BY <3>4, WakeQuiet DEF Cancel
    <3> QED
      BY <2>1, <3>1, <3>2, <3>3, <3>4 DEF ClientStep
  <2>2. CASE BodyStep
    <3>1. ASSUME NEW t \in Task, AsyncInline(t) PROVE WakeInv'
      BY <3>1, WakeQuiet DEF AsyncInline
    <3>2. ASSUME NEW t \in Task, AsyncLoop(t) PROVE WakeInv'
      <4>1. hand'[Loop] = "write" /\ Loop \in Thread
        BY <3>2 DEF AsyncLoop, TypeOK, Thread
      <4> QED
        BY <3>2, <4>1, WakePushed DEF AsyncLoop
    <3>3. ASSUME NEW d \in Timer, NEW ms \in Delay, DelayInline(d, ms) PROVE WakeInv'
      BY <3>3, WakeQuiet DEF DelayInline
    <3> QED
      BY <2>2, <3>1, <3>2, <3>3 DEF BodyStep
  <2>3. CASE LoopStep
    <3>1. CASE RunLoop BY <3>1, WakeQuiet DEF RunLoop
    <3>2. CASE LeaveLoop BY <3>2, WakeQuiet DEF LeaveLoop
    <3>3. CASE GetMinDelay BY <3>3, WakeQuiet DEF GetMinDelay
    <3>4. CASE FlushDone BY <3>4, WakeQuiet DEF FlushDone
    <3>5. CASE EpollPipe
      BY <3>5 DEF EpollPipe, WakeInv, NoLostWakeup
    <3>6. CASE EpollTimeout BY <3>6, WakeQuiet DEF EpollTimeout
    <3>7. ASSUME NEW d \in Timer, FlushDue(d) PROVE WakeInv'
      BY <3>7, WakeQuiet DEF FlushDue
    <3>8. CASE Drain
      BY <3>8 DEF Drain, WakeInv, NoLostWakeup
    <3>9. CASE SwapList
      BY <3>9 DEF SwapList, WakeInv, NoLostWakeup
    <3>10. CASE RunNext BY <3>10, WakeQuiet DEF RunNext
    <3>11. CASE RunDone
      <4>1. CASE owner = "flush"
        BY <3>11, <4>1 DEF RunDone, WakeInv, NoLostWakeup
      <4>2. CASE owner # "flush"
        BY <3>11, <4>2, WakeQuiet DEF RunDone
      <4> QED
        BY <4>1, <4>2
    <3>12. CASE WritePipe(Loop) BY <3>12, WakeWritten DEF WritePipe
    <3>13. CASE BodyEnd BY <3>13, WakeQuiet DEF BodyEnd, InBody
    <3>14. CASE TimerEnd BY <3>14, WakeQuiet DEF TimerEnd, InBody
    <3>15. ASSUME NEW ms \in Delay, TimerAgain(ms) PROVE WakeInv'
      BY <3>15, WakeQuiet DEF TimerAgain, InBody
    <3> QED
      BY <2>3, <3>1, <3>2, <3>3, <3>4, <3>5, <3>6, <3>7, <3>8, <3>9, <3>10, <3>11, <3>12,
         <3>13, <3>14, <3>15 DEF LoopStep
  <2>4. CASE EpollOther BY <2>4, WakeQuiet DEF EpollOther
  <2>5. CASE Shutdown BY <2>5, WakePushed DEF Shutdown
  <2>6. CASE ShutdownWrite BY <2>6, WakeWritten DEF ShutdownWrite
  <2>7. CASE Joined BY <2>7 DEF Joined, WakeInv, NoLostWakeup
  <2>8. CASE Tick BY <2>8, WakeQuiet DEF Tick
  <2>9. CASE UNCHANGED vars BY <2>9, WakeQuiet DEF vars
  <2> QED
    BY <2>1, <2>2, <2>3, <2>4, <2>5, <2>6, <2>7, <2>8, <2>9 DEF Next, OwnerStep, Destroyed
<1>3. WakeInv => NoLostWakeup
  BY DEF WakeInv
<1> QED
  BY <1>1, <1>2, <1>3, TypeCorrect, PTL DEF Spec

-----------------------------------------------------------------------------
LEMMA PostAdds ==
  ASSUME NEW x \in Closure, list_task \in Seq(Closure), Post(x),
         Single(list_task), x \notin ToSet(list_task)
  PROVE  Single(list_task') /\ ToSet(list_task') = ToSet(list_task) \cup {x}
<1>1. CASE list_task' = <<x>> \o list_task
  <2>1. Len(list_task') = Len(list_task) + 1
    BY <1>1
  <2>2. \A i \in DOMAIN list_task' : list_task'[i] = IF i = 1 THEN x ELSE list_task[i - 1]
    BY <1>1
  <2>3. list_task' \in Seq(Closure)
    BY PostType
  <2>4. \A i \in DOMAIN list_task : i + 1 \in DOMAIN list_task' /\ list_task'[i + 1] = list_task[i]
    BY <2>1, <2>2, <2>3
  <2>5. Single(list_task')
    BY <2>1, <2>2, <2>3 DEF Single, ToSet
  <2>6. ToSet(list_task') \subseteq ToSet(list_task) \cup {x}
    BY <2>1, <2>2, <2>3 DEF ToSet
  <2>7. 1 \in DOMAIN list_task' /\ list_task'[1] = x
    BY <2>1, <2>2, <2>3
  <2>8. ToSet(list_task) \cup {x} \subseteq ToSet(list_task')
    BY <2>4, <2>7 DEF ToSet
  <2> QED
    BY <2>5, <2>6, <2>8
<1>2. CASE list_task' = Append(list_task, x)
  BY <1>2 DEF Single, ToSet
<1> QED
  BY <1>1, <1>2 DEF Post

LEMMA TailDrops ==
  ASSUME NEW s \in Seq(Closure), s # <<>>, Single(s)
  PROVE  /\ Single(Tail(s)) /\ Head(s) \in ToSet(s)
         /\ ToSet(Tail(s)) = ToSet(s) \ {Head(s)}
<1>1. /\ Tail(s) \in Seq(Closure) /\ Len(s) \in Nat \ {0} /\ Len(Tail(s)) = Len(s) - 1
      /\ DOMAIN s = 1 .. Len(s) /\ DOMAIN Tail(s) = 1 .. Len(s) - 1
      /\ \A i \in DOMAIN Tail(s) : Tail(s)[i] = s[i + 1]
      /\ Head(s) = s[1]
  OBVIOUS
<1>2. Single(Tail(s))
  BY <1>1 DEF Single
<1>3. Head(s) \in ToSet(s)
  BY <1>1 DEF ToSet
<1>4. ToSet(Tail(s)) \subseteq ToSet(s) \ {Head(s)}
  BY <1>1 DEF ToSet, Single
<1>5. ASSUME NEW y \in ToSet(s) \ {Head(s)} PROVE y \in ToSet(Tail(s))
  <2>1. PICK i \in DOMAIN s : y = s[i]
    BY <1>5 DEF ToSet
  <2>2. i - 1 \in DOMAIN Tail(s) /\ Tail(s)[i - 1] = s[i]
    BY <1>1, <1>5, <2>1
  <2> QED
    BY <2>1, <2>2 DEF ToSet
<1> QED
  BY <1>2, <1>3, <1>4, <1>5

-----------------------------------------------------------------------------
LEMMA OnceQuiet ==
  ASSUME OnceInv, UNCHANGED <<list_task, list_swap, submitted, runs>>,
         owner' = "alive" => owner = "alive"
  PROVE  OnceInv'
BY DEF OnceInv, Single, ToSet

\* A closure that was never handed over is in neither list.
LEMMA OncePosted ==
  ASSUME TypeOK, OnceInv, NEW x \in Task \cup Timer, x \notin submitted, Post(x),
         UNCHANGED <<list_swap, runs, owner>>, submitted' = submitted \cup {x}
  PROVE  OnceInv'
<1>1. x \in Closure /\ x # Exit
  BY ConstantsAssumption DEF Closure
<1>2. x \notin ToSet(list_task) \cup ToSet(list_swap)
  BY <1>1 DEF OnceInv
<1>3. Single(list_task') /\ ToSet(list_task') = ToSet(list_task) \cup {x}
  BY <1>1, <1>2, PostAdds DEF TypeOK, OnceInv
<1>4. Single(list_swap') /\ ToSet(list_swap') = ToSet(list_swap)
  BY DEF OnceInv
<1>5. x \in Task => runs[x] = 0
  BY DEF TypeOK, OnceInv
<1> QED
  BY <1>1, <1>2, <1>3, <1>4, <1>5 DEF OnceInv

LEMMA OnceExit ==
  ASSUME TypeOK, OnceInv, Shutdown
  PROVE  OnceInv'
<1>1. Exit \in Closure /\ Exit \notin Task
  BY ConstantsAssumption DEF Closure
<1>2. Exit \notin ToSet(list_task) \cup ToSet(list_swap)
  BY DEF OnceInv, Shutdown
<1>3. Single(list_task') /\ ToSet(list_task') = ToSet(list_task) \cup {Exit}
  BY <1>1, <1>2, PostAdds DEF TypeOK, OnceInv, Shutdown
<1>4. Single(list_swap') /\ ToSet(list_swap') = ToSet(list_swap)
  BY DEF OnceInv, Shutdown
<1>5. UNCHANGED <<submitted, runs>> /\ owner' = "write"
  BY DEF Shutdown, ghostVars
<1> QED
  BY <1>1, <1>2, <1>3, <1>4, <1>5 DEF OnceInv

LEMMA OnceRunNext ==
  ASSUME TypeOK, OnceInv, RunNext
  PROVE  OnceInv'
<1> DEFINE x == Head(list_swap)
<1>1. list_swap # <<>> /\ list_swap \in Seq(Closure) /\ list_swap' = Tail(list_swap)
  BY DEF RunNext, TypeOK
<1>2. Single(list_swap') /\ x \in ToSet(list_swap) /\ ToSet(list_swap') = ToSet(list_swap) \ {x}
  BY <1>1, TailDrops DEF OnceInv
<1>3. /\ UNCHANGED <<list_task, submitted, owner>>
      /\ runs' = runs \/ (x \in Task /\ runs' = [runs EXCEPT ![x] = @ + 1])
  BY DEF RunNext
<1>4. Single(list_task') /\ ToSet(list_task') = ToSet(list_task)
  BY <1>3 DEF OnceInv
<1>5. CASE runs' = runs
  BY <1>2, <1>3, <1>4, <1>5 DEF OnceInv
<1>6. CASE x \in Task /\ runs' = [runs EXCEPT ![x] = @ + 1]
  <2>1. runs[x] = 0 /\ x \in submitted /\ x \notin ToSet(list_task)
    BY <1>2, <1>6, ConstantsAssumption DEF OnceInv
  <2>2. runs'[x] = 1 /\ \A t \in Task \ {x} : runs'[t] = runs[t]
    BY <1>6, <2>1 DEF TypeOK
  <2> QED
    BY <1>2, <1>3, <1>4, <2>1, <2>2 DEF OnceInv
<1> QED
  BY <1>3, <1>5, <1>6

LEMMA OnceInline ==
  ASSUME TypeOK, OnceInv, NEW t \in Task, AsyncInline(t)
  PROVE  OnceInv'
<1>1. /\ t \notin submitted /\ submitted' = submitted \cup {t}
      /\ runs' = [runs EXCEPT ![t] = @ + 1] /\ UNCHANGED <<list_task, list_swap, owner>>
  BY DEF AsyncInline, pollVars
<1>2. runs[t] = 0
  BY <1>1 DEF TypeOK, OnceInv
<1>3. runs'[t] = 1 /\ \A y \in Task \ {t} : runs'[y] = runs[y]
  BY <1>1, <1>2 DEF TypeOK
<1>4. t \notin ToSet(list_task) \cup ToSet(list_swap)
  BY <1>1, ConstantsAssumption DEF OnceInv
<1>5. /\ Single(list_task') /\ ToSet(list_task') = ToSet(list_task)
      /\ Single(list_swap') /\ ToSet(list_swap') = ToSet(list_swap)
  BY <1>1 DEF OnceInv
<1> QED
  BY <1>1, <1>3, <1>4, <1>5 DEF OnceInv

LEMMA OnceSwap ==
  ASSUME OnceInv, SwapList
  PROVE  OnceInv'
<1>1. list_task' = <<>> /\ list_swap' = list_task /\ UNCHANGED <<submitted, runs, owner>>
  BY DEF SwapList, ghostVars
<1>2. Single(list_task') /\ ToSet(list_task') = {}
  BY <1>1 DEF Single, ToSet
<1>3. Single(list_swap') /\ ToSet(list_swap') = ToSet(list_task)
  BY <1>1 DEF OnceInv
<1> QED
  BY <1>1, <1>2, <1>3 DEF OnceInv

\* A step preserves OnceInv.
LEMMA OnceStep == TypeOK /\ OnceInv /\ [Next]_vars => OnceInv'
<1> SUFFICES ASSUME TypeOK, OnceInv, [Next]_vars PROVE OnceInv'
  OBVIOUS
<1> USE DEF pollVars, ghostVars
<1>1. CASE ClientStep
  <2>1. ASSUME NEW c \in Client, NEW t \in Task, NEW sync \in BOOLEAN, Async(c, t, sync)
        PROVE  OnceInv'
    BY <2>1, OncePosted DEF Async
  <2>2. ASSUME NEW c \in Client, NEW d \in Timer, NEW ms \in Delay, DoDelayTask(c, d, ms)
        PROVE  OnceInv'
    BY <2>2, OncePosted DEF DoDelayTask
  <2>3. ASSUME NEW c \in Client, WritePipe(c) PROVE OnceInv'
    BY <2>3, OnceQuiet DEF WritePipe
  <2>4. ASSUME NEW x \in Task \cup Timer, Cancel(x) PROVE OnceInv'
    BY <2>4, OnceQuiet DEF Cancel
  <2> QED
    BY <1>1, <2>1, <2>2, <2>3, <2>4 DEF ClientStep
<1>2. CASE BodyStep
  <2>1. ASSUME NEW t \in Task, AsyncInline(t) PROVE OnceInv'
    BY <2>1, OnceInline
  <2>2. ASSUME NEW t \in Task, AsyncLoop(t) PROVE OnceInv'
    BY <2>2, OncePosted DEF AsyncLoop
  <2>3. ASSUME NEW d \in Timer, NEW ms \in Delay, DelayInline(d, ms) PROVE OnceInv'
    <3>1. /\ UNCHANGED <<list_task, list_swap, runs, owner>>
          /\ submitted' = submitted \cup {d}
      BY <2>3 DEF DelayInline
    <3>2. /\ Single(list_task') /\ ToSet(list_task') = ToSet(list_task)
          /\ Single(list_swap') /\ ToSet(list_swap') = ToSet(list_swap)
      BY <3>1 DEF OnceInv
    <3> QED
      BY <3>1, <3>2 DEF OnceInv
  <2> QED
    BY <1>2, <2>1, <2>2, <2>3 DEF BodyStep
<1>3. CASE LoopStep
  <2>1. CASE RunLoop BY <2>1, OnceQuiet DEF RunLoop
  <2>2. CASE LeaveLoop BY <2>2, OnceQuiet DEF LeaveLoop
  <2>3. CASE GetMinDelay BY <2>3, OnceQuiet DEF GetMinDelay
  <2>4. CASE FlushDone BY <2>4, OnceQuiet DEF FlushDone
  <2>5. CASE EpollPipe BY <2>5, OnceQuiet DEF EpollPipe
  <2>6. CASE EpollTimeout BY <2>6, OnceQuiet DEF EpollTimeout
  <2>7. ASSUME NEW d \in Timer, FlushDue(d) PROVE OnceInv'
    BY <2>7, OnceQuiet DEF FlushDue
  <2>8. CASE Drain BY <2>8, OnceQuiet DEF Drain
  <2>9. CASE SwapList BY <2>9, OnceSwap
  <2>10. CASE RunNext BY <2>10, OnceRunNext
  <2>11. CASE RunDone BY <2>11, OnceQuiet DEF RunDone
  <2>12. CASE WritePipe(Loop) BY <2>12, OnceQuiet DEF WritePipe
  <2>13. CASE BodyEnd BY <2>13, OnceQuiet DEF BodyEnd
  <2>14. CASE TimerEnd BY <2>14, OnceQuiet DEF TimerEnd
  <2>15. ASSUME NEW ms \in Delay, TimerAgain(ms) PROVE OnceInv'
    BY <2>15, OnceQuiet DEF TimerAgain
  <2> QED
    BY <1>3, <2>1, <2>2, <2>3, <2>4, <2>5, <2>6, <2>7, <2>8, <2>9, <2>10, <2>11, <2>12,
       <2>13, <2>14, <2>15 DEF LoopStep
<1>4. CASE EpollOther BY <1>4, OnceQuiet DEF EpollOther
<1>5. CASE Shutdown BY <1>5, OnceExit
<1>6. CASE ShutdownWrite BY <1>6, OnceQuiet DEF ShutdownWrite
<1>7. CASE Joined BY <1>7, OnceQuiet DEF Joined
<1>8. CASE Tick BY <1>8, OnceQuiet DEF Tick
<1>9. CASE UNCHANGED vars BY <1>9, OnceQuiet DEF vars
<1> QED
  BY <1>1, <1>2, <1>3, <1>4, <1>5, <1>6, <1>7, <1>8, <1>9 DEF Next, OwnerStep, Destroyed

LEMMA OnceInit == Init => OnceInv
<1> SUFFICES ASSUME Init PROVE OnceInv
  OBVIOUS
<1>1. list_task = <<>> /\ list_swap = <<>> /\ \A t \in Task : runs[t] = 0
  BY DEF Init
<1>2. Single(<<>>) /\ ToSet(<<>>) = {}
  BY DEF Single, ToSet
<1> QED
  BY <1>1, <1>2 DEF OnceInv

\* No closure is started twice, for any number of threads and closures.
THEOREM StartedOnce == Spec => []AtMostOnce
<1>1. OnceInv => AtMostOnce
  BY DEF OnceInv, AtMostOnce
<1> QED
  BY <1>1, OnceInit, OnceStep, TypeCorrect, PTL DEF Spec

-----------------------------------------------------------------------------
(* The swapped list is empty when it is swapped again.                     *)

LEMMA SwapStep == TypeOK /\ SwapInv /\ [Next]_vars => SwapInv'
<1> SUFFICES ASSUME TypeOK, SwapInv, [Next]_vars PROVE SwapInv'
  OBVIOUS
<1> USE ConstantsAssumption DEF SwapInv, pollVars, TypeOK
<1>1. CASE ClientStep
  BY <1>1 DEF ClientStep, Async, DoDelayTask, WritePipe, Cancel
<1>2. CASE BodyStep
  BY <1>2 DEF BodyStep, AsyncInline, AsyncLoop, DelayInline
<1>3. CASE LoopStep
  <2>1. CASE RunLoop BY <2>1 DEF RunLoop
  <2>2. CASE LeaveLoop BY <2>2 DEF LeaveLoop
  <2>3. CASE GetMinDelay BY <2>3 DEF GetMinDelay
  <2>4. CASE FlushDone BY <2>4 DEF FlushDone
  <2>5. CASE EpollPipe BY <2>5 DEF EpollPipe
  <2>6. CASE EpollTimeout BY <2>6 DEF EpollTimeout
  <2>7. ASSUME NEW d \in Timer, FlushDue(d) PROVE SwapInv'
    BY <2>7 DEF FlushDue
  <2>8. CASE Drain BY <2>8 DEF Drain
  <2>9. CASE SwapList BY <2>9 DEF SwapList
  <2>10. CASE RunNext BY <2>10 DEF RunNext
  <2>11. CASE RunDone BY <2>11 DEF RunDone
  <2>12. CASE WritePipe(Loop) BY <2>12 DEF WritePipe
  <2>13. CASE BodyEnd BY <2>13 DEF BodyEnd, InBody
  <2>14. CASE TimerEnd BY <2>14 DEF TimerEnd, InBody
  <2>15. ASSUME NEW ms \in Delay, TimerAgain(ms) PROVE SwapInv'
    BY <2>15 DEF TimerAgain, InBody
  <2> QED
    BY <1>3, <2>1, <2>2, <2>3, <2>4, <2>5, <2>6, <2>7, <2>8, <2>9, <2>10, <2>11, <2>12,
       <2>13, <2>14, <2>15 DEF LoopStep
<1>4. CASE EpollOther BY <1>4 DEF EpollOther
<1>5. CASE Shutdown BY <1>5 DEF Shutdown
<1>6. CASE ShutdownWrite BY <1>6 DEF ShutdownWrite
<1>7. CASE Joined BY <1>7 DEF Joined
<1>8. CASE Tick BY <1>8 DEF Tick
<1>9. CASE UNCHANGED vars BY <1>9 DEF vars
<1> QED
  BY <1>1, <1>2, <1>3, <1>4, <1>5, <1>6, <1>7, <1>8, <1>9 DEF Next, OwnerStep, Destroyed

-----------------------------------------------------------------------------
(* EventPoller implements TaskExecutor: each step maps to a step of it.    *)

\* The queue of the executor: what is left of the swapped list, then the list.
queue == list_swap \o list_task

LEMMA QueueSet ==
  ASSUME TypeOK
  PROVE  /\ queue \in Seq(Closure)
         /\ ToSet(queue) = ToSet(list_swap) \cup ToSet(list_task)
<1>1. list_swap \in Seq(Closure) /\ list_task \in Seq(Closure)
  BY DEF TypeOK
<1>2. /\ queue \in Seq(Closure) /\ Len(queue) = Len(list_swap) + Len(list_task)
      /\ \A i \in 1 .. Len(list_swap) + Len(list_task) : queue[i] =
             IF i <= Len(list_swap) THEN list_swap[i] ELSE list_task[i - Len(list_swap)]
  BY <1>1, ConcatProperties DEF queue
<1>3. ASSUME NEW y \in ToSet(queue) PROVE y \in ToSet(list_swap) \cup ToSet(list_task)
  <2>1. PICK i \in 1 .. Len(list_swap) + Len(list_task) : y = queue[i]
    BY <1>2 DEF ToSet
  <2>2. CASE i <= Len(list_swap)
    <3>1. i \in DOMAIN list_swap /\ y = list_swap[i]
      BY <1>1, <1>2, <2>1, <2>2
    <3> QED
      BY <3>1 DEF ToSet
  <2>3. CASE ~ (i <= Len(list_swap))
    <3>1. i - Len(list_swap) \in DOMAIN list_task /\ y = list_task[i - Len(list_swap)]
      BY <1>1, <1>2, <2>1, <2>3
    <3> QED
      BY <3>1 DEF ToSet
  <2> QED
    BY <2>2, <2>3
<1>4. \A i \in DOMAIN list_swap : i \in DOMAIN queue /\ queue[i] = list_swap[i]
  BY <1>1, <1>2
<1>5. \A i \in DOMAIN list_task : /\ Len(list_swap) + i \in DOMAIN queue
                                /\ queue[Len(list_swap) + i] = list_task[i]
  BY <1>1, <1>2
<1>6. ToSet(list_swap) \subseteq ToSet(queue) /\ ToSet(list_task) \subseteq ToSet(queue)
  BY <1>4, <1>5 DEF ToSet
<1> QED
  BY <1>2, <1>3, <1>6

\* A sequence is cut where two sequences were put together.
LEMMA CutConcat ==
  ASSUME NEW s \in Seq(Closure), NEW t \in Seq(Closure)
  PROVE  /\ SubSeq(s \o t, 1, Len(s)) = s
         /\ SubSeq(s \o t, Len(s) + 1, Len(s \o t)) = t
<1> DEFINE q == s \o t
<1>1. /\ q \in Seq(Closure) /\ Len(q) = Len(s) + Len(t)
      /\ \A i \in 1 .. Len(s) + Len(t) :
            q[i] = IF i <= Len(s) THEN s[i] ELSE t[i - Len(s)]
  BY ConcatProperties
<1>2. Len(s) \in Nat /\ Len(t) \in Nat
  OBVIOUS
<1>3. /\ \A i \in 1 .. Len(q) : q[i] \in Closure
  BY <1>1
<1>4. /\ SubSeq(q, 1, Len(s)) \in Seq(Closure) /\ Len(SubSeq(q, 1, Len(s))) = Len(s)
      /\ \A i \in 1 .. Len(s) : SubSeq(q, 1, Len(s))[i] = q[i]
  BY <1>1, <1>2, <1>3, SubSeqProperties
<1>5. /\ SubSeq(q, Len(s) + 1, Len(q)) \in Seq(Closure)
      /\ Len(SubSeq(q, Len(s) + 1, Len(q))) = Len(t)
      /\ \A i \in 1 .. Len(t) : SubSeq(q, Len(s) + 1, Len(q))[i] = q[Len(s) + i]
  BY <1>1, <1>2, <1>3, SubSeqProperties
<1> HIDE DEF q
<1>6. SubSeq(q, 1, Len(s)) = s
  BY <1>1, <1>2, <1>4, SeqEqual
<1>7. \A i \in 1 .. Len(t) : SubSeq(q, Len(s) + 1, Len(q))[i] = t[i]
  BY <1>1, <1>2, <1>5
<1>8. SubSeq(q, Len(s) + 1, Len(q)) = t
  BY <1>2, <1>5, <1>7, SeqEqual
<1> QED
  BY <1>6, <1>8 DEF q

LEMMA ImplementsQuiet ==
  ASSUME UNCHANGED <<list_task, list_swap, cancelled, runs>>
  PROVE  UNCHANGED Executor!vars
BY DEF Executor!vars

\* A push behind the list is Enqueue, a push in front of it is Overtake.
LEMMA ImplementsPost ==
  ASSUME TypeOK, OnceInv, NEW x \in Closure, Post(x),
         UNCHANGED <<list_swap, cancelled, runs>>,
         x = Exit => owner = "alive", x # Exit => x \notin submitted
  PROVE  Executor!Enqueue(x) \/ Executor!Overtake(x)
<1>1. list_swap \in Seq(Closure) /\ list_task \in Seq(Closure) /\ queue \in Seq(Closure)
  BY QueueSet DEF TypeOK
<1>2. x \notin ToSet(queue)
  BY QueueSet DEF OnceInv
<1>3. x \in Task => runs[x] = 0
  BY ConstantsAssumption DEF OnceInv, TypeOK
<1>4. Executor!Fresh(x)
  BY <1>2, <1>3 DEF Executor!Fresh, Executor!Range, ToSet, queue
<1>5. CASE x \notin First
  <2>1. list_swap' \o list_task' = Append(queue, x)
    <3>1. list_task' = list_task \o <<x>> /\ list_swap' = list_swap
      BY <1>1, <1>5, AppendIsConcat DEF Post
    <3>2. <<x>> \in Seq(Closure)
      OBVIOUS
    <3>3. list_swap \o (list_task \o <<x>>) = (list_swap \o list_task) \o <<x>>
      BY <1>1, <3>2, ConcatAssociative
    <3> QED
      BY <1>1, <3>1, <3>3, AppendIsConcat DEF queue
  <2> QED
    BY <1>4, <1>5, <2>1 DEF Executor!Enqueue, queue
<1>6. CASE x \in First
  <2>1. /\ Len(list_swap) \in 0 .. Len(queue)
        /\ SubSeq(queue, 1, Len(list_swap)) = list_swap
        /\ SubSeq(queue, Len(list_swap) + 1, Len(queue)) = list_task
    BY <1>1, CutConcat, ConcatProperties DEF queue
  <2>2. list_swap' \o list_task' = (list_swap \o <<x>>) \o list_task
    <3>1. list_task' = <<x>> \o list_task /\ list_swap' = list_swap
      BY <1>6 DEF Post
    <3>2. <<x>> \in Seq(Closure)
      OBVIOUS
    <3> QED
      BY <1>1, <3>1, <3>2, ConcatAssociative
  <2>3. \E i \in 0 .. Len(queue) :
           list_swap' \o list_task'
             = SubSeq(queue, 1, i) \o <<x>> \o SubSeq(queue, i + 1, Len(queue))
    BY <2>1, <2>2
  <2> QED
    BY <1>4, <1>6, <2>3 DEF Executor!Overtake, queue
<1> QED
  BY <1>5, <1>6

LEMMA ImplementsRunNext ==
  ASSUME TypeOK, RunNext
  PROVE  Executor!Take
<1>1. list_swap \in Seq(Closure) /\ list_task \in Seq(Closure) /\ list_swap # <<>>
  BY DEF TypeOK, RunNext
<1>2. Head(queue) = Head(list_swap) /\ Tail(queue) = Tail(list_swap) \o list_task /\ queue # <<>>
  <2>1. Head(queue) = Head(list_swap) /\ queue # <<>>
    BY <1>1, ConcatProperties DEF queue
  <2>2. /\ queue \in Seq(Closure) /\ Len(queue) = Len(list_swap) + Len(list_task)
        /\ \A i \in 1 .. Len(list_swap) + Len(list_task) : queue[i] =
               IF i <= Len(list_swap) THEN list_swap[i] ELSE list_task[i - Len(list_swap)]
    BY <1>1, ConcatProperties DEF queue
  <2>3. /\ Tail(list_swap) \in Seq(Closure) /\ Len(Tail(list_swap)) = Len(list_swap) - 1
        /\ \A i \in 1 .. Len(list_swap) - 1 : Tail(list_swap)[i] = list_swap[i + 1]
    BY <1>1, HeadTailProperties
  <2>4. /\ Tail(queue) \in Seq(Closure) /\ Len(Tail(queue)) = Len(queue) - 1
        /\ \A i \in 1 .. Len(queue) - 1 : Tail(queue)[i] = queue[i + 1]
    BY <2>1, <2>2, HeadTailProperties
  <2> DEFINE r == Tail(list_swap) \o list_task
  <2>5. /\ r \in Seq(Closure) /\ Len(r) = Len(list_swap) - 1 + Len(list_task)
        /\ \A i \in 1 .. Len(list_swap) - 1 + Len(list_task) : r[i] =
               IF i <= Len(list_swap) - 1 THEN Tail(list_swap)[i]
                                          ELSE list_task[i - (Len(list_swap) - 1)]
    BY <1>1, <2>3, ConcatProperties
  <2> HIDE DEF r
  <2>6. Len(Tail(queue)) = Len(r)
    BY <1>1, <2>2, <2>4, <2>5
  <2>7. \A i \in 1 .. Len(Tail(queue)) : Tail(queue)[i] = r[i]
    BY <1>1, <2>2, <2>3, <2>4, <2>5
  <2>8. Tail(queue) = r
    BY <2>4, <2>5, <2>6, <2>7, SeqEqual
  <2> QED
    BY <2>1, <2>8 DEF r
<1>3. list_swap' \o list_task' = Tail(queue) /\ UNCHANGED cancelled
  BY <1>2 DEF RunNext
<1>4. runs' = IF Head(queue) \in Task \ cancelled THEN [runs EXCEPT ![Head(queue)] = @ + 1]
                                              ELSE runs
  BY <1>2, ConstantsAssumption DEF RunNext
<1> QED
  BY <1>2, <1>3, <1>4 DEF Executor!Take, queue

LEMMA ImplementsSwap ==
  ASSUME TypeOK, SwapInv, SwapList
  PROVE  UNCHANGED Executor!vars
<1>1. list_swap = <<>> /\ list_swap' = list_task /\ list_task' = <<>>
  BY DEF SwapInv, SwapList
<1>2. list_swap' \o list_task' = list_swap \o list_task
  BY <1>1, ConcatEmptySeq DEF TypeOK
<1> QED
  BY <1>2 DEF SwapList, ghostVars, Executor!vars

LEMMA ImplementsInline ==
  ASSUME TypeOK, OnceInv, NEW t \in Task, AsyncInline(t)
  PROVE  Executor!Inline(t)
<1>1. t \notin submitted /\ t # Exit
  BY ConstantsAssumption DEF AsyncInline
<1>2. t \notin ToSet(queue) /\ runs[t] = 0
  BY <1>1, QueueSet DEF OnceInv, TypeOK
<1>3. Executor!Fresh(t)
  BY <1>2 DEF Executor!Fresh, Executor!Range, ToSet, queue
<1> QED
  BY <1>3 DEF Executor!Inline, AsyncInline, pollVars

\* EventPoller is a TaskExecutor: closures are taken in the order of the queue, from its
\* front, once, by the loop, an inline call or the destructor; async appends and
\* async_first overtakes at most what is not swapped out yet.
THEOREM Implements == Spec => ImplementsTaskExecutor
<1>1. Init => Executor!Init
  <2> SUFFICES ASSUME Init PROVE Executor!Init
    OBVIOUS
  <2>1. list_swap \o list_task = <<>>
    BY ConcatEmptySeq, EmptySeq DEF Init
  <2> QED
    BY <2>1 DEF Init, Executor!Init
<1>2. TypeOK /\ OnceInv /\ SwapInv /\ [Next]_vars => [Executor!Next]_(Executor!vars)
  <2> SUFFICES ASSUME TypeOK, OnceInv, SwapInv, [Next]_vars
               PROVE  Executor!Next \/ UNCHANGED Executor!vars
    OBVIOUS
  <2> USE DEF pollVars, ghostVars
  <2>1. ASSUME NEW x \in Closure, Executor!Enqueue(x) \/ Executor!Overtake(x)
        PROVE  Executor!Next
    BY <2>1 DEF Executor!Next, Closure
  <2>2. CASE ClientStep
    <3>1. ASSUME NEW c \in Client, NEW t \in Task, NEW sync \in BOOLEAN, Async(c, t, sync)
          PROVE  Executor!Next
      <4>1. t \in Closure /\ t # Exit
        BY ConstantsAssumption DEF Closure
      <4> QED
        BY <2>1, <3>1, <4>1, ImplementsPost DEF Async
    <3>2. ASSUME NEW c \in Client, NEW d \in Timer, NEW ms \in Delay, DoDelayTask(c, d, ms)
          PROVE  Executor!Next
      <4>1. d \in Closure /\ d # Exit
        BY ConstantsAssumption DEF Closure
      <4> QED
        BY <2>1, <3>2, <4>1, ImplementsPost DEF DoDelayTask
    <3>3. ASSUME NEW c \in Client, WritePipe(c) PROVE UNCHANGED Executor!vars
      BY <3>3, ImplementsQuiet DEF WritePipe
    <3>4. ASSUME NEW x \in Task \cup Timer, Cancel(x) PROVE Executor!Next
      <4>1. Executor!Cancel(x)
        BY <3>4 DEF Cancel, Executor!Cancel
      <4> QED
        BY <4>1 DEF Executor!Next
    <3> QED
      BY <2>2, <3>1, <3>2, <3>3, <3>4 DEF ClientStep
  <2>3. CASE BodyStep
    <3>1. ASSUME NEW t \in Task, AsyncInline(t) PROVE Executor!Next
      BY <3>1, ImplementsInline DEF Executor!Next
    <3>2. ASSUME NEW t \in Task, AsyncLoop(t) PROVE Executor!Next
      <4>1. t \in Closure /\ t # Exit
        BY ConstantsAssumption DEF Closure
      <4> QED
        BY <2>1, <3>2, <4>1, ImplementsPost DEF AsyncLoop
    <3>3. ASSUME NEW d \in Timer, NEW ms \in Delay, DelayInline(d, ms)
          PROVE  UNCHANGED Executor!vars
      BY <3>3, ImplementsQuiet DEF DelayInline
    <3> QED
      BY <2>3, <3>1, <3>2, <3>3 DEF BodyStep
  <2>4. CASE LoopStep
    <3> DEFINE Same == UNCHANGED Executor!vars
    <3>1. CASE RunLoop BY <3>1, ImplementsQuiet DEF RunLoop
    <3>2. CASE LeaveLoop BY <3>2, ImplementsQuiet DEF LeaveLoop
    <3>3. CASE GetMinDelay BY <3>3, ImplementsQuiet DEF GetMinDelay
    <3>4. CASE FlushDone BY <3>4, ImplementsQuiet DEF FlushDone
    <3>5. CASE EpollPipe BY <3>5, ImplementsQuiet DEF EpollPipe
    <3>6. CASE EpollTimeout BY <3>6, ImplementsQuiet DEF EpollTimeout
    <3>7. ASSUME NEW d \in Timer, FlushDue(d) PROVE Same
      BY <3>7, ImplementsQuiet DEF FlushDue
    <3>8. CASE Drain BY <3>8, ImplementsQuiet DEF Drain
    <3>9. CASE SwapList BY <3>9, ImplementsSwap
    <3>10. CASE RunNext BY <3>10, ImplementsRunNext DEF Executor!Next
    <3>11. CASE RunDone BY <3>11, ImplementsQuiet DEF RunDone
    <3>12. CASE WritePipe(Loop) BY <3>12, ImplementsQuiet DEF WritePipe
    <3>13. CASE BodyEnd BY <3>13, ImplementsQuiet DEF BodyEnd
    <3>14. CASE TimerEnd BY <3>14, ImplementsQuiet DEF TimerEnd
    <3>15. ASSUME NEW ms \in Delay, TimerAgain(ms) PROVE Same
      BY <3>15, ImplementsQuiet DEF TimerAgain
    <3> HIDE DEF Same
    <3>16. Executor!Next \/ Same
      BY <2>4, <3>1, <3>2, <3>3, <3>4, <3>5, <3>6, <3>7, <3>8, <3>9, <3>10, <3>11, <3>12,
         <3>13, <3>14, <3>15 DEF LoopStep, Same
    <3> QED
      BY <3>16 DEF Same
  <2>5. CASE EpollOther BY <2>5, ImplementsQuiet DEF EpollOther
  <2>6. CASE Shutdown
    <3>1. Exit \in Closure
      BY DEF Closure
    <3> QED
      BY <2>1, <2>6, <3>1, ImplementsPost DEF Shutdown
  <2>7. CASE ShutdownWrite BY <2>7, ImplementsQuiet DEF ShutdownWrite
  <2>8. CASE Joined BY <2>8, ImplementsQuiet DEF Joined
  <2>9. CASE Tick BY <2>9, ImplementsQuiet DEF Tick
  <2>10. CASE UNCHANGED vars BY <2>10, ImplementsQuiet DEF vars
  <2> QED
    BY <2>2, <2>3, <2>4, <2>5, <2>6, <2>7, <2>8, <2>9, <2>10 DEF Next, OwnerStep, Destroyed
<1>3. Init => SwapInv
  BY DEF Init, SwapInv
<1> QED
  BY <1>1, <1>2, <1>3, OnceInit, OnceStep, SwapStep, TypeCorrect, PTL
     DEF Spec, ImplementsTaskExecutor, Executor!Spec

-----------------------------------------------------------------------------
(* Delayed tasks.                                                          *)

LEMMA TimeQuiet ==
  ASSUME TimeInv, UNCHANGED <<now, now_time, delay_task_map, task_copy>>,
         submitted \subseteq submitted', current' = current \/ current' \notin Timer
  PROVE  TimeInv'
BY DEF TimeInv

LEMMA TimeStep == TypeOK /\ OnceInv /\ TimeInv /\ [Next]_vars => TimeInv'
<1> SUFFICES ASSUME TypeOK, OnceInv, TimeInv, [Next]_vars PROVE TimeInv'
  OBVIOUS
<1> USE DEF timeVars, ghostVars
<1>1. CASE ClientStep
  <2>1. ASSUME NEW c \in Client, NEW t \in Task, NEW sync \in BOOLEAN, Async(c, t, sync)
        PROVE  TimeInv'
    BY <2>1, TimeQuiet DEF Async
  <2>2. ASSUME NEW c \in Client, NEW d \in Timer, NEW ms \in Delay, DoDelayTask(c, d, ms)
        PROVE  TimeInv'
    BY <2>2, TimeQuiet DEF DoDelayTask
  <2>3. ASSUME NEW c \in Client, WritePipe(c) PROVE TimeInv'
    BY <2>3, TimeQuiet DEF WritePipe
  <2>4. ASSUME NEW x \in Task \cup Timer, Cancel(x) PROVE TimeInv'
    BY <2>4, TimeQuiet DEF Cancel
  <2> QED
    BY <1>1, <2>1, <2>2, <2>3, <2>4 DEF ClientStep
<1>2. CASE BodyStep
  <2>1. ASSUME NEW t \in Task, AsyncInline(t) PROVE TimeInv'
    BY <2>1, TimeQuiet DEF AsyncInline
  <2>2. ASSUME NEW t \in Task, AsyncLoop(t) PROVE TimeInv'
    BY <2>2, TimeQuiet DEF AsyncLoop
  <2>3. ASSUME NEW d \in Timer, NEW ms \in Delay, DelayInline(d, ms) PROVE TimeInv'
    BY <2>3 DEF DelayInline, TimeInv
  <2> QED
    BY <1>2, <2>1, <2>2, <2>3 DEF BodyStep
<1>3. CASE LoopStep
  <2>1. CASE RunLoop BY <2>1, TimeQuiet DEF RunLoop
  <2>2. CASE LeaveLoop BY <2>2, TimeQuiet DEF LeaveLoop
  <2>3. CASE GetMinDelay
    <3>1. now \in Nat /\ now' = now /\ UNCHANGED <<submitted, current>>
      BY <2>3, TimeIsNat DEF GetMinDelay, TypeOK
    <3>2. now_time' = now \/ now_time' = now_time
      BY <2>3 DEF GetMinDelay
    <3>3. delay_task_map' \cup task_copy' \subseteq delay_task_map \cup task_copy
      BY <2>3 DEF GetMinDelay
    <3> QED
      BY <3>1, <3>2, <3>3 DEF TimeInv
  <2>4. CASE FlushDone BY <2>4 DEF FlushDone, TimeInv
  <2>5. CASE EpollPipe BY <2>5, TimeQuiet DEF EpollPipe
  <2>6. CASE EpollTimeout BY <2>6, TimeQuiet DEF EpollTimeout
  <2>7. ASSUME NEW d \in Timer, FlushDue(d) PROVE TimeInv'
    BY <2>7 DEF FlushDue, TimeInv
  <2>8. CASE Drain BY <2>8, TimeQuiet DEF Drain
  <2>9. CASE SwapList BY <2>9, TimeQuiet DEF SwapList
  <2>10. CASE RunNext
    <3> DEFINE x == Head(list_swap)
    <3>1. x \in ToSet(list_swap)
      BY <2>10, TailDrops DEF RunNext, TypeOK, OnceInv
    <3>2. x \in Timer => x \in submitted
      BY <3>1, ConstantsAssumption DEF OnceInv
    <3>3. /\ UNCHANGED <<now, now_time, task_copy, submitted>>
          /\ \/ UNCHANGED <<delay_task_map, current>>
             \/ x \in Timer /\ delay_task_map' = delay_task_map \cup {x} /\ UNCHANGED current
             \/ x \in Task /\ current' = x /\ UNCHANGED delay_task_map
      BY <2>10 DEF RunNext
    <3> QED
      BY <3>2, <3>3, ConstantsAssumption DEF TimeInv
  <2>11. CASE RunDone BY <2>11, TimeQuiet, ConstantsAssumption DEF RunDone
  <2>12. CASE WritePipe(Loop) BY <2>12, TimeQuiet DEF WritePipe
  <2>13. CASE BodyEnd BY <2>13, TimeQuiet, ConstantsAssumption DEF BodyEnd
  <2>14. CASE TimerEnd BY <2>14, TimeQuiet, ConstantsAssumption DEF TimerEnd
  <2>15. ASSUME NEW ms \in Delay, TimerAgain(ms) PROVE TimeInv'
    BY <2>15, ConstantsAssumption DEF TimerAgain, TimeInv
  <2> QED
    BY <1>3, <2>1, <2>2, <2>3, <2>4, <2>5, <2>6, <2>7, <2>8, <2>9, <2>10, <2>11, <2>12,
       <2>13, <2>14, <2>15 DEF LoopStep
<1>4. CASE EpollOther BY <1>4, TimeQuiet, ConstantsAssumption DEF EpollOther
<1>5. CASE Shutdown BY <1>5, TimeQuiet DEF Shutdown
<1>6. CASE ShutdownWrite BY <1>6, TimeQuiet DEF ShutdownWrite
<1>7. CASE Joined BY <1>7, TimeQuiet DEF Joined
<1>8. CASE Tick
  <2>1. now \in Nat /\ now_time \in Nat
    BY TimeIsNat DEF TypeOK
  <2> QED
    BY <1>8, <2>1 DEF Tick, TimeInv
<1>9. CASE UNCHANGED vars BY <1>9, TimeQuiet DEF vars
<1> QED
  BY <1>1, <1>2, <1>3, <1>4, <1>5, <1>6, <1>7, <1>8, <1>9 DEF Next, OwnerStep, Destroyed

LEMMA TimeInit == Init => TimeInv
BY ConstantsAssumption DEF Init, TimeInv

\* No delayed task starts early, or after it was cancelled, for any delays and any
\* number of timers: only flushDelayTask starts one, and it compares with a clock it
\* read before.
THEOREM TimersOnTime == Spec => TimersKeepTime
<1> DEFINE Start(d) == current # d /\ current' = d
<1> DEFINE OnTime == \A d \in Timer : Start(d) => time_line[d] <= now /\ d \notin cancelled
<1>1. TypeOK /\ TimeInv /\ [Next]_vars => [OnTime]_vars
  <2> SUFFICES ASSUME TypeOK, TimeInv, Next PROVE OnTime
    OBVIOUS
  <2>1. ASSUME current' = current \/ current' \notin Timer PROVE OnTime
    BY <2>1
  <2>2. ASSUME NEW e \in Timer, FlushDue(e) PROVE OnTime
    <3>1. CASE e \in cancelled
      <4>1. current' = current
        BY <2>2, <3>1 DEF FlushDue
      <4> QED
        BY <2>1, <4>1
    <3>2. CASE e \notin cancelled
      <4>1. current' = e
        BY <2>2, <3>2 DEF FlushDue
      <4>2. time_line[e] <= now_time /\ now_time <= now
        BY <2>2 DEF FlushDue, TimeInv
      <4>3. time_line[e] \in Nat /\ now_time \in Nat /\ now \in Nat
        BY TimeIsNat DEF TypeOK
      <4>4. time_line[e] <= now
        BY <4>2, <4>3
      <4> QED
        BY <3>2, <4>1, <4>4
    <3> QED
      BY <3>1, <3>2
  <2> HIDE DEF OnTime
  <2>3. CASE ClientStep
    BY <2>1, <2>3 DEF ClientStep, Async, DoDelayTask, WritePipe, Cancel
  <2>4. CASE BodyStep
    BY <2>1, <2>4 DEF BodyStep, AsyncInline, AsyncLoop, DelayInline
  <2>5. CASE LoopStep
    <3>1. CASE RunNext
      BY <2>1, <3>1, ConstantsAssumption DEF RunNext
    <3>2. CASE \E ms \in Delay : TimerAgain(ms)
      BY <2>1, <3>2, ConstantsAssumption DEF TimerAgain
    <3>3. CASE RunDone
      BY <2>1, <3>3, ConstantsAssumption DEF RunDone
    <3>4. CASE GetMinDelay \/ FlushDone \/ EpollPipe \/ EpollTimeout \/ RunLoop \/ LeaveLoop
      BY <2>1, <3>4 DEF GetMinDelay, FlushDone, EpollPipe, EpollTimeout, RunLoop, LeaveLoop
    <3>5. CASE Drain \/ SwapList \/ WritePipe(Loop)
      BY <2>1, <3>5 DEF Drain, SwapList, WritePipe
    <3>6. CASE BodyEnd \/ TimerEnd
      BY <2>1, <3>6, ConstantsAssumption DEF BodyEnd, TimerEnd
    <3> QED
      BY <2>5, <2>2, <3>1, <3>2, <3>3, <3>4, <3>5, <3>6 DEF LoopStep
  <2>6. CASE EpollOther
    BY <2>1, <2>6, ConstantsAssumption DEF EpollOther
  <2>7. CASE Shutdown \/ OwnerStep \/ Destroyed \/ Tick
    BY <2>1, <2>7 DEF Shutdown, OwnerStep, ShutdownWrite, Joined, Destroyed, Tick, vars
  <2> QED
    BY <2>3, <2>4, <2>5, <2>6, <2>7 DEF Next
<1>2. TypeOK /\ OnceInv /\ TimeInv /\ [Next]_vars => TimeInv'
  BY TimeStep
<1>3. TypeOK /\ TimeInv /\ [Next]_vars
        => [\A d \in Timer : current # d /\ current' = d
                                => time_line[d] <= now /\ d \notin cancelled]_vars
  BY <1>1
<1> QED
  BY <1>2, <1>3, TimeInit, OnceInit, OnceStep, TypeCorrect, PTL DEF Spec, TimersKeepTime

-----------------------------------------------------------------------------
(* The timeout of epoll_wait.                                              *)

\* A delay that is not 0 and fits an int is slept for exactly.
LEMMA EpollWaitFinite ==
  ASSUME MaxTime <= IntMax, NEW minDelay \in 1 .. MaxTime, EpollWait(minDelay)
  PROVE  wake_at' = now + minDelay
<1>1. minDelay \in 0 .. 2 * (IntMax + 1) - 1 /\ 2 * (IntMax + 1) > 0
  BY ConstantsAssumption
<1>2. \A n \in Int : n > 0 => \A a \in 0 .. n - 1 : a % n = a
  OBVIOUS
<1>3. minDelay % (2 * (IntMax + 1)) = minDelay
  BY <1>1, <1>2, ConstantsAssumption
<1> QED
  BY <1>1, <1>3, ConstantsAssumption DEF EpollWait

\* Steps that start neither a flush nor a timer's body.
LEMMA DueQuiet ==
  ASSUME DueInv, UNCHANGED <<now_time, delay_task_map, time_line>>,
         \/ UNCHANGED <<loop, current>>
         \/ loop' \notin {"flush", "body"}
         \/ loop' = "body" /\ current' \notin Timer
         \/ loop = "flush" \/ (loop = "body" /\ current \in Timer)
  PROVE  DueInv'
BY DEF DueInv

LEMMA DueInit == Init => DueInv
BY DEF Init, DueInv

LEMMA DueStep ==
  ASSUME 0 \notin Delay
  PROVE  TypeOK /\ TimeInv /\ DueInv /\ [Next]_vars => DueInv'
<1> SUFFICES ASSUME TypeOK, TimeInv, DueInv, [Next]_vars PROVE DueInv'
  OBVIOUS
<1> USE DEF timeVars, ghostVars
<1>0. now \in Nat /\ now_time \in Nat /\ now_time <= now
      /\ time_line \in [Timer -> Nat] /\ delay_task_map \subseteq Timer
      /\ delay_task_map \subseteq submitted
  BY TimeIsNat DEF TypeOK, TimeInv
<1>1. CASE ClientStep
  <2>1. ASSUME NEW c \in Client, NEW t \in Task, NEW sync \in BOOLEAN, Async(c, t, sync)
        PROVE  DueInv'
    BY <2>1, DueQuiet DEF Async
  <2>2. ASSUME NEW c \in Client, NEW d \in Timer, NEW ms \in Delay, DoDelayTask(c, d, ms)
        PROVE  DueInv'
    <3>1. d \notin delay_task_map /\ UNCHANGED <<loop, current, now_time, delay_task_map>>
      BY <1>0, <2>2 DEF DoDelayTask
    <3>2. \A e \in delay_task_map : time_line'[e] = time_line[e]
      BY <1>0, <2>2, <3>1 DEF DoDelayTask
    <3> QED
      BY <3>1, <3>2 DEF DueInv
  <2>3. ASSUME NEW c \in Client, WritePipe(c) PROVE DueInv'
    BY <2>3, DueQuiet DEF WritePipe
  <2>4. ASSUME NEW x \in Task \cup Timer, Cancel(x) PROVE DueInv'
    BY <2>4, DueQuiet DEF Cancel
  <2> QED
    BY <1>1, <2>1, <2>2, <2>3, <2>4 DEF ClientStep
<1>2. CASE BodyStep
  <2>1. ASSUME NEW t \in Task, AsyncInline(t) PROVE DueInv'
    BY <2>1, DueQuiet DEF AsyncInline
  <2>2. ASSUME NEW t \in Task, AsyncLoop(t) PROVE DueInv'
    BY <2>2, DueQuiet DEF AsyncLoop
  <2>3. ASSUME NEW d \in Timer, NEW ms \in Delay, DelayInline(d, ms) PROVE DueInv'
    <3>1. UNCHANGED <<loop, current, now_time>>
          /\ delay_task_map' = delay_task_map \cup {d}
          /\ time_line' = [time_line EXCEPT ![d] = now + ms]
      BY <2>3 DEF DelayInline
    <3>2. now + ms > now_time
      BY <1>0, ConstantsAssumption
    <3>3. time_line'[d] = now + ms
      BY <1>0, <3>1
    <3>4. \A e \in delay_task_map : e # d => time_line'[e] = time_line[e]
      BY <1>0, <3>1
    <3> QED
      BY <3>1, <3>2, <3>3, <3>4 DEF DueInv
  <2> QED
    BY <1>2, <2>1, <2>2, <2>3 DEF BodyStep
<1>3. CASE LoopStep
  <2>1. CASE RunLoop BY <2>1, DueQuiet DEF RunLoop
  <2>2. CASE LeaveLoop BY <2>2, DueQuiet DEF LeaveLoop
  <2>3. CASE GetMinDelay BY <2>3 DEF GetMinDelay, EpollWait, DueInv
  <2>4. CASE FlushDone BY <2>4 DEF FlushDone, EpollWait, DueInv
  <2>5. CASE EpollPipe BY <2>5, DueQuiet DEF EpollPipe
  <2>6. CASE EpollTimeout BY <2>6, DueQuiet DEF EpollTimeout
  <2>7. ASSUME NEW d \in Timer, FlushDue(d) PROVE DueInv'
    BY <2>7, DueQuiet DEF FlushDue
  <2>8. CASE Drain BY <2>8, DueQuiet DEF Drain
  <2>9. CASE SwapList BY <2>9, DueQuiet DEF SwapList
  <2>10. CASE RunNext BY <2>10, ConstantsAssumption DEF RunNext, DueInv
  <2>11. CASE RunDone BY <2>11, DueQuiet, ConstantsAssumption DEF RunDone
  <2>12. CASE WritePipe(Loop) BY <2>12, DueQuiet DEF WritePipe
  <2>13. CASE BodyEnd BY <2>13, DueQuiet DEF BodyEnd
  <2>14. CASE TimerEnd BY <2>14, DueQuiet DEF TimerEnd, InBody
  <2>15. ASSUME NEW ms \in Delay, TimerAgain(ms) PROVE DueInv'
    <3>1. current \in Timer /\ loop = "body" /\ UNCHANGED now_time
          /\ delay_task_map' = delay_task_map \cup {current}
          /\ time_line' = [time_line EXCEPT ![current] = ms + now_time]
      BY <2>15 DEF TimerAgain, InBody
    <3>2. ms + now_time > now_time
      BY <1>0, ConstantsAssumption
    <3>3. time_line'[current] = ms + now_time
      BY <1>0, <3>1
    <3>4. \A e \in delay_task_map : e # current => time_line'[e] = time_line[e]
      BY <1>0, <3>1
    <3> QED
      BY <3>1, <3>2, <3>3, <3>4 DEF DueInv
  <2> QED
    BY <1>3, <2>1, <2>2, <2>3, <2>4, <2>5, <2>6, <2>7, <2>8, <2>9, <2>10, <2>11, <2>12,
       <2>13, <2>14, <2>15 DEF LoopStep
<1>4. CASE EpollOther BY <1>4, DueQuiet, ConstantsAssumption DEF EpollOther
<1>5. CASE Shutdown BY <1>5, DueQuiet DEF Shutdown
<1>6. CASE ShutdownWrite BY <1>6, DueQuiet DEF ShutdownWrite
<1>7. CASE Joined BY <1>7, DueQuiet DEF Joined
<1>8. CASE Tick BY <1>8, DueQuiet DEF Tick
<1>9. CASE UNCHANGED vars BY <1>9, DueQuiet DEF vars
<1> QED
  BY <1>1, <1>2, <1>3, <1>4, <1>5, <1>6, <1>7, <1>8, <1>9 DEF Next, OwnerStep, Destroyed

\* A loop that goes on sleeping keeps its timeout, and the clock only advances.
LEMMA SleepQuiet ==
  ASSUME TypeOK, NoOversleep, UNCHANGED <<now_time, delay_task_map, wake_at>>,
         \/ UNCHANGED loop
         \/ loop' # "sleep",
         now' \in Nat, now <= now',
         \A d \in delay_task_map : time_line'[d] = time_line[d]
  PROVE  NoOversleep'
<1> SUFFICES ASSUME loop' = "sleep", NEW d \in delay_task_map
             PROVE  wake_at # Never /\ wake_at + now_time <= time_line[d] + now'
  BY DEF NoOversleep
<1>1. wake_at # Never /\ wake_at + now_time <= time_line[d] + now
  BY DEF NoOversleep
<1>2. wake_at \in Nat /\ now \in Nat /\ now_time \in Nat /\ time_line[d] \in Nat
  BY <1>1, TimeIsNat DEF TypeOK
<1> QED
  BY <1>1, <1>2

\* The loop falls asleep until the first key of a map nothing of which is due.
LEMMA SleepUntilFirst ==
  ASSUME TypeOK, MaxTime <= IntMax, NEW map, map # {}, map \subseteq Timer,
         NEW t \in Time, \A d \in map : time_line[d] > t, EpollWait(FirstKey(map) - t)
  PROVE  /\ wake_at' = now + (FirstKey(map) - t) /\ wake_at' # Never
         /\ \A d \in map : wake_at' + t <= time_line[d] + now
<1>1. /\ FirstKey(map) \in Time
      /\ \E d \in map : FirstKey(map) = time_line[d]
      /\ \A d \in map : FirstKey(map) <= time_line[d]
  BY FirstKeyIsLeast DEF TypeOK
<1>2. t \in 0 .. MaxTime /\ now \in 0 .. MaxTime /\ FirstKey(map) \in 0 .. MaxTime
      /\ \A d \in map : time_line[d] \in Nat
  BY <1>1, TimeIsNat DEF Time, TypeOK
<1>3. FirstKey(map) > t
  BY <1>1
<1>4. FirstKey(map) - t \in 1 .. MaxTime
  BY <1>2, <1>3, ConstantsAssumption
<1>5. wake_at' = now + (FirstKey(map) - t)
  BY <1>4, EpollWaitFinite
<1> QED
  BY <1>1, <1>2, <1>3, <1>5 DEF Never

LEMMA SleepStep ==
  ASSUME MaxTime <= IntMax
  PROVE  TypeOK /\ TimeInv /\ DueInv /\ NoOversleep /\ [Next]_vars => NoOversleep'
<1> SUFFICES ASSUME TypeOK, TimeInv, DueInv, NoOversleep, [Next]_vars PROVE NoOversleep'
  OBVIOUS
<1> USE DEF timeVars, ghostVars
<1>0. now \in Nat /\ now <= now /\ delay_task_map \subseteq submitted
  BY TimeIsNat DEF TypeOK, TimeInv
<1>1. CASE ClientStep
  <2>1. ASSUME NEW c \in Client, NEW t \in Task, NEW sync \in BOOLEAN, Async(c, t, sync)
        PROVE  NoOversleep'
    BY <1>0, <2>1, SleepQuiet DEF Async
  <2>2. ASSUME NEW c \in Client, NEW d \in Timer, NEW ms \in Delay, DoDelayTask(c, d, ms)
        PROVE  NoOversleep'
    <3>1. \A e \in delay_task_map : time_line'[e] = time_line[e]
      BY <1>0, <2>2 DEF DoDelayTask, TypeOK
    <3> QED
      BY <1>0, <2>2, <3>1, SleepQuiet DEF DoDelayTask
  <2>3. ASSUME NEW c \in Client, WritePipe(c) PROVE NoOversleep'
    BY <1>0, <2>3, SleepQuiet DEF WritePipe
  <2>4. ASSUME NEW x \in Task \cup Timer, Cancel(x) PROVE NoOversleep'
    BY <1>0, <2>4, SleepQuiet DEF Cancel
  <2> QED
    BY <1>1, <2>1, <2>2, <2>3, <2>4 DEF ClientStep
<1>2. CASE BodyStep
  BY <1>2 DEF BodyStep, AsyncInline, AsyncLoop, DelayInline, InBody, NoOversleep
<1>3. CASE LoopStep
  <2>1. CASE GetMinDelay
    <3>1. CASE delay_task_map = {}
      BY <2>1, <3>1 DEF GetMinDelay, NoOversleep
    <3>2. CASE delay_task_map # {} /\ FirstKey(delay_task_map) > now
      <4>1. ~ (FirstKey(delay_task_map) <= now)
        BY <3>2, KeyIsNat, TimeIsNat DEF TypeOK
      <4>2. /\ EpollWait(FirstKey(delay_task_map) - now) /\ now_time' = now
            /\ UNCHANGED <<now, delay_task_map, time_line>>
        BY <2>1, <3>2, <4>1 DEF GetMinDelay
      <4>3. \A d \in delay_task_map : time_line[d] > now
        <5>1. \A d \in delay_task_map : FirstKey(delay_task_map) <= time_line[d]
          BY <3>2, FirstKeyIsLeast DEF TypeOK
        <5>2. FirstKey(delay_task_map) \in Nat /\ \A d \in delay_task_map : time_line[d] \in Nat
          BY <3>2, KeyIsNat, TimeIsNat DEF TypeOK
        <5> QED
          BY <1>0, <3>2, <5>1, <5>2
      <4>4. \A d \in delay_task_map : wake_at' + now <= time_line[d] + now /\ wake_at' # Never
        BY <3>2, <4>2, <4>3, SleepUntilFirst DEF TypeOK
      <4> QED
        BY <4>2, <4>4 DEF NoOversleep
    <3>3. CASE delay_task_map # {} /\ ~ (FirstKey(delay_task_map) > now)
      BY <2>1, <3>3 DEF GetMinDelay, NoOversleep
    <3> QED
      BY <3>1, <3>2, <3>3
  <2>2. CASE FlushDone
    <3> DEFINE rest == task_copy \cup delay_task_map
    <3>1. /\ delay_task_map' = rest /\ UNCHANGED <<now, now_time, time_line>>
          /\ loop = "flush" /\ \A d \in task_copy : time_line[d] > now_time
      BY <2>2 DEF FlushDone
    <3>2. \A d \in rest : time_line[d] > now_time
      BY <3>1 DEF DueInv
    <3>3. CASE rest = {}
      BY <3>1, <3>3 DEF NoOversleep
    <3>4. CASE rest # {}
      <4>1. EpollWait(FirstKey(rest) - now_time)
        BY <2>2, <3>4 DEF FlushDone
      <4>2. rest \subseteq Timer /\ now_time \in Time
        BY DEF TypeOK
      <4> HIDE DEF rest
      <4>3. \A d \in rest : wake_at' + now_time <= time_line[d] + now /\ wake_at' # Never
        BY <3>2, <3>4, <4>1, <4>2, SleepUntilFirst
      <4> QED
        BY <3>1, <4>3 DEF NoOversleep
    <3> QED
      BY <3>3, <3>4
  <2>3. ASSUME NEW d \in Timer, FlushDue(d) PROVE NoOversleep'
    BY <2>3 DEF FlushDue, NoOversleep
  <2>4. CASE RunLoop \/ LeaveLoop \/ EpollPipe \/ EpollTimeout
    BY <2>4 DEF RunLoop, LeaveLoop, EpollPipe, EpollTimeout, NoOversleep
  <2>5. CASE Drain \/ SwapList \/ RunNext
    BY <2>5 DEF Drain, SwapList, RunNext, NoOversleep
  <2>6. CASE RunDone
    BY <2>6 DEF RunDone, NoOversleep
  <2>7. CASE WritePipe(Loop)
    BY <1>0, <2>7, SleepQuiet DEF WritePipe
  <2>8. CASE BodyEnd \/ TimerEnd
    BY <2>8 DEF BodyEnd, TimerEnd, NoOversleep
  <2>9. CASE \E ms \in Delay : TimerAgain(ms)
    BY <2>9 DEF TimerAgain, NoOversleep
  <2> QED
    BY <1>3, <2>1, <2>2, <2>3, <2>4, <2>5, <2>6, <2>7, <2>8, <2>9 DEF LoopStep
<1>4. CASE EpollOther BY <1>4 DEF EpollOther, NoOversleep
<1>5. CASE Shutdown BY <1>0, <1>5, SleepQuiet DEF Shutdown
<1>6. CASE ShutdownWrite BY <1>0, <1>6, SleepQuiet DEF ShutdownWrite
<1>7. CASE Joined BY <1>7 DEF Joined, NoOversleep
<1>8. CASE Tick
  <2>1. now' \in Nat /\ now <= now'
    BY <1>0, <1>8 DEF Tick
  <2> QED
    BY <1>8, <2>1, SleepQuiet DEF Tick
<1>9. CASE UNCHANGED vars BY <1>0, <1>9, SleepQuiet DEF vars
<1> QED
  BY <1>1, <1>2, <1>3, <1>4, <1>5, <1>6, <1>7, <1>8, <1>9 DEF Next, OwnerStep, Destroyed

\* As long as nobody asks for a delay of 0 and every delay fits an int, epoll_wait never
\* sleeps past a delayed task, whatever threads, callbacks and timers do.  Both
\* conditions are needed: a delay of 0 and one that does not fit are the findings of
\* EventPoller_delay0 and EventPoller_narrow.
THEOREM SleepsInTime ==
  ASSUME 0 \notin Delay, MaxTime <= IntMax
  PROVE  Spec => []NoOversleep
<1>1. Init => NoOversleep
  BY DEF Init, NoOversleep
<1>2. TypeOK /\ OnceInv /\ TimeInv /\ [Next]_vars => TimeInv'
  BY TimeStep
<1>3. TypeOK /\ TimeInv /\ DueInv /\ [Next]_vars => DueInv'
  BY DueStep
<1>4. TypeOK /\ TimeInv /\ DueInv /\ NoOversleep /\ [Next]_vars => NoOversleep'
  BY SleepStep
<1> QED
  BY <1>1, <1>2, <1>3, <1>4, DueInit, TimeInit, OnceInit, OnceStep, TypeCorrect, PTL DEF Spec
=============================================================================
