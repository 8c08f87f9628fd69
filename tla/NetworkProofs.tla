--------------------------- MODULE NetworkProofs ---------------------------
(***************************************************************************)
(* Theorems, for every value of the constants, about UdpReceive and about  *)
(* the sockets that MCNetwork has beside it: those that accept             *)
(* (SocketAccept), those of a UDPImp that send (UdpCast) and the counter   *)
(* of what one of them received (Speed), about the listeners of an event   *)
(* (NoticeCenter) and the readers of a ring (RingBuffer).  They share no   *)
(* state.                                                                  *)
(***************************************************************************)
EXTENDS UdpReceive, SequenceTheorems, FiniteSetTheorems, WellFoundedInduction, TLAPS

CONSTANTS
  Loop, MaxConn, MaxFail,                                    \* of SocketAccept
  Host, Group, MaxInit, MaxSend,                             \* of UdpCast
  Adder, Asker, Amount, Second, MaxBytes, MaxInt, MaxNow, MaxAdd,  \* of Speed
  Threads, Tag, MaxDispatcher,                               \* of NoticeCenter
  Pollers, MaxItem, MaxReader, UseCache, MaxTask, MaxClear, MaxSize, MaxGop  \* of RingBuffer

\* What Socket::recv may return, the milliseconds of a second, and the largest int.
ASSUME RateAssumption == Amount \subseteq Nat /\ Second \in Nat /\ MaxInt \in Nat

\* The items that a storage may hold are counted.
ASSUME RingAssumption == MaxSize \in Nat

VARIABLES
  accept_listening, accept_backlog, accept_edge, accept_at, accept_conn, accept_open,
  accept_told, accept_completing, accept_kept, accept_watched, accept_arrived,
  accept_failed, accept_errors,
  cast_calls, cast_param, cast_step, cast_sock, cast_inited, cast_sendAddr, cast_given,
  cast_waiting, cast_sending, cast_wire,
  rate_now, rate_bytes, rate_speed, rate_begin, rate_pc, rate_local, rate_adds, rate_total,
  rate_closed, rate_counted, rate_met,
  notice_center, notice_disp, notice_pc, notice_holds, notice_tag, notice_todo, notice_on,
  notice_raced, notice_seen,
  ring_key, ring_main, ring_disp, ring_map, ring_total, ring_tasks, ring_reader, ring_alive,
  ring_clears

acceptVars ==
  <<accept_listening, accept_backlog, accept_edge, accept_at, accept_conn, accept_open,
    accept_told, accept_completing, accept_kept, accept_watched, accept_arrived,
    accept_failed, accept_errors>>
castVars ==
  <<cast_calls, cast_param, cast_step, cast_sock, cast_inited, cast_sendAddr, cast_given,
    cast_waiting, cast_sending, cast_wire>>
rateVars ==
  <<rate_now, rate_bytes, rate_speed, rate_begin, rate_pc, rate_local, rate_adds,
    rate_total, rate_closed, rate_counted, rate_met>>
noticeVars ==
  <<notice_center, notice_disp, notice_pc, notice_holds, notice_tag, notice_todo,
    notice_on, notice_raced, notice_seen>>
ringVars ==
  <<ring_key, ring_main, ring_disp, ring_map, ring_total, ring_tasks, ring_reader,
    ring_alive, ring_clears>>

Accept == INSTANCE SocketAccept WITH
  Poller <- Loop, listening <- accept_listening, backlog <- accept_backlog,
  edge <- accept_edge, at <- accept_at, conn <- accept_conn, open <- accept_open,
  told <- accept_told, completing <- accept_completing, kept <- accept_kept,
  watched <- accept_watched, arrived <- accept_arrived, failed <- accept_failed,
  errors <- accept_errors

Cast == INSTANCE UdpCast WITH
  calls <- cast_calls, param <- cast_param, step <- cast_step, sock <- cast_sock,
  inited <- cast_inited, sendAddr <- cast_sendAddr, given <- cast_given,
  waiting <- cast_waiting, sending <- cast_sending, wire <- cast_wire

Rate == INSTANCE Speed WITH
  now <- rate_now, bytes <- rate_bytes, speed <- rate_speed, begin <- rate_begin,
  pc <- rate_pc, local <- rate_local, adds <- rate_adds, total <- rate_total,
  closed <- rate_closed, counted <- rate_counted, met <- rate_met

Notice == INSTANCE NoticeCenter WITH
  Thread <- Threads, center <- notice_center, disp <- notice_disp, pc <- notice_pc,
  holds <- notice_holds, tag <- notice_tag, todo <- notice_todo, on <- notice_on,
  raced <- notice_raced, seen <- notice_seen

Ring == INSTANCE RingBuffer WITH
  Poller <- Pollers, key <- ring_key, main <- ring_main, disp <- ring_disp, map <- ring_map,
  total <- ring_total, tasks <- ring_tasks, reader <- ring_reader, alive <- ring_alive,
  clears <- ring_clears

(* Sockets that accept, those of a UDPImp that send to one, to all or to a group, and the speed
   of one. *)
SocketRight == Accept!SocketAcceptRight /\ Cast!UdpCastRight /\ Rate!SpeedRight

(* What is told to many: the readers of a ring buffer, the listeners of an event. *)
BroadcastRight == Ring!RingBufferRight /\ Notice!NoticeCenterRight

SocketsSpec == Accept!Spec /\ Cast!Spec /\ Rate!Spec

-----------------------------------------------------------------------------
(* UdpReceive: types.                                                      *)

\* The steps of the pool that UDPImp uses keep the types of the pool.
LEMMA PoolTypes ==
  ASSUME TypeOK,
         \/ arrived \in Data /\ Pool!Async(Poller, arrived)
         \/ Pool!Post(Poller) \/ Pool!WaitPermit(W)
         \/ Pool!GetTask(W) \/ Pool!Finish(W) \/ Pool!Leave(W) \/ Pool!Start \/ Pool!Stop
         \/ Pool!Join
  PROVE  Pool!TypeOK'
<1> USE DEF TypeOK, Pool!TypeOK, Pool!queueVars, Pool!ghostVars, Pool!Thread
<1>1. CASE arrived \in Data /\ Pool!Async(Poller, arrived)
  BY <1>1 DEF Pool!Async
<1>2. CASE Pool!Post(Poller)
  BY <1>2 DEF Pool!Post
<1>3. CASE Pool!WaitPermit(W)
  BY <1>3 DEF Pool!WaitPermit
<1>4. CASE Pool!GetTask(W)
  <2>1. Tail(queue) \in Seq(Data) /\ Head(queue) \in Data
    BY <1>4, HeadTailProperties DEF Pool!GetTask
  <2>2. CASE Head(queue) \in cancelled
    BY <1>4, <2>1, <2>2 DEF Pool!GetTask
  <2>3. CASE Head(queue) \notin cancelled
    <3>1. /\ runs' = [runs EXCEPT ![Head(queue)] = @ + 1] /\ worker' = [worker EXCEPT ![W] = "run"]
          /\ queue' = Tail(queue)
      BY <1>4, <2>3 DEF Pool!GetTask
    <3>2. runs' \in [Data -> Nat]
      BY <2>1, <3>1
    <3> QED
      BY <1>4, <2>1, <3>1, <3>2 DEF Pool!GetTask
  <2> QED
    BY <2>2, <2>3
<1>5. CASE Pool!Finish(W)
  BY <1>5 DEF Pool!Finish
<1>6. CASE Pool!Leave(W)
  BY <1>6 DEF Pool!Leave
<1>7. CASE Pool!Start
  BY <1>7 DEF Pool!Start
<1>8. CASE Pool!Stop
  <2>1. Pool!Cardinality({W}) = 1
    <3>1. Pool!Cardinality({W}) = Cardinality({W})
      BY ONLY DEF Pool!Cardinality, Cardinality
    <3>2. Cardinality({W}) = 1
      BY ONLY FS_Singleton
    <3> QED
      BY ONLY <3>1, <3>2
  <2>2. Pool!Range(queue) \subseteq Data
    BY DEF Pool!Range
  <2>3. stops' \in 0 .. MaxStops
    BY <1>8, ConstantsAssumption DEF Pool!Stop
  <2> QED
    BY <1>8, <2>1, <2>2, <2>3 DEF Pool!Stop
<1>9. CASE Pool!Join
  BY <1>9 DEF Pool!Join
<1> QED
  BY <1>1, <1>2, <1>3, <1>4, <1>5, <1>6, <1>7, <1>8, <1>9

\* The closure that is handed over is that of a datagram.
Typed == TypeOK /\ (reader = "async" => arrived \in Data)

\* The initial state has its types.
LEMMA TypeInit == Init => Typed
<1> SUFFICES ASSUME Init PROVE Typed
  OBVIOUS
<1>1. /\ <<>> \in Seq(Data) /\ <<>> \in Seq(0 .. MaxData) /\ Len(<<>>) = 0
  BY EmptySeq
<1>2. Pool!TypeOK
  BY <1>1, ConstantsAssumption DEF Init, Pool!Init, Pool!TypeOK
<1>3. 0 <= Cap + 1 /\ 0 \in 0 .. MaxData
  BY ConstantsAssumption
<1> QED
  BY <1>1, <1>2, <1>3 DEF Init, TypeOK, Typed

\* One case per action.
LEMMA TypeStep == Typed /\ [Next]_vars => Typed'
<1> SUFFICES ASSUME TypeOK, reader = "async" => arrived \in Data, [Next]_vars PROVE Typed'
  BY DEF Typed
<1> USE ConstantsAssumption DEF udpVars
<1>0. reader' = "async" => arrived' \in Data
  BY DEF Next, AppStep, ReaderStep, WorkerStep, vars, TypeOK, Data, Shutdown, OnRead, ShutdownDone,
         InitStopped, Attach, InitDone, HandOver, HandOverPost, Idle, StartJob, Take, TakeNothing,
         Deliver, Send
<1> SUFFICES TypeOK'
  BY <1>0 DEF Typed
<1>1. ASSUME NEW caller \in {"init", "shutdown"}, Shutdown(caller) PROVE TypeOK'
  BY <1>1, PoolTypes DEF Shutdown, TypeOK
<1>2. CASE OnRead
  <2>1. Pool!TypeOK'
    BY <1>2 DEF OnRead, TypeOK, poolVars, Pool!TypeOK
  <2>2. arrived' \in Data /\ arrived' = arrived + 1
    BY <1>2 DEF OnRead, TypeOK, Data
  <2> DEFINE rest == IF Cap < Len(buf) THEN Tail(buf) ELSE buf
  <2>3. rest \in Seq(Data) /\ Len(rest) <= Cap
    <3>1. CASE Cap < Len(buf)
      <4>1. buf # <<>> /\ Len(buf) <= Cap + 1 /\ buf \in Seq(Data) /\ Len(buf) \in Nat
        BY <3>1, LenProperties DEF TypeOK
      <4> QED
        BY <3>1, <4>1, HeadTailProperties
    <3>2. CASE ~(Cap < Len(buf))
      BY <3>2, LenProperties DEF TypeOK
    <3> QED
      BY <3>1, <3>2
  <2>4. buf' = Append(rest, arrived + 1)
    BY <1>2 DEF OnRead, Put
  <2>5. buf' \in Seq(Data) /\ Len(buf') <= Cap + 1
    <3> HIDE DEF rest
    <3> QED
      BY <2>2, <2>3, <2>4, AppendProperties, LenProperties
  <2> QED
    BY <1>2, <2>1, <2>2, <2>5 DEF OnRead, TypeOK, Data
<1>3. CASE AppStep
  BY <1>3, PoolTypes
     DEF AppStep, ShutdownDone, InitStopped, Attach, InitDone, TypeOK, poolVars, Pool!TypeOK
<1>4. CASE HandOver
  BY <1>4, PoolTypes DEF HandOver, TypeOK
<1>5. CASE HandOverPost
  BY <1>5, PoolTypes DEF HandOverPost, TypeOK
<1>6. CASE Idle
  BY <1>6, PoolTypes DEF Idle, TypeOK
<1>7. CASE StartJob
  BY <1>7, PoolTypes DEF StartJob, TypeOK
<1>8. CASE Take
  <2>1. Pool!TypeOK'
    BY <1>8 DEF Take, TypeOK, poolVars, Pool!TypeOK
  <2>2. /\ Head(buf) \in Data /\ Tail(buf) \in Seq(Data)
        /\ Len(Tail(buf)) <= Cap + 1
    BY <1>8, HeadTailProperties, LenProperties DEF Take, TypeOK
  <2> QED
    BY <1>8, <2>1, <2>2 DEF Take, TypeOK, Data
<1>9. CASE TakeNothing
  BY <1>9, PoolTypes DEF TakeNothing, TypeOK, poolVars, Pool!TypeOK
<1>10. CASE Deliver
  <2>1. Pool!TypeOK'
    <3>1. CASE Pool!Finish(W)
      BY <3>1, PoolTypes
    <3>2. CASE UNCHANGED poolVars
      BY <3>2 DEF TypeOK, poolVars, Pool!TypeOK
    <3> QED
      BY <1>10, <3>1, <3>2 DEF Deliver
  <2>2. delivered' \in Seq(0 .. MaxData) /\ job' \in {"idle", "send"}
    BY <1>10, AppendProperties DEF Deliver, TypeOK
  <2> QED
    BY <1>10, <2>1, <2>2 DEF Deliver, TypeOK
<1>11. CASE Send
  BY <1>11, PoolTypes DEF Send, TypeOK
<1>12. CASE UNCHANGED vars
  BY <1>12 DEF vars, poolVars, TypeOK, Pool!TypeOK
<1> QED
  BY <1>0, <1>1, <1>2, <1>3, <1>4, <1>5, <1>6, <1>7, <1>8, <1>9, <1>10, <1>11, <1>12
     DEF Next, ReaderStep, WorkerStep, Typed

\* Type correctness of the receiving side, the pool's state included.
THEOREM TypeCorrect == Spec => []TypeOK
<1>1. Typed => TypeOK
  BY DEF Typed
<1> QED
  BY <1>1, TypeInit, TypeStep, PTL DEF Spec

-----------------------------------------------------------------------------
(* UdpReceive: every queued datagram has a closure (ClosureInv: the worker *)
(* runs exactly when it has a job, and no closure is ever cancelled).      *)

\* recvWorkerThread runs inside a closure of the pool; no closure is cancelled.
Working == (job # "idle" <=> worker[W] = "run") /\ cancelled = {}

ClosureInv == Typed /\ Working /\ EachHasClosure

\* At first nothing is queued.
LEMMA ClosureInit == Init => ClosureInv
BY TypeInit, EmptySeq DEF Init, Pool!Init, ClosureInv, Working, EachHasClosure

\* Every step keeps each closure with its datagram.
LEMMA ClosureStep == ClosureInv /\ [Next]_vars => ClosureInv'
<1> SUFFICES ASSUME ClosureInv, [Next]_vars PROVE (Working /\ EachHasClosure)'
  BY TypeStep DEF ClosureInv, Typed
<1>0. /\ Len(buf) \in Nat /\ Len(queue) \in Nat /\ TypeOK /\ Pool!TypeOK
      /\ Working /\ EachHasClosure
      /\ worker \in [{W} -> {"none", "wait", "take", "run", "gone"}]
      /\ buf \in Seq(Data) /\ queue \in Seq(Data) /\ (reader = "async" => arrived \in Data)
  BY LenProperties DEF ClosureInv, Typed, TypeOK, Pool!TypeOK
<1>1. ASSUME NEW caller \in {"init", "shutdown"}, Shutdown(caller)
      PROVE (Working /\ EachHasClosure)'
  BY <1>0, <1>1 DEF Shutdown, Pool!Stop, Working, EachHasClosure
<1>2. CASE OnRead
  <2> DEFINE rest == IF Cap < Len(buf) THEN Tail(buf) ELSE buf
  <2>1. rest \in Seq(Data) /\ Len(rest) \in Nat /\ Len(rest) <= Len(buf)
    BY <1>0, HeadTailProperties, LenProperties, ConstantsAssumption
  <2>2. Len(buf') = Len(rest) + 1
    <3>1. buf' = Append(rest, arrived + 1) /\ arrived + 1 \in Data
      BY <1>0, <1>2, ConstantsAssumption DEF OnRead, Put, TypeOK, Data
    <3> HIDE DEF rest
    <3> QED
      BY <2>1, <3>1, AppendProperties
  <2>3. Working'
    BY <1>0, <1>2 DEF OnRead, poolVars, Working
  <2>4. EachHasClosure'
    <3>1. /\ queue' = queue /\ job' = job /\ reader = "idle" /\ reader' = "async"
      BY <1>2 DEF OnRead, poolVars
    <3> HIDE DEF rest
    <3> QED
      BY <1>0, <2>1, <2>2, <3>1 DEF EachHasClosure
  <2> QED
    BY <2>3, <2>4
<1>3. CASE AppStep
  BY <1>0, <1>3
     DEF AppStep, ShutdownDone, InitStopped, Attach, InitDone, poolVars, Pool!Join, Pool!Start,
         Pool!queueVars, Pool!ghostVars, Working, EachHasClosure
<1>4. CASE HandOver
  <2>1. arrived \in Data /\ queue' = Append(queue, arrived)
    BY <1>0, <1>4 DEF HandOver, Pool!Async
  <2>2. Len(queue') = Len(queue) + 1
    BY <1>0, <2>1, AppendProperties
  <2> QED
    BY <1>0, <1>4, <2>2 DEF HandOver, Pool!Async, Working, EachHasClosure
<1>5. CASE HandOverPost
  BY <1>0, <1>5 DEF HandOverPost, Pool!Post, udpVars, Pool!ghostVars, Working, EachHasClosure
<1>6. CASE Idle
  BY <1>0, <1>6 DEF Idle, Pool!WaitPermit, Pool!Leave, udpVars, Pool!queueVars, Pool!ghostVars,
                    Working, EachHasClosure
<1>7. CASE StartJob
  <2>1. /\ queue # <<>> /\ queue' = Tail(queue) /\ worker[W] = "take" /\ worker'[W] = "run"
        /\ cancelled' = cancelled /\ job' = "take" /\ buf' = buf /\ reader' = reader
    BY <1>0, <1>7 DEF StartJob, Pool!GetTask, Working
  <2>2. Len(queue') = Len(queue) - 1
    BY <1>0, <2>1, HeadTailProperties
  <2>3. job = "idle"
    BY <1>0, <2>1 DEF Working
  <2> QED
    BY <1>0, <2>1, <2>2, <2>3 DEF Working, EachHasClosure
<1>8. CASE Take
  <2>1. Len(buf') = Len(buf) - 1
    BY <1>0, <1>8, HeadTailProperties DEF Take
  <2> QED
    BY <1>0, <1>8, <2>1 DEF Take, poolVars, Working, EachHasClosure
<1>9. CASE TakeNothing
  <2>1. Working'
    BY <1>0, <1>9 DEF TakeNothing, poolVars, Pool!Finish, Pool!queueVars, Pool!ghostVars, Working
  <2>2. Len(buf') = 0 /\ Len(queue') \in Nat
    BY <1>0, <1>9 DEF TakeNothing, poolVars, Pool!Finish, Pool!queueVars
  <2>3. EachHasClosure'
    <3> DEFINE given == IF reader' = "async" THEN 1 ELSE 0
               taking == IF job' = "take" THEN 1 ELSE 0
    <3>1. given \in Nat /\ taking \in Nat
      OBVIOUS
    <3>2. EachHasClosure' <=> Len(buf') <= Len(queue') + given + taking
      BY DEF EachHasClosure
    <3> HIDE DEF given, taking
    <3> QED
      BY ONLY <2>2, <3>1, <3>2
  <2> QED
    BY <2>1, <2>3
<1>10. CASE Deliver
  BY <1>0, <1>10 DEF Deliver, poolVars, Pool!Finish, Pool!queueVars, Pool!ghostVars,
                     Working, EachHasClosure
<1>11. CASE Send
  BY <1>0, <1>11 DEF Send, Pool!Finish, Pool!queueVars, Pool!ghostVars, Working, EachHasClosure
<1>12. CASE UNCHANGED vars
  BY <1>0, <1>12 DEF vars, poolVars, udpVars, Working, EachHasClosure
<1> QED
  BY <1>1, <1>2, <1>3, <1>4, <1>5, <1>6, <1>7, <1>8, <1>9, <1>10, <1>11, <1>12
     DEF Next, ReaderStep, WorkerStep

\* Every datagram in the queue has a closure that will take it, however often the pool is
\* stopped and started.
THEOREM EachIsTaken == Spec => []EachHasClosure
<1>1. ClosureInv => EachHasClosure
  BY DEF ClosureInv
<1> QED
  BY <1>1, ClosureInit, ClosureStep, PTL DEF Spec

-----------------------------------------------------------------------------
(* UdpReceive: the order (OrderInv: what is queued is younger than what was*)
(* delivered, the datagram in the worker's hand is in between).            *)

\* Every datagram that is delivered, and the one that is, is older than those queued.
Older ==
  /\ \A i \in 1 .. Len(delivered), j \in 1 .. Len(buf) : delivered[i] < buf[j]
  /\ job = "call" => \A j \in 1 .. Len(buf) : rb < buf[j]

\* None is newer than the last that was read.
NoneNewer ==
  /\ \A j \in 1 .. Len(buf) : buf[j] <= arrived
  /\ \A i \in 1 .. Len(delivered) : delivered[i] <= arrived
  /\ job = "call" => rb <= arrived

Increasing ==
  /\ \A i, j \in 1 .. Len(buf) : i < j => buf[i] < buf[j]
  /\ job = "call" /\ rb # 0 => \A i \in 1 .. Len(delivered) : delivered[i] < rb
  /\ \A i, j \in 1 .. Len(delivered) :
       (i < j /\ delivered[i] # 0 /\ delivered[j] # 0) => delivered[i] < delivered[j]

OrderInv == Typed /\ Older /\ NoneNewer /\ Increasing

\* At first nothing is delivered.
LEMMA OrderInit == Init => OrderInv
BY TypeInit, EmptySeq DEF Init, OrderInv, Older, NoneNewer, Increasing

\* Steps that leave the datagrams where they are.
LEMMA OrderQuiet ==
  ASSUME OrderInv, Typed', UNCHANGED <<buf, delivered, arrived, rb>>, job' = "call" => job = "call"
  PROVE  OrderInv'
BY DEF OrderInv, Older, NoneNewer, Increasing

\* Every step keeps the order.
LEMMA OrderStep == OrderInv /\ [Next]_vars => OrderInv'
<1> SUFFICES ASSUME OrderInv, [Next]_vars PROVE OrderInv'
  OBVIOUS
<1>0. /\ TypeOK /\ Typed' /\ OrderInv
      /\ buf \in Seq(Data) /\ delivered \in Seq(0 .. MaxData) /\ arrived \in 0 .. MaxData
      /\ Len(buf) \in Nat /\ Len(delivered) \in Nat /\ rb \in 0 .. MaxData
      /\ MaxData \in Nat /\ Cap \in Nat
  BY TypeStep, LenProperties, ConstantsAssumption DEF OrderInv, Typed, TypeOK
<1>1. ASSUME NEW caller \in {"init", "shutdown"}, Shutdown(caller) PROVE OrderInv'
  BY <1>0, <1>1, OrderQuiet DEF Shutdown
<1>2. CASE OnRead
  <2> DEFINE rest == IF Cap < Len(buf) THEN Tail(buf) ELSE buf
  <2>1. /\ buf' = Append(rest, arrived + 1) /\ arrived' = arrived + 1
        /\ delivered' = delivered /\ job' = job /\ rb' = rb
    BY <1>2 DEF OnRead, Put
  <2>2. \A j \in 1 .. Len(buf) : buf[j] \in Nat
    BY <1>0 DEF Data
  <2>3. /\ rest \in Seq(Data) /\ Len(rest) \in Nat
        /\ \E k \in {0, 1} : Len(rest) + k = Len(buf) /\ \A i \in 1 .. Len(rest) :
             rest[i] = buf[i + k]
    <3>1. CASE Cap < Len(buf)
      <4>1. buf # <<>>
        BY <1>0, <3>1, EmptySeq
      <4> QED
        BY <1>0, <3>1, <4>1, HeadTailProperties
    <3>2. CASE ~(Cap < Len(buf))
      BY <1>0, <3>2
    <3> QED
      BY <3>1, <3>2
  <2> HIDE DEF rest
  <2>4. PICK k \in {0, 1} : Len(rest) + k = Len(buf)
          /\ \A i \in 1 .. Len(rest) : rest[i] = buf[i + k]
    BY <2>3
  <2>5. arrived + 1 \in Data
    BY <1>0, <1>2 DEF OnRead, Data
  <2>6. /\ Len(buf') = Len(rest) + 1 /\ buf'[Len(rest) + 1] = arrived + 1
        /\ \A i \in 1 .. Len(rest) : buf'[i] = buf[i + k] /\ i + k \in 1 .. Len(buf)
    BY <1>0, <2>1, <2>3, <2>4, <2>5, AppendProperties
  <2>a. /\ \A i \in 1 .. Len(delivered) : delivered[i] \in Nat /\ delivered[i] <= arrived
        /\ job = "call" => rb <= arrived
        /\ \A j \in 1 .. Len(buf) : buf[j] <= arrived
    BY <1>0 DEF OrderInv, NoneNewer
  <2>b. \A j \in 1 .. Len(buf') :
          \/ buf'[j] = arrived + 1 /\ j = Len(rest) + 1
          \/ j \in 1 .. Len(rest) /\ buf'[j] = buf[j + k] /\ j + k \in 1 .. Len(buf)
    BY <2>3, <2>6
  <2>7. Older'
    <3>1. \A i \in 1 .. Len(delivered), j \in 1 .. Len(buf') : delivered[i] < buf'[j]
      <4> SUFFICES ASSUME NEW i \in 1 .. Len(delivered), NEW j \in 1 .. Len(buf')
                   PROVE  delivered[i] < buf'[j]
        OBVIOUS
      <4>1. CASE buf'[j] = arrived + 1
        BY <1>0, <2>a, <4>1
      <4>2. CASE buf'[j] = buf[j + k] /\ j + k \in 1 .. Len(buf)
        BY <1>0, <4>2 DEF OrderInv, Older
      <4> QED
        BY <2>b, <4>1, <4>2
    <3>2. job = "call" => \A j \in 1 .. Len(buf') : rb < buf'[j]
      <4> SUFFICES ASSUME job = "call", NEW j \in 1 .. Len(buf') PROVE rb < buf'[j]
        OBVIOUS
      <4>1. CASE buf'[j] = arrived + 1
        BY <1>0, <2>a, <4>1
      <4>2. CASE buf'[j] = buf[j + k] /\ j + k \in 1 .. Len(buf)
        BY <1>0, <4>2 DEF OrderInv, Older
      <4> QED
        BY <2>b, <4>1, <4>2
    <3> QED
      BY <2>1, <3>1, <3>2 DEF Older
  <2>8. NoneNewer'
    <3>1. \A j \in 1 .. Len(buf') : buf'[j] <= arrived + 1
      <4> SUFFICES ASSUME NEW j \in 1 .. Len(buf') PROVE buf'[j] <= arrived + 1
        OBVIOUS
      <4>1. CASE buf'[j] = arrived + 1
        BY <1>0, <4>1
      <4>2. CASE buf'[j] = buf[j + k] /\ j + k \in 1 .. Len(buf)
        <5>1. buf[j + k] <= arrived
          BY <2>a, <4>2
        <5>2. buf[j + k] \in Nat
          BY <1>0, <4>2 DEF Data
        <5> QED
          BY <1>0, <4>2, <5>1, <5>2
      <4> QED
        BY <2>b, <4>1, <4>2
    <3>2. /\ \A i \in 1 .. Len(delivered) : delivered[i] <= arrived + 1
          /\ job = "call" => rb <= arrived + 1
      BY <1>0, <2>a
    <3> QED
      BY <2>1, <3>1, <3>2 DEF NoneNewer
  <2>9. Increasing'
    <3>1. ASSUME NEW i \in 1 .. Len(buf'), NEW j \in 1 .. Len(buf'), i < j
          PROVE  buf'[i] < buf'[j]
      <4>1. i \in 1 .. Len(rest) /\ buf'[i] = buf[i + k] /\ i + k \in 1 .. Len(buf)
        BY <2>3, <2>6, <2>b, <3>1
      <4>2. CASE buf'[j] = arrived + 1
        BY <1>0, <2>2, <2>a, <4>1, <4>2
      <4>3. CASE buf'[j] = buf[j + k] /\ j + k \in 1 .. Len(buf)
        BY <1>0, <3>1, <4>1, <4>3 DEF OrderInv, Increasing
      <4> QED
        BY <2>b, <4>2, <4>3
    <3> QED
      BY <1>0, <2>1, <3>1 DEF OrderInv, Increasing
  <2> QED
    BY <1>0, <2>7, <2>8, <2>9 DEF OrderInv
<1>3. CASE AppStep
  BY <1>0, <1>3, OrderQuiet DEF AppStep, ShutdownDone, InitStopped, Attach, InitDone
<1>4. CASE HandOver
  BY <1>0, <1>4, OrderQuiet DEF HandOver
<1>5. CASE HandOverPost
  BY <1>0, <1>5, OrderQuiet DEF HandOverPost, udpVars
<1>6. CASE Idle
  BY <1>0, <1>6, OrderQuiet DEF Idle, udpVars
<1>7. CASE StartJob
  BY <1>0, <1>7, OrderQuiet DEF StartJob
<1>8. CASE Take
  <2>1. /\ rb' = buf[1] /\ buf' = Tail(buf) /\ buf # <<>> /\ job' = "call"
        /\ delivered' = delivered /\ arrived' = arrived
    BY <1>0, <1>8 DEF Take
  <2>2. /\ Len(buf') = Len(buf) - 1 /\ Len(buf) > 0
        /\ \A i \in 1 .. Len(buf') : buf'[i] = buf[i + 1] /\ i + 1 \in 1 .. Len(buf)
    BY <1>0, <2>1, HeadTailProperties
  <2>3. \A j \in 1 .. Len(buf) : buf[j] \in Nat
    BY <1>0 DEF Data
  <2>4. Older'
    BY <1>0, <2>1, <2>2, <2>3 DEF OrderInv, Older, Increasing
  <2>5. NoneNewer'
    BY <1>0, <2>1, <2>2, <2>3 DEF OrderInv, NoneNewer
  <2>6. Increasing'
    BY <1>0, <2>1, <2>2, <2>3 DEF OrderInv, Older, Increasing
  <2> QED
    BY <1>0, <2>4, <2>5, <2>6 DEF OrderInv
<1>9. CASE TakeNothing
  <2>1. CASE job' = "idle" /\ rb' = rb
    BY <1>0, <1>9, <2>1, OrderQuiet DEF TakeNothing
  <2>2. CASE job' = "call" /\ rb' = 0
    BY <1>0, <1>9, <2>2, EmptySeq DEF TakeNothing, OrderInv, Older, NoneNewer, Increasing
  <2> QED
    BY <1>9, <2>1, <2>2 DEF TakeNothing
<1>10. CASE Deliver
  <2>1. /\ delivered' = Append(delivered, rb) /\ buf' = buf /\ arrived' = arrived /\ rb' = rb
        /\ job = "call" /\ job' # "call"
    BY <1>10 DEF Deliver
  <2>2. /\ Len(delivered') = Len(delivered) + 1 /\ delivered'[Len(delivered) + 1] = rb
        /\ \A i \in 1 .. Len(delivered) : delivered'[i] = delivered[i]
    BY <1>0, <2>1, AppendProperties
  <2>3. Older'
    BY <1>0, <2>1, <2>2 DEF OrderInv, Older
  <2>4. NoneNewer'
    BY <1>0, <2>1, <2>2 DEF OrderInv, NoneNewer
  <2>5. Increasing'
    <3>1. ASSUME NEW i \in 1 .. Len(delivered'), NEW j \in 1 .. Len(delivered'), i < j,
                 delivered'[i] # 0, delivered'[j] # 0
          PROVE  delivered'[i] < delivered'[j]
      <4>1. i \in 1 .. Len(delivered) /\ delivered'[i] = delivered[i]
        BY <1>0, <2>2, <3>1
      <4>2. CASE j = Len(delivered) + 1
        BY <1>0, <2>1, <2>2, <3>1, <4>1, <4>2 DEF OrderInv, Increasing
      <4>3. CASE j \in 1 .. Len(delivered)
        BY <1>0, <2>2, <3>1, <4>1, <4>3 DEF OrderInv, Increasing
      <4> QED
        BY <1>0, <2>2, <4>2, <4>3
    <3> QED
      BY <1>0, <2>1, <3>1 DEF OrderInv, Increasing
  <2> QED
    BY <1>0, <2>3, <2>4, <2>5 DEF OrderInv
<1>11. CASE Send
  BY <1>0, <1>11, OrderQuiet DEF Send
<1>12. CASE UNCHANGED vars
  BY <1>0, <1>12, OrderQuiet DEF vars, udpVars
<1> QED
  BY <1>1, <1>2, <1>3, <1>4, <1>5, <1>6, <1>7, <1>8, <1>9, <1>10, <1>11, <1>12
     DEF Next, ReaderStep, WorkerStep

\* The application gets the datagrams in the order in which they were read, none twice.
THEOREM DeliveredInOrder == Spec => []InOrder
<1>1. OrderInv => InOrder
  BY LenProperties DEF OrderInv, Typed, TypeOK, Increasing, InOrder
<1> QED
  BY <1>1, OrderInit, OrderStep, PTL DEF Spec
-----------------------------------------------------------------------------
(* SocketAccept: where each connection is.                                 *)

\* A connection that a thread has accepted and not yet told of is in nobody else's hand.
InHand(p) == accept_at[p] \in {"before", "told"}

\* Connections that were passed on: to the server, or to whoever holds `completed`.
HandedOn == accept_completing \cup accept_told \cup accept_kept

\* Types, and that a thread that is about to tell the server has a connection to tell of.
AcceptTypes ==
  /\ accept_arrived \in Nat /\ accept_failed \in Nat /\ accept_errors \in [Loop -> Nat]
  /\ accept_backlog \in Seq(1 .. accept_arrived)
  /\ accept_at \in [Loop -> {"idle", "accept", "before", "told", "return"}]
  /\ accept_conn \in [Loop -> 0 .. accept_arrived] /\ \A p \in Loop : InHand(p)
       => accept_conn[p] # 0
  /\ accept_completing \cup accept_told \cup accept_kept \subseteq 1 .. accept_arrived

\* Where a connection is: waiting, in one thread's hand, or handed on, and nowhere twice.
AcceptApart ==
  /\ \A i \in 1 .. Len(accept_backlog) :
       /\ accept_backlog[i] \notin HandedOn
       /\ \A j \in 1 .. Len(accept_backlog) : accept_backlog[i] = accept_backlog[j] => i = j
       /\ \A p \in Loop : InHand(p) => accept_conn[p] # accept_backlog[i]
  /\ \A p \in Loop :
       /\ accept_at[p] = "before" => accept_conn[p] \notin HandedOn
       /\ accept_at[p] = "told" => accept_conn[p] \notin accept_told \cup accept_kept
       /\ \A q \in Loop : InHand(p) /\ InHand(q) /\ accept_conn[p] = accept_conn[q] => p = q
  /\ accept_completing \cap accept_watched = {} /\ accept_kept \subseteq accept_told

\* The inductive invariant: what is promised, and where each connection is.
AcceptInv == AcceptTypes /\ AcceptApart /\ Accept!SocketAcceptRight

\* What a step does to the queue of connections that wait.
LEMMA Backlog ==
  ASSUME AcceptTypes, [Accept!Next]_Accept!vars
  PROVE  \/ UNCHANGED <<accept_backlog, accept_arrived>>
         \/ accept_backlog' = <<>> /\ accept_arrived' = accept_arrived
              /\ UNCHANGED <<accept_conn, accept_completing, accept_told, accept_kept,
                             accept_watched>>
         \/ Accept!Arrive
         \/ \E p \in Loop : Accept!Accept(p)
BY DEF Accept!Next, Accept!vars, Accept!Arrive, Accept!Complete, Accept!Leave, Accept!Listen,
       Accept!Close, Accept!Event, Accept!NoneWaits, Accept!AcceptFails, Accept!Refused,
       Accept!BeforeAccept,
       Accept!OnAccept, Accept!Return, Accept!Again, Accept!Without, Accept!peerVars,
       Accept!listenVars

\* A connection that is accepted.
LEMMA Accepted ==
  ASSUME AcceptTypes, NEW p \in Loop, Accept!Accept(p)
  PROVE  /\ Head(accept_backlog) \in 1 .. accept_arrived /\ Head(accept_backlog) = accept_backlog[1]
         /\ accept_backlog' \in Seq(1 .. accept_arrived)
         /\ Len(accept_backlog') = Len(accept_backlog) - 1
         /\ \A i \in 1 .. Len(accept_backlog') :
              i + 1 \in 1 .. Len(accept_backlog) /\ accept_backlog'[i] = accept_backlog[i + 1]
         /\ 1 \in 1 .. Len(accept_backlog) /\ Len(accept_backlog) \in Nat
BY HeadTailProperties, LenProperties DEF AcceptTypes, Accept!Accept

\* A connection that arrives is the newest and waits behind all others.
LEMMA Arrived ==
  ASSUME AcceptTypes, Accept!Arrive
  PROVE  /\ accept_arrived' = accept_arrived + 1 /\ accept_backlog' \in Seq(1 .. accept_arrived + 1)
         /\ Len(accept_backlog) \in Nat /\ Len(accept_backlog') = Len(accept_backlog) + 1
         /\ \A i \in 1 .. Len(accept_backlog) : accept_backlog'[i] = accept_backlog[i]
              /\ accept_backlog[i] \in 1 .. accept_arrived
         /\ accept_backlog'[Len(accept_backlog) + 1] = accept_arrived + 1
<1>1. accept_backlog \in Seq(1 .. accept_arrived + 1)
  BY DEF AcceptTypes
<1>2. \A i \in 1 .. Len(accept_backlog) : accept_backlog[i] \in 1 .. accept_arrived
  BY ElementOfSeq DEF AcceptTypes
<1> QED
  BY <1>1, <1>2, AppendProperties, LenProperties DEF AcceptTypes, Accept!Arrive

\* Every step of accepting sockets keeps the types.
LEMMA AcceptTypesStep == AcceptTypes /\ [Accept!Next]_Accept!vars => AcceptTypes'
<1> SUFFICES ASSUME AcceptTypes, [Accept!Next]_Accept!vars PROVE AcceptTypes'
  OBVIOUS
<1>1. accept_arrived' \in Nat /\ accept_arrived <= accept_arrived'
        /\ accept_backlog' \in Seq(1 .. accept_arrived')
  <2>1. <<>> \in Seq(1 .. accept_arrived)
    BY EmptySeq
  <2> QED
    <3>1. CASE Accept!Arrive
      BY <3>1, Arrived DEF AcceptTypes
    <3>2. ASSUME NEW p \in Loop, Accept!Accept(p) PROVE <1>1!:
      BY <3>2, Accepted DEF AcceptTypes, Accept!Accept, Accept!listenVars
    <3>3. CASE accept_backlog' \in {accept_backlog, <<>>} /\ accept_arrived' = accept_arrived
      <4>1. accept_arrived' = accept_arrived /\ accept_arrived \in Nat
              /\ accept_backlog \in Seq(1 .. accept_arrived)
        BY <3>3 DEF AcceptTypes
      <4>2. accept_arrived <= accept_arrived'
        BY ONLY <4>1
      <4>3. accept_backlog' \in Seq(1 .. accept_arrived)
        BY <2>1, <3>3, <4>1
      <4> QED
        BY <4>1, <4>2, <4>3
    <3> QED
      BY <3>1, <3>2, <3>3, Backlog
<1>2. accept_failed' \in Nat /\ accept_errors' \in [Loop -> Nat]
  <2>1. ASSUME NEW p \in Loop, Accept!Listen(p) \/ Accept!Close(p) \/ Accept!AcceptFails(p)
        PROVE <1>2!:
    <3>1. CASE Accept!Listen(p) \/ Accept!Close(p)
      BY <3>1 DEF AcceptTypes, Accept!Listen, Accept!Close
    <3>2. CASE Accept!AcceptFails(p)
      BY <3>2 DEF AcceptTypes, Accept!AcceptFails
    <3> QED
      BY <2>1, <3>1, <3>2
  <2>2. CASE UNCHANGED <<accept_failed, accept_errors>>
    BY <2>2 DEF AcceptTypes
  <2> QED
    BY <2>1, <2>2 DEF Accept!Next, Accept!vars, Accept!Arrive, Accept!Complete, Accept!Leave,
                      Accept!Event, Accept!NoneWaits, Accept!Accept,
         Accept!Refused, Accept!BeforeAccept, Accept!OnAccept, Accept!Return, Accept!peerVars,
         Accept!listenVars
<1>3. accept_at' \in [Loop -> {"idle", "accept", "before", "told", "return"}]
  BY DEF AcceptTypes, Accept!Next, Accept!vars, Accept!Arrive, Accept!Complete, Accept!Leave,
         Accept!Listen, Accept!Close, Accept!Event, Accept!NoneWaits, Accept!AcceptFails,
         Accept!Accept,
         Accept!Refused, Accept!BeforeAccept, Accept!OnAccept, Accept!Return, Accept!Again
<1>4. /\ accept_conn' \in [Loop -> 0 .. accept_arrived']
      /\ \A p \in Loop : InHand(p)' => accept_conn'[p] # 0
      /\ accept_completing' \cup accept_told' \cup accept_kept' \subseteq 1 .. accept_arrived'
  <2>1. /\ accept_conn \in [Loop -> 0 .. accept_arrived'] /\ 0 \in 0 .. accept_arrived'
        /\ accept_completing \cup accept_told \cup accept_kept \subseteq 1 .. accept_arrived'
    BY <1>1 DEF AcceptTypes
  <2> USE DEF AcceptTypes, InHand
  <2>2. ASSUME NEW p \in Loop, Accept!Accept(p) PROVE <1>4!:
    <3>1. Head(accept_backlog) \in 0 .. accept_arrived' /\ Head(accept_backlog) # 0
      BY <1>1, <2>2, Accepted DEF Accept!Accept, Accept!listenVars
    <3> QED
      BY <2>1, <2>2, <3>1 DEF Accept!Accept
  <2>3. ASSUME NEW p \in Loop, Accept!BeforeAccept(p) \/ Accept!OnAccept(p) PROVE <1>4!:
    <3>1. accept_conn[p] \in 1 .. accept_arrived'
      BY <1>1, <2>1, <2>3 DEF Accept!BeforeAccept, Accept!OnAccept
    <3> QED
      BY <2>1, <2>3, <3>1 DEF Accept!BeforeAccept, Accept!OnAccept
  <2>4. ASSUME NEW p \in Loop, Accept!Refused(p) \/ Accept!Return(p) PROVE <1>4!:
    BY <2>1, <2>4 DEF Accept!Refused, Accept!Return, Accept!Again, Accept!peerVars
  <2>5. ASSUME NEW p \in Loop,
               Accept!Listen(p) \/ Accept!Close(p) \/ Accept!Event(p) \/ Accept!NoneWaits(p)
                 \/ Accept!AcceptFails(p)
        PROVE <1>4!:
    BY <2>1, <2>5 DEF Accept!Listen, Accept!Close, Accept!Event, Accept!NoneWaits,
                      Accept!AcceptFails, Accept!peerVars
  <2>6. ASSUME NEW c \in Accept!Conn, Accept!Complete(c) \/ Accept!Leave(c) PROVE <1>4!:
    BY <2>1, <2>6 DEF Accept!Complete, Accept!Leave
  <2>7. CASE Accept!Arrive \/ UNCHANGED Accept!vars
    BY <2>1, <2>7 DEF Accept!Arrive, Accept!vars, Accept!peerVars
  <2> QED
    BY <2>2, <2>3, <2>4, <2>5, <2>6, <2>7 DEF Accept!Next
<1> QED
  BY <1>1, <1>2, <1>3, <1>4 DEF AcceptTypes

\* Nothing that is accepted, told of or kept is touched, and nothing new is in a hand.
Untouched ==
  /\ UNCHANGED <<accept_conn, accept_completing, accept_told, accept_kept, accept_watched>>
  /\ \A p \in Loop : /\ accept_at'[p] = "before" => accept_at[p] = "before"
                     /\ accept_at'[p] = "told" => accept_at[p] = "told"

\* Every step leaves each connection in one place.
LEMMA AcceptApartStep ==
  AcceptTypes /\ AcceptApart /\ Accept!NoneLost /\ [Accept!Next]_Accept!vars => AcceptApart'
<1> SUFFICES ASSUME AcceptTypes, AcceptApart, Accept!NoneLost, [Accept!Next]_Accept!vars
             PROVE AcceptApart'
  OBVIOUS
<1>0. Len(accept_backlog) \in Nat /\ accept_backlog \in Seq(1 .. accept_arrived)
        /\ \A i \in 1 .. Len(accept_backlog) : accept_backlog[i] \in 1 .. accept_arrived
  BY LenProperties, ElementOfSeq DEF AcceptTypes
<1> USE DEF HandedOn, InHand
<1>1. ASSUME Untouched, accept_backlog' = accept_backlog \/ accept_backlog' = <<>>
      PROVE AcceptApart'
  <2>1. CASE accept_backlog' = accept_backlog
    BY <1>1, <2>1 DEF AcceptApart, Untouched
  <2>2. CASE accept_backlog' = <<>>
    <3>1. 1 .. Len(accept_backlog') = {}
      BY <2>2, EmptySeq
    <3> QED
      BY <1>1, <3>1 DEF AcceptApart, Untouched
  <2> QED
    BY <1>1, <2>1, <2>2
<1>2. CASE Accept!Arrive
  <2>1. UNCHANGED <<accept_conn, accept_completing, accept_told, accept_kept,
                    accept_watched, accept_at>>
    BY <1>2 DEF Accept!Arrive, Accept!peerVars
  <2>2. ASSUME NEW i \in 1 .. Len(accept_backlog')
        PROVE  /\ accept_backlog'[i] \notin HandedOn
               /\ \A j \in 1 .. Len(accept_backlog') : accept_backlog'[i] = accept_backlog'[j]
                    => i = j
               /\ \A p \in Loop : InHand(p) => accept_conn[p] # accept_backlog'[i]
    <3>1. \A j \in 1 .. Len(accept_backlog') :
            \/ j \in 1 .. Len(accept_backlog) /\ accept_backlog'[j] = accept_backlog[j]
                 /\ accept_backlog[j] \in 1 .. accept_arrived
            \/ j = Len(accept_backlog) + 1 /\ accept_backlog'[j] = accept_arrived + 1
      BY <1>0, <1>2, Arrived
    <3>2. accept_arrived \in Nat /\ HandedOn \subseteq 1 .. accept_arrived
            /\ \A p \in Loop : accept_conn[p] <= accept_arrived
      BY DEF AcceptTypes
    <3>3. accept_backlog'[i] \notin HandedOn /\ \A p \in Loop : InHand(p)
            => accept_conn[p] # accept_backlog'[i]
      <4>1. CASE i = Len(accept_backlog) + 1
        <5>1. accept_backlog'[i] = accept_arrived + 1
          BY <1>2, <4>1, Arrived
        <5> QED
          BY ONLY <3>2, <5>1 DEF InHand
      <4>2. CASE i \in 1 .. Len(accept_backlog) /\ accept_backlog'[i] = accept_backlog[i]
        BY <4>2 DEF AcceptApart
      <4> QED
        BY <3>1, <4>1, <4>2
    <3>4. \A j \in 1 .. Len(accept_backlog') : accept_backlog'[i] = accept_backlog'[j] => i = j
      BY <3>1, <3>2 DEF AcceptApart
    <3> QED
      BY <3>3, <3>4
  <2> QED
    BY <2>1, <2>2 DEF AcceptApart
<1>3. ASSUME NEW p \in Loop, Accept!Accept(p) PROVE AcceptApart'
  <2>1. /\ accept_conn' = [accept_conn EXCEPT ![p] = accept_backlog[1]]
        /\ accept_at' = [accept_at EXCEPT ![p] = "before"] /\ accept_at[p] = "accept"
        /\ UNCHANGED <<accept_completing, accept_told, accept_kept, accept_watched>>
    BY <1>3, Accepted DEF Accept!Accept
  <2>2. ASSUME NEW i \in 1 .. Len(accept_backlog')
        PROVE  /\ accept_backlog'[i] \notin HandedOn
               /\ \A j \in 1 .. Len(accept_backlog') : accept_backlog'[i] = accept_backlog'[j]
                    => i = j
               /\ \A q \in Loop : InHand(q)' => accept_conn'[q] # accept_backlog'[i]
    <3>1. i + 1 \in 1 .. Len(accept_backlog) /\ accept_backlog'[i] = accept_backlog[i + 1]
            /\ i \in Nat
          /\ 1 \in 1 .. Len(accept_backlog)
      BY <1>3, Accepted
    <3>2. accept_backlog'[i] \notin HandedOn /\ accept_backlog[i + 1] # accept_backlog[1]
      BY ONLY <3>1, AcceptApart DEF AcceptApart, HandedOn
    <3>3. \A j \in 1 .. Len(accept_backlog') : accept_backlog'[i] = accept_backlog'[j] => i = j
      <4> TAKE j \in 1 .. Len(accept_backlog')
      <4>1. j + 1 \in 1 .. Len(accept_backlog) /\ accept_backlog'[j] = accept_backlog[j + 1]
              /\ j \in Nat
        BY <1>3, Accepted
      <4>2. accept_backlog[i + 1] = accept_backlog[j + 1] => i + 1 = j + 1
        BY <3>1, <4>1 DEF AcceptApart
      <4> QED
        BY ONLY <3>1, <4>1, <4>2
    <3>4. \A q \in Loop : InHand(q)' => accept_conn'[q] # accept_backlog'[i]
      <4> TAKE q \in Loop
      <4>1. CASE q = p
        BY <2>1, <3>1, <3>2, <4>1 DEF AcceptTypes
      <4>2. CASE q # p
        BY <2>1, <3>1, <4>2 DEF AcceptApart, AcceptTypes
      <4> QED
        BY <4>1, <4>2
    <3> QED
      BY <3>2, <3>3, <3>4
  <2>3. ASSUME NEW q \in Loop
        PROVE  /\ accept_at'[q] = "before" => accept_conn'[q] \notin HandedOn
               /\ accept_at'[q] = "told" => accept_conn'[q] \notin accept_told \cup accept_kept
               /\ \A r \in Loop : InHand(q)' /\ InHand(r)' /\ accept_conn'[q] = accept_conn'[r]
                    => q = r
    BY <1>3, <2>1, Accepted, SMTT(30) DEF AcceptApart, AcceptTypes
  <2> QED
    BY <2>1, <2>2, <2>3 DEF AcceptApart
<1>4. ASSUME NEW p \in Loop, Accept!BeforeAccept(p) PROVE AcceptApart'
  <2>1. /\ accept_at[p] = "before" /\ accept_at' = [accept_at EXCEPT ![p] = "told"]
        /\ accept_completing' = accept_completing \cup {accept_conn[p]}
        /\ UNCHANGED <<accept_backlog, accept_conn, accept_told, accept_kept, accept_watched>>
    BY <1>4 DEF Accept!BeforeAccept
  <2>2. accept_watched \subseteq accept_kept
    BY DEF Accept!NoneLost
  <2> QED
    BY <2>1, <2>2 DEF AcceptApart, AcceptTypes
<1>5. ASSUME NEW p \in Loop, Accept!OnAccept(p) PROVE AcceptApart'
  <2>1. /\ accept_at[p] = "told" /\ accept_at' = [accept_at EXCEPT ![p] = "return"]
        /\ accept_told' = accept_told \cup {accept_conn[p]}
        /\ accept_kept' \in {accept_kept, accept_kept \cup {accept_conn[p]}}
        /\ UNCHANGED <<accept_backlog, accept_conn, accept_completing, accept_watched>>
    BY <1>5 DEF Accept!OnAccept
  <2> QED
    BY <2>1 DEF AcceptApart, AcceptTypes
<1>6. ASSUME NEW c \in Accept!Conn, Accept!Complete(c) PROVE AcceptApart'
  BY <1>6 DEF Accept!Complete, AcceptApart
<1>7. ASSUME NEW c \in Accept!Conn, Accept!Leave(c) PROVE AcceptApart'
  BY <1>7 DEF Accept!Leave, AcceptApart
<1>8. ASSUME NEW p \in Loop, Accept!Refused(p) \/ Accept!Return(p) PROVE AcceptApart'
  <2>1. /\ accept_at' = [accept_at EXCEPT ![p] = "accept"]
        /\ accept_conn' = [accept_conn EXCEPT ![p] = 0]
        /\ UNCHANGED <<accept_backlog, accept_told, accept_completing, accept_kept,
                        accept_watched>>
    BY <1>8 DEF Accept!Refused, Accept!Return, Accept!Again, Accept!peerVars
  <2>2. /\ accept_at'[p] = "accept"
        /\ \A q \in Loop \ {p} : accept_at'[q] = accept_at[q] /\ accept_conn'[q] = accept_conn[q]
    BY <2>1 DEF AcceptTypes
  <2> QED
    BY <2>1, <2>2 DEF AcceptApart
<1>9. ASSUME NEW p \in Loop,
             Accept!Listen(p) \/ Accept!Close(p) \/ Accept!Event(p) \/ Accept!NoneWaits(p)
               \/ Accept!AcceptFails(p)
      PROVE AcceptApart'
  <2>1. Untouched /\ (accept_backlog' = accept_backlog \/ accept_backlog' = <<>>)
    BY <1>9 DEF Untouched, Accept!Listen, Accept!Close, Accept!Event, Accept!NoneWaits,
                Accept!AcceptFails, Accept!Without, Accept!peerVars, AcceptTypes
  <2> QED
    BY <1>1, <2>1
<1>10. CASE UNCHANGED Accept!vars
  BY <1>10 DEF Accept!vars, AcceptApart
<1> QED
  BY <1>2, <1>3, <1>4, <1>5, <1>6, <1>7, <1>8, <1>9, <1>10 DEF Accept!Next

\* A connection that waits keeps an event, or a thread that will ask again.
LEMMA NoneLeftStep ==
  AcceptTypes /\ Accept!NoneLeft /\ [Accept!Next]_Accept!vars => Accept!NoneLeft'
<1> SUFFICES ASSUME AcceptTypes, Accept!NoneLeft, [Accept!Next]_Accept!vars,
                    accept_backlog' # <<>>, accept_failed' = 0
             PROVE  accept_edge' # {} \/ \E p \in Loop : accept_at'[p] # "idle"
  BY DEF Accept!NoneLeft
<1> USE DEF AcceptTypes
<1>1. CASE Accept!Arrive
  BY <1>1 DEF Accept!Arrive
<1>2. ASSUME NEW p \in Loop, Accept!Listen(p) \/ Accept!NoneWaits(p)
      PROVE accept_edge' # {} \/ \E q \in Loop : accept_at'[q] # "idle"
  BY <1>2 DEF Accept!Listen, Accept!NoneWaits, Accept!NoneLeft, Accept!listenVars
<1>3. ASSUME NEW p \in Loop, Accept!Close(p) \/ Accept!AcceptFails(p) PROVE FALSE
  BY <1>3 DEF Accept!Close, Accept!AcceptFails
<1>4. ASSUME NEW p \in Loop,
             Accept!Event(p) \/ Accept!Accept(p) \/ Accept!Refused(p) \/ Accept!BeforeAccept(p)
               \/ Accept!OnAccept(p) \/ Accept!Return(p)
      PROVE \E q \in Loop : accept_at'[q] # "idle"
  BY <1>4 DEF Accept!Event, Accept!Accept, Accept!Refused, Accept!BeforeAccept, Accept!OnAccept,
              Accept!Return, Accept!Again
<1>5. CASE UNCHANGED <<accept_backlog, accept_failed, accept_edge, accept_at>>
  BY <1>5 DEF Accept!NoneLeft
<1> QED
  BY <1>1, <1>2, <1>3, <1>4, <1>5 DEF Accept!Next, Accept!vars, Accept!Complete, Accept!Leave,
                                      Accept!listenVars

\* A connection with a descriptor is in a hand, being completed, or kept.
LEMMA NoneLostStep ==
  AcceptTypes /\ AcceptApart /\ Accept!NoneLost /\ [Accept!Next]_Accept!vars => Accept!NoneLost'
<1> SUFFICES ASSUME AcceptTypes, AcceptApart, Accept!NoneLost, [Accept!Next]_Accept!vars
             PROVE Accept!NoneLost'
  OBVIOUS
<1> DEFINE before == {accept_conn[p] : p \in {q \in Loop : accept_at[q] = "before"}}
<1>0. /\ accept_open = accept_completing \cup (accept_kept \cap accept_open) \cup before
      /\ accept_watched \subseteq accept_open /\ accept_watched \subseteq accept_kept
      /\ accept_completing \cap accept_watched = {}
      /\ \A p \in Loop : accept_at[p] = "before" => accept_conn[p] \in before
      /\ \A c \in before : c \notin HandedOn
      /\ before' = {accept_conn'[p] : p \in {q \in Loop : accept_at'[q] = "before"}}
  BY DEF Accept!NoneLost, AcceptApart
<1>a. ASSUME accept_open' = accept_completing' \cup (accept_kept' \cap accept_open') \cup before',
             accept_watched' \subseteq accept_open' \cap accept_kept'
      PROVE Accept!NoneLost'
  BY <1>a DEF Accept!NoneLost
<1> HIDE DEF before
<1> USE DEF HandedOn
<1>1. ASSUME NEW p \in Loop, Accept!Accept(p) PROVE Accept!NoneLost'
  <2>1. before' = before \cup {Head(accept_backlog)}
    BY <1>1 DEF Accept!Accept, AcceptTypes, before
  <2> QED
    BY <1>0, <1>a, <1>1, <2>1 DEF Accept!Accept
<1>2. ASSUME NEW p \in Loop, Accept!Refused(p) PROVE Accept!NoneLost'
  <2>1. before' = before \ {accept_conn[p]}
    BY <1>2 DEF Accept!Refused, Accept!Again, AcceptTypes, AcceptApart, InHand, before
  <2>2. accept_conn[p] \notin HandedOn
    BY <1>2 DEF Accept!Refused, AcceptApart
  <2> QED
    BY <1>0, <1>a, <1>2, <2>1, <2>2 DEF Accept!Refused
<1>3. ASSUME NEW p \in Loop, Accept!BeforeAccept(p) PROVE Accept!NoneLost'
  <2>1. before' = before \ {accept_conn[p]} /\ accept_conn[p] \in before
    BY <1>3 DEF Accept!BeforeAccept, AcceptTypes, AcceptApart, InHand, before
  <2> QED
    BY <1>0, <1>a, <1>3, <2>1 DEF Accept!BeforeAccept
<1>4. ASSUME NEW p \in Loop, Accept!OnAccept(p) PROVE Accept!NoneLost'
  <2>1. before' = before
    BY <1>4 DEF Accept!OnAccept, AcceptTypes, before
  <2> QED
    BY <1>0, <1>a, <1>4, <2>1 DEF Accept!OnAccept
<1>5. ASSUME NEW c \in Accept!Conn, Accept!Complete(c) \/ Accept!Leave(c) PROVE Accept!NoneLost'
  <2>1. before' = before /\ c \notin before
    BY <1>0, <1>5 DEF Accept!Complete, Accept!Leave, before
  <2> QED
    BY <1>0, <1>a, <1>5, <2>1 DEF Accept!Complete, Accept!Leave, AcceptApart
<1>6. ASSUME UNCHANGED Accept!peerVars, before' = before PROVE Accept!NoneLost'
  BY <1>0, <1>a, <1>6 DEF Accept!peerVars
<1>7. ASSUME NEW p \in Loop,
             Accept!Event(p) \/ Accept!NoneWaits(p) \/ Accept!AcceptFails(p) \/ Accept!Return(p)
      PROVE Accept!NoneLost'
  <2>1. before' = before
    <3>1. \A q \in Loop : (accept_at'[q] = "before") = (accept_at[q] = "before")
      BY <1>7 DEF Accept!Event, Accept!NoneWaits, Accept!AcceptFails, Accept!Return,
                  Accept!Again, AcceptTypes
    <3>2. \A q \in Loop : accept_at[q] = "before" => accept_conn'[q] = accept_conn[q]
      BY <1>7 DEF Accept!Event, Accept!NoneWaits, Accept!AcceptFails, Accept!Return,
                  Accept!Again, AcceptTypes
    <3> QED
      BY <3>1, <3>2 DEF before
  <2> QED
    BY <1>6, <1>7, <2>1 DEF Accept!Event, Accept!NoneWaits, Accept!AcceptFails, Accept!Return
<1>8. CASE UNCHANGED <<accept_at, accept_conn, Accept!peerVars>>
  BY <1>6, <1>8 DEF before
<1> QED
  BY <1>1, <1>2, <1>3, <1>4, <1>5, <1>7, <1>8 DEF Accept!Next, Accept!vars, Accept!Arrive,
                                                  Accept!Listen, Accept!Close, Accept!peerVars

\* What is watched was told of before, and a listening socket that failed is closed.
LEMMA ToldFirstStep ==
  AcceptTypes /\ AcceptApart /\ Accept!ToldFirst /\ [Accept!Next]_Accept!vars => Accept!ToldFirst'
<1> SUFFICES ASSUME AcceptTypes, AcceptApart, Accept!ToldFirst, [Accept!Next]_Accept!vars
             PROVE Accept!ToldFirst'
  OBVIOUS
<1>1. accept_watched' \subseteq accept_told'
  BY DEF Accept!Next, Accept!vars, Accept!Arrive, Accept!Complete, Accept!Leave, Accept!Listen,
         Accept!Close, Accept!Event, Accept!NoneWaits, Accept!AcceptFails, Accept!Accept,
         Accept!Refused, Accept!BeforeAccept, Accept!OnAccept, Accept!Return, Accept!peerVars,
         Accept!ToldFirst
<1>2. \A p \in Loop :
        accept_errors'[p] <= 1 /\ (accept_errors'[p] = 1 => p \notin accept_listening')
  <2>1. ASSUME NEW p \in Loop, Accept!Listen(p) PROVE <1>2!:
    BY <2>1 DEF Accept!Listen, AcceptTypes, Accept!ToldFirst
  <2>2. ASSUME NEW p \in Loop, Accept!AcceptFails(p) PROVE <1>2!:
    BY <2>2 DEF Accept!AcceptFails, Accept!Without, AcceptTypes, Accept!ToldFirst
  <2>3. CASE UNCHANGED accept_errors /\ accept_listening' \subseteq accept_listening
    BY <2>3 DEF Accept!ToldFirst
  <2> QED
    BY <2>1, <2>2, <2>3 DEF Accept!Next, Accept!vars, Accept!Arrive, Accept!Complete,
                            Accept!Leave, Accept!Close, Accept!Event, Accept!NoneWaits,
                            Accept!Accept,
         Accept!Refused, Accept!BeforeAccept, Accept!OnAccept, Accept!Return, Accept!Without,
         Accept!listenVars
<1> QED
  BY <1>1, <1>2 DEF Accept!ToldFirst

\* No connection is left waiting unnoticed, lost or watched before the server was told of it,
\* however many pollers accept from one descriptor.
THEOREM AcceptSafe == Accept!Spec => []Accept!SocketAcceptRight
<1>1. Accept!Init => AcceptInv
  <2> SUFFICES ASSUME Accept!Init PROVE AcceptInv
    OBVIOUS
  <2>1. <<>> \in Seq(1 .. 0) /\ Len(<<>>) = 0 /\ 0 \in 0 .. 0
    BY EmptySeq
  <2>2. AcceptTypes
    BY <2>1 DEF Accept!Init, AcceptTypes, InHand
  <2>3. AcceptApart
    BY <2>1 DEF Accept!Init, AcceptApart, InHand, HandedOn
  <2>4. Accept!SocketAcceptRight
    BY DEF Accept!Init, Accept!SocketAcceptRight, Accept!NoneLeft, Accept!NoneLost, Accept!ToldFirst
  <2> QED
    BY <2>2, <2>3, <2>4 DEF AcceptInv
<1>2. AcceptInv /\ [Accept!Next]_Accept!vars => AcceptInv'
  BY AcceptTypesStep, AcceptApartStep, NoneLeftStep, NoneLostStep, ToldFirstStep
     DEF AcceptInv, Accept!SocketAcceptRight
<1>3. AcceptInv => Accept!SocketAcceptRight
  BY DEF AcceptInv
<1> QED
  BY <1>1, <1>2, <1>3, PTL DEF Accept!Spec

-----------------------------------------------------------------------------
(* UdpCast: the order of what is sent, and how far init() has come.        *)

\* What a socket may be asked for.
SockType ==
  [family : {0, 4, 6}, broadcast : BOOLEAN, ttl : BOOLEAN, out : BOOLEAN, loop : BOOLEAN,
   joined : SUBSET Cast!Address, watched : BOOLEAN]

\* A datagram, where it is sent, and where it was meant to go.
Datagram == [n : Nat, addr : Cast!Address, meant : Cast!Address]

\* Types; m_pSendAddr is always the target of the parameters.
CastTypes ==
  /\ cast_param \in Cast!Param /\ cast_sendAddr = cast_param.target /\ cast_inited \in BOOLEAN
  /\ cast_given \in Nat
  /\ cast_step \in {"idle", "bind", "cast", "attach"} /\ cast_sock \in SockType

\* The socket has what the cast type needs.
Prepared ==
  /\ cast_sock.family = cast_param.local /\ cast_sock.broadcast = (cast_param.cast = "broad")
  /\ IF cast_param.cast = "multi"
     THEN cast_sock.joined = {cast_param.target} /\ cast_sock.ttl /\ cast_sock.loop
       /\ (cast_param.target[1] = 6 => cast_sock.family = 6)
     ELSE cast_sock.joined = {}

\* How far a socket is prepared at each step of init(); nothing is inited while one is at work.
CastReady ==
  /\ cast_step # "idle" => ~cast_inited
  /\ cast_step = "cast" => cast_sock = [Cast!NoSock EXCEPT !.family = cast_param.local]
  /\ cast_step = "attach" => Prepared
  /\ cast_inited => Prepared /\ cast_sock.watched

\* Datagrams up to number m, in order and for the targets they were meant for.
Ordered(s, m) ==
  \A i \in 1 .. Len(s) :
    /\ s[i].addr = s[i].meant /\ s[i].n <= m
    /\ \A j \in 1 .. Len(s) : i < j => s[i].n < s[j].n

\* All of s were given before any of t.
Before(s, t) == \A i \in 1 .. Len(s), j \in 1 .. Len(t) : s[i].n < t[j].n

\* What was taken, what is being sent and what waits: in order, the one before the other.
CastOrder(a, b, c, m) ==
  /\ a \in Seq(Datagram) /\ b \in Seq(Datagram) /\ c \in Seq(Datagram)
  /\ Ordered(a, m) /\ Ordered(b, m) /\ Ordered(c, m)
  /\ Before(a, b) /\ Before(a, c) /\ Before(b, c)

\* The inductive invariant of a UDPImp that sends.
CastInv == CastTypes /\ CastReady /\ CastOrder(cast_wire, cast_sending, cast_waiting, cast_given)

\* Two parts of which the first is older are in order together.
LEMMA OrderedConcat ==
  ASSUME NEW s \in Seq(Datagram), NEW t \in Seq(Datagram), NEW m, Ordered(s, m), Ordered(t, m),
         Before(s, t)
  PROVE  s \o t \in Seq(Datagram) /\ Ordered(s \o t, m)
<1>1. /\ s \o t \in Seq(Datagram) /\ Len(s) \in Nat /\ Len(t) \in Nat
      /\ Len(s \o t) = Len(s) + Len(t)
      /\ \A i \in 1 .. Len(s) + Len(t) :
           \/ i \in 1 .. Len(s) /\ (s \o t)[i] = s[i]
           \/ i > Len(s) /\ i - Len(s) \in 1 .. Len(t) /\ (s \o t)[i] = t[i - Len(s)]
  BY ConcatProperties, LenProperties
<1>2. ASSUME NEW i \in 1 .. Len(s) + Len(t)
      PROVE  /\ (s \o t)[i].addr = (s \o t)[i].meant /\ (s \o t)[i].n <= m
             /\ \A j \in 1 .. Len(s) + Len(t) : i < j => (s \o t)[i].n < (s \o t)[j].n
  <2>1. CASE i \in 1 .. Len(s) /\ (s \o t)[i] = s[i]
    BY <1>1, <2>1 DEF Ordered, Before
  <2>2. CASE i > Len(s) /\ i - Len(s) \in 1 .. Len(t) /\ (s \o t)[i] = t[i - Len(s)]
    <3>1. \A j \in 1 .. Len(s) + Len(t) :
            i < j => j - Len(s) \in 1 .. Len(t) /\ (s \o t)[j] = t[j - Len(s)]
              /\ i - Len(s) < j - Len(s)
      BY <1>1, <2>2
    <3> QED
      BY <2>2, <3>1 DEF Ordered
  <2> QED
    BY <1>1, <2>1, <2>2
<1> QED
  BY <1>1, <1>2 DEF Ordered

\* What is older than two parts is older than both together.
LEMMA OlderConcat ==
  ASSUME NEW s \in Seq(Datagram), NEW t \in Seq(Datagram), NEW u \in Seq(Datagram)
  PROVE  /\ Before(s, u) /\ Before(t, u) => Before(s \o t, u)
         /\ Before(u, s) /\ Before(u, t) => Before(u, s \o t)
<1>1. /\ Len(s \o t) = Len(s) + Len(t)
      /\ \A i \in 1 .. Len(s) + Len(t) :
           \/ i \in 1 .. Len(s) /\ (s \o t)[i] = s[i]
           \/ i - Len(s) \in 1 .. Len(t) /\ (s \o t)[i] = t[i - Len(s)]
  BY ConcatProperties, LenProperties
<1> QED
  BY <1>1 DEF Before

\* A piece of what is in order.
LEMMA OrderedPiece ==
  ASSUME NEW s \in Seq(Datagram), NEW m, Ordered(s, m), NEW a \in Nat \ {0}, NEW b \in 0 .. Len(s)
  PROVE  /\ SubSeq(s, a, b) \in Seq(Datagram) /\ Ordered(SubSeq(s, a, b), m)
         /\ \A i \in 1 .. Len(SubSeq(s, a, b)) :
              a + i - 1 \in a .. b /\ SubSeq(s, a, b)[i] = s[a + i - 1]
<1>1. Len(s) \in Nat /\ \A i \in a .. b : i \in 1 .. Len(s) /\ s[i] \in Datagram
  BY LenProperties, ElementOfSeq
<1>2. /\ SubSeq(s, a, b) \in Seq(Datagram)
      /\ Len(SubSeq(s, a, b)) = IF a <= b THEN b - a + 1 ELSE 0
      /\ \A i \in 1 .. b - a + 1 : SubSeq(s, a, b)[i] = s[a + i - 1]
  BY <1>1, SubSeqProperties
<1>3. \A i \in 1 .. Len(SubSeq(s, a, b)) : a + i - 1 \in a .. b /\ SubSeq(s, a, b)[i] = s[a + i - 1]
  BY <1>1, <1>2
<1>4. Ordered(SubSeq(s, a, b), m)
  <2> SUFFICES ASSUME NEW i \in 1 .. Len(SubSeq(s, a, b))
               PROVE  /\ SubSeq(s, a, b)[i].addr = SubSeq(s, a, b)[i].meant
                      /\ SubSeq(s, a, b)[i].n <= m
                      /\ \A j \in 1 .. Len(SubSeq(s, a, b)) :
                           i < j => SubSeq(s, a, b)[i].n < SubSeq(s, a, b)[j].n
    BY DEF Ordered
  <2>1. a + i - 1 \in 1 .. Len(s) /\ i \in Nat
    BY <1>1, <1>2, <1>3
  <2>2. \A j \in 1 .. Len(SubSeq(s, a, b)) :
          i < j => a + j - 1 \in 1 .. Len(s) /\ a + i - 1 < a + j - 1
    BY <1>1, <1>2, <1>3
  <2> QED
    BY <1>3, <2>1, <2>2 DEF Ordered
<1> QED
  BY <1>2, <1>3, <1>4

\* The first k of a batch leave; what is left of it stays or is given up.
LEMMA FlushOrder ==
  ASSUME NEW a, NEW b, NEW c, NEW m, CastOrder(a, b, c, m), NEW k \in 0 .. Len(b),
         NEW d \in {SubSeq(b, k + 1, Len(b)), <<>>}
  PROVE  CastOrder(a \o SubSeq(b, 1, k), d, c, m)
<1> DEFINE front == SubSeq(b, 1, k)
           back == SubSeq(b, k + 1, Len(b))
<1>0. /\ a \in Seq(Datagram) /\ b \in Seq(Datagram) /\ c \in Seq(Datagram) /\ Len(b) \in Nat
      /\ k \in Nat
      /\ Ordered(a, m) /\ Ordered(b, m) /\ Ordered(c, m)
      /\ Before(a, b) /\ Before(a, c) /\ Before(b, c)
  BY LenProperties DEF CastOrder
<1>1. /\ front \in Seq(Datagram) /\ Ordered(front, m)
      /\ \A i \in 1 .. Len(front) : i \in 1 .. k /\ i \in 1 .. Len(b) /\ front[i] = b[i]
  BY <1>0, OrderedPiece
<1>2. /\ back \in Seq(Datagram) /\ Ordered(back, m)
      /\ \A i \in 1 .. Len(back) : k + i \in k + 1 .. Len(b) /\ back[i] = b[k + i]
  BY <1>0, OrderedPiece
<1> HIDE DEF front, back
<1>3. Before(a, front) /\ Before(front, c) /\ Before(front, back) /\ Before(a, back)
        /\ Before(back, c)
  <2>1. Before(a, front) /\ Before(front, c)
    BY <1>0, <1>1 DEF Before
  <2>2. Before(a, back) /\ Before(back, c)
    <3>1. \A i \in 1 .. Len(back) : k + i \in 1 .. Len(b) /\ back[i] = b[k + i]
      BY <1>0, <1>2
    <3> QED
      BY <1>0, <3>1 DEF Before
  <2>3. Before(front, back)
    <3> SUFFICES ASSUME NEW i \in 1 .. Len(front), NEW j \in 1 .. Len(back)
                 PROVE  front[i].n < back[j].n
      BY DEF Before
    <3>1. i \in 1 .. Len(b) /\ k + j \in 1 .. Len(b) /\ i < k + j
      BY <1>0, <1>1, <1>2
    <3> QED
      BY <1>0, <1>1, <1>2, <3>1 DEF Ordered
  <2> QED
    BY <2>1, <2>2, <2>3
<1>4. <<>> \in Seq(Datagram) /\ Len(<<>>) = 0
  BY EmptySeq
<1>5. d \in Seq(Datagram) /\ Ordered(d, m) /\ Before(a, d) /\ Before(front, d) /\ Before(d, c)
  <2>1. CASE d = back
    BY <1>2, <1>3, <2>1
  <2>2. CASE d = <<>>
    BY <1>4, <2>2 DEF Ordered, Before
  <2> QED
    BY <2>1, <2>2 DEF back
<1>6. a \o front \in Seq(Datagram) /\ Ordered(a \o front, m)
  BY <1>0, <1>1, <1>3, OrderedConcat
<1>7. Before(a \o front, c) /\ Before(a \o front, d)
  BY <1>0, <1>1, <1>3, <1>5, OlderConcat
<1> QED
  BY <1>0, <1>5, <1>6, <1>7 DEF CastOrder, front

\* Socket::flushData on a batch with `rest` behind it keeps the order.
LEMMA FlushStep ==
  ASSUME NEW batch, NEW rest, NEW m, CastOrder(cast_wire, batch, rest, m), Cast!Flush(batch, rest)
  PROVE  CastOrder(cast_wire', cast_sending', cast_waiting', m)
<1>1. PICK k \in 0 .. Len(batch) :
        /\ cast_wire' = cast_wire \o SubSeq(batch, 1, k) /\ cast_waiting' = rest
        /\ cast_sending' \in {SubSeq(batch, k + 1, Len(batch)), <<>>}
  BY DEF Cast!Flush
<1>2. PICK d \in {SubSeq(batch, k + 1, Len(batch)), <<>>} : cast_sending' = d
  BY <1>1
<1>3. CastOrder(cast_wire \o SubSeq(batch, 1, k), d, rest, m)
  BY FlushOrder
<1> QED
  BY <1>1, <1>2, <1>3

\* So does flushData on what waits, whether or not a batch is left from before.
LEMMA FlushDataStep ==
  ASSUME NEW list, NEW m, CastOrder(cast_wire, cast_sending, list, m), Cast!FlushData(list)
  PROVE  CastOrder(cast_wire', cast_sending', cast_waiting', m)
<1>1. CASE cast_sending # <<>>
  BY <1>1, FlushStep DEF Cast!FlushData
<1>2. CASE cast_sending = <<>>
  <2>1. CastOrder(cast_wire, list, <<>>, m)
    <3>1. <<>> \in Seq(Datagram) /\ 1 .. Len(<<>>) = {}
      BY EmptySeq
    <3>2. cast_wire \in Seq(Datagram) /\ list \in Seq(Datagram) /\ Ordered(cast_wire, m)
            /\ Ordered(list, m)
          /\ Before(cast_wire, list)
      BY DEF CastOrder
    <3>3. Ordered(<<>>, m) /\ Before(cast_wire, <<>>) /\ Before(list, <<>>)
      BY <3>1 DEF Ordered, Before
    <3> QED
      BY ONLY <3>1, <3>2, <3>3 DEF CastOrder
  <2> QED
    BY <1>2, <2>1, FlushStep DEF Cast!FlushData
<1> QED
  BY <1>1, <1>2

\* One more, for the present target.
LEMMA SendOrder ==
  ASSUME NEW a, NEW b, NEW c, NEW m \in Nat, CastOrder(a, b, c, m), NEW x \in Cast!Address
  PROVE  CastOrder(a, b, Append(c, [n |-> m + 1, addr |-> x, meant |-> x]), m + 1)
<1> DEFINE new == [n |-> m + 1, addr |-> x, meant |-> x]
           list == Append(c, new)
<1>0. /\ a \in Seq(Datagram) /\ b \in Seq(Datagram) /\ c \in Seq(Datagram)
      /\ Ordered(a, m) /\ Ordered(b, m) /\ Ordered(c, m)
      /\ Before(a, b) /\ Before(a, c) /\ Before(b, c)
  BY DEF CastOrder
<1>1. ASSUME NEW s \in Seq(Datagram), Ordered(s, m)
      PROVE  Ordered(s, m + 1) /\ \A i \in 1 .. Len(s) : s[i].n \in Nat /\ s[i].n < m + 1
  <2>1. \A i \in 1 .. Len(s) : s[i].n \in Nat /\ s[i].n <= m
    <3>1. \A i \in 1 .. Len(s) : s[i] \in Datagram
      BY ElementOfSeq
    <3> QED
      BY <1>1, <3>1 DEF Ordered, Datagram
  <2>2. ASSUME NEW i \in 1 .. Len(s)
        PROVE  /\ s[i].addr = s[i].meant
               /\ \A j \in 1 .. Len(s) : i < j => s[i].n < s[j].n
    BY <1>1, <2>2 DEF Ordered
  <2>3. \A i \in 1 .. Len(s) : s[i].n \in Nat /\ s[i].n < m + 1 /\ s[i].n <= m + 1
    BY ONLY <2>1, m \in Nat
  <2> QED
    BY ONLY <2>2, <2>3 DEF Ordered
<1>2. /\ list \in Seq(Datagram) /\ Len(c) \in Nat /\ Len(list) = Len(c) + 1
      /\ \A i \in 1 .. Len(c) : list[i] = c[i]
      /\ list[Len(c) + 1] = new /\ new.n = m + 1 /\ new.addr = new.meant
  BY <1>0, AppendProperties, LenProperties DEF Datagram
<1> HIDE DEF new, list
<1>3. \A i \in 1 .. Len(list) : i \in 1 .. Len(c) \/ i = Len(c) + 1
  BY <1>2
<1>4. Ordered(list, m + 1)
  <2> SUFFICES ASSUME NEW i \in 1 .. Len(list)
               PROVE  /\ list[i].addr = list[i].meant /\ list[i].n <= m + 1
                      /\ \A j \in 1 .. Len(list) : i < j => list[i].n < list[j].n
    BY DEF Ordered
  <2>1. CASE i \in 1 .. Len(c)
    <3>1. \A j \in 1 .. Len(list) : i < j => list[i].n < list[j].n
      <4>1. c[i].n < m + 1 /\ \A j \in 1 .. Len(c) : i < j => c[i].n < c[j].n
        BY <1>0, <1>1, <2>1 DEF Ordered
      <4> QED
        BY <1>2, <1>3, <2>1, <4>1
    <3>2. c[i].addr = c[i].meant /\ c[i].n <= m + 1
      BY <1>0, <1>1, <2>1 DEF Ordered
    <3> QED
      BY <1>2, <2>1, <3>1, <3>2
  <2>2. CASE i = Len(c) + 1
    BY <1>2, <1>3, <2>2
  <2> QED
    BY <1>3, <2>1, <2>2
<1>5. Before(a, list) /\ Before(b, list)
  <2>1. \A i \in 1 .. Len(a) : a[i].n < m + 1
    BY <1>0, <1>1
  <2>2. \A i \in 1 .. Len(b) : b[i].n < m + 1
    BY <1>0, <1>1
  <2>3. Before(a, list)
    BY <1>0, <1>2, <1>3, <2>1 DEF Before
  <2>4. Before(b, list)
    BY <1>0, <1>2, <1>3, <2>2 DEF Before
  <2> QED
    BY <2>3, <2>4
<1> QED
  BY <1>0, <1>1, <1>2, <1>4, <1>5 DEF CastOrder, list, new

\* What is given for a socket is that socket or the one that was asked for.
LEMMA Asked ==
  ASSUME NEW s, NEW t, NEW r \in Cast!MayFail(s, t)
  PROVE  /\ r.sock \in {s, t}
         /\ r.ok => r.sock = t /\ (cast_param.target[1] = 4 \/ s.family = 6)
<1>1. r \in {[ok |-> FALSE, sock |-> s]}
      \/ (r \in {[ok |-> TRUE, sock |-> t]} /\ (cast_param.target[1] = 4 \/ s.family = 6))
  BY DEF Cast!MayFail
<1> QED
  BY <1>1

\* The options of a group leave a socket as it was but for themselves.
LEMMA MultiSock ==
  ASSUME cast_sock \in SockType, NEW multi \in Cast!SetMultiProperties
  PROVE  /\ multi.sock \in SockType
         /\ multi.sock.family = cast_sock.family /\ multi.sock.broadcast = cast_sock.broadcast
         /\ multi.sock.joined = cast_sock.joined
         /\ multi.ok => multi.sock.ttl /\ multi.sock.loop
<1> DEFINE Like(s) == /\ s \in SockType /\ s.family = cast_sock.family
  /\ s.broadcast = cast_sock.broadcast
                      /\ s.joined = cast_sock.joined
<1>1. PICK ttl \in Cast!SetMultiTTL(cast_sock) :
        multi \in IF ttl.ok THEN UNION {Cast!SetMultiLOOP(out.sock) :
            out \in Cast!SetMultiIF(ttl.sock)} ELSE {ttl}
  BY DEF Cast!SetMultiProperties
<1>2. ttl.sock \in {cast_sock, [cast_sock EXCEPT !.ttl = TRUE]}
        /\ (ttl.ok => ttl.sock = [cast_sock EXCEPT !.ttl = TRUE])
  BY Asked DEF Cast!SetMultiTTL
<1>3. Like(ttl.sock) /\ (ttl.ok => ttl.sock.ttl)
  BY <1>2 DEF SockType
<1>4. CASE ttl.ok
  <2>1. PICK out \in Cast!SetMultiIF(ttl.sock) : multi \in Cast!SetMultiLOOP(out.sock)
    BY <1>1, <1>4
  <2>2. out.sock \in {ttl.sock, [ttl.sock EXCEPT !.out = TRUE]}
    BY <2>1, Asked DEF Cast!SetMultiIF
  <2>3. Like(out.sock) /\ out.sock.ttl
    BY <1>3, <1>4, <2>2 DEF SockType
  <2>4. multi.sock \in {out.sock, [out.sock EXCEPT !.loop = TRUE]}
        /\ (multi.ok => multi.sock = [out.sock EXCEPT !.loop = TRUE])
    BY <2>1, Asked DEF Cast!SetMultiLOOP
  <2> QED
    BY <2>3, <2>4 DEF SockType
<1>5. CASE ~ ttl.ok
  BY <1>1, <1>3, <1>5
<1> QED
  BY <1>4, <1>5

\* What joining a group makes of a socket.
LEMMA JoinSock ==
  ASSUME cast_param \in Cast!Param, NEW s \in SockType, NEW joined \in Cast!JoinMultiAddr(s)
  PROVE  /\ joined.sock \in SockType
         /\ joined.ok => /\ joined.sock = [s EXCEPT !.joined = @ \cup {cast_param.target}]
                         /\ cast_param.target[1] = 4 \/ s.family = 6
<1>1. CASE cast_param.target[2] \in Group
  <2>1. joined \in Cast!MayFail(s, [s EXCEPT !.joined = @ \cup {cast_param.target}])
    BY <1>1 DEF Cast!JoinMultiAddr
  <2>2. /\ joined.sock \in {s, [s EXCEPT !.joined = @ \cup {cast_param.target}]}
        /\ joined.ok => /\ joined.sock = [s EXCEPT !.joined = @ \cup {cast_param.target}]
                        /\ cast_param.target[1] = 4 \/ s.family = 6
    BY <2>1, Asked
  <2>3. cast_param.target \in Cast!Address
    BY DEF Cast!Param
  <2> QED
    BY <2>2, <2>3 DEF SockType
<1>2. CASE cast_param.target[2] \notin Group
  BY <1>2 DEF Cast!JoinMultiAddr
<1> QED
  BY <1>1, <1>2

\* Every step of a UDPImp keeps the types.
LEMMA CastTypesStep == CastTypes /\ [Cast!Next]_Cast!vars => CastTypes'
<1> SUFFICES ASSUME CastTypes, [Cast!Next]_Cast!vars PROVE CastTypes'
  OBVIOUS
<1> USE DEF CastTypes, Cast!initVars, Cast!sendVars
<1>0. Cast!NoSock \in SockType
  BY DEF Cast!NoSock, SockType
<1>1. ASSUME NEW p \in Cast!Param, Cast!InitCall(p) PROVE CastTypes'
  BY <1>1, <1>0 DEF Cast!InitCall, Cast!Shutdown
<1>2. CASE Cast!ShutdownCall
  BY <1>2, <1>0 DEF Cast!ShutdownCall, Cast!Shutdown
<1>3. CASE Cast!BindSock
  <2>1. [Cast!NoSock EXCEPT !.family = cast_param.local] \in SockType
    BY DEF Cast!NoSock, SockType, Cast!Param
  <2> QED
    BY <1>3, <2>1 DEF Cast!BindSock, Cast!Fails, Cast!NewUdpSockWithBinding
<1>4. CASE Cast!InitCast
  <2>1. cast_sock' \in SockType
    <3>1. CASE UNCHANGED cast_sock \/ Cast!SetBroadcast
      BY <3>1 DEF Cast!SetBroadcast, SockType
    <3>2. ASSUME NEW multi \in Cast!SetMultiProperties, cast_sock' = multi.sock
          PROVE cast_sock' \in SockType
      BY <3>2, MultiSock
    <3>3. ASSUME NEW multi \in Cast!SetMultiProperties,
                 NEW joined \in Cast!JoinMultiAddr(multi.sock),
                 cast_sock' = joined.sock
          PROVE cast_sock' \in SockType
      BY <3>3, MultiSock, JoinSock
    <3> QED
      BY <1>4, <3>1, <3>2, <3>3 DEF Cast!InitCast
  <2> QED
    BY <1>4, <2>1 DEF Cast!InitCast, Cast!Fails
<1>5. CASE Cast!SetAttach
  <2>1. cast_sock' \in SockType
    BY <1>5 DEF Cast!SetAttach, SockType
  <2> QED
    BY <1>5, <2>1 DEF Cast!SetAttach
<1>6. CASE Cast!Send
  BY <1>6 DEF Cast!Send
<1>7. CASE Cast!OnWriteAble
  BY <1>7 DEF Cast!OnWriteAble
<1>8. CASE UNCHANGED Cast!vars
  BY <1>8 DEF Cast!vars
<1> QED
  BY <1>1, <1>2, <1>3, <1>4, <1>5, <1>6, <1>7, <1>8 DEF Cast!Next

\* Every step keeps the order, a step of init() because it leaves the datagrams alone.
LEMMA CastOrderStep ==
  CastTypes /\ CastOrder(cast_wire, cast_sending, cast_waiting, cast_given) /\ [Cast!Next]_Cast!vars
    => CastOrder(cast_wire', cast_sending', cast_waiting', cast_given')
<1> SUFFICES ASSUME CastTypes, CastOrder(cast_wire, cast_sending, cast_waiting, cast_given),
                    [Cast!Next]_Cast!vars
             PROVE  CastOrder(cast_wire', cast_sending', cast_waiting', cast_given')
  OBVIOUS
<1>1. CASE Cast!Send
  <2> DEFINE list == Append(cast_waiting, [n |-> cast_given + 1, addr |-> cast_sendAddr,
                                           meant |-> cast_param.target])
  <2>1. cast_sendAddr = cast_param.target /\ cast_sendAddr \in Cast!Address /\ cast_given \in Nat
    BY DEF CastTypes, Cast!Param
  <2>2. CastOrder(cast_wire, cast_sending, list, cast_given + 1)
    BY <2>1, SendOrder
  <2> HIDE DEF list
  <2>3. cast_given' = cast_given + 1
          /\ (Cast!FlushData(list)
                 \/ (cast_waiting' = list /\ UNCHANGED <<cast_sending, cast_wire>>))
    BY <1>1 DEF Cast!Send, list
  <2>4. CASE Cast!FlushData(list)
    BY <2>2, <2>3, <2>4, FlushDataStep
  <2>5. CASE cast_waiting' = list /\ UNCHANGED <<cast_sending, cast_wire>>
    BY <2>2, <2>3, <2>5
  <2> QED
    BY <2>3, <2>4, <2>5
<1>2. CASE Cast!OnWriteAble
  <2>1. Cast!FlushData(cast_waiting) /\ cast_given' = cast_given
    BY <1>2 DEF Cast!OnWriteAble
  <2> QED
    BY <2>1, FlushDataStep
<1>3. CASE UNCHANGED Cast!sendVars
  BY <1>3 DEF Cast!sendVars
<1> QED
  BY <1>1, <1>2, <1>3 DEF Cast!Next, Cast!vars, Cast!sendVars, Cast!ShutdownCall, Cast!BindSock,
                          Cast!InitCast, Cast!SetAttach, Cast!InitCall

\* Every step of init() prepares what the next one relies on.
LEMMA CastReadyStep == CastTypes /\ CastReady /\ [Cast!Next]_Cast!vars => CastReady'
<1> SUFFICES ASSUME CastTypes, CastReady, [Cast!Next]_Cast!vars PROVE CastReady'
  OBVIOUS
<1> USE DEF CastReady, Prepared
<1>1. ASSUME NEW p \in Cast!Param, Cast!InitCall(p) PROVE CastReady'
  BY <1>1 DEF Cast!InitCall, Cast!Shutdown
<1>2. CASE Cast!ShutdownCall
  BY <1>2 DEF Cast!ShutdownCall, Cast!Shutdown
<1>3. CASE Cast!BindSock
  BY <1>3 DEF Cast!BindSock, Cast!Fails, Cast!NewUdpSockWithBinding
<1>4. CASE Cast!InitCast
  <2>1. cast_sock = [Cast!NoSock EXCEPT !.family = cast_param.local] /\ ~cast_inited
          /\ UNCHANGED <<cast_inited, cast_param>>
    BY <1>4 DEF Cast!InitCast
  <2>2. CASE cast_step' = "idle"
    BY <2>1, <2>2
  <2>3. CASE cast_step' = "attach"
    <3>1. CASE cast_param.cast = "uni" /\ UNCHANGED cast_sock
      BY <2>1, <2>3, <3>1 DEF Cast!NoSock
    <3>2. CASE cast_param.cast = "broad" /\ Cast!SetBroadcast
      BY <2>1, <2>3, <3>2 DEF Cast!NoSock, Cast!SetBroadcast
    <3>3. CASE cast_param.cast = "multi"
      <4>1. PICK multi \in Cast!SetMultiProperties : multi.ok
              /\ \E joined \in Cast!JoinMultiAddr(multi.sock) :
              joined.ok /\ cast_sock' = joined.sock
        BY <1>4, <2>3, <3>3 DEF Cast!InitCast, Cast!Fails
      <4>2. PICK joined \in Cast!JoinMultiAddr(multi.sock) : joined.ok /\ cast_sock' = joined.sock
        BY <4>1
      <4>3. cast_sock.family = cast_param.local /\ cast_sock.broadcast = FALSE
              /\ cast_sock.joined = {}
        BY <2>1 DEF Cast!NoSock
      <4>4. /\ multi.sock \in SockType /\ multi.sock.family = cast_param.local
            /\ multi.sock.broadcast = FALSE
            /\ multi.sock.joined = {} /\ multi.sock.ttl /\ multi.sock.loop
        BY <4>1, <4>3, MultiSock DEF CastTypes
      <4>5. cast_sock' = [multi.sock EXCEPT !.joined = @ \cup {cast_param.target}]
            /\ (cast_param.target[1] = 4 \/ cast_param.local = 6)
        BY <4>2, <4>4, JoinSock DEF CastTypes
      <4>6. /\ cast_sock'.family = cast_param.local /\ cast_sock'.broadcast = FALSE
            /\ cast_sock'.ttl /\ cast_sock'.loop /\ cast_sock'.joined = {cast_param.target}
        BY <4>4, <4>5 DEF SockType
      <4>7. cast_sock'.broadcast = (cast_param'.cast = "broad") /\ cast_param'.cast = "multi"
        BY <2>1, <3>3, <4>6
      <4>8. Prepared'
        BY <2>1, <4>5, <4>6, <4>7 DEF Prepared
      <4> QED
        BY <2>1, <2>3, <4>8
    <3> QED
      BY <1>4, <2>3, <3>1, <3>2, <3>3 DEF Cast!InitCast, Cast!Fails
  <2> QED
    BY <1>4, <2>2, <2>3 DEF Cast!InitCast, Cast!Fails
<1>5. CASE Cast!SetAttach
  BY <1>5 DEF Cast!SetAttach, CastTypes, SockType
<1>6. CASE UNCHANGED Cast!initVars
  BY <1>6 DEF Cast!initVars
<1> QED
  BY <1>1, <1>2, <1>3, <1>4, <1>5, <1>6 DEF Cast!Next, Cast!vars, Cast!initVars, Cast!Send,
                                            Cast!OnWriteAble

\* A UDPImp that is inited has a socket with all that its cast type needs, and every datagram
\* goes to the target it was meant for, in order, for any hosts, groups and bounds.
THEOREM CastSafe == Cast!Spec => []Cast!UdpCastRight
<1>1. Cast!Init => CastInv
  <2> SUFFICES ASSUME Cast!Init PROVE CastInv
    OBVIOUS
  <2>1. <<>> \in Seq(Datagram) /\ Len(<<>>) = 0
    BY EmptySeq
  <2>2. CastTypes
    <3>1. Cast!NoParam \in Cast!Param /\ Cast!NoSock \in SockType
      BY DEF Cast!NoParam, Cast!Param, Cast!Address, Cast!NoSock, SockType
    <3> QED
      BY <3>1 DEF Cast!Init, CastTypes
  <2>4. CastReady
    BY DEF Cast!Init, CastReady
  <2>3. CastOrder(cast_wire, cast_sending, cast_waiting, cast_given)
    BY <2>1 DEF Cast!Init, CastOrder, Ordered, Before
  <2> QED
    BY <2>2, <2>3, <2>4 DEF CastInv
<1>2. CastInv /\ [Cast!Next]_Cast!vars => CastInv'
  BY CastTypesStep, CastReadyStep, CastOrderStep DEF CastInv
<1>3. CastInv => Cast!UdpCastRight
  <2> SUFFICES ASSUME CastInv PROVE Cast!Ready /\ Cast!ToTarget
    BY DEF Cast!UdpCastRight
  <2>1. Cast!Ready
    BY DEF CastInv, CastTypes, CastReady, Prepared, Cast!Ready
  <2>2. /\ cast_wire \in Seq(Datagram) /\ cast_sending \in Seq(Datagram)
        /\ cast_waiting \in Seq(Datagram)
        /\ Ordered(cast_wire, cast_given) /\ Ordered(cast_sending, cast_given)
        /\ Ordered(cast_waiting, cast_given)
        /\ Before(cast_wire, cast_sending) /\ Before(cast_wire, cast_waiting)
        /\ Before(cast_sending, cast_waiting)
    BY DEF CastInv, CastOrder
  <2>3. cast_wire \o cast_sending \in Seq(Datagram)
          /\ Ordered(cast_wire \o cast_sending, cast_given)
          /\ Before(cast_wire \o cast_sending, cast_waiting)
    BY <2>2, OrderedConcat, OlderConcat
  <2>4. Ordered((cast_wire \o cast_sending) \o cast_waiting, cast_given)
    BY <2>2, <2>3, OrderedConcat
  <2> QED
    BY <2>1, <2>2, <2>4 DEF Cast!ToTarget, Ordered
<1> QED
  BY <1>1, <1>2, <1>3, PTL DEF Cast!Spec

-----------------------------------------------------------------------------
(* Speed: what the one thread that is in it knows.                         *)

\* A quotient that is too large comes from bytes that are too many.
LEMMA Quotient ==
  ASSUME NEW a \in Nat, NEW b \in Nat \ {0}, NEW m \in Nat
  PROVE  /\ a \div b \in Nat
         /\ ~ (a \div b <= m) => a > m * b
<1>1. a \div b \in Nat /\ (a \div b) * b <= a
  OBVIOUS
<1>2. ASSUME NEW q \in Nat, q * b <= a, ~ (q <= m) PROVE a > m * b
  <2>1. PICK d \in Nat : q = m + 1 + d
    <3>1. q - m - 1 \in Nat /\ q = m + 1 + (q - m - 1)
      BY ONLY <1>2, m \in Nat
    <3> QED
      BY <3>1
  <2>2. q * b = m * b + b + d * b
    BY <2>1
  <2>3. d * b \in Nat /\ m * b \in Nat
    OBVIOUS
  <2> QED
    BY ONLY <1>2, <2>2, <2>3, a \in Nat, b \in Nat \ {0}
<1> QED
  BY <1>1, <1>2

\* Types; the counter never began later than now.
RateTypes ==
  /\ rate_now \in Nat /\ rate_begin \in Nat /\ rate_begin <= rate_now
  /\ rate_bytes \in Nat /\ rate_speed \in Int /\ rate_total \in Nat /\ rate_counted \in Nat
  /\ rate_met \in BOOLEAN
  /\ rate_pc \in [Rate!Thread -> {"out", "store", "compute", "divide", "reset", "clear"}]
  /\ rate_local \in [Rate!Thread -> Nat]
  /\ rate_closed \subseteq [from : Nat, to : Nat, bytes : Nat]

\* What a thread that is in it knows; `met` ends all that.
RateOwn(t) ==
  /\ rate_pc[t] = "store" => rate_total = rate_counted + rate_local[t]
  /\ rate_pc[t] \in {"compute", "divide"} => rate_total = rate_counted + rate_bytes
  /\ rate_pc[t] \in {"reset", "clear"} => rate_total = rate_counted

\* As long as no two threads met, one thread at most is in it, and every interval that was
\* divided is over.
RateAlone ==
  ~rate_met =>
    /\ \A t, u \in Rate!Thread : rate_pc[t] # "out" /\ rate_pc[u] # "out" => t = u
    /\ \A t \in Rate!Thread : RateOwn(t)
    /\ \A i \in rate_closed : i.to <= rate_begin
         \/ (i.to <= rate_now /\ \E t \in Rate!Thread : rate_pc[t] = "reset")

\* Nobody divides by zero: the time that passed is taken before, and is more than none.
RateDivides == \A t \in Rate!Thread : rate_pc[t] = "divide"
  => rate_local[t] > 0 /\ (rate_met \/ rate_begin + rate_local[t] <= rate_now)

\* Every step keeps the types, and takes a length of time only if there is one.
LEMMA RateTypesStep ==
  RateTypes /\ RateDivides /\ RateAlone /\ [Rate!Next]_Rate!vars => RateTypes' /\ RateDivides'
<1> SUFFICES ASSUME RateTypes, RateDivides, RateAlone, [Rate!Next]_Rate!vars
             PROVE RateTypes' /\ RateDivides'
  OBVIOUS
<1> USE RateAssumption DEF RateTypes, RateDivides, Rate!Goes, Rate!Enter
<1>1. ASSUME NEW t \in Rate!Thread, NEW n \in Amount, Rate!Add(t, n)
      PROVE RateTypes' /\ RateDivides'
  BY <1>1 DEF Rate!Add
<1>2. ASSUME NEW t \in Rate!Thread,
             Rate!Store(t) \/ Rate!GetSpeed(t) \/ Rate!Elapsed(t) \/ Rate!Reset(t) \/ Rate!Clear(t)
      PROVE RateTypes' /\ RateDivides'
  <2>1. CASE Rate!Store(t)
    BY <2>1 DEF Rate!Store
  <2>2. CASE Rate!GetSpeed(t)
    BY <2>2 DEF Rate!GetSpeed
  <2>3. CASE Rate!Elapsed(t)
    <3>1. rate_now - rate_begin \in Nat
      BY DEF RateTypes
    <3>2. RateTypes'
      BY <2>3, <3>1 DEF Rate!Elapsed
    <3>3. RateDivides'
      BY <2>3, <3>1 DEF Rate!Elapsed
    <3> QED
      BY <3>2, <3>3
  <2>4. CASE Rate!Reset(t)
    <3>1. RateTypes'
      BY <2>4 DEF Rate!Reset, RateAlone
    <3>2. RateDivides'
      BY <2>4 DEF Rate!Reset, RateAlone
    <3> QED
      BY <3>1, <3>2
  <2>5. CASE Rate!Clear(t)
    BY <2>5 DEF Rate!Clear
  <2> QED
    BY <1>2, <2>1, <2>2, <2>3, <2>4, <2>5
<1>3. ASSUME NEW t \in Rate!Thread, Rate!Divide(t) PROVE RateTypes' /\ RateDivides'
  <2>1. rate_local[t] \in Nat \ {0} /\ rate_bytes * Second \in Nat
    BY <1>3 DEF Rate!Divide
  <2>2. (rate_bytes * Second) \div rate_local[t] \in Nat
    BY <2>1, Quotient
  <2>3. rate_speed' \in Int
    BY <1>3, <2>2 DEF Rate!Divide
  <2>4. rate_closed' \subseteq [from : Nat, to : Nat, bytes : Nat]
    BY <1>3, <2>1 DEF Rate!Divide
  <2> QED
    BY <1>3, <2>3, <2>4 DEF Rate!Divide
<1>4. CASE Rate!Tick
  BY <1>4 DEF Rate!Tick
<1>5. CASE UNCHANGED Rate!vars
  BY <1>5 DEF Rate!vars
<1> QED
  BY <1>1, <1>2, <1>3, <1>4, <1>5 DEF Rate!Next

\* Nobody else is in it while one thread is and no two have met.
LEMMA RateOthers ==
  ASSUME RateAlone, ~rate_met, NEW t \in Rate!Thread, rate_pc[t] # "out"
  PROVE  \A u \in Rate!Thread \ {t} : rate_pc[u] = "out"
BY DEF RateAlone

\* A thread that enters while another is in it is met; else it is alone.
LEMMA RateEntered ==
  ASSUME NEW t \in Rate!Thread, Rate!Enter(t), ~rate_met'
  PROVE  ~rate_met /\ \A u \in Rate!Thread : rate_pc[u] = "out"
BY DEF Rate!Enter

\* Every step of a thread that is alone leaves what it knows to its next step.
LEMMA RateAloneStep ==
  RateTypes /\ RateDivides /\ RateAlone /\ Rate!EachOnce /\ [Rate!Next]_Rate!vars => RateAlone'
<1> SUFFICES ASSUME RateTypes, RateDivides, RateAlone, Rate!EachOnce, [Rate!Next]_Rate!vars,
                    ~rate_met'
             PROVE RateAlone'
  BY DEF RateAlone
<1>0. ~rate_met
  BY DEF Rate!Next, Rate!vars, Rate!Add, Rate!Store, Rate!GetSpeed, Rate!Elapsed, Rate!Divide,
         Rate!Reset, Rate!Clear, Rate!Tick, Rate!Enter, RateTypes
<1> USE RateAssumption, <1>0 DEF RateTypes, Rate!Goes
<1>1. ASSUME NEW t \in Rate!Thread, NEW n \in Amount, Rate!Add(t, n) PROVE RateAlone'
  <2>1. \A u \in Rate!Thread : rate_pc[u] = "out"
    BY <1>1, RateEntered DEF Rate!Add
  <2> QED
    BY <1>1, <2>1 DEF Rate!Add, RateAlone, RateOwn, Rate!EachOnce
<1>2. ASSUME NEW t \in Rate!Thread, Rate!GetSpeed(t) PROVE RateAlone'
  <2>1. \A u \in Rate!Thread : rate_pc[u] = "out"
    BY <1>2, RateEntered DEF Rate!GetSpeed
  <2> QED
    BY <1>2, <2>1 DEF Rate!GetSpeed, RateAlone, RateOwn, Rate!EachOnce
<1>3. ASSUME NEW t \in Rate!Thread, Rate!Store(t) PROVE RateAlone'
  <2>1. \A u \in Rate!Thread \ {t} : rate_pc[u] = "out"
    BY <1>3, RateOthers DEF Rate!Store
  <2> QED
    BY <1>3, <2>1 DEF Rate!Store, RateAlone, RateOwn
<1>4. ASSUME NEW t \in Rate!Thread, Rate!Elapsed(t) PROVE RateAlone'
  <2>1. \A u \in Rate!Thread \ {t} : rate_pc[u] = "out"
    BY <1>4, RateOthers DEF Rate!Elapsed
  <2> QED
    BY <1>4, <2>1 DEF Rate!Elapsed, RateAlone, RateOwn
<1>5. ASSUME NEW t \in Rate!Thread, Rate!Divide(t) PROVE RateAlone'
  <2>1. \A u \in Rate!Thread \ {t} : rate_pc[u] = "out"
    BY <1>5, RateOthers DEF Rate!Divide
  <2>2. rate_begin + rate_local[t] <= rate_now /\ rate_pc'[t] = "reset"
          /\ \A i \in rate_closed : i.to <= rate_now
    BY <1>5, <2>1 DEF Rate!Divide, RateDivides, RateAlone
  <2>3. \A i \in rate_closed' : i.to <= rate_now'
    BY <1>5, <2>2 DEF Rate!Divide
  <2> QED
    BY <1>5, <2>1, <2>2, <2>3 DEF Rate!Divide, RateAlone, RateOwn
<1>6. ASSUME NEW t \in Rate!Thread, Rate!Reset(t) PROVE RateAlone'
  <2>1. \A u \in Rate!Thread \ {t} : rate_pc[u] = "out"
    BY <1>6, RateOthers DEF Rate!Reset
  <2>2. \A i \in rate_closed : i.to <= rate_now
    BY <1>6 DEF RateAlone
  <2> QED
    BY <1>6, <2>1, <2>2 DEF Rate!Reset, RateAlone, RateOwn
<1>7. ASSUME NEW t \in Rate!Thread, Rate!Clear(t) PROVE RateAlone'
  <2>1. \A u \in Rate!Thread \ {t} : rate_pc[u] = "out"
    BY <1>7, RateOthers DEF Rate!Clear
  <2> QED
    BY <1>7, <2>1 DEF Rate!Clear, RateAlone, RateOwn
<1>8. CASE Rate!Tick
  BY <1>8 DEF Rate!Tick, RateAlone, RateOwn
<1>9. CASE UNCHANGED Rate!vars
  BY <1>9 DEF Rate!vars, RateAlone, RateOwn
<1> QED
  BY <1>1, <1>2, <1>3, <1>4, <1>5, <1>6, <1>7, <1>8, <1>9 DEF Rate!Next

\* The thread that leaves last has counted every byte.
LEMMA EachOnceStep ==
  RateTypes /\ RateAlone /\ Rate!EachOnce /\ [Rate!Next]_Rate!vars => Rate!EachOnce'
<1> SUFFICES ASSUME RateTypes, RateAlone, Rate!EachOnce, [Rate!Next]_Rate!vars, ~rate_met',
                    \A t \in Rate!Thread : rate_pc'[t] = "out"
             PROVE  rate_total' = rate_counted' + rate_bytes'
  BY DEF Rate!EachOnce
<1>0. ~rate_met
  BY DEF Rate!Next, Rate!vars, Rate!Add, Rate!Store, Rate!GetSpeed, Rate!Elapsed, Rate!Divide,
         Rate!Reset, Rate!Clear, Rate!Tick, Rate!Enter, RateTypes
<1> USE RateAssumption, <1>0 DEF RateTypes, Rate!Goes
<1>1. ASSUME NEW t \in Rate!Thread, Rate!Store(t) \/ Rate!Elapsed(t) \/ Rate!Clear(t)
      PROVE rate_total' = rate_counted' + rate_bytes'
  <2>1. RateOwn(t)
    BY DEF RateAlone
  <2> QED
    BY <1>1, <2>1 DEF RateOwn, Rate!Store, Rate!Elapsed, Rate!Clear
<1>2. ASSUME NEW t \in Rate!Thread,
             Rate!GetSpeed(t) \/ Rate!Divide(t) \/ Rate!Reset(t) \/ \E n \in Amount : Rate!Add(t, n)
      PROVE FALSE
  BY <1>2 DEF Rate!GetSpeed, Rate!Divide, Rate!Reset, Rate!Add
<1>3. CASE Rate!Tick
  BY <1>3 DEF Rate!Tick, Rate!EachOnce
<1>4. CASE UNCHANGED Rate!vars
  BY <1>4 DEF Rate!vars, Rate!EachOnce
<1> QED
  BY <1>1, <1>2, <1>3, <1>4 DEF Rate!Next

\* Only a quotient makes a new interval.
LEMMA ClosedBy ==
  ASSUME [Rate!Next]_Rate!vars
  PROVE  \/ UNCHANGED <<rate_closed, rate_speed>> /\ (rate_met => rate_met')
         \/ \E t \in Rate!Thread : Rate!Divide(t)
BY DEF Rate!Next, Rate!vars, Rate!Add, Rate!Store, Rate!GetSpeed, Rate!Elapsed, Rate!Reset,
       Rate!Clear, Rate!Tick, Rate!Enter

\* A new interval begins where the ones before are over.
LEMMA ApartStep ==
  RateTypes /\ RateDivides /\ RateAlone /\ Rate!Apart /\ [Rate!Next]_Rate!vars => Rate!Apart'
<1> SUFFICES ASSUME RateTypes, RateDivides, RateAlone, Rate!Apart, [Rate!Next]_Rate!vars
             PROVE Rate!Apart'
  OBVIOUS
<1>1. ASSUME UNCHANGED rate_closed, rate_met => rate_met' PROVE Rate!Apart'
  BY <1>1 DEF Rate!Apart
<1>2. ASSUME NEW t \in Rate!Thread, Rate!Divide(t) PROVE Rate!Apart'
  <2> DEFINE new == [from |-> rate_begin, to |-> rate_begin + rate_local[t], bytes |-> rate_bytes]
  <2>1. rate_closed' = rate_closed \cup {new} /\ rate_met' = rate_met /\ rate_pc[t] = "divide"
    BY <1>2 DEF Rate!Divide
  <2>2. new.from < new.to
    BY <2>1 DEF RateDivides, RateTypes
  <2>3. ~rate_met => \A i \in rate_closed : i.to <= new.from
    BY <2>1 DEF RateAlone, RateTypes
  <2> QED
    BY <2>1, <2>2, <2>3 DEF Rate!Apart
<1> QED
  BY <1>1, <1>2, ClosedBy

\* The speed that is shown is the quotient of the newest interval, or did not fit.
LEMMA ShownStep ==
  RateTypes /\ RateDivides /\ Rate!Shown /\ [Rate!Next]_Rate!vars => Rate!Shown'
<1> SUFFICES ASSUME RateTypes, RateDivides, Rate!Shown, [Rate!Next]_Rate!vars, ~rate_met'
             PROVE Rate!Shown'
  BY DEF Rate!Shown
<1>1. ASSUME UNCHANGED <<rate_closed, rate_speed>>, rate_met => rate_met' PROVE Rate!Shown'
  BY <1>1 DEF Rate!Shown
<1>2. ASSUME NEW t \in Rate!Thread, Rate!Divide(t) PROVE Rate!Shown'
  <2> DEFINE new == [from |-> rate_begin, to |-> rate_begin + rate_local[t], bytes |-> rate_bytes]
  <2>1. new \in rate_closed' /\ rate_local[t] \in Nat \ {0} /\ rate_bytes * Second \in Nat
    BY <1>2, RateAssumption DEF Rate!Divide, RateDivides, RateTypes
  <2>2. new.to - new.from = rate_local[t] /\ new.bytes = rate_bytes
    BY DEF RateTypes
  <2>3. CASE (rate_bytes * Second) \div rate_local[t] <= MaxInt
    <3>1. rate_speed' = (new.bytes * Second) \div (new.to - new.from)
      BY <1>2, <2>2, <2>3 DEF Rate!Divide
    <3> QED
      BY <2>1, <3>1 DEF Rate!Shown
  <2>4. CASE ~ ((rate_bytes * Second) \div rate_local[t] <= MaxInt)
    <3>1. new.bytes * Second > MaxInt * (new.to - new.from)
      BY <2>1, <2>2, <2>4, Quotient, RateAssumption
    <3> QED
      BY <2>1, <3>1 DEF Rate!Shown
  <2> QED
    BY <2>3, <2>4
<1> QED
  BY <1>1, <1>2, ClosedBy

\* As long as no two threads meet in BytesSpeed, each byte counts in one interval, the
\* intervals are apart, and what is shown is the speed of one of them; no division is by zero
\* even when they meet.
THEOREM SpeedSafe == Rate!Spec => []Rate!SpeedRight
<1>1. Rate!Init => RateTypes /\ RateDivides /\ RateAlone /\ Rate!SpeedRight
  <2> SUFFICES ASSUME Rate!Init PROVE RateTypes /\ RateDivides /\ RateAlone /\ Rate!SpeedRight
    OBVIOUS
  <2>1. RateTypes
    <3>1. rate_now \in Nat /\ rate_begin \in Nat /\ rate_begin <= rate_now
      BY DEF Rate!Init
    <3>2. rate_bytes \in Nat /\ rate_speed \in Int /\ rate_total \in Nat /\ rate_counted \in Nat
      BY DEF Rate!Init
    <3>3. rate_pc \in [Rate!Thread -> {"out", "store", "compute", "divide", "reset", "clear"}]
      BY DEF Rate!Init
    <3>4. rate_local \in [Rate!Thread -> Nat] /\ rate_met \in BOOLEAN /\ rate_closed = {}
      BY DEF Rate!Init
    <3> QED
      BY <3>1, <3>2, <3>3, <3>4 DEF RateTypes
  <2>2. RateDivides /\ RateAlone
    BY DEF Rate!Init, RateDivides, RateAlone, RateOwn
  <2>3. Rate!EachOnce /\ Rate!Apart /\ Rate!Shown
    BY DEF Rate!Init, Rate!EachOnce, Rate!Apart, Rate!Shown
  <2> QED
    BY <2>1, <2>2, <2>3 DEF Rate!SpeedRight
<1>2. RateTypes /\ RateDivides /\ RateAlone /\ Rate!SpeedRight /\ [Rate!Next]_Rate!vars
        => (RateTypes /\ RateDivides /\ RateAlone /\ Rate!SpeedRight)'
  BY RateTypesStep, RateAloneStep, EachOnceStep, ApartStep, ShownStep DEF Rate!SpeedRight
<1> QED
  BY <1>1, <1>2, PTL DEF Rate!Spec

-----------------------------------------------------------------------------
\* The three of them together: SocketRight holds in every state, whoever takes steps.
THEOREM SocketsSafe == SocketsSpec => []SocketRight
<1>1. Accept!SocketAcceptRight /\ Cast!UdpCastRight /\ Rate!SpeedRight => SocketRight
  BY DEF SocketRight
<1> QED
  BY <1>1, AcceptSafe, CastSafe, SpeedSafe, PTL DEF SocketsSpec

-----------------------------------------------------------------------------
(* NoticeCenter.                                                           *)

\* Types; a thread that does something with a dispatcher holds one that was made.
NoticeTypes ==
  /\ notice_disp \in Seq(SUBSET Tag) /\ notice_center \in 0 .. Len(notice_disp)
  /\ notice_pc \in [Threads -> {"idle", "add", "del", "drop", "emit", "call"}]
  /\ notice_holds \in [Threads -> 0 .. Len(notice_disp)]
  /\ \A t \in Threads : notice_pc[t] \in {"add", "del", "drop", "emit"} => notice_holds[t] # 0
  /\ notice_tag \in [Threads -> Tag \cup {Notice!AnyTag}]
  /\ \A t \in Threads : notice_pc[t] \in {"add", "del"} => notice_tag[t] \in Tag
  /\ notice_todo \in [Threads -> SUBSET Tag] /\ notice_seen \in [Threads -> SUBSET Tag]
  /\ notice_on \subseteq Tag /\ notice_raced \subseteq Tag

\* The event's dispatcher holds no listener that was removed; while it is on its way out, all
\* listeners are raced.
CenterRight ==
  /\ notice_center # 0 => notice_disp[notice_center] \subseteq notice_on
  /\ notice_center = 0 => notice_on \subseteq notice_raced
  /\ \A t \in Threads : notice_pc[t] = "drop" /\ notice_holds[t] = notice_center
       => notice_on \subseteq notice_raced

\* What emitEvent will copy was on since it began.
EmitRight ==
  \A t \in Threads :
    notice_pc[t] = "emit" => notice_disp[notice_holds[t]] \subseteq notice_seen[t]

NoticeInv == NoticeTypes /\ CenterRight /\ EmitRight /\ Notice!NoticeCenterRight

\* Start and Return, of a thread, with a dispatcher that was made.
LEMMA Started ==
  ASSUME NoticeTypes, NEW t \in Threads,
         NEW next \in {"idle", "add", "del", "drop", "emit", "call"},
         NEW d \in 0 .. Len(notice_disp), d = 0 => next \in {"idle", "call"},
         NEW x \in Tag \cup {Notice!AnyTag}, next \in {"add", "del"} => x \in Tag,
         Notice!Start(t, next, d, x)
  PROVE  /\ notice_pc' \in [Threads -> {"idle", "add", "del", "drop", "emit", "call"}]
         /\ notice_holds' \in [Threads -> 0 .. Len(notice_disp)]
         /\ \A s \in Threads : notice_pc'[s] \in {"add", "del", "drop", "emit"}
              => notice_holds'[s] # 0
         /\ notice_tag' \in [Threads -> Tag \cup {Notice!AnyTag}]
         /\ \A s \in Threads : notice_pc'[s] \in {"add", "del"} => notice_tag'[s] \in Tag
         /\ notice_pc'[t] = next /\ notice_holds'[t] = d
         /\ \A s \in Threads \ {t} :
              notice_pc'[s] = notice_pc[s] /\ notice_holds'[s] = notice_holds[s]
BY DEF NoticeTypes, Notice!Start

\* What a step does to the listeners of dispatcher d.
LEMMA Changed ==
  ASSUME NoticeTypes, NEW d \in 1 .. Len(notice_disp), NEW s \in SUBSET Tag
  PROVE  /\ [notice_disp EXCEPT ![d] = s] \in Seq(SUBSET Tag)
         /\ Len([notice_disp EXCEPT ![d] = s]) = Len(notice_disp)
         /\ \A e \in 1 .. Len(notice_disp) :
              [notice_disp EXCEPT ![d] = s][e] = IF e = d THEN s ELSE notice_disp[e]
BY ExceptSeq, LenProperties DEF NoticeTypes

\* getDispatcher: whoever takes a dispatcher takes that of the event, or makes one that has no
\* listeners.
LEMMA GetDispatcherKeeps ==
  ASSUME NoticeInv, NEW t \in Threads, NEW x \in Tag \cup {Notice!AnyTag},
         NEW next \in {"add", "del", "emit"}, next # "emit" => x \in Tag,
         Notice!GetDispatcher(t, next, x)
  PROVE  NoticeInv'
<1>0. NoticeTypes /\ CenterRight /\ EmitRight /\ Notice!Kept /\ Notice!NotAfter
  BY DEF NoticeInv, Notice!NoticeCenterRight
<1>1. /\ notice_disp' \in Seq(SUBSET Tag) /\ notice_center' \in 0 .. Len(notice_disp')
      /\ Len(notice_disp') >= Len(notice_disp)
      /\ Len(notice_disp) \in Nat
      /\ \A d \in 1 .. Len(notice_disp) : notice_disp'[d] = notice_disp[d]
      /\ \/ notice_disp' = notice_disp /\ notice_center' = notice_center
         \/ /\ notice_center = 0 /\ notice_center' = Len(notice_disp) + 1
            /\ notice_disp'[notice_center'] = {}
  <2>1. CASE notice_center = 0 /\ next = "add"
    <3>1. /\ notice_disp' = Append(notice_disp, {}) /\ notice_center' = Len(notice_disp) + 1
          /\ notice_disp \in Seq(SUBSET Tag)
          /\ {} \in SUBSET Tag
      BY <1>0, <2>1 DEF Notice!GetDispatcher, NoticeTypes
    <3> QED
      BY <2>1, <3>1, AppendProperties, LenProperties
  <2>2. CASE ~ (notice_center = 0 /\ next = "add")
    BY <1>0, <2>2, LenProperties DEF Notice!GetDispatcher, NoticeTypes
  <2> QED
    BY <2>1, <2>2
<1>2. /\ notice_pc' \in [Threads -> {"idle", "add", "del", "drop", "emit", "call"}]
      /\ notice_holds' \in [Threads -> 0 .. Len(notice_disp')]
      /\ \A s \in Threads : notice_pc'[s] \in {"add", "del", "drop", "emit"} => notice_holds'[s] # 0
      /\ notice_tag' \in [Threads -> Tag \cup {Notice!AnyTag}]
      /\ \A s \in Threads : notice_pc'[s] \in {"add", "del"} => notice_tag'[s] \in Tag
      /\ \A s \in Threads \ {t} : notice_pc'[s] = notice_pc[s] /\ notice_holds'[s] = notice_holds[s]
      /\ notice_pc'[t] \in {"idle", next}
      /\ (notice_pc'[t] # "idle" => notice_center' # 0 /\ notice_holds'[t] = notice_center')
  <2>1. CASE notice_center' = 0
    BY <1>0, <1>1, <2>1 DEF Notice!GetDispatcher, NoticeTypes, Notice!Stay
  <2>2. CASE notice_center' # 0
    <3>1. /\ notice_pc' = [notice_pc EXCEPT ![t] = next]
          /\ notice_holds' = [notice_holds EXCEPT ![t] = notice_center']
          /\ notice_tag' = [notice_tag EXCEPT ![t] = x] /\ notice_center' \in 0 .. Len(notice_disp')
      BY <1>1, <2>2 DEF Notice!GetDispatcher, Notice!Start
    <3>2. notice_holds \in [Threads -> 0 .. Len(notice_disp')]
      BY <1>0, <1>1 DEF NoticeTypes
    <3>3. notice_holds' \in [Threads -> 0 .. Len(notice_disp')]
            /\ notice_tag' \in [Threads -> Tag \cup {Notice!AnyTag}]
      BY <1>0, <3>1, <3>2 DEF NoticeTypes
    <3> QED
      BY <1>0, <2>2, <3>1, <3>2, <3>3 DEF NoticeTypes
  <2> QED
    BY <2>1, <2>2
<1>3. /\ UNCHANGED <<notice_todo, notice_on, notice_raced>>
      /\ notice_seen' = [notice_seen EXCEPT ![t] = IF next = "emit" THEN notice_on ELSE {}]
  BY DEF Notice!GetDispatcher
<1>4. NoticeTypes'
  BY <1>0, <1>1, <1>2, <1>3 DEF NoticeTypes
<1>5. Notice!Kept'
  BY <1>0, <1>1, <1>3 DEF Notice!Kept, NoticeTypes
<1>6. CenterRight'
  <2>1. notice_center' # 0 => notice_disp'[notice_center'] \subseteq notice_on'
    BY <1>0, <1>1, <1>3 DEF CenterRight, NoticeTypes
  <2>2. notice_center' = 0 => notice_on' \subseteq notice_raced'
    BY <1>0, <1>1, <1>3 DEF CenterRight, NoticeTypes
  <2>3. ASSUME NEW s \in Threads, notice_pc'[s] = "drop", notice_holds'[s] = notice_center'
        PROVE notice_on' \subseteq notice_raced'
    <3>1. s # t /\ notice_pc[s] = "drop" /\ notice_holds[s] = notice_center'
      BY <1>2, <2>3
    <3>2. notice_center' = notice_center
      BY <1>0, <1>1, <3>1 DEF NoticeTypes
    <3> QED
      BY <1>0, <1>3, <3>1, <3>2 DEF CenterRight
  <2> QED
    BY <2>1, <2>2, <2>3 DEF CenterRight
<1>7. EmitRight'
  <2> SUFFICES ASSUME NEW s \in Threads, notice_pc'[s] = "emit"
               PROVE notice_disp'[notice_holds'[s]] \subseteq notice_seen'[s]
    BY DEF EmitRight
  <2>1. CASE s = t
    BY <1>0, <1>1, <1>2, <1>3, <1>6, <2>1 DEF CenterRight, NoticeTypes
  <2>2. CASE s # t
    BY <1>0, <1>1, <1>2, <1>3, <2>2 DEF EmitRight, NoticeTypes
  <2> QED
    BY <2>1, <2>2
<1>8. Notice!NotAfter'
  BY <1>0, <1>2, <1>3 DEF Notice!NotAfter, NoticeTypes
<1> QED
  BY <1>4, <1>5, <1>6, <1>7, <1>8 DEF NoticeInv, Notice!NoticeCenterRight

\* addListener on a dispatcher that may be on its way out: the listener is raced, or the event
\* has it.
LEMMA AddListenerKeeps ==
  ASSUME NoticeInv, NEW t \in Threads, Notice!AddListener(t)
  PROVE  NoticeInv'
<1>0. NoticeTypes /\ CenterRight /\ EmitRight /\ Notice!Kept /\ Notice!NotAfter
  BY DEF NoticeInv, Notice!NoticeCenterRight
<1> DEFINE d == notice_holds[t]
           x == notice_tag[t]
<1>1. /\ notice_pc[t] = "add" /\ Notice!Return(t) /\ d \in 1 .. Len(notice_disp) /\ x \in Tag
      /\ Len(notice_disp) \in Nat
      /\ notice_disp' = [notice_disp EXCEPT ![d] = @ \cup {x}] /\ notice_on' = notice_on \cup {x}
      /\ UNCHANGED <<notice_center, notice_todo>>
  BY <1>0, LenProperties DEF Notice!AddListener, NoticeTypes
<1>2. notice_disp[d] \cup {x} \in SUBSET Tag
  BY <1>0, <1>1, ElementOfSeq DEF NoticeTypes
<1>3. /\ notice_disp' \in Seq(SUBSET Tag) /\ Len(notice_disp') = Len(notice_disp)
      /\ \A e \in 1 .. Len(notice_disp) :
           notice_disp'[e] = IF e = d THEN notice_disp[d] \cup {x} ELSE notice_disp[e]
  BY <1>0, <1>1, <1>2, Changed
<1>4. /\ notice_pc' \in [Threads -> {"idle", "add", "del", "drop", "emit", "call"}]
      /\ notice_holds' \in [Threads -> 0 .. Len(notice_disp)]
      /\ \A s \in Threads : notice_pc'[s] \in {"add", "del", "drop", "emit"} => notice_holds'[s] # 0
      /\ notice_tag' \in [Threads -> Tag \cup {Notice!AnyTag}]
      /\ \A s \in Threads : notice_pc'[s] \in {"add", "del"} => notice_tag'[s] \in Tag
      /\ notice_pc'[t] = "idle"
      /\ \A s \in Threads \ {t} : notice_pc'[s] = notice_pc[s] /\ notice_holds'[s] = notice_holds[s]
  BY <1>0, <1>1, Started DEF Notice!Return
<1>5. notice_seen' = [s \in Threads |->
                       IF notice_pc[s] = "emit" THEN notice_seen[s] \cup {x} ELSE notice_seen[s]]
  BY DEF Notice!AddListener
<1>6. \/ notice_raced' = notice_raced \cup {x}
      \/ /\ notice_raced' = notice_raced \ {x} /\ notice_center = d
         /\ \A s \in Threads : ~ (notice_pc[s] = "drop" /\ notice_holds[s] = d)
  BY DEF Notice!AddListener
<1>7. NoticeTypes'
  <2>1. notice_raced' \subseteq Tag /\ notice_on' \subseteq Tag
          /\ notice_seen' \in [Threads -> SUBSET Tag]
    BY <1>0, <1>1, <1>5, <1>6 DEF NoticeTypes
  <2> QED
    BY <1>0, <1>1, <1>3, <1>4, <2>1 DEF NoticeTypes
<1>8. Notice!Kept'
  BY <1>0, <1>1, <1>3, <1>6 DEF Notice!Kept, NoticeTypes
<1>9. CenterRight'
  <2>1. notice_center' # 0 => notice_disp'[notice_center'] \subseteq notice_on'
    BY <1>0, <1>1, <1>3 DEF CenterRight, NoticeTypes
  <2>2. notice_center' = 0 => notice_on' \subseteq notice_raced'
    BY <1>0, <1>1, <1>6 DEF CenterRight
  <2>3. ASSUME NEW s \in Threads, notice_pc'[s] = "drop", notice_holds'[s] = notice_center'
        PROVE notice_on' \subseteq notice_raced'
    <3>1. notice_pc[s] = "drop" /\ notice_holds[s] = notice_center
      BY <1>1, <1>4, <2>3
    <3> QED
      BY <1>0, <1>1, <1>6, <3>1 DEF CenterRight
  <2> QED
    BY <2>1, <2>2, <2>3 DEF CenterRight
<1>10. EmitRight'
  <2> SUFFICES ASSUME NEW s \in Threads, notice_pc'[s] = "emit"
               PROVE notice_disp'[notice_holds'[s]] \subseteq notice_seen'[s]
    BY DEF EmitRight
  <2>1. notice_pc[s] = "emit" /\ notice_holds'[s] = notice_holds[s]
          /\ notice_holds[s] \in 1 .. Len(notice_disp)
    BY <1>0, <1>4 DEF NoticeTypes
  <2> QED
    BY <1>0, <1>3, <1>5, <2>1 DEF EmitRight
<1>11. Notice!NotAfter'
  BY <1>0, <1>1, <1>4, <1>5 DEF Notice!NotAfter
<1> QED
  BY <1>7, <1>8, <1>9, <1>10, <1>11 DEF NoticeInv, Notice!NoticeCenterRight

\* delListener on a dispatcher that may not be the event's any more.
LEMMA DelListenerKeeps ==
  ASSUME NoticeInv, NEW t \in Threads, Notice!DelListener(t)
  PROVE  NoticeInv'
<1>0. NoticeTypes /\ CenterRight /\ EmitRight /\ Notice!Kept /\ Notice!NotAfter
  BY DEF NoticeInv, Notice!NoticeCenterRight
<1> DEFINE d == notice_holds[t]
           x == notice_tag[t]
<1>1. /\ notice_pc[t] = "del" /\ d \in 1 .. Len(notice_disp) /\ x \in Tag
      /\ Len(notice_disp) \in Nat
      /\ notice_disp' = [notice_disp EXCEPT ![d] = @ \ {x}]
      /\ notice_on' = IF d = notice_center THEN notice_on \ {x} ELSE notice_on
      /\ UNCHANGED <<notice_center, notice_todo, notice_raced, notice_seen>>
  BY <1>0, LenProperties DEF Notice!DelListener, NoticeTypes
<1>2. notice_disp[d] \ {x} \in SUBSET Tag
  BY <1>0, <1>1, ElementOfSeq DEF NoticeTypes
<1>3. /\ notice_disp' \in Seq(SUBSET Tag) /\ Len(notice_disp') = Len(notice_disp)
      /\ \A e \in 1 .. Len(notice_disp) :
           notice_disp'[e] = IF e = d THEN notice_disp[d] \ {x} ELSE notice_disp[e]
  BY <1>0, <1>1, <1>2, Changed
<1>4. /\ notice_pc' \in [Threads -> {"idle", "add", "del", "drop", "emit", "call"}]
      /\ notice_holds' \in [Threads -> 0 .. Len(notice_disp)]
      /\ \A s \in Threads : notice_pc'[s] \in {"add", "del", "drop", "emit"} => notice_holds'[s] # 0
      /\ notice_tag' \in [Threads -> Tag \cup {Notice!AnyTag}]
      /\ \A s \in Threads : notice_pc'[s] \in {"add", "del"} => notice_tag'[s] \in Tag
      /\ \/ notice_pc'[t] = "idle"
         \/ notice_pc'[t] = "drop" /\ notice_holds'[t] = d /\ notice_disp'[d] = {}
      /\ \A s \in Threads \ {t} : notice_pc'[s] = notice_pc[s] /\ notice_holds'[s] = notice_holds[s]
  <2>1. CASE Notice!Start(t, "drop", d, x) /\ notice_disp'[d] = {}
    BY <1>0, <1>1, <2>1, Started
  <2>2. CASE Notice!Return(t)
    BY <1>0, <1>1, <2>2, Started DEF Notice!Return
  <2> QED
    BY <2>1, <2>2 DEF Notice!DelListener
<1>7. NoticeTypes'
  <2>1. notice_on' \subseteq Tag
    BY <1>0, <1>1 DEF NoticeTypes
  <2> QED
    BY <1>0, <1>1, <1>3, <1>4, <2>1 DEF NoticeTypes
<1>8. Notice!Kept'
  BY <1>0, <1>1, <1>3 DEF Notice!Kept, NoticeTypes
<1>9. CenterRight'
  <2>1. notice_center' # 0 => notice_disp'[notice_center'] \subseteq notice_on'
    BY <1>0, <1>1, <1>3 DEF CenterRight, NoticeTypes
  <2>2. notice_center' = 0 => notice_on' \subseteq notice_raced'
    BY <1>0, <1>1 DEF CenterRight
  <2>3. ASSUME NEW s \in Threads, notice_pc'[s] = "drop", notice_holds'[s] = notice_center'
        PROVE notice_on' \subseteq notice_raced'
    <3>1. CASE s = t
      BY <1>1, <1>4, <1>8, <2>3, <3>1 DEF Notice!Kept
    <3>2. CASE s # t
      BY <1>0, <1>1, <1>4, <2>3, <3>2 DEF CenterRight
    <3> QED
      BY <3>1, <3>2
  <2> QED
    BY <2>1, <2>2, <2>3 DEF CenterRight
<1>10. EmitRight'
  <2> SUFFICES ASSUME NEW s \in Threads, notice_pc'[s] = "emit"
               PROVE notice_disp'[notice_holds'[s]] \subseteq notice_seen'[s]
    BY DEF EmitRight
  <2>1. notice_pc[s] = "emit" /\ notice_holds'[s] = notice_holds[s]
          /\ notice_holds[s] \in 1 .. Len(notice_disp)
    BY <1>0, <1>4 DEF NoticeTypes
  <2> QED
    BY <1>0, <1>1, <1>3, <2>1 DEF EmitRight
<1>11. Notice!NotAfter'
  BY <1>0, <1>1, <1>4 DEF Notice!NotAfter
<1> QED
  BY <1>7, <1>8, <1>9, <1>10, <1>11 DEF NoticeInv, Notice!NoticeCenterRight

\* delListener(tag), under both locks.
LEMMA DelListenerAllKeeps ==
  ASSUME NoticeInv, NEW t \in Threads, NEW x \in Tag, Notice!DelListenerAll(t, x)
  PROVE  NoticeInv'
<1>0. NoticeTypes /\ CenterRight /\ EmitRight /\ Notice!Kept /\ Notice!NotAfter
  BY DEF NoticeInv, Notice!NoticeCenterRight
<1>1. /\ notice_on' = notice_on \ {x} /\ Len(notice_disp) \in Nat
      /\ UNCHANGED <<notice_raced, notice_pc, notice_holds, notice_tag, notice_todo, notice_seen>>
  BY <1>0, LenProperties DEF Notice!DelListenerAll, Notice!callVars, NoticeTypes
<1>2. /\ notice_disp' \in Seq(SUBSET Tag) /\ Len(notice_disp') = Len(notice_disp)
      /\ \A e \in 1 .. Len(notice_disp) :
           notice_disp'[e] = IF e = notice_center THEN notice_disp[e] \ {x} ELSE notice_disp[e]
      /\ notice_center' = IF notice_center # 0 /\ notice_disp'[notice_center] = {}
                          THEN 0 ELSE notice_center
  <2>1. CASE notice_center = 0
    BY <1>0, <1>1, <2>1 DEF Notice!DelListenerAll, NoticeTypes
  <2>2. CASE notice_center # 0
    <3>1. notice_center \in 1 .. Len(notice_disp) /\ notice_disp[notice_center] \ {x} \in SUBSET Tag
      BY <1>0, <1>1, <2>2, ElementOfSeq DEF NoticeTypes
    <3>2. /\ notice_disp' = [notice_disp EXCEPT ![notice_center] = notice_disp[notice_center] \ {x}]
          /\ notice_center' = IF notice_disp'[notice_center] = {} THEN 0 ELSE notice_center
      BY <2>2 DEF Notice!DelListenerAll
    <3>3. /\ notice_disp' \in Seq(SUBSET Tag) /\ Len(notice_disp') = Len(notice_disp)
          /\ \A e \in 1 .. Len(notice_disp) :
               notice_disp'[e] = IF e = notice_center THEN notice_disp[notice_center] \ {x}
                                 ELSE notice_disp[e]
      BY <1>0, <3>1, <3>2, Changed
    <3> QED
      BY <2>2, <3>2, <3>3
  <2> QED
    BY <2>1, <2>2
<1>3. NoticeTypes'
  BY <1>0, <1>1, <1>2 DEF NoticeTypes
<1>4. Notice!Kept'
  <2> SUFFICES ASSUME NEW y \in notice_on' \ notice_raced'
               PROVE notice_center' # 0 /\ y \in notice_disp'[notice_center']
    BY DEF Notice!Kept
  <2>1. y # x /\ notice_center # 0 /\ y \in notice_disp[notice_center]
          /\ notice_center \in 1 .. Len(notice_disp)
    BY <1>0, <1>1 DEF Notice!Kept, NoticeTypes
  <2> QED
    BY <1>2, <2>1
<1>5. CenterRight'
  <2>1. ASSUME notice_center' # 0 PROVE notice_disp'[notice_center'] \subseteq notice_on'
    <3>1. notice_center' = notice_center /\ notice_center # 0
            /\ notice_center \in 1 .. Len(notice_disp)
      BY <1>0, <1>1, <1>2, <2>1 DEF NoticeTypes
    <3>2. notice_disp'[notice_center] = notice_disp[notice_center] \ {x}
            /\ notice_disp[notice_center] \subseteq notice_on
      BY <1>0, <1>2, <3>1 DEF CenterRight
    <3> QED
      BY <1>1, <3>1, <3>2
  <2>2. notice_center' = 0 => notice_on' \subseteq notice_raced'
    BY <1>4, <1>1 DEF Notice!Kept
  <2>3. ASSUME NEW s \in Threads, notice_pc'[s] = "drop", notice_holds'[s] = notice_center'
        PROVE notice_on' \subseteq notice_raced'
    BY <1>0, <1>1, <1>2, <2>2, <2>3 DEF CenterRight
  <2> QED
    BY <2>1, <2>2, <2>3 DEF CenterRight
<1>6. EmitRight'
  <2> SUFFICES ASSUME NEW s \in Threads, notice_pc'[s] = "emit"
               PROVE notice_disp'[notice_holds'[s]] \subseteq notice_seen'[s]
    BY DEF EmitRight
  <2>1. notice_pc[s] = "emit" /\ notice_holds[s] \in 1 .. Len(notice_disp)
    BY <1>0, <1>1 DEF NoticeTypes
  <2> QED
    BY <1>0, <1>1, <1>2, <2>1 DEF EmitRight
<1>7. Notice!NotAfter'
  BY <1>0, <1>1 DEF Notice!NotAfter
<1> QED
  BY <1>3, <1>4, <1>5, <1>6, <1>7 DEF NoticeInv, Notice!NoticeCenterRight

\* What removes a dispatcher, and the calls of emitEvent.
LEMMA OthersKeep ==
  ASSUME NoticeInv, NEW t \in Threads,
         Notice!DelDispatcher(t) \/ Notice!ClearAll(t) \/ Notice!Copy(t) \/ Notice!Call(t)
  PROVE  NoticeInv'
<1>0. NoticeTypes /\ CenterRight /\ EmitRight /\ Notice!Kept /\ Notice!NotAfter
  BY DEF NoticeInv, Notice!NoticeCenterRight
<1>1. CASE Notice!DelDispatcher(t)
  <2>1. /\ Notice!Return(t)
        /\ UNCHANGED <<notice_disp, notice_todo, notice_on, notice_raced, notice_seen>>
        /\ notice_center' \in {0, notice_center}
        /\ notice_center' = 0
             => notice_center = 0 \/ (notice_pc[t] = "drop" /\ notice_holds[t] = notice_center)
    BY <1>1 DEF Notice!DelDispatcher
  <2>2. NoticeTypes' /\ notice_pc'[t] = "idle"
          /\ \A s \in Threads \ {t} : notice_pc'[s] = notice_pc[s]
               /\ notice_holds'[s] = notice_holds[s]
    BY <1>0, <2>1 DEF NoticeTypes, Notice!Return, Notice!Start
  <2>3. notice_center' = 0 => notice_on \subseteq notice_raced
    BY <1>0, <2>1 DEF CenterRight
  <2>4. CenterRight'
    <3>1. ASSUME NEW s \in Threads, notice_pc'[s] = "drop", notice_holds'[s] = notice_center'
          PROVE notice_on' \subseteq notice_raced'
      BY <1>0, <2>1, <2>2, <2>3, <3>1 DEF CenterRight
    <3> QED
      BY <1>0, <2>1, <2>3, <3>1 DEF CenterRight
  <2>5. Notice!Kept' /\ EmitRight' /\ Notice!NotAfter'
    BY <1>0, <2>1, <2>2, <2>3 DEF Notice!Kept, EmitRight, Notice!NotAfter
  <2> QED
    BY <2>2, <2>4, <2>5 DEF NoticeInv, Notice!NoticeCenterRight
<1>2. CASE Notice!ClearAll(t)
  <2>1. notice_center' = 0 /\ notice_on' = {}
          /\ UNCHANGED <<notice_disp, notice_raced, notice_pc, notice_holds, notice_tag,
                          notice_todo, notice_seen>>
    BY <1>2 DEF Notice!ClearAll, Notice!callVars
  <2>2. NoticeTypes'
    BY <1>0, <2>1, LenProperties DEF NoticeTypes
  <2>3. CenterRight' /\ Notice!Kept' /\ EmitRight' /\ Notice!NotAfter'
    BY <1>0, <2>1 DEF CenterRight, Notice!Kept, EmitRight, Notice!NotAfter
  <2> QED
    BY <2>2, <2>3 DEF NoticeInv, Notice!NoticeCenterRight
<1>3. CASE Notice!Copy(t)
  <2>1. /\ notice_pc[t] = "emit" /\ notice_pc' = [notice_pc EXCEPT ![t] = "call"]
        /\ notice_todo' = [notice_todo EXCEPT ![t] = notice_disp[notice_holds[t]]]
        /\ UNCHANGED <<notice_center, notice_disp, notice_holds, notice_tag, notice_on,
                        notice_raced, notice_seen>>
    BY <1>3 DEF Notice!Copy
  <2>2. notice_disp[notice_holds[t]] \subseteq Tag
    BY <1>0, <2>1, ElementOfSeq, LenProperties DEF NoticeTypes
  <2>3. NoticeTypes' /\ CenterRight' /\ Notice!Kept' /\ EmitRight'
    BY <1>0, <2>1, <2>2 DEF NoticeTypes, CenterRight, Notice!Kept, EmitRight
  <2>4. Notice!NotAfter'
    BY <1>0, <2>1 DEF Notice!NotAfter, EmitRight, NoticeTypes
  <2> QED
    BY <2>3, <2>4 DEF NoticeInv, Notice!NoticeCenterRight
<1>4. CASE Notice!Call(t)
  <2>0. notice_pc[t] = "call" /\ UNCHANGED <<notice_center, notice_disp, notice_on, notice_raced>>
    BY <1>4 DEF Notice!Call
  <2>1. CASE /\ Notice!Return(t) /\ notice_seen' = [notice_seen EXCEPT ![t] = {}]
             /\ UNCHANGED notice_todo
    <3>1. NoticeTypes' /\ notice_pc'[t] = "idle"
            /\ \A s \in Threads \ {t} : notice_pc'[s] = notice_pc[s]
                 /\ notice_holds'[s] = notice_holds[s]
      BY <1>0, <2>0, <2>1 DEF NoticeTypes, Notice!Return, Notice!Start
    <3> QED
      BY <1>0, <2>0, <2>1, <3>1 DEF CenterRight, Notice!Kept, EmitRight, Notice!NotAfter,
                                    NoticeInv, Notice!NoticeCenterRight, NoticeTypes
  <2>2. CASE /\ \E x \in notice_todo[t] : \E left \in {notice_todo[t] \ {x}, {}} :
                  notice_todo' = [notice_todo EXCEPT ![t] = left]
             /\ Notice!Stay /\ UNCHANGED notice_seen
    <3>1. UNCHANGED <<notice_pc, notice_holds, notice_tag, notice_seen>>
      BY <2>2 DEF Notice!Stay
    <3>2. notice_todo' \in [Threads -> SUBSET Tag]
            /\ \A s \in Threads : notice_todo'[s] \subseteq notice_todo[s]
      BY <1>0, <2>2 DEF NoticeTypes
    <3> QED
      BY <1>0, <2>0, <3>1, <3>2 DEF CenterRight, Notice!Kept, EmitRight, Notice!NotAfter,
                                    NoticeInv, Notice!NoticeCenterRight, NoticeTypes
  <2> QED
    BY <1>4, <2>1, <2>2 DEF Notice!Call
<1> QED
  BY <1>1, <1>2, <1>3, <1>4

\* For any threads and listeners: a listener that was added is in the event's dispatcher, and
\* so the next emitEvent calls it, unless it was added to one on its way out; emitEvent calls
\* nobody who was removed before it began.
THEOREM NoticeSafe == Notice!Spec => []Notice!NoticeCenterRight
<1>1. Notice!Init => NoticeInv
  <2> SUFFICES ASSUME Notice!Init PROVE NoticeInv
    OBVIOUS
  <2>1. NoticeTypes
    <3>1. <<>> \in Seq(SUBSET Tag) /\ Len(<<>>) = 0 /\ 0 \in 0 .. 0
      BY EmptySeq
    <3> QED
      BY <3>1 DEF Notice!Init, NoticeTypes
  <2> QED
    BY <2>1 DEF Notice!Init, CenterRight, EmitRight, Notice!Kept, Notice!NotAfter, NoticeInv,
                Notice!NoticeCenterRight
<1>2. NoticeInv /\ [Notice!Next]_Notice!vars => NoticeInv'
  <2> SUFFICES ASSUME NoticeInv, [Notice!Next]_Notice!vars PROVE NoticeInv'
    OBVIOUS
  <2>1. CASE UNCHANGED Notice!vars
    BY <2>1 DEF Notice!vars, NoticeInv, NoticeTypes, CenterRight, EmitRight,
                Notice!NoticeCenterRight, Notice!Kept, Notice!NotAfter
  <2>2. ASSUME NEW t \in Threads, NEW x \in Tag,
               Notice!GetDispatcher(t, "add", x) \/ Notice!GetDispatcher(t, "del", x)
                 \/ Notice!DelListenerAll(t, x)
        PROVE  NoticeInv'
    BY <2>2, GetDispatcherKeeps, DelListenerAllKeeps
  <2>3. ASSUME NEW t \in Threads, Notice!GetDispatcher(t, "emit", Notice!AnyTag) PROVE NoticeInv'
    BY <2>3, GetDispatcherKeeps
  <2> QED
    BY <2>1, <2>2, <2>3, AddListenerKeeps, DelListenerKeeps, OthersKeep DEF Notice!Next
<1>3. NoticeInv => Notice!NoticeCenterRight
  BY DEF NoticeInv
<1> QED
  BY <1>1, <1>2, <1>3, PTL DEF Notice!Spec

-----------------------------------------------------------------------------
(* RingBuffer.                                                             *)

\* Induction over the natural numbers, for a set.
LEMMA NatSetInduction ==
  ASSUME NEW S, 0 \in S, \A n \in Nat : n \in S => n + 1 \in S
  PROVE  Nat \subseteq S
<1> SUFFICES ASSUME Nat \ S # {} PROVE FALSE
  OBVIOUS
<1>1. PICK m \in Nat \ S : \A y \in Nat \ S : ~ (<<y, m>> \in OpToRel(<, Nat))
  <2>1. \A T : T \subseteq Nat /\ T # {}
                => \E m \in T : \A y \in T : ~ (<<y, m>> \in OpToRel(<, Nat))
    BY NatLessThanWellFounded, WFMin
  <2> QED
    BY <2>1
<1>2. \A y \in Nat \ S : ~ (y < m)
  BY <1>1 DEF OpToRel
<1>3. m \in Nat /\ m # 0
  OBVIOUS
<1>4. m - 1 \in Nat /\ m - 1 < m /\ (m - 1) + 1 = m
  BY <1>3
<1>5. m - 1 \in S
  BY <1>2, <1>4
<1> QED
  BY <1>4, <1>5

\* The groups of a storage.
GopSeqs == Seq(Seq(Nat))

\* The recursive function of FlattenSeq, up to the n-th part.
FlatTo(c, n, f) == f = [i \in 1 .. n |-> IF i = 1 THEN c[i] ELSE f[i - 1] \o c[i]]

\* The function exists.
LEMMA FlatExists ==
  ASSUME NEW c, NEW n \in Nat
  PROVE  \E f : FlatTo(c, n, f)
<1> DEFINE S == {m \in Nat : \E f : FlatTo(c, m, f)}
<1>1. 0 \in S
  <2>1. FlatTo(c, 0, [i \in {} |-> 0])
    BY DEF FlatTo
  <2> QED
    BY <2>1
<1>2. ASSUME NEW m \in Nat, m \in S PROVE m + 1 \in S
  <2>1. PICK f : FlatTo(c, m, f)
    BY <1>2
  <2> DEFINE new == IF m = 0 THEN c[m + 1] ELSE f[m] \o c[m + 1]
             g == [i \in 1 .. m + 1 |-> IF i \in 1 .. m THEN f[i] ELSE new]
  <2>2. \A i \in 1 .. m : f[i] = IF i = 1 THEN c[i] ELSE f[i - 1] \o c[i]
    BY <2>1 DEF FlatTo
  <2>3. g[m + 1] = new /\ \A i \in 1 .. m : g[i] = f[i]
    <3>1. m + 1 \in 1 .. m + 1 /\ m + 1 \notin 1 .. m /\ 1 .. m \subseteq 1 .. m + 1
      OBVIOUS
    <3> HIDE DEF new
    <3> QED
      BY <3>1
  <2> HIDE DEF g
  <2>4. \A i \in 1 .. m + 1 : g[i] = IF i = 1 THEN c[i] ELSE g[i - 1] \o c[i]
    <3> SUFFICES ASSUME NEW i \in 1 .. m + 1
                 PROVE  g[i] = IF i = 1 THEN c[i] ELSE g[i - 1] \o c[i]
      OBVIOUS
    <3>1. CASE i \in 1 .. m
      <4>1. i = 1 \/ i - 1 \in 1 .. m
        BY <3>1
      <4> QED
        BY <2>2, <2>3, <3>1, <4>1
    <3>2. CASE i = m + 1
      <4>1. i = 1 \/ (m \in 1 .. m /\ m # 0 /\ i - 1 = m)
        BY <3>2
      <4> QED
        BY <2>3, <3>2, <4>1
    <3> QED
      BY <3>1, <3>2
  <2>5. FlatTo(c, m + 1, g)
    BY <2>4 DEF FlatTo, g
  <2> QED
    BY <2>5
<1> HIDE DEF S
<1>3. Nat \subseteq S
  BY <1>1, <1>2, NatSetInduction
<1> QED
  BY <1>3 DEF S

\* Two of them agree as far as what they flatten does.
LEMMA FlatUnique ==
  ASSUME NEW c, NEW e, NEW f, NEW g, NEW k \in Nat, NEW n \in Nat, k <= n,
         FlatTo(c, k, f), FlatTo(e, n, g), \A i \in 1 .. k : c[i] = e[i]
  PROVE  \A i \in 1 .. k : f[i] = g[i]
<1> DEFINE S == {j \in Nat : j \in 1 .. k => f[j] = g[j]}
<1>1. \A i \in 1 .. k : /\ f[i] = IF i = 1 THEN c[i] ELSE f[i - 1] \o c[i]
                        /\ g[i] = IF i = 1 THEN e[i] ELSE g[i - 1] \o e[i]
  <2> SUFFICES ASSUME NEW i \in 1 .. k
               PROVE  /\ f[i] = IF i = 1 THEN c[i] ELSE f[i - 1] \o c[i]
                      /\ g[i] = IF i = 1 THEN e[i] ELSE g[i - 1] \o e[i]
    OBVIOUS
  <2>1. i \in 1 .. n
    OBVIOUS
  <2> QED
    BY <2>1 DEF FlatTo
<1>2. 0 \in S
  OBVIOUS
<1>3. ASSUME NEW j \in Nat, j \in S PROVE j + 1 \in S
  <2> SUFFICES ASSUME j + 1 \in 1 .. k PROVE f[j + 1] = g[j + 1]
    OBVIOUS
  <2>1. c[j + 1] = e[j + 1]
    OBVIOUS
  <2>2. CASE j = 0
    BY <1>1, <2>1, <2>2
  <2>3. CASE j # 0
    <3>1. j \in 1 .. k /\ j + 1 # 1 /\ (j + 1) - 1 = j
      BY <2>3
    <3>2. f[j] = g[j]
      BY <1>3, <3>1
    <3> QED
      BY <1>1, <2>1, <3>1, <3>2
  <2> QED
    BY <2>2, <2>3
<1> HIDE DEF S
<1>4. Nat \subseteq S
  BY <1>2, <1>3, NatSetInduction
<1> QED
  BY <1>4 DEF S

\* FlattenSeq is its last value.
LEMMA FlatIs ==
  ASSUME NEW c \in GopSeqs, c # <<>>
  PROVE  \E f : FlatTo(c, Len(c), f) /\ Ring!FlattenSeq(c) = f[Len(c)]
<1> DEFINE F == CHOOSE f : FlatTo(c, Len(c), f)
<1>1. Len(c) \in Nat /\ Len(c) # 0
  BY EmptySeq, LenProperties DEF GopSeqs
<1>2. FlatTo(c, Len(c), F)
  BY <1>1, FlatExists
<1>3. Ring!FlattenSeq(c) = F[Len(c)]
  BY <1>1 DEF Ring!FlattenSeq, FlatTo
<1> QED
  BY <1>2, <1>3

\* Each of its values is a sequence of numbers.
LEMMA FlatParts ==
  ASSUME NEW c \in GopSeqs, NEW f, FlatTo(c, Len(c), f)
  PROVE  \A i \in 1 .. Len(c) : f[i] \in Seq(Nat)
<1>1. Len(c) \in Nat /\ \A i \in 1 .. Len(c) : c[i] \in Seq(Nat)
  BY LenProperties, ElementOfSeq DEF GopSeqs
<1>2. \A i \in 1 .. Len(c) : f[i] = IF i = 1 THEN c[i] ELSE f[i - 1] \o c[i]
  BY <1>1 DEF FlatTo
<1> DEFINE S == {j \in Nat : j \in 1 .. Len(c) => f[j] \in Seq(Nat)}
<1>3. 0 \in S
  OBVIOUS
<1>4. ASSUME NEW j \in Nat, j \in S PROVE j + 1 \in S
  <2> SUFFICES ASSUME j + 1 \in 1 .. Len(c) PROVE f[j + 1] \in Seq(Nat)
    OBVIOUS
  <2>1. CASE j = 0
    BY <1>1, <1>2, <2>1
  <2>2. CASE j # 0
    <3>1. j \in 1 .. Len(c) /\ j + 1 # 1 /\ (j + 1) - 1 = j
      BY <1>1, <2>2
    <3>2. f[j] \in Seq(Nat) /\ c[j + 1] \in Seq(Nat) /\ f[j + 1] = f[j] \o c[j + 1]
      BY <1>1, <1>2, <1>4, <3>1
    <3> QED
      BY <3>2, ConcatProperties
  <2> QED
    BY <2>1, <2>2
<1> HIDE DEF S
<1>5. Nat \subseteq S
  BY <1>3, <1>4, NatSetInduction
<1> QED
  BY <1>1, <1>5 DEF S

\* What it flattens to is a sequence of numbers.
LEMMA FlatType ==
  ASSUME NEW c \in GopSeqs
  PROVE  Ring!FlattenSeq(c) \in Seq(Nat)
<1>1. CASE c = <<>>
  BY <1>1, EmptySeq DEF Ring!FlattenSeq
<1>2. CASE c # <<>>
  <2>1. PICK f : FlatTo(c, Len(c), f) /\ Ring!FlattenSeq(c) = f[Len(c)]
    BY <1>2, FlatIs
  <2>2. Len(c) \in 1 .. Len(c)
    BY <1>2, EmptySeq, LenProperties DEF GopSeqs
  <2> QED
    BY <2>1, <2>2, FlatParts
<1> QED
  BY <1>1, <1>2

\* One more part.
LEMMA FlatAppend ==
  ASSUME NEW c \in GopSeqs, NEW s \in Seq(Nat)
  PROVE  Ring!FlattenSeq(Append(c, s)) = Ring!FlattenSeq(c) \o s
<1>0. /\ Append(c, s) \in GopSeqs /\ Append(c, s) # <<>> /\ Len(Append(c, s)) = Len(c) + 1
      /\ Len(c) \in Nat /\ Append(c, s)[Len(c) + 1] = s
      /\ \A i \in 1 .. Len(c) : Append(c, s)[i] = c[i]
  BY AppendProperties, EmptySeq, LenProperties DEF GopSeqs
<1> DEFINE e == Append(c, s)
<1> HIDE DEF e
<1>1. PICK f : FlatTo(e, Len(e), f) /\ Ring!FlattenSeq(e) = f[Len(e)]
  BY <1>0, FlatIs DEF e
<1>2. Ring!FlattenSeq(e) = IF Len(e) = 1 THEN s ELSE f[Len(c)] \o s
  <2>1. Len(e) \in 1 .. Len(e) /\ Len(e) - 1 = Len(c) /\ e[Len(e)] = s
    BY <1>0 DEF e
  <2> QED
    BY <1>1, <2>1 DEF FlatTo
<1>3. CASE c = <<>>
  <2>1. Ring!FlattenSeq(c) = <<>> /\ Len(e) = 1 /\ <<>> \o s = s
    BY <1>0, <1>3, EmptySeq, ConcatEmptySeq DEF Ring!FlattenSeq, e
  <2> QED
    BY <1>2, <2>1 DEF e
<1>4. CASE c # <<>>
  <2>1. PICK g : FlatTo(c, Len(c), g) /\ Ring!FlattenSeq(c) = g[Len(c)]
    BY <1>4, FlatIs
  <2>2. Len(c) # 0 /\ Len(e) # 1 /\ Len(c) \in 1 .. Len(c) /\ Len(e) \in Nat /\ Len(c) <= Len(e)
    BY <1>0, <1>4, EmptySeq DEF e, GopSeqs
  <2>3. \A i \in 1 .. Len(c) : g[i] = f[i]
    <3>1. \A i \in 1 .. Len(c) : c[i] = e[i]
      BY <1>0 DEF e
    <3>2. FlatTo(c, Len(c), g) /\ FlatTo(e, Len(e), f) /\ Len(c) \in Nat /\ Len(e) \in Nat
          /\ Len(c) <= Len(c) /\ Len(c) <= Len(e)
      BY <1>0, <1>1, <2>1, <2>2
    <3> QED
      BY ONLY <3>1, <3>2, FlatUnique
  <2> QED
    BY <1>2, <2>1, <2>2, <2>3 DEF e
<1> QED
  BY <1>3, <1>4

\* One part is all there is.
LEMMA FlatOne ==
  ASSUME NEW s \in Seq(Nat)
  PROVE  Ring!FlattenSeq(<<s>>) = s
<1>1. <<>> \in GopSeqs /\ Ring!FlattenSeq(<<>>) = <<>> /\ <<>> \o s = s /\ Append(<<>>, s) = <<s>>
  BY EmptySeq, ConcatEmptySeq DEF Ring!FlattenSeq, GopSeqs
<1>2. Ring!FlattenSeq(Append(<<>>, s)) = <<>> \o s
  BY <1>1, FlatAppend
<1> QED
  BY <1>1, <1>2

\* Concatenation is associative.
LEMMA ConcatNat ==
  \A u, v, w \in Seq(Nat) : (u \o v) \o w = u \o (v \o w)
BY ConcatAssociative, SMTT(20)

\* The first part and the others.
LEMMA FlatTail ==
  ASSUME NEW c \in GopSeqs, c # <<>>
  PROVE  Ring!FlattenSeq(c) = c[1] \o Ring!FlattenSeq(Tail(c))
<1> DEFINE e == Tail(c)
<1>0. /\ Len(c) \in Nat /\ Len(c) # 0 /\ \A i \in 1 .. Len(c) : c[i] \in Seq(Nat)
      /\ e \in GopSeqs /\ Len(e) = Len(c) - 1 /\ \A i \in 1 .. Len(e) : e[i] = c[i + 1]
  BY EmptySeq, LenProperties, ElementOfSeq, HeadTailProperties DEF GopSeqs
<1>1. PICK f : FlatTo(c, Len(c), f) /\ Ring!FlattenSeq(c) = f[Len(c)]
  BY FlatIs
<1> HIDE DEF e
<1>2. CASE e = <<>>
  <2>1. Len(c) = 1 /\ Ring!FlattenSeq(e) = <<>>
    BY <1>0, <1>2, EmptySeq DEF Ring!FlattenSeq
  <2>2. f[1] = c[1]
    BY <1>1, <2>1 DEF FlatTo
  <2>3. c[1] \o <<>> = c[1]
    BY <1>0, <2>1, ConcatEmptySeq
  <2> QED
    BY <1>1, <2>1, <2>2, <2>3 DEF e
<1>3. CASE e # <<>>
  <2>1. PICK g : FlatTo(e, Len(e), g) /\ Ring!FlattenSeq(e) = g[Len(e)]
    BY <1>0, <1>3, FlatIs
  <2>2. Len(e) \in Nat /\ Len(e) # 0
    BY <1>0, <1>3, EmptySeq, LenProperties DEF GopSeqs
  <2> DEFINE h == [i \in 1 .. Len(c) |-> IF i = 1 THEN c[1] ELSE c[1] \o g[i - 1]]
  <2>3. FlatTo(c, Len(c), h)
    <3>1. \A i \in 1 .. Len(c) : h[i] = IF i = 1 THEN c[i] ELSE h[i - 1] \o c[i]
      <4> SUFFICES ASSUME NEW i \in 1 .. Len(c), i # 1 PROVE c[1] \o g[i - 1] = h[i - 1] \o c[i]
        OBVIOUS
      <4>0. i - 1 \in 1 .. Len(e) /\ i - 1 \in 1 .. Len(c) /\ (i - 1) + 1 = i
        BY <1>0
      <4>1. g[i - 1] = IF i - 1 = 1 THEN e[i - 1] ELSE g[i - 2] \o e[i - 1]
        <5>1. (i - 1) - 1 = i - 2
          BY <1>0
        <5> QED
          BY <2>1, <4>0, <5>1 DEF FlatTo
      <4>2. e[i - 1] = c[i]
        BY <1>0, <4>0
      <4>3. CASE i - 1 = 1
        <5>1. h[i - 1] = c[1]
          BY <4>0, <4>3
        <5> QED
          BY <4>1, <4>2, <4>3, <5>1
      <4>4. CASE i - 1 # 1
        <5>1. h[i - 1] = c[1] \o g[i - 2]
          <6>1. (i - 1) - 1 = i - 2
            BY <1>0
          <6> QED
            BY <4>0, <4>4, <6>1
        <5>2. g[i - 2] \in Seq(Nat)
          <6>1. i - 2 \in 1 .. Len(e)
            BY <1>0, <4>0, <4>4
          <6> QED
            BY <1>0, <2>1, <6>1, FlatParts
        <5>3. c[1] \in Seq(Nat) /\ c[i] \in Seq(Nat)
          BY <1>0
        <5>4. c[1] \o (g[i - 2] \o c[i]) = (c[1] \o g[i - 2]) \o c[i]
          <6>1. \A u, v, w \in Seq(Nat) : (u \o v) \o w = u \o (v \o w)
            BY ConcatNat
          <6> QED
            BY <5>2, <5>3, <6>1
        <5> QED
          BY <4>1, <4>2, <4>4, <5>1, <5>4
      <4> QED
        BY <4>3, <4>4
    <3>2. h = [i \in 1 .. Len(c) |-> IF i = 1 THEN c[i] ELSE h[i - 1] \o c[i]]
      BY <3>1
    <3> HIDE DEF h
    <3> QED
      BY <3>2 DEF FlatTo
  <2>4. f[Len(c)] = h[Len(c)]
    <3> HIDE DEF h
    <3>1. Len(c) \in 1 .. Len(c) /\ \A i \in 1 .. Len(c) : c[i] = c[i]
      BY <1>0
    <3>2. \A i \in 1 .. Len(c) : f[i] = h[i]
      <4>1. FlatTo(c, Len(c), f) /\ FlatTo(c, Len(c), h) /\ Len(c) \in Nat /\ Len(c) <= Len(c)
        BY <1>0, <1>1, <2>3
      <4> QED
        BY ONLY <3>1, <4>1, FlatUnique
    <3> QED
      BY <3>1, <3>2
  <2>5. h[Len(c)] = c[1] \o g[Len(e)]
    <3>1. Len(c) \in 1 .. Len(c) /\ Len(c) # 1 /\ Len(c) - 1 = Len(e)
      BY <1>0, <2>2
    <3>2. \A i \in 1 .. Len(c) : h[i] = IF i = 1 THEN c[1] ELSE c[1] \o g[i - 1]
      OBVIOUS
    <3> HIDE DEF h
    <3> QED
      BY <3>1, <3>2
  <2> QED
    BY <1>1, <2>1, <2>4, <2>5 DEF e
<1> QED
  BY <1>2, <1>3

Storage == [cache : GopSeqs, size : Nat, idr : BOOLEAN, started : BOOLEAN]

\* The last items before and including m.
Run(F, m) == F \in Seq(Nat) /\ Len(F) <= m /\ \A i \in 1 .. Len(F) : F[i] = m - Len(F) + i

\* Items 1 .. m, and only the first of a group is a key item.
Grouped(c, m, ks) ==
  \A i \in 1 .. Len(c) : \A j \in 1 .. Len(c[i]) : c[i][j] \in 1 .. m /\ (ks[c[i][j]] => j = 1)

Kept(st, m, ks) ==
  /\ st \in Storage /\ st.cache # <<>>
  /\ st.size = Len(Ring!FlattenSeq(st.cache))
  /\ Run(Ring!FlattenSeq(st.cache), m)
  /\ Grouped(st.cache, m, ks)
  /\ st.started /\ ~st.idr => Ring!FlattenSeq(st.cache) = <<>>

Store(st, m, ks) == Kept(st, m, ks) /\ st.size <= MaxSize

\* No items are the last of any number.
LEMMA RunEmpty ==
  ASSUME NEW m \in Nat PROVE Run(<<>>, m)
BY EmptySeq DEF Run

\* What follows some of the last items is the last items too.
LEMMA RunSuffix ==
  ASSUME NEW m \in Nat, NEW a \in Seq(Nat), NEW b \in Seq(Nat), Run(a \o b, m)
  PROVE  Run(b, m)
<1>1. /\ Len(a \o b) = Len(a) + Len(b) /\ Len(a) \in Nat /\ Len(b) \in Nat
      /\ \A i \in 1 .. Len(b) : (a \o b)[Len(a) + i] = b[i]
  BY ConcatProperties, LenProperties
<1>2. \A i \in 1 .. Len(b) : Len(a) + i \in 1 .. Len(a \o b)
  BY <1>1
<1>3. \A i \in 1 .. Len(b) : (a \o b)[Len(a) + i] = m - Len(a \o b) + (Len(a) + i)
  BY <1>2 DEF Run
<1>4. Len(b) <= m
  BY <1>1 DEF Run
<1>5. \A i \in 1 .. Len(b) : b[i] = m - Len(b) + i
  BY <1>1, <1>3
<1> QED
  BY <1>4, <1>5 DEF Run

\* With the next item they are the last of one more.
LEMMA RunMore ==
  ASSUME NEW m \in Nat, NEW a \in Seq(Nat), Run(a, m)
  PROVE  Run(Append(a, m + 1), m + 1)
<1>1. /\ Append(a, m + 1) \in Seq(Nat) /\ Len(Append(a, m + 1)) = Len(a) + 1 /\ Len(a) \in Nat
      /\ \A i \in 1 .. Len(a) : Append(a, m + 1)[i] = a[i]
      /\ Append(a, m + 1)[Len(a) + 1] = m + 1
  BY AppendProperties, LenProperties
<1>2. \A i \in 1 .. Len(a) : a[i] = m - Len(a) + i
  BY DEF Run
<1>3. \A i \in 1 .. Len(a) + 1 : Append(a, m + 1)[i] = (m + 1) - (Len(a) + 1) + i
  BY <1>1, <1>2
<1> QED
  BY <1>1, <1>3 DEF Run

\* The last group and those before it.
LEMMA FrontLast ==
  ASSUME NEW c \in GopSeqs, c # <<>>
  PROVE  /\ Ring!Front(c) \in GopSeqs /\ Ring!Last(c) \in Seq(Nat)
         /\ c = Append(Ring!Front(c), Ring!Last(c))
         /\ Len(Ring!Front(c)) = Len(c) - 1 /\ Len(c) \in Nat \ {0} /\ Ring!Last(c) = c[Len(c)]
         /\ \A i \in 1 .. Len(c) - 1 : Ring!Front(c)[i] = c[i]
<1>1. Len(c) \in Nat /\ Len(c) # 0 /\ \A i \in 1 .. Len(c) : c[i] \in Seq(Nat)
  BY EmptySeq, LenProperties, ElementOfSeq DEF GopSeqs
<1>2. /\ SubSeq(c, 1, Len(c) - 1) \in GopSeqs /\ Len(SubSeq(c, 1, Len(c) - 1)) = Len(c) - 1
      /\ \A i \in 1 .. Len(c) - 1 : SubSeq(c, 1, Len(c) - 1)[i] = c[i]
  <2> PICK n : n = Len(c) - 1
    OBVIOUS
  <2>1. n \in Nat /\ \A i \in 1 .. n : i \in 1 .. Len(c)
    BY <1>1
  <2>2. SubSeq(c, 1, n) = [i \in 1 .. n |-> c[i]]
    BY <1>1, <2>1 DEF GopSeqs
  <2>3. [i \in 1 .. n |-> c[i]] \in GopSeqs /\ Len([i \in 1 .. n |-> c[i]]) = n
    BY <1>1, <2>1 DEF GopSeqs
  <2> QED
    BY <2>1, <2>2, <2>3
<1>3. Ring!Front(c) = SubSeq(c, 1, Len(c) - 1) /\ Ring!Last(c) = c[Len(c)]
  BY DEF Ring!Front, Ring!Last
<1>4. c[Len(c)] \in Seq(Nat)
  BY <1>1
<1>5. c = Append(SubSeq(c, 1, Len(c) - 1), c[Len(c)])
  <2> PICK b : b = SubSeq(c, 1, Len(c) - 1)
    OBVIOUS
  <2>1. b \in GopSeqs /\ Len(b) + 1 = Len(c) /\ \A i \in 1 .. Len(b) : b[i] = c[i]
    BY <1>1, <1>2
  <2>2. /\ Append(b, c[Len(c)]) \in GopSeqs /\ Len(Append(b, c[Len(c)])) = Len(c)
        /\ \A i \in 1 .. Len(b) : Append(b, c[Len(c)])[i] = c[i]
        /\ Append(b, c[Len(c)])[Len(c)] = c[Len(c)]
    BY <1>4, <2>1, AppendProperties DEF GopSeqs
  <2>3. \A i \in 1 .. Len(c) : Append(b, c[Len(c)])[i] = c[i]
    BY <1>1, <2>1, <2>2
  <2> QED
    BY <2>2, <2>3, SeqEqual DEF GopSeqs
<1> QED
  BY <1>1, <1>2, <1>3, <1>4, <1>5

\* A storage of one group.
LEMMA OneGroup ==
  ASSUME NEW s \in Seq(Nat)
  PROVE  <<s>> \in GopSeqs /\ <<s>> # <<>> /\ Len(<<s>>) = 1 /\ <<s>>[1] = s
BY EmptySeq DEF GopSeqs

\* clearCache leaves a storage right, whatever was written before.
LEMMA ClearStore ==
  ASSUME NEW st \in Storage, NEW m \in Nat, NEW ks
  PROVE  Store(Ring!ClearCache(st), m, ks)
<1>1. Ring!ClearCache(st) = [st EXCEPT !.size = 0, !.idr = FALSE, !.cache = <<<<>>>>]
  BY DEF Ring!ClearCache
<1>2. <<>> \in Seq(Nat) /\ Len(<<>>) = 0
  BY EmptySeq
<1>3. <<<<>>>> \in GopSeqs /\ <<<<>>>> # <<>> /\ Len(<<<<>>>>) = 1 /\ <<<<>>>>[1] = <<>>
  BY <1>2, OneGroup
<1>4. Ring!FlattenSeq(<<<<>>>>) = <<>>
  BY <1>2, FlatOne
<1>5. Grouped(<<<<>>>>, m, ks)
  BY <1>2, <1>3 DEF Grouped
<1>6. /\ Ring!ClearCache(st) \in Storage /\ Ring!ClearCache(st).cache = <<<<>>>>
      /\ Ring!ClearCache(st).size = 0
      /\ ~Ring!ClearCache(st).idr
  <2> PICK w : w = <<<<>>>>
    OBVIOUS
  <2>1. w \in GopSeqs /\ Ring!ClearCache(st) = [st EXCEPT !.size = 0, !.idr = FALSE, !.cache = w]
    BY <1>1, <1>3
  <2>2. Ring!ClearCache(st) \in Storage
    <3>1. [st EXCEPT !.size = 0, !.idr = FALSE, !.cache = w] \in Storage
      BY <2>1 DEF Storage
    <3> QED
      BY <2>1, <3>1
  <2>3. Ring!ClearCache(st).cache = w /\ Ring!ClearCache(st).size = 0
    BY <2>1 DEF Storage
  <2>4. Ring!ClearCache(st).idr = FALSE
    BY <2>1 DEF Storage
  <2> QED
    BY <2>1, <2>2, <2>3, <2>4
<1>7. Run(Ring!FlattenSeq(Ring!ClearCache(st).cache), m)
  BY <1>4, <1>6, RunEmpty
<1>8. Grouped(Ring!ClearCache(st).cache, m, ks)
  BY <1>5, <1>6
<1>9. Kept(Ring!ClearCache(st), m, ks)
  BY <1>2, <1>3, <1>4, <1>6, <1>7, <1>8 DEF Kept
<1> QED
  BY <1>6, <1>9, RingAssumption DEF Store

\* The first group leaves.
LEMMA PopKept ==
  ASSUME NEW st, NEW m \in Nat, NEW ks, Kept(st, m, ks), st.idr
  PROVE  /\ Kept(Ring!PopFrontGop(st), m, ks) /\ Ring!PopFrontGop(st).size <= st.size
         /\ Ring!PopFrontGop(st).idr = st.idr /\ Ring!PopFrontGop(st).started = st.started
         /\ Ring!Last(st.cache) = <<>> => Ring!Last(Ring!PopFrontGop(st).cache) = <<>>
<1> DEFINE c == st.cache
           new == IF Len(c) = 1 THEN <<<<>>>> ELSE Tail(c)
<1>1. /\ st \in Storage /\ c \in GopSeqs /\ c # <<>> /\ st.size \in Nat
      /\ st.size = Len(Ring!FlattenSeq(c))
      /\ Run(Ring!FlattenSeq(c), m) /\ Grouped(c, m, ks)
  BY DEF Kept, Storage
<1>2. Ring!PopFrontGop(st) = [st EXCEPT !.size = st.size - Len(c[1]), !.cache = new]
  BY DEF Ring!PopFrontGop
<1> HIDE DEF c, new
<1>3. Len(c) \in Nat /\ Len(c) # 0 /\ c[1] \in Seq(Nat) /\ Len(c[1]) \in Nat
  BY <1>1, EmptySeq, LenProperties, ElementOfSeq DEF GopSeqs
<1>4. /\ Tail(c) \in GopSeqs /\ Len(Tail(c)) = Len(c) - 1
      /\ \A i \in 1 .. Len(c) - 1 : Tail(c)[i] = c[i + 1]
  BY <1>1, <1>3, HeadTailProperties DEF GopSeqs
<1>5. Ring!FlattenSeq(c) = c[1] \o Ring!FlattenSeq(Tail(c)) /\ Ring!FlattenSeq(Tail(c)) \in Seq(Nat)
  BY <1>1, <1>4, FlatTail, FlatType
<1>6. /\ new \in GopSeqs /\ new # <<>> /\ Ring!FlattenSeq(new) = Ring!FlattenSeq(Tail(c))
      /\ Grouped(new, m, ks)
      /\ Ring!Last(c) = <<>> => Ring!Last(new) = <<>>
  <2>1. CASE Len(c) = 1
    <3>1. <<>> \in Seq(Nat) /\ Len(<<>>) = 0
      BY EmptySeq
    <3>2. <<<<>>>> \in GopSeqs /\ <<<<>>>> # <<>> /\ Len(<<<<>>>>) = 1 /\ <<<<>>>>[1] = <<>>
      BY <3>1, OneGroup
    <3>3. Tail(c) = <<>>
      <4>1. Len(Tail(c)) = 0
        BY <1>4, <2>1
      <4> QED
        BY <1>4, <4>1, EmptySeq DEF GopSeqs
    <3>4. Ring!FlattenSeq(<<<<>>>>) = <<>> /\ Ring!FlattenSeq(<<>>) = <<>>
      BY <3>1, FlatOne DEF Ring!FlattenSeq
    <3>5. Grouped(<<<<>>>>, m, ks)
      BY <3>1, <3>2 DEF Grouped
    <3>6. Ring!Last(<<<<>>>>) = <<>>
      BY <3>2 DEF Ring!Last
    <3>7. new = <<<<>>>>
      BY <2>1 DEF new
    <3> QED
      BY <3>2, <3>3, <3>4, <3>5, <3>6, <3>7
  <2>2. CASE Len(c) # 1
    <3>1. new = Tail(c)
      BY <2>2 DEF new
    <3>2. Len(Tail(c)) # 0
      BY <1>3, <1>4, <2>2
    <3>3. Tail(c) # <<>>
      BY <3>2, EmptySeq
    <3>4. Grouped(Tail(c), m, ks)
      <4>1. \A i \in 1 .. Len(Tail(c)) : i + 1 \in 1 .. Len(c) /\ Tail(c)[i] = c[i + 1]
        BY <1>3, <1>4
      <4> QED
        BY <1>1, <4>1 DEF Grouped
    <3>5. Ring!Last(Tail(c)) = Ring!Last(c)
      <4>1. Len(Tail(c)) \in 1 .. Len(c) - 1 /\ Len(Tail(c)) + 1 = Len(c)
        BY <1>3, <1>4, <3>2
      <4> QED
        BY <1>4, <4>1 DEF Ring!Last
    <3> QED
      BY <1>4, <3>1, <3>3, <3>4, <3>5
  <2> QED
    BY <2>1, <2>2
<1>7. /\ Len(Ring!FlattenSeq(c)) = Len(c[1]) + Len(Ring!FlattenSeq(Tail(c)))
      /\ Len(Ring!FlattenSeq(Tail(c))) \in Nat
  BY <1>3, <1>5, ConcatProperties, LenProperties
<1>8. Run(Ring!FlattenSeq(new), m)
  BY <1>1, <1>3, <1>5, <1>6, RunSuffix
<1>9. st.size - Len(c[1]) = Len(Ring!FlattenSeq(new)) /\ st.size - Len(c[1]) \in Nat
        /\ st.size - Len(c[1]) <= st.size
  BY <1>1, <1>3, <1>6, <1>7
<1>10. /\ Ring!PopFrontGop(st) \in Storage /\ Ring!PopFrontGop(st).cache = new
       /\ Ring!PopFrontGop(st).size = st.size - Len(c[1])
       /\ Ring!PopFrontGop(st).idr = st.idr /\ Ring!PopFrontGop(st).started = st.started
  BY <1>1, <1>2, <1>6, <1>9 DEF Storage
<1>11. Kept(Ring!PopFrontGop(st), m, ks)
  BY <1>6, <1>8, <1>9, <1>10 DEF Kept
<1> QED
  BY <1>6, <1>9, <1>10, <1>11 DEF c

\* A key item opens a group.
LEMMA OpenedKept ==
  ASSUME NEW st, NEW m \in Nat, NEW ks, Store(st, m, ks)
  PROVE  /\ Kept(Ring!Opened(st), m, ks) /\ Ring!Opened(st).size <= MaxSize /\ Ring!Opened(st).idr
         /\ Ring!Last(Ring!Opened(st).cache) = <<>>
<1> DEFINE c == st.cache
           more == IF Ring!Last(c) = <<>> THEN c ELSE Append(c, <<>>)
           new == [st EXCEPT !.idr = TRUE, !.started = TRUE, !.cache = more]
<1>1. /\ st \in Storage /\ c \in GopSeqs /\ c # <<>> /\ st.size \in Nat
      /\ st.size = Len(Ring!FlattenSeq(c))
      /\ Run(Ring!FlattenSeq(c), m) /\ Grouped(c, m, ks) /\ st.size <= MaxSize
  BY DEF Store, Kept, Storage
<1>2. Ring!Opened(st) = IF Len(more) > MaxGop THEN Ring!PopFrontGop(new) ELSE new
  BY DEF Ring!Opened
<1>3. /\ more \in GopSeqs /\ more # <<>> /\ Ring!FlattenSeq(more) = Ring!FlattenSeq(c)
      /\ Grouped(more, m, ks)
      /\ Ring!Last(more) = <<>>
  <2> HIDE DEF c
  <2>1. CASE Ring!Last(c) = <<>>
    BY <1>1, <2>1
  <2>2. CASE Ring!Last(c) # <<>>
    <3>1. <<>> \in Seq(Nat) /\ Len(<<>>) = 0
      BY EmptySeq
    <3>2. /\ Append(c, <<>>) \in GopSeqs /\ Len(Append(c, <<>>)) = Len(c) + 1 /\ Len(c) \in Nat
          /\ \A i \in 1 .. Len(c) : Append(c, <<>>)[i] = c[i]
          /\ Append(c, <<>>)[Len(c) + 1] = <<>>
      BY <1>1, <3>1, AppendProperties, LenProperties DEF GopSeqs
    <3>3. Append(c, <<>>) # <<>>
      <4>1. Len(Append(c, <<>>)) # 0
        BY <3>2
      <4> QED
        BY <3>2, <4>1, EmptySeq DEF GopSeqs
    <3>4. Ring!FlattenSeq(Append(c, <<>>)) = Ring!FlattenSeq(c)
      <4>1. Ring!FlattenSeq(c) \in Seq(Nat)
              /\ Ring!FlattenSeq(Append(c, <<>>)) = Ring!FlattenSeq(c) \o <<>>
        BY <1>1, <3>1, FlatAppend, FlatType
      <4> QED
        BY <4>1, ConcatEmptySeq
    <3>5. Grouped(Append(c, <<>>), m, ks)
      <4> SUFFICES ASSUME NEW i \in 1 .. Len(c) + 1, NEW j \in 1 .. Len(Append(c, <<>>)[i])
                   PROVE  Append(c, <<>>)[i][j] \in 1 .. m /\ (ks[Append(c, <<>>)[i][j]] => j = 1)
        BY <3>2 DEF Grouped
      <4>1. CASE i = Len(c) + 1
        BY <3>1, <3>2, <4>1
      <4>2. CASE i # Len(c) + 1
        <5>1. i \in 1 .. Len(c) /\ Append(c, <<>>)[i] = c[i]
          BY <3>2, <4>2
        <5> QED
          BY <1>1, <5>1 DEF Grouped
      <4> QED
        BY <4>1, <4>2
    <3>6. Ring!Last(Append(c, <<>>)) = <<>>
      BY <3>2 DEF Ring!Last
    <3> QED
      BY <2>2, <3>2, <3>3, <3>4, <3>5, <3>6
  <2> QED
    BY <2>1, <2>2
<1> HIDE DEF c, more
<1>4. /\ new \in Storage /\ new.cache = more /\ new.size = st.size /\ new.idr /\ new.started
  BY <1>1, <1>3 DEF Storage
<1> HIDE DEF new
<1>5. Kept(new, m, ks)
  BY <1>1, <1>3, <1>4 DEF Kept
<1>6. CASE Len(more) > MaxGop
  <2>1. /\ Kept(Ring!PopFrontGop(new), m, ks) /\ Ring!PopFrontGop(new).size <= new.size
        /\ Ring!PopFrontGop(new).idr = new.idr /\ Ring!Last(Ring!PopFrontGop(new).cache) = <<>>
    BY <1>3, <1>4, <1>5, PopKept
  <2>2. Ring!PopFrontGop(new).size \in Nat
    BY <2>1 DEF Kept, Storage
  <2>3. Ring!Opened(st) = Ring!PopFrontGop(new)
    BY <1>2, <1>6
  <2>4. Ring!PopFrontGop(new).size <= MaxSize
    BY <1>1, <1>4, <2>1, <2>2, RingAssumption
  <2> QED
    BY <1>4, <2>1, <2>3, <2>4
<1>7. CASE ~(Len(more) > MaxGop)
  BY <1>1, <1>2, <1>3, <1>4, <1>5, <1>7
<1> QED
  BY <1>6, <1>7

\* Too many items.
LEMMA ShrunkKept ==
  ASSUME NEW st, NEW m \in Nat, NEW ks, Kept(st, m, ks), st.idr \/ ~st.started
  PROVE  Store(Ring!Shrunk(st), m, ks)
<1> DEFINE c == st.cache
           fewer == Len(Ring!FlattenSeq(Ring!Front(c)))
           last == [st EXCEPT !.size = st.size - fewer, !.cache = <<Ring!Last(c)>>]
<1>1. /\ st \in Storage /\ c \in GopSeqs /\ c # <<>> /\ st.size \in Nat
      /\ st.size = Len(Ring!FlattenSeq(c))
      /\ Run(Ring!FlattenSeq(c), m) /\ Grouped(c, m, ks)
  BY DEF Kept, Storage
<1>2. Ring!Shrunk(st) = IF st.size <= MaxSize THEN st
                        ELSE IF last.size <= MaxSize THEN last ELSE Ring!ClearCache(last)
  BY DEF Ring!Shrunk
<1> HIDE DEF c
<1>3. /\ Ring!Front(c) \in GopSeqs /\ Ring!Last(c) \in Seq(Nat)
      /\ c = Append(Ring!Front(c), Ring!Last(c))
      /\ Len(c) \in Nat \ {0} /\ Ring!Last(c) = c[Len(c)]
  BY <1>1, FrontLast
<1>4. Ring!FlattenSeq(c) = Ring!FlattenSeq(Ring!Front(c)) \o Ring!Last(c)
        /\ Ring!FlattenSeq(Ring!Front(c)) \in Seq(Nat)
  BY <1>3, FlatAppend, FlatType
<1>5. /\ Len(Ring!FlattenSeq(c)) = fewer + Len(Ring!Last(c)) /\ fewer \in Nat
      /\ Len(Ring!Last(c)) \in Nat
  BY <1>3, <1>4, ConcatProperties, LenProperties
<1> HIDE DEF fewer
<1>6. Run(Ring!Last(c), m)
  BY <1>1, <1>3, <1>4, RunSuffix
<1>7. /\ <<Ring!Last(c)>> \in GopSeqs /\ <<Ring!Last(c)>> # <<>> /\ Len(<<Ring!Last(c)>>) = 1
      /\ <<Ring!Last(c)>>[1] = Ring!Last(c) /\ Ring!FlattenSeq(<<Ring!Last(c)>>) = Ring!Last(c)
  BY <1>3, OneGroup, FlatOne
<1>8. Grouped(<<Ring!Last(c)>>, m, ks)
  <2> PICK w : w = <<Ring!Last(c)>>
    OBVIOUS
  <2>1. Len(c) \in 1 .. Len(c) /\ Len(w) = 1 /\ w[1] = c[Len(c)]
    BY <1>3, <1>7
  <2>2. \A i \in 1 .. Len(w) : w[i] = c[Len(c)]
    BY <2>1
  <2>3. Grouped(w, m, ks)
    BY <1>1, <2>1, <2>2 DEF Grouped
  <2> QED
    BY <2>3
<1>9. st.size - fewer = Len(Ring!Last(c))
  BY <1>1, <1>5
<1>10. Kept(last, m, ks)
  <2> PICK w : w = <<Ring!Last(c)>>
    OBVIOUS
  <2> PICK k : k = st.size - fewer
    OBVIOUS
  <2>1. last = [st EXCEPT !.size = k, !.cache = w] /\ w \in GopSeqs /\ k \in Nat
    BY <1>5, <1>7, <1>9
  <2> HIDE DEF last
  <2>2. last \in Storage
    <3>1. [st EXCEPT !.size = k, !.cache = w] \in Storage
      BY <1>1, <2>1 DEF Storage
    <3> QED
      BY <2>1, <3>1
  <2>3. last.cache = w /\ last.size = k /\ last.idr = st.idr /\ last.started = st.started
    BY <1>1, <2>1 DEF Storage
  <2>4. st.idr \in BOOLEAN /\ st.started \in BOOLEAN
    BY <1>1 DEF Storage
  <2>5. last.started /\ ~last.idr => Ring!FlattenSeq(last.cache) = <<>>
    BY <2>3, <2>4
  <2>6. last.cache = <<Ring!Last(c)>> /\ last.size = Len(Ring!Last(c))
    BY <1>9, <2>3
  <2>7. Run(Ring!FlattenSeq(last.cache), m) /\ last.size = Len(Ring!FlattenSeq(last.cache))
          /\ last.cache # <<>>
    BY <1>6, <1>7, <2>6
  <2>8. Grouped(last.cache, m, ks)
    BY <1>8, <2>6
  <2> QED
    BY <2>2, <2>5, <2>7, <2>8 DEF Kept
<1> HIDE DEF last
<1>11. Store(Ring!ClearCache(last), m, ks)
  BY <1>10, ClearStore DEF Kept
<1>12. CASE st.size <= MaxSize
  BY <1>2, <1>12 DEF Store
<1>13. CASE ~(st.size <= MaxSize)
  BY <1>2, <1>10, <1>11, <1>13 DEF Store
<1> QED
  BY <1>12, <1>13

\* One more item in the last group.
LEMMA PushKept ==
  ASSUME NEW st, NEW m \in Nat, NEW ks, Kept(st, m, ks), st.idr \/ ~st.started,
         ks[m + 1] => Ring!Last(st.cache) = <<>>
  PROVE  LET new == [st EXCEPT !.cache[Len(st.cache)] = Append(@, m + 1), !.size = @ + 1] IN
         Kept(new, m + 1, ks) /\ (new.idr \/ ~new.started)
<1> DEFINE c == st.cache
           d == [c EXCEPT ![Len(c)] = Append(@, m + 1)]
           new == [st EXCEPT !.cache[Len(c)] = Append(@, m + 1), !.size = @ + 1]
           g == Append(Ring!Last(c), m + 1)
<1>1. /\ st \in Storage /\ c \in GopSeqs /\ c # <<>> /\ st.size \in Nat
      /\ st.size = Len(Ring!FlattenSeq(c))
      /\ Run(Ring!FlattenSeq(c), m) /\ Grouped(c, m, ks)
  BY DEF Kept, Storage
<1>2. new = [st EXCEPT !.cache = d, !.size = st.size + 1]
  OBVIOUS
<1> HIDE DEF c, new
<1>3. /\ Ring!Front(c) \in GopSeqs /\ Ring!Last(c) \in Seq(Nat)
      /\ c = Append(Ring!Front(c), Ring!Last(c))
      /\ Len(c) \in Nat \ {0} /\ Ring!Last(c) = c[Len(c)] /\ Len(Ring!Front(c)) = Len(c) - 1
      /\ \A i \in 1 .. Len(c) - 1 : Ring!Front(c)[i] = c[i]
  BY <1>1, FrontLast
<1>4. /\ g \in Seq(Nat) /\ Len(g) = Len(Ring!Last(c)) + 1 /\ Len(Ring!Last(c)) \in Nat
      /\ \A j \in 1 .. Len(Ring!Last(c)) : g[j] = Ring!Last(c)[j]
      /\ g[Len(Ring!Last(c)) + 1] = m + 1
  BY <1>3, AppendProperties, LenProperties
<1>5. /\ d \in GopSeqs /\ Len(d) = Len(c) /\ d[Len(c)] = g
      /\ \A i \in 1 .. Len(c) : i # Len(c) => d[i] = c[i]
  <2>1. Len(c) \in 1 .. Len(c)
    BY <1>3
  <2>2. d = [c EXCEPT ![Len(c)] = g]
    BY <1>3
  <2> HIDE DEF d, g
  <2> QED
    BY <1>1, <1>4, <2>1, <2>2, ExceptSeq DEF GopSeqs
<1> HIDE DEF d, g
<1>6. d = Append(Ring!Front(c), g)
  <2> PICK b : b = Ring!Front(c)
    OBVIOUS
  <2>1. /\ Append(b, g) \in GopSeqs /\ Len(Append(b, g)) = Len(c) /\ Len(b) = Len(c) - 1
        /\ \A i \in 1 .. Len(b) : Append(b, g)[i] = b[i]
        /\ Append(b, g)[Len(c)] = g
    BY <1>3, <1>4, AppendProperties DEF GopSeqs
  <2>2. \A i \in 1 .. Len(c) : d[i] = Append(b, g)[i]
    <3> SUFFICES ASSUME NEW i \in 1 .. Len(c) PROVE d[i] = Append(b, g)[i]
      OBVIOUS
    <3>1. CASE i = Len(c)
      BY <1>5, <2>1, <3>1
    <3>2. CASE i # Len(c)
      <4>1. i \in 1 .. Len(b) /\ i \in 1 .. Len(c) - 1
        BY <1>3, <2>1, <3>2
      <4> QED
        BY <1>3, <1>5, <2>1, <3>2, <4>1
    <3> QED
      BY <3>1, <3>2
  <2>3. d = Append(b, g)
    BY <1>5, <2>1, <2>2, SeqEqual DEF GopSeqs
  <2> QED
    BY <2>3
<1>7. Ring!FlattenSeq(c) = Ring!FlattenSeq(Ring!Front(c)) \o Ring!Last(c)
        /\ Ring!FlattenSeq(Ring!Front(c)) \in Seq(Nat)
  BY <1>3, FlatAppend, FlatType
<1>8. Ring!FlattenSeq(d) = Append(Ring!FlattenSeq(c), m + 1) /\ Ring!FlattenSeq(c) \in Seq(Nat)
  <2>1. Ring!FlattenSeq(d) = Ring!FlattenSeq(Ring!Front(c)) \o g
    BY <1>3, <1>4, <1>6, FlatAppend
  <2>2. <<m + 1>> \in Seq(Nat) /\ g = Ring!Last(c) \o <<m + 1>>
    BY <1>3, AppendIsConcat DEF g
  <2>3. Ring!FlattenSeq(d) = Ring!FlattenSeq(c) \o <<m + 1>>
    <3>1. (Ring!FlattenSeq(Ring!Front(c)) \o Ring!Last(c)) \o <<m + 1>>
            = Ring!FlattenSeq(Ring!Front(c)) \o (Ring!Last(c) \o <<m + 1>>)
      BY <1>3, <1>7, <2>2, ConcatNat
    <3> QED
      BY <1>7, <2>1, <2>2, <3>1
  <2>4. Ring!FlattenSeq(c) \in Seq(Nat)
    BY <1>1, FlatType
  <2> QED
    BY <2>3, <2>4, AppendIsConcat
<1>9. Run(Ring!FlattenSeq(d), m + 1) /\ Len(Ring!FlattenSeq(d)) = st.size + 1
  <2>1. Len(Append(Ring!FlattenSeq(c), m + 1)) = Len(Ring!FlattenSeq(c)) + 1
    BY <1>8, AppendProperties
  <2> QED
    BY <1>1, <1>8, <2>1, RunMore
<1>10. Grouped(d, m + 1, ks)
  <2> SUFFICES ASSUME NEW i \in 1 .. Len(c), NEW j \in 1 .. Len(d[i])
               PROVE  d[i][j] \in 1 .. m + 1 /\ (ks[d[i][j]] => j = 1)
    BY <1>5 DEF Grouped
  <2>1. CASE i # Len(c)
    <3>1. d[i] = c[i] /\ j \in 1 .. Len(c[i])
      BY <1>5, <2>1
    <3>2. c[i][j] \in 1 .. m /\ (ks[c[i][j]] => j = 1)
      BY <1>1, <3>1 DEF Grouped
    <3> QED
      BY <3>1, <3>2
  <2>2. CASE i = Len(c) /\ j # Len(Ring!Last(c)) + 1
    <3>1. d[i] = g /\ j \in 1 .. Len(Ring!Last(c)) /\ Ring!Last(c) = c[i]
      BY <1>3, <1>4, <1>5, <2>2
    <3>2. c[i][j] \in 1 .. m /\ (ks[c[i][j]] => j = 1)
      BY <1>1, <3>1 DEF Grouped
    <3> QED
      <4>1. d[i][j] = c[i][j]
        BY <1>4, <3>1
      <4>2. 1 .. m \subseteq 1 .. m + 1
        OBVIOUS
      <4> QED
        BY <3>2, <4>1, <4>2
  <2>3. CASE i = Len(c) /\ j = Len(Ring!Last(c)) + 1
    <3>1. d[i][j] = m + 1
      BY <1>4, <1>5, <2>3
    <3>2. ks[m + 1] => Len(Ring!Last(c)) = 0
      BY <1>3, EmptySeq DEF c
    <3> QED
      BY <2>3, <3>1, <3>2
  <2> QED
    BY <2>1, <2>2, <2>3
<1>11. d # <<>>
  BY <1>3, <1>5, EmptySeq
<1>12. new \in Storage /\ new.cache = d /\ new.size = st.size + 1 /\ new.idr = st.idr
         /\ new.started = st.started
  <2> PICK k : k = st.size + 1
    OBVIOUS
  <2>1. new = [st EXCEPT !.cache = d, !.size = k] /\ k \in Nat
    BY <1>1, <1>2
  <2>2. [st EXCEPT !.cache = d, !.size = k] \in Storage
    BY <1>1, <1>5, <2>1 DEF Storage
  <2>3. new.cache = d /\ new.size = k /\ new.idr = st.idr /\ new.started = st.started
    BY <1>1, <2>1 DEF Storage
  <2> QED
    BY <2>1, <2>2, <2>3
<1>13. st.idr \in BOOLEAN /\ st.started \in BOOLEAN
  BY <1>1 DEF Storage
<1>14. new.started /\ ~new.idr => Ring!FlattenSeq(new.cache) = <<>>
  BY <1>12, <1>13
<1>15. Kept(new, m + 1, ks)
  BY <1>9, <1>10, <1>11, <1>12, <1>14 DEF Kept
<1>16. new.idr \/ ~new.started
  BY <1>12, <1>13
<1> QED
  BY <1>15, <1>16 DEF new, c

\* One more item.
LEMMA StoredRight ==
  ASSUME NEW st, NEW m \in Nat, NEW ks, Store(st, m, ks)
  PROVE  Store(Ring!Stored(st, m + 1, ks[m + 1]), m + 1, ks)
<1> DEFINE opens == IF ks[m + 1] THEN Ring!Opened(st) ELSE st
           new == [opens EXCEPT !.cache[Len(opens.cache)] = Append(@, m + 1), !.size = @ + 1]
<1>1. Ring!Stored(st, m + 1, ks[m + 1]) = IF ~opens.idr /\ opens.started
                                          THEN opens
                                          ELSE Ring!Shrunk(new)
  BY DEF Ring!Stored
<1>2. Kept(opens, m, ks) /\ opens.size <= MaxSize
        /\ (ks[m + 1] => Ring!Last(opens.cache) = <<>> /\ opens.idr)
  BY OpenedKept DEF Store
<1> HIDE DEF opens, new
<1>3. CASE ~opens.idr /\ opens.started
  <2>1. Ring!FlattenSeq(opens.cache) = <<>> /\ Grouped(opens.cache, m, ks)
    BY <1>2, <1>3 DEF Kept
  <2>2. Grouped(opens.cache, m + 1, ks)
    <3>1. \A k \in 1 .. m : k \in 1 .. m + 1
      OBVIOUS
    <3> QED
      BY <2>1, <3>1 DEF Grouped
  <2>3. Run(Ring!FlattenSeq(opens.cache), m + 1)
    BY <2>1, RunEmpty
  <2> QED
    BY <1>1, <1>2, <1>3, <2>1, <2>2, <2>3 DEF Store, Kept
<1>4. CASE ~(~opens.idr /\ opens.started)
  <2>1. Kept(new, m + 1, ks) /\ (new.idr \/ ~new.started)
    BY <1>2, <1>4, PushKept DEF new
  <2>2. Store(Ring!Shrunk(new), m + 1, ks)
    BY <2>1, ShrunkKept
  <2> QED
    BY <1>1, <1>4, <2>2
<1> QED
  BY <1>3, <1>4

\* The keys of later items do not matter.
LEMMA StoreMore ==
  ASSUME NEW st, NEW m \in Nat, NEW ks, NEW new, Store(st, m, ks),
         \A i \in 1 .. m : new[i] = ks[i]
  PROVE  Store(st, m, new)
BY DEF Store, Kept, Grouped

-----------------------------------------------------------------------------
(* RingBuffer: its pollers and their tasks.                                *)

TaskKinds == {"write", "clear", "dealloc", "delete"}
Tasks == [kind : TaskKinds, id : Nat, n : Nat]
Readers == [poller : Pollers, disp : Nat, cache : UseCache,
            state : {"held", "released", "deleted"}, reads : BOOLEAN, got : Seq(Nat),
            detached : Nat]
Dispatchers == [st : Storage, readers : SUBSET Nat]

RingTypes ==
  /\ ring_key \in Seq(BOOLEAN) /\ ring_disp \in Seq(Dispatchers) /\ ring_map \in [Pollers -> Nat]
  /\ ring_total \in Int /\ ring_tasks \in [Pollers -> Seq(Tasks)] /\ ring_reader \in Seq(Readers)
  /\ ring_alive \in BOOLEAN

\* The items n of the waiting writes to d are m + 1 .. e, in this order.
IsWrite(t, d) == t.kind = "write" /\ t.id = d
Span(q, d, m, e) ==
  /\ \A i \in 1 .. Len(q) : IsWrite(q[i], d) => q[i].n \in m + 1 .. e
  /\ \A i, j \in 1 .. Len(q) : i < j /\ IsWrite(q[i], d) /\ IsWrite(q[j], d) => q[i].n < q[j].n
  /\ \A n \in m + 1 .. e : \E i \in 1 .. Len(q) : IsWrite(q[i], d) /\ q[i].n = n

\* What the tasks of a poller speak of.
QueueRight(q, ds, rs, up) ==
  \A i \in 1 .. Len(q) :
    /\ q[i].id \in 1 .. Len(ds)
    /\ q[i].kind = "dealloc" => /\ q[i].n \in 1 .. Len(rs) /\ rs[q[i].n].state # "held"
                                /\ rs[q[i].n].disp = q[i].id
    /\ q[i].kind = "delete" =>
         ~up /\ \A j \in 1 .. Len(q) : j # i /\ q[j].id = q[i].id => q[j].kind = "dealloc"

\* A task takes r off its dispatcher.
Leaves(q, r) == \E i \in 1 .. Len(q) : q[i].kind = "dealloc" /\ q[i].n = r

Consecutive(s) == \A i \in 1 .. Len(s) - 1 : s[i + 1] = s[i] + 1

\* What is so of a reader, whatever its dispatcher.
ReaderRight(r) ==
  LET x == ring_reader[r] IN
  /\ x.disp \in 1 .. Len(ring_disp) /\ Consecutive(x.got) /\ (~x.reads => x.got = <<>>)
  /\ x.state = "held" => r \in ring_disp[x.disp].readers
  /\ x.detached <= 1
  /\ ring_alive => x.detached = 0
  /\ ~ring_alive /\ x.state = "held" =>
       x.detached = IF Ring!Refs(ring_tasks[x.poller], x.disp) THEN 0 ELSE 1

\* Nobody else has to do with d.
Home(d, p) ==
  /\ \A r \in 1 .. Len(ring_reader) : ring_reader[r].disp = d => ring_reader[r].poller = p
  /\ \A q \in Pollers \ {p} :
       ring_map[q] # d /\ \A i \in 1 .. Len(ring_tasks[q]) : ring_tasks[q][i].id # d

\* Its readers are those that were attached to it and have not left, or are about to; the ring
\* has it for p while there are some.
Members(d, p) ==
  /\ \A r \in ring_disp[d].readers :
       /\ r \in 1 .. Len(ring_reader) /\ ring_reader[r].disp = d /\ ring_reader[r].state # "deleted"
       /\ ring_reader[r].state = "released" => Leaves(ring_tasks[p], r)
  /\ ring_map[p] = d => ring_disp[d].readers # {}
  /\ ring_alive /\ ring_disp[d].readers # {} => ring_map[p] = d

\* Its storage and its readers have what was written up to m.
Told(d, p, m, e) ==
  /\ Store(ring_disp[d].st, m, ring_key) /\ m <= e /\ e <= Len(ring_key)
  /\ Span(ring_tasks[p], d, m, e)
  /\ ring_alive /\ ring_map[p] = d => e = Len(ring_key)
  /\ \A r \in 1 .. Len(ring_reader) :
       ring_reader[r].disp = d /\ ring_reader[r].state = "held" /\ ring_reader[r].got # <<>>
         => ring_reader[r].got[Len(ring_reader[r].got)] = m

\* A dispatcher belongs to one poller; its writes that were run and those that wait are items
\* 1 .. m and m + 1 .. e.
DispatcherRight(d) ==
  \E p \in Pollers : \E m, e \in Nat : Home(d, p) /\ Members(d, p) /\ Told(d, p, m, e)

AllReaders == UNION {ring_disp[d].readers : d \in 1 .. Len(ring_disp)}

(* What keeps the promises of the ring: of the tasks that wait, of the readers and of the
   dispatchers, and the count. *)
RingInv ==
  /\ RingTypes
  /\ Store(ring_main, Len(ring_key), ring_key)
  /\ \A p \in Pollers :
       /\ QueueRight(ring_tasks[p], ring_disp, ring_reader, ring_alive)
       /\ ring_map[p] \in 0 .. Len(ring_disp) /\ (~ring_alive => ring_map[p] = 0)
  /\ \A r \in 1 .. Len(ring_reader) : ReaderRight(r)
  /\ \A d \in 1 .. Len(ring_disp) : DispatcherRight(d)
  /\ ring_alive => ring_total = Cardinality(AllReaders)

-----------------------------------------------------------------------------
\* The instance counts as its module does.
LEMMA RingCounts == \A S : Ring!Cardinality(S) = Cardinality(S)
BY ONLY DEF Ring!Cardinality, Cardinality

\* async() puts a task behind the others.
LEMMA TaskAppend ==
  ASSUME NEW q \in Seq(Tasks), NEW t \in Tasks
  PROVE  /\ Append(q, t) \in Seq(Tasks) /\ Len(Append(q, t)) = Len(q) + 1 /\ Len(q) \in Nat
         /\ \A i \in 1 .. Len(q) : Append(q, t)[i] = q[i] /\ q[i] \in Tasks
         /\ Append(q, t)[Len(q) + 1] = t
BY AppendProperties, LenProperties, ElementOfSeq

\* A list without its first task.
LEMMA TaskTail ==
  ASSUME NEW q \in Seq(Tasks), q # <<>>
  PROVE  /\ Tail(q) \in Seq(Tasks) /\ Len(Tail(q)) = Len(q) - 1 /\ Len(q) \in Nat \ {0}
         /\ \A i \in 1 .. Len(q) - 1 : Tail(q)[i] = q[i + 1]
         /\ Head(q) = q[1] /\ Head(q) \in Tasks /\ \A i \in 1 .. Len(q) : q[i] \in Tasks
<1>1. Len(q) \in Nat /\ Len(q) # 0
  BY EmptySeq, LenProperties
<1>2. /\ Tail(q) \in Seq(Tasks) /\ Len(Tail(q)) = Len(q) - 1 /\ Head(q) = q[1]
      /\ \A i \in 1 .. Len(q) - 1 : Tail(q)[i] = q[i + 1]
  BY <1>1, HeadTailProperties
<1>3. \A i \in 1 .. Len(q) : q[i] \in Tasks
  BY ElementOfSeq
<1> QED
  BY <1>1, <1>2, <1>3

\* The next item is written to the dispatcher behind those that wait.
LEMMA SpanWrite ==
  ASSUME NEW q \in Seq(Tasks), NEW t \in Tasks, NEW d \in Nat, NEW m \in Nat, NEW e \in Nat, m <= e,
         Span(q, d, m, e), IsWrite(t, d), t.n = e + 1
  PROVE  Span(Append(q, t), d, m, e + 1)
<1> DEFINE u == Append(q, t)
<1>1. /\ Len(u) = Len(q) + 1 /\ Len(q) \in Nat /\ u[Len(q) + 1] = t
      /\ \A i \in 1 .. Len(q) : u[i] = q[i]
  BY TaskAppend
<1> HIDE DEF u
<1>2. \A i \in 1 .. Len(u) : IsWrite(u[i], d) => u[i].n \in m + 1 .. e + 1
  <2> SUFFICES ASSUME NEW i \in 1 .. Len(u), IsWrite(u[i], d) PROVE u[i].n \in m + 1 .. e + 1
    OBVIOUS
  <2>1. CASE i = Len(q) + 1
    BY <1>1, <2>1
  <2>2. CASE i # Len(q) + 1
    <3>1. i \in 1 .. Len(q) /\ u[i] = q[i]
      BY <1>1, <2>2
    <3>2. q[i].n \in m + 1 .. e
      BY <3>1 DEF Span
    <3> QED
      BY <3>1, <3>2
  <2> QED
    BY <2>1, <2>2
<1>3. \A i, j \in 1 .. Len(u) : i < j /\ IsWrite(u[i], d) /\ IsWrite(u[j], d) => u[i].n < u[j].n
  <2> SUFFICES ASSUME NEW i \in 1 .. Len(u), NEW j \in 1 .. Len(u), i < j, IsWrite(u[i], d),
                      IsWrite(u[j], d)
               PROVE  u[i].n < u[j].n
    OBVIOUS
  <2>1. i \in 1 .. Len(q) /\ u[i] = q[i]
    BY <1>1
  <2>2. CASE j = Len(q) + 1
    <3>1. q[i].n \in m + 1 .. e
      BY <2>1 DEF Span
    <3> QED
      BY <1>1, <2>1, <2>2, <3>1
  <2>3. CASE j # Len(q) + 1
    <3>1. j \in 1 .. Len(q) /\ u[j] = q[j]
      BY <1>1, <2>3
    <3> QED
      BY <2>1, <3>1 DEF Span
  <2> QED
    BY <2>2, <2>3
<1>4. \A n \in m + 1 .. e + 1 : \E i \in 1 .. Len(u) : IsWrite(u[i], d) /\ u[i].n = n
  <2> SUFFICES ASSUME NEW n \in m + 1 .. e + 1
               PROVE \E i \in 1 .. Len(u) : IsWrite(u[i], d) /\ u[i].n = n
    OBVIOUS
  <2>1. CASE n = e + 1
    <3>1. Len(q) + 1 \in 1 .. Len(u)
      BY <1>1
    <3> QED
      BY <1>1, <2>1, <3>1
  <2>2. CASE n # e + 1
    <3>1. n \in m + 1 .. e
      BY <2>2
    <3>2. PICK i \in 1 .. Len(q) : IsWrite(q[i], d) /\ q[i].n = n
      BY <3>1 DEF Span
    <3>3. i \in 1 .. Len(u) /\ u[i] = q[i]
      BY <1>1
    <3> QED
      BY <3>2, <3>3
  <2> QED
    BY <2>1, <2>2
<1> QED
  BY <1>2, <1>3, <1>4 DEF Span, u

\* Another task does not disturb them.
LEMMA SpanOther ==
  ASSUME NEW q \in Seq(Tasks), NEW t \in Tasks, NEW d \in Nat, NEW m \in Nat, NEW e \in Nat,
         Span(q, d, m, e), ~IsWrite(t, d)
  PROVE  Span(Append(q, t), d, m, e)
<1> DEFINE u == Append(q, t)
<1>1. /\ Len(u) = Len(q) + 1 /\ Len(q) \in Nat /\ u[Len(q) + 1] = t
      /\ \A i \in 1 .. Len(q) : u[i] = q[i]
  BY TaskAppend
<1> HIDE DEF u
<1>2. \A i \in 1 .. Len(u) : IsWrite(u[i], d) => i \in 1 .. Len(q) /\ u[i] = q[i]
  BY <1>1
<1>3. \A i \in 1 .. Len(q) : i \in 1 .. Len(u) /\ u[i] = q[i]
  BY <1>1
<1> QED
  BY <1>2, <1>3 DEF Span, u

\* The first write that waits brings the first item that the dispatcher lacks.
LEMMA SpanNext ==
  ASSUME NEW q \in Seq(Tasks), q # <<>>, NEW d \in Nat, NEW m \in Nat, NEW e \in Nat,
         Span(q, d, m, e), IsWrite(Head(q), d)
  PROVE  Head(q).n = m + 1 /\ m + 1 <= e /\ Span(Tail(q), d, m + 1, e)
<1> DEFINE u == Tail(q)
<1>1. /\ Len(u) = Len(q) - 1 /\ Len(q) \in Nat \ {0} /\ Head(q) = q[1]
      /\ \A i \in 1 .. Len(q) - 1 : u[i] = q[i + 1]
      /\ \A i \in 1 .. Len(q) : q[i].n \in Nat
  BY TaskTail DEF Tasks
<1> HIDE DEF u
<1>2. q[1].n \in m + 1 .. e /\ 1 \in 1 .. Len(q)
  BY <1>1 DEF Span
<1>3. \A j \in 2 .. Len(q) : IsWrite(q[j], d) => q[1].n < q[j].n
  BY <1>1 DEF Span
<1>4. q[1].n = m + 1
  <2>1. m + 1 \in m + 1 .. e
    BY <1>2
  <2>2. PICK i \in 1 .. Len(q) : IsWrite(q[i], d) /\ q[i].n = m + 1
    BY <2>1 DEF Span
  <2>3. CASE i = 1
    BY <2>2, <2>3
  <2>4. CASE i # 1
    <3>1. i \in 2 .. Len(q)
      BY <1>1, <2>4
    <3>2. q[1].n < m + 1
      BY <1>3, <2>2, <3>1
    <3> QED
      BY <1>2, <3>2
  <2> QED
    BY <2>3, <2>4
<1>5. \A i \in 1 .. Len(u) : i + 1 \in 2 .. Len(q) /\ u[i] = q[i + 1] /\ i + 1 \in 1 .. Len(q)
  BY <1>1
<1>6. \A i \in 1 .. Len(u) : IsWrite(u[i], d) => u[i].n \in (m + 1) + 1 .. e
  <2> SUFFICES ASSUME NEW i \in 1 .. Len(u), IsWrite(u[i], d) PROVE u[i].n \in (m + 1) + 1 .. e
    OBVIOUS
  <2>1. q[i + 1].n \in m + 1 .. e /\ q[1].n < q[i + 1].n
    BY <1>3, <1>5 DEF Span
  <2> QED
    BY <1>4, <1>5, <2>1
<1>7. \A i, j \in 1 .. Len(u) : i < j /\ IsWrite(u[i], d) /\ IsWrite(u[j], d) => u[i].n < u[j].n
  <2> SUFFICES ASSUME NEW i \in 1 .. Len(u), NEW j \in 1 .. Len(u), i < j, IsWrite(u[i], d),
                      IsWrite(u[j], d)
               PROVE  u[i].n < u[j].n
    OBVIOUS
  <2>1. i + 1 < j + 1 /\ u[i] = q[i + 1] /\ u[j] = q[j + 1] /\ i + 1 \in 1 .. Len(q)
          /\ j + 1 \in 1 .. Len(q)
    BY <1>5
  <2> QED
    BY <2>1 DEF Span
<1>8. \A n \in (m + 1) + 1 .. e : \E i \in 1 .. Len(u) : IsWrite(u[i], d) /\ u[i].n = n
  <2> SUFFICES ASSUME NEW n \in (m + 1) + 1 .. e
               PROVE \E i \in 1 .. Len(u) : IsWrite(u[i], d) /\ u[i].n = n
    OBVIOUS
  <2>1. n \in m + 1 .. e /\ n # m + 1
    OBVIOUS
  <2>2. PICK j \in 1 .. Len(q) : IsWrite(q[j], d) /\ q[j].n = n
    BY <2>1 DEF Span
  <2>3. j # 1
    BY <1>4, <2>1, <2>2
  <2>4. j - 1 \in 1 .. Len(u) /\ j - 1 \in 1 .. Len(q) - 1 /\ (j - 1) + 1 = j
    BY <1>1, <2>3
  <2>5. u[j - 1] = q[j]
    BY <1>1, <2>4
  <2> QED
    BY <2>2, <2>4, <2>5
<1> QED
  BY <1>1, <1>2, <1>4, <1>6, <1>7, <1>8 DEF Span, u

\* No item is lost with a task that is none of its writes.
LEMMA SpanSkip ==
  ASSUME NEW q \in Seq(Tasks), q # <<>>, NEW d \in Nat, NEW m \in Nat, NEW e \in Nat,
         Span(q, d, m, e), ~IsWrite(Head(q), d)
  PROVE  Span(Tail(q), d, m, e)
<1> DEFINE u == Tail(q)
<1>1. /\ Len(u) = Len(q) - 1 /\ Len(q) \in Nat \ {0} /\ Head(q) = q[1]
      /\ \A i \in 1 .. Len(q) - 1 : u[i] = q[i + 1]
  BY TaskTail
<1> HIDE DEF u
<1>2. \A i \in 1 .. Len(u) : u[i] = q[i + 1] /\ i + 1 \in 1 .. Len(q)
  BY <1>1
<1>3. \A i \in 1 .. Len(u) : IsWrite(u[i], d) => u[i].n \in m + 1 .. e
  BY <1>2 DEF Span
<1>4. \A i, j \in 1 .. Len(u) : i < j /\ IsWrite(u[i], d) /\ IsWrite(u[j], d) => u[i].n < u[j].n
  <2> SUFFICES ASSUME NEW i \in 1 .. Len(u), NEW j \in 1 .. Len(u), i < j, IsWrite(u[i], d),
                      IsWrite(u[j], d)
               PROVE  u[i].n < u[j].n
    OBVIOUS
  <2>1. i + 1 < j + 1 /\ u[i] = q[i + 1] /\ u[j] = q[j + 1] /\ i + 1 \in 1 .. Len(q)
          /\ j + 1 \in 1 .. Len(q)
    BY <1>2
  <2> QED
    BY <2>1 DEF Span
<1>5. \A n \in m + 1 .. e : \E i \in 1 .. Len(u) : IsWrite(u[i], d) /\ u[i].n = n
  <2> SUFFICES ASSUME NEW n \in m + 1 .. e
               PROVE \E i \in 1 .. Len(u) : IsWrite(u[i], d) /\ u[i].n = n
    OBVIOUS
  <2>1. PICK j \in 1 .. Len(q) : IsWrite(q[j], d) /\ q[j].n = n
    BY DEF Span
  <2>2. j # 1
    BY <1>1, <2>1
  <2>3. j - 1 \in 1 .. Len(u) /\ j - 1 \in 1 .. Len(q) - 1 /\ (j - 1) + 1 = j
    BY <1>1, <2>2
  <2>4. u[j - 1] = q[j]
    BY <1>1, <2>3
  <2> QED
    BY <2>1, <2>3, <2>4
<1> QED
  BY <1>3, <1>4, <1>5 DEF Span, u

\* A task that is put behind the others may hold its dispatcher.
LEMMA RefsAppend ==
  ASSUME NEW q \in Seq(Tasks), NEW t \in Tasks, NEW d
  PROVE  Ring!Refs(Append(q, t), d) <=> (Ring!Refs(q, d) \/ (t.id = d /\ t.kind # "dealloc"))
<1> DEFINE u == Append(q, t)
<1>1. /\ Len(u) = Len(q) + 1 /\ Len(q) \in Nat /\ u[Len(q) + 1] = t
      /\ \A i \in 1 .. Len(q) : u[i] = q[i]
  BY TaskAppend
<1> HIDE DEF u
<1>2. \A i \in 1 .. Len(q) : i \in 1 .. Len(u) /\ u[i] = q[i]
  BY <1>1
<1>3. Len(q) + 1 \in 1 .. Len(u)
  BY <1>1
<1>4. \A i \in 1 .. Len(u) : i = Len(q) + 1 \/ (i \in 1 .. Len(q) /\ u[i] = q[i])
  BY <1>1
<1>5. Ring!Refs(u, d) => Ring!Refs(q, d) \/ (t.id = d /\ t.kind # "dealloc")
  BY <1>1, <1>4 DEF Ring!Refs
<1>6. Ring!Refs(q, d) => Ring!Refs(u, d)
  BY <1>2 DEF Ring!Refs
<1>7. t.id = d /\ t.kind # "dealloc" => Ring!Refs(u, d)
  BY <1>1, <1>3 DEF Ring!Refs
<1> QED
  BY <1>5, <1>6, <1>7 DEF u

\* A dispatcher is held by the first task or by the others.
LEMMA RefsTail ==
  ASSUME NEW q \in Seq(Tasks), q # <<>>, NEW d
  PROVE  Ring!Refs(q, d) <=> (Ring!Refs(Tail(q), d) \/ (Head(q).id = d /\ Head(q).kind # "dealloc"))
<1> DEFINE u == Tail(q)
<1>1. /\ Len(u) = Len(q) - 1 /\ Len(q) \in Nat \ {0} /\ Head(q) = q[1]
      /\ \A i \in 1 .. Len(q) - 1 : u[i] = q[i + 1]
  BY TaskTail
<1> HIDE DEF u
<1>2. \A i \in 1 .. Len(u) : u[i] = q[i + 1] /\ i + 1 \in 1 .. Len(q)
  BY <1>1
<1>3. \A j \in 1 .. Len(q) : j = 1 \/ (j - 1 \in 1 .. Len(u) /\ u[j - 1] = q[j])
  <2> SUFFICES ASSUME NEW j \in 1 .. Len(q), j # 1 PROVE j - 1 \in 1 .. Len(u) /\ u[j - 1] = q[j]
    OBVIOUS
  <2>1. j - 1 \in 1 .. Len(u) /\ (j - 1) + 1 = j
    BY <1>1
  <2> QED
    BY <1>2, <2>1
<1>4. 1 \in 1 .. Len(q)
  BY <1>1
<1>5. Ring!Refs(u, d) => Ring!Refs(q, d)
  BY <1>2 DEF Ring!Refs
<1>6. Head(q).id = d /\ Head(q).kind # "dealloc" => Ring!Refs(q, d)
  BY <1>1, <1>4 DEF Ring!Refs
<1>7. Ring!Refs(q, d) => Ring!Refs(u, d) \/ (Head(q).id = d /\ Head(q).kind # "dealloc")
  BY <1>1, <1>3 DEF Ring!Refs
<1> QED
  BY <1>5, <1>6, <1>7 DEF u

\* A reader that is to leave still is, and so is one whose task comes.
LEMMA LeavesAppend ==
  ASSUME NEW q \in Seq(Tasks), NEW t \in Tasks, NEW r
  PROVE  /\ Leaves(q, r) => Leaves(Append(q, t), r)
         /\ t.kind = "dealloc" /\ t.n = r => Leaves(Append(q, t), r)
<1> DEFINE u == Append(q, t)
<1>1. /\ Len(u) = Len(q) + 1 /\ Len(q) \in Nat /\ u[Len(q) + 1] = t
      /\ \A i \in 1 .. Len(q) : u[i] = q[i]
  BY TaskAppend
<1> HIDE DEF u
<1>2. \A i \in 1 .. Len(q) : i \in 1 .. Len(u) /\ u[i] = q[i]
  BY <1>1
<1>3. Len(q) + 1 \in 1 .. Len(u)
  BY <1>1
<1> QED
  BY <1>1, <1>2, <1>3 DEF Leaves, u

\* Its task is still there when another one is gone.
LEMMA LeavesTail ==
  ASSUME NEW q \in Seq(Tasks), q # <<>>, NEW r, Leaves(q, r),
         ~(Head(q).kind = "dealloc" /\ Head(q).n = r)
  PROVE  Leaves(Tail(q), r)
<1> DEFINE u == Tail(q)
<1>1. /\ Len(u) = Len(q) - 1 /\ Len(q) \in Nat \ {0} /\ Head(q) = q[1]
      /\ \A i \in 1 .. Len(q) - 1 : u[i] = q[i + 1]
  BY TaskTail
<1> HIDE DEF u
<1>2. PICK j \in 1 .. Len(q) : q[j].kind = "dealloc" /\ q[j].n = r
  BY DEF Leaves
<1>3. j # 1
  BY <1>1, <1>2
<1>4. j - 1 \in 1 .. Len(u) /\ j - 1 \in 1 .. Len(q) - 1 /\ (j - 1) + 1 = j
  BY <1>1, <1>3
<1>5. u[j - 1] = q[j]
  BY <1>1, <1>4
<1> QED
  BY <1>2, <1>4, <1>5 DEF Leaves, u

\* A task more, and none of a dispatcher that is deleted.
LEMMA QueueAppend ==
  ASSUME NEW q \in Seq(Tasks), NEW t \in Tasks, NEW ds, NEW rs, NEW up, QueueRight(q, ds, rs, up),
         t.id \in 1 .. Len(ds),
         t.kind = "dealloc" => t.n \in 1 .. Len(rs) /\ rs[t.n].state # "held"
           /\ rs[t.n].disp = t.id,
         t.kind = "delete" => ~up /\ ~Ring!Refs(q, t.id), t.kind \in {"write", "clear"} => up
  PROVE  QueueRight(Append(q, t), ds, rs, up)
<1> DEFINE u == Append(q, t)
<1>1. /\ Len(u) = Len(q) + 1 /\ Len(q) \in Nat /\ u[Len(q) + 1] = t
      /\ \A i \in 1 .. Len(q) : u[i] = q[i] /\ q[i] \in Tasks
  BY TaskAppend
<1> HIDE DEF u
<1>2. \A i \in 1 .. Len(u) : i = Len(q) + 1 \/ (i \in 1 .. Len(q) /\ u[i] = q[i])
  BY <1>1
<1>3. t.kind \in TaskKinds /\ \A i \in 1 .. Len(q) : q[i].kind \in TaskKinds
  BY <1>1 DEF Tasks
<1> SUFFICES ASSUME NEW i \in 1 .. Len(u)
             PROVE  /\ u[i].id \in 1 .. Len(ds)
                    /\ u[i].kind = "dealloc" => /\ u[i].n \in 1 .. Len(rs)
                                                /\ rs[u[i].n].state # "held"
                                                /\ rs[u[i].n].disp = u[i].id
                    /\ u[i].kind = "delete" =>
                         ~up /\ \A j \in 1 .. Len(u) : j # i /\ u[j].id = u[i].id
                           => u[j].kind = "dealloc"
  BY DEF QueueRight, u
<1>4. CASE i = Len(q) + 1
  <2>1. u[i] = t
    BY <1>1, <1>4
  <2>2. \A j \in 1 .. Len(q) : t.kind = "delete" /\ q[j].id = t.id => q[j].kind = "dealloc"
    BY DEF Ring!Refs
  <2>3. \A j \in 1 .. Len(u) : t.kind = "delete" /\ j # i /\ u[j].id = t.id => u[j].kind = "dealloc"
    BY <1>2, <1>4, <2>2
  <2> QED
    BY <2>1, <2>3
<1>5. CASE i # Len(q) + 1
  <2>1. i \in 1 .. Len(q) /\ u[i] = q[i]
    BY <1>2, <1>5
  <2>2. /\ q[i].id \in 1 .. Len(ds)
        /\ q[i].kind = "dealloc" => /\ q[i].n \in 1 .. Len(rs) /\ rs[q[i].n].state # "held"
                                    /\ rs[q[i].n].disp = q[i].id
        /\ q[i].kind = "delete" =>
             ~up /\ \A j \in 1 .. Len(q) : j # i /\ q[j].id = q[i].id => q[j].kind = "dealloc"
    BY <2>1 DEF QueueRight
  <2>3. q[i].kind = "delete" =>
          \A j \in 1 .. Len(u) : j # i /\ u[j].id = q[i].id => u[j].kind = "dealloc"
    <3> SUFFICES ASSUME q[i].kind = "delete", NEW j \in 1 .. Len(u), j # i, u[j].id = q[i].id
                 PROVE  u[j].kind = "dealloc"
      OBVIOUS
    <3>1. CASE j = Len(q) + 1
      <4>1. u[j] = t /\ ~up
        BY <1>1, <2>2, <3>1
      <4>2. t.kind # "delete"
        BY <2>1, <4>1 DEF Ring!Refs
      <4> QED
        BY <1>3, <4>1, <4>2 DEF TaskKinds
    <3>2. CASE j # Len(q) + 1
      BY <1>2, <2>2, <3>2
    <3> QED
      BY <3>1, <3>2
  <2> QED
    BY <2>1, <2>2, <2>3
<1> QED
  BY <1>4, <1>5

\* The tasks after the first one speak of the same.
LEMMA QueueTail ==
  ASSUME NEW q \in Seq(Tasks), q # <<>>, NEW ds, NEW rs, NEW up, QueueRight(q, ds, rs, up)
  PROVE  QueueRight(Tail(q), ds, rs, up)
<1> DEFINE u == Tail(q)
<1>1. /\ Len(u) = Len(q) - 1 /\ Len(q) \in Nat \ {0}
      /\ \A i \in 1 .. Len(q) - 1 : u[i] = q[i + 1]
  BY TaskTail
<1> HIDE DEF u
<1>2. \A i \in 1 .. Len(u) : u[i] = q[i + 1] /\ i + 1 \in 1 .. Len(q)
  BY <1>1
<1>3. \A i, j \in 1 .. Len(u) : j # i => j + 1 # i + 1
  BY <1>1
<1> QED
  BY <1>2, <1>3 DEF QueueRight, u

\* A task, a reader or a dispatcher more does not matter to the others.
LEMMA QueueSame ==
  ASSUME NEW q \in Seq(Tasks), NEW ds, NEW rs, NEW up, QueueRight(q, ds, rs, up), NEW es, NEW us,
         NEW on,
         \A i \in 1 .. Len(ds) : i \in 1 .. Len(es), on => up,
         \A r \in 1 .. Len(rs) : /\ r \in 1 .. Len(us) /\ us[r].disp = rs[r].disp
                                 /\ rs[r].state # "held" => us[r].state # "held"
  PROVE  QueueRight(q, es, us, on)
BY DEF QueueRight

-----------------------------------------------------------------------------
\* What the parts of the ring consist of.
LEMMA RingParts ==
  ASSUME RingInv
  PROVE  /\ Len(ring_key) \in Nat /\ Len(ring_disp) \in Nat /\ Len(ring_reader) \in Nat
         /\ ring_alive \in BOOLEAN
         /\ \A d \in 1 .. Len(ring_disp) : /\ ring_disp[d] \in Dispatchers
                                           /\ ring_disp[d].st \in Storage
                                           /\ ring_disp[d].readers \in SUBSET Nat
         /\ \A r \in 1 .. Len(ring_reader) :
              /\ ring_reader[r] \in Readers /\ ring_reader[r].poller \in Pollers
              /\ ring_reader[r].disp \in 1 .. Len(ring_disp)
              /\ ring_reader[r].state \in {"held", "released", "deleted"}
              /\ ring_reader[r].reads \in BOOLEAN
              /\ ring_reader[r].got \in Seq(Nat) /\ ring_reader[r].detached \in Nat
         /\ \A p \in Pollers : ring_tasks[p] \in Seq(Tasks) /\ ring_map[p] \in 0 .. Len(ring_disp)
<1>1. /\ ring_key \in Seq(BOOLEAN) /\ ring_disp \in Seq(Dispatchers)
      /\ ring_tasks \in [Pollers -> Seq(Tasks)]
      /\ ring_reader \in Seq(Readers) /\ ring_alive \in BOOLEAN
  BY DEF RingInv, RingTypes
<1>2. Len(ring_key) \in Nat /\ Len(ring_disp) \in Nat /\ Len(ring_reader) \in Nat
  BY <1>1, LenProperties
<1>3. \A d \in 1 .. Len(ring_disp) : ring_disp[d] \in Dispatchers
  BY <1>1, ElementOfSeq
<1>4. \A r \in 1 .. Len(ring_reader) : ring_reader[r] \in Readers
  BY <1>1, ElementOfSeq
<1>5. \A r \in 1 .. Len(ring_reader) : ring_reader[r].disp \in 1 .. Len(ring_disp)
  BY DEF RingInv, ReaderRight
<1>6. \A p \in Pollers : ring_map[p] \in 0 .. Len(ring_disp)
  BY DEF RingInv
<1> QED
  BY <1>1, <1>2, <1>3, <1>4, <1>5, <1>6 DEF Dispatchers, Readers

\* Tasks for all dispatchers.
LEMMA ToAllTasks ==
  ASSUME RingInv, ring_alive, NEW kind \in {"write", "clear"}, NEW n \in Nat
  PROVE  /\ Ring!ToAll(kind, n) \in [Pollers -> Seq(Tasks)]
         /\ \A p \in Pollers :
              /\ QueueRight(Ring!ToAll(kind, n)[p], ring_disp, ring_reader, ring_alive)
              /\ \A r : Leaves(ring_tasks[p], r) => Leaves(Ring!ToAll(kind, n)[p], r)
              /\ \A d \in 1 .. Len(ring_disp) : ring_map[p] # d
                   /\ (\A i \in 1 .. Len(ring_tasks[p]) : ring_tasks[p][i].id # d)
                   => \A i \in 1 .. Len(Ring!ToAll(kind, n)[p]) : Ring!ToAll(kind, n)[p][i].id # d
<1>1. \A p \in Pollers : ring_tasks[p] \in Seq(Tasks) /\ ring_map[p] \in 0 .. Len(ring_disp)
        /\ Len(ring_disp) \in Nat
  BY RingParts
<1>2. \A p \in Pollers : QueueRight(ring_tasks[p], ring_disp, ring_reader, ring_alive)
  BY DEF RingInv
<1>3. \A p \in Pollers : Ring!ToAll(kind, n)[p] =
        IF ring_map[p] = 0 THEN ring_tasks[p]
        ELSE Append(ring_tasks[p], Ring!Task(kind, ring_map[p], n))
  BY DEF Ring!ToAll
<1>4. ASSUME NEW p \in Pollers
      PROVE  /\ Ring!ToAll(kind, n)[p] \in Seq(Tasks)
             /\ QueueRight(Ring!ToAll(kind, n)[p], ring_disp, ring_reader, ring_alive)
             /\ \A r : Leaves(ring_tasks[p], r) => Leaves(Ring!ToAll(kind, n)[p], r)
             /\ \A d \in 1 .. Len(ring_disp) : ring_map[p] # d
                  /\ (\A i \in 1 .. Len(ring_tasks[p]) : ring_tasks[p][i].id # d)
                  => \A i \in 1 .. Len(Ring!ToAll(kind, n)[p]) : Ring!ToAll(kind, n)[p][i].id # d
  <2>1. CASE ring_map[p] = 0
    BY <1>1, <1>2, <1>3, <2>1
  <2>2. CASE ring_map[p] # 0
    <3> PICK q : q = ring_tasks[p]
      OBVIOUS
    <3> PICK t : t = Ring!Task(kind, ring_map[p], n)
      OBVIOUS
    <3>1. Ring!ToAll(kind, n)[p] = Append(q, t) /\ q \in Seq(Tasks)
      BY <1>1, <1>3, <2>2
    <3>2. t \in Tasks /\ t.kind = kind /\ t.id = ring_map[p] /\ t.id \in 1 .. Len(ring_disp)
      BY <1>1, <2>2 DEF Ring!Task, Tasks, TaskKinds
    <3>3. QueueRight(q, ring_disp, ring_reader, ring_alive)
      BY <1>2
    <3>4. QueueRight(Append(q, t), ring_disp, ring_reader, ring_alive)
      BY <3>1, <3>2, <3>3, QueueAppend
    <3>5. \A r : Leaves(q, r) => Leaves(Append(q, t), r)
      BY <3>1, <3>2, LeavesAppend
    <3>6. /\ Append(q, t) \in Seq(Tasks) /\ Len(Append(q, t)) = Len(q) + 1 /\ Len(q) \in Nat
          /\ \A i \in 1 .. Len(q) : Append(q, t)[i] = q[i]
          /\ Append(q, t)[Len(q) + 1] = t
      BY <3>1, <3>2, TaskAppend
    <3>7. \A i \in 1 .. Len(Append(q, t)) :
            Append(q, t)[i] = t \/ (i \in 1 .. Len(q) /\ Append(q, t)[i] = q[i])
      BY <3>6
    <3> QED
      BY <3>1, <3>2, <3>4, <3>5, <3>6, <3>7
  <2> QED
    BY <2>1, <2>2
<1>5. Ring!ToAll(kind, n) \in [Pollers -> Seq(Tasks)]
  BY <1>4 DEF Ring!ToAll
<1> QED
  BY <1>4, <1>5

\* Writing an item keeps the invariant.
LEMMA RingWrite ==
  ASSUME RingInv, NEW k \in BOOLEAN, Ring!Write(k)
  PROVE  RingInv'
<1> DEFINE n == Len(ring_key) + 1
<1>1. /\ ring_alive /\ ring_key' = Append(ring_key, k) /\ ring_tasks' = Ring!ToAll("write", n)
      /\ ring_main' = Ring!Stored(ring_main, n, k)
      /\ ring_disp' = ring_disp /\ ring_map' = ring_map /\ ring_total' = ring_total
      /\ ring_reader' = ring_reader /\ ring_alive' = ring_alive
  BY DEF Ring!Write
<1>2. /\ ring_key' \in Seq(BOOLEAN) /\ Len(ring_key') = n /\ Len(ring_key) \in Nat /\ n \in Nat
      /\ ring_key'[n] = k
      /\ \A i \in 1 .. Len(ring_key) : ring_key'[i] = ring_key[i]
  BY <1>1, AppendProperties, LenProperties DEF RingInv, RingTypes
<1>3. RingTypes /\ \A p \in Pollers : ring_tasks[p] \in Seq(Tasks) /\ ring_map[p] \in Nat
  BY RingParts DEF RingInv
<1>4. /\ Ring!ToAll("write", n) \in [Pollers -> Seq(Tasks)]
      /\ \A p \in Pollers :
           /\ QueueRight(Ring!ToAll("write", n)[p], ring_disp, ring_reader, ring_alive)
           /\ \A r : Leaves(ring_tasks[p], r) => Leaves(Ring!ToAll("write", n)[p], r)
           /\ \A d \in 1 .. Len(ring_disp) : ring_map[p] # d
                /\ (\A i \in 1 .. Len(ring_tasks[p]) : ring_tasks[p][i].id # d)
                => \A i \in 1 .. Len(Ring!ToAll("write", n)[p]) :
                  Ring!ToAll("write", n)[p][i].id # d
  BY <1>1, <1>2, ToAllTasks
<1> HIDE DEF n
<1>5. RingTypes'
  BY <1>1, <1>2, <1>3, <1>4 DEF RingTypes
<1>6. Store(ring_main, Len(ring_key), ring_key')
  BY <1>2, StoreMore DEF RingInv
<1>7. Store(ring_main', Len(ring_key'), ring_key')
  <2> PICK ks : ks = ring_key'
    OBVIOUS
  <2>1. Store(Ring!Stored(ring_main, n, ks[n]), n, ks)
    BY <1>2, <1>6, StoredRight DEF n
  <2> QED
    BY <1>1, <1>2, <2>1
<1>8. \A p \in Pollers : /\ QueueRight(ring_tasks[p], ring_disp, ring_reader, ring_alive)'
                         /\ (ring_map[p] \in 0 .. Len(ring_disp))'
                         /\ (~ring_alive => ring_map[p] = 0)'
  BY <1>1, <1>4 DEF RingInv
<1>9. \A r \in 1 .. Len(ring_reader') : ReaderRight(r)'
  BY <1>1 DEF RingInv, ReaderRight
<1>10. (ring_alive => ring_total = Cardinality(AllReaders))'
  BY <1>1 DEF RingInv, AllReaders
<1>11. ASSUME NEW d \in 1 .. Len(ring_disp) PROVE DispatcherRight(d)'
  <2>1. PICK p \in Pollers, m \in Nat, e \in Nat : Home(d, p) /\ Members(d, p) /\ Told(d, p, m, e)
    BY DEF RingInv, DispatcherRight
  <2>2. Home(d, p)'
    BY <1>1, <1>4, <2>1 DEF Home
  <2>3. Members(d, p)'
    BY <1>1, <1>4, <2>1 DEF Members
  <2>4. d \in Nat /\ d # 0 /\ m <= e /\ e <= Len(ring_key) /\ Span(ring_tasks[p], d, m, e)
        /\ Store(ring_disp[d].st, m, ring_key) /\ (ring_map[p] = d => e = Len(ring_key))
    BY <1>1, <2>1, RingParts DEF Told
  <2>5. Store(ring_disp[d].st, m, ring_key)'
    <3> PICK ks : ks = ring_key'
      OBVIOUS
    <3>1. Store(ring_disp[d].st, m, ks)
      <4>1. \A i \in 1 .. m : i \in 1 .. Len(ring_key)
        BY <1>2, <2>4
      <4> QED
        BY <1>2, <2>4, <4>1, StoreMore
    <3> QED
      BY <1>1, <3>1
  <2>6. \A r \in 1 .. Len(ring_reader') :
          ring_reader'[r].disp = d /\ ring_reader'[r].state = "held" /\ ring_reader'[r].got # <<>>
            => ring_reader'[r].got[Len(ring_reader'[r].got)] = m
    BY <1>1, <2>1 DEF Told
  <2>7. ring_tasks'[p] = IF ring_map[p] = 0
                         THEN ring_tasks[p]
                         ELSE Append(ring_tasks[p], Ring!Task("write", ring_map[p], n))
    BY <1>1 DEF Ring!ToAll
  <2>8. CASE ring_map[p] = d
    <3> PICK q : q = ring_tasks[p]
      OBVIOUS
    <3> PICK t : t = Ring!Task("write", ring_map[p], n)
      OBVIOUS
    <3>1. t \in Tasks /\ IsWrite(t, d) /\ t.n = e + 1
      BY <1>2, <2>4, <2>8 DEF Ring!Task, Tasks, TaskKinds, IsWrite, n
    <3>2. Span(Append(q, t), d, m, e + 1)
      BY <1>3, <2>4, <3>1, SpanWrite
    <3>3. Span(ring_tasks'[p], d, m, e + 1)
      BY <2>4, <2>7, <2>8, <3>2
    <3>4. Told(d, p, m, e + 1)'
      BY <1>1, <1>2, <2>4, <2>5, <2>6, <2>8, <3>3 DEF Told, n
    <3> QED
      BY <1>2, <2>2, <2>3, <3>4 DEF DispatcherRight
  <2>9. CASE ring_map[p] # d
    <3>1. Span(ring_tasks'[p], d, m, e)
      <4>1. CASE ring_map[p] = 0
        BY <2>4, <2>7, <4>1
      <4>2. CASE ring_map[p] # 0
        <5> PICK q : q = ring_tasks[p]
          OBVIOUS
        <5> PICK t : t = Ring!Task("write", ring_map[p], n)
          OBVIOUS
        <5>1. t \in Tasks /\ ~IsWrite(t, d)
          BY <1>2, <1>3, <2>9 DEF Ring!Task, Tasks, TaskKinds, IsWrite
        <5>2. Span(Append(q, t), d, m, e)
          BY <1>3, <2>4, <5>1, SpanOther
        <5> QED
          BY <2>7, <4>2, <5>2
      <4> QED
        BY <4>1, <4>2
    <3>2. Told(d, p, m, e)'
      BY <1>1, <1>2, <2>4, <2>5, <2>6, <2>9, <3>1 DEF Told, n
    <3> QED
      BY <2>2, <2>3, <3>2 DEF DispatcherRight
  <2> QED
    BY <2>8, <2>9
<1> QED
  BY <1>1, <1>5, <1>7, <1>8, <1>9, <1>10, <1>11 DEF RingInv

\* clearCache of the ring keeps the invariant.
LEMMA RingClear ==
  ASSUME RingInv, Ring!Clear
  PROVE  RingInv'
<1>1. /\ ring_alive /\ ring_key' = ring_key /\ ring_tasks' = Ring!ToAll("clear", 0)
      /\ ring_main' = Ring!ClearCache(ring_main)
      /\ ring_disp' = ring_disp /\ ring_map' = ring_map /\ ring_total' = ring_total
      /\ ring_reader' = ring_reader /\ ring_alive' = ring_alive
  BY DEF Ring!Clear
<1>2. RingTypes /\ Len(ring_key) \in Nat /\ \A p \in Pollers : ring_tasks[p] \in Seq(Tasks)
        /\ ring_map[p] \in Nat
  BY RingParts DEF RingInv
<1>3. /\ Ring!ToAll("clear", 0) \in [Pollers -> Seq(Tasks)]
      /\ \A p \in Pollers :
           /\ QueueRight(Ring!ToAll("clear", 0)[p], ring_disp, ring_reader, ring_alive)
           /\ \A r : Leaves(ring_tasks[p], r) => Leaves(Ring!ToAll("clear", 0)[p], r)
           /\ \A d \in 1 .. Len(ring_disp) : ring_map[p] # d
                /\ (\A i \in 1 .. Len(ring_tasks[p]) : ring_tasks[p][i].id # d)
                => \A i \in 1 .. Len(Ring!ToAll("clear", 0)[p]) :
                  Ring!ToAll("clear", 0)[p][i].id # d
  BY <1>1, ToAllTasks
<1>4. RingTypes'
  BY <1>1, <1>2, <1>3 DEF RingTypes
<1>5. Store(ring_main', Len(ring_key'), ring_key')
  BY <1>1, <1>2, ClearStore DEF RingInv, Store, Kept
<1>6. \A p \in Pollers : /\ QueueRight(ring_tasks[p], ring_disp, ring_reader, ring_alive)'
                         /\ (ring_map[p] \in 0 .. Len(ring_disp))'
                         /\ (~ring_alive => ring_map[p] = 0)'
  BY <1>1, <1>3 DEF RingInv
<1>7. \A r \in 1 .. Len(ring_reader') : ReaderRight(r)'
  BY <1>1 DEF RingInv, ReaderRight
<1>8. (ring_alive => ring_total = Cardinality(AllReaders))'
  BY <1>1 DEF RingInv, AllReaders
<1>9. ASSUME NEW d \in 1 .. Len(ring_disp) PROVE DispatcherRight(d)'
  <2>1. PICK p \in Pollers, m \in Nat, e \in Nat : Home(d, p) /\ Members(d, p) /\ Told(d, p, m, e)
    BY DEF RingInv, DispatcherRight
  <2>2. Home(d, p)'
    BY <1>1, <1>3, <2>1 DEF Home
  <2>3. Members(d, p)'
    BY <1>1, <1>3, <2>1 DEF Members
  <2>4. d \in Nat /\ Span(ring_tasks[p], d, m, e)
    BY <2>1, RingParts DEF Told
  <2>5. Span(ring_tasks'[p], d, m, e)
    <3> PICK q : q = ring_tasks[p]
      OBVIOUS
    <3> PICK t : t = Ring!Task("clear", ring_map[p], 0)
      OBVIOUS
    <3>1. t \in Tasks /\ ~IsWrite(t, d)
      BY <1>2 DEF Ring!Task, Tasks, TaskKinds, IsWrite
    <3>2. Span(Append(q, t), d, m, e)
      BY <1>2, <2>4, <3>1, SpanOther
    <3>3. ring_tasks'[p] = q \/ ring_tasks'[p] = Append(q, t)
      BY <1>1 DEF Ring!ToAll
    <3> QED
      BY <2>4, <3>2, <3>3
  <2>6. Told(d, p, m, e)'
    BY <1>1, <2>1, <2>5 DEF Told
  <2> QED
    BY <2>2, <2>3, <2>6 DEF DispatcherRight
<1> QED
  BY <1>1, <1>4, <1>5, <1>6, <1>7, <1>8, <1>9 DEF RingInv

\* The readers are finitely many.
LEMMA AllFinite ==
  ASSUME RingInv
  PROVE  IsFiniteSet(AllReaders) /\ AllReaders \subseteq 1 .. Len(ring_reader)
           /\ Cardinality(AllReaders) \in Nat
<1>1. AllReaders \subseteq 1 .. Len(ring_reader)
  <2>1. \A d \in 1 .. Len(ring_disp) : \A r \in ring_disp[d].readers : r \in 1 .. Len(ring_reader)
    BY DEF RingInv, DispatcherRight, Members
  <2> QED
    BY <2>1 DEF AllReaders
<1>2. IsFiniteSet(1 .. Len(ring_reader))
  <2> PICK n : n = Len(ring_reader)
    OBVIOUS
  <2>1. 1 \in Int /\ n \in Int
    BY RingParts
  <2>2. IsFiniteSet(1 .. n)
    BY <2>1, FS_Interval
  <2> QED
    BY <2>2
<1>3. IsFiniteSet(AllReaders)
  BY <1>1, <1>2, FS_Subset
<1> QED
  BY <1>1, <1>3, FS_CardinalityType

\* Attaching a reader keeps the invariant.
LEMMA RingAttach ==
  ASSUME RingInv, NEW p \in Pollers, NEW c \in UseCache, Ring!Attach(p, c)
  PROVE  RingInv'
<1> PICK r : r = Len(ring_reader) + 1
  OBVIOUS
<1> DEFINE x == [poller |-> p,
                 disp |-> IF ring_map[p] = 0 THEN Len(ring_disp) + 1 ELSE ring_map[p],
                 cache |-> c,
                 state |-> "held", reads |-> FALSE, got |-> <<>>, detached |-> 0]
<1>0. /\ Len(ring_key) \in Nat /\ Len(ring_disp) \in Nat /\ Len(ring_reader) \in Nat
      /\ \A d \in 1 .. Len(ring_disp) : /\ ring_disp[d] \in Dispatchers
                                        /\ ring_disp[d].st \in Storage
                                        /\ ring_disp[d].readers \in SUBSET Nat
      /\ \A s \in 1 .. Len(ring_reader) : ring_reader[s].disp \in 1 .. Len(ring_disp)
      /\ \A q \in Pollers : ring_tasks[q] \in Seq(Tasks) /\ ring_map[q] \in 0 .. Len(ring_disp)
      /\ RingTypes /\ ring_disp \in Seq(Dispatchers) /\ ring_reader \in Seq(Readers)
      /\ ring_map \in [Pollers -> Nat]
  BY RingParts DEF RingInv, RingTypes
<1>1. /\ ring_alive /\ ring_alive' = ring_alive /\ ring_key' = ring_key
      /\ ring_main' = ring_main /\ ring_tasks' = ring_tasks /\ ring_total' = ring_total + 1
      /\ ring_reader' = Append(ring_reader, x)
      /\ ring_map' = [ring_map EXCEPT ![p] = IF ring_map[p] = 0
                                             THEN Len(ring_disp) + 1
                                             ELSE ring_map[p]]
      /\ ring_disp' = IF ring_map[p] = 0 THEN Append(ring_disp, [st |-> ring_main, readers |-> {r}])
                      ELSE [ring_disp EXCEPT ![ring_map[p]].readers = @ \cup {r}]
  BY DEF Ring!Attach
<1>2. /\ x \in Readers /\ x.poller = p /\ x.disp = IF ring_map[p] = 0
                                                   THEN Len(ring_disp) + 1
                                                   ELSE ring_map[p]
      /\ x.state = "held" /\ x.got = <<>> /\ x.detached = 0
  <2>1. <<>> \in Seq(Nat) /\ (IF ring_map[p] = 0 THEN Len(ring_disp) + 1 ELSE ring_map[p]) \in Nat
    BY <1>0, EmptySeq
  <2> QED
    BY <2>1 DEF Readers
<1> HIDE DEF x
<1>3. /\ ring_reader' \in Seq(Readers) /\ Len(ring_reader') = r /\ ring_reader'[r] = x
      /\ r \in 1 .. r /\ r \notin 1 .. Len(ring_reader)
      /\ \A s \in 1 .. Len(ring_reader) : ring_reader'[s] = ring_reader[s] /\ s \in 1 .. r /\ s # r
      /\ \A s \in 1 .. r : s = r \/ s \in 1 .. Len(ring_reader)
  BY <1>0, <1>1, <1>2, AppendProperties
<1>4. r \in Nat /\ r \notin AllReaders
  BY <1>0, <1>3, AllFinite
<1>5. /\ ring_disp' \in Seq(Dispatchers) /\ Len(ring_disp') \in Nat
      /\ x.disp \in 1 .. Len(ring_disp')
      /\ \A d \in 1 .. Len(ring_disp) : d \in 1 .. Len(ring_disp')
           /\ (d # x.disp => ring_disp'[d] = ring_disp[d])
      /\ \A d \in 1 .. Len(ring_disp') : d = x.disp \/ d \in 1 .. Len(ring_disp)
      /\ ring_disp'[x.disp].readers = IF ring_map[p] = 0
                                      THEN {r}
                                      ELSE ring_disp[x.disp].readers \cup {r}
      /\ ring_disp'[x.disp].st = IF ring_map[p] = 0 THEN ring_main ELSE ring_disp[x.disp].st
      /\ (ring_map[p] = 0 => x.disp = Len(ring_disp) + 1)
      /\ (ring_map[p] # 0 => x.disp = ring_map[p] /\ ring_map[p] \in 1 .. Len(ring_disp))
  <2>1. CASE ring_map[p] = 0
    <3> PICK y : y = [st |-> ring_main, readers |-> {r}]
      OBVIOUS
    <3>1. y \in Dispatchers /\ y.st = ring_main /\ y.readers = {r}
      BY <1>4 DEF Dispatchers, RingInv, Store, Kept
    <3>2. ring_disp' = Append(ring_disp, y)
      BY <1>1, <2>1
    <3>3. /\ ring_disp' \in Seq(Dispatchers) /\ Len(ring_disp') = Len(ring_disp) + 1
          /\ ring_disp'[Len(ring_disp) + 1] = y
          /\ \A d \in 1 .. Len(ring_disp) : ring_disp'[d] = ring_disp[d]
      BY <1>0, <3>1, <3>2, AppendProperties
    <3> QED
      BY <1>0, <1>2, <2>1, <3>1, <3>3
  <2>2. CASE ring_map[p] # 0
    <3> PICK d : d = ring_map[p]
      OBVIOUS
    <3>1. d \in 1 .. Len(ring_disp) /\ x.disp = d
      BY <1>0, <1>2, <2>2
    <3> PICK R : R = ring_disp[d].readers \cup {r}
      OBVIOUS
    <3>2. R \in SUBSET Nat
      BY <1>0, <1>4, <3>1
    <3>3. ring_disp' = [ring_disp EXCEPT ![d].readers = R]
      BY <1>1, <2>2
    <3>4. /\ ring_disp' \in Seq(Dispatchers) /\ Len(ring_disp') = Len(ring_disp)
          /\ ring_disp'[d].readers = R
          /\ ring_disp'[d].st = ring_disp[d].st /\ \A i \in 1 .. Len(ring_disp) : i # d
               => ring_disp'[i] = ring_disp[i]
      <4> DEFINE y == [ring_disp[d] EXCEPT !.readers = R]
      <4>1. ring_disp' = [ring_disp EXCEPT ![d] = y]
        BY <3>3
      <4>2. y \in Dispatchers /\ y.readers = R /\ y.st = ring_disp[d].st
        BY <1>0, <3>1, <3>2 DEF Dispatchers
      <4> HIDE DEF y
      <4>3. /\ ring_disp' \in Seq(Dispatchers) /\ Len(ring_disp') = Len(ring_disp)
            /\ ring_disp'[d] = y
            /\ \A i \in 1 .. Len(ring_disp) : i # d => ring_disp'[i] = ring_disp[i]
        BY <1>0, <3>1, <4>1, <4>2, ExceptSeq
      <4> QED
        BY <4>2, <4>3
    <3> QED
      BY <1>0, <2>2, <3>1, <3>4
  <2> QED
    BY <2>1, <2>2
<1>6. ring_map' \in [Pollers -> Nat] /\ ring_map'[p] = x.disp /\ \A q \in Pollers : q # p
        => ring_map'[q] = ring_map[q]
  BY <1>0, <1>1, <1>2
<1>7. RingTypes'
  <2>1. (ring_total + 1) \in Int
    BY <1>0 DEF RingTypes
  <2> QED
    BY <1>0, <1>1, <1>3, <1>5, <1>6, <2>1 DEF RingTypes
<1>8. Store(ring_main, Len(ring_key), ring_key)'
  BY <1>1 DEF RingInv
<1>9. \A q \in Pollers : QueueRight(ring_tasks[q], ring_disp, ring_reader, ring_alive)'
        /\ (ring_map[q] \in 0 .. Len(ring_disp))'
                         /\ (~ring_alive => ring_map[q] = 0)'
  <2> SUFFICES ASSUME NEW q \in Pollers
               PROVE  QueueRight(ring_tasks[q], ring_disp, ring_reader, ring_alive)'
                        /\ (ring_map[q] \in 0 .. Len(ring_disp))'
    BY <1>1
  <2>1. QueueRight(ring_tasks[q], ring_disp, ring_reader, ring_alive)
    BY DEF RingInv
  <2>2. QueueRight(ring_tasks[q], ring_disp', ring_reader', ring_alive)
    <3> PICK es : es = ring_disp'
      OBVIOUS
    <3> PICK us : us = ring_reader'
      OBVIOUS
    <3>1. \A i \in 1 .. Len(ring_disp) : i \in 1 .. Len(es)
      BY <1>5
    <3>2. \A s \in 1 .. Len(ring_reader) : s \in 1 .. Len(us) /\ us[s] = ring_reader[s]
      BY <1>3
    <3>3. QueueRight(ring_tasks[q], es, us, ring_alive)
      BY <1>0, <2>1, <3>1, <3>2, QueueSame
    <3> QED
      BY <3>3
  <2>3. ring_map'[q] \in 0 .. Len(ring_disp')
    <3>1. CASE q = p
      BY <1>5, <1>6, <3>1
    <3>2. CASE q # p
      <4>1. Len(ring_disp) <= Len(ring_disp')
        BY <1>0, <1>5
      <4> QED
        BY <1>0, <1>5, <1>6, <3>2, <4>1
    <3> QED
      BY <3>1, <3>2
  <2> QED
    BY <1>1, <2>2, <2>3
<1>10. \A s \in 1 .. Len(ring_reader') : ReaderRight(s)'
  <2>1. \A s \in 1 .. Len(ring_reader) : ReaderRight(s)'
    <3> SUFFICES ASSUME NEW s \in 1 .. Len(ring_reader) PROVE ReaderRight(s)'
      OBVIOUS
    <3>1. ReaderRight(s) /\ ring_reader'[s] = ring_reader[s]
      BY <1>3 DEF RingInv
    <3>2. ring_reader[s].disp \in 1 .. Len(ring_disp')
            /\ ring_disp[ring_reader[s].disp].readers
                 \subseteq ring_disp'[ring_reader[s].disp].readers
      <4> PICK d : d = ring_reader[s].disp
        OBVIOUS
      <4>1. d \in 1 .. Len(ring_disp)
        BY <1>0
      <4>2. CASE d = x.disp
        <5>1. ring_map[p] # 0
          BY <1>0, <1>5, <4>1, <4>2
        <5> QED
          BY <1>5, <4>1, <4>2, <5>1
      <4>3. CASE d # x.disp
        BY <1>5, <4>1, <4>3
      <4> QED
        BY <4>2, <4>3
    <3> QED
      BY <1>1, <3>1, <3>2 DEF ReaderRight
  <2>2. ReaderRight(r)'
    <3>1. Consecutive(<<>>)
      BY EmptySeq DEF Consecutive
    <3>2. r \in ring_disp'[x.disp].readers
      BY <1>5
    <3> QED
      BY <1>1, <1>2, <1>3, <1>5, <3>1, <3>2 DEF ReaderRight
  <2> QED
    BY <1>3, <2>1, <2>2
<1>11. (ring_alive => ring_total = Cardinality(AllReaders))'
  <2>1. AllReaders' = AllReaders \cup {r}
    <3>1. AllReaders' = UNION {ring_disp'[d].readers : d \in 1 .. Len(ring_disp')}
      BY DEF AllReaders
    <3>2. ASSUME NEW s \in AllReaders' PROVE s \in AllReaders \cup {r}
      <4>1. PICK d \in 1 .. Len(ring_disp') : s \in ring_disp'[d].readers
        BY <3>1
      <4>2. CASE d = x.disp
        <5>1. s = r \/ (d \in 1 .. Len(ring_disp) /\ s \in ring_disp[d].readers)
          BY <1>5, <4>1, <4>2
        <5> QED
          BY <5>1 DEF AllReaders
      <4>3. CASE d # x.disp
        BY <1>5, <4>1, <4>3 DEF AllReaders
      <4> QED
        BY <4>2, <4>3
    <3>3. ASSUME NEW s \in AllReaders PROVE s \in AllReaders'
      <4>1. PICK d \in 1 .. Len(ring_disp) : s \in ring_disp[d].readers
        BY DEF AllReaders
      <4>2. d \in 1 .. Len(ring_disp') /\ s \in ring_disp'[d].readers
        BY <1>0, <1>5, <4>1
      <4> QED
        BY <3>1, <4>2
    <3>4. r \in AllReaders'
      <4>1. r \in ring_disp'[x.disp].readers
        BY <1>5
      <4> QED
        BY <1>5, <3>1, <4>1
    <3> QED
      BY <3>2, <3>3, <3>4
  <2>2. Cardinality(AllReaders \cup {r}) = Cardinality(AllReaders) + 1
    BY <1>4, AllFinite, FS_AddElement
  <2> QED
    BY <1>1, <2>1, <2>2 DEF RingInv
<1>12. ASSUME NEW d \in 1 .. Len(ring_disp') PROVE DispatcherRight(d)'
  <2>1. CASE d = Len(ring_disp) + 1 /\ ring_map[p] = 0
    <3>1. x.disp = d /\ d \notin 1 .. Len(ring_disp)
      BY <1>0, <1>5, <2>1
    <3>2. Home(d, p)'
      <4>1. \A s \in 1 .. Len(ring_reader') : ring_reader'[s].disp = d => ring_reader'[s].poller = p
        <5>1. \A s \in 1 .. Len(ring_reader) : ring_reader'[s].disp # d
          BY <1>0, <1>3, <3>1
        <5>2. ring_reader'[r].poller = p
          BY <1>2, <1>3
        <5> QED
          BY <1>3, <5>1, <5>2
      <4>2. \A q \in Pollers \ {p} : ring_map'[q] # d
        <5>1. \A q \in Pollers : ring_map[q] # d
          BY <1>0, <2>1
        <5> QED
          BY <1>6, <5>1
      <4>3. \A q \in Pollers : \A i \in 1 .. Len(ring_tasks[q]) : ring_tasks[q][i].id # d
        BY <3>1 DEF RingInv, QueueRight
      <4> QED
        BY <1>1, <4>1, <4>2, <4>3 DEF Home
    <3>3. ring_disp'[d].readers = {r} /\ ring_disp'[d].st = ring_main
      BY <1>5, <2>1, <3>1
    <3>4. Members(d, p)'
      BY <1>2, <1>3, <1>6, <3>1, <3>3 DEF Members
    <3>5. Told(d, p, Len(ring_key), Len(ring_key))'
      <4>1. Span(ring_tasks[p], d, Len(ring_key), Len(ring_key))
        <5>1. \A i \in 1 .. Len(ring_tasks[p]) : ring_tasks[p][i].id # d
          BY <3>1 DEF RingInv, QueueRight
        <5>2. Len(ring_key) + 1 .. Len(ring_key) = {}
          BY <1>0
        <5> QED
          BY <5>1, <5>2 DEF Span, IsWrite
      <4>2. \A s \in 1 .. Len(ring_reader') : ring_reader'[s].disp = d => s = r
        BY <1>0, <1>3, <3>1
      <4>3. ring_reader'[r].got = <<>>
        BY <1>2, <1>3
      <4> QED
        BY <1>0, <1>1, <3>3, <4>1, <4>2, <4>3 DEF Told, RingInv
    <3> QED
      BY <1>0, <1>1, <3>2, <3>4, <3>5 DEF DispatcherRight
  <2>2. CASE ~(d = Len(ring_disp) + 1 /\ ring_map[p] = 0)
    <3>1. d \in 1 .. Len(ring_disp)
      BY <1>0, <1>5, <2>2
    <3>2. PICK o \in Pollers, m \in Nat, e \in Nat : Home(d, o) /\ Members(d, o) /\ Told(d, o, m, e)
      BY <3>1 DEF RingInv, DispatcherRight
    <3>3. d = x.disp => o = p /\ ring_map[p] = d
      BY <1>5, <2>2, <3>2 DEF Home
    <3>4. d # x.disp => ring_disp'[d] = ring_disp[d]
      BY <1>5, <3>1
    <3>5. d = x.disp => ring_disp'[d].readers = ring_disp[d].readers \cup {r}
            /\ ring_disp'[d].st = ring_disp[d].st
      BY <1>0, <1>5, <3>1
    <3>6. Home(d, o)'
      <4>1. \A s \in 1 .. Len(ring_reader') : ring_reader'[s].disp = d => ring_reader'[s].poller = o
        BY <1>2, <1>3, <3>2, <3>3 DEF Home
      <4>2. \A q \in Pollers \ {o} : ring_map'[q] # d
        BY <1>6, <3>2, <3>3 DEF Home
      <4> QED
        BY <1>1, <3>2, <4>1, <4>2 DEF Home
    <3>7. Members(d, o)'
      <4>1. CASE d = x.disp
        BY <1>1, <1>2, <1>3, <1>6, <3>2, <3>3, <3>5, <4>1 DEF Members
      <4>2. CASE d # x.disp
        <5>1. ring_map'[o] = d <=> ring_map[o] = d
          <6>1. CASE o = p
            <7>1. ring_map[p] # d
              BY <1>5, <3>1, <4>2
            <7> QED
              BY <1>6, <4>2, <6>1, <7>1
          <6>2. CASE o # p
            BY <1>6, <6>2
          <6> QED
            BY <6>1, <6>2
        <5> QED
          <6>1. \A s \in ring_disp[d].readers : s \in 1 .. Len(ring_reader)
                  /\ s \in 1 .. Len(ring_reader') /\ ring_reader'[s] = ring_reader[s]
            BY <1>3, <3>2 DEF Members
          <6> QED
            BY <1>1, <3>2, <3>4, <4>2, <5>1, <6>1 DEF Members
      <4> QED
        BY <4>1, <4>2
    <3>8. Told(d, o, m, e)'
      <4>1. \A s \in 1 .. Len(ring_reader') :
              ring_reader'[s].disp = d /\ ring_reader'[s].state = "held"
                /\ ring_reader'[s].got # <<>>
                => ring_reader'[s].got[Len(ring_reader'[s].got)] = m
        BY <1>2, <1>3, <3>2 DEF Told
      <4>2. ring_map'[o] = d => ring_map[o] = d
        BY <1>5, <1>6, <3>1, <3>3
      <4>3. ring_disp'[d].st = ring_disp[d].st
        BY <3>4, <3>5
      <4> QED
        BY <1>1, <3>2, <4>1, <4>2, <4>3 DEF Told
    <3> QED
      BY <3>6, <3>7, <3>8 DEF DispatcherRight
  <2> QED
    BY <2>1, <2>2
<1> QED
  BY <1>7, <1>8, <1>9, <1>10, <1>11, <1>12 DEF RingInv

\* The last items follow each other, up to the last one.
LEMMA RunGives ==
  ASSUME NEW F, NEW m \in Nat, Run(F, m)
  PROVE  F \in Seq(Nat) /\ Consecutive(F) /\ (F # <<>> => F[Len(F)] = m)
<1>1. F \in Seq(Nat) /\ Len(F) \in Nat /\ \A i \in 1 .. Len(F) : F[i] = m - Len(F) + i
  BY LenProperties DEF Run
<1>2. Consecutive(F)
  <2> SUFFICES ASSUME NEW i \in 1 .. Len(F) - 1 PROVE F[i + 1] = F[i] + 1
    BY DEF Consecutive
  <2>1. i \in 1 .. Len(F) /\ i + 1 \in 1 .. Len(F)
    BY <1>1
  <2> QED
    BY <1>1, <2>1
<1>3. F # <<>> => Len(F) \in 1 .. Len(F)
  BY <1>1, EmptySeq
<1> QED
  BY <1>1, <1>2, <1>3

\* A reader that takes the storage of its dispatcher keeps the invariant.
LEMMA RingSetReadCB ==
  ASSUME RingInv, NEW r \in 1 .. Len(ring_reader), Ring!SetReadCB(r)
  PROVE  RingInv'
<1> PICK d0 : d0 = ring_reader[r].disp
  OBVIOUS
<1> DEFINE g == IF ring_reader[r].cache THEN Ring!FlattenSeq(ring_disp[d0].st.cache) ELSE <<>>
           x == [ring_reader[r] EXCEPT !.reads = TRUE, !.got = g]
<1>0. /\ Len(ring_key) \in Nat /\ Len(ring_disp) \in Nat /\ Len(ring_reader) \in Nat
      /\ d0 \in 1 .. Len(ring_disp)
      /\ ring_reader[r] \in Readers /\ ring_reader \in Seq(Readers) /\ RingTypes
  BY RingParts DEF RingInv, RingTypes
<1>1. /\ ring_alive' = ring_alive /\ ring_key' = ring_key /\ ring_main' = ring_main
      /\ ring_tasks' = ring_tasks /\ ring_total' = ring_total /\ ring_map' = ring_map
      /\ ring_disp' = ring_disp /\ ring_reader' = [ring_reader EXCEPT ![r] = x]
      /\ ring_reader[r].state = "held"
  BY DEF Ring!SetReadCB
<1>2. PICK o \in Pollers, m \in Nat, e \in Nat : Home(d0, o) /\ Members(d0, o) /\ Told(d0, o, m, e)
  BY <1>0 DEF RingInv, DispatcherRight
<1>3. g \in Seq(Nat) /\ Consecutive(g) /\ (g # <<>> => g[Len(g)] = m)
  <2>1. Run(Ring!FlattenSeq(ring_disp[d0].st.cache), m)
    BY <1>2 DEF Told, Store, Kept
  <2>2. CASE ring_reader[r].cache
    BY <2>1, <2>2, RunGives
  <2>3. CASE ~ring_reader[r].cache
    <3>1. <<>> \in Seq(Nat) /\ Len(<<>>) = 0
      BY EmptySeq
    <3> QED
      BY <2>3, <3>1 DEF Consecutive
  <2> QED
    BY <2>2, <2>3
<1> HIDE DEF g
<1>4. /\ x \in Readers /\ x.poller = ring_reader[r].poller /\ x.disp = d0
      /\ x.state = ring_reader[r].state
      /\ x.detached = ring_reader[r].detached /\ x.got = g /\ x.reads = TRUE
  BY <1>0, <1>3 DEF Readers
<1> HIDE DEF x
<1>5. /\ ring_reader' \in Seq(Readers) /\ Len(ring_reader') = Len(ring_reader)
      /\ ring_reader'[r] = x
      /\ \A s \in 1 .. Len(ring_reader) : s # r => ring_reader'[s] = ring_reader[s]
  BY <1>0, <1>1, <1>4, ExceptSeq
<1>6. \A s \in 1 .. Len(ring_reader) : /\ ring_reader'[s].poller = ring_reader[s].poller
                                       /\ ring_reader'[s].disp = ring_reader[s].disp
                                       /\ ring_reader'[s].state = ring_reader[s].state
                                       /\ ring_reader'[s].detached = ring_reader[s].detached
  BY <1>4, <1>5
<1>7. RingTypes'
  BY <1>0, <1>1, <1>5 DEF RingTypes
<1>8. \A q \in Pollers : QueueRight(ring_tasks[q], ring_disp, ring_reader, ring_alive)'
        /\ (ring_map[q] \in 0 .. Len(ring_disp))'
                         /\ (~ring_alive => ring_map[q] = 0)'
  <2> SUFFICES ASSUME NEW q \in Pollers
               PROVE QueueRight(ring_tasks[q], ring_disp, ring_reader', ring_alive)
    BY <1>1 DEF RingInv
  <2> PICK us : us = ring_reader'
    OBVIOUS
  <2> PICK qq : qq = ring_tasks[q]
    OBVIOUS
  <2>1. QueueRight(qq, ring_disp, ring_reader, ring_alive) /\ qq \in Seq(Tasks)
    BY RingParts DEF RingInv
  <2>2. \A s \in 1 .. Len(ring_reader) : s \in 1 .. Len(us) /\ us[s].disp = ring_reader[s].disp
                                         /\ (ring_reader[s].state # "held" => us[s].state # "held")
    BY <1>5, <1>6
  <2>3. QueueRight(qq, ring_disp, us, ring_alive)
    BY <2>1, <2>2, QueueSame
  <2> QED
    BY <2>3
<1>9. \A s \in 1 .. Len(ring_reader') : ReaderRight(s)'
  <2> SUFFICES ASSUME NEW s \in 1 .. Len(ring_reader) PROVE ReaderRight(s)'
    BY <1>5
  <2>1. ReaderRight(s)
    BY DEF RingInv
  <2>2. Consecutive(ring_reader'[s].got) /\ (~ring_reader'[s].reads => ring_reader'[s].got = <<>>)
    <3>1. CASE s = r
      BY <1>3, <1>4, <1>5, <3>1
    <3>2. CASE s # r
      BY <1>5, <2>1, <3>2 DEF ReaderRight
    <3> QED
      BY <3>1, <3>2
  <2> QED
    BY <1>1, <1>6, <2>1, <2>2 DEF ReaderRight
<1>10. ASSUME NEW d \in 1 .. Len(ring_disp) PROVE DispatcherRight(d)'
  <2>1. PICK p \in Pollers, k \in Nat, l \in Nat : Home(d, p) /\ Members(d, p) /\ Told(d, p, k, l)
                                                   /\ (d = d0 => k = m)
    BY <1>2 DEF RingInv, DispatcherRight
  <2>2. Home(d, p)'
    BY <1>1, <1>5, <1>6, <2>1 DEF Home
  <2>3. Members(d, p)'
    BY <1>1, <1>5, <1>6, <2>1 DEF Members
  <2>4. \A s \in 1 .. Len(ring_reader') :
          ring_reader'[s].disp = d /\ ring_reader'[s].state = "held" /\ ring_reader'[s].got # <<>>
            => ring_reader'[s].got[Len(ring_reader'[s].got)] = k
    <3>1. ring_reader'[r].disp = d0 /\ ring_reader'[r].got = g
      BY <1>4, <1>5
    <3> QED
      BY <1>3, <1>5, <2>1, <3>1 DEF Told
  <2>5. Told(d, p, k, l)'
    BY <1>1, <2>1, <2>4 DEF Told
  <2> QED
    BY <2>2, <2>3, <2>5 DEF DispatcherRight
<1>11. (ring_alive => ring_total = Cardinality(AllReaders))'
  BY <1>1 DEF RingInv, AllReaders
<1>12. Store(ring_main, Len(ring_key), ring_key)'
  BY <1>1 DEF RingInv
<1> QED
  BY <1>1, <1>7, <1>8, <1>9, <1>10, <1>11, <1>12 DEF RingInv

\* A task at the end of one queue.
LEMMA RingDrop ==
  ASSUME RingInv, NEW r \in 1 .. Len(ring_reader), Ring!Drop(r)
  PROVE  RingInv'
<1> DEFINE x == [ring_reader[r] EXCEPT !.state = "released"]
<1> PICK p : p = ring_reader[r].poller
  OBVIOUS
<1> PICK t : t = Ring!Task("dealloc", ring_reader[r].disp, r)
  OBVIOUS
<1> PICK q0 : q0 = ring_tasks[p]
  OBVIOUS
<1>0. /\ Len(ring_reader) \in Nat /\ ring_reader[r] \in Readers /\ ring_reader \in Seq(Readers)
      /\ RingTypes /\ p \in Pollers
      /\ ring_reader[r].disp \in 1 .. Len(ring_disp) /\ q0 \in Seq(Tasks)
      /\ ring_tasks \in [Pollers -> Seq(Tasks)]
      /\ \A q \in Pollers : ring_tasks[q] \in Seq(Tasks)
  BY RingParts DEF RingInv, RingTypes
<1>1. /\ ring_alive' = ring_alive /\ ring_key' = ring_key /\ ring_main' = ring_main
      /\ ring_total' = ring_total /\ ring_map' = ring_map /\ ring_disp' = ring_disp
      /\ ring_reader' = [ring_reader EXCEPT ![r] = x] /\ ring_reader[r].state = "held"
      /\ ring_tasks' = [ring_tasks EXCEPT ![p] = Append(q0, t)]
  BY DEF Ring!Drop
<1>2. t \in Tasks /\ t.kind = "dealloc" /\ t.id = ring_reader[r].disp /\ t.n = r
  BY <1>0 DEF Ring!Task, Tasks, TaskKinds
<1>3. /\ x \in Readers /\ x.poller = p /\ x.disp = ring_reader[r].disp /\ x.state = "released"
      /\ x.detached = ring_reader[r].detached /\ x.got = ring_reader[r].got
      /\ x.reads = ring_reader[r].reads
  BY <1>0 DEF Readers
<1> HIDE DEF x
<1>4. /\ ring_reader' \in Seq(Readers) /\ Len(ring_reader') = Len(ring_reader)
      /\ ring_reader'[r] = x
      /\ \A s \in 1 .. Len(ring_reader) : s # r => ring_reader'[s] = ring_reader[s]
  BY <1>0, <1>1, <1>3, ExceptSeq
<1>5. \A s \in 1 .. Len(ring_reader) : /\ ring_reader'[s].poller = ring_reader[s].poller
                                       /\ ring_reader'[s].disp = ring_reader[s].disp
                                       /\ ring_reader'[s].got = ring_reader[s].got
                                       /\ ring_reader'[s].reads = ring_reader[s].reads
                                       /\ ring_reader'[s].detached = ring_reader[s].detached
                                       /\ ring_reader'[s].state =
                                            IF s = r
                                            THEN "released"
                                            ELSE ring_reader[s].state
  BY <1>3, <1>4
<1>6. /\ Append(q0, t) \in Seq(Tasks) /\ ring_tasks' \in [Pollers -> Seq(Tasks)]
      /\ ring_tasks'[p] = Append(q0, t)
      /\ \A q \in Pollers : q # p => ring_tasks'[q] = ring_tasks[q]
  BY <1>0, <1>1, <1>2, TaskAppend
<1>7. RingTypes'
  BY <1>0, <1>1, <1>4, <1>6 DEF RingTypes
<1>8. \A q \in Pollers : QueueRight(ring_tasks[q], ring_disp, ring_reader, ring_alive)'
        /\ (ring_map[q] \in 0 .. Len(ring_disp))'
                         /\ (~ring_alive => ring_map[q] = 0)'
  <2> SUFFICES ASSUME NEW q \in Pollers
               PROVE QueueRight(ring_tasks'[q], ring_disp, ring_reader', ring_alive)
    BY <1>1 DEF RingInv
  <2> PICK us : us = ring_reader'
    OBVIOUS
  <2> PICK qq : qq = ring_tasks[q]
    OBVIOUS
  <2>1. QueueRight(qq, ring_disp, ring_reader, ring_alive) /\ qq \in Seq(Tasks)
    BY <1>0 DEF RingInv
  <2>2. \A s \in 1 .. Len(ring_reader) : s \in 1 .. Len(us) /\ us[s].disp = ring_reader[s].disp
                                         /\ (ring_reader[s].state # "held" => us[s].state # "held")
    BY <1>4, <1>5
  <2>3. QueueRight(qq, ring_disp, us, ring_alive)
    BY <2>1, <2>2, QueueSame
  <2>4. t.n \in 1 .. Len(us) /\ us[t.n].state # "held" /\ us[t.n].disp = t.id
          /\ t.id \in 1 .. Len(ring_disp)
    BY <1>0, <1>2, <1>4, <1>5
  <2>5. QueueRight(Append(qq, t), ring_disp, us, ring_alive)
    BY <1>2, <2>1, <2>3, <2>4, QueueAppend
  <2> QED
    BY <1>6, <2>3, <2>5
<1>9. \A q \in Pollers : /\ \A d : Ring!Refs(ring_tasks'[q], d) <=> Ring!Refs(ring_tasks[q], d)
                         /\ \A s : Leaves(ring_tasks[q], s) => Leaves(ring_tasks'[q], s)
                         /\ \A d \in Nat : \A m, e \in Nat : Span(ring_tasks[q], d, m, e)
                              => Span(ring_tasks'[q], d, m, e)
  <2>1. \A d : Ring!Refs(Append(q0, t), d) <=> Ring!Refs(q0, d)
    BY <1>0, <1>2, RefsAppend
  <2>2. \A s : Leaves(q0, s) => Leaves(Append(q0, t), s)
    BY <1>0, <1>2, LeavesAppend
  <2>3. \A d \in Nat : \A m, e \in Nat : Span(q0, d, m, e) => Span(Append(q0, t), d, m, e)
    <3>1. \A d : ~IsWrite(t, d)
      BY <1>2 DEF IsWrite
    <3> QED
      BY <1>0, <1>2, <3>1, SpanOther
  <2> QED
    BY <1>6, <2>1, <2>2, <2>3
<1>10. Leaves(ring_tasks'[p], r)
  BY <1>0, <1>2, <1>6, LeavesAppend
<1>11. \A s \in 1 .. Len(ring_reader') : ReaderRight(s)'
  <2> SUFFICES ASSUME NEW s \in 1 .. Len(ring_reader) PROVE ReaderRight(s)'
    BY <1>4
  <2>1. ReaderRight(s) /\ ring_reader[s].poller \in Pollers
    BY RingParts DEF RingInv
  <2>2. Ring!Refs(ring_tasks'[ring_reader[s].poller], ring_reader[s].disp)
          <=> Ring!Refs(ring_tasks[ring_reader[s].poller], ring_reader[s].disp)
    BY <1>9, <2>1
  <2>3. ring_reader'[s].state = "held" => ring_reader[s].state = "held"
    BY <1>5
  <2> QED
    BY <1>1, <1>5, <2>1, <2>2, <2>3 DEF ReaderRight
<1>12. ASSUME NEW d \in 1 .. Len(ring_disp) PROVE DispatcherRight(d)'
  <2>1. PICK o \in Pollers, m \in Nat, e \in Nat : Home(d, o) /\ Members(d, o) /\ Told(d, o, m, e)
    BY DEF RingInv, DispatcherRight
  <2>2. Home(d, o)'
    <3>1. \A q \in Pollers \ {o} : \A i \in 1 .. Len(ring_tasks'[q]) : ring_tasks'[q][i].id # d
      <4> SUFFICES ASSUME NEW q \in Pollers \ {o}
                   PROVE \A i \in 1 .. Len(ring_tasks'[q]) : ring_tasks'[q][i].id # d
        OBVIOUS
      <4>1. \A i \in 1 .. Len(ring_tasks[q]) : ring_tasks[q][i].id # d
        BY <2>1 DEF Home
      <4>2. CASE q = p
        <5>1. ring_reader[r].disp # d
          BY <2>1, <4>2 DEF Home
        <5>2. /\ Len(Append(q0, t)) = Len(q0) + 1 /\ Len(q0) \in Nat
              /\ Append(q0, t)[Len(q0) + 1] = t
              /\ \A i \in 1 .. Len(q0) : Append(q0, t)[i] = q0[i]
          BY <1>0, <1>2, TaskAppend
        <5>3. \A i \in 1 .. Len(Append(q0, t)) : i = Len(q0) + 1 \/ i \in 1 .. Len(q0)
          BY <5>2
        <5> QED
          <6>1. ring_tasks'[q] = Append(q0, t) /\ t.id # d /\ \A i \in 1 .. Len(q0) : q0[i].id # d
            BY <1>2, <1>6, <4>1, <4>2, <5>1
          <6> QED
            BY <5>2, <5>3, <6>1
      <4>3. CASE q # p
        BY <1>6, <4>1, <4>3
      <4> QED
        BY <4>2, <4>3
    <3> QED
      BY <1>1, <1>4, <1>5, <2>1, <3>1 DEF Home
  <2>3. Members(d, o)'
    <3>1. ASSUME NEW s \in ring_disp[d].readers
          PROVE  /\ s \in 1 .. Len(ring_reader') /\ ring_reader'[s].disp = d
                 /\ ring_reader'[s].state # "deleted"
                 /\ ring_reader'[s].state = "released" => Leaves(ring_tasks'[o], s)
      <4>1. s \in 1 .. Len(ring_reader) /\ ring_reader[s].disp = d
              /\ ring_reader[s].state # "deleted"
            /\ (ring_reader[s].state = "released" => Leaves(ring_tasks[o], s))
        BY <2>1 DEF Members
      <4>2. CASE s = r
        <5>1. o = p
          BY <2>1, <4>1, <4>2 DEF Home
        <5> QED
          BY <1>4, <1>5, <1>10, <4>1, <4>2, <5>1
      <4>3. CASE s # r
        BY <1>4, <1>5, <1>9, <4>1, <4>3
      <4> QED
        BY <4>2, <4>3
    <3> QED
      BY <1>1, <2>1, <3>1 DEF Members
  <2>4. d \in Nat /\ Span(ring_tasks'[o], d, m, e)
    BY <1>9, <2>1, RingParts DEF Told
  <2>5. Told(d, o, m, e)'
    BY <1>1, <1>4, <1>5, <2>1, <2>4 DEF Told
  <2> QED
    BY <2>2, <2>3, <2>5 DEF DispatcherRight
<1>13. (ring_alive => ring_total = Cardinality(AllReaders))'
  BY <1>1 DEF RingInv, AllReaders
<1>14. Store(ring_main, Len(ring_key), ring_key)'
  BY <1>1 DEF RingInv
<1> QED
  BY <1>1, <1>7, <1>8, <1>11, <1>12, <1>13, <1>14 DEF RingInv

\* The end of the ring keeps the invariant.
LEMMA RingDestroy ==
  ASSUME RingInv, Ring!Destroy
  PROVE  RingInv'
<1>0. /\ RingTypes /\ \A q \in Pollers : ring_tasks[q] \in Seq(Tasks)
           /\ ring_map[q] \in 0 .. Len(ring_disp) /\ ring_map[q] \in Nat
      /\ Len(ring_disp) \in Nat
  BY RingParts DEF RingInv
<1>1. /\ ring_alive /\ ring_alive' = FALSE /\ ring_key' = ring_key /\ ring_main' = ring_main
      /\ ring_total' = ring_total /\ ring_disp' = ring_disp
      /\ ring_reader' = ring_reader /\ ring_map' = [q \in Pollers |-> 0]
      /\ ring_tasks' =
           [q \in Pollers |->
             IF ring_map[q] = 0 \/ Ring!Refs(ring_tasks[q], ring_map[q]) THEN ring_tasks[q]
             ELSE Append(ring_tasks[q], Ring!Task("delete", ring_map[q], 0))]
  BY DEF Ring!Destroy
<1>2. ASSUME NEW q \in Pollers
      PROVE  /\ ring_tasks'[q] \in Seq(Tasks)
             /\ QueueRight(ring_tasks'[q], ring_disp, ring_reader, FALSE)
             /\ \A s : Leaves(ring_tasks[q], s) => Leaves(ring_tasks'[q], s)
             /\ \A d \in Nat : \A m, e \in Nat : Span(ring_tasks[q], d, m, e)
                  => Span(ring_tasks'[q], d, m, e)
             /\ ring_map[q] # 0 => Ring!Refs(ring_tasks'[q], ring_map[q])
             /\ \A d :
                  ring_map[q] # d /\ (\A i \in 1 .. Len(ring_tasks[q]) : ring_tasks[q][i].id # d)
                  => \A i \in 1 .. Len(ring_tasks'[q]) : ring_tasks'[q][i].id # d
  <2> PICK qq : qq = ring_tasks[q]
    OBVIOUS
  <2> PICK t : t = Ring!Task("delete", ring_map[q], 0)
    OBVIOUS
  <2>1. QueueRight(qq, ring_disp, ring_reader, ring_alive) /\ qq \in Seq(Tasks)
    BY <1>0 DEF RingInv
  <2>2. QueueRight(qq, ring_disp, ring_reader, FALSE)
    BY <2>1, QueueSame
  <2>3. ring_tasks'[q] = IF ring_map[q] = 0 \/ Ring!Refs(qq, ring_map[q]) THEN qq ELSE Append(qq, t)
    BY <1>1
  <2>4. CASE ring_map[q] = 0 \/ Ring!Refs(qq, ring_map[q])
    BY <2>1, <2>2, <2>3, <2>4
  <2>5. CASE ~(ring_map[q] = 0 \/ Ring!Refs(qq, ring_map[q]))
    <3>1. t \in Tasks /\ t.kind = "delete" /\ t.id = ring_map[q] /\ t.id \in 1 .. Len(ring_disp)
      BY <1>0, <2>5 DEF Ring!Task, Tasks, TaskKinds
    <3>2. ring_tasks'[q] = Append(qq, t)
      BY <2>3, <2>5
    <3>3. QueueRight(Append(qq, t), ring_disp, ring_reader, FALSE)
      BY <2>1, <2>2, <2>5, <3>1, QueueAppend
    <3>4. \A s : Leaves(qq, s) => Leaves(Append(qq, t), s)
      BY <2>1, <3>1, LeavesAppend
    <3>5. Ring!Refs(Append(qq, t), ring_map[q])
      BY <2>1, <3>1, RefsAppend
    <3>6. \A d \in Nat : \A m, e \in Nat : Span(qq, d, m, e) => Span(Append(qq, t), d, m, e)
      <4>1. \A d : ~IsWrite(t, d)
        BY <3>1 DEF IsWrite
      <4> QED
        BY <2>1, <3>1, <4>1, SpanOther
    <3>7. /\ Append(qq, t) \in Seq(Tasks) /\ Len(Append(qq, t)) = Len(qq) + 1 /\ Len(qq) \in Nat
          /\ \A i \in 1 .. Len(qq) : Append(qq, t)[i] = qq[i]
          /\ Append(qq, t)[Len(qq) + 1] = t
      BY <2>1, <3>1, TaskAppend
    <3>8. \A i \in 1 .. Len(Append(qq, t)) :
            Append(qq, t)[i] = t \/ (i \in 1 .. Len(qq) /\ Append(qq, t)[i] = qq[i])
      BY <3>7
    <3> QED
      BY <3>1, <3>2, <3>3, <3>4, <3>5, <3>6, <3>7, <3>8
  <2> QED
    BY <2>4, <2>5
<1>3. ring_tasks' \in [Pollers -> Seq(Tasks)]
  BY <1>1, <1>2
<1>4. RingTypes'
  BY <1>0, <1>1, <1>3 DEF RingTypes
<1>5. \A q \in Pollers : QueueRight(ring_tasks[q], ring_disp, ring_reader, ring_alive)'
        /\ (ring_map[q] \in 0 .. Len(ring_disp))'
                         /\ (~ring_alive => ring_map[q] = 0)'
  <2> SUFFICES ASSUME NEW q \in Pollers
               PROVE  QueueRight(ring_tasks[q], ring_disp, ring_reader, ring_alive)'
                        /\ (ring_map[q] \in 0 .. Len(ring_disp))'
                      /\ ring_map'[q] = 0
    OBVIOUS
  <2>1. QueueRight(ring_tasks'[q], ring_disp, ring_reader, FALSE)
    BY <1>2
  <2>2. QueueRight(ring_tasks[q], ring_disp, ring_reader, ring_alive)'
    BY <1>1, <2>1 DEF QueueRight
  <2>3. ring_map'[q] = 0 /\ 0 \in 0 .. Len(ring_disp)
    BY <1>0, <1>1
  <2> QED
    BY <1>1, <2>2, <2>3
<1>6. \A s \in 1 .. Len(ring_reader') : ReaderRight(s)'
  <2> SUFFICES ASSUME NEW s \in 1 .. Len(ring_reader) PROVE ReaderRight(s)'
    BY <1>1
  <2>1. ReaderRight(s) /\ ring_reader[s].poller \in Pollers
          /\ ring_reader[s].disp \in 1 .. Len(ring_disp)
    BY RingParts DEF RingInv
  <2>2. ring_reader[s].detached = 0
    BY <1>1, <2>1 DEF ReaderRight
  <2>3. ring_reader[s].state = "held"
          => Ring!Refs(ring_tasks'[ring_reader[s].poller], ring_reader[s].disp)
    <3> PICK d : d = ring_reader[s].disp
      OBVIOUS
    <3>1. PICK o \in Pollers, m \in Nat, e \in Nat : Home(d, o) /\ Members(d, o) /\ Told(d, o, m, e)
      BY <2>1 DEF RingInv, DispatcherRight
    <3>2. ring_reader[s].poller = o
      BY <3>1 DEF Home
    <3>3. ring_reader[s].state = "held" => ring_map[o] = d
      BY <1>1, <2>1, <3>1 DEF Members, ReaderRight
    <3> QED
      <4>1. ring_reader[s].state = "held" => ring_map[o] = d /\ ring_map[o] # 0
        BY <2>1, <3>3
      <4> QED
        BY <1>2, <3>2, <4>1
  <2> QED
    BY <1>1, <2>1, <2>2, <2>3 DEF ReaderRight
<1>7. ASSUME NEW d \in 1 .. Len(ring_disp) PROVE DispatcherRight(d)'
  <2>1. PICK o \in Pollers, m \in Nat, e \in Nat : Home(d, o) /\ Members(d, o) /\ Told(d, o, m, e)
    BY DEF RingInv, DispatcherRight
  <2>2. d \in Nat /\ d # 0
    BY <1>0
  <2>3. Home(d, o)'
    BY <1>1, <1>2, <2>1, <2>2 DEF Home
  <2>4. Members(d, o)'
    BY <1>1, <1>2, <2>1, <2>2 DEF Members
  <2>5. Span(ring_tasks'[o], d, m, e)
    BY <1>2, <2>1, <2>2 DEF Told
  <2>6. Told(d, o, m, e)'
    BY <1>1, <2>1, <2>5 DEF Told
  <2> QED
    BY <2>3, <2>4, <2>6 DEF DispatcherRight
<1>8. Store(ring_main, Len(ring_key), ring_key)'
  BY <1>1 DEF RingInv
<1> QED
  BY <1>1, <1>4, <1>5, <1>6, <1>7, <1>8 DEF RingInv

\* A reader leaves its dispatcher.
LEMMA RingLeaves ==
  ASSUME RingInv, NEW r \in 1 .. Len(ring_reader), Ring!Dealloc(ring_reader[r].poller, r),
         ring_key' = ring_key, ring_main' = ring_main, ring_alive' = ring_alive,
         ring_tasks' \in [Pollers -> Seq(Tasks)],
         \A q \in Pollers :
           /\ QueueRight(ring_tasks'[q], ring_disp, ring_reader, ring_alive)
           /\ \A d : Ring!Refs(ring_tasks'[q], d) <=> Ring!Refs(ring_tasks[q], d)
           /\ \A s : s # r /\ Leaves(ring_tasks[q], s) => Leaves(ring_tasks'[q], s)
           /\ \A d \in Nat : \A m, e \in Nat : Span(ring_tasks[q], d, m, e)
                => Span(ring_tasks'[q], d, m, e)
           /\ \A d : (\A i \in 1 .. Len(ring_tasks[q]) : ring_tasks[q][i].id # d)
                => \A i \in 1 .. Len(ring_tasks'[q]) : ring_tasks'[q][i].id # d
  PROVE  RingInv'
<1> DEFINE x == [ring_reader[r] EXCEPT !.state = "deleted"]
<1> PICK p : p = ring_reader[r].poller
  OBVIOUS
<1> PICK d0 : d0 = ring_reader[r].disp
  OBVIOUS
<1> PICK rs : rs = {r} \cap ring_disp[d0].readers
  OBVIOUS
<1> PICK left : left = ring_disp[d0].readers \ rs
  OBVIOUS
<1> DEFINE y == [ring_disp[d0] EXCEPT !.readers = left]
<1>0. /\ Len(ring_key) \in Nat /\ Len(ring_disp) \in Nat /\ Len(ring_reader) \in Nat
      /\ d0 \in 1 .. Len(ring_disp) /\ p \in Pollers
      /\ ring_reader[r] \in Readers /\ ring_reader \in Seq(Readers) /\ RingTypes
      /\ ring_disp[d0] \in Dispatchers
      /\ ring_disp[d0].readers \in SUBSET Nat /\ ring_disp \in Seq(Dispatchers)
      /\ ring_map \in [Pollers -> Nat]
      /\ \A s \in 1 .. Len(ring_reader) : ring_reader[s].poller \in Pollers
           /\ ring_reader[s].disp \in 1 .. Len(ring_disp)
      /\ \A q \in Pollers : ring_map[q] \in 0 .. Len(ring_disp)
  BY RingParts DEF RingInv, RingTypes
<1>1. /\ ring_reader' = [ring_reader EXCEPT ![r] = x] /\ ring_disp' = [ring_disp EXCEPT ![d0] = y]
      /\ ring_total' = IF ring_alive THEN ring_total - Cardinality(rs) ELSE ring_total
      /\ ring_map' = IF ring_alive /\ rs # {} /\ left = {}
                     THEN [ring_map EXCEPT ![p] = 0]
                     ELSE ring_map
  BY RingCounts DEF Ring!Dealloc, Ring!Leave
<1>2. /\ x \in Readers /\ x.poller = p /\ x.disp = d0 /\ x.state = "deleted"
      /\ x.detached = ring_reader[r].detached /\ x.got = ring_reader[r].got
      /\ x.reads = ring_reader[r].reads
  BY <1>0 DEF Readers
<1>3. y \in Dispatchers /\ y.readers = left /\ y.st = ring_disp[d0].st
  BY <1>0 DEF Dispatchers
<1> HIDE DEF x, y
<1>4. /\ ring_reader' \in Seq(Readers) /\ Len(ring_reader') = Len(ring_reader)
      /\ ring_reader'[r] = x
      /\ \A s \in 1 .. Len(ring_reader) : s # r => ring_reader'[s] = ring_reader[s]
  BY <1>0, <1>1, <1>2, ExceptSeq
<1>5. \A s \in 1 .. Len(ring_reader) : /\ ring_reader'[s].poller = ring_reader[s].poller
                                       /\ ring_reader'[s].disp = ring_reader[s].disp
                                       /\ ring_reader'[s].got = ring_reader[s].got
                                       /\ ring_reader'[s].reads = ring_reader[s].reads
                                       /\ ring_reader'[s].detached = ring_reader[s].detached
                                       /\ ring_reader'[s].state =
                                            IF s = r
                                            THEN "deleted"
                                            ELSE ring_reader[s].state
  BY <1>2, <1>4
<1>6. /\ ring_disp' \in Seq(Dispatchers) /\ Len(ring_disp') = Len(ring_disp) /\ ring_disp'[d0] = y
      /\ \A d \in 1 .. Len(ring_disp) : d # d0 => ring_disp'[d] = ring_disp[d]
  BY <1>0, <1>1, <1>3, ExceptSeq
<1>7. PICK o0 \in Pollers, m0 \in Nat, e0 \in Nat : Home(d0, o0) /\ Members(d0, o0)
        /\ Told(d0, o0, m0, e0)
  BY <1>0 DEF RingInv, DispatcherRight
<1>8. o0 = p
  BY <1>7 DEF Home
<1>9. left = ring_disp[d0].readers \ {r}
  OBVIOUS
<1>10. \A d \in 1 .. Len(ring_disp) : ring_disp'[d].readers = ring_disp[d].readers \ {r}
         /\ ring_disp'[d].st = ring_disp[d].st
  <2> SUFFICES ASSUME NEW d \in 1 .. Len(ring_disp), d # d0 PROVE r \notin ring_disp[d].readers
    BY <1>3, <1>6, <1>9
  <2>1. PICK o \in Pollers, m \in Nat, e \in Nat : Home(d, o) /\ Members(d, o) /\ Told(d, o, m, e)
    BY DEF RingInv, DispatcherRight
  <2> QED
    BY <2>1 DEF Members
<1>11. ring_alive /\ rs # {} => ring_map[p] = d0
  BY <1>7, <1>8 DEF Members
<1>12. ~ring_alive => ring_map[p] = 0
  BY <1>0 DEF RingInv
<1>13. /\ ring_map' \in [Pollers -> Nat] /\ \A q \in Pollers :
            ring_map'[q] \in 0 .. Len(ring_disp) /\ (q # p => ring_map'[q] = ring_map[q])
       /\ ring_map'[p] = IF ring_alive /\ rs # {} /\ left = {} THEN 0 ELSE ring_map[p]
  <2>1. CASE ring_alive /\ rs # {} /\ left = {}
    BY <1>0, <1>1, <2>1
  <2>2. CASE ~(ring_alive /\ rs # {} /\ left = {})
    BY <1>0, <1>1, <2>2
  <2> QED
    BY <2>1, <2>2
<1>14. \A d \in 1 .. Len(ring_disp) : d # d0 => \A q \in Pollers :
         ring_map'[q] = d <=> ring_map[q] = d
  <2> SUFFICES ASSUME NEW d \in 1 .. Len(ring_disp), d # d0, NEW q \in Pollers
               PROVE ring_map'[q] = d <=> ring_map[q] = d
    OBVIOUS
  <2>1. d # 0
    BY <1>0
  <2> QED
    BY <1>11, <1>13, <2>1
<1>15. (rs = {} \/ rs = {r}) /\ (rs = {r} <=> r \in AllReaders)
  <2>1. r \in AllReaders <=> r \in ring_disp[d0].readers
    <3>1. r \in AllReaders => r \in ring_disp[d0].readers
      <4> SUFFICES ASSUME NEW d \in 1 .. Len(ring_disp), r \in ring_disp[d].readers PROVE d = d0
        BY DEF AllReaders
      <4>1. PICK o \in Pollers, m \in Nat, e \in Nat : Home(d, o) /\ Members(d, o)
              /\ Told(d, o, m, e)
        BY DEF RingInv, DispatcherRight
      <4> QED
        BY <4>1 DEF Members
    <3> QED
      BY <1>0, <3>1 DEF AllReaders
  <2> QED
    BY <2>1
<1>16. (ring_alive => ring_total = Cardinality(AllReaders))'
  <2> SUFFICES ASSUME ring_alive PROVE ring_total' = Cardinality(AllReaders')
    BY DEF AllReaders
  <2>1. AllReaders' = AllReaders \ {r}
    <3>1. AllReaders' = UNION {ring_disp'[d].readers : d \in 1 .. Len(ring_disp')}
      BY DEF AllReaders
    <3>2. \A s : s \in AllReaders' <=> \E d \in 1 .. Len(ring_disp) : s \in ring_disp'[d].readers
      BY <1>6, <3>1
    <3>3. \A s : s \in AllReaders <=> \E d \in 1 .. Len(ring_disp) : s \in ring_disp[d].readers
      BY DEF AllReaders
    <3> QED
      BY <1>10, <3>2, <3>3
  <2>2. ring_total = Cardinality(AllReaders) /\ ring_total' = ring_total - Cardinality(rs)
    BY <1>1 DEF RingInv
  <2> PICK S : S = AllReaders
    OBVIOUS
  <2>3. IsFiniteSet(S) /\ Cardinality(S) \in Nat
    BY AllFinite
  <2>4. Cardinality(S \ {r}) = IF r \in S THEN Cardinality(S) - 1 ELSE Cardinality(S)
    BY <2>3, FS_RemoveElement
  <2>5. Cardinality({r}) = 1 /\ Cardinality({}) = 0
    BY FS_Singleton, FS_EmptySet
  <2>6. CASE rs = {r}
    BY <1>15, <2>1, <2>2, <2>3, <2>4, <2>5, <2>6
  <2>7. CASE rs = {}
    <3>1. r \notin S
      BY <1>15, <2>7
    <3>2. Cardinality(rs) = 0 /\ Cardinality(S \ {r}) = Cardinality(S)
      BY <2>4, <2>5, <2>7, <3>1
    <3>3. ring_total = Cardinality(S) /\ ring_total' = ring_total - 0
      BY <2>2, <3>2
    <3> QED
      BY <2>1, <2>3, <3>2, <3>3
  <2> QED
    BY <1>15, <2>6, <2>7
<1>17. RingTypes'
  <2>1. ring_total' \in Int
    <3>1. Cardinality(rs) \in Int /\ ring_total \in Int
      <4>1. Cardinality({r}) = 1 /\ Cardinality({}) = 0
        BY FS_Singleton, FS_EmptySet
      <4>2. ring_total \in Int
        BY <1>0 DEF RingTypes
      <4> QED
        <5>1. CASE rs = {r}
          BY ONLY <4>1, <4>2, <5>1
        <5>2. CASE rs = {}
          BY ONLY <4>1, <4>2, <5>2
        <5> QED
          BY <1>15, <5>1, <5>2
    <3> QED
      BY <1>1, <3>1
  <2> QED
    BY <1>0, <1>4, <1>6, <1>13, <2>1 DEF RingTypes
<1>18. \A q \in Pollers : QueueRight(ring_tasks[q], ring_disp, ring_reader, ring_alive)'
         /\ (ring_map[q] \in 0 .. Len(ring_disp))'
                        /\ (~ring_alive => ring_map[q] = 0)'
  <2> SUFFICES ASSUME NEW q \in Pollers
               PROVE QueueRight(ring_tasks'[q], ring_disp', ring_reader', ring_alive)
                       /\ (~ring_alive => ring_map'[q] = 0)
    BY <1>6, <1>13
  <2> PICK us : us = ring_reader'
    OBVIOUS
  <2> PICK es : es = ring_disp'
    OBVIOUS
  <2> PICK qq : qq = ring_tasks'[q]
    OBVIOUS
  <2>1. QueueRight(qq, ring_disp, ring_reader, ring_alive) /\ qq \in Seq(Tasks)
    OBVIOUS
  <2>2. \A s \in 1 .. Len(ring_reader) : s \in 1 .. Len(us) /\ us[s].disp = ring_reader[s].disp
                                         /\ (ring_reader[s].state # "held" => us[s].state # "held")
    BY <1>4, <1>5
  <2>3. \A i \in 1 .. Len(ring_disp) : i \in 1 .. Len(es)
    BY <1>6
  <2>4. QueueRight(qq, es, us, ring_alive)
    BY <2>1, <2>2, <2>3, QueueSame
  <2>5. ~ring_alive => ring_map'[q] = 0
    BY <1>13 DEF RingInv
  <2> QED
    BY <2>4, <2>5
<1>19. \A s \in 1 .. Len(ring_reader') : ReaderRight(s)'
  <2> SUFFICES ASSUME NEW s \in 1 .. Len(ring_reader) PROVE ReaderRight(s)'
    BY <1>4
  <2>1. ReaderRight(s) /\ ring_reader[s].poller \in Pollers
          /\ ring_reader[s].disp \in 1 .. Len(ring_disp)
    BY <1>0 DEF RingInv
  <2>2. Ring!Refs(ring_tasks'[ring_reader[s].poller], ring_reader[s].disp)
          <=> Ring!Refs(ring_tasks[ring_reader[s].poller], ring_reader[s].disp)
    BY <2>1
  <2>3. ring_reader'[s].state = "held" => ring_reader[s].state = "held" /\ s # r
    BY <1>5
  <2>4. ring_reader'[s].state = "held" => s \in ring_disp'[ring_reader[s].disp].readers
    BY <1>10, <2>1, <2>3 DEF ReaderRight
  <2> QED
    BY <1>5, <1>6, <2>1, <2>2, <2>3, <2>4 DEF ReaderRight
<1>20. ASSUME NEW d \in 1 .. Len(ring_disp) PROVE DispatcherRight(d)'
  <2>1. PICK o \in Pollers, m \in Nat, e \in Nat : Home(d, o) /\ Members(d, o) /\ Told(d, o, m, e)
    BY DEF RingInv, DispatcherRight
  <2>2. d \in Nat /\ d # 0
    BY <1>0
  <2>3. d = d0 => o = p
    BY <2>1 DEF Home
  <2>4. \A q \in Pollers : ring_map'[q] = d => ring_map[q] = d
    BY <1>13, <1>14, <2>2
  <2>5. Home(d, o)'
    <3>1. \A s \in 1 .. Len(ring_reader') : ring_reader'[s].disp = d => ring_reader'[s].poller = o
      BY <1>4, <1>5, <2>1 DEF Home
    <3>2. \A q \in Pollers \ {o} : ring_map'[q] # d
      BY <2>1, <2>4 DEF Home
    <3>3. \A q \in Pollers \ {o} : \A i \in 1 .. Len(ring_tasks'[q]) : ring_tasks'[q][i].id # d
      BY <2>1 DEF Home
    <3> QED
      BY <3>1, <3>2, <3>3 DEF Home
  <2>6. Members(d, o)'
    <3>1. ASSUME NEW s \in ring_disp[d].readers, s # r
          PROVE  /\ s \in 1 .. Len(ring_reader') /\ ring_reader'[s].disp = d
                 /\ ring_reader'[s].state # "deleted"
                 /\ ring_reader'[s].state = "released" => Leaves(ring_tasks'[o], s)
      BY <1>4, <1>5, <2>1, <3>1 DEF Members
    <3>2. ring_map'[o] = d => ring_disp'[d].readers # {}
      <4>1. CASE d = d0
        <5>1. ring_map'[o] = d => ring_alive /\ ring_disp[d].readers # {} /\ ~(rs # {} /\ left = {})
          BY <1>12, <1>13, <2>1, <2>2, <2>3, <4>1 DEF Members
        <5>2. rs = {} => left = ring_disp[d].readers
          BY <4>1
        <5> QED
          BY <1>3, <1>6, <4>1, <5>1, <5>2
      <4>2. CASE d # d0
        BY <1>6, <2>1, <2>4, <4>2 DEF Members
      <4> QED
        BY <4>1, <4>2
    <3>3. ring_alive /\ ring_disp'[d].readers # {} => ring_map'[o] = d
      <4>1. CASE d = d0
        BY <1>3, <1>6, <1>13, <2>1, <2>3, <4>1 DEF Members
      <4>2. CASE d # d0
        BY <1>6, <1>14, <2>1, <4>2 DEF Members
      <4> QED
        BY <4>1, <4>2
    <3> QED
      BY <1>10, <3>1, <3>2, <3>3 DEF Members
  <2>7. Span(ring_tasks'[o], d, m, e)
    BY <2>1, <2>2 DEF Told
  <2>8. Told(d, o, m, e)'
    BY <1>4, <1>5, <1>10, <2>1, <2>4, <2>7 DEF Told
  <2> QED
    BY <2>5, <2>6, <2>8 DEF DispatcherRight
<1>21. Store(ring_main, Len(ring_key), ring_key)'
  BY DEF RingInv
<1> QED
  BY <1>6, <1>16, <1>17, <1>18, <1>19, <1>20, <1>21 DEF RingInv

\* A reader that goes on its own thread keeps the invariant.
LEMMA RingDropHere ==
  ASSUME RingInv, NEW r \in 1 .. Len(ring_reader), Ring!DropHere(r)
  PROVE  RingInv'
<1>1. Ring!Dealloc(ring_reader[r].poller, r) /\ ring_key' = ring_key /\ ring_main' = ring_main
        /\ ring_alive' = ring_alive /\ ring_tasks' = ring_tasks
  BY DEF Ring!DropHere
<1>2. ring_tasks' \in [Pollers -> Seq(Tasks)]
  BY <1>1 DEF RingInv, RingTypes
<1>3. \A q \in Pollers : QueueRight(ring_tasks'[q], ring_disp, ring_reader, ring_alive)
  BY <1>1 DEF RingInv
<1> QED
  BY <1>1, <1>2, <1>3, RingLeaves

\* What the first task leaves behind.
LEMMA TasksLeft ==
  ASSUME RingInv, NEW p \in Pollers, ring_tasks[p] # <<>>,
         ring_tasks' = [ring_tasks EXCEPT ![p] = Tail(@)]
  PROVE  /\ ring_tasks' \in [Pollers -> Seq(Tasks)] /\ ring_tasks'[p] = Tail(ring_tasks[p])
         /\ \A q \in Pollers : q # p => ring_tasks'[q] = ring_tasks[q]
         /\ \A q \in Pollers :
              /\ QueueRight(ring_tasks'[q], ring_disp, ring_reader, ring_alive)
              /\ \A d : (\A i \in 1 .. Len(ring_tasks[q]) : ring_tasks[q][i].id # d)
                   => \A i \in 1 .. Len(ring_tasks'[q]) : ring_tasks'[q][i].id # d
         /\ Head(ring_tasks[p]) \in Tasks /\ Head(ring_tasks[p]).id \in 1 .. Len(ring_disp)
         /\ Head(ring_tasks[p]) = ring_tasks[p][1] /\ 1 \in 1 .. Len(ring_tasks[p])
<1> PICK u : u = ring_tasks[p]
  OBVIOUS
<1>1. ring_tasks \in [Pollers -> Seq(Tasks)] /\ u \in Seq(Tasks) /\ u # <<>>
        /\ QueueRight(u, ring_disp, ring_reader, ring_alive)
  BY DEF RingInv, RingTypes
<1>2. /\ Tail(u) \in Seq(Tasks) /\ Len(Tail(u)) = Len(u) - 1 /\ Len(u) \in Nat \ {0}
      /\ \A i \in 1 .. Len(u) - 1 : Tail(u)[i] = u[i + 1]
      /\ Head(u) = u[1] /\ Head(u) \in Tasks
  BY <1>1, TaskTail
<1>3. QueueRight(Tail(u), ring_disp, ring_reader, ring_alive)
  BY <1>1, QueueTail
<1>4. ring_tasks' \in [Pollers -> Seq(Tasks)] /\ ring_tasks'[p] = Tail(u)
        /\ \A q \in Pollers : q # p => ring_tasks'[q] = ring_tasks[q]
  BY <1>1, <1>2
<1>5. \A i \in 1 .. Len(Tail(u)) : i + 1 \in 1 .. Len(u) /\ Tail(u)[i] = u[i + 1]
  BY <1>2
<1>6. 1 \in 1 .. Len(u) /\ u[1].id \in 1 .. Len(ring_disp)
  BY <1>1, <1>2 DEF QueueRight
<1>7. \A q \in Pollers : /\ QueueRight(ring_tasks'[q], ring_disp, ring_reader, ring_alive)
                         /\ \A d : (\A i \in 1 .. Len(ring_tasks[q]) : ring_tasks[q][i].id # d)
                             => \A i \in 1 .. Len(ring_tasks'[q]) : ring_tasks'[q][i].id # d
  <2> SUFFICES ASSUME NEW q \in Pollers
               PROVE  /\ QueueRight(ring_tasks'[q], ring_disp, ring_reader, ring_alive)
                      /\ \A d : (\A i \in 1 .. Len(ring_tasks[q]) : ring_tasks[q][i].id # d)
                           => \A i \in 1 .. Len(ring_tasks'[q]) : ring_tasks'[q][i].id # d
    OBVIOUS
  <2>1. CASE q = p
    BY <1>3, <1>4, <1>5, <2>1
  <2>2. CASE q # p
    BY <1>4, <2>2 DEF RingInv
  <2> QED
    BY <2>1, <2>2
<1> QED
  BY <1>2, <1>4, <1>6, <1>7

\* The task of a reader that went on another thread keeps the invariant.
LEMMA RingDealloc ==
  ASSUME RingInv, NEW p \in Pollers, ring_tasks[p] # <<>>,
         ring_tasks' = [ring_tasks EXCEPT ![p] = Tail(@)],
         Head(ring_tasks[p]).kind = "dealloc", Ring!Dealloc(p, Head(ring_tasks[p]).n),
         ring_key' = ring_key, ring_main' = ring_main, ring_alive' = ring_alive
  PROVE  RingInv'
<1> PICK u : u = ring_tasks[p]
  OBVIOUS
<1> PICK t : t = Head(u)
  OBVIOUS
<1> PICK r : r = t.n
  OBVIOUS
<1>1. /\ ring_tasks' \in [Pollers -> Seq(Tasks)] /\ ring_tasks'[p] = Tail(u)
      /\ \A q \in Pollers : q # p => ring_tasks'[q] = ring_tasks[q]
      /\ \A q \in Pollers :
           /\ QueueRight(ring_tasks'[q], ring_disp, ring_reader, ring_alive)
           /\ \A d : (\A i \in 1 .. Len(ring_tasks[q]) : ring_tasks[q][i].id # d)
                => \A i \in 1 .. Len(ring_tasks'[q]) : ring_tasks'[q][i].id # d
      /\ t \in Tasks /\ t.id \in 1 .. Len(ring_disp) /\ t = u[1] /\ 1 \in 1 .. Len(u)
  BY TasksLeft
<1>2. u \in Seq(Tasks) /\ u # <<>> /\ QueueRight(u, ring_disp, ring_reader, ring_alive)
        /\ t.kind = "dealloc"
  BY DEF RingInv, RingTypes
<1>3. r \in 1 .. Len(ring_reader) /\ ring_reader[r].disp = t.id
  BY <1>1, <1>2 DEF QueueRight
<1>4. ring_reader[r].poller = p
  <2>1. PICK o \in Pollers, m \in Nat, e \in Nat : Home(t.id, o) /\ Members(t.id, o)
          /\ Told(t.id, o, m, e)
    BY <1>1 DEF RingInv, DispatcherRight
  <2>2. o = p
    BY <1>1, <2>1 DEF Home
  <2> QED
    BY <1>3, <2>1, <2>2 DEF Home
<1>5. \A q \in Pollers :
        /\ \A d : Ring!Refs(ring_tasks'[q], d) <=> Ring!Refs(ring_tasks[q], d)
        /\ \A s : s # r /\ Leaves(ring_tasks[q], s) => Leaves(ring_tasks'[q], s)
        /\ \A d \in Nat : \A m, e \in Nat : Span(ring_tasks[q], d, m, e)
             => Span(ring_tasks'[q], d, m, e)
  <2>1. \A d : Ring!Refs(Tail(u), d) <=> Ring!Refs(u, d)
    BY <1>2, RefsTail
  <2>2. \A s : s # r /\ Leaves(u, s) => Leaves(Tail(u), s)
    BY <1>2, LeavesTail
  <2>3. \A d \in Nat : \A m, e \in Nat : Span(u, d, m, e) => Span(Tail(u), d, m, e)
    <3>1. \A d : ~IsWrite(t, d)
      BY <1>2 DEF IsWrite
    <3> QED
      BY <1>2, <3>1, SpanSkip
  <2> QED
    BY <1>1, <2>1, <2>2, <2>3
<1>6. Ring!Dealloc(ring_reader[r].poller, r)
  BY <1>4
<1> QED
  BY <1>1, <1>3, <1>5, <1>6, RingLeaves

\* A task of the poller p has run, and it was one of the dispatcher d: who stays with it,
\* what each of its readers was told, and that both went on to the same item.
TaskGone(p) ==
  /\ ring_tasks[p] # <<>> /\ ring_tasks' = [ring_tasks EXCEPT ![p] = Tail(@)]
  /\ ring_key' = ring_key /\ ring_main' = ring_main /\ ring_alive' = ring_alive

Shed(p, d, stay) ==
  LET rs == ring_disp[d].readers \ stay IN
  /\ stay \in SUBSET ring_disp[d].readers /\ (stay = ring_disp[d].readers \/ stay = Ring!Held(d))
  /\ ring_disp' \in Seq(Dispatchers) /\ Len(ring_disp') = Len(ring_disp)
  /\ ring_disp'[d].readers = stay
  /\ \A i \in 1 .. Len(ring_disp) : i # d => ring_disp'[i] = ring_disp[i]
  /\ ring_total' = IF ring_alive THEN ring_total - Cardinality(rs) ELSE ring_total
  /\ ring_map' = IF ring_alive /\ rs # {} /\ stay = {} THEN [ring_map EXCEPT ![p] = 0] ELSE ring_map

Served(p, d) ==
  /\ ring_reader' \in Seq(Readers) /\ Len(ring_reader') = Len(ring_reader)
  /\ \A r \in 1 .. Len(ring_reader) :
       /\ ring_reader'[r].poller = ring_reader[r].poller
       /\ ring_reader'[r].disp = ring_reader[r].disp
       /\ ring_reader'[r].state = ring_reader[r].state
       /\ ring_reader'[r].detached = IF ~ring_alive /\ ~Ring!Refs(Tail(ring_tasks[p]), d)
                                        /\ r \in Ring!Held(d)
                                     THEN ring_reader[r].detached + 1
                                     ELSE ring_reader[r].detached
       /\ ring_reader'[r].reads = ring_reader[r].reads
       /\ Consecutive(ring_reader'[r].got) /\ (~ring_reader[r].reads => ring_reader'[r].got = <<>>)
       /\ r \notin Ring!Held(d) => ring_reader'[r].got = ring_reader[r].got

Brought(p, d) ==
  \A m, e \in Nat : Told(d, p, m, e) =>
    \E k, l \in Nat :
      /\ Store(ring_disp'[d].st, k, ring_key) /\ k <= l /\ l <= Len(ring_key)
      /\ Span(Tail(ring_tasks[p]), d, k, l)
      /\ ring_alive /\ ring_map[p] = d => l = Len(ring_key)
      /\ \A r \in Ring!Held(d) : ring_reader'[r].got # <<>>
           => ring_reader'[r].got[Len(ring_reader'[r].got)] = k

\* A task of a dispatcher, other than one that makes a reader leave: the readers that stay are
\* told, and are told of the end if it is the last task.
LEMMA RingRuns ==
  ASSUME RingInv, NEW p \in Pollers, TaskGone(p), NEW d0, d0 = Head(ring_tasks[p]).id,
         Head(ring_tasks[p]).kind # "dealloc", NEW stay, Shed(p, d0, stay), Served(p, d0),
         Brought(p, d0)
  PROVE  RingInv'
<1> PICK u : u = ring_tasks[p]
  OBVIOUS
<1> PICK t : t = Head(u)
  OBVIOUS
<1> PICK rs : rs = ring_disp[d0].readers \ stay
  OBVIOUS
<1>0. /\ Len(ring_key) \in Nat /\ Len(ring_disp) \in Nat /\ Len(ring_reader) \in Nat /\ RingTypes
      /\ ring_map \in [Pollers -> Nat]
      /\ \A s \in 1 .. Len(ring_reader) : ring_reader[s].poller \in Pollers
           /\ ring_reader[s].disp \in 1 .. Len(ring_disp)
      /\ \A q \in Pollers : ring_map[q] \in 0 .. Len(ring_disp)
  BY RingParts DEF RingInv, RingTypes
<1>1. /\ ring_tasks' \in [Pollers -> Seq(Tasks)] /\ ring_tasks'[p] = Tail(u)
      /\ \A q \in Pollers : q # p => ring_tasks'[q] = ring_tasks[q]
      /\ \A q \in Pollers :
           /\ QueueRight(ring_tasks'[q], ring_disp, ring_reader, ring_alive)
           /\ \A d : (\A i \in 1 .. Len(ring_tasks[q]) : ring_tasks[q][i].id # d)
                => \A i \in 1 .. Len(ring_tasks'[q]) : ring_tasks'[q][i].id # d
      /\ t \in Tasks /\ t.id \in 1 .. Len(ring_disp) /\ t = u[1] /\ 1 \in 1 .. Len(u)
  BY TasksLeft DEF TaskGone
<1>2. u \in Seq(Tasks) /\ u # <<>> /\ t.kind # "dealloc" /\ t.id = d0 /\ d0 \in 1 .. Len(ring_disp)
  BY <1>1 DEF RingInv, RingTypes, TaskGone
<1>3. /\ ring_disp' \in Seq(Dispatchers) /\ Len(ring_disp') = Len(ring_disp)
      /\ ring_disp'[d0].readers = stay
      /\ \A d \in 1 .. Len(ring_disp) : d # d0 => ring_disp'[d] = ring_disp[d]
  BY DEF Shed
<1>4. /\ stay \in SUBSET ring_disp[d0].readers
      /\ (stay = ring_disp[d0].readers \/ stay = Ring!Held(d0))
      /\ ring_total' = IF ring_alive THEN ring_total - Cardinality(rs) ELSE ring_total
      /\ ring_map' = IF ring_alive /\ rs # {} /\ stay = {}
                     THEN [ring_map EXCEPT ![p] = 0]
                     ELSE ring_map
  BY DEF Shed
<1>5. /\ ring_reader' \in Seq(Readers) /\ Len(ring_reader') = Len(ring_reader)
      /\ \A r \in 1 .. Len(ring_reader) :
           /\ ring_reader'[r].poller = ring_reader[r].poller
           /\ ring_reader'[r].disp = ring_reader[r].disp
           /\ ring_reader'[r].state = ring_reader[r].state
           /\ ring_reader'[r].detached = IF ~ring_alive /\ ~Ring!Refs(Tail(u), d0)
                                            /\ r \in Ring!Held(d0)
                                         THEN ring_reader[r].detached + 1
                                         ELSE ring_reader[r].detached
           /\ ring_reader'[r].reads = ring_reader[r].reads
           /\ Consecutive(ring_reader'[r].got)
           /\ (~ring_reader[r].reads => ring_reader'[r].got = <<>>)
           /\ r \notin Ring!Held(d0) => ring_reader'[r].got = ring_reader[r].got
  BY DEF Served
<1>6. ring_key' = ring_key /\ ring_main' = ring_main /\ ring_alive' = ring_alive
  BY DEF TaskGone
<1>7. PICK m0 \in Nat, e0 \in Nat : Home(d0, p) /\ Members(d0, p) /\ Told(d0, p, m0, e0)
  <2>1. PICK o \in Pollers, m \in Nat, e \in Nat : Home(d0, o) /\ Members(d0, o)
          /\ Told(d0, o, m, e)
    BY <1>2 DEF RingInv, DispatcherRight
  <2>2. o = p
    BY <1>1, <1>2, <2>1 DEF Home
  <2> QED
    BY <2>1, <2>2
<1>8. \A q \in Pollers :
        /\ \A d : d # d0 => (Ring!Refs(ring_tasks'[q], d) <=> Ring!Refs(ring_tasks[q], d))
        /\ \A s : Leaves(ring_tasks[q], s) => Leaves(ring_tasks'[q], s)
        /\ \A d \in Nat : d # d0 =>
             \A m, e \in Nat : Span(ring_tasks[q], d, m, e) => Span(ring_tasks'[q], d, m, e)
  <2>1. \A d : d # d0 => (Ring!Refs(Tail(u), d) <=> Ring!Refs(u, d))
    BY <1>2, RefsTail
  <2>2. \A s : Leaves(u, s) => Leaves(Tail(u), s)
    BY <1>2, LeavesTail
  <2>3. \A d \in Nat : d # d0 => \A m, e \in Nat : Span(u, d, m, e) => Span(Tail(u), d, m, e)
    <3>1. \A d : d # d0 => ~IsWrite(t, d)
      BY <1>2 DEF IsWrite
    <3> QED
      BY <1>2, <3>1, SpanSkip
  <2> QED
    BY <1>1, <2>1, <2>2, <2>3
<1>9. Ring!Refs(ring_tasks[p], d0)
  BY <1>1, <1>2 DEF Ring!Refs
<1>10. \A r : r \in Ring!Held(d0) <=> r \in ring_disp[d0].readers /\ ring_reader[r].state = "held"
  BY DEF Ring!Held
<1>11. Ring!Held(d0) \subseteq stay
  BY <1>10, <1>4
<1>12. \A d \in 1 .. Len(ring_disp) : \A r \in ring_disp[d].readers :
         r \in 1 .. Len(ring_reader) /\ ring_reader[r].disp = d
  BY DEF RingInv, DispatcherRight, Members
<1>13. ring_alive /\ rs # {} => ring_map[p] = d0
  BY <1>7 DEF Members
<1>14. ~ring_alive => ring_map[p] = 0
  BY DEF RingInv
<1>15. /\ ring_map' \in [Pollers -> Nat] /\ \A q \in Pollers :
            ring_map'[q] \in 0 .. Len(ring_disp) /\ (q # p => ring_map'[q] = ring_map[q])
       /\ ring_map'[p] = IF ring_alive /\ rs # {} /\ stay = {} THEN 0 ELSE ring_map[p]
  <2>1. CASE ring_alive /\ rs # {} /\ stay = {}
    <3>1. ring_map' = [ring_map EXCEPT ![p] = 0]
      BY <1>4, <2>1
    <3>2. 0 \in 0 .. Len(ring_disp) /\ 0 \in Nat
      BY <1>0
    <3>3. ring_map' \in [Pollers -> Nat]
      BY ONLY <1>0, <3>1, <3>2
    <3>4. ring_map'[p] = 0 /\ \A q \in Pollers : q # p => ring_map'[q] = ring_map[q]
      BY ONLY <1>0, <3>1, p \in Pollers
    <3>5. \A q \in Pollers : ring_map'[q] \in 0 .. Len(ring_disp)
      BY ONLY <1>0, <3>2, <3>4
    <3> QED
      BY <2>1, <3>3, <3>4, <3>5
  <2>2. CASE ~(ring_alive /\ rs # {} /\ stay = {})
    <3>1. ring_map' = ring_map
      BY <1>4, <2>2
    <3> QED
      BY <1>0, <2>2, <3>1
  <2> QED
    BY <2>1, <2>2
<1>16. \A d \in 1 .. Len(ring_disp) : d # d0 => \A q \in Pollers :
         ring_map'[q] = d <=> ring_map[q] = d
  <2> SUFFICES ASSUME NEW d \in 1 .. Len(ring_disp), d # d0, NEW q \in Pollers
               PROVE ring_map'[q] = d <=> ring_map[q] = d
    OBVIOUS
  <2>1. d # 0
    BY <1>0
  <2> QED
    BY <1>13, <1>15, <2>1
<1>17. IsFiniteSet(AllReaders) /\ Cardinality(AllReaders) \in Nat /\ rs \subseteq AllReaders
  BY <1>2, AllFinite DEF AllReaders
<1>18. IsFiniteSet(rs) /\ Cardinality(rs) \in Nat
  BY <1>17, FS_Subset, FS_CardinalityType
<1>19. (ring_alive => ring_total = Cardinality(AllReaders))'
  <2> SUFFICES ASSUME ring_alive PROVE ring_total' = Cardinality(AllReaders')
    BY <1>6
  <2>1. AllReaders' = AllReaders \ rs
    <3>1. AllReaders' = UNION {ring_disp'[d].readers : d \in 1 .. Len(ring_disp')}
      BY DEF AllReaders
    <3>2. \A s : s \in AllReaders' <=> \E d \in 1 .. Len(ring_disp) : s \in ring_disp'[d].readers
      BY <1>3, <3>1
    <3>3. \A s : s \in AllReaders <=> \E d \in 1 .. Len(ring_disp) : s \in ring_disp[d].readers
      BY DEF AllReaders
    <3>4. \A d \in 1 .. Len(ring_disp) : ring_disp'[d].readers = ring_disp[d].readers \ rs
      <4> SUFFICES ASSUME NEW d \in 1 .. Len(ring_disp)
                   PROVE ring_disp'[d].readers = ring_disp[d].readers \ rs
        BY ZenonT(30)
      <4>1. CASE d = d0
        BY <1>3, <1>4, <4>1
      <4>2. CASE d # d0
        <5>1. ASSUME NEW s \in ring_disp[d].readers PROVE s \notin rs
          <6>1. ring_reader[s].disp = d
            BY ONLY <1>12, d \in 1 .. Len(ring_disp), s \in ring_disp[d].readers
          <6>2. s \in rs => ring_reader[s].disp = d0
            BY ONLY <1>2, <1>12, rs = ring_disp[d0].readers \ stay
          <6> QED
            BY ONLY <4>2, <6>1, <6>2
        <5> QED
          BY <1>3, <4>2, <5>1
      <4> QED
        BY <4>1, <4>2
    <3>5. \A s : s \in AllReaders' <=> s \in AllReaders /\ s \notin rs
      BY ONLY <3>2, <3>3, <3>4
    <3> QED
      BY ONLY <3>5
  <2> PICK S : S = AllReaders
    OBVIOUS
  <2>5. IsFiniteSet(S)
    BY <1>17
  <2>2. Cardinality(S \ rs) = Cardinality(S) - Cardinality(S \cap rs)
    BY ONLY <2>5, <1>18, FS_Difference
  <2>3. S \cap rs = rs
    BY <1>17
  <2>4. ring_total = Cardinality(S) /\ ring_total' = ring_total - Cardinality(rs)
    BY <1>4 DEF RingInv
  <2> QED
    BY <2>1, <2>2, <2>3, <2>4
<1>20. RingTypes'
  <2>1. ring_total' \in Int
    <3>1. ring_total \in Int
      BY <1>0 DEF RingTypes
    <3>2. ring_total' = ring_total - Cardinality(rs) \/ ring_total' = ring_total
      BY <1>4
    <3> QED
      BY <1>18, <3>1, <3>2
  <2> QED
    BY <1>0, <1>1, <1>15, <1>3, <1>5, <1>6, <2>1 DEF RingTypes
<1>21. \A q \in Pollers : QueueRight(ring_tasks[q], ring_disp, ring_reader, ring_alive)'
         /\ (ring_map[q] \in 0 .. Len(ring_disp))'
                        /\ (~ring_alive => ring_map[q] = 0)'
  <2> SUFFICES ASSUME NEW q \in Pollers
               PROVE QueueRight(ring_tasks'[q], ring_disp', ring_reader', ring_alive)
                       /\ (~ring_alive => ring_map'[q] = 0)
    BY <1>15, <1>3, <1>6
  <2> PICK us : us = ring_reader'
    OBVIOUS
  <2> PICK es : es = ring_disp'
    OBVIOUS
  <2> PICK qq : qq = ring_tasks'[q]
    OBVIOUS
  <2>1. QueueRight(qq, ring_disp, ring_reader, ring_alive) /\ qq \in Seq(Tasks)
    BY <1>1
  <2>2. \A s \in 1 .. Len(ring_reader) : s \in 1 .. Len(us) /\ us[s].disp = ring_reader[s].disp
                                         /\ (ring_reader[s].state # "held" => us[s].state # "held")
    BY <1>5
  <2>3. \A i \in 1 .. Len(ring_disp) : i \in 1 .. Len(es)
    BY <1>3
  <2> HIDE DEF RingInv
  <2>6. ring_disp \in Seq(Dispatchers) /\ ring_reader \in Seq(Readers)
          /\ es \in Seq(Dispatchers) /\ us \in Seq(Readers)
    BY <1>0, <1>3, <1>5 DEF RingTypes
  <2>4. QueueRight(qq, es, us, ring_alive)
    BY ONLY <2>1, <2>2, <2>3, <2>6, QueueSame
  <2>5. ~ring_alive => ring_map'[q] = 0
    BY <1>15 DEF RingInv
  <2> QED
    BY <2>4, <2>5
<1>22. \A s \in 1 .. Len(ring_reader') : ReaderRight(s)'
  <2> SUFFICES ASSUME NEW s \in 1 .. Len(ring_reader) PROVE ReaderRight(s)'
    BY <1>5
  <2>1. /\ ReaderRight(s) /\ ring_reader[s].poller \in Pollers
        /\ ring_reader[s].disp \in 1 .. Len(ring_disp)
        /\ ring_reader[s].detached \in Nat
    BY <1>0, RingParts DEF RingInv
  <2>2. ring_reader[s].state = "held" => s \in ring_disp'[ring_reader[s].disp].readers
    <3>1. CASE ring_reader[s].disp = d0
      BY <1>10, <1>11, <1>3, <2>1, <3>1 DEF ReaderRight
    <3>2. CASE ring_reader[s].disp # d0
      BY <1>3, <2>1, <3>2 DEF ReaderRight
    <3> QED
      BY <3>1, <3>2
  <2>3. CASE s \in Ring!Held(d0)
    <3>1. ring_reader[s].disp = d0 /\ ring_reader[s].state = "held"
      BY <1>2, <1>10, <1>12, <2>3
    <3>2. ring_reader[s].poller = p
      BY <1>7, <3>1 DEF Home
    <3>3. ring_reader[s].detached = 0
      BY <1>9, <2>1, <3>1, <3>2 DEF ReaderRight
    <3>4. ring_reader'[s].detached = IF ~ring_alive /\ ~Ring!Refs(ring_tasks'[p], d0) THEN 1 ELSE 0
      BY <1>1, <1>5, <2>3, <3>3
    <3> QED
      BY <1>3, <1>5, <1>6, <2>1, <2>2, <3>1, <3>2, <3>4 DEF ReaderRight
  <2>4. CASE s \notin Ring!Held(d0)
    <3>1. ring_reader'[s].detached = ring_reader[s].detached
      BY <1>5, <2>4
    <3>2. ring_reader[s].state = "held" => ring_reader[s].disp # d0
      BY <1>10, <2>1, <2>4 DEF ReaderRight
    <3>3. ring_reader[s].state = "held" =>
            (Ring!Refs(ring_tasks'[ring_reader[s].poller], ring_reader[s].disp)
               <=> Ring!Refs(ring_tasks[ring_reader[s].poller], ring_reader[s].disp))
      BY <1>8, <2>1, <3>2
    <3> QED
      BY <1>3, <1>5, <1>6, <2>1, <2>2, <3>1, <3>3 DEF ReaderRight
  <2> QED
    BY <2>3, <2>4
<1>23. ASSUME NEW d \in 1 .. Len(ring_disp) PROVE DispatcherRight(d)'
  <2>1. PICK o \in Pollers, m \in Nat, e \in Nat : Home(d, o) /\ Members(d, o)
          /\ Told(d, o, m, e) /\ (d = d0 => o = p)
    BY <1>7 DEF RingInv, DispatcherRight
  <2>2. d \in Nat /\ d # 0
    BY <1>0
  <2>3. \A q \in Pollers : ring_map'[q] = d => ring_map[q] = d
    BY <1>15, <1>16, <2>2
  <2>4. Home(d, o)'
    <3>1. \A s \in 1 .. Len(ring_reader') : ring_reader'[s].disp = d => ring_reader'[s].poller = o
      BY <1>5, <2>1 DEF Home
    <3>2. \A q \in Pollers \ {o} : ring_map'[q] # d
      BY <2>1, <2>3 DEF Home
    <3>3. \A q \in Pollers \ {o} : \A i \in 1 .. Len(ring_tasks'[q]) : ring_tasks'[q][i].id # d
      <4> SUFFICES ASSUME NEW q \in Pollers \ {o}
                   PROVE  \A i \in 1 .. Len(ring_tasks'[q]) : ring_tasks'[q][i].id # d
        OBVIOUS
      <4>1. \A i \in 1 .. Len(ring_tasks[q]) : ring_tasks[q][i].id # d
        BY <2>1 DEF Home
      <4> QED
        BY <1>1, <4>1
    <3> QED
      BY <3>1, <3>2, <3>3 DEF Home
  <2>5. Members(d, o)'
    <3>1. ASSUME NEW s \in ring_disp[d].readers
          PROVE  /\ s \in 1 .. Len(ring_reader') /\ ring_reader'[s].disp = d
                 /\ ring_reader'[s].state # "deleted"
                 /\ ring_reader'[s].state = "released" => Leaves(ring_tasks'[o], s)
      BY <1>8, <1>5, <2>1, <3>1 DEF Members
    <3>2. \A s \in ring_disp'[d].readers : s \in ring_disp[d].readers
      BY <1>3, <1>4
    <3>3. ring_map'[o] = d => ring_disp'[d].readers # {}
      <4>1. CASE d = d0
        <5>1. ring_map'[o] = d => ring_alive /\ ring_disp[d].readers # {} /\ ~(rs # {} /\ stay = {})
          BY <1>14, <1>15, <2>1, <2>2, <4>1 DEF Members
        <5>2. rs = {} => stay = ring_disp[d].readers
          BY <1>4, <4>1
        <5> QED
          BY <1>3, <4>1, <5>1, <5>2
      <4>2. CASE d # d0
        BY <1>3, <2>1, <2>3, <4>2 DEF Members
      <4> QED
        BY <4>1, <4>2
    <3>4. ring_alive /\ ring_disp'[d].readers # {} => ring_map'[o] = d
      <4>1. CASE d = d0
        <5>1. ring_alive /\ stay # {} => ring_map[p] = d0
          BY <1>7, <1>4 DEF Members
        <5> QED
          BY <1>15, <1>3, <2>1, <4>1, <5>1
      <4>2. CASE d # d0
        BY <1>16, <1>3, <2>1, <4>2 DEF Members
      <4> QED
        BY <4>1, <4>2
    <3> QED
      BY <1>6, <3>1, <3>2, <3>3, <3>4 DEF Members
  <2>6. CASE d = d0
    <3>1. PICK k \in Nat, l \in Nat :
             /\ Store(ring_disp'[d0].st, k, ring_key) /\ k <= l /\ l <= Len(ring_key)
             /\ Span(Tail(ring_tasks[p]), d0, k, l)
             /\ ring_alive /\ ring_map[p] = d0 => l = Len(ring_key)
             /\ \A r \in Ring!Held(d0) : ring_reader'[r].got # <<>>
                  => ring_reader'[r].got[Len(ring_reader'[r].got)] = k
      BY <1>7 DEF Brought
    <3>2. \A r \in 1 .. Len(ring_reader') :
            ring_reader'[r].disp = d /\ ring_reader'[r].state = "held" /\ ring_reader'[r].got # <<>>
              => ring_reader'[r].got[Len(ring_reader'[r].got)] = k
      <4>1. \A r \in 1 .. Len(ring_reader) : ring_reader[r].disp = d0
              /\ ring_reader[r].state = "held" => r \in Ring!Held(d0)
        BY <1>10, SMTT(30) DEF RingInv, ReaderRight
      <4> QED
        BY <1>5, <2>6, <3>1, <4>1
    <3>3. Told(d, p, k, l)'
      BY <1>1, <1>6, <2>1, <2>3, <2>6, <3>1, <3>2 DEF Told
    <3> QED
      BY <2>1, <2>4, <2>5, <2>6, <3>3 DEF DispatcherRight
  <2>7. CASE d # d0
    <3>1. Span(ring_tasks'[o], d, m, e)
      BY <1>8, <2>1, <2>2, <2>7 DEF Told
    <3>2. \A r \in 1 .. Len(ring_reader) : ring_reader[r].disp = d => r \notin Ring!Held(d0)
      BY <1>2, <1>10, <1>12, <2>7
    <3>3. \A r \in 1 .. Len(ring_reader') :
            ring_reader'[r].disp = d /\ ring_reader'[r].state = "held" /\ ring_reader'[r].got # <<>>
              => ring_reader'[r].got[Len(ring_reader'[r].got)] = m
      BY <1>5, <2>1, <3>2 DEF Told
    <3>4. Told(d, o, m, e)'
      BY <1>3, <1>6, <2>1, <2>3, <2>7, <3>1, <3>3 DEF Told
    <3> QED
      BY <2>4, <2>5, <3>4 DEF DispatcherRight
  <2> QED
    BY <2>6, <2>7
<1>24. Store(ring_main, Len(ring_key), ring_key)'
  BY <1>6 DEF RingInv
<1> QED
  BY <1>3, <1>19, <1>20, <1>21, <1>22, <1>23, <1>24 DEF RingInv

\* The items fed one after the other.
LEMMA FedOn ==
  ASSUME NEW g \in Seq(Nat), Consecutive(g), NEW m \in Nat, g # <<>> => g[Len(g)] = m
  PROVE  /\ Append(g, m + 1) \in Seq(Nat) /\ Consecutive(Append(g, m + 1))
         /\ Append(g, m + 1)[Len(Append(g, m + 1))] = m + 1
<1>1. /\ Append(g, m + 1) \in Seq(Nat) /\ Len(Append(g, m + 1)) = Len(g) + 1 /\ Len(g) \in Nat
      /\ \A i \in 1 .. Len(g) : Append(g, m + 1)[i] = g[i]
      /\ Append(g, m + 1)[Len(g) + 1] = m + 1
  BY AppendProperties, LenProperties
<1> PICK h : h = Append(g, m + 1)
  OBVIOUS
<1>2. ASSUME NEW i \in 1 .. Len(g) PROVE h[i + 1] = h[i] + 1
  <2>1. CASE i = Len(g)
    <3>1. g # <<>>
      BY <2>1, EmptySeq
    <3> QED
      BY <1>1, <2>1, <3>1
  <2>2. CASE i # Len(g)
    <3>1. i \in 1 .. Len(g) - 1 /\ i + 1 \in 1 .. Len(g)
      BY <1>1, <2>2
    <3> QED
      BY <1>1, <3>1 DEF Consecutive
  <2> QED
    BY <2>1, <2>2
<1>3. Len(h) - 1 = Len(g)
  BY <1>1
<1>4. Consecutive(h)
  BY <1>2, <1>3 DEF Consecutive
<1> QED
  BY <1>1, <1>4

\* The task that writes an item to a dispatcher keeps the invariant.
LEMMA RingRunWrite ==
  ASSUME RingInv, NEW p \in Pollers, ring_tasks[p] # <<>>,
         ring_tasks' = [ring_tasks EXCEPT ![p] = Tail(@)],
         Head(ring_tasks[p]).kind = "write",
         Ring!RunWrite(p, Head(ring_tasks[p]).id, Head(ring_tasks[p]).n),
         ring_key' = ring_key, ring_main' = ring_main, ring_alive' = ring_alive
  PROVE  RingInv'
<1> PICK u : u = ring_tasks[p]
  OBVIOUS
<1> PICK t : t = Head(u)
  OBVIOUS
<1> PICK d0 : d0 = t.id
  OBVIOUS
<1> PICK n : n = t.n
  OBVIOUS
<1> PICK gone : gone = (~ring_alive /\ ~Ring!Refs(Tail(u), d0))
  OBVIOUS
<1> PICK held : held = Ring!Held(d0)
  OBVIOUS
<1> PICK st0 : st0 = Ring!Stored(ring_disp[d0].st, n, ring_key[n])
  OBVIOUS
<1> DEFINE fed(r) == IF r \in held /\ ring_reader[r].reads
                     THEN [ring_reader[r] EXCEPT !.got = Append(ring_reader[r].got, n)]
                     ELSE ring_reader[r]
           next(r) == IF gone /\ r \in held
                      THEN [fed(r) EXCEPT !.detached = fed(r).detached + 1]
                      ELSE fed(r)
           y == [st |-> st0, readers |-> held]
<1>0. /\ Len(ring_key) \in Nat /\ Len(ring_disp) \in Nat /\ Len(ring_reader) \in Nat
      /\ ring_alive \in BOOLEAN
      /\ \A r \in 1 .. Len(ring_reader) : ring_reader[r] \in Readers
           /\ ring_reader[r].got \in Seq(Nat) /\ ring_reader[r].detached \in Nat
      /\ ring_reader \in Seq(Readers) /\ ring_disp \in Seq(Dispatchers) /\ u \in Seq(Tasks)
      /\ u # <<>>
      /\ t \in Tasks /\ d0 \in 1 .. Len(ring_disp) /\ ring_disp[d0].readers \in SUBSET Nat
      /\ n \in Nat
      /\ t = u[1] /\ 1 \in 1 .. Len(u) /\ t.kind = "write"
  BY RingParts, TasksLeft DEF RingInv, RingTypes, Tasks
<1>1. /\ ring_disp' = [ring_disp EXCEPT ![d0] = y]
      /\ ring_total' = IF ring_alive
                       THEN ring_total - Cardinality(ring_disp[d0].readers \ held)
                       ELSE ring_total
      /\ ring_map' = IF ring_alive /\ ring_disp[d0].readers \ held # {} /\ held = {}
                     THEN [ring_map EXCEPT ![p] = 0]
                     ELSE ring_map
  BY RingCounts DEF Ring!RunWrite
<1>2. ring_reader' = [r \in 1 .. Len(ring_reader) |-> next(r)]
  <2>1. CASE gone
    BY <2>1, Zenon DEF Ring!RunWrite
  <2>2. CASE ~gone
    BY <2>2, Zenon DEF Ring!RunWrite
  <2> QED
    BY <2>1, <2>2, Zenon
<1>3. PICK m \in Nat, e \in Nat : Home(d0, p) /\ Members(d0, p) /\ Told(d0, p, m, e)
  <2>1. PICK o \in Pollers, m \in Nat, e \in Nat : Home(d0, o) /\ Members(d0, o)
          /\ Told(d0, o, m, e)
    BY <1>0 DEF RingInv, DispatcherRight
  <2>2. o = p
    BY <1>0, <2>1 DEF Home
  <2> QED
    BY <2>1, <2>2
<1>4. n = m + 1 /\ m + 1 <= e /\ Span(Tail(u), d0, m + 1, e)
  <2>1. IsWrite(t, d0) /\ Span(u, d0, m, e) /\ d0 \in Nat
    BY <1>0, <1>3 DEF IsWrite, Told
  <2> QED
    BY <1>0, <2>1, SpanNext
<1>5. held \subseteq ring_disp[d0].readers
  BY DEF Ring!Held
<1>6. \A r \in held : r \in 1 .. Len(ring_reader) /\ ring_reader[r].disp = d0
        /\ ring_reader[r].state = "held"
  BY <1>3 DEF Ring!Held, Members
<1>7. Store(st0, m + 1, ring_key)
  <2>1. Store(ring_disp[d0].st, m, ring_key)
    BY <1>3 DEF Told
  <2> PICK ks : ks = ring_key
    OBVIOUS
  <2>2. Store(Ring!Stored(ring_disp[d0].st, m + 1, ks[m + 1]), m + 1, ks)
    BY ONLY <2>1, m \in Nat, ks = ring_key, StoredRight
  <2> QED
    BY <1>4, <2>2
<1>8. y \in Dispatchers /\ y.readers = held /\ y.st = st0
  <2>1. st0 \in Storage
    BY ONLY <1>7 DEF Store, Kept
  <2>2. held \in SUBSET Nat
    BY ONLY <1>0, <1>5
  <2> QED
    BY ONLY <2>1, <2>2 DEF Dispatchers
<1> HIDE DEF y
<1>9. /\ ring_disp' \in Seq(Dispatchers) /\ Len(ring_disp') = Len(ring_disp) /\ ring_disp'[d0] = y
      /\ \A d \in 1 .. Len(ring_disp) : d # d0 => ring_disp'[d] = ring_disp[d]
  BY <1>0, <1>1, <1>8, ExceptSeq
<1>10. ASSUME NEW r \in held
       PROVE  /\ Append(ring_reader[r].got, n) \in Seq(Nat)
              /\ Consecutive(Append(ring_reader[r].got, n))
              /\ Append(ring_reader[r].got, n)[Len(Append(ring_reader[r].got, n))] = m + 1
  <2> PICK g : g = ring_reader[r].got
    OBVIOUS
  <2>1. g \in Seq(Nat) /\ Consecutive(g)
    BY <1>0, <1>6 DEF RingInv, ReaderRight
  <2>2. g # <<>> => g[Len(g)] = m
    BY <1>3, <1>6 DEF Told
  <2> QED
    BY <1>4, <2>1, <2>2, FedOn
<1>11. ASSUME NEW r \in 1 .. Len(ring_reader)
       PROVE  /\ fed(r) \in Readers /\ fed(r).poller = ring_reader[r].poller
              /\ fed(r).disp = ring_reader[r].disp
              /\ fed(r).state = ring_reader[r].state /\ fed(r).reads = ring_reader[r].reads
              /\ fed(r).detached = ring_reader[r].detached
              /\ fed(r).got = IF r \in held /\ ring_reader[r].reads
                              THEN Append(ring_reader[r].got, n)
                              ELSE ring_reader[r].got
  <2>1. CASE r \in held /\ ring_reader[r].reads
    BY <1>0, <1>10, <2>1 DEF Readers
  <2>2. CASE ~(r \in held /\ ring_reader[r].reads)
    BY <1>0, <2>2
  <2> QED
    BY <2>1, <2>2
<1> HIDE DEF fed
<1>12. ASSUME NEW r \in 1 .. Len(ring_reader)
       PROVE  /\ next(r) \in Readers /\ next(r).poller = ring_reader[r].poller
              /\ next(r).disp = ring_reader[r].disp
              /\ next(r).state = ring_reader[r].state /\ next(r).reads = ring_reader[r].reads
              /\ next(r).detached = IF gone /\ r \in held
                                    THEN ring_reader[r].detached + 1
                                    ELSE ring_reader[r].detached
              /\ next(r).got = fed(r).got
  <2>1. CASE gone /\ r \in held
    <3> PICK f : f = fed(r)
      OBVIOUS
    <3>1. f \in Readers /\ f.detached \in Nat /\ f.detached = ring_reader[r].detached
      BY <1>0, <1>11
    <3> PICK z : z = f.detached + 1
      OBVIOUS
    <3> DEFINE g == [f EXCEPT !.detached = z]
    <3>4. z \in Nat
      BY <3>1
    <3>2. /\ g \in Readers /\ g.poller = f.poller /\ g.disp = f.disp /\ g.state = f.state
          /\ g.reads = f.reads /\ g.got = f.got /\ g.detached = z
      BY ONLY <3>1, <3>4 DEF Readers
    <3>3. next(r) = g
      BY <2>1
    <3> HIDE DEF g
    <3> QED
      BY <1>11, <2>1, <3>1, <3>2, <3>3
  <2>2. CASE ~(gone /\ r \in held)
    BY <1>11, <2>2
  <2> QED
    BY <2>1, <2>2
<1> HIDE DEF next
<1>13. ring_reader' \in Seq(Readers) /\ Len(ring_reader') = Len(ring_reader)
         /\ \A r \in 1 .. Len(ring_reader) : ring_reader'[r] = next(r)
  BY <1>0, <1>2, <1>12
<1>14. \A r \in 1 .. Len(ring_reader) :
         /\ ring_reader'[r].poller = ring_reader[r].poller
         /\ ring_reader'[r].disp = ring_reader[r].disp
         /\ ring_reader'[r].state = ring_reader[r].state
         /\ ring_reader'[r].detached = IF ~ring_alive /\ ~Ring!Refs(Tail(ring_tasks[p]), d0)
                                          /\ r \in Ring!Held(d0)
                                       THEN ring_reader[r].detached + 1
                                       ELSE ring_reader[r].detached
         /\ ring_reader'[r].reads = ring_reader[r].reads
         /\ Consecutive(ring_reader'[r].got)
         /\ (~ring_reader[r].reads => ring_reader'[r].got = <<>>)
         /\ r \notin Ring!Held(d0) => ring_reader'[r].got = ring_reader[r].got
  <2> SUFFICES ASSUME NEW r \in 1 .. Len(ring_reader)
               PROVE  /\ Consecutive(ring_reader'[r].got)
                      /\ (~ring_reader[r].reads => ring_reader'[r].got = <<>>)
                      /\ r \notin Ring!Held(d0) => ring_reader'[r].got = ring_reader[r].got
    BY <1>12, <1>13
  <2>1. ring_reader'[r].got = IF r \in held /\ ring_reader[r].reads
                              THEN Append(ring_reader[r].got, n)
                              ELSE ring_reader[r].got
    BY <1>11, <1>12, <1>13
  <2>2. Consecutive(ring_reader[r].got) /\ (~ring_reader[r].reads => ring_reader[r].got = <<>>)
    BY DEF RingInv, ReaderRight
  <2> QED
    BY <1>10, <2>1, <2>2
<1>15. ASSUME NEW r \in Ring!Held(d0), ring_reader'[r].got # <<>>
       PROVE ring_reader'[r].got[Len(ring_reader'[r].got)] = m + 1
  <2>1. r \in held /\ r \in 1 .. Len(ring_reader)
    BY <1>6
  <2>2. ring_reader[r].reads
    BY <1>14, <1>15, <2>1
  <2>3. ring_reader'[r].got = Append(ring_reader[r].got, n)
    BY <1>11, <1>12, <1>13, <2>1, <2>2
  <2> QED
    BY <1>10, <2>1, <2>3
<1>16. ASSUME NEW k \in Nat, NEW l \in Nat, Told(d0, p, k, l)
       PROVE \E i, j \in Nat :
             /\ Store(ring_disp'[d0].st, i, ring_key) /\ i <= j /\ j <= Len(ring_key)
             /\ Span(Tail(ring_tasks[p]), d0, i, j)
             /\ ring_alive /\ ring_map[p] = d0 => j = Len(ring_key)
             /\ \A r \in Ring!Held(d0) : ring_reader'[r].got # <<>>
                  => ring_reader'[r].got[Len(ring_reader'[r].got)] = i
  <2>1. m + 1 \in Nat /\ e \in Nat /\ m + 1 <= e /\ e <= Len(ring_key)
          /\ (ring_alive /\ ring_map[p] = d0 => e = Len(ring_key))
    BY <1>3, <1>4, SMTT(30) DEF Told
  <2>2. Store(ring_disp'[d0].st, m + 1, ring_key) /\ Span(Tail(ring_tasks[p]), d0, m + 1, e)
    BY <1>4, <1>7, <1>8, <1>9
  <2> QED
    BY <1>15, <2>1, <2>2
<1>17. Brought(p, d0)
  BY ONLY <1>16 DEF Brought
<1>18. Shed(p, d0, held)
  BY ONLY <1>1, <1>5, <1>8, <1>9, held = Ring!Held(d0) DEF Shed
<1>19. Served(p, d0)
  BY ONLY <1>13, <1>14 DEF Served
<1>20. /\ Head(ring_tasks[p]).kind # "dealloc" /\ d0 = Head(ring_tasks[p]).id /\ TaskGone(p)
  BY DEF TaskGone
<1> QED
  BY ONLY RingInv, p \in Pollers, <1>17, <1>18, <1>19, <1>20, RingRuns

\* The readers after their dispatcher is gone, or is not.
LEMMA DetachedOnes ==
  ASSUME RingInv, NEW d, NEW gone, NEW us, us = IF gone THEN Ring!Detached(d) ELSE ring_reader
  PROVE  /\ us \in Seq(Readers) /\ Len(us) = Len(ring_reader)
         /\ \A r \in 1 .. Len(ring_reader) :
              /\ us[r].poller = ring_reader[r].poller /\ us[r].disp = ring_reader[r].disp
              /\ us[r].state = ring_reader[r].state /\ us[r].reads = ring_reader[r].reads
              /\ us[r].got = ring_reader[r].got
              /\ us[r].detached = IF gone /\ r \in Ring!Held(d)
                                  THEN ring_reader[r].detached + 1
                                  ELSE ring_reader[r].detached
<1> PICK held : held = Ring!Held(d)
  OBVIOUS
<1> DEFINE next(r) == IF r \in held
                      THEN [ring_reader[r] EXCEPT !.detached = ring_reader[r].detached + 1]
                      ELSE ring_reader[r]
<1>0. /\ Len(ring_reader) \in Nat /\ ring_reader \in Seq(Readers)
      /\ \A r \in 1 .. Len(ring_reader) : ring_reader[r] \in Readers
           /\ ring_reader[r].detached \in Nat
  BY RingParts DEF RingInv, RingTypes
<1>1. CASE ~gone
  BY <1>0, <1>1
<1>2. CASE gone
  <2>1. us = [r \in 1 .. Len(ring_reader) |-> next(r)]
    BY <1>2 DEF Ring!Detached
  <2>2. ASSUME NEW r \in 1 .. Len(ring_reader)
        PROVE  /\ next(r) \in Readers /\ next(r).poller = ring_reader[r].poller
               /\ next(r).disp = ring_reader[r].disp
               /\ next(r).state = ring_reader[r].state /\ next(r).reads = ring_reader[r].reads
               /\ next(r).got = ring_reader[r].got
               /\ next(r).detached = IF r \in held
                                     THEN ring_reader[r].detached + 1
                                     ELSE ring_reader[r].detached
    <3>1. CASE r \in held
      <4> PICK f : f = ring_reader[r]
        OBVIOUS
      <4> PICK z : z = f.detached + 1
        OBVIOUS
      <4> DEFINE g == [f EXCEPT !.detached = z]
      <4>1. f \in Readers /\ z \in Nat
        BY <1>0
      <4>2. /\ g \in Readers /\ g.poller = f.poller /\ g.disp = f.disp /\ g.state = f.state
            /\ g.reads = f.reads /\ g.got = f.got /\ g.detached = z
        BY ONLY <4>1 DEF Readers
      <4>3. next(r) = g
        BY <3>1
      <4> HIDE DEF g
      <4> QED
        BY <3>1, <4>2, <4>3
    <3>2. CASE r \notin held
      BY <1>0, <3>2
    <3> QED
      BY <3>1, <3>2
  <2> HIDE DEF next
  <2> QED
    BY <1>0, <1>2, <2>1, <2>2
<1> QED
  BY <1>1, <1>2

\* The task that clears a dispatcher keeps the invariant.
LEMMA RingRunClear ==
  ASSUME RingInv, NEW p \in Pollers, ring_tasks[p] # <<>>,
         ring_tasks' = [ring_tasks EXCEPT ![p] = Tail(@)],
         Head(ring_tasks[p]).kind = "clear", Ring!RunClear(p, Head(ring_tasks[p]).id),
         ring_key' = ring_key, ring_main' = ring_main, ring_alive' = ring_alive
  PROVE  RingInv'
<1> PICK u : u = ring_tasks[p]
  OBVIOUS
<1> PICK t : t = Head(u)
  OBVIOUS
<1> PICK d0 : d0 = t.id
  OBVIOUS
<1> PICK gone : gone = (~ring_alive /\ ~Ring!Refs(Tail(u), d0))
  OBVIOUS
<1> PICK stay : stay = ring_disp[d0].readers
  OBVIOUS
<1> PICK us : us = ring_reader'
  OBVIOUS
<1> PICK st0 : st0 = Ring!ClearCache(ring_disp[d0].st)
  OBVIOUS
<1> DEFINE y == [ring_disp[d0] EXCEPT !.st = st0]
<1>0. /\ Len(ring_key) \in Nat /\ Len(ring_disp) \in Nat /\ Len(ring_reader) \in Nat
      /\ ring_alive \in BOOLEAN
      /\ ring_disp \in Seq(Dispatchers) /\ u \in Seq(Tasks) /\ u # <<>> /\ ring_total \in Int
      /\ t \in Tasks /\ d0 \in 1 .. Len(ring_disp) /\ ring_disp[d0] \in Dispatchers
      /\ ring_disp[d0].st \in Storage
      /\ t = u[1] /\ 1 \in 1 .. Len(u) /\ t.kind = "clear"
  BY RingParts, TasksLeft DEF RingInv, RingTypes
<1>1. /\ ring_disp' = IF stay = {} THEN [ring_disp EXCEPT ![d0] = y] ELSE ring_disp
      /\ ring_total' = ring_total /\ ring_map' = ring_map
      /\ us = IF gone THEN Ring!Detached(d0) ELSE ring_reader
  <2>1. ring_disp' = IF stay = {} THEN [ring_disp EXCEPT ![d0] = y] ELSE ring_disp
    BY DEF Ring!RunClear
  <2>2. us = IF gone THEN Ring!Detached(d0) ELSE ring_reader
    BY DEF Ring!RunClear
  <2> QED
    BY <2>1, <2>2 DEF Ring!RunClear
<1>2. PICK m \in Nat, e \in Nat : Home(d0, p) /\ Members(d0, p) /\ Told(d0, p, m, e)
  <2>1. PICK o \in Pollers, m \in Nat, e \in Nat : Home(d0, o) /\ Members(d0, o)
          /\ Told(d0, o, m, e)
    BY <1>0 DEF RingInv, DispatcherRight
  <2>2. o = p
    BY <1>0, <2>1 DEF Home
  <2> QED
    BY <2>1, <2>2
<1>3. /\ us \in Seq(Readers) /\ Len(us) = Len(ring_reader)
      /\ \A r \in 1 .. Len(ring_reader) :
           /\ us[r].poller = ring_reader[r].poller /\ us[r].disp = ring_reader[r].disp
           /\ us[r].state = ring_reader[r].state /\ us[r].reads = ring_reader[r].reads
           /\ us[r].got = ring_reader[r].got
           /\ us[r].detached = IF gone /\ r \in Ring!Held(d0)
                               THEN ring_reader[r].detached + 1
                               ELSE ring_reader[r].detached
  <2>1. RingInv /\ us = IF gone THEN Ring!Detached(d0) ELSE ring_reader
    BY ONLY <1>1, RingInv
  <2> QED
    BY ONLY <2>1, DetachedOnes
<1>4. st0 \in Storage /\ \A k \in Nat : Store(st0, k, ring_key)
  <2> PICK ks : ks = ring_key
    OBVIOUS
  <2>1. \A k \in Nat : Store(st0, k, ks)
    BY <1>0, ClearStore, SMTT(30)
  <2>2. Store(st0, 0, ks)
    BY ONLY <2>1
  <2> QED
    BY ONLY <2>1, <2>2, ks = ring_key DEF Store, Kept
<1>5. y \in Dispatchers /\ y.readers = stay /\ y.st = st0
  BY <1>0, <1>4 DEF Dispatchers
<1> HIDE DEF y
<1>6. /\ ring_disp' \in Seq(Dispatchers) /\ Len(ring_disp') = Len(ring_disp)
      /\ ring_disp'[d0].readers = stay
      /\ ring_disp'[d0].st = ring_disp[d0].st \/ ring_disp'[d0].st = st0
      /\ \A d \in 1 .. Len(ring_disp) : d # d0 => ring_disp'[d] = ring_disp[d]
  <2>1. CASE stay = {}
    <3>1. ring_disp' = [ring_disp EXCEPT ![d0] = y]
      BY <1>1, <2>1, ZenonT(30)
    <3> QED
      BY <1>0, <1>5, <3>1, ExceptSeq
  <2>2. CASE stay # {}
    BY <1>0, <1>1, <2>2
  <2> QED
    BY <2>1, <2>2
<1>7. Span(Tail(u), d0, m, e)
  <2>1. ~IsWrite(t, d0) /\ Span(u, d0, m, e) /\ d0 \in Nat
    BY <1>0, <1>2 DEF IsWrite, Told
  <2> QED
    BY <1>0, <2>1, SpanSkip
<1>8. \A r \in Ring!Held(d0) : /\ r \in 1 .. Len(ring_reader) /\ ring_reader[r].disp = d0
                               /\ ring_reader[r].state = "held"
  BY ONLY <1>2 DEF Ring!Held, Members
<1>9. \A r \in 1 .. Len(ring_reader) :
        /\ us[r].detached = IF ~ring_alive /\ ~Ring!Refs(Tail(ring_tasks[p]), d0)
                               /\ r \in Ring!Held(d0)
                            THEN ring_reader[r].detached + 1
                            ELSE ring_reader[r].detached
        /\ Consecutive(us[r].got) /\ (~ring_reader[r].reads => us[r].got = <<>>)
  <2>1. \A r \in 1 .. Len(ring_reader) : Consecutive(ring_reader[r].got)
          /\ (~ring_reader[r].reads => ring_reader[r].got = <<>>)
    BY ONLY RingInv DEF RingInv, ReaderRight
  <2>2. gone = (~ring_alive /\ ~Ring!Refs(Tail(ring_tasks[p]), d0))
    BY Zenon
  <2> QED
    BY ONLY <1>3, <2>1, <2>2
<1>10. Store(ring_disp'[d0].st, m, ring_key)
  BY <1>2, <1>4, <1>6, Zenon DEF Told
<1>11. \A r \in Ring!Held(d0) : us[r].got # <<>> => us[r].got[Len(us[r].got)] = m
  <2>1. \A r \in 1 .. Len(ring_reader) :
          ring_reader[r].disp = d0 /\ ring_reader[r].state = "held"
          /\ ring_reader[r].got # <<>>
            => ring_reader[r].got[Len(ring_reader[r].got)] = m
    BY ONLY <1>2 DEF Told
  <2> SUFFICES ASSUME NEW r \in Ring!Held(d0), us[r].got # <<>>
               PROVE  us[r].got[Len(us[r].got)] = m
    OBVIOUS
  <2>2. us[r].got = ring_reader[r].got
    BY ONLY <1>3, <1>8, r \in Ring!Held(d0)
  <2>3. /\ r \in 1 .. Len(ring_reader) /\ ring_reader[r].disp = d0
        /\ ring_reader[r].state = "held"
    BY ONLY <1>8, r \in Ring!Held(d0)
  <2> QED
    BY <2>1, <2>2, <2>3
<1>12. ASSUME NEW k \in Nat, NEW l \in Nat, Told(d0, p, k, l)
       PROVE \E i, j \in Nat :
             /\ Store(ring_disp'[d0].st, i, ring_key) /\ i <= j /\ j <= Len(ring_key)
             /\ Span(Tail(ring_tasks[p]), d0, i, j)
             /\ ring_alive /\ ring_map[p] = d0 => j = Len(ring_key)
             /\ \A r \in Ring!Held(d0) : ring_reader'[r].got # <<>>
                  => ring_reader'[r].got[Len(ring_reader'[r].got)] = i
  <2>1. m <= e /\ e <= Len(ring_key) /\ (ring_alive /\ ring_map[p] = d0 => e = Len(ring_key))
    BY <1>2 DEF Told
  <2> QED
    BY <1>7, <1>10, <1>11, <2>1
<1>13. /\ stay \in SUBSET ring_disp[d0].readers /\ ring_disp[d0].readers \ stay = {}
       /\ Head(ring_tasks[p]).kind # "dealloc" /\ d0 = Head(ring_tasks[p]).id
  OBVIOUS
<1>14. /\ ring_total' = IF ring_alive
                        THEN ring_total - Cardinality(ring_disp[d0].readers \ stay)
                        ELSE ring_total
       /\ ring_map' = IF ring_alive /\ ring_disp[d0].readers \ stay # {} /\ stay = {}
                      THEN [ring_map EXCEPT ![p] = 0]
                      ELSE ring_map
  <2>1. ring_disp[d0].readers \ stay = {} /\ Cardinality({}) = 0
    BY <1>13, FS_EmptySet
  <2>2. ring_total \in Int /\ ring_total' = ring_total /\ ring_map' = ring_map
    BY <1>0, <1>1
  <2> QED
    BY ONLY <2>1, <2>2
<1>15. /\ ring_reader' \in Seq(Readers) /\ Len(ring_reader') = Len(ring_reader)
       /\ \A r \in 1 .. Len(ring_reader) :
            /\ ring_reader'[r].poller = ring_reader[r].poller
            /\ ring_reader'[r].disp = ring_reader[r].disp
            /\ ring_reader'[r].state = ring_reader[r].state
            /\ ring_reader'[r].detached = IF ~ring_alive /\ ~Ring!Refs(Tail(ring_tasks[p]), d0)
                                             /\ r \in Ring!Held(d0)
                                          THEN ring_reader[r].detached + 1
                                          ELSE ring_reader[r].detached
            /\ ring_reader'[r].reads = ring_reader[r].reads
            /\ Consecutive(ring_reader'[r].got)
            /\ (~ring_reader[r].reads => ring_reader'[r].got = <<>>)
            /\ r \notin Ring!Held(d0) => ring_reader'[r].got = ring_reader[r].got
  BY ONLY <1>3, <1>9, us = ring_reader'
<1>16. Brought(p, d0)
  BY ONLY <1>12 DEF Brought
<1>17. Shed(p, d0, stay)
  BY ONLY <1>6, <1>13, <1>14, stay = ring_disp[d0].readers, Zenon DEF Shed
<1>18. Served(p, d0)
  BY ONLY <1>15 DEF Served
<1>19. TaskGone(p)
  BY DEF TaskGone
<1> QED
  BY ONLY RingInv, p \in Pollers, <1>13, <1>16, <1>17, <1>18, <1>19, RingRuns

\* The task that deletes a dispatcher keeps the invariant.
LEMMA RingDelete ==
  ASSUME RingInv, NEW p \in Pollers, ring_tasks[p] # <<>>,
         ring_tasks' = [ring_tasks EXCEPT ![p] = Tail(@)],
         Head(ring_tasks[p]).kind = "delete", ring_reader' = Ring!Detached(Head(ring_tasks[p]).id),
         ring_disp' = ring_disp, ring_map' = ring_map, ring_total' = ring_total,
         ring_key' = ring_key, ring_main' = ring_main, ring_alive' = ring_alive
  PROVE  RingInv'
<1> PICK u : u = ring_tasks[p]
  OBVIOUS
<1> PICK t : t = Head(u)
  OBVIOUS
<1> PICK d0 : d0 = t.id
  OBVIOUS
<1> PICK stay : stay = ring_disp[d0].readers
  OBVIOUS
<1> PICK us : us = ring_reader'
  OBVIOUS
<1>0. /\ Len(ring_key) \in Nat /\ Len(ring_disp) \in Nat /\ Len(ring_reader) \in Nat
      /\ ring_alive \in BOOLEAN
      /\ ring_disp \in Seq(Dispatchers) /\ u \in Seq(Tasks) /\ u # <<>> /\ ring_total \in Int
      /\ t \in Tasks /\ d0 \in 1 .. Len(ring_disp)
      /\ t = u[1] /\ 1 \in 1 .. Len(u) /\ t.kind = "delete"
  BY RingParts, TasksLeft DEF RingInv, RingTypes
<1>1. ~ring_alive /\ ~Ring!Refs(Tail(u), d0)
  <2>1. QueueRight(u, ring_disp, ring_reader, ring_alive)
    BY DEF RingInv
  <2>2. ~ring_alive /\ \A j \in 1 .. Len(u) : j # 1 /\ u[j].id = d0 => u[j].kind = "dealloc"
    BY <1>0, <2>1 DEF QueueRight
  <2>3. /\ Len(Tail(u)) = Len(u) - 1 /\ Len(u) \in Nat
        /\ \A i \in 1 .. Len(u) - 1 : Tail(u)[i] = u[i + 1]
    BY <1>0, TaskTail
  <2>4. \A i \in 1 .. Len(Tail(u)) : i + 1 \in 1 .. Len(u) /\ i + 1 # 1 /\ Tail(u)[i] = u[i + 1]
    BY <2>3
  <2> QED
    BY <2>2, <2>4 DEF Ring!Refs
<1>2. PICK m \in Nat, e \in Nat : Home(d0, p) /\ Members(d0, p) /\ Told(d0, p, m, e)
  <2>1. PICK o \in Pollers, m \in Nat, e \in Nat : Home(d0, o) /\ Members(d0, o)
          /\ Told(d0, o, m, e)
    BY <1>0 DEF RingInv, DispatcherRight
  <2>2. o = p
    BY <1>0, <2>1 DEF Home
  <2> QED
    BY <2>1, <2>2
<1>3. /\ us \in Seq(Readers) /\ Len(us) = Len(ring_reader)
      /\ \A r \in 1 .. Len(ring_reader) :
           /\ us[r].poller = ring_reader[r].poller /\ us[r].disp = ring_reader[r].disp
           /\ us[r].state = ring_reader[r].state /\ us[r].reads = ring_reader[r].reads
           /\ us[r].got = ring_reader[r].got
           /\ us[r].detached = IF r \in Ring!Held(d0)
                               THEN ring_reader[r].detached + 1
                               ELSE ring_reader[r].detached
  <2>1. us = IF TRUE THEN Ring!Detached(d0) ELSE ring_reader
    OBVIOUS
  <2> QED
    BY <2>1, DetachedOnes
<1>4. Span(Tail(u), d0, m, e)
  <2>1. ~IsWrite(t, d0) /\ Span(u, d0, m, e) /\ d0 \in Nat
    <3>1. Span(u, d0, m, e)
      BY <1>2 DEF Told
    <3> QED
      BY ONLY <1>0, <3>1 DEF IsWrite
  <2> QED
    BY <1>0, <2>1, SpanSkip
<1>5. \A r \in Ring!Held(d0) : /\ r \in 1 .. Len(ring_reader) /\ ring_reader[r].disp = d0
                               /\ ring_reader[r].state = "held"
  BY ONLY <1>2 DEF Ring!Held, Members
<1>6. \A r \in Ring!Held(d0) : us[r].got # <<>> => us[r].got[Len(us[r].got)] = m
  <2>1. \A r \in 1 .. Len(ring_reader) :
          ring_reader[r].disp = d0 /\ ring_reader[r].state = "held"
          /\ ring_reader[r].got # <<>>
            => ring_reader[r].got[Len(ring_reader[r].got)] = m
    BY ONLY <1>2 DEF Told
  <2> SUFFICES ASSUME NEW r \in Ring!Held(d0), us[r].got # <<>>
               PROVE  us[r].got[Len(us[r].got)] = m
    OBVIOUS
  <2>2. us[r].got = ring_reader[r].got
    BY ONLY <1>3, <1>5, r \in Ring!Held(d0), SMTT(30)
  <2>3. /\ r \in 1 .. Len(ring_reader) /\ ring_reader[r].disp = d0
        /\ ring_reader[r].state = "held"
    BY ONLY <1>5, r \in Ring!Held(d0)
  <2> QED
    BY <2>1, <2>2, <2>3
<1>7. ASSUME NEW k \in Nat, NEW l \in Nat, Told(d0, p, k, l)
      PROVE \E i, j \in Nat :
            /\ Store(ring_disp'[d0].st, i, ring_key) /\ i <= j /\ j <= Len(ring_key)
            /\ Span(Tail(ring_tasks[p]), d0, i, j)
            /\ ring_alive /\ ring_map[p] = d0 => j = Len(ring_key)
            /\ \A r \in Ring!Held(d0) : ring_reader'[r].got # <<>>
                 => ring_reader'[r].got[Len(ring_reader'[r].got)] = i
  <2>1. m <= e /\ e <= Len(ring_key) /\ Store(ring_disp[d0].st, m, ring_key)
    BY <1>2 DEF Told
  <2> QED
    BY <1>1, <1>4, <1>6, <2>1
<1>8. /\ stay \in SUBSET ring_disp[d0].readers /\ ring_disp[d0].readers \ stay = {}
      /\ ring_disp'[d0].readers = stay
      /\ Head(ring_tasks[p]).kind # "dealloc" /\ d0 = Head(ring_tasks[p]).id
  OBVIOUS
<1>9. /\ ring_total' = IF ring_alive
                       THEN ring_total - Cardinality(ring_disp[d0].readers \ stay)
                       ELSE ring_total
      /\ ring_map' = IF ring_alive /\ ring_disp[d0].readers \ stay # {} /\ stay = {}
                     THEN [ring_map EXCEPT ![p] = 0]
                     ELSE ring_map
  BY <1>1, SMTT(30)
<1>10. /\ ring_reader' \in Seq(Readers) /\ Len(ring_reader') = Len(ring_reader)
       /\ \A r \in 1 .. Len(ring_reader) :
            /\ ring_reader'[r].poller = ring_reader[r].poller
            /\ ring_reader'[r].disp = ring_reader[r].disp
            /\ ring_reader'[r].state = ring_reader[r].state
            /\ ring_reader'[r].detached = IF ~ring_alive /\ ~Ring!Refs(Tail(ring_tasks[p]), d0)
                                             /\ r \in Ring!Held(d0)
                                          THEN ring_reader[r].detached + 1
                                          ELSE ring_reader[r].detached
            /\ ring_reader'[r].reads = ring_reader[r].reads
            /\ Consecutive(ring_reader'[r].got)
            /\ (~ring_reader[r].reads => ring_reader'[r].got = <<>>)
            /\ r \notin Ring!Held(d0) => ring_reader'[r].got = ring_reader[r].got
  BY <1>1, <1>3 DEF RingInv, ReaderRight
<1>11. Brought(p, d0)
  BY ONLY <1>7 DEF Brought
<1>12. Shed(p, d0, stay)
  BY ONLY <1>0, <1>8, <1>9, ring_disp' = ring_disp, stay = ring_disp[d0].readers DEF Shed
<1>13. Served(p, d0)
  BY ONLY <1>10 DEF Served
<1>14. TaskGone(p)
  BY DEF TaskGone
<1> QED
  BY ONLY RingInv, p \in Pollers, <1>8, <1>11, <1>12, <1>13, <1>14, RingRuns

\* Running a task keeps the invariant.
LEMMA RingRunTask ==
  ASSUME RingInv, NEW p \in Pollers, Ring!RunTask(p)
  PROVE  RingInv'
<1>1. /\ ring_tasks[p] # <<>> /\ ring_tasks' = [ring_tasks EXCEPT ![p] = Tail(@)]
      /\ ring_key' = ring_key /\ ring_main' = ring_main /\ ring_alive' = ring_alive
  BY DEF Ring!RunTask
<1>2. CASE Head(ring_tasks[p]).kind = "write"
        /\ Ring!RunWrite(p, Head(ring_tasks[p]).id, Head(ring_tasks[p]).n)
  BY <1>1, <1>2, RingRunWrite
<1>3. CASE Head(ring_tasks[p]).kind = "clear" /\ Ring!RunClear(p, Head(ring_tasks[p]).id)
  BY <1>1, <1>3, RingRunClear
<1>4. CASE Head(ring_tasks[p]).kind = "dealloc" /\ Ring!Dealloc(p, Head(ring_tasks[p]).n)
  BY <1>1, <1>4, RingDealloc
<1>5. CASE /\ Head(ring_tasks[p]).kind = "delete"
        /\ ring_reader' = Ring!Detached(Head(ring_tasks[p]).id)
           /\ ring_disp' = ring_disp /\ ring_map' = ring_map /\ ring_total' = ring_total
  BY <1>1, <1>5, RingDelete
<1> QED
  BY <1>2, <1>3, <1>4, <1>5 DEF Ring!RunTask

\* A new ring has the invariant.
LEMMA RingInit ==
  ASSUME Ring!Init
  PROVE  RingInv
<1>1. /\ ring_key = <<>> /\ ring_main = Ring!EmptyStorage /\ ring_disp = <<>>
      /\ ring_map = [p \in Pollers |-> 0] /\ ring_total = 0
      /\ ring_tasks = [p \in Pollers |-> <<>>] /\ ring_reader = <<>> /\ ring_alive = TRUE
  BY DEF Ring!Init
<1>2. /\ Len(ring_key) = 0 /\ Len(ring_disp) = 0 /\ Len(ring_reader) = 0
      /\ ring_key \in Seq(BOOLEAN) /\ ring_disp \in Seq(Dispatchers) /\ ring_reader \in Seq(Readers)
  BY <1>1, EmptySeq
<1>3. \A p \in Pollers : ring_tasks[p] \in Seq(Tasks) /\ Len(ring_tasks[p]) = 0 /\ ring_map[p] = 0
  BY <1>1, EmptySeq
<1>4. RingTypes
  BY <1>1, <1>2, <1>3 DEF RingTypes
<1>5. Store(ring_main, Len(ring_key), ring_key)
  <2> PICK w : w = <<<<>>>>
    OBVIOUS
  <2> PICK st : st = Ring!EmptyStorage
    OBVIOUS
  <2>1. w \in GopSeqs
    BY EmptySeq, OneGroup
  <2>2. st = [cache |-> w, size |-> 0, idr |-> FALSE, started |-> FALSE]
    BY DEF Ring!EmptyStorage
  <2>3. st \in Storage
    BY <2>1, <2>2 DEF Storage
  <2>4. Ring!ClearCache(st) = [st EXCEPT !.size = 0, !.idr = FALSE, !.cache = w]
    BY DEF Ring!ClearCache
  <2>5. Ring!ClearCache(st) = st
    BY ONLY <2>2, <2>4
  <2> PICK ks : ks = ring_key
    OBVIOUS
  <2>6. Store(Ring!ClearCache(st), 0, ks)
    BY <2>3, ClearStore
  <2> QED
    BY <1>1, <1>2, <2>5, <2>6
<1>6. \A p \in Pollers : /\ QueueRight(ring_tasks[p], ring_disp, ring_reader, ring_alive)
                         /\ ring_map[p] \in 0 .. Len(ring_disp)
                         /\ (~ring_alive => ring_map[p] = 0)
  BY <1>2, <1>3 DEF QueueRight
<1>7. ring_total = Cardinality(AllReaders)
  <2>1. AllReaders = {}
    BY <1>2 DEF AllReaders
  <2> QED
    BY <1>1, <2>1, FS_EmptySet
<1> QED
  BY <1>2, <1>4, <1>5, <1>6, <1>7 DEF RingInv

\* What a right storage says of its items.
LEMMA StoreTells ==
  ASSUME NEW st, NEW m \in Nat, Store(st, m, ring_key)
  PROVE  LET flat == Ring!FlattenSeq(st.cache) IN
         /\ st.size = Len(flat) /\ st.size <= MaxSize
         /\ \A i \in 1 .. Len(flat) - 1 : flat[i + 1] = flat[i] + 1
         /\ \A i \in 1 .. Len(st.cache) : \A j \in 1 .. Len(st.cache[i]) :
              ring_key[st.cache[i][j]] => j = 1
<1> PICK flat : flat = Ring!FlattenSeq(st.cache)
  OBVIOUS
<1>1. Run(flat, m) /\ st.size = Len(flat) /\ st.size <= MaxSize /\ Grouped(st.cache, m, ring_key)
  BY DEF Store, Kept
<1>2. \A i \in 1 .. Len(flat) - 1 : flat[i + 1] = flat[i] + 1
  BY <1>1, RunGives DEF Consecutive
<1>3. \A i \in 1 .. Len(st.cache) : \A j \in 1 .. Len(st.cache[i]) : ring_key[st.cache[i][j]]
        => j = 1
  BY <1>1 DEF Grouped
<1> QED
  BY <1>1, <1>2, <1>3

\* The invariant says what the ring promises.
LEMMA RingGood ==
  ASSUME RingInv
  PROVE  Ring!RingBufferRight
<1>0. /\ Len(ring_key) \in Nat /\ Len(ring_disp) \in Nat
      /\ \A r \in 1 .. Len(ring_reader) : ring_reader[r].poller \in Pollers
           /\ ring_reader[r].disp \in 1 .. Len(ring_disp)
      /\ \A p \in Pollers : ring_map[p] \in 0 .. Len(ring_disp)
  BY RingParts
<1>1. Ring!StorageRight
  <2>1. ASSUME NEW st \in Ring!Storages PROVE \E m \in Nat : Store(st, m, ring_key)
    <3>1. CASE st = ring_main
      BY <1>0, <3>1 DEF RingInv
    <3>2. CASE \E d \in 1 .. Len(ring_disp) : st = ring_disp[d].st
      BY <3>2 DEF RingInv, DispatcherRight, Told
    <3> QED
      BY <3>1, <3>2 DEF Ring!Storages
  <2> QED
    BY <2>1, StoreTells DEF Ring!StorageRight
<1>2. Ring!NoGap
  BY DEF Ring!NoGap, RingInv, ReaderRight, Consecutive
<1>3. Ring!UpToDate
  <2> SUFFICES ASSUME NEW r \in 1 .. Len(ring_reader), NEW p \in Pollers,
                      ring_reader[r].state = "held",
                      ring_reader[r].got # <<>>, ring_reader[r].poller = p, ring_tasks[p] = <<>>,
                      ring_alive
               PROVE  Ring!Last(ring_reader[r].got) = Len(ring_key)
    BY DEF Ring!UpToDate
  <2> PICK d : d = ring_reader[r].disp
    OBVIOUS
  <2>1. d \in 1 .. Len(ring_disp) /\ r \in ring_disp[d].readers
    BY <1>0 DEF RingInv, ReaderRight
  <2>2. PICK o \in Pollers, m \in Nat, e \in Nat : Home(d, o) /\ Members(d, o) /\ Told(d, o, m, e)
    BY <2>1 DEF RingInv, DispatcherRight
  <2>3. o = p
    BY <2>2 DEF Home
  <2>4. e = Len(ring_key) /\ m <= e
    BY <2>1, <2>2, <2>3 DEF Members, Told
  <2>5. ~(m + 1 <= e)
    <3>1. Len(ring_tasks[p]) = 0
      BY EmptySeq
    <3>2. \A n \in m + 1 .. e : FALSE
      BY <2>2, <2>3, <3>1 DEF Told, Span
    <3> QED
      BY <3>2
  <2>6. ring_reader[r].got[Len(ring_reader[r].got)] = m
    BY <2>2 DEF Told
  <2> QED
    BY <2>4, <2>5, <2>6 DEF Ring!Last
<1>4. Ring!CountRight
  <2> SUFFICES ASSUME ring_alive PROVE Ring!CountRight
    BY DEF Ring!CountRight
  <2>1. ring_total = Cardinality(UNION {ring_disp[d].readers : d \in 1 .. Len(ring_disp)})
    BY DEF RingInv, AllReaders
  <2>2. ASSUME NEW p \in Pollers, ring_tasks[p] = <<>>, ring_map[p] # 0
        PROVE \E r \in 1 .. Len(ring_reader) : ring_reader[r].state = "held"
                /\ ring_reader[r].poller = p
    <3> PICK d : d = ring_map[p]
      OBVIOUS
    <3>1. d \in 1 .. Len(ring_disp)
      BY <1>0, <2>2
    <3>2. PICK o \in Pollers, m \in Nat, e \in Nat : Home(d, o) /\ Members(d, o) /\ Told(d, o, m, e)
      BY <3>1 DEF RingInv, DispatcherRight
    <3>3. o = p
      BY <3>2 DEF Home
    <3>4. PICK r : r \in ring_disp[d].readers
      BY <3>2, <3>3 DEF Members
    <3>5. ~Leaves(ring_tasks[p], r)
      <4>1. Len(ring_tasks[p]) = 0
        BY <2>2, EmptySeq
      <4> QED
        BY <4>1 DEF Leaves
    <3>6. r \in 1 .. Len(ring_reader) /\ ring_reader[r].disp = d
            /\ ring_reader[r].state # "deleted" /\ ring_reader[r].state # "released"
      BY <3>2, <3>3, <3>4, <3>5 DEF Members
    <3>7. ring_reader[r].state \in {"held", "released", "deleted"}
      BY <3>6, RingParts
    <3>8. ring_reader[r].poller = p
      BY <3>2, <3>3, <3>6 DEF Home
    <3> QED
      BY <3>6, <3>7, <3>8
  <2>3. ASSUME NEW r \in 1 .. Len(ring_reader), ring_reader[r].state = "held"
        PROVE ring_map[ring_reader[r].poller] # 0
    <3> PICK d : d = ring_reader[r].disp
      OBVIOUS
    <3>1. d \in 1 .. Len(ring_disp) /\ r \in ring_disp[d].readers
      BY <1>0, <2>3 DEF RingInv, ReaderRight
    <3>2. PICK o \in Pollers, m \in Nat, e \in Nat : Home(d, o) /\ Members(d, o) /\ Told(d, o, m, e)
      BY <3>1 DEF RingInv, DispatcherRight
    <3>3. ring_reader[r].poller = o
      BY <3>2 DEF Home
    <3> QED
      BY <3>1, <3>2, <3>3 DEF Members
  <2> QED
    BY <2>1, <2>2, <2>3, RingCounts DEF Ring!CountRight
<1>5. Ring!DetachedOnce
  <2> SUFFICES ASSUME NEW r \in 1 .. Len(ring_reader)
               PROVE  /\ ring_reader[r].detached <= 1
                      /\ ~ring_alive /\ ring_tasks[ring_reader[r].poller] = <<>>
                           /\ ring_reader[r].state = "held"
                             => ring_reader[r].detached = 1
    BY DEF Ring!DetachedOnce
  <2>1. ReaderRight(r)
    BY DEF RingInv
  <2>2. ring_tasks[ring_reader[r].poller] = <<>>
          => ~Ring!Refs(ring_tasks[ring_reader[r].poller], ring_reader[r].disp)
    BY EmptySeq DEF Ring!Refs
  <2> QED
    BY <2>1, <2>2 DEF ReaderRight
<1> QED
  BY <1>1, <1>2, <1>3, <1>4, <1>5 DEF Ring!RingBufferRight

\* For any pollers, storage and groups: each storage holds items without a gap, a key item only
\* at the front of its group, and no more than it may; a reader that was given an item misses
\* none after it and gets none twice, and it has all when its thread has nothing to do;
\* readerCount counts each reader once, and each one still held is told once that the ring is
\* gone.
THEOREM RingSafe == Ring!Spec => []Ring!RingBufferRight
<1>1. Ring!Init => RingInv
  BY RingInit
<1>2. RingInv /\ [Ring!Next]_Ring!vars => RingInv'
  <2> SUFFICES ASSUME RingInv, [Ring!Next]_Ring!vars PROVE RingInv'
    OBVIOUS
  <2>1. CASE \E k \in BOOLEAN : Ring!Write(k)
    BY <2>1, RingWrite
  <2>2. CASE Ring!Clear
    BY <2>2, RingClear
  <2>3. CASE Ring!Destroy
    BY <2>3, RingDestroy
  <2>4. CASE \E p \in Pollers : Ring!RunTask(p)
    BY <2>4, RingRunTask
  <2>5. CASE \E p \in Pollers : \E c \in UseCache : Ring!Attach(p, c)
    BY <2>5, RingAttach
  <2>6. CASE \E r \in 1 .. Len(ring_reader) : Ring!SetReadCB(r)
    BY <2>6, RingSetReadCB
  <2>7. CASE \E r \in 1 .. Len(ring_reader) : Ring!DropHere(r)
    BY <2>7, RingDropHere
  <2>8. CASE \E r \in 1 .. Len(ring_reader) : Ring!Drop(r)
    BY <2>8, RingDrop
  <2>9. CASE UNCHANGED Ring!vars
    <3>1. /\ ring_key' = ring_key /\ ring_main' = ring_main /\ ring_disp' = ring_disp
          /\ ring_map' = ring_map /\ ring_total' = ring_total
          /\ ring_tasks' = ring_tasks /\ ring_reader' = ring_reader /\ ring_alive' = ring_alive
      BY <2>9 DEF Ring!vars
    <3>2. RingTypes' /\ AllReaders' = AllReaders
      BY <3>1 DEF RingInv, RingTypes, AllReaders
    <3>3. \A r \in 1 .. Len(ring_reader') : ReaderRight(r)'
      BY <3>1 DEF RingInv, ReaderRight
    <3>4. ASSUME NEW d \in 1 .. Len(ring_disp') PROVE DispatcherRight(d)'
      <4>1. PICK o \in Pollers, m \in Nat, e \in Nat : Home(d, o) /\ Members(d, o)
              /\ Told(d, o, m, e)
        BY <3>1 DEF RingInv, DispatcherRight
      <4>2. Home(d, o)'
        BY <3>1, <4>1 DEF Home
      <4>3. Members(d, o)'
        BY <3>1, <4>1 DEF Members
      <4>4. Told(d, o, m, e)'
        BY <3>1, <4>1 DEF Told
      <4> QED
        BY <4>2, <4>3, <4>4 DEF DispatcherRight
    <3>5. Store(ring_main, Len(ring_key), ring_key)'
      BY <3>1 DEF RingInv
    <3>6. \A p \in Pollers : /\ QueueRight(ring_tasks[p], ring_disp, ring_reader, ring_alive)'
                             /\ (ring_map[p] \in 0 .. Len(ring_disp))'
                             /\ (~ring_alive => ring_map[p] = 0)'
      BY <3>1 DEF RingInv
    <3>7. (ring_alive => ring_total = Cardinality(AllReaders))'
      BY <3>1, <3>2 DEF RingInv
    <3> QED
      BY <3>2, <3>3, <3>4, <3>5, <3>6, <3>7 DEF RingInv
  <2> QED
    BY <2>1, <2>2, <2>3, <2>4, <2>5, <2>6, <2>7, <2>8, <2>9 DEF Ring!Next
<1> QED
  BY <1>1, <1>2, RingGood, PTL DEF Ring!Spec

\* What is told to many is told right: the readers of a ring get its items in order and without
\* a gap, the listeners of an event are called while they are in it.
THEOREM BroadcastSafe == Ring!Spec /\ Notice!Spec => []BroadcastRight
<1>1. Ring!RingBufferRight /\ Notice!NoticeCenterRight => BroadcastRight
  BY DEF BroadcastRight
<1> QED
  BY <1>1, RingSafe, NoticeSafe, PTL
=============================================================================
