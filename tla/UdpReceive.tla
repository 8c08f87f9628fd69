----------------------------- MODULE UdpReceive -----------------------------
(***************************************************************************)
(* src/Communcation/UDPImp.cpp with is_to_recv_ and is_detach_recv_ set:   *)
(* the poller thread puts each datagram into a BlockingQueue and hands a   *)
(* closure to a ThreadPool of one thread, whose worker takes a datagram    *)
(* and calls the application.  init() and shutdown() stop that pool and    *)
(* hold m_send_mutex, which the application's send() takes too.            *)
(***************************************************************************)
EXTENDS SequencesExt, FiniteSets, Integers

CONSTANTS Poller,     \* the thread of the socket's poller
          W,          \* the thread of m_recvThreadPool
          App,        \* the application thread that calls init and shutdown
          None,
          MaxData,    \* bound: datagrams that arrive
          Cap,        \* queue_max_count of the BlockingQueue
          MaxStops    \* bound: calls of init() and shutdown()

ASSUME ConstantsAssumption ==
  /\ Poller # W
  /\ None \notin {App, W} /\ App # W
  /\ MaxData \in Nat /\ Cap \in Nat /\ MaxStops \in Nat

Data == 1 .. MaxData

VARIABLES
  queue, count, posting, worker, control, cancelled, submitted, runs, stops, due,
              \* m_recvThreadPool
  buf,        \* block_queue_recv_buf_
  open,       \* the socket is bound and attached to the poller
  mutex,      \* holder of m_send_mutex
  app,        \* where the application thread stands
  arrived,    \* number of the last datagram that was read
  reader,     \* where the poller thread stands in OnReadDataFunc
  job,        \* where the worker stands in recvWorkerThread
  rb,         \* the datagram it took
  delivered   \* what the application's callback was called with

poolVars == <<queue, count, posting, worker, control, cancelled, submitted, runs, stops, due>>
udpVars  == <<buf, open, mutex, app, arrived, reader, job, rb, delivered>>
vars     == <<poolVars, udpVars>>

\* One closure per datagram; any of them takes whatever datagram is first.
Pool == INSTANCE ThreadPool WITH
          Client <- {Poller}, Worker <- {W}, Task <- Data, Urgent <- {}, StopIdle <- TRUE

TypeOK ==
  /\ Pool!TypeOK
  /\ buf \in Seq(Data) /\ Len(buf) <= Cap + 1
  /\ open \in BOOLEAN
  /\ mutex \in {None, App, W}
  /\ app \in {"idle", "init", "attach", "start", "shutdown"}
  /\ arrived \in 0 .. MaxData
  /\ reader \in {"idle", "async"}
  /\ job \in {"idle", "take", "call", "send"}
  /\ rb \in 0 .. MaxData
  /\ delivered \in Seq(0 .. MaxData)

Init ==
  /\ Pool!Init
  /\ buf = <<>> /\ open = FALSE /\ mutex = None
  /\ app = "idle" /\ arrived = 0 /\ reader = "idle"
  /\ job = "idle" /\ rb = 0 /\ delivered = <<>>

-----------------------------------------------------------------------------
(* init() and shutdown(), m_send_mutex held from end to end.               *)

\* shutdown(), called by the application or first thing by initSocket().
Shutdown(caller) ==
  /\ app = "idle" /\ mutex = None
  /\ mutex' = App /\ app' = caller
  /\ open' = FALSE
  /\ Pool!Stop
  /\ UNCHANGED <<buf, arrived, reader, job, rb, delivered>>

ShutdownDone ==
  /\ app = "shutdown" /\ Pool!Join
  /\ app' = "idle" /\ mutex' = None
  /\ UNCHANGED <<buf, open, arrived, reader, job, rb, delivered>>

InitStopped ==
  /\ app = "init" /\ Pool!Join
  /\ app' = "attach"
  /\ UNCHANGED <<buf, open, mutex, arrived, reader, job, rb, delivered>>

\* bindSock, initCast and setAttach succeed and reading begins, or init() returns.
Attach ==
  /\ app = "attach"
  /\ \/ open' = TRUE /\ app' = "start" /\ UNCHANGED mutex
     \/ open' = FALSE /\ app' = "idle" /\ mutex' = None
  /\ UNCHANGED <<poolVars, buf, arrived, reader, job, rb, delivered>>

InitDone ==
  /\ app = "start" /\ Pool!Start
  /\ app' = "idle" /\ mutex' = None
  /\ UNCHANGED <<buf, open, arrived, reader, job, rb, delivered>>

-----------------------------------------------------------------------------
(* OnReadDataFunc on the poller thread.                                    *)

\* BlockingQueue::put: over the bound the oldest are dropped, before the new one is added.
Put(x) == buf' = Append(IF Cap < Len(buf) THEN Tail(buf) ELSE buf, x)

OnRead ==
  /\ open /\ reader = "idle" /\ Poller \notin posting
  /\ arrived < MaxData
  /\ arrived' = arrived + 1
  /\ Put(arrived + 1)
  /\ reader' = "async"
  /\ UNCHANGED <<poolVars, open, mutex, app, job, rb, delivered>>

\* Fault: the closure is not handed over.
HandOverNothing ==
  /\ reader = "async" /\ reader' = "idle"
  /\ UNCHANGED <<poolVars, buf, open, mutex, app, arrived, job, rb, delivered>>

HandOver ==
  /\ reader = "async" /\ Pool!Async(Poller, arrived)
  /\ reader' = "idle"
  /\ UNCHANGED <<buf, open, mutex, app, arrived, job, rb, delivered>>

HandOverPost == Pool!Post(Poller) /\ UNCHANGED udpVars

-----------------------------------------------------------------------------
(* The thread of the pool and recvWorkerThread.                            *)

Idle == (Pool!WaitPermit(W) \/ Pool!Leave(W)) /\ UNCHANGED udpVars

StartJob ==
  /\ Pool!GetTask(W)
  /\ job' = "take"
  /\ UNCHANGED <<buf, open, mutex, app, arrived, reader, rb, delivered>>

\* Fault: the newest datagram is taken.
TakeLast ==
  /\ job = "take" /\ buf # <<>>
  /\ rb' = Last(buf) /\ buf' = Front(buf)
  /\ job' = "call"
  /\ UNCHANGED <<poolVars, open, mutex, app, arrived, reader, delivered>>

\* BlockingQueue::take.
Take ==
  /\ job = "take" /\ buf # <<>>
  /\ rb' = Head(buf) /\ buf' = Tail(buf)
  /\ job' = "call"
  /\ UNCHANGED <<poolVars, open, mutex, app, arrived, reader, delivered>>

\* take() of an empty queue returns at once, with an empty buffer: nothing to deliver.  But
\* length() of a copied FixedBuffer counts from a pointer into the original, so that unless
\* the compiler returns the buffer in place the application is called, with no bytes (0).
TakeNothing ==
  /\ job = "take" /\ buf = <<>>
  /\ \/ job' = "idle" /\ Pool!Finish(W) /\ UNCHANGED rb
     \/ job' = "call" /\ rb' = 0 /\ UNCHANGED poolVars
  /\ UNCHANGED <<buf, open, mutex, app, arrived, reader, delivered>>

\* The application's callback begins; it may answer with send().
Deliver ==
  /\ job = "call"
  /\ delivered' = Append(delivered, rb)
  /\ \/ job' = "idle" /\ Pool!Finish(W)
     \/ job' = "send" /\ UNCHANGED poolVars
  /\ UNCHANGED <<buf, open, mutex, app, arrived, reader, rb>>

\* UDPImp::send takes m_send_mutex and returns, and so does the callback.
Send ==
  /\ job = "send" /\ mutex = None
  /\ job' = "idle" /\ Pool!Finish(W)
  /\ UNCHANGED <<buf, open, mutex, app, arrived, reader, rb, delivered>>

-----------------------------------------------------------------------------
AppStep    == ShutdownDone \/ InitStopped \/ Attach \/ InitDone
ReaderStep == HandOver \/ HandOverPost
WorkerStep == Idle \/ StartJob \/ Take \/ TakeNothing \/ Deliver \/ Send

Next ==
  \/ \E caller \in {"init", "shutdown"} : Shutdown(caller)
  \/ OnRead
  \/ AppStep \/ ReaderStep \/ WorkerStep

Spec == Init /\ [][Next]_vars

\* The three threads run, and the callbacks return once they can.
Fairness == WF_vars(AppStep) /\ WF_vars(ReaderStep) /\ WF_vars(WorkerStep)

FairSpec == Spec /\ Fairness
-----------------------------------------------------------------------------
(* Properties.                                                             *)

\* The application gets the datagrams in the order in which they were read, none twice,
\* whatever the queue dropped, however often the pool was stopped and started, and however
\* often it was called with none in between.
InOrder ==
  \A i, j \in DOMAIN delivered :
    (i < j /\ delivered[i] # 0 /\ delivered[j] # 0) => delivered[i] < delivered[j]

\* Every datagram in the queue has a closure that will take it: about to be handed over,
\* queued in the pool, or running and not yet at take().
EachHasClosure ==
  Len(buf) <= Len(queue) + (IF reader = "async" THEN 1 ELSE 0)
                         + (IF job = "take" THEN 1 ELSE 0)

\* A datagram that was read is given to the application while the socket stays open,
\* unless newer ones displace it.
EventuallyDelivered ==
  \A n \in Data : n \in ToSet(buf) ~> (n \notin ToSet(buf) \/ ~open)

\* shutdown() returns.
ShutdownReturns == app = "shutdown" ~> app = "idle"
=============================================================================
