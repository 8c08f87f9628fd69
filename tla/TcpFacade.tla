----------------------------- MODULE TcpFacade -----------------------------
(***************************************************************************)
(* ITCP and TCPImp (src/Communcation): one object that holds a client and  *)
(* a server and gives each call to one of them, by the type of the last    *)
(* init.  The functions the application sets (TCPCommon) are called by a   *)
(* poller thread, or, for a server that detaches, by the one thread of a   *)
(* pool that takes the data from a queue which drops the oldest.  What     *)
(* connects, closes and reads underneath is the subject of TcpClient and   *)
(* TcpSessions.                                                            *)
(***************************************************************************)
EXTENDS Integers, SequencesExt

CONSTANTS
  MaxSet,       \* bound: calls of the set functions
  MaxData,      \* bound: buffers the server receives
  QueueSize     \* queue_max_count of recv_blocking_queue_

Kinds == {"read", "connect", "flush", "error"}
Nobody == <<"nobody", "none", 0>>

VARIABLES
  d_ptr,        \* ITCP::d_ptr_: "new", then "null" or "made"
  tcp_type,     \* tcp_type_; 0 is neither
  to_recv,      \* is_to_recv_
  detach,       \* the server's tcp_init_.is_detach_recv_; the client's stays FALSE
  func,         \* the functions of both objects, by the call that set them; 0 none
  sets,         \* calls of the set functions
  poller,       \* what the poller thread calls: <<object, kind, function>>
  posting,      \* the poller thread is between put and async
  queue,        \* recv_blocking_queue_
  jobs,         \* what the pool has to do
  worker,       \* what the pool's thread calls
  taken,        \* the buffer it has
  received,     \* buffers the server has received
  delivered,    \* buffers the application got from the server
  dropped,      \* buffers that put threw away
  skipped       \* a task of the pool found no function

objVars == <<d_ptr, tcp_type, to_recv, detach, func, sets>>
callVars == <<poller, worker, taken, posting>>
dataVars == <<queue, jobs, received, delivered, dropped, skipped>>
vars == <<objVars, callVars, dataVars>>

Init ==
  /\ d_ptr = "new" /\ tcp_type = "0" /\ to_recv = FALSE /\ detach = FALSE
  /\ func = [o \in {"client", "server"} |-> [k \in Kinds |-> 0]] /\ sets = 0
  /\ poller = Nobody /\ posting = FALSE /\ queue = <<>> /\ jobs = <<>>
  /\ worker = Nobody /\ taken = 0 /\ received = 0 /\ delivered = <<>>
  /\ dropped = {} /\ skipped = FALSE

-----------------------------------------------------------------------------
(* new(std::nothrow) may give nothing; each call then returns -1. *)
Construct ==
  /\ d_ptr = "new"
  /\ d_ptr' \in {"null", "made"}
  /\ UNCHANGED <<tcp_type, to_recv, detach, func, sets, callVars, dataVars>>

(* TCPClientImp::init leaves its tcp_init_ as it was; TCPServerImp::init starts the
   pool if it is to receive and to detach. *)
InitTcp(t, r, d) ==
  /\ d_ptr = "made" /\ tcp_type = "0"
  /\ tcp_type' = t /\ to_recv' = r /\ detach' = (d /\ t = "server")
  /\ UNCHANGED <<d_ptr, func, sets, callVars, dataVars>>

PoolStarted == tcp_type = "server" /\ to_recv /\ detach

(* TCPImp: whatever is not the client goes to the server, before init as well. *)
Target == IF tcp_type = "client" THEN "client" ELSE "server"

(* Who is inside a function with the lock that setting it takes: the client's
   poller thread, but not when it reads; the server's pool, but not its poller
   thread, which takes a lock of its own. *)
Locked(o, k) ==
  \/ o = "client" /\ k # "read" /\ poller[1] = o /\ poller[2] = k
  \/ o = "server" /\ k = "read" /\ worker[2] = "read"

(* Mutant: the functions are set without the lock. *)
SetOnFuncUnlocked(k) ==
  /\ d_ptr = "made" /\ sets < MaxSet
  /\ sets' = sets + 1
  /\ \E f \in {0, sets + 1} : func' = [func EXCEPT ![Target][k] = f]
  /\ UNCHANGED <<d_ptr, tcp_type, to_recv, detach, callVars, dataVars>>

(* TCPCommon::setOnReadFunc and the three others; an empty function is one, too. *)
SetOnFunc(k) ==
  /\ d_ptr = "made" /\ sets < MaxSet /\ ~Locked(Target, k)
  /\ sets' = sets + 1
  /\ \E f \in {0, sets + 1} : func' = [func EXCEPT ![Target][k] = f]
  /\ UNCHANGED <<d_ptr, tcp_type, to_recv, detach, callVars, dataVars>>

-----------------------------------------------------------------------------
(* TCPClientImp::onConnect, onErr and onFlush: without a function nothing is called. *)
ClientEvent(k) ==
  /\ tcp_type = "client" /\ poller = Nobody
  /\ k \in {"connect", "error", "flush"} /\ func["client"][k] # 0
  /\ poller' = <<"client", k, func["client"][k]>>
  /\ UNCHANGED <<objVars, posting, worker, taken, dataVars>>

(* TCPClientImp::onRecv; without a function it throws, and the data is lost. *)
ClientRecv ==
  /\ tcp_type = "client" /\ poller = Nobody
  /\ to_recv /\ func["client"]["read"] # 0
  /\ poller' = <<"client", "read", func["client"]["read"]>>
  /\ UNCHANGED <<objVars, posting, worker, taken, dataVars>>

(* Mutant: the newest is dropped. *)
PutOver(b) ==
  IF Len(queue) > QueueSize
  THEN queue' = Append(Front(queue), b) /\ dropped' = dropped \cup {Last(queue)}
  ELSE queue' = Append(queue, b) /\ UNCHANGED dropped

(* BlockingQueue::put never waits: more than QueueSize, and the oldest is dropped. *)
Put(b) ==
  IF Len(queue) > QueueSize
  THEN queue' = Append(Tail(queue), b) /\ dropped' = dropped \cup {Head(queue)}
  ELSE queue' = Append(queue, b) /\ UNCHANGED dropped

(* TCPServerImp::MyonRecv does not look at is_to_recv_. *)
MyonRecv ==
  /\ tcp_type = "server" /\ poller = Nobody /\ ~posting
  /\ received < MaxData
  /\ func["server"]["read"] # 0
  /\ received' = received + 1
  /\ IF detach
     THEN Put(received + 1) /\ posting' = TRUE /\ UNCHANGED poller
     ELSE /\ poller' = <<"server", "read", func["server"]["read"]>>
          /\ UNCHANGED <<posting, queue, dropped>>
  /\ UNCHANGED <<objVars, worker, taken, jobs, delivered, skipped>>

(* A task follows the buffer. *)
Async ==
  /\ posting /\ posting' = FALSE
  /\ jobs' = Append(jobs, "read")
  /\ UNCHANGED <<objVars, poller, worker, taken, queue, received, delivered, dropped, skipped>>

MyonError ==
  /\ tcp_type = "server" /\ poller = Nobody /\ ~posting
  /\ func["server"]["error"] # 0
  /\ IF detach
     THEN /\ Len(jobs) < QueueSize + 1   \* bound
          /\ jobs' = Append(jobs, "error") /\ UNCHANGED poller
     ELSE poller' = <<"server", "error", func["server"]["error"]>> /\ UNCHANGED jobs
  /\ UNCHANGED <<objVars, posting, worker, taken, queue, received, delivered, dropped, skipped>>

PollerReturns ==
  /\ poller # Nobody
  /\ poller' = Nobody
  /\ delivered' = IF poller[1] = "server" /\ poller[2] = "read" THEN Append(delivered, received)
                                                                ELSE delivered
  /\ UNCHANGED <<objVars, posting, worker, taken, queue, jobs, received, dropped, skipped>>

(* The pool's thread runs a task.  recvDataWorker takes what is first in the queue, if a function
   is set, and take of an empty queue returns at once: a buffer without bytes, and nobody is
   called.  An error task calls the function that is set by then, with a message that may be
   gone; an empty one throws, which the pool catches. *)
RecvDataWorker ==
  LET f == func["server"][Head(jobs)]
      read == Head(jobs) = "read"
      call == f # 0 /\ (read => queue # <<>>)
  IN  /\ PoolStarted /\ worker = Nobody
      /\ jobs # <<>> /\ jobs' = Tail(jobs)
      /\ worker' = IF call THEN <<"server", Head(jobs), f>> ELSE Nobody
      /\ IF call /\ read THEN taken' = Head(queue) /\ queue' = Tail(queue)
                         ELSE UNCHANGED <<taken, queue>>
      /\ skipped' = (skipped \/ (read /\ f = 0))
  /\ UNCHANGED <<objVars, posting, poller, received, delivered, dropped>>

WorkerReturns ==
  /\ worker # Nobody
  /\ worker' = Nobody
  /\ delivered' = IF worker[2] = "read" THEN Append(delivered, taken) ELSE delivered
  /\ UNCHANGED <<objVars, posting, poller, taken, queue, jobs, received, dropped, skipped>>

Next ==
  \/ Construct \/ \E t \in {"client", "server"}, r, d \in BOOLEAN : InitTcp(t, r, d)
  \/ \E k \in Kinds : SetOnFunc(k) \/ ClientEvent(k)
  \/ ClientRecv \/ MyonRecv \/ MyonError \/ Async \/ PollerReturns
  \/ RecvDataWorker \/ WorkerReturns

(* The application's functions return and both threads run. *)
Fairness ==
  /\ WF_vars(Async) /\ WF_vars(PollerReturns)
  /\ WF_vars(RecvDataWorker) /\ WF_vars(WorkerReturns)

Spec == Init /\ [][Next]_vars /\ Fairness

-----------------------------------------------------------------------------
TypeOK ==
  /\ d_ptr \in {"new", "null", "made"} /\ tcp_type \in {"0", "client", "server"}
  /\ {to_recv, detach, posting, skipped} \subseteq BOOLEAN
  /\ func \in [{"client", "server"} -> [Kinds -> 0 .. MaxSet]] /\ sets \in 0 .. MaxSet
  /\ {poller[3], worker[3]} \subseteq 0 .. MaxSet
  /\ {taken, received} \subseteq 0 .. MaxData /\ queue \in Seq(1 .. MaxData)
  /\ jobs \in Seq({"read", "error"}) /\ delivered \in Seq(1 .. MaxData)
  /\ dropped \subseteq 1 .. MaxData

(* A function is not replaced while it runs, where its lock is the one that setting
   it takes: the client's functions but the one for data, and the pool's one. *)
NotReplaced ==
  /\ (poller[1] = "client" /\ poller[2] # "read") => func["client"][poller[2]] = poller[3]
  /\ worker[2] = "read" => func["server"]["read"] = worker[3]

(* What the worker and the poller thread hold, apart from the queue. *)
InHand ==
  (IF worker[2] = "read" THEN <<taken>> ELSE <<>>)
    \o (IF poller[1] = "server" /\ poller[2] = "read" THEN <<received>> ELSE <<>>)

(* The application gets the server's buffers in the order they came and each once.  None is
   lost but what put dropped, and the newest QueueSize + 1 are never dropped.  Drops leave
   tasks behind that find nothing, but a buffer in the queue always has a task to come, unless
   one was used up while no function was set. *)
BuffersInOrder ==
  LET all == delivered \o InHand \o queue IN
  /\ \A i, j \in DOMAIN all : i < j => all[i] < all[j]
  /\ ToSet(all) \cap dropped = {} /\ ToSet(all) \cup dropped = 1 .. received
  /\ \A b \in dropped : b < received - QueueSize
  /\ ~skipped => Len(queue) <= Len(SelectSeq(jobs, LAMBDA j : j = "read"))
                                 + (IF posting THEN 1 ELSE 0)

(* Every buffer is delivered or dropped, unless the server detaches without receiving, so that
   nobody takes from the queue, or a task found no function. *)
Delivered ==
  \A b \in 1 .. MaxData :
    received >= b ~> b \in ToSet(delivered) \cup dropped \/ (detach /\ ~to_recv) \/ skipped
=============================================================================
