----------------------------- MODULE SerialWin -----------------------------
(***************************************************************************)
(* src/SerialPort/SPWin.cpp in its asynchronous mode: init, shutdown and   *)
(* the calls that take mutex_fd_, and the thread that asks the driver for  *)
(* what is in its queue and calls the application.  Bytes are numbers in   *)
(* the order they come; 0 is a byte of the buffer that was not read.       *)
(***************************************************************************)
EXTENDS Integers, Sequences, SequencesExt

CONSTANTS
  MaxByte,     \* bound: bytes that arrive
  NextLen,     \* lengths the application asks for
  MaxInit      \* bound: calls of init

VARIABLES
  handle,      \* sp_handle_ is valid
  thread_of,   \* the handle the thread has copied is still that of the port
  to_recv,     \* sp_init_.is_to_recv_
  running,     \* recv_thread_is_running_
  thread,      \* where the thread is
  wCount,      \* bytes the driver gave
  user,        \* the application's own thread
  mutex_fd,    \* who holds mutex_fd_
  queue,       \* bytes in the driver
  arrived,     \* bytes that have come
  next_len,    \* next_read_len_
  delivered,   \* bytes handed to the application
  events,      \* event handles left open (counted to 2)
  inits,       \* calls of init
  history      \* what has happened: see the properties

portVars == <<handle, thread_of, to_recv, running, user, inits>>
dataVars == <<queue, arrived, delivered>>
vars == <<portVars, dataVars, thread, wCount, mutex_fd, next_len, events, history>>

Init ==
  /\ handle = FALSE /\ thread_of = FALSE /\ to_recv = FALSE /\ running = FALSE
  /\ thread = "none" /\ wCount = 0 /\ user = "idle" /\ mutex_fd = "free"
  /\ queue = <<>> /\ arrived = 0 /\ delivered = <<>> /\ next_len = 1
  /\ events = 0 /\ inits = 0 /\ history = {}

(* open: a port that is open already is refused, after init has stored what it
   was asked for.  activeConfig throws away what the driver has and starts the
   thread; failures of the configuration are not looked at.  To start the thread
   while an old one runs ends the program (std::terminate). *)
InitPort(r) ==
  /\ user = "idle" /\ inits < MaxInit
  /\ (r /\ ~handle) => thread = "none"
  /\ inits' = inits + 1 /\ to_recv' = r
  /\ IF handle
     THEN /\ history' = history \cup (IF r # to_recv THEN {"refused"} ELSE {})
          /\ UNCHANGED <<handle, thread_of, running, thread, queue, user>>
     ELSE /\ handle' = TRUE /\ queue' = <<>>
          /\ IF r THEN running' = TRUE /\ thread' = "top" /\ thread_of' = TRUE
                  ELSE UNCHANGED <<running, thread, thread_of>>
          /\ UNCHANGED <<history, user>>
  /\ UNCHANGED <<arrived, delivered, wCount, mutex_fd, next_len, events>>

(* Mutant: the flag that stops the thread is left set. *)
ShutdownRunning ==
  /\ user = "idle" /\ handle /\ mutex_fd = "free"
  /\ mutex_fd' = "user" /\ user' = "closing"
  /\ UNCHANGED <<handle, thread_of, to_recv, inits, running, dataVars, thread, wCount, next_len, events, history>>

(* shutdown takes the lock and, if sp_init_ says there is one, stops the thread.
   Where none was ever started it uses a null pointer, taken here as a return. *)
Shutdown ==
  /\ user = "idle" /\ handle /\ mutex_fd = "free"
  /\ mutex_fd' = "user" /\ user' = "closing"
  /\ running' = (running /\ ~to_recv)
  /\ UNCHANGED <<handle, thread_of, to_recv, inits, dataVars, thread, wCount, next_len, events, history>>

(* The join is over, or there is none; what the driver has is purged. *)
CloseHandle ==
  /\ user = "closing" /\ (to_recv => thread = "none")
  /\ handle' = FALSE /\ thread_of' = FALSE /\ queue' = <<>>
  /\ user' = "idle" /\ mutex_fd' = "free"
  /\ UNCHANGED <<to_recv, running, inits, arrived, delivered, thread, wCount, next_len, events, history>>

SetNextReadLen(n) ==
  /\ user = "idle" /\ n # next_len
  /\ next_len' = n
  /\ history' = IF thread \in {"reading", "calling"} THEN history \cup {"changed"} ELSE history
  /\ UNCHANGED <<portVars, dataVars, thread, wCount, mutex_fd, events>>

Arrive ==
  /\ handle /\ arrived < MaxByte
  /\ arrived' = arrived + 1 /\ queue' = Append(queue, arrived + 1)
  /\ UNCHANGED <<portVars, delivered, thread, wCount, mutex_fd, next_len, events, history>>

-----------------------------------------------------------------------------
(* One turn of recvTheadFunc: it makes an event and, if the driver has bytes,
   reads; an event is closed only if there was nothing to read or the read failed. *)
Turn ==
  /\ thread = "top"
  /\ \/ ~running /\ thread' = "none"
     \/ running /\ thread_of /\ queue # <<>> /\ thread' = "reading"
  /\ UNCHANGED <<portVars, dataVars, wCount, mutex_fd, next_len, events, history>>

(* ReadFile gives what there is, up to next_read_len_.  When the driver answers
   later the thread waits for it and drops it. *)
ReadFile ==
  /\ thread = "reading" /\ thread_of
  /\ LET n == IF Len(queue) < next_len THEN Len(queue) ELSE next_len IN
       \/ /\ thread' = "calling" /\ wCount' = n /\ queue' = SubSeq(queue, n + 1, Len(queue))
          /\ events' = IF events < 2 THEN events + 1 ELSE 2
          /\ history' = history \cup (IF n < next_len THEN {"short"} ELSE {})
       \/ /\ thread' = "top" /\ queue' = SubSeq(queue, n + 1, Len(queue))
          /\ events' = IF events < 2 THEN events + 1 ELSE 2
          /\ history' = history \cup {"pending"}
          /\ UNCHANGED wCount
  /\ UNCHANGED <<portVars, arrived, delivered, mutex_fd, next_len>>

ReadFails ==
  /\ thread = "reading" /\ ~thread_of
  /\ thread' = "top"
  /\ UNCHANGED <<portVars, dataVars, wCount, mutex_fd, next_len, events, history>>

(* The application gets next_read_len_ bytes, as it is now, of the buffer.  It
   may call suspend or setTimeouts, which wait for mutex_fd_. *)
RecvFunc ==
  /\ thread = "calling"
  /\ LET last == arrived - Len(queue) IN
       delivered' = delivered \o [i \in 1 .. next_len |->
                                    IF i <= wCount THEN last - wCount + i ELSE 0]
  /\ \/ thread' = "top"
     \/ thread' = "locking"
  /\ UNCHANGED <<portVars, queue, arrived, wCount, mutex_fd, next_len, events, history>>

Suspend ==
  /\ thread = "locking" /\ mutex_fd = "free"
  /\ thread' = "top"
  /\ UNCHANGED <<portVars, dataVars, wCount, mutex_fd, next_len, events, history>>

Next ==
  \/ \E r \in BOOLEAN : InitPort(r)
  \/ Shutdown \/ CloseHandle \/ Arrive
  \/ \E n \in NextLen : SetNextReadLen(n)
  \/ Turn \/ ReadFile \/ ReadFails \/ RecvFunc \/ Suspend

(* The thread runs; a join ends when it has ended. *)
Fairness ==
  /\ WF_vars(Turn) /\ WF_vars(ReadFile) /\ WF_vars(ReadFails) /\ WF_vars(RecvFunc)
  /\ WF_vars(Suspend) /\ WF_vars(CloseHandle)

Spec == Init /\ [][Next]_vars /\ Fairness

-----------------------------------------------------------------------------
TypeOK ==
  /\ {handle, thread_of, to_recv, running} \subseteq BOOLEAN
  /\ thread \in {"none", "top", "reading", "calling", "locking"}
  /\ user \in {"idle", "closing"} /\ mutex_fd \in {"free", "user"}
  /\ queue \in Seq(1 .. MaxByte) /\ delivered \in Seq(0 .. MaxByte) /\ wCount \in 0 .. MaxByte
  /\ arrived \in 0 .. MaxByte /\ inits \in 0 .. MaxInit /\ next_len \in NextLen
  /\ history \subseteq {"refused", "changed", "short", "pending"}

(* The bytes the application gets are bytes of the line, in their order, unless a
   read was short or the length changed between the read and the call. *)
InOrder ==
  history \cap {"changed", "short"} = {} =>
    \A i, j \in 1 .. Len(delivered) : i < j => 0 < delivered[i] /\ delivered[i] < delivered[j]

(* An answer that comes later is lost: without one, what is missing at the
   application is in the driver, with the thread, or was purged by a shutdown. *)
NoneLost ==
  (history = {} /\ inits = 1 /\ handle /\ user = "idle") =>
    Len(delivered) + Len(queue) + (IF thread = "calling" THEN wCount ELSE 0) = arrived

(* The thread has the handle of the port that is open, unless a refused init has
   changed what shutdown goes by. *)
ThreadsHandle == (thread # "none" /\ "refused" \notin history) => thread_of

(* shutdown comes back unless the callback waits for the lock it holds. *)
Closes == user = "closing" ~> (user = "idle" \/ thread = "locking" \/ "refused" \in history)

(* What a port and its thread keep. *)
SerialWinRight == TypeOK /\ InOrder /\ NoneLost /\ ThreadsHandle
=============================================================================
