----------------------------- MODULE SerialPort -----------------------------
(***************************************************************************)
(* src/SerialPort/SPUnix.cpp: a serial port with a thread that selects on  *)
(* it (a ThreadPlus), a cache that send() fills and that thread empties,   *)
(* and a pool of one thread that hands what was read to the application.   *)
(* Bytes and messages are numbers in the order they come.                  *)
(***************************************************************************)
EXTENDS Integers, Sequences, SequencesExt

CONSTANTS
  MaxMessage,    \* bound: calls of send
  MaxByte,       \* bound: bytes that arrive
  MaxInit,       \* bound: calls of init
  NextLen        \* lengths the application asks for (setNextReadLen)

VARIABLES
  open,          \* sp_fd_ # -1
  to_recv,       \* sp_init_.is_to_recv_
  running,       \* recv_thread_is_running_
  thread,        \* where the poller thread is
  seen,          \* the fd sets after select: <<readable, writable>>
  latch,         \* CountDownLatch of the ThreadPlus
  user,          \* the user thread
  suspended,     \* sp_suspend_
  listen,        \* listen_to_write_
  cache,         \* send_l1_cache_; send_l2_cache_ is never filled
  swap,          \* send_swap_cache_
  sent,          \* calls of send
  wire,          \* messages written
  arrived,       \* bytes that have come
  taken,         \* bytes read
  sp_buf,        \* sp_buf_
  jobs,          \* closures of pushData2Client in the pool
  tmp,           \* sp_buf_tmp of the one that runs
  next_len,      \* next_read_len_
  delivered,     \* bytes handed to the application
  history        \* what has happened: see the properties

loopVars == <<running, thread, seen, latch>>
sendVars == <<listen, cache, swap, sent, wire>>
readVars == <<arrived, taken, sp_buf, jobs, tmp, next_len, delivered>>
vars == <<open, to_recv, user, suspended, loopVars, sendVars, readVars, history>>

TypeOK ==
  /\ {open, to_recv, running, suspended, listen} \subseteq BOOLEAN
  /\ thread \in {"none", "start", "top", "read", "write", "flush", "sending"}
  /\ user \in {"idle", "starting", "closing"} /\ latch \in 1 - MaxInit .. 1
  /\ seen \in BOOLEAN \X BOOLEAN
  /\ {cache, swap, sent} \subseteq 0 .. MaxMessage /\ wire \in Seq(1 .. MaxMessage)
  /\ {arrived, taken, jobs} \subseteq 0 .. MaxByte
  /\ {sp_buf, tmp, delivered} \subseteq Seq(0 .. MaxByte)
  /\ next_len \in NextLen
  /\ history \subseteq {"empty", "met", "merged", "wide"}

Init ==
  /\ open = FALSE /\ to_recv = FALSE /\ running = FALSE /\ suspended = FALSE /\ listen = FALSE
  /\ thread = "none" /\ user = "idle" /\ latch = 1 /\ seen = <<FALSE, FALSE>>
  /\ cache = 0 /\ swap = 0 /\ sent = 0 /\ wire = <<>>
  /\ arrived = 0 /\ taken = 0 /\ jobs = 0 /\ next_len = 1
  /\ sp_buf = <<>> /\ tmp = <<>> /\ delivered = <<>>
  /\ history = {}

-----------------------------------------------------------------------------
(* init; it leaves the port closed if opening or a setting fails.  Without
   is_to_recv_ no thread is started, the one that writes included. *)
InitSP(r) ==
  /\ user = "idle" /\ ~open /\ latch > 1 - MaxInit
  /\ open' = TRUE /\ to_recv' = r
  /\ IF r THEN running' = TRUE /\ thread' = "start" /\ user' = "starting"
          ELSE UNCHANGED <<running, thread, user>>
  /\ UNCHANGED <<seen, latch, suspended, sendVars, readVars, history>>

(* ThreadPlus::start waits until the thread has counted its latch down, which
   was done long ago when it is started again. *)
RunInThread ==
  /\ thread = "start"
  /\ thread' = "top" /\ latch' = latch - 1
  /\ UNCHANGED <<open, to_recv, user, suspended, running, seen, sendVars, readVars, history>>

Started ==
  /\ user = "starting" /\ latch <= 0
  /\ user' = "idle"
  /\ UNCHANGED <<open, to_recv, suspended, loopVars, sendVars, readVars, history>>

(* send replaces what is in the cache.  Data of no length, or as long as the
   cache, leaves it empty. *)
Send(stored) ==
  /\ user = "idle" /\ open /\ ~suspended /\ sent < MaxMessage
  /\ sent' = sent + 1
  /\ cache' = IF stored THEN sent + 1 ELSE 0
  /\ listen' = TRUE
  /\ history' = (history \ {"met"}) \cup (IF stored THEN {} ELSE {"empty"})
                                    \cup (IF thread = "sending" THEN {"met"} ELSE {})
  /\ UNCHANGED <<open, to_recv, user, suspended, loopVars, swap, wire, readVars>>

(* shutdown: it joins the poller thread; the cache keeps what was not written. *)
Shutdown ==
  /\ user = "idle" /\ open
  /\ listen' = FALSE
  /\ IF to_recv THEN running' = FALSE /\ user' = "closing" /\ UNCHANGED open
                ELSE open' = FALSE /\ UNCHANGED <<running, user>>
  /\ history' = history \cup {"met"}
  /\ UNCHANGED <<to_recv, suspended, thread, seen, latch, cache, swap, sent, wire, readVars>>

Joined ==
  /\ user = "closing" /\ thread = "none"
  /\ open' = FALSE /\ user' = "idle"
  /\ UNCHANGED <<to_recv, suspended, loopVars, sendVars, readVars, history>>

Suspend(flag) ==
  /\ user = "idle" /\ open /\ suspended # flag
  /\ suspended' = flag
  /\ UNCHANGED <<open, to_recv, user, loopVars, sendVars, readVars, history>>

SetNextReadLen(n) ==
  /\ user = "idle" /\ n # next_len
  /\ next_len' = n
  /\ history' = IF n > 1 THEN history \cup {"wide"} ELSE history
  /\ UNCHANGED <<open, to_recv, user, suspended, loopVars, sendVars, arrived, taken, sp_buf,
                 jobs, tmp, delivered>>

(* External: a byte on the line, read by nobody while the port is closed. *)
Arrive ==
  /\ open /\ arrived < MaxByte
  /\ arrived' = arrived + 1
  /\ UNCHANGED <<open, to_recv, user, suspended, loopVars, sendVars, taken, sp_buf, jobs, tmp,
                 next_len, delivered, history>>

-----------------------------------------------------------------------------
(* The poller thread.  The set for writing is filled in any case, and left as
   it is when select does not get it. *)
Select ==
  /\ thread = "top"
  /\ \/ /\ ~running
        /\ thread' = "none"
        /\ UNCHANGED seen
     \/ \E room \in BOOLEAN :
          /\ running /\ ~suspended
          /\ arrived > taken \/ (listen /\ room)
          /\ seen' = <<arrived > taken, listen => room>>
          /\ thread' = "read"
  /\ UNCHANGED <<open, to_recv, user, suspended, running, latch, sendVars, readVars, history>>

(* SPBuffer::append: not behind what is there but over it, from its begin; the
   end grows by the length all the same.  0 is a stale byte. *)
Stored(buf, new) ==
  LET old == SubSeq(buf, Len(new) + 1, Len(buf))
      stale == Len(buf) - Len(old) IN
    new \o old \o [i \in 1 .. stale |-> 0]

(* readEvent takes the bytes FIONREAD has counted; onReadData stores them and
   hands a closure to the pool. *)
ReadEvent ==
  /\ thread = "read"
  /\ thread' = "write"
  /\ IF seen[1]
     THEN /\ sp_buf' = Stored(sp_buf, [i \in 1 .. arrived - taken |-> taken + i])
          /\ jobs' = jobs + 1 /\ taken' = arrived
          /\ history' = IF sp_buf # <<>> THEN history \cup {"merged"} ELSE history
     ELSE UNCHANGED <<sp_buf, jobs, taken, history>>
  /\ UNCHANGED <<open, to_recv, user, suspended, running, seen, latch, sendVars, arrived, tmp,
                 next_len, delivered>>

WriteEvent ==
  /\ thread = "write"
  /\ thread' = IF listen /\ seen[2] THEN "flush" ELSE "top"
  /\ seen' = <<FALSE, FALSE>>
  /\ UNCHANGED <<open, to_recv, user, suspended, running, latch, sendVars, readVars, history>>

(* Mutant: the cache is copied and keeps its length. *)
TakeCacheKept ==
  /\ thread = "flush"
  /\ swap' = cache /\ listen' = (listen /\ cache # 0)
  /\ thread' = "sending"
  /\ UNCHANGED <<open, to_recv, user, suspended, running, seen, latch, cache, sent, wire, readVars, history>>

(* flushAllData takes the cache under its lock ... *)
TakeCache ==
  /\ thread = "flush"
  /\ swap' = cache /\ cache' = 0 /\ listen' = (listen /\ cache # 0)
  /\ thread' = "sending"
  /\ UNCHANGED <<open, to_recv, user, suspended, running, seen, latch, sent, wire, readVars, history>>

(* ... and writes until all is out or an error, then stops listening without the
   lock.  When there was nothing to write it calls itself. *)
FlushAllData ==
  /\ thread = "sending"
  /\ \/ /\ swap = 0
        /\ thread' = "flush"
        /\ UNCHANGED <<listen, swap, wire>>
     \/ /\ swap # 0
        /\ swap' = 0 /\ listen' = FALSE /\ thread' = "top"
        /\ wire' = Append(wire, swap) \/ UNCHANGED wire
  /\ UNCHANGED <<open, to_recv, user, suspended, running, seen, latch, cache, sent, readVars, history>>

-----------------------------------------------------------------------------
(* pushData2Client on the pool's thread takes all of the buffer ... *)
TakeBuffer ==
  /\ jobs > 0 /\ tmp = <<>>
  /\ jobs' = jobs - 1
  /\ tmp' = sp_buf /\ sp_buf' = <<>>
  /\ UNCHANGED <<open, to_recv, user, suspended, loopVars, sendVars, arrived, taken, next_len,
                 delivered, history>>

(* ... and hands it on in pieces of the length that is asked for now.  What is
   left at the end goes with the local buffer. *)
PushData2Client ==
  /\ tmp # <<>>
  /\ IF Len(tmp) < next_len
     THEN tmp' = <<>> /\ UNCHANGED delivered
     ELSE /\ delivered' = delivered \o SubSeq(tmp, 1, next_len)
          /\ tmp' = SubSeq(tmp, next_len + 1, Len(tmp))
  /\ UNCHANGED <<open, to_recv, user, suspended, loopVars, sendVars, arrived, taken, sp_buf, jobs,
                 next_len, history>>

Next ==
  \/ \E b \in BOOLEAN : InitSP(b) \/ Send(b) \/ Suspend(b)
  \/ Started \/ Shutdown \/ Joined \/ Arrive
  \/ \E n \in NextLen : SetNextReadLen(n)
  \/ RunInThread \/ Select \/ ReadEvent \/ WriteEvent \/ TakeCache \/ FlushAllData
  \/ TakeBuffer \/ PushData2Client

(* Both threads run, a started thread and a join come to their end, and the line
   takes bytes often enough for select to say so. *)
Fairness ==
  /\ WF_vars(RunInThread) /\ WF_vars(Started) /\ WF_vars(Joined)
  /\ WF_vars(Select) /\ WF_vars(ReadEvent) /\ WF_vars(WriteEvent)
  /\ SF_vars(Select /\ seen'[2])
  /\ WF_vars(TakeCache) /\ WF_vars(FlushAllData)
  /\ WF_vars(TakeBuffer) /\ WF_vars(PushData2Client)

Spec == Init /\ [][Next]_vars /\ Fairness

-----------------------------------------------------------------------------
Increasing(s) == \A i, j \in 1 .. Len(s) : i < j => s[i] < s[j]

(* Messages are written once and in order. *)
WireOrder == Increasing(wire)

(* Data waits in the cache of a port that does not listen for writability only
   if it came while an earlier message was being written, or before a shutdown. *)
NoneStuck == (open /\ cache # 0 /\ ~listen) => "met" \in history

(* The application gets bytes in the order of the line unless two reads met in
   the buffer, and none is missing if it never asked for more than one. *)
InOrder == "merged" \in history \/ Increasing(delivered)
NoGap ==
  history \cap {"merged", "wide"} = {} =>
    \A i \in 1 .. Len(delivered) : delivered[i] = i

(* A message that met nothing is taken from the cache, if the port has a thread
   and is neither suspended nor closed. *)
Served ==
  \A m \in 1 .. MaxMessage :
    cache = m ~> \/ cache # m \/ "met" \in history
                 \/ suspended \/ ~to_recv

(* shutdown returns, unless empty data keeps flushAllData calling itself. *)
Closes == user = "closing" ~> (user = "idle" \/ "empty" \in history)

(* What the two threads and the flag between them keep. *)
SerialPortRight == TypeOK /\ WireOrder /\ NoneStuck /\ InOrder /\ NoGap
=============================================================================
