----------------------------- MODULE SocketSend -----------------------------
(***************************************************************************)
(* The sending half of src/Network/Socket.cpp for one connected TCP socket: *)
(* send() puts a buffer into the first-level list, flushData() moves it to *)
(* the second level and to the kernel, and what the kernel refuses waits   *)
(* for the writable event of the poller.  User threads and the poller      *)
(* thread run it at the same time; User = {} is a socket created with      *)
(* enable_mutex = false, on which only the poller thread may call.         *)
(*                                                                         *)
(* A step ends where another thread's step can matter.  Buffers are        *)
(* numbered as they are accepted; the lists are flattened to them.         *)
(***************************************************************************)
EXTENDS SequencesExt, Integers

CONSTANTS User,       \* threads other than the poller's that call send()
          Poller,     \* the thread of _poller
          None,
          MaxBuf,     \* bound: buffers ever handed to send()
          KCap,       \* buffers the kernel's send buffer holds
          TryFlush,   \* values of try_flush the callers pass to send()
          Toggles,    \* whether enableRecv() is called
          Exclusive   \* whether the system has EPOLLEXCLUSIVE: the cases to look at

ASSUME ConstantsAssumption ==
  /\ Poller \notin User /\ None \notin User \cup {Poller}
  /\ MaxBuf \in Nat
  /\ KCap \in Nat \ {0}
  /\ TryFlush \subseteq BOOLEAN
  /\ Toggles \in BOOLEAN
  /\ Exclusive \subseteq BOOLEAN

VARIABLES
  waiting,        \* _send_buf_waiting
  sending,        \* _send_buf_sending
  tmp,            \* flushData's send_buf_sending_tmp, of each thread
  wire,           \* what the kernel accepted, in order
  kernel,         \* how much of it the peer has not taken yet
  sendable,       \* _sendable
  open,           \* _sock_fd is set
  reset,          \* the peer has reset the connection
  exclusive,      \* the descriptor was added with EPOLLEXCLUSIVE, which addEvent asks for
  armed,          \* EPOLLOUT is in the descriptor's epoll mask
  edge,           \* epoll has a writable event to report (edge triggered)
  report,         \* events of the last epoll report the poller has still to handle
  mtx_sock,       \* holder of _mtx_sock_fd, recursive
  mtx_waiting,    \* holder of _mtx_send_buf_waiting
  mtx_event,      \* holder of _mtx_event, recursive; the poller during a callback
  pc,             \* where each thread stands
  empty_waiting,  \* onWriteAble's local of that name
  next,           \* number of the next buffer
  asked,          \* last buffer handed over with try_flush
  errors          \* _on_err closures posted to the poller

bufVars  == <<waiting, sending, tmp, wire, kernel>>
sockVars == <<sendable, open, reset, exclusive>>
pollVars == <<armed, edge, report>>
lockVars == <<mtx_sock, mtx_waiting, mtx_event>>
ghostVars == <<next, asked>>
restVars == <<empty_waiting, ghostVars, errors>>
vars == <<bufVars, sockVars, pollVars, lockVars, pc, restVars>>

Thread == User \cup {Poller}
Buffer == 1 .. MaxBuf
Place ==
  {"idle", "flush", "swap", "take", "event", "write", "start", "listen", "rollback", "err",
   "close", "peek", "peek2", "stop", "unlisten", "flushed", "recv_on", "recv_off"}

TypeOK ==
  /\ waiting \in Seq(Buffer) /\ sending \in Seq(Buffer) /\ wire \in Seq(Buffer)
  /\ tmp \in [Thread -> Seq(Buffer)]
  /\ kernel \in 0 .. KCap
  /\ sendable \in BOOLEAN /\ open \in BOOLEAN /\ reset \in BOOLEAN /\ exclusive \in Exclusive
  /\ armed \in BOOLEAN /\ edge \in BOOLEAN
  /\ report \subseteq {"read", "write", "error"}
  /\ mtx_sock \in Thread \cup {None}
  /\ mtx_waiting \in Thread \cup {None}
  /\ mtx_event \in {Poller, None}
  /\ pc \in [Thread -> Place]
  /\ empty_waiting \in BOOLEAN
  /\ next \in 1 .. MaxBuf + 1
  /\ asked \in 0 .. MaxBuf
  /\ errors \in Nat

\* As attachEvent leaves it: all events are armed, the new socket is writable.
Init ==
  /\ waiting = <<>> /\ sending = <<>> /\ wire = <<>> /\ kernel = 0
  /\ tmp = [th \in Thread |-> <<>>]
  /\ sendable = TRUE /\ open = TRUE /\ reset = FALSE /\ exclusive \in Exclusive
  /\ armed = TRUE /\ edge = TRUE /\ report = {}
  /\ mtx_sock = None /\ mtx_waiting = None /\ mtx_event = None
  /\ pc = [th \in Thread |-> "idle"]
  /\ empty_waiting = FALSE
  /\ next = 1 /\ asked = 0 /\ errors = 0

-----------------------------------------------------------------------------
\* A user thread is between two calls; the poller runs a task or a callback of the user.
Free(th) == pc[th] = "idle" /\ (th = Poller => report = {} \/ mtx_event = Poller)

GoTo(th, place) == pc' = [pc EXCEPT ![th] = place]

\* epoll_ctl(EPOLL_CTL_MOD): reports again what is ready under the new mask; refused for a
\* descriptor that was added with EPOLLEXCLUSIVE, and nobody looks at the result.
ModifyEvent(writable) ==
  /\ IF exclusive THEN UNCHANGED <<armed, edge>>
                  ELSE armed' = writable /\ edge' = (writable /\ kernel < KCap)
  /\ UNCHANGED report

\* The argument poller_thread of flushData: onWriteAble passes true and holds no lock,
\* flushAll passes false and holds _mtx_sock_fd.
PollerThread(th) == mtx_sock # th

\* flushData returns, and with it flushAll or onWriteAble.
Return(th) ==
  /\ GoTo(th, "idle")
  /\ mtx_sock' = IF mtx_sock = th THEN None ELSE mtx_sock

(* send_l and flushAll                                                     *)

\* send_l: into the first-level list; the poller calls it in a task or in a callback.
Send(th, try_flush) ==
  /\ Free(th) /\ next <= MaxBuf
  /\ mtx_waiting = None
  /\ waiting' = Append(waiting, next)
  /\ next' = next + 1
  /\ asked' = IF try_flush THEN next ELSE asked
  /\ GoTo(th, IF try_flush THEN "flush" ELSE "idle")
  /\ UNCHANGED <<sending, tmp, wire, kernel, sockVars, pollVars, lockVars, empty_waiting,
                 errors>>

\* flushAll: to flushData if the socket is writable, with _mtx_sock_fd held; nothing
\* if it is closed, or not writable and not yet timed out.
FlushAll(th) ==
  /\ pc[th] = "flush" /\ mtx_sock = None
  /\ IF open /\ sendable
     THEN mtx_sock' = th /\ GoTo(th, "swap")
     ELSE UNCHANGED mtx_sock /\ GoTo(th, "idle")
  /\ UNCHANGED <<bufVars, sockVars, pollVars, mtx_waiting, mtx_event, restVars>>

\* flushAll: nothing was flushed for _max_send_buffer_ms, emitErr.
SendTimeout(th) ==
  /\ pc[th] = "flush" /\ mtx_sock = None
  /\ open /\ ~sendable
  /\ GoTo(th, "close") /\ mtx_sock' = th
  /\ UNCHANGED <<bufVars, sockVars, pollVars, mtx_waiting, mtx_event, restVars>>

(* flushData                                                               *)

\* Fault: the second level is not looked at.
SwapNothing(th) ==
  /\ pc[th] = "swap" /\ GoTo(th, "take")
  /\ UNCHANGED <<bufVars, sockVars, pollVars, lockVars, restVars>>

\* The second-level list moves out.
SwapSending(th) ==
  /\ pc[th] = "swap"
  /\ tmp' = [tmp EXCEPT ![th] = sending] /\ sending' = <<>>
  /\ GoTo(th, IF sending = <<>> THEN "take" ELSE "write")
  /\ UNCHANGED <<waiting, wire, kernel, sockVars, pollVars, lockVars, restVars>>

\* It was empty: look at the first level, whose lock is kept if there is something.
LockWaiting(th) ==
  /\ pc[th] = "take" /\ mtx_waiting = None
  /\ \/ /\ waiting # <<>>
        /\ mtx_waiting' = th /\ GoTo(th, "event")
        /\ UNCHANGED mtx_sock
     \/ /\ waiting = <<>> /\ PollerThread(th)
        /\ GoTo(th, "stop")
        /\ UNCHANGED <<mtx_sock, mtx_waiting>>
     \/ /\ waiting = <<>> /\ ~PollerThread(th)
        /\ Return(th)
        /\ UNCHANGED mtx_waiting
  /\ UNCHANGED <<bufVars, sockVars, pollVars, mtx_event, restVars>>

\* The first level moves out too, under _mtx_event.
TakeWaiting(th) ==
  /\ pc[th] = "event" /\ mtx_event \in {None, th}
  /\ tmp' = [tmp EXCEPT ![th] = waiting] /\ waiting' = <<>>
  /\ mtx_waiting' = None
  /\ GoTo(th, "write")
  /\ UNCHANGED <<sending, wire, kernel, sockVars, pollVars, mtx_sock, mtx_event, restVars>>

\* sendmsg: the kernel takes what fits.
Write(th) ==
  LET room == KCap - kernel
      n == IF Len(tmp[th]) < room THEN Len(tmp[th]) ELSE room
  IN  /\ pc[th] = "write" /\ ~reset
      /\ wire' = wire \o SubSeq(tmp[th], 1, n)
      /\ kernel' = kernel + n
      /\ tmp' = [tmp EXCEPT ![th] = SubSeq(@, n + 1, Len(@))]
      /\ \/ /\ n = Len(tmp[th]) /\ PollerThread(th)      \* try again with new data
            /\ GoTo(th, "swap") /\ UNCHANGED mtx_sock
         \/ /\ n = Len(tmp[th]) /\ ~PollerThread(th)
            /\ Return(th)
         \/ /\ n < Len(tmp[th]) /\ PollerThread(th)      \* already listening
            /\ GoTo(th, "rollback") /\ UNCHANGED mtx_sock
         \/ /\ n < Len(tmp[th]) /\ ~PollerThread(th)
            /\ GoTo(th, "start") /\ UNCHANGED mtx_sock
      /\ UNCHANGED <<waiting, sending, sockVars, pollVars, mtx_waiting, mtx_event, restVars>>

WriteFails(th) ==
  /\ pc[th] = "write" /\ reset
  /\ GoTo(th, "err")
  /\ UNCHANGED <<bufVars, sockVars, pollVars, lockVars, restVars>>

\* startWriteAbleEvent, first half.
ClearSendable(th) ==
  /\ pc[th] = "start"
  /\ sendable' = FALSE /\ GoTo(th, "listen")
  /\ UNCHANGED <<bufVars, open, reset, exclusive, pollVars, lockVars, restVars>>

ListenWritable(th) ==
  /\ pc[th] = "listen"
  /\ ModifyEvent(TRUE) /\ GoTo(th, "rollback")
  /\ UNCHANGED <<bufVars, sockVars, lockVars, restVars>>

\* Fault: swapped back without appending what another thread rolled back meanwhile.
RollbackOver(th) ==
  /\ pc[th] = "rollback"
  /\ sending' = tmp[th]
  /\ tmp' = [tmp EXCEPT ![th] = <<>>]
  /\ Return(th)
  /\ UNCHANGED <<waiting, wire, kernel, sockVars, pollVars, mtx_waiting, mtx_event, restVars>>

\* What is left goes back in front of the second-level list.
Rollback(th) ==
  /\ pc[th] = "rollback"
  /\ sending' = tmp[th] \o sending
  /\ tmp' = [tmp EXCEPT ![th] = <<>>]
  /\ Return(th)
  /\ UNCHANGED <<waiting, wire, kernel, sockVars, pollVars, mtx_waiting, mtx_event, restVars>>

(* emitErr                                                                 *)

\* Fault: no test.
CheckNothing(th) ==
  /\ pc[th] = "err" /\ GoTo(th, "close")
  /\ UNCHANGED <<bufVars, sockVars, pollVars, lockVars, restVars>>

\* The test against a second report; the lock is released before closeSock.
CheckOpen(th) ==
  /\ pc[th] = "err" /\ mtx_sock \in {None, th}
  /\ IF open THEN GoTo(th, "close") /\ UNCHANGED <<tmp, mtx_sock>>
             ELSE Return(th) /\ tmp' = [tmp EXCEPT ![th] = <<>>]
  /\ UNCHANGED <<waiting, sending, wire, kernel, sockVars, pollVars, mtx_waiting, mtx_event,
                 restVars>>

\* closeSock, then _on_err is posted; flushData's local list is gone with its stack frame.
CloseSock(th) ==
  /\ pc[th] = "close" /\ mtx_sock \in {None, th}
  /\ open' = FALSE /\ errors' = errors + 1
  /\ tmp' = [tmp EXCEPT ![th] = <<>>]
  /\ Return(th)
  /\ UNCHANGED <<waiting, sending, wire, kernel, sendable, reset, exclusive, pollVars,
                 mtx_waiting, mtx_event, empty_waiting, ghostVars>>

-----------------------------------------------------------------------------
(* The poller thread: the events of the socket.                            *)

PollerIdle == pc[Poller] = "idle" /\ mtx_event = None

\* epoll reports all that is ready and asked for, once something is new; a reset makes
\* the socket writable too.
EpollReport ==
  /\ PollerIdle /\ report = {} /\ open
  /\ \E new \in SUBSET {"read", "error"} :
        /\ "error" \in new => reset
        /\ edge \/ new # {}
        /\ report' = IF armed /\ (kernel < KCap \/ reset) THEN new \cup {"write"} ELSE new
  /\ edge' = FALSE
  /\ UNCHANGED <<bufVars, sockVars, armed, lockVars, pc, restVars>>

\* The callback of addEvent handles Event_Read, Event_Write and Event_Error in this
\* order, with its own reference to the descriptor: emitErr in one does not end it.
\* onRead: the read callback of the user runs under _mtx_event, or recv fails.
ReadEvent ==
  /\ PollerIdle /\ "read" \in report
  /\ report' = report \ {"read"}
  /\ \/ mtx_event' = Poller /\ UNCHANGED pc
     \/ reset /\ GoTo(Poller, "err") /\ UNCHANGED mtx_event
  /\ UNCHANGED <<bufVars, sockVars, armed, edge, mtx_sock, mtx_waiting, restVars>>

WriteEvent ==
  /\ PollerIdle /\ "read" \notin report /\ "write" \in report
  /\ report' = report \ {"write"}
  /\ GoTo(Poller, "peek")
  /\ UNCHANGED <<bufVars, sockVars, armed, edge, lockVars, restVars>>

ErrorEvent ==
  /\ PollerIdle /\ report = {"error"}
  /\ report' = {}
  /\ GoTo(Poller, "err")
  /\ UNCHANGED <<bufVars, sockVars, armed, edge, lockVars, restVars>>

\* onWriteAble looks at the two lists one after the other.
PeekWaiting ==
  /\ pc[Poller] = "peek" /\ mtx_waiting = None
  /\ empty_waiting' = (waiting = <<>>)
  /\ GoTo(Poller, "peek2")
  /\ UNCHANGED <<bufVars, sockVars, pollVars, lockVars, ghostVars, errors>>

\* Fault: what was rolled back is not looked at.
PeekNothing ==
  /\ pc[Poller] = "peek2"
  /\ GoTo(Poller, IF empty_waiting THEN "stop" ELSE "swap")
  /\ UNCHANGED <<bufVars, sockVars, pollVars, lockVars, restVars>>

\* Only if both were empty the socket stops listening.
PeekSending ==
  /\ pc[Poller] = "peek2"
  /\ IF empty_waiting /\ sending = <<>>
     THEN GoTo(Poller, "stop") /\ UNCHANGED empty_waiting
     ELSE GoTo(Poller, "swap") /\ empty_waiting' = FALSE
  /\ UNCHANGED <<bufVars, sockVars, pollVars, lockVars, ghostVars, errors>>

\* Fault: the socket stays marked as not writable.
SetNothing ==
  /\ pc[Poller] = "stop" /\ GoTo(Poller, "unlisten")
  /\ UNCHANGED <<bufVars, sockVars, pollVars, lockVars, restVars>>

\* stopWriteAbleEvent, first half.
SetSendable ==
  /\ pc[Poller] = "stop"
  /\ sendable' = TRUE /\ GoTo(Poller, "unlisten")
  /\ UNCHANGED <<bufVars, open, reset, exclusive, pollVars, lockVars, restVars>>

\* Second half; onWriteAble is done then, flushData goes on to onFlushed.
UnlistenWritable ==
  /\ pc[Poller] = "unlisten"
  /\ ModifyEvent(FALSE)
  /\ GoTo(Poller, IF empty_waiting THEN "idle" ELSE "flushed")
  /\ empty_waiting' = FALSE
  /\ UNCHANGED <<bufVars, sockVars, lockVars, ghostVars, errors>>

\* onFlushed: the flush callback of the user runs under _mtx_event.
OnFlushed ==
  /\ pc[Poller] = "flushed" /\ mtx_event = None
  /\ mtx_event' = Poller /\ GoTo(Poller, "idle")
  /\ UNCHANGED <<bufVars, sockVars, pollVars, mtx_sock, mtx_waiting, restVars>>

CallbackEnd ==
  /\ pc[Poller] = "idle" /\ mtx_event = Poller
  /\ mtx_event' = None
  /\ UNCHANGED <<bufVars, sockVars, pollVars, mtx_sock, mtx_waiting, pc, restVars>>

\* enableRecv with a new value, from the poller: reads _sendable, then sets the mask it
\* computed from it.
EnableRecv ==
  /\ Toggles /\ Free(Poller)
  /\ GoTo(Poller, IF sendable THEN "recv_off" ELSE "recv_on")
  /\ UNCHANGED <<bufVars, sockVars, pollVars, lockVars, restVars>>

EnableRecvModify ==
  /\ pc[Poller] \in {"recv_on", "recv_off"} /\ mtx_sock = None
  /\ IF open THEN ModifyEvent(pc[Poller] = "recv_on") ELSE UNCHANGED pollVars
  /\ GoTo(Poller, "idle")
  /\ UNCHANGED <<bufVars, sockVars, lockVars, restVars>>

-----------------------------------------------------------------------------
(* The peer.                                                               *)

PeerTakes ==
  /\ kernel > 0
  /\ kernel' = kernel - 1
  /\ edge' = (edge \/ (armed /\ kernel = KCap))
  /\ UNCHANGED <<waiting, sending, tmp, wire, sockVars, armed, report, lockVars, pc, restVars>>

PeerResets ==
  /\ ~reset /\ open
  /\ reset' = TRUE
  /\ UNCHANGED <<bufVars, sendable, open, exclusive, pollVars, lockVars, pc, restVars>>

-----------------------------------------------------------------------------
\* What a thread goes on with once it is inside send or flushData.
FlushStep(th) ==
  \/ FlushAll(th) \/ SwapSending(th) \/ LockWaiting(th) \/ TakeWaiting(th)
  \/ Write(th) \/ WriteFails(th) \/ ClearSendable(th) \/ ListenWritable(th)
  \/ Rollback(th) \/ CheckOpen(th) \/ CloseSock(th)

PollerStep ==
  \/ FlushStep(Poller)
  \/ ReadEvent \/ WriteEvent \/ ErrorEvent
  \/ PeekWaiting \/ PeekSending \/ SetSendable \/ UnlistenWritable \/ OnFlushed
  \/ CallbackEnd \/ EnableRecvModify

Next ==
  \/ \E th \in Thread, try_flush \in TryFlush : Send(th, try_flush)
  \/ \E th \in Thread : SendTimeout(th)
  \/ \E th \in User : FlushStep(th)
  \/ PollerStep
  \/ EpollReport \/ EnableRecv
  \/ PeerTakes \/ PeerResets

Spec == Init /\ [][Next]_vars

\* The threads run, callbacks return, the peer reads, and each time the poller thread
\* returns to epoll_wait it is given every event that is pending.
Fairness ==
  /\ \A th \in User : WF_vars(FlushStep(th))
  /\ WF_vars(PollerStep)
  /\ SF_vars(edge /\ EpollReport)
  /\ WF_vars(PeerTakes)

FairSpec == Spec /\ Fairness
-----------------------------------------------------------------------------
(* Properties.                                                             *)

\* The peer is sent the buffers in the order send() accepted them (flushData takes the
\* older level first and rolls back to its front).
OrderKept == \A i \in DOMAIN wire : wire[i] = i

\* No buffer is lost or duplicated on its way through the two lists, flushData's local
\* lists and the kernel, until an error gives the connection up.
Conservation ==
  errors = 0 =>
    \A b \in 1 .. next - 1 :
       Cardinality({i \in DOMAIN wire : wire[i] = b})
         + Cardinality({i \in DOMAIN sending : sending[i] = b})
         + Cardinality({i \in DOMAIN waiting : waiting[i] = b})
         + Cardinality({th \in Thread : b \in ToSet(tmp[th])}) = 1

\* A socket nobody works on and that still owes the peer a buffer sent with try_flush
\* listens for the writable event, and epoll has it to report or will when the peer
\* takes something: the one thing that can still move the buffer has not been used up,
\* and is not switched off where modifyEvent has an effect.
NoStall ==
  (/\ open /\ ~reset /\ report = {} /\ \A th \in Thread : pc[th] = "idle"
   /\ Len(wire) < asked)
     => armed /\ (edge \/ kernel = KCap)

\* A socket reports one error, whoever notices first (the test in emitErr).
ErrorOnce == errors <= 1

\* No send() waits for _mtx_event, which a callback on the poller thread holds, while
\* that callback's own send() waits for the _mtx_sock_fd the first one holds.
NoLockCycle ==
  ~ \E th \in User : /\ pc[th] = "event" /\ mtx_event = Poller
                    /\ pc[Poller] = "flush" /\ mtx_sock = th

\* What is sent with try_flush reaches the kernel, if the connection stays up.
EventuallySent ==
  \A b \in Buffer : asked = b ~> (Len(wire) >= b \/ reset \/ ~open)

\* For TLC: nothing tells these threads apart (safety runs only).
Symmetric == Permutations(User)
=============================================================================
