----------------------------- MODULE TcpClient -----------------------------
(***************************************************************************)
(* Socket::connect of src/Network/Socket.cpp, and TcpClient.cpp of the     *)
(* same directory as TCPClientImp and TCPImp of src/Communcation use it.   *)
(*                                                                         *)
(* The socket: an attempt is a call of connect_l on the loop thread of the *)
(* socket's poller.  A name is resolved, and its connection started, on a  *)
(* thread of WorkThreadPool, which posts the descriptor back.  The result  *)
(* callback of an attempt is reached from the resolver, from epoll and     *)
(* from the timer.  The actions take the result r that the callback of the *)
(* user is called with, or none.                                           *)
(*                                                                         *)
(* The client: one startConnect, a manager timer, a reconnection timer     *)
(* that starts an attempt every five seconds, and one user thread that     *)
(* calls shutdown and destroys the client.                                 *)
(***************************************************************************)
EXTENDS Integers, Sequences, FiniteSets

CONSTANTS
  MaxAttempt,      \* bound: calls of connect_l
  MaxShutdown      \* bound: calls of shutdown

ASSUME AttemptAssumption == MaxAttempt \in Nat
ASSUME ShutdownAssumption == MaxShutdown \in Nat

Attempt == 1 .. MaxAttempt
Error   == {"dns", "other", "refused", "timeout"}
Result  == Error \cup {"ok", "none"}     \* none: the callback is not called

VARIABLES
  attempt,       \* number of the last call of connect_l
  con_timer,     \* the attempt _con_timer was armed for, 0 for none
  async_con_cb,  \* the attempt whose callback _async_con_cb keeps alive
  sock_fd,       \* the attempt whose descriptor is _sock_fd
  attached,      \* the descriptor has been through attachEvent
  connecting,    \* the attempt onConnected is working for; it holds the descriptor
  resolver,      \* attempts on the thread of WorkThreadPool
  inbox,         \* its answers, posted to the poller: <<attempt, a descriptor came>>
  closing,       \* descriptors given up by another thread; delEvent is posted
  open,          \* descriptors open in the system
  results        \* what the callback of each attempt was called with

sockVars == <<attempt, con_timer, async_con_cb, sock_fd, attached, connecting,
              resolver, inbox, closing, open, results>>

SockTypeOK ==
  /\ attempt \in 0 .. MaxAttempt
  /\ {con_timer, async_con_cb, sock_fd, connecting} \subseteq 0 .. MaxAttempt
  /\ attached \in BOOLEAN
  /\ resolver \subseteq Attempt /\ closing \subseteq Attempt /\ open \subseteq Attempt
  /\ inbox \subseteq Attempt \X BOOLEAN
  /\ results \in [Attempt -> Seq(Error \cup {"ok"})]

SockInit ==
  /\ attempt = 0 /\ con_timer = 0 /\ async_con_cb = 0 /\ sock_fd = 0 /\ connecting = 0
  /\ attached = FALSE
  /\ resolver = {} /\ inbox = {} /\ closing = {} /\ open = {}
  /\ results = [a \in Attempt |-> <<>>]

Report(a, r) == results' = [results EXCEPT ![a] = Append(@, r)]

(* con_cb(err): forgets the callback and the timer, gives the descriptor up,
   then calls the user.  `kept` are the other descriptors that stay open. *)
ConError(a, r, kept) ==
  /\ con_timer' = 0 /\ async_con_cb' = 0 /\ sock_fd' = 0 /\ attached' = FALSE
  /\ open' = kept \ {sock_fd}
  /\ Report(a, r)

(* SockUtil::connect came back with a descriptor: it is watched for writing. *)
Watch(a, timer) ==
  /\ sock_fd' = a /\ attached' = FALSE
  /\ con_timer' = timer
  /\ UNCHANGED results

(* connect_l.  closeSock first.  An address is connected at once, a name is
   handed to the pool.  The timer is armed last, also when the attempt has
   already failed and reported it. *)
ConnectStart(r) ==
  /\ attempt < MaxAttempt /\ connecting = 0
  /\ attempt' = attempt + 1
  /\ LET a == attempt + 1 IN
     /\ con_timer' = a
     /\ \/ /\ resolver' = resolver \cup {a} /\ async_con_cb' = a      \* a name
           /\ sock_fd' = 0 /\ attached' = FALSE /\ open' = open \ {sock_fd}
           /\ UNCHANGED results /\ r = "none"
        \/ /\ Watch(a, a) /\ async_con_cb' = 0                        \* an address
           /\ open' = (open \ {sock_fd}) \cup {a}
           /\ UNCHANGED resolver /\ r = "none"
        \/ /\ r \in {"dns", "other"}                                  \* it fails at once
           /\ async_con_cb' = 0 /\ sock_fd' = 0 /\ attached' = FALSE
           /\ open' = open \ {sock_fd}
           /\ Report(a, r)
           /\ UNCHANGED resolver
  /\ UNCHANGED <<connecting, inbox, closing>>

(* The pool thread is through with SockUtil::connect and posts the result. *)
Resolve(a) ==
  /\ a \in resolver
  /\ resolver' = resolver \ {a}
  /\ \E ok \in BOOLEAN :
       /\ inbox' = inbox \cup {<<a, ok>>}
       /\ open' = IF ok THEN open \cup {a} ELSE open
  /\ UNCHANGED <<attempt, con_timer, async_con_cb, sock_fd, attached, connecting, closing, results>>

(* Mutant: the closure does not ask whether its attempt is still the one. *)
ResolvedLate(m, r) ==
  /\ m \in inbox /\ connecting = 0
  /\ inbox' = inbox \ {m}
  /\ \/ /\ ~m[2]
        /\ ConError(m[1], "dns", open) /\ r = "dns"
     \/ /\ m[2]
        /\ \/ /\ Watch(m[1], con_timer) /\ r = "none"
              /\ open' = open \ ({sock_fd} \ {m[1]}) /\ UNCHANGED async_con_cb
           \/ /\ ConError(m[1], "other", open \ {m[1]}) /\ r = "other"
  /\ UNCHANGED <<attempt, connecting, resolver, closing>>

(* The posted closure.  The callback of the attempt may be gone: a newer
   attempt, the timeout or closeSock dropped it; the descriptor is closed. *)
Resolved(m, r) ==
  /\ m \in inbox /\ connecting = 0
  /\ inbox' = inbox \ {m}
  /\ LET a == m[1] IN
     \/ /\ async_con_cb # a
        /\ open' = open \ {a}
        /\ UNCHANGED <<con_timer, async_con_cb, sock_fd, attached, results>> /\ r = "none"
     \/ /\ async_con_cb = a /\ ~m[2]
        /\ ConError(a, "dns", open) /\ r = "dns"
     \/ /\ async_con_cb = a /\ m[2]
        /\ \/ /\ Watch(a, con_timer) /\ UNCHANGED <<open, async_con_cb>> /\ r = "none"
           \/ /\ ConError(a, "other", open \ {a}) /\ r = "other"      \* addEvent failed
  /\ UNCHANGED <<attempt, connecting, resolver, closing>>

(* epoll reports the descriptor writable; the event callback locks both weak
   references.  Another thread can give the descriptor up before the next step. *)
Connectable ==
  /\ sock_fd # 0 /\ ~attached /\ connecting = 0
  /\ connecting' = sock_fd
  /\ UNCHANGED <<attempt, con_timer, async_con_cb, sock_fd, attached, resolver, inbox,
                 closing, open, results>>

(* onConnected: SO_ERROR, then attachEvent, then the callback.  The descriptor
   is closed here if it was given up meanwhile. *)
Connected(r) ==
  /\ connecting # 0
  /\ connecting' = 0
  /\ LET a == connecting
         kept == IF sock_fd = a THEN open ELSE open \ {a} IN
     \/ r \in {"refused", "other"} /\ ConError(a, r, kept)
     \/ /\ con_timer' = 0 /\ async_con_cb' = 0
        /\ attached' = (sock_fd = a)
        /\ open' = kept
        /\ Report(a, "ok") /\ r = "ok"
        /\ UNCHANGED sock_fd
  /\ UNCHANGED <<attempt, resolver, inbox, closing>>

(* The timer of an attempt fires. *)
ConTimeout(r) ==
  /\ con_timer # 0 /\ connecting = 0
  /\ ConError(con_timer, "timeout", open) /\ r = "timeout"
  /\ UNCHANGED <<attempt, connecting, resolver, inbox, closing>>

(* closeSock on the loop thread: the descriptor is closed on the spot. *)
CloseHere ==
  /\ con_timer' = 0 /\ async_con_cb' = 0 /\ sock_fd' = 0 /\ attached' = FALSE
  /\ open' = open \ {sock_fd}
  /\ UNCHANGED <<attempt, connecting, resolver, inbox, closing, results>>

(* Mutant: the other thread drops its reference, and nobody posts delEvent. *)
CloseThereLeaks ==
  /\ con_timer' = 0 /\ async_con_cb' = 0 /\ sock_fd' = 0 /\ attached' = FALSE
  /\ UNCHANGED <<attempt, connecting, resolver, inbox, closing, open, results>>

(* closeSock on another thread: ~SockFD posts delEvent, which closes it, unless
   onConnected still holds it. *)
CloseThere ==
  /\ con_timer' = 0 /\ async_con_cb' = 0 /\ sock_fd' = 0 /\ attached' = FALSE
  /\ closing' = closing \cup ({sock_fd} \ {0, connecting})
  /\ UNCHANGED <<attempt, connecting, resolver, inbox, open, results>>

(* The posted half of delEvent. *)
DelEvent(a) ==
  /\ a \in closing /\ connecting = 0
  /\ closing' = closing \ {a} /\ open' = open \ {a}
  /\ UNCHANGED <<attempt, con_timer, async_con_cb, sock_fd, attached, connecting, resolver,
                 inbox, results>>

-----------------------------------------------------------------------------
(* The client.                                                             *)

VARIABLES
  manager,      \* _timer is set
  reconnect,    \* _timer_reconnect is set
  calls,        \* connect calls posted by the user thread
  errors,       \* _on_err closures posted by the user thread
  user,         \* where the user thread stands
  shutdowns     \* calls of shutdown so far

clientVars == <<manager, reconnect, calls, errors, user, shutdowns>>
vars == <<sockVars, clientVars>>

Alive == user \notin {"new", "gone", "crashed"}

TypeOK ==
  /\ SockTypeOK
  /\ manager \in BOOLEAN /\ reconnect \in BOOLEAN
  /\ calls \in 0 .. 1 /\ errors \in 0 .. MaxShutdown /\ shutdowns \in 0 .. MaxShutdown
  /\ user \in {"new", "idle", "emit", "close", "post", "gone", "crashed"}

Init ==
  /\ SockInit
  /\ manager = FALSE /\ reconnect = FALSE
  /\ calls = 0 /\ errors = 0 /\ shutdowns = 0
  /\ user = "new"

(* startConnect: both timers, then connect, which async posts to the poller. *)
StartConnect ==
  /\ user = "new"
  /\ user' = "idle"
  /\ manager' = TRUE /\ reconnect' = TRUE
  /\ calls' = 1
  /\ UNCHANGED <<sockVars, errors, shutdowns>>

(* onSockConnect: a failure drops the manager timer and leaves the
   reconnection timer running; a success ends the reconnection. *)
OnSockConnect(r) ==
  /\ manager' = (manager /\ r \notin Error)
  /\ reconnect' = (reconnect /\ r # "ok")
  /\ UNCHANGED <<errors, user, shutdowns>>

(* reConnectServer on the loop thread: from the posted call or from the timer. *)
ConnectCall ==
  /\ Alive /\ calls > 0
  /\ \E r \in Result : ConnectStart(r) /\ OnSockConnect(r)
  /\ calls' = calls - 1

ReconnectFires ==
  /\ Alive /\ reconnect
  /\ \E r \in Result : ConnectStart(r) /\ OnSockConnect(r)
  /\ UNCHANGED calls

(* The posted call is the first closure in the queue, before any answer, and
   the loop reads its queue before it waits for a descriptor again. *)
AnswerArrives ==
  /\ calls = 0
  /\ \E m \in inbox, r \in Result : Resolved(m, r) /\ OnSockConnect(r)
  /\ UNCHANGED calls

ConnectBegins == calls = 0 /\ Connectable /\ UNCHANGED clientVars

ConnectEnds == (\E r \in Result : Connected(r) /\ OnSockConnect(r)) /\ UNCHANGED calls

ConnectTimesOut == (\E r \in Result : ConTimeout(r) /\ OnSockConnect(r)) /\ UNCHANGED calls

(* Mutant: the lost connection is not replaced. *)
OnErrQuiet ==
  /\ manager' = FALSE
  /\ UNCHANGED reconnect

(* _on_err of the socket: TcpClient drops the manager timer, TCPClientImp::onErr
   restarts the reconnection timer. *)
OnErr ==
  /\ manager' = FALSE
  /\ reconnect' = TRUE

(* The peer closes, or the connection breaks: emitErr on the loop thread, whose
   async runs the closure on the spot. *)
PeerCloses ==
  /\ attached /\ connecting = 0
  /\ CloseHere /\ OnErr
  /\ UNCHANGED <<calls, errors, user, shutdowns>>

(* The closure that shutdown posted. *)
ErrorRuns ==
  /\ Alive /\ errors > 0 /\ connecting = 0
  /\ errors' = errors - 1
  /\ OnErr
  /\ UNCHANGED <<sockVars, calls, user, shutdowns>>

(* shutdown: drops the manager timer, then emitErr, which looks at the
   descriptor, closes the socket and posts in three separate steps. *)
Shutdown ==
  /\ user = "idle" /\ shutdowns < MaxShutdown
  /\ shutdowns' = shutdowns + 1
  /\ manager' = FALSE
  /\ user' = "emit"
  /\ UNCHANGED <<sockVars, reconnect, calls, errors>>

EmitErr ==
  /\ user = "emit"
  /\ user' = IF sock_fd # 0 THEN "close" ELSE "idle"
  /\ UNCHANGED <<sockVars, manager, reconnect, calls, errors, shutdowns>>

CloseSock ==
  /\ user = "close"
  /\ user' = "post"
  /\ CloseThere
  /\ UNCHANGED <<manager, reconnect, calls, errors, shutdowns>>

PostErr ==
  /\ user = "post"
  /\ user' = "idle"
  /\ errors' = errors + 1
  /\ UNCHANGED <<sockVars, manager, reconnect, calls, shutdowns>>

(* ~TcpClient: the timers and the socket go; posted closures hold weak
   references. *)
Destroy ==
  /\ user = "idle" /\ connecting = 0 /\ manager
  /\ user' = "gone"
  /\ manager' = FALSE /\ reconnect' = FALSE
  /\ calls' = 0 /\ errors' = 0
  /\ CloseThere
  /\ UNCHANGED shutdowns

(* It calls _timer->end() first, whether _timer is null or not: after a failure,
   an error or a shutdown the process dies of it. *)
DestroyCrashes ==
  /\ user = "idle" /\ ~manager
  /\ user' = "crashed"
  /\ UNCHANGED <<sockVars, manager, reconnect, calls, errors, shutdowns>>

Loop ==
  \/ ConnectCall \/ ReconnectFires \/ AnswerArrives
  \/ ConnectBegins \/ ConnectEnds \/ ConnectTimesOut
  \/ PeerCloses \/ ErrorRuns
  \/ \E a \in Attempt : DelEvent(a) /\ UNCHANGED clientVars

PoolThread == \E a \in Attempt : Resolve(a) /\ UNCHANGED clientVars

User == StartConnect \/ Shutdown \/ EmitErr \/ CloseSock \/ PostErr \/ Destroy \/ DestroyCrashes

Next == user # "crashed" /\ (Loop \/ PoolThread \/ User)

(* The loop runs what is posted and what is due, the pool thread comes back from
   the resolver, and a call of the user thread ends. *)
Fairness ==
  /\ WF_vars(ConnectCall) /\ WF_vars(ReconnectFires) /\ WF_vars(AnswerArrives)
  /\ WF_vars(ConnectEnds) /\ WF_vars(ConnectTimesOut) /\ WF_vars(ErrorRuns)
  /\ WF_vars(\E a \in Attempt : DelEvent(a) /\ UNCHANGED clientVars)
  /\ WF_vars(PoolThread)
  /\ WF_vars(EmitErr \/ CloseSock \/ PostErr)

Spec == Init /\ [][Next]_vars /\ Fairness

-----------------------------------------------------------------------------
(* Properties.                                                             *)

(* Whatever can still call back belongs to the newest attempt: an older one
   has lost its timer, its callback and its descriptor. *)
OneLiveAttempt ==
  /\ {con_timer, async_con_cb, sock_fd} \subseteq {0, attempt}
  /\ connecting \in {0, sock_fd} \/ sock_fd \in {0, attempt}

(* Every open descriptor has an owner that will close it: the socket, the
   running onConnected, an answer of the pool not yet read, a posted delEvent. *)
NoLeak ==
  open = ({sock_fd, connecting} \ {0}) \cup closing \cup {a \in Attempt : <<a, TRUE>> \in inbox}

(* The result callback of an attempt is called once.  The exception is an
   attempt that failed inside connect_l: its timer is armed after the failure
   was reported, and reports it again as a timeout.  Nothing follows a success. *)
OneResult ==
  \A a \in Attempt :
    \/ Len(results[a]) <= 1
    \/ /\ Len(results[a]) = 2
       /\ results[a][1] \in {"dns", "other"} /\ results[a][2] = "timeout"

(* A client that has no connection is on its way to one: the reconnection timer
   runs, or the closure that restarts it is posted or about to be. *)
RetryArmed ==
  Alive => \/ reconnect
           \/ attached
           \/ errors > 0 \/ user = "post"

(* Only the newest attempt reports: an answer, an event or a timer of an attempt
   that was replaced never reaches the user. *)
NewestReports ==
  [][\A a \in Attempt : results'[a] # results[a] => a = attempt']_vars

(* A client without a connection tries again, until it is destroyed or the bound
   on attempts is reached. *)
TriesAgain ==
  \A n \in 0 .. MaxAttempt - 1 :
    (Alive /\ attempt = n /\ ~attached) ~> (~Alive \/ attempt > n \/ attached)

(* Once the client is gone every descriptor it opened gets closed, those the
   resolver was still working on included. *)
AllClosed == (user = "gone") ~> (open = {})

(* A resolver, a timer or an event that comes late for an attempt changes nothing
   for the one that replaced it, and no descriptor is lost on the way. *)
AttemptsApart == [](OneLiveAttempt /\ NoLeak /\ OneResult) /\ NewestReports

(* The retries never end by themselves, and they end cleanly. *)
Recovers == TriesAgain /\ AllClosed
=============================================================================
