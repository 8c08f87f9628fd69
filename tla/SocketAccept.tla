---------------------------- MODULE SocketAccept ----------------------------
(***************************************************************************)
(* Socket::listen and Socket::onAccept of src/Network/Socket.cpp: sockets  *)
(* on several pollers that listen on one descriptor (cloneFromListenSocket)*)
(* with edge-triggered events, so that each of them accepts until there is *)
(* no connection left; the server may choose, refuse or lose a connection  *)
(* from its callbacks, and close a listening socket from any thread.       *)
(***************************************************************************)
EXTENDS Sequences, FiniteSets, Integers

CONSTANTS Poller,
          MaxConn,   \* bound: connections that arrive
          MaxFail    \* bound: accept() fails, or a listening socket is closed

Conn == 1 .. MaxConn

VARIABLES
  listening,   \* pollers whose Socket has the descriptor and watches it
  backlog,     \* connections that were not accepted
  edge,        \* pollers that epoll has an event for
  at,          \* where the poller's thread stands in onAccept
  conn,        \* the connection it has in hand, 0 for none
  open,        \* connections that have a descriptor
  told,        \* connections the server was told of by _on_accept
  completing,  \* connections whose `completed` somebody still holds
  kept,        \* connections whose Socket the server holds
  watched,     \* connections whose events are watched
  arrived,     \* the last connection
  failed,      \* accept() failed or a socket was closed so often
  errors       \* times _on_err was called, for each poller's Socket

vars == <<listening, backlog, edge, at, conn, open, told, completing, kept, watched,
          arrived, failed, errors>>

peerVars == <<open, told, completing, kept, watched>>
listenVars == <<listening, arrived, failed, errors>>

Init ==
  /\ listening = {} /\ backlog = <<>> /\ edge = {}
  /\ at = [p \in Poller |-> "idle"] /\ conn = [p \in Poller |-> 0]
  /\ open = {} /\ told = {} /\ completing = {} /\ kept = {} /\ watched = {}
  /\ arrived = 0 /\ failed = 0 /\ errors = [p \in Poller |-> 0]

-----------------------------------------------------------------------------
\* listen() of the first socket, or cloneFromListenSocket: epoll reports what is waiting.
Listen(p) ==
  /\ p \notin listening /\ at[p] = "idle"
  /\ listening = {} => arrived = 0
  /\ listening' = listening \cup {p}
  /\ edge' = IF backlog = <<>> THEN edge ELSE edge \cup {p}
  /\ errors' = [errors EXCEPT ![p] = 0]
  /\ UNCHANGED <<backlog, at, conn, arrived, failed, peerVars>>

\* A connection arrives: epoll tells one of those who watch at least.
Arrive ==
  /\ arrived < MaxConn
  /\ listening # {} \/ \E p \in Poller : at[p] # "idle"
  /\ arrived' = arrived + 1
  /\ backlog' = Append(backlog, arrived + 1)
  /\ \E s \in SUBSET listening : (s = {} => listening = {}) /\ edge' = edge \cup s
  /\ UNCHANGED <<listening, at, conn, failed, errors, peerVars>>

\* Without p's Socket: a descriptor that nobody watches or accepts from is closed, and with
\* it what waits.  An event of p that comes now finds no Socket.
Without(p, busy) ==
  /\ listening' = listening \ {p} /\ edge' = edge \ {p}
  /\ backlog' = IF listening \subseteq {p} /\ busy = {} THEN <<>> ELSE backlog

\* closeSock, from any thread.
Close(p) ==
  /\ p \in listening /\ failed < MaxFail
  /\ Without(p, {q \in Poller : at[q] # "idle"})
  /\ failed' = failed + 1
  /\ UNCHANGED <<at, conn, arrived, errors, peerVars>>

\* Event_Read: onAccept.
Event(p) ==
  /\ p \in edge /\ at[p] = "idle"
  /\ edge' = edge \ {p} /\ at' = [at EXCEPT ![p] = "accept"]
  /\ UNCHANGED <<backlog, conn, listenVars, peerVars>>

\* UV_EAGAIN: there is no connection left.
NoneWaits(p) ==
  /\ at[p] = "accept" /\ backlog = <<>>
  /\ at' = [at EXCEPT ![p] = "idle"]
  /\ UNCHANGED <<backlog, edge, conn, listenVars, peerVars>>

\* Any other error: emitErr closes this socket and tells its owner, if it was not closed.
AcceptFails(p) ==
  /\ at[p] = "accept" /\ failed < MaxFail
  /\ Without(p, {q \in Poller \ {p} : at[q] # "idle"})
  /\ failed' = failed + 1
  /\ errors' = [errors EXCEPT ![p] = @ + (IF p \in listening THEN 1 ELSE 0)]
  /\ at' = [at EXCEPT ![p] = "idle"]
  /\ UNCHANGED <<conn, arrived, peerVars>>

Accept(p) ==
  /\ at[p] = "accept" /\ backlog # <<>>
  /\ conn' = [conn EXCEPT ![p] = Head(backlog)] /\ backlog' = Tail(backlog)
  /\ open' = open \cup {Head(backlog)}
  /\ at' = [at EXCEPT ![p] = "before"]
  /\ UNCHANGED <<edge, listenVars, told, completing, kept, watched>>

\* Mutant: one connection for each event.
AgainNot(p) == at' = [at EXCEPT ![p] = "idle"] /\ conn' = [conn EXCEPT ![p] = 0]

\* Where onAccept goes on after a connection: accept() again.
Again(p) == at' = [at EXCEPT ![p] = "accept"] /\ conn' = [conn EXCEPT ![p] = 0]

\* _on_before_accept throws: the descriptor is closed.
Refused(p) ==
  /\ at[p] = "before"
  /\ open' = open \ {conn[p]}
  /\ Again(p)
  /\ UNCHANGED <<backlog, edge, listenVars, told, completing, kept, watched>>

\* It makes the Socket, or leaves that to onAccept; setPeerSock gives it the descriptor.
BeforeAccept(p) ==
  /\ at[p] = "before"
  /\ at' = [at EXCEPT ![p] = "told"]
  /\ completing' = completing \cup {conn[p]}
  /\ UNCHANGED <<backlog, edge, conn, listenVars, open, told, kept, watched>>

\* _on_accept: the server takes the Socket, or drops it; it may throw in between.  It keeps
\* `completed` until another thread runs, or lets it go.
OnAccept(p) ==
  /\ at[p] = "told"
  /\ told' = told \cup {conn[p]}
  /\ kept' \in {kept, kept \cup {conn[p]}}
  /\ at' = [at EXCEPT ![p] = "return"]
  /\ UNCHANGED <<backlog, edge, conn, listenVars, open, completing, watched>>

\* The deleter of `completed`: attachEvent; when that fails, or nobody else holds the Socket,
\* the descriptor is closed.
Complete(c) ==
  /\ c \in completing /\ c \in told
  /\ completing' = completing \ {c}
  /\ \/ c \in kept /\ watched' = watched \cup {c} /\ UNCHANGED open
     \/ open' = open \ {c} /\ UNCHANGED watched
  /\ UNCHANGED <<backlog, edge, at, conn, listenVars, told, kept>>

Return(p) ==
  /\ at[p] = "return"
  /\ Again(p)
  /\ UNCHANGED <<backlog, edge, listenVars, peerVars>>

\* The peer leaves or the server lets the Socket go.
Leave(c) ==
  /\ c \in kept \ completing
  /\ kept' = kept \ {c} /\ watched' = watched \ {c} /\ open' = open \ {c}
  /\ UNCHANGED <<backlog, edge, at, conn, listenVars, told, completing>>

Next ==
  \/ Arrive
  \/ \E c \in Conn : Complete(c) \/ Leave(c)
  \/ \E p \in Poller :
       \/ Listen(p) \/ Close(p) \/ Event(p) \/ NoneWaits(p) \/ AcceptFails(p) \/ Accept(p)
       \/ Refused(p) \/ BeforeAccept(p) \/ OnAccept(p) \/ Return(p)

Spec == Init /\ [][Next]_vars

-----------------------------------------------------------------------------
\* With edge-triggered events nobody is woken twice for a connection: while one waits, some
\* poller has the event still before it or is going to accept again, unless a socket was
\* closed or failed and took its event with it.
NoneLeft ==
  backlog # <<>> /\ failed = 0 => edge # {} \/ \E p \in Poller : at[p] # "idle"

\* A descriptor is held by the thread that accepted it, by whoever completes it or by the
\* server; none is lost when the server throws or when it cannot be watched.
NoneLost ==
  /\ open = completing \cup (kept \cap open) \cup {conn[p] : p \in {q \in Poller : at[q] = "before"}}
  /\ watched \subseteq open \cap kept

\* The server is told of a connection before anything is read from it, and a listening
\* socket that fails tells its owner once.
ToldFirst ==
  /\ watched \subseteq told
  /\ \A p \in Poller : errors[p] <= 1 /\ (errors[p] = 1 => p \notin listening)

SocketAcceptRight == NoneLeft /\ NoneLost /\ ToldFirst
=============================================================================
