---------------------------- MODULE UdpSessions ----------------------------
(***************************************************************************)
(* src/Network/UdpServer.cpp.  Every poller has a socket bound to the      *)
(* server's port; the session of a peer has one more, connected to the     *)
(* peer, on the poller the user's onCreateSocket picks.  The map from peer *)
(* to session is shared under a lock, and what a lookup returns is a       *)
(* reference into it that is used when the lock is free again.             *)
(***************************************************************************)
EXTENDS Naturals, Sequences, FiniteSets, SequenceTheorems, TLAPS

CONSTANTS
  Poller,        \* the loop threads
  Peer,          \* addresses that send datagrams
  MaxDatagram,   \* bound: datagrams
  MaxSession     \* bound: sessions created

Datagram == 1 .. MaxDatagram
Session == 1 .. MaxSession

VARIABLES
  sender,       \* who sent each datagram that has arrived, in order of arrival
  arrived,      \* datagrams in the queue of each server socket
  inbox,        \* datagrams in the queue of each session's socket
  queue,        \* closures posted to each poller
  doing,        \* what each loop thread has in hand: <<step, datagram, session>>
  home,         \* the poller of each session, in order of creation
  peer,         \* its peer
  sessionMap,   \* _session_map: <<peer, session>>
  live,         \* sessions that had no error
  handled,      \* calls of onRecv: <<datagram, session, thread>>
  dangling,     \* datagrams for which a reference to a deleted helper was read
  via           \* history: detours of each datagram

vars == <<sender, arrived, inbox, queue, doing, home, peer, sessionMap, live, handled,
          dangling, via>>

Created == 1 .. Len(home)
Nothing == <<"idle", 0, 0>>

TypeOK ==
  /\ sender \in Seq(Peer) /\ Len(sender) <= MaxDatagram
  /\ arrived \in [Poller -> SUBSET Datagram] /\ inbox \in [Session -> SUBSET Datagram]
  /\ queue \in [Poller -> Seq({"create", "recv"} \X Datagram \X (0 .. MaxSession)
                              \cup {"manage"} \X {0} \X SUBSET Session)]
  /\ doing \in [Poller -> {"idle", "miss", "found", "created"}
                          \X (0 .. MaxDatagram) \X (0 .. MaxSession)]
  /\ home \in Seq(Poller) /\ peer \in Seq(Peer)
  /\ Len(home) = Len(peer) /\ Len(home) <= MaxSession
  /\ sessionMap \subseteq Peer \X Created /\ live \subseteq Created
  /\ handled \subseteq Datagram \X Created \X Poller
  /\ dangling \subseteq Datagram /\ via \in [Datagram -> SUBSET {"caught", "posted"}]

Init ==
  /\ sender = <<>> /\ home = <<>> /\ peer = <<>>
  /\ arrived = [p \in Poller |-> {}] /\ inbox = [s \in Session |-> {}]
  /\ queue = [p \in Poller |-> <<>>]
  /\ doing = [p \in Poller |-> Nothing]
  /\ sessionMap = {} /\ live = {} /\ handled = {} /\ dangling = {}
  /\ via = [d \in Datagram |-> {}]

Idle(p) == doing[p] = Nothing
From(d) == sender[d]
Found(x) == {s \in Created : <<x, s>> \in sessionMap}
(* The helper of s exists: in the map, or in a copy of it. *)
Exists(s) ==
  \/ s \in Found(peer[s])
  \/ \E p \in Poller : \E i \in 1 .. Len(queue[p]) :
       queue[p][i][1] = "manage" /\ s \in queue[p][i][3]

Post(p, closure) == queue' = [queue EXCEPT ![p] = Append(@, closure)]

(* External: the kernel.  A datagram of a peer that has a connected socket goes
   there, any other to one of the sockets that share the port. *)
Arrive(x) ==
  /\ Len(sender) < MaxDatagram
  /\ sender' = Append(sender, x)
  /\ LET d == Len(sender) + 1
         connected == {s \in live : peer[s] = x} IN
     \/ \E s \in connected :
          inbox' = [inbox EXCEPT ![s] = @ \cup {d}] /\ UNCHANGED arrived
     \/ /\ connected = {}
        /\ \E p \in Poller : arrived' = [arrived EXCEPT ![p] = @ \cup {d}]
        /\ UNCHANGED inbox
  /\ UNCHANGED <<queue, doing, home, peer, sessionMap, live, handled,
                 dangling, via>>

(* getOrCreateSession under the lock: the reference to the session, or none. *)
LookUp(p, d, x) ==
  doing' = [doing EXCEPT ![p] =
              IF Found(x) # {} THEN <<"found", d, CHOOSE s \in Found(x) : TRUE>>
                               ELSE <<"miss", d, 0>>]

(* onRead on the server's socket of p. *)
OnRead(p, d) ==
  /\ Idle(p) /\ d \in arrived[p]
  /\ arrived' = [arrived EXCEPT ![p] = @ \ {d}]
  /\ LookUp(p, d, From(d))
  /\ UNCHANGED <<sender, inbox, queue, home, peer, sessionMap, live, handled,
                 dangling, via>>

(* Mutant: the callback does not return after it has handled the datagram. *)
OnSessionReadTwice(s, d) ==
  LET p == home[s] IN
  /\ Idle(p) /\ s \in live /\ d \in inbox[s]
  /\ inbox' = [inbox EXCEPT ![s] = @ \ {d}]
  /\ handled' = IF From(d) = peer[s] THEN handled \cup {<<d, s, p>>} ELSE handled
  /\ LookUp(p, d, peer[s])
  /\ UNCHANGED <<sender, arrived, queue, home, peer, sessionMap, live, dangling, via>>

(* The read callback of a session's socket.  A datagram of another peer goes to
   onRead_l with the id of this session. *)
OnSessionRead(s, d) ==
  LET p == home[s] IN
  /\ Idle(p) /\ s \in live /\ d \in inbox[s]
  /\ inbox' = [inbox EXCEPT ![s] = @ \ {d}]
  /\ \/ /\ From(d) = peer[s]
        /\ handled' = handled \cup {<<d, s, p>>}
        /\ UNCHANGED <<doing, via>>
     \/ /\ From(d) # peer[s]
        /\ LookUp(p, d, peer[s])
        /\ UNCHANGED <<handled, via>>
  /\ UNCHANGED <<sender, arrived, queue, home, peer, sessionMap, live, dangling>>

(* onRead_l copies the reference.  The session may have been erased since, and
   its helper deleted: what is read then is anything; the datagram is lost. *)
UseSession(p) ==
  /\ doing[p][1] \in {"found", "created"}
  /\ doing' = [doing EXCEPT ![p] = Nothing]
  /\ LET d == doing[p][2]
         s == doing[p][3] IN
     \/ /\ ~Exists(s)
        /\ dangling' = dangling \cup {d}
        /\ UNCHANGED <<queue, handled>>
     \/ /\ Exists(s)
        /\ IF home[s] = p \/ doing[p][1] = "created"
           THEN handled' = handled \cup {<<d, s, p>>} /\ UNCHANGED queue
           ELSE Post(home[s], <<"recv", d, s>>) /\ UNCHANGED handled
        /\ UNCHANGED dangling
  /\ UNCHANGED <<sender, arrived, inbox, home, peer, sessionMap, live, via>>

(* Mutant: nobody looks again under the lock. *)
SessionCreatorBlind(p, d, x, step) ==
  /\ Len(home) < MaxSession
  /\ LET s == Len(home) + 1 IN
     /\ home' = Append(home, p) /\ peer' = Append(peer, x)
     /\ sessionMap' = sessionMap \cup {<<x, s>>}
     /\ live' = live \cup {s}
     /\ doing' = [doing EXCEPT ![p] = <<step, d, s>>]
  /\ UNCHANGED <<inbox, arrived, via>>

(* session_creator under the lock: the session that is there by now, or a new
   one, whose socket is bound to the port before it is connected to the peer
   and so may hold datagrams of others. *)
SessionCreator(p, d, x, step) ==
  \/ /\ Found(x) # {}
     /\ doing' = [doing EXCEPT ![p] = <<step, d, CHOOSE s \in Found(x) : TRUE>>]
     /\ UNCHANGED <<home, peer, sessionMap, live, inbox, arrived, via>>
  \/ /\ Found(x) = {} /\ Len(home) < MaxSession
     /\ LET s == Len(home) + 1 IN
        /\ home' = Append(home, p) /\ peer' = Append(peer, x)
        /\ sessionMap' = sessionMap \cup {<<x, s>>}
        /\ live' = live \cup {s}
        /\ doing' = [doing EXCEPT ![p] = <<step, d, s>>]
        /\ \E S \in SUBSET {e \in arrived[p] : From(e) # x} :
             /\ inbox' = [inbox EXCEPT ![s] = S]
             /\ arrived' = [arrived EXCEPT ![p] = @ \ S]
             /\ via' = [e \in Datagram |-> IF e \in S THEN via[e] \cup {"caught"} ELSE via[e]]

(* createSession: on this thread, or posted to the thread of the socket. *)
CreateSession(p) ==
  /\ doing[p][1] = "miss"
  /\ LET d == doing[p][2] IN
     \/ /\ SessionCreator(p, d, From(d), "found")
        /\ UNCHANGED queue
     \/ \E q \in Poller \ {p} :
          /\ Post(q, <<"create", d, 0>>)
          /\ via' = [via EXCEPT ![d] = @ \cup {"posted"}]
          /\ doing' = [doing EXCEPT ![p] = Nothing]
          /\ UNCHANGED <<home, peer, sessionMap, live, inbox, arrived>>
  /\ UNCHANGED <<sender, handled, dangling>>

(* Mutant: the datagram that came with the creation is not handed on. *)
RunCreateDrops(p) ==
  /\ Idle(p) /\ queue[p] # <<>> /\ Head(queue[p])[1] = "create"
  /\ queue' = [queue EXCEPT ![p] = Tail(@)]
  /\ UNCHANGED <<sender, arrived, inbox, doing, home, peer, sessionMap, live, handled,
                 dangling, via>>

(* The posted creation; it hands the datagram to whatever session comes out. *)
RunCreate(p) ==
  /\ Idle(p) /\ queue[p] # <<>> /\ Head(queue[p])[1] = "create"
  /\ queue' = [queue EXCEPT ![p] = Tail(@)]
  /\ LET d == Head(queue[p])[2] IN SessionCreator(p, d, From(d), "created")
  /\ UNCHANGED <<sender, handled, dangling>>

(* The posted datagram, for a session that may be gone. *)
RunRecv(p) ==
  /\ Idle(p) /\ queue[p] # <<>> /\ Head(queue[p])[1] = "recv"
  /\ queue' = [queue EXCEPT ![p] = Tail(@)]
  /\ LET s == Head(queue[p])[3] IN
       handled' = IF Exists(s) THEN handled \cup {<<Head(queue[p])[2], s, p>>}
                                          ELSE handled
  /\ UNCHANGED <<sender, arrived, inbox, doing, home, peer, sessionMap, live, dangling, via>>

(* The error callback of a session's socket: the entry of its id is erased. *)
Fail(s) ==
  /\ live' = live \ {s}
  /\ sessionMap' = {e \in sessionMap : e[1] # peer[s]}
  /\ inbox' = [inbox EXCEPT ![s] = {}]

OnErr(s) ==
  /\ Idle(home[s]) /\ s \in live
  /\ Fail(s)
  /\ UNCHANGED <<sender, arrived, queue, doing, home, peer, handled, dangling, via>>

(* onManagerSession posts a copy of the map to every poller ... *)
Manage ==
  /\ \A p \in Poller : \A i \in 1 .. Len(queue[p]) : queue[p][i][1] # "manage"
  /\ sessionMap # {}
  /\ queue' = [p \in Poller |-> Append(queue[p], <<"manage", 0, {e[2] : e \in sessionMap}>>)]
  /\ UNCHANGED <<sender, arrived, inbox, doing, home, peer, sessionMap, live, handled,
                 dangling, via>>

(* ... which manages the sessions that are its own; one of them may time out. *)
RunManage(p) ==
  /\ Idle(p) /\ queue[p] # <<>> /\ Head(queue[p])[1] = "manage"
  /\ queue' = [queue EXCEPT ![p] = Tail(@)]
  /\ \/ UNCHANGED <<live, sessionMap, inbox>>
     \/ \E s \in Head(queue[p])[3] : home[s] = p /\ s \in live /\ Fail(s)
  /\ UNCHANGED <<sender, arrived, doing, home, peer, handled, dangling, via>>

RunClosure(p) == RunCreate(p) \/ RunRecv(p) \/ RunManage(p)

Next ==
  \/ \E x \in Peer : Arrive(x)
  \/ \E p \in Poller, d \in Datagram : OnRead(p, d)
  \/ \E s \in Created, d \in Datagram : OnSessionRead(s, d)
  \/ \E p \in Poller : UseSession(p) \/ CreateSession(p) \/ RunClosure(p)
  \/ \E s \in Created : OnErr(s)
  \/ Manage

(* A loop thread finishes what it has in hand, runs what is posted and reads
   what has arrived. *)
Fairness ==
  \A p \in Poller :
    /\ WF_vars(UseSession(p)) /\ WF_vars(CreateSession(p))
    /\ WF_vars(RunClosure(p)) /\ SF_vars(\E d \in Datagram : OnRead(p, d))
    /\ WF_vars(\E s \in Created, d \in Datagram : home[s] = p /\ OnSessionRead(s, d))

Spec == Init /\ [][Next]_vars /\ Fairness

-----------------------------------------------------------------------------
(* A peer never has two live sessions, whichever threads saw it first. *)
OneSessionPerPeer == \A s, t \in live : peer[s] = peer[t] => s = t

(* A live session is found by its peer, and nobody else is in the map. *)
MapIsLive == sessionMap = {<<peer[s], s>> : s \in live}

(* onRecv runs on the session's thread.  The exception is a datagram that was
   posted to create the session on another poller and met one that exists. *)
OwnThread == \A h \in handled : h[3] = home[h[2]] \/ "posted" \in via[h[1]]

(* A reference to a deleted helper is only ever read by a thread that is not
   the session's: errors are handled on the session's own. *)
ForeignDangles ==
  \A p \in Poller :
    LET s == doing[p][3] IN (s # 0 /\ ~Exists(s)) => home[s] # p

(* A datagram goes to the session of its sender.  The exception is one that a
   session's socket caught before it was connected. *)
RightSessionOrStray ==
  \A h \in handled : sender[h[1]] = peer[h[2]] \/ "caught" \in via[h[1]]

(* UdpServer.cpp, createSession: the server dispatches a datagram that a session's
   socket read for somebody else to the session it belongs to. *)
RightSession == \A h \in handled : sender[h[1]] = peer[h[2]]

(* Handled datagrams are nowhere else: no detour delivers twice. *)
HandledOnce ==
  \A h \in handled :
    /\ \A g \in handled : g[1] = h[1] => g = h
    /\ \A p \in Poller : /\ doing[p][2] # h[1] /\ h[1] \notin arrived[p]
                         /\ \A i \in 1 .. Len(queue[p]) : queue[p][i][2] # h[1]
    /\ \A t \in Session : h[1] \notin inbox[t]

(* Two threads that read the same peer agree on one session, and what they read
   reaches that session once and on its own thread. *)
UdpSessionsSafe ==
  /\ TypeOK /\ OneSessionPerPeer /\ MapIsLive /\ OwnThread
  /\ ForeignDangles /\ RightSessionOrStray /\ HandledOnce

(* A datagram that left the queue of a server's socket is handled, the one that makes its
   session included, unless a session of its sender failed or the reference
   dangled. *)
Read(d) == d <= Len(sender) /\ via[d] \subseteq {"posted"} /\ \A p \in Poller : d \notin arrived[p]

Consumed ==
  \A d \in Datagram :
    Read(d) ~> \/ \E h \in handled : h[1] = d
               \/ d \in dangling \/ ~Read(d)
               \/ \E s \in Created \ live : peer[s] = sender[d]
               \/ Len(home) = MaxSession

-----------------------------------------------------------------------------
(* Theorems, for any number of pollers, peers, datagrams and sessions.     *)
(* RouteInv says of every place a datagram can be in that it got there by  *)
(* its peer and by its thread; OnceInv says that it is in one place only.  *)

Arrivals == 1 .. Len(sender)     \* the datagrams that have arrived

\* Datagrams that are in play have arrived, sessions that are referred to were created.
ArrivedOnly ==
  /\ \A p \in Poller : arrived[p] \subseteq Arrivals
  /\ \A s \in Session : inbox[s] \subseteq Arrivals
  /\ \A h \in handled : h[1] \in Arrivals

HandKnown ==
  \A p \in Poller :
    \/ doing[p] = Nothing
    \/ doing[p][1] = "miss" /\ doing[p][2] \in Arrivals /\ doing[p][3] = 0
    \/ doing[p][1] \in {"found", "created"} /\ doing[p][2] \in Arrivals /\ doing[p][3] \in Created

KnownIn(c, A, S) ==
  \/ c[1] = "create" /\ c[2] \in A /\ c[3] = 0
  \/ c[1] = "recv" /\ c[2] \in A /\ c[3] \in S
  \/ c[1] = "manage" /\ c[2] = 0 /\ c[3] \subseteq S

QueueKnown == \A p \in Poller : \A i \in 1 .. Len(queue[p]) : KnownIn(queue[p][i], Arrivals, Created)

Typed == TypeOK /\ ArrivedOnly /\ HandKnown /\ QueueKnown

Closure ==
  {"create", "recv"} \X Datagram \X (0 .. MaxSession) \cup {"manage"} \X {0} \X SUBSET Session

\* Every closure that is queued was queued before, or is c.
Kept(c) ==
  \A q \in Poller : \A i \in 1 .. Len(queue'[q]) :
    \/ queue'[q][i] = c
    \/ \E j \in 1 .. Len(queue[q]) : queue'[q][i] = queue[q][j]

\* What Post does to the queues.
LEMMA Pushed ==
  ASSUME queue \in [Poller -> Seq(Closure)], NEW p \in Poller, NEW c \in Closure, Post(p, c)
  PROVE  /\ queue' \in [Poller -> Seq(Closure)]
         /\ \A q \in Poller \ {p} : queue'[q] = queue[q]
         /\ Len(queue[p]) \in Nat /\ Len(queue'[p]) = Len(queue[p]) + 1
         /\ queue'[p][Len(queue[p]) + 1] = c
         /\ \A i \in 1 .. Len(queue[p]) : queue'[p][i] = queue[p][i]
         /\ Kept(c)
<1>1. queue[p] \in Seq(Closure) /\ queue'[p] = Append(queue[p], c)
      /\ queue' = [queue EXCEPT ![p] = Append(queue[p], c)]
  BY DEF Post
<1>2. /\ queue'[p] \in Seq(Closure) /\ Len(queue[p]) \in Nat
      /\ Len(queue'[p]) = Len(queue[p]) + 1
      /\ queue'[p][Len(queue[p]) + 1] = c
      /\ \A i \in 1 .. Len(queue[p]) : queue'[p][i] = queue[p][i]
  BY <1>1, AppendProperties, LenProperties
<1>3. queue' \in [Poller -> Seq(Closure)] /\ \A q \in Poller \ {p} : queue'[q] = queue[q]
  BY <1>1, <1>2
<1>4. Kept(c)
  <2> SUFFICES ASSUME NEW q \in Poller, NEW i \in 1 .. Len(queue'[q]), queue'[q][i] # c
               PROVE  \E j \in 1 .. Len(queue[q]) : queue'[q][i] = queue[q][j]
    BY DEF Kept
  <2>1. CASE q = p
    <3>1. i \in 1 .. Len(queue[p])
      BY <1>2, <2>1
    <3> QED
      BY <1>2, <2>1, <3>1
  <2>2. CASE q # p
    BY <1>3, <2>2
  <2> QED
    BY <2>1, <2>2
<1> QED
  BY <1>2, <1>3, <1>4

\* What taking the front closure does to the queues.
LEMMA Popped ==
  ASSUME queue \in [Poller -> Seq(Closure)], NEW p \in Poller, queue[p] # <<>>,
         queue' = [queue EXCEPT ![p] = Tail(@)]
  PROVE  /\ queue' \in [Poller -> Seq(Closure)]
         /\ \A q \in Poller \ {p} : queue'[q] = queue[q]
         /\ Head(queue[p]) = queue[p][1] /\ queue[p][1] \in Closure /\ 1 \in 1 .. Len(queue[p])
         /\ Len(queue[p]) \in Nat /\ Len(queue'[p]) + 1 = Len(queue[p]) /\ Len(queue'[p]) \in Nat
         /\ \A i \in 1 .. Len(queue'[p]) : queue'[p][i] = queue[p][i + 1] /\ i + 1 \in 1 .. Len(queue[p])
         /\ Kept(queue[p][1])
<1>1. queue[p] \in Seq(Closure) /\ queue'[p] = Tail(queue[p])
  OBVIOUS
<1>2. /\ queue'[p] \in Seq(Closure) /\ Head(queue[p]) = queue[p][1] /\ queue[p][1] \in Closure
      /\ Len(queue[p]) \in Nat /\ Len(queue'[p]) + 1 = Len(queue[p]) /\ Len(queue'[p]) \in Nat
      /\ \A i \in 1 .. Len(queue'[p]) : queue'[p][i] = queue[p][i + 1]
  BY <1>1, HeadTailProperties, LenProperties
<1>3. \A i \in 1 .. Len(queue'[p]) : i + 1 \in 1 .. Len(queue[p])
  BY ONLY <1>2
<1>4. 1 \in 1 .. Len(queue[p])
  BY ONLY <1>2
<1>5. queue' \in [Poller -> Seq(Closure)] /\ \A q \in Poller \ {p} : queue'[q] = queue[q]
  BY <1>1, <1>2
<1>6. Kept(queue[p][1])
  BY <1>2, <1>3, <1>5 DEF Kept
<1> QED
  BY <1>2, <1>3, <1>4, <1>5, <1>6

-----------------------------------------------------------------------------
(* Types.                                                                  *)

\* The initial state has its types.
LEMMA TypeInit == ASSUME MaxDatagram \in Nat, MaxSession \in Nat PROVE Init => Typed
<1> SUFFICES ASSUME Init PROVE Typed
  OBVIOUS
<1>1. /\ <<>> \in Seq(Peer) /\ <<>> \in Seq(Poller) /\ <<>> \in Seq(Closure)
      /\ Len(<<>>) = 0
  BY EmptySeq
<1>2. TypeOK
  BY <1>1 DEF Init, TypeOK, Nothing, Created, Closure
<1> QED
  BY <1>1, <1>2 DEF Init, Typed, ArrivedOnly, HandKnown, QueueKnown, Created

\* The numbers of what has arrived and of what was created.
LEMMA Numbers ==
  ASSUME MaxDatagram \in Nat, MaxSession \in Nat, Typed
  PROVE  /\ Len(sender) \in Nat /\ Len(home) \in Nat /\ Len(peer) = Len(home)
         /\ Arrivals \subseteq Datagram /\ Created \subseteq Session
         /\ \A d \in Arrivals : d \in Nat /\ d # 0 /\ sender[d] \in Peer
         /\ \A s \in Created : s \in Nat /\ s # 0 /\ peer[s] \in Peer /\ home[s] \in Poller
         /\ queue \in [Poller -> Seq(Closure)]
         /\ \A p \in Poller : Len(queue[p]) \in Nat
<1>1. /\ sender \in Seq(Peer) /\ home \in Seq(Poller) /\ peer \in Seq(Peer)
      /\ Len(sender) <= MaxDatagram /\ Len(home) <= MaxSession /\ Len(peer) = Len(home)
      /\ queue \in [Poller -> Seq(Closure)]
  BY DEF Typed, TypeOK, Closure
<1>2. Len(sender) \in Nat /\ Len(home) \in Nat /\ \A p \in Poller : Len(queue[p]) \in Nat
  BY <1>1, LenProperties
<1> QED
  BY <1>1, <1>2 DEF Arrivals, Created, Datagram, Session

\* What was found for a peer was created for it.
LEMMA FoundCreated ==
  ASSUME Typed, NEW x, Found(x) # {}
  PROVE  (CHOOSE s \in Found(x) : TRUE) \in Found(x) /\ Found(x) \subseteq Created
BY DEF Found

\* A helper that exists is that of a session that was created.
LEMMA ExistsCreated ==
  ASSUME Typed, NEW s, Exists(s)
  PROVE  s \in Created
<1>1. CASE s \in Found(peer[s])
  BY <1>1 DEF Found
<1>2. CASE \E p \in Poller : \E i \in 1 .. Len(queue[p]) :
             queue[p][i][1] = "manage" /\ s \in queue[p][i][3]
  BY <1>2 DEF Typed, QueueKnown, KnownIn
<1> QED
  BY <1>1, <1>2 DEF Exists

\* A session that is created.
Creates(p, x) ==
  /\ Len(home) < MaxSession
  /\ home' = Append(home, p) /\ peer' = Append(peer, x)

\* What creating a session does to the lists of sessions.
LEMMA CreatedMore ==
  ASSUME MaxDatagram \in Nat, MaxSession \in Nat, Typed, NEW p \in Poller, NEW x \in Peer, Creates(p, x)
  PROVE  /\ home' \in Seq(Poller) /\ peer' \in Seq(Peer)
         /\ Len(home') = Len(home) + 1 /\ Len(peer') = Len(home) + 1 /\ Len(home') <= MaxSession
         /\ Len(home) + 1 \in Session /\ Len(home) + 1 \notin Created
         /\ Created' = Created \cup {Len(home) + 1}
         /\ home'[Len(home) + 1] = p /\ peer'[Len(home) + 1] = x
         /\ \A s \in Created : home'[s] = home[s] /\ peer'[s] = peer[s]
<1>1. /\ Len(home) \in Nat /\ Len(peer) = Len(home) /\ home \in Seq(Poller) /\ peer \in Seq(Peer)
  BY Numbers DEF Typed, TypeOK
<1>2. /\ home' \in Seq(Poller) /\ peer' \in Seq(Peer)
      /\ Len(home') = Len(home) + 1 /\ Len(peer') = Len(home) + 1
      /\ home'[Len(home) + 1] = p /\ peer'[Len(home) + 1] = x
      /\ \A s \in 1 .. Len(home) : home'[s] = home[s] /\ peer'[s] = peer[s]
  BY <1>1, AppendProperties DEF Creates
<1> QED
  BY <1>1, <1>2 DEF Creates, Created, Session

\* The types, one variable at a time.
LEMMA TypeParts ==
  ASSUME Typed
  PROVE  /\ sender \in Seq(Peer) /\ Len(sender) <= MaxDatagram
         /\ arrived \in [Poller -> SUBSET Datagram] /\ inbox \in [Session -> SUBSET Datagram]
         /\ queue \in [Poller -> Seq(Closure)]
         /\ doing \in [Poller -> {"idle", "miss", "found", "created"}
                                 \X (0 .. MaxDatagram) \X (0 .. MaxSession)]
         /\ home \in Seq(Poller) /\ peer \in Seq(Peer)
         /\ Len(home) = Len(peer) /\ Len(home) <= MaxSession
         /\ sessionMap \subseteq Peer \X Created /\ live \subseteq Created
         /\ handled \subseteq Datagram \X Created \X Poller
         /\ dangling \subseteq Datagram /\ via \in [Datagram -> SUBSET {"caught", "posted"}]
BY DEF Typed, TypeOK, Closure

\* What a thread takes in hand.
LEMMA InHand ==
  ASSUME MaxDatagram \in Nat, MaxSession \in Nat, Typed, NEW p \in Poller,
         NEW step \in {"miss", "found", "created"}, NEW d \in Arrivals, NEW s \in 0 .. MaxSession,
         doing' = [doing EXCEPT ![p] = <<step, d, s>>]
  PROVE  /\ doing' \in [Poller -> {"idle", "miss", "found", "created"}
                                  \X (0 .. MaxDatagram) \X (0 .. MaxSession)]
         /\ doing'[p][1] = step /\ doing'[p][2] = d /\ doing'[p][3] = s
         /\ \A q \in Poller \ {p} : doing'[q] = doing[q]
<1>1. d \in 0 .. MaxDatagram
  BY Numbers DEF Datagram
<1> QED
  BY <1>1, TypeParts

\* Nothing is taken in hand.
LEMMA HandFree ==
  ASSUME MaxDatagram \in Nat, MaxSession \in Nat, Typed, NEW p \in Poller,
         doing' = [doing EXCEPT ![p] = Nothing]
  PROVE  /\ doing' \in [Poller -> {"idle", "miss", "found", "created"}
                                  \X (0 .. MaxDatagram) \X (0 .. MaxSession)]
         /\ doing'[p] = Nothing
         /\ \A q \in Poller \ {p} : doing'[q] = doing[q]
BY TypeParts DEF Nothing

\* getOrCreateSession: a session of the peer, or none.
LEMMA Looked ==
  ASSUME MaxDatagram \in Nat, MaxSession \in Nat, Typed, NEW p \in Poller, NEW d \in Arrivals,
         NEW x, LookUp(p, d, x)
  PROVE  \/ /\ Found(x) # {}
            /\ \E s \in Found(x) : s \in Created /\ doing' = [doing EXCEPT ![p] = <<"found", d, s>>]
         \/ Found(x) = {} /\ doing' = [doing EXCEPT ![p] = <<"miss", d, 0>>]
BY FoundCreated DEF LookUp

\* getOrCreateSession leaves hands typed.
LEMMA HandTyped ==
  ASSUME MaxDatagram \in Nat, MaxSession \in Nat, Typed, NEW p \in Poller, NEW d \in Arrivals,
         NEW x, LookUp(p, d, x), sender' = sender, home' = home
  PROVE  /\ doing' \in [Poller -> {"idle", "miss", "found", "created"}
                                  \X (0 .. MaxDatagram) \X (0 .. MaxSession)]
         /\ HandKnown'
<1>1. CASE Found(x) = {} /\ doing' = [doing EXCEPT ![p] = <<"miss", d, 0>>]
  <2>0. 0 \in 0 .. MaxSession
    OBVIOUS
  <2>1. /\ doing' \in [Poller -> {"idle", "miss", "found", "created"}
                                  \X (0 .. MaxDatagram) \X (0 .. MaxSession)]
        /\ doing'[p][1] = "miss" /\ doing'[p][2] = d /\ doing'[p][3] = 0
        /\ \A q \in Poller \ {p} : doing'[q] = doing[q]
    BY <1>1, <2>0, InHand
  <2> QED
    BY <2>1 DEF Typed, HandKnown, Arrivals, Created, Nothing
<1>2. CASE \E s \in Found(x) : s \in Created /\ doing' = [doing EXCEPT ![p] = <<"found", d, s>>]
  <2>1. PICK s \in Created : doing' = [doing EXCEPT ![p] = <<"found", d, s>>]
    BY <1>2
  <2>2. s \in 0 .. MaxSession
    BY Numbers DEF Session
  <2>3. /\ doing' \in [Poller -> {"idle", "miss", "found", "created"}
                                  \X (0 .. MaxDatagram) \X (0 .. MaxSession)]
        /\ doing'[p][1] = "found" /\ doing'[p][2] = d /\ doing'[p][3] = s
        /\ \A q \in Poller \ {p} : doing'[q] = doing[q]
    BY <2>1, <2>2, InHand
  <2> QED
    BY <2>3 DEF Typed, HandKnown, Arrivals, Created, Nothing
<1> QED
  BY <1>1, <1>2, Looked

\* session_creator under the lock.
LEMMA CreatorTyped ==
  ASSUME MaxDatagram \in Nat, MaxSession \in Nat, Typed, NEW p \in Poller, NEW d \in Arrivals,
         NEW step \in {"found", "created"}, SessionCreator(p, d, From(d), step),
         sender' = sender
  PROVE  /\ doing' \in [Poller -> {"idle", "miss", "found", "created"}
                                  \X (0 .. MaxDatagram) \X (0 .. MaxSession)]
         /\ HandKnown'
         /\ arrived' \in [Poller -> SUBSET Datagram] /\ inbox' \in [Session -> SUBSET Datagram]
         /\ home' \in Seq(Poller) /\ peer' \in Seq(Peer) /\ Len(home') = Len(peer')
         /\ Len(home') <= MaxSession /\ Created \subseteq Created'
         /\ sessionMap' \subseteq Peer \X Created' /\ live' \subseteq Created'
         /\ via' \in [Datagram -> SUBSET {"caught", "posted"}]
         /\ \A q \in Poller : arrived'[q] \subseteq Arrivals
         /\ \A s \in Session : inbox'[s] \subseteq Arrivals
<1> DEFINE x == From(d)
<1>1. CASE /\ Found(x) # {}
           /\ doing' = [doing EXCEPT ![p] = <<step, d, CHOOSE s \in Found(x) : TRUE>>]
           /\ UNCHANGED <<home, peer, sessionMap, live, inbox, arrived, via>>
  <2>1. PICK s \in Created : doing' = [doing EXCEPT ![p] = <<step, d, s>>]
    BY <1>1, FoundCreated
  <2>2. s \in 0 .. MaxSession
    BY Numbers DEF Session
  <2>3. /\ doing' \in [Poller -> {"idle", "miss", "found", "created"}
                                  \X (0 .. MaxDatagram) \X (0 .. MaxSession)]
        /\ doing'[p][1] = step /\ doing'[p][2] = d /\ doing'[p][3] = s
        /\ \A q \in Poller \ {p} : doing'[q] = doing[q]
    BY <2>1, <2>2, InHand
  <2>4. HandKnown'
    BY <1>1, <2>3 DEF Typed, HandKnown, Arrivals, Created, Nothing
  <2>5. Created' = Created
    BY <1>1 DEF Created
  <2> QED
    BY <1>1, <2>3, <2>4, <2>5, TypeParts DEF Typed, ArrivedOnly
<1>2. CASE Found(x) = {} /\ Len(home) < MaxSession
  <2> DEFINE n == Len(home) + 1
  <2>1. /\ home' = Append(home, p) /\ peer' = Append(peer, x)
        /\ sessionMap' = sessionMap \cup {<<x, n>>} /\ live' = live \cup {n}
        /\ doing' = [doing EXCEPT ![p] = <<step, d, n>>]
        /\ \E S \in SUBSET {e \in arrived[p] : From(e) # x} :
             /\ inbox' = [inbox EXCEPT ![n] = S]
             /\ arrived' = [arrived EXCEPT ![p] = @ \ S]
             /\ via' = [e \in Datagram |-> IF e \in S THEN via[e] \cup {"caught"} ELSE via[e]]
    BY <1>2 DEF SessionCreator
  <2>2. PICK S \in SUBSET arrived[p] :
             /\ inbox' = [inbox EXCEPT ![n] = S]
             /\ arrived' = [arrived EXCEPT ![p] = @ \ S]
             /\ via' = [e \in Datagram |-> IF e \in S THEN via[e] \cup {"caught"} ELSE via[e]]
    BY <2>1
  <2>3. x \in Peer
    BY Numbers DEF From
  <2>4. Creates(p, x)
    BY <1>2, <2>1 DEF Creates
  <2>5. /\ home' \in Seq(Poller) /\ peer' \in Seq(Peer)
        /\ Len(home') = Len(home) + 1 /\ Len(peer') = Len(home) + 1 /\ Len(home') <= MaxSession
        /\ n \in Session /\ n \notin Created /\ Created' = Created \cup {n}
    BY <2>3, <2>4, CreatedMore
  <2> HIDE DEF n, x
  <2>6. n \in 0 .. MaxSession
    BY <2>5 DEF Session
  <2>7. /\ doing' \in [Poller -> {"idle", "miss", "found", "created"}
                                  \X (0 .. MaxDatagram) \X (0 .. MaxSession)]
        /\ doing'[p][1] = step /\ doing'[p][2] = d /\ doing'[p][3] = n
        /\ \A q \in Poller \ {p} : doing'[q] = doing[q]
    BY <2>1, <2>6, InHand
  <2>8. HandKnown'
    BY <2>5, <2>7 DEF Typed, HandKnown, Arrivals, Nothing
  <2>9. /\ arrived' \in [Poller -> SUBSET Datagram] /\ inbox' \in [Session -> SUBSET Datagram]
        /\ via' \in [Datagram -> SUBSET {"caught", "posted"}]
    BY <2>2, <2>5, TypeParts
  <2>10. /\ \A q \in Poller : arrived'[q] \subseteq Arrivals
         /\ \A s \in Session : inbox'[s] \subseteq Arrivals
    BY <2>2, <2>5, TypeParts DEF Typed, ArrivedOnly
  <2>11. sessionMap' \subseteq Peer \X Created' /\ live' \subseteq Created'
    BY <2>1, <2>3, <2>5, TypeParts
  <2> QED
    BY <2>5, <2>7, <2>8, <2>9, <2>10, <2>11
<1> QED
  BY <1>1, <1>2 DEF SessionCreator

\* A step that queues at most one known closure keeps the queues known.
LEMMA QueueStays ==
  ASSUME Typed, Arrivals \subseteq Arrivals', Created \subseteq Created',
         NEW c, KnownIn(c, Arrivals, Created), Kept(c)
  PROVE  QueueKnown'
<1>1. ASSUME NEW e, KnownIn(e, Arrivals, Created) PROVE KnownIn(e, Arrivals', Created')
  BY <1>1 DEF KnownIn
<1> QED
  BY <1>1 DEF Typed, QueueKnown, Kept

\* A step that takes nothing in hand keeps the hands known.
LEMMA HandStays ==
  ASSUME Typed, Arrivals \subseteq Arrivals', Created \subseteq Created', doing' = doing
  PROVE  HandKnown'
BY DEF Typed, HandKnown, Nothing

\* A step that leaves the queues alone keeps them known.
LEMMA QueueSame ==
  ASSUME Typed, Arrivals \subseteq Arrivals', Created \subseteq Created', queue' = queue
  PROVE  QueueKnown'
<1>1. ASSUME NEW e, KnownIn(e, Arrivals, Created) PROVE KnownIn(e, Arrivals', Created')
  BY <1>1 DEF KnownIn
<1> QED
  BY <1>1 DEF Typed, QueueKnown

\* One case per action.
LEMMA TypeStep ==
  ASSUME MaxDatagram \in Nat, MaxSession \in Nat PROVE Typed /\ [Next]_vars => Typed'
<1> SUFFICES ASSUME Typed, [Next]_vars PROVE Typed'
  OBVIOUS
<1> USE TypeParts DEF Closure
<1>1. ASSUME NEW x \in Peer, Arrive(x) PROVE Typed'
  <2> DEFINE n == Len(sender) + 1
  <2>1. /\ sender' \in Seq(Peer) /\ Len(sender') = n /\ n \in Datagram /\ Arrivals' = Arrivals \cup {n}
        /\ Len(sender') <= MaxDatagram
    <3>1. sender' = Append(sender, x) /\ Len(sender) < MaxDatagram
      BY <1>1 DEF Arrive
    <3>2. sender' \in Seq(Peer) /\ Len(sender') = n /\ Len(sender) \in Nat
      BY <3>1, AppendProperties, LenProperties
    <3> QED
      BY <3>1, <3>2 DEF Datagram, Arrivals
  <2>2. /\ UNCHANGED <<queue, doing, home, peer, sessionMap, live, handled, dangling, via>>
        /\ Created' = Created
    BY <1>1 DEF Arrive, Created
  <2>3. \/ \E p \in Poller : arrived' = [arrived EXCEPT ![p] = @ \cup {n}] /\ inbox' = inbox
        \/ \E s \in Session : inbox' = [inbox EXCEPT ![s] = @ \cup {n}] /\ arrived' = arrived
    BY <1>1, Numbers DEF Arrive
  <2> HIDE DEF n
  <2>4. /\ arrived' \in [Poller -> SUBSET Datagram] /\ inbox' \in [Session -> SUBSET Datagram]
        /\ ArrivedOnly'
    <3>1. CASE \E p \in Poller : arrived' = [arrived EXCEPT ![p] = @ \cup {n}] /\ inbox' = inbox
      BY <2>1, <2>2, <3>1 DEF Typed, ArrivedOnly
    <3>2. CASE \E s \in Session : inbox' = [inbox EXCEPT ![s] = @ \cup {n}] /\ arrived' = arrived
      BY <2>1, <2>2, <3>2 DEF Typed, ArrivedOnly
    <3> QED
      BY <2>3, <3>1, <3>2
  <2>5. HandKnown' /\ QueueKnown'
    BY <2>1, <2>2, HandStays, QueueSame
  <2> QED
    BY <2>1, <2>2, <2>4, <2>5 DEF Typed, TypeOK
<1>2. ASSUME NEW p \in Poller, NEW d \in Datagram, OnRead(p, d) PROVE Typed'
  <2>1. d \in Arrivals /\ LookUp(p, d, From(d)) /\ Arrivals' = Arrivals /\ Created' = Created
    BY <1>2 DEF OnRead, Typed, ArrivedOnly, Arrivals, Created
  <2>2. HandKnown' /\ doing' \in [Poller -> {"idle", "miss", "found", "created"}
                                            \X (0 .. MaxDatagram) \X (0 .. MaxSession)]
    BY <1>2, <2>1, HandTyped DEF OnRead
  <2>3. QueueKnown'
    BY <1>2, <2>1, QueueSame DEF OnRead
  <2>4. /\ arrived' \in [Poller -> SUBSET Datagram] /\ ArrivedOnly'
    BY <1>2, <2>1 DEF OnRead, Typed, ArrivedOnly
  <2> QED
    BY <1>2, <2>1, <2>2, <2>3, <2>4 DEF OnRead, Typed, TypeOK
<1>3. ASSUME NEW s \in Created, NEW d \in Datagram, OnSessionRead(s, d) PROVE Typed'
  <2> DEFINE p == home[s]
  <2>0. p \in Poller /\ s \in Session
    BY Numbers
  <2>1. /\ d \in Arrivals /\ Arrivals' = Arrivals /\ Created' = Created
        /\ UNCHANGED <<sender, arrived, queue, home, peer, sessionMap, live, dangling, via>>
        /\ inbox' = [inbox EXCEPT ![s] = @ \ {d}]
    BY <1>3, <2>0 DEF OnSessionRead, Typed, ArrivedOnly, Arrivals, Created
  <2>2. QueueKnown'
    BY <2>1, QueueSame
  <2>3. CASE handled' = handled \cup {<<d, s, p>>} /\ doing' = doing
    <3>1. HandKnown'
      BY <2>1, <2>3, HandStays
    <3>2. inbox' \in [Session -> SUBSET Datagram] /\ handled' \subseteq Datagram \X Created \X Poller
      BY <2>0, <2>1, <2>3
    <3>3. ArrivedOnly'
      <4>1. \A t \in Session : inbox'[t] \subseteq inbox[t]
        BY <2>1 DEF Typed, TypeOK
      <4>2. \A h \in handled' : h \in handled \/ h[1] = d
        BY <2>3
      <4> QED
        BY <2>1, <4>1, <4>2 DEF Typed, ArrivedOnly
    <3> QED
      BY <2>1, <2>2, <2>3, <3>1, <3>2, <3>3 DEF Typed, TypeOK
  <2>4. CASE LookUp(p, d, peer[s]) /\ handled' = handled
    <3>1. HandKnown' /\ doing' \in [Poller -> {"idle", "miss", "found", "created"}
                                              \X (0 .. MaxDatagram) \X (0 .. MaxSession)]
      BY <2>0, <2>1, <2>4, HandTyped
    <3>2. inbox' \in [Session -> SUBSET Datagram] /\ ArrivedOnly'
      BY <2>0, <2>1, <2>4 DEF Typed, ArrivedOnly
    <3> QED
      BY <2>1, <2>2, <2>4, <3>1, <3>2 DEF Typed, TypeOK
  <2> QED
    BY <1>3, <2>3, <2>4 DEF OnSessionRead
<1>4. ASSUME NEW p \in Poller, UseSession(p) PROVE Typed'
  <2> DEFINE d == doing[p][2]
             s == doing[p][3]
  <2>1. /\ d \in Arrivals /\ d \in Datagram /\ s \in Created /\ home[s] \in Poller
        /\ doing' = [doing EXCEPT ![p] = Nothing]
        /\ UNCHANGED <<sender, arrived, inbox, home, peer, sessionMap, live, via>>
        /\ Arrivals' = Arrivals /\ Created' = Created
    <3>1. d \in Arrivals /\ s \in Created
      <4>1. doing[p] # Nothing /\ doing[p][1] # "miss"
        BY <1>4 DEF UseSession, Nothing
      <4> QED
        BY <4>1 DEF Typed, HandKnown
    <3>2. d \in Datagram /\ home[s] \in Poller
      BY <3>1, Numbers
    <3> QED
      BY <1>4, <3>1, <3>2 DEF UseSession, Arrivals, Created
  <2>2. HandKnown' /\ doing' \in [Poller -> {"idle", "miss", "found", "created"}
                                            \X (0 .. MaxDatagram) \X (0 .. MaxSession)]
    BY <2>1, HandFree DEF Typed, HandKnown, Nothing
  <2>3. CASE dangling' = dangling \cup {d} /\ UNCHANGED <<queue, handled>>
    <3>1. QueueKnown' /\ ArrivedOnly'
      BY <2>1, <2>3, QueueSame DEF Typed, ArrivedOnly
    <3> QED
      BY <2>1, <2>2, <2>3, <3>1 DEF Typed, TypeOK
  <2>4. CASE handled' = handled \cup {<<d, s, p>>} /\ UNCHANGED <<queue, dangling>>
    <3>1. QueueKnown' /\ ArrivedOnly'
      BY <2>1, <2>4, QueueSame DEF Typed, ArrivedOnly
    <3>2. handled' \subseteq Datagram \X Created \X Poller
      BY <2>1, <2>4
    <3> QED
      BY <2>1, <2>2, <2>4, <3>1, <3>2 DEF Typed, TypeOK
  <2>5. CASE Post(home[s], <<"recv", d, s>>) /\ UNCHANGED <<handled, dangling>>
    <3> DEFINE c == <<"recv", d, s>>
    <3>1. c \in Closure /\ KnownIn(c, Arrivals, Created)
      BY <2>1, Numbers DEF KnownIn, Session
    <3>2. queue' \in [Poller -> Seq(Closure)] /\ Kept(c)
      BY <2>1, <2>5, <3>1, Pushed
    <3>3. QueueKnown'
      BY <2>1, <3>1, <3>2, QueueStays
    <3>4. ArrivedOnly'
      BY <2>1, <2>5 DEF Typed, ArrivedOnly
    <3> QED
      BY <2>1, <2>2, <2>5, <3>2, <3>3, <3>4 DEF Typed, TypeOK
  <2> QED
    BY <1>4, <2>3, <2>4, <2>5 DEF UseSession
<1>5. ASSUME NEW p \in Poller, CreateSession(p) PROVE Typed'
  <2> DEFINE d == doing[p][2]
  <2>1. /\ d \in Arrivals /\ d \in Datagram
        /\ UNCHANGED <<sender, handled, dangling>> /\ Arrivals' = Arrivals
    BY <1>5, Numbers DEF CreateSession, Typed, HandKnown, Nothing, Arrivals
  <2>2. CASE SessionCreator(p, d, From(d), "found") /\ UNCHANGED queue
    <3>1. /\ doing' \in [Poller -> {"idle", "miss", "found", "created"}
                                  \X (0 .. MaxDatagram) \X (0 .. MaxSession)]
          /\ HandKnown'
          /\ arrived' \in [Poller -> SUBSET Datagram] /\ inbox' \in [Session -> SUBSET Datagram]
          /\ home' \in Seq(Poller) /\ peer' \in Seq(Peer) /\ Len(home') = Len(peer')
          /\ Len(home') <= MaxSession /\ Created \subseteq Created'
          /\ sessionMap' \subseteq Peer \X Created' /\ live' \subseteq Created'
          /\ via' \in [Datagram -> SUBSET {"caught", "posted"}]
          /\ \A q \in Poller : arrived'[q] \subseteq Arrivals
          /\ \A s \in Session : inbox'[s] \subseteq Arrivals
      BY <2>1, <2>2, CreatorTyped
    <3>2. QueueKnown' /\ ArrivedOnly'
      BY <2>1, <2>2, <3>1, QueueSame DEF Typed, ArrivedOnly
    <3>3. handled' \subseteq Datagram \X Created' \X Poller
      BY <2>1, <3>1
    <3> QED
      BY <2>1, <2>2, <3>1, <3>2, <3>3 DEF Typed, TypeOK
  <2>3. CASE \E q \in Poller \ {p} :
               /\ Post(q, <<"create", d, 0>>)
               /\ via' = [via EXCEPT ![d] = @ \cup {"posted"}]
               /\ doing' = [doing EXCEPT ![p] = Nothing]
               /\ UNCHANGED <<home, peer, sessionMap, live, inbox, arrived>>
    <3> DEFINE c == <<"create", d, 0>>
    <3>1. PICK q \in Poller \ {p} : Post(q, c)
      BY <2>3
    <3>2. c \in Closure /\ KnownIn(c, Arrivals, Created)
      BY <2>1 DEF KnownIn
    <3>3. queue' \in [Poller -> Seq(Closure)] /\ Kept(c)
      BY <3>1, <3>2, Pushed
    <3>4. Created' = Created
      BY <2>3 DEF Created
    <3>5. QueueKnown' /\ ArrivedOnly'
      BY <2>1, <2>3, <3>2, <3>3, <3>4, QueueStays DEF Typed, ArrivedOnly
    <3>6. HandKnown' /\ doing' \in [Poller -> {"idle", "miss", "found", "created"}
                                              \X (0 .. MaxDatagram) \X (0 .. MaxSession)]
      BY <2>1, <2>3, <3>4, HandFree DEF Typed, HandKnown, Nothing
    <3>7. via' \in [Datagram -> SUBSET {"caught", "posted"}]
      BY <2>1, <2>3
    <3> QED
      BY <2>1, <2>3, <3>3, <3>4, <3>5, <3>6, <3>7 DEF Typed, TypeOK
  <2> QED
    BY <1>5, <2>2, <2>3 DEF CreateSession
<1>6. ASSUME NEW p \in Poller, RunClosure(p) PROVE Typed'
  <2> DEFINE c == queue[p][1]
  <2>1. queue[p] # <<>> /\ queue' = [queue EXCEPT ![p] = Tail(@)]
    BY <1>6 DEF RunClosure, RunCreate, RunRecv, RunManage
  <2>2. /\ queue' \in [Poller -> Seq(Closure)] /\ Head(queue[p]) = c /\ 1 \in 1 .. Len(queue[p]) /\ Kept(c)
    BY <2>1, Popped
  <2>3. KnownIn(c, Arrivals, Created)
    BY <2>2 DEF Typed, QueueKnown
  <2>4. ASSUME Arrivals \subseteq Arrivals', Created \subseteq Created' PROVE QueueKnown'
    BY <2>2, <2>3, <2>4, QueueStays
  <2> HIDE DEF c
  <2>5. CASE RunCreate(p)
    <3> DEFINE d == c[2]
    <3>1. /\ d \in Arrivals /\ SessionCreator(p, d, From(d), "created") /\ Arrivals' = Arrivals
          /\ UNCHANGED <<sender, handled, dangling>>
      BY <2>2, <2>3, <2>5 DEF RunCreate, KnownIn, Arrivals
    <3>2. /\ doing' \in [Poller -> {"idle", "miss", "found", "created"}
                                  \X (0 .. MaxDatagram) \X (0 .. MaxSession)]
          /\ HandKnown'
          /\ arrived' \in [Poller -> SUBSET Datagram] /\ inbox' \in [Session -> SUBSET Datagram]
          /\ home' \in Seq(Poller) /\ peer' \in Seq(Peer) /\ Len(home') = Len(peer')
          /\ Len(home') <= MaxSession /\ Created \subseteq Created'
          /\ sessionMap' \subseteq Peer \X Created' /\ live' \subseteq Created'
          /\ via' \in [Datagram -> SUBSET {"caught", "posted"}]
          /\ \A q \in Poller : arrived'[q] \subseteq Arrivals
          /\ \A s \in Session : inbox'[s] \subseteq Arrivals
      BY <3>1, CreatorTyped
    <3>3. QueueKnown' /\ ArrivedOnly'
      BY <2>4, <3>1, <3>2 DEF Typed, ArrivedOnly
    <3>4. handled' \subseteq Datagram \X Created' \X Poller
      BY <3>1, <3>2
    <3> QED
      BY <2>2, <3>1, <3>2, <3>3, <3>4 DEF Typed, TypeOK
  <2>6. CASE RunRecv(p)
    <3>1. /\ UNCHANGED <<sender, arrived, inbox, doing, home, peer, sessionMap, live, dangling, via>>
          /\ Arrivals' = Arrivals /\ Created' = Created /\ c[2] \in Arrivals /\ c[3] \in Created
          /\ handled' = handled \cup {<<c[2], c[3], p>>} \/ handled' = handled
      BY <2>2, <2>3, <2>6 DEF RunRecv, KnownIn, Arrivals, Created
    <3>2. /\ handled' \subseteq Datagram \X Created \X Poller /\ ArrivedOnly'
      BY <3>1, Numbers DEF Typed, ArrivedOnly
    <3>3. HandKnown' /\ QueueKnown'
      BY <2>4, <3>1, HandStays
    <3> QED
      BY <2>2, <3>1, <3>2, <3>3 DEF Typed, TypeOK
  <2>7. CASE RunManage(p)
    <3>1. /\ UNCHANGED <<sender, arrived, doing, home, peer, handled, dangling, via>>
          /\ live' \subseteq live /\ sessionMap' \subseteq sessionMap
          /\ inbox' = inbox \/ \E s : inbox' = [inbox EXCEPT ![s] = {}]
          /\ Arrivals' = Arrivals /\ Created' = Created
      BY <2>7 DEF RunManage, Fail, Arrivals, Created
    <3>2. HandKnown' /\ QueueKnown'
      BY <2>4, <3>1, HandStays
    <3>3. inbox' \in [Session -> SUBSET Datagram] /\ ArrivedOnly'
      BY <3>1 DEF Typed, ArrivedOnly
    <3> QED
      BY <2>2, <3>1, <3>2, <3>3 DEF Typed, TypeOK
  <2> QED
    BY <1>6, <2>5, <2>6, <2>7 DEF RunClosure
<1>7. ASSUME NEW s \in Created, OnErr(s) PROVE Typed'
  <2>1. /\ UNCHANGED <<sender, arrived, queue, doing, home, peer, handled, dangling, via>>
        /\ live' \subseteq live /\ sessionMap' \subseteq sessionMap
        /\ inbox' = [inbox EXCEPT ![s] = {}]
        /\ Arrivals' = Arrivals /\ Created' = Created
    BY <1>7 DEF OnErr, Fail, Arrivals, Created
  <2>2. HandKnown' /\ QueueKnown'
    BY <2>1, HandStays, QueueSame
  <2>3. inbox' \in [Session -> SUBSET Datagram] /\ ArrivedOnly'
    BY <2>1 DEF Typed, ArrivedOnly
  <2> QED
    BY <2>1, <2>2, <2>3 DEF Typed, TypeOK
<1>8. CASE Manage
  <2> DEFINE c == <<"manage", 0, {e[2] : e \in sessionMap}>>
  <2>1. /\ UNCHANGED <<sender, arrived, inbox, doing, home, peer, sessionMap, live, handled, dangling, via>>
        /\ queue' = [p \in Poller |-> Append(queue[p], c)]
        /\ Arrivals' = Arrivals /\ Created' = Created
    BY <1>8 DEF Manage, Arrivals, Created
  <2>2. {e[2] : e \in sessionMap} \subseteq Created /\ Created \subseteq Session
    BY Numbers
  <2>3. c \in Closure /\ KnownIn(c, Arrivals, Created)
    BY <2>2 DEF KnownIn
  <2> HIDE DEF c
  <2>4. ASSUME NEW p \in Poller
        PROVE  /\ queue'[p] \in Seq(Closure)
               /\ \A i \in 1 .. Len(queue'[p]) :
                    queue'[p][i] = c \/ \E j \in 1 .. Len(queue[p]) : queue'[p][i] = queue[p][j]
    <3>1. queue'[p] = Append(queue[p], c) /\ queue[p] \in Seq(Closure)
      BY <2>1, <2>4
    <3> QED
      BY <2>3, <3>1, AppendProperties, LenProperties
  <2>5. queue' \in [Poller -> Seq(Closure)] /\ Kept(c)
    BY <2>1, <2>4 DEF Kept
  <2>6. HandKnown' /\ QueueKnown'
    BY <2>1, <2>3, <2>5, HandStays, QueueStays
  <2> QED
    BY <2>1, <2>5, <2>6 DEF Typed, TypeOK, ArrivedOnly
<1>9. CASE UNCHANGED vars
  <2>1. Arrivals' = Arrivals /\ Created' = Created
    BY <1>9 DEF vars, Arrivals, Created
  <2>2. HandKnown' /\ QueueKnown'
    BY <1>9, <2>1, HandStays, QueueSame DEF vars
  <2> QED
    BY <1>9, <2>1, <2>2 DEF vars, Typed, TypeOK, ArrivedOnly
<1> QED
  BY <1>1, <1>2, <1>3, <1>4, <1>5, <1>6, <1>7, <1>8, <1>9 DEF Next

-----------------------------------------------------------------------------
(* One session per peer.                                                   *)

MapInv == Typed /\ OneSessionPerPeer /\ MapIsLive

\* A session that is found is live, and its peer is who was looked for.
LEMMA FoundLive ==
  ASSUME MapInv, NEW x, NEW s \in Found(x)
  PROVE  s \in live /\ s \in Created /\ peer[s] = x
BY DEF MapInv, Found, MapIsLive, Typed, TypeOK

\* Who is live is found.
LEMMA LiveFound ==
  ASSUME MapInv, NEW s \in live
  PROVE  s \in Found(peer[s])
BY DEF MapInv, Found, MapIsLive, Typed, TypeOK

\* A session is added for a peer that has none.
LEMMA MapGrows ==
  ASSUME MaxDatagram \in Nat, MaxSession \in Nat, MapInv, NEW p \in Poller, NEW x \in Peer,
         Found(x) = {}, Creates(p, x),
         sessionMap' = sessionMap \cup {<<x, Len(home) + 1>>}, live' = live \cup {Len(home) + 1}
  PROVE  (OneSessionPerPeer /\ MapIsLive)'
<1> DEFINE n == Len(home) + 1
<1>1. /\ n \notin Created /\ peer'[n] = x /\ \A s \in Created : peer'[s] = peer[s]
      /\ live \subseteq Created
  BY CreatedMore, TypeParts DEF MapInv
<1>2. \A s \in live : peer[s] # x
  BY LiveFound
<1> HIDE DEF n
<1>3. OneSessionPerPeer'
  <2>1. live' = live \cup {n}
    BY DEF n
  <2> QED
    BY <1>1, <1>2, <2>1 DEF MapInv, OneSessionPerPeer
<1>4. MapIsLive'
  <2>1. live' = live \cup {n} /\ sessionMap' = sessionMap \cup {<<x, n>>}
    BY DEF n
  <2>2. sessionMap = {<<peer[s], s>> : s \in live}
    BY DEF MapInv, MapIsLive
  <2>3. {<<peer'[s], s>> : s \in live} = {<<peer[s], s>> : s \in live}
    BY <1>1
  <2> QED
    BY <1>1, <2>1, <2>2, <2>3 DEF MapIsLive
<1> QED
  BY <1>3, <1>4

\* The session that fails leaves the map and nobody else does.
LEMMA MapShrinks ==
  ASSUME MapInv, NEW s \in live, Fail(s), peer' = peer
  PROVE  (OneSessionPerPeer /\ MapIsLive)'
<1>1. /\ live' = live \ {s} /\ sessionMap' = {e \in sessionMap : e[1] # peer[s]}
      /\ sessionMap = {<<peer[t], t>> : t \in live}
      /\ \A t \in live : peer[t] = peer[s] => t = s
  BY DEF Fail, MapInv, MapIsLive, OneSessionPerPeer
<1>2. OneSessionPerPeer'
  BY <1>1 DEF MapInv, OneSessionPerPeer
<1>3. sessionMap' = {<<peer[t], t>> : t \in live \ {s}}
  BY <1>1
<1> QED
  BY <1>1, <1>2, <1>3 DEF MapIsLive

\* session_creator keeps the map.
LEMMA CreatorMap ==
  ASSUME MaxDatagram \in Nat, MaxSession \in Nat, MapInv, NEW p \in Poller, NEW d \in Arrivals, NEW step,
         SessionCreator(p, d, From(d), step)
  PROVE  (OneSessionPerPeer /\ MapIsLive)'
<1>1. From(d) \in Peer
  BY Numbers DEF MapInv, From
<1>2. CASE UNCHANGED <<home, peer, sessionMap, live, inbox, arrived, via>>
  BY <1>2 DEF MapInv, OneSessionPerPeer, MapIsLive
<1>3. CASE /\ Found(From(d)) = {} /\ Creates(p, From(d))
           /\ sessionMap' = sessionMap \cup {<<From(d), Len(home) + 1>>}
           /\ live' = live \cup {Len(home) + 1}
  BY <1>1, <1>3, MapGrows
<1> QED
  BY <1>2, <1>3 DEF SessionCreator, Creates

\* What a thread has in hand and what is queued has arrived.
LEMMA HandArrived ==
  ASSUME Typed, NEW p \in Poller
  PROVE  /\ doing[p][1] = "miss" => doing[p][2] \in Arrivals /\ doing[p][3] = 0
         /\ doing[p][1] \in {"found", "created"} => doing[p][2] \in Arrivals /\ doing[p][3] \in Created
BY DEF Typed, HandKnown, Nothing

\* The front closure is one of the known ones.
LEMMA FrontKnown ==
  ASSUME Typed, NEW p \in Poller, queue[p] # <<>>
  PROVE  Head(queue[p]) = queue[p][1] /\ 1 \in 1 .. Len(queue[p])
         /\ KnownIn(queue[p][1], Arrivals, Created)
<1>1. queue[p] \in Seq(Closure)
  BY TypeParts
<1>2. Head(queue[p]) = queue[p][1] /\ 1 \in 1 .. Len(queue[p])
  BY <1>1, HeadTailProperties, LenProperties, EmptySeq
<1> QED
  BY <1>2 DEF Typed, QueueKnown

\* Every step keeps the map right.
LEMMA MapStep ==
  ASSUME MaxDatagram \in Nat, MaxSession \in Nat PROVE MapInv /\ [Next]_vars => MapInv'
<1> SUFFICES ASSUME MapInv, [Next]_vars PROVE (OneSessionPerPeer /\ MapIsLive)'
  BY TypeStep DEF MapInv
<1>0. Typed
  BY DEF MapInv
<1>1. CASE UNCHANGED <<peer, sessionMap, live>>
  BY <1>1 DEF MapInv, OneSessionPerPeer, MapIsLive
<1>2. ASSUME NEW p \in Poller, CreateSession(p) PROVE (OneSessionPerPeer /\ MapIsLive)'
  <2>1. CASE SessionCreator(p, doing[p][2], From(doing[p][2]), "found")
    <3>1. doing[p][2] \in Arrivals
      BY <1>0, <1>2, HandArrived DEF CreateSession
    <3> QED
      BY <2>1, <3>1, CreatorMap
  <2>2. CASE UNCHANGED <<home, peer, sessionMap, live, inbox, arrived>>
    BY <1>1, <2>2
  <2> QED
    BY <1>2, <2>1, <2>2 DEF CreateSession
<1>3. ASSUME NEW p \in Poller, RunCreate(p) PROVE (OneSessionPerPeer /\ MapIsLive)'
  <2>1. /\ queue[p] # <<>> /\ Head(queue[p])[1] = "create"
        /\ SessionCreator(p, Head(queue[p])[2], From(Head(queue[p])[2]), "created")
    BY <1>3 DEF RunCreate
  <2>2. Head(queue[p])[2] \in Arrivals
    BY <1>0, <2>1, FrontKnown DEF KnownIn
  <2> QED
    BY <2>1, <2>2, CreatorMap
<1>4. ASSUME NEW s \in live, Fail(s), peer' = peer PROVE (OneSessionPerPeer /\ MapIsLive)'
  BY <1>4, MapShrinks
<1>5. ASSUME NEW p \in Poller, RunManage(p) PROVE (OneSessionPerPeer /\ MapIsLive)'
  BY <1>1, <1>4, <1>5 DEF RunManage
<1>6. ASSUME NEW s \in Created, OnErr(s) PROVE (OneSessionPerPeer /\ MapIsLive)'
  BY <1>4, <1>6 DEF OnErr
<1>7. ASSUME NEW x \in Peer, Arrive(x) PROVE (OneSessionPerPeer /\ MapIsLive)'
  BY <1>1, <1>7 DEF Arrive
<1>8. ASSUME NEW p \in Poller, NEW d \in Datagram, OnRead(p, d) PROVE (OneSessionPerPeer /\ MapIsLive)'
  BY <1>1, <1>8 DEF OnRead
<1>9. ASSUME NEW s \in Created, NEW d \in Datagram, OnSessionRead(s, d)
      PROVE  (OneSessionPerPeer /\ MapIsLive)'
  BY <1>1, <1>9 DEF OnSessionRead
<1>10. ASSUME NEW p \in Poller, UseSession(p) \/ RunRecv(p) PROVE (OneSessionPerPeer /\ MapIsLive)'
  BY <1>1, <1>10 DEF UseSession, RunRecv
<1>11. CASE Manage
  BY <1>1, <1>11 DEF Manage
<1>12. CASE UNCHANGED vars
  BY <1>1, <1>12 DEF vars
<1> QED
  BY <1>2, <1>3, <1>5, <1>6, <1>7, <1>8, <1>9, <1>10, <1>11, <1>12 DEF Next, RunClosure

-----------------------------------------------------------------------------
(* The right session, on the right thread.                                 *)

\* What has arrived and what was created stays as it is, and detours are remembered.
Grown ==
  /\ Arrivals \subseteq Arrivals' /\ Created \subseteq Created'
  /\ \A d \in Arrivals : sender'[d] = sender[d]
  /\ \A d \in Datagram : via[d] \subseteq via'[d]
  /\ \A s \in Created : home'[s] = home[s] /\ peer'[s] = peer[s]

\* session_creator only adds a session.
LEMMA CreatorGrows ==
  ASSUME MaxDatagram \in Nat, MaxSession \in Nat, Typed, NEW p \in Poller, NEW d \in Arrivals, NEW step,
         SessionCreator(p, d, From(d), step), sender' = sender
  PROVE  Grown
<1>1. CASE UNCHANGED <<home, peer, sessionMap, live, inbox, arrived, via>>
  BY <1>1 DEF Grown, Arrivals, Created
<1>2. CASE /\ Creates(p, From(d))
           /\ \E S \in SUBSET {e \in arrived[p] : From(e) # From(d)} :
                via' = [e \in Datagram |-> IF e \in S THEN via[e] \cup {"caught"} ELSE via[e]]
  <2>1. From(d) \in Peer
    BY Numbers DEF From
  <2>2. Created' = Created \cup {Len(home) + 1} /\ \A s \in Created : home'[s] = home[s] /\ peer'[s] = peer[s]
    BY <1>2, <2>1, CreatedMore
  <2>3. \A e \in Datagram : via[e] \subseteq via'[e]
    BY <1>2, TypeParts
  <2> QED
    BY <2>2, <2>3 DEF Grown, Arrivals
<1> QED
  BY <1>1, <1>2 DEF SessionCreator, Creates

\* Every step only adds arrivals, sessions and detours.
LEMMA Grows ==
  ASSUME MaxDatagram \in Nat, MaxSession \in Nat, Typed, [Next]_vars
  PROVE  Grown
<1>1. CASE UNCHANGED <<sender, home, peer, via>>
  BY <1>1 DEF Grown, Arrivals, Created
<1>2. ASSUME NEW x \in Peer, Arrive(x) PROVE Grown
  <2>1. sender \in Seq(Peer) /\ sender' = Append(sender, x) /\ UNCHANGED <<home, peer, via>>
    BY <1>2, TypeParts DEF Arrive
  <2>2. Len(sender) \in Nat /\ Len(sender') = Len(sender) + 1
        /\ \A d \in 1 .. Len(sender) : sender'[d] = sender[d]
    BY <2>1, AppendProperties, LenProperties
  <2> QED
    BY <2>1, <2>2 DEF Grown, Arrivals, Created
<1>3. ASSUME NEW p \in Poller, CreateSession(p) PROVE Grown
  <2>1. doing[p][2] \in Arrivals /\ sender' = sender
    BY <1>3, HandArrived DEF CreateSession
  <2>2. CASE SessionCreator(p, doing[p][2], From(doing[p][2]), "found")
    BY <2>1, <2>2, CreatorGrows
  <2>3. CASE UNCHANGED <<home, peer, sessionMap, live, inbox, arrived>>
             /\ via' = [via EXCEPT ![doing[p][2]] = @ \cup {"posted"}]
    <3>1. \A e \in Datagram : via[e] \subseteq via'[e]
      BY <2>3, TypeParts
    <3> QED
      BY <2>1, <2>3, <3>1 DEF Grown, Arrivals, Created
  <2> QED
    BY <1>3, <2>2, <2>3 DEF CreateSession
<1>4. ASSUME NEW p \in Poller, RunCreate(p) PROVE Grown
  <2>1. /\ queue[p] # <<>> /\ Head(queue[p])[1] = "create" /\ sender' = sender
        /\ SessionCreator(p, Head(queue[p])[2], From(Head(queue[p])[2]), "created")
    BY <1>4 DEF RunCreate
  <2>2. Head(queue[p])[2] \in Arrivals
    BY <2>1, FrontKnown DEF KnownIn
  <2> QED
    BY <2>1, <2>2, CreatorGrows
<1>5. ASSUME NEW p \in Poller, RunRecv(p) \/ RunManage(p) PROVE Grown
  BY <1>1, <1>5 DEF RunRecv, RunManage
<1>6. ASSUME NEW p \in Poller, NEW d \in Datagram, OnRead(p, d) PROVE Grown
  BY <1>1, <1>6 DEF OnRead
<1>7. ASSUME NEW s \in Created, NEW d \in Datagram, OnSessionRead(s, d) PROVE Grown
  BY <1>1, <1>7 DEF OnSessionRead
<1>8. ASSUME NEW p \in Poller, UseSession(p) PROVE Grown
  BY <1>1, <1>8 DEF UseSession
<1>9. ASSUME NEW s \in Created, OnErr(s) PROVE Grown
  BY <1>1, <1>9 DEF OnErr
<1>10. CASE Manage
  BY <1>1, <1>10 DEF Manage
<1>11. CASE UNCHANGED vars
  BY <1>1, <1>11 DEF vars
<1> QED
  BY <1>2, <1>3, <1>4, <1>5, <1>6, <1>7, <1>8, <1>9, <1>10, <1>11 DEF Next, RunClosure

\* A datagram that is with a session is of its peer, or was caught by a socket that was not
\* connected yet.
OfPeer(d, s) == sender[d] = peer[s] \/ "caught" \in via[d]

\* The reference a thread holds: a session's own thread holds it only while the session
\* lives, and it was "created" only for a datagram that was posted.
HandRight(p) ==
  /\ doing[p][1] = "created" => "posted" \in via[doing[p][2]]
  /\ doing[p][3] # 0 => /\ OfPeer(doing[p][2], doing[p][3])
                        /\ home[doing[p][3]] # p \/ doing[p][3] \in live

EntryRight(p, c) ==
  /\ c[1] = "create" => "posted" \in via[c[2]]
  /\ c[1] = "recv" => home[c[3]] = p /\ OfPeer(c[2], c[3])

BoxRight(d, s) == s \in Created /\ OfPeer(d, s)

DoneRight(h) == (h[3] = home[h[2]] \/ "posted" \in via[h[1]]) /\ OfPeer(h[1], h[2])

HandsRight == \A p \in Poller : HandRight(p)
EntriesRight == \A p \in Poller : \A i \in 1 .. Len(queue[p]) : EntryRight(p, queue[p][i])
BoxesRight == \A s \in Session : \A d \in inbox[s] : BoxRight(d, s)
AllDoneRight == \A h \in handled : DoneRight(h)

RouteInv == MapInv /\ HandsRight /\ EntriesRight /\ BoxesRight /\ AllDoneRight

\* What is right stays so.
LEMMA PeerStays ==
  ASSUME MaxDatagram \in Nat, MaxSession \in Nat, Typed, Grown, NEW d \in Arrivals, NEW s \in Created,
         OfPeer(d, s)
  PROVE  OfPeer(d, s)'
BY Numbers DEF Grown, OfPeer

\* A closure that is right stays right.
LEMMA EntryStays ==
  ASSUME MaxDatagram \in Nat, MaxSession \in Nat, Typed, Grown, NEW p \in Poller, NEW c,
         KnownIn(c, Arrivals, Created), EntryRight(p, c)
  PROVE  EntryRight(p, c)'
<1>1. CASE c[1] = "create"
  BY <1>1, Numbers DEF KnownIn, EntryRight, Grown
<1>2. CASE c[1] = "recv"
  BY <1>2, PeerStays DEF KnownIn, EntryRight, Grown
<1>3. CASE c[1] = "manage"
  BY <1>3 DEF EntryRight
<1> QED
  BY <1>1, <1>2, <1>3 DEF KnownIn

\* A datagram in the box of a session stays right.
LEMMA BoxStays ==
  ASSUME MaxDatagram \in Nat, MaxSession \in Nat, Typed, Grown, NEW d \in Arrivals, NEW s, BoxRight(d, s)
  PROVE  BoxRight(d, s)'
BY PeerStays DEF BoxRight, Grown

\* What was handled right stays so.
LEMMA DoneStays ==
  ASSUME MaxDatagram \in Nat, MaxSession \in Nat, Typed, Grown, NEW h \in handled, DoneRight(h)
  PROVE  DoneRight(h)'
<1>1. h[1] \in Arrivals /\ h[1] \in Datagram /\ h[2] \in Created
  BY Numbers, TypeParts DEF Typed, ArrivedOnly
<1> QED
  BY <1>1, PeerStays DEF DoneRight, Grown

\* A reference stays right while its thread has it in hand.
LEMMA HandStaysRight ==
  ASSUME MaxDatagram \in Nat, MaxSession \in Nat, Typed, Grown, NEW p \in Poller, HandRight(p),
         doing'[p] = doing[p],
         \A s \in live : s \in live' \/ home[s] # p \/ Idle(p)
  PROVE  HandRight(p)'
<1>1. CASE Idle(p)
  BY <1>1 DEF Idle, HandRight, Nothing
<1>2. CASE doing[p][1] = "miss" /\ doing[p][3] = 0
  BY <1>2 DEF HandRight
<1>3. CASE doing[p][1] \in {"found", "created"}
  <2>1. doing[p][2] \in Arrivals /\ doing[p][2] \in Datagram /\ doing[p][3] \in Created /\ doing[p][3] # 0
    BY <1>3, Numbers, HandArrived
  <2>2. OfPeer(doing[p][2], doing[p][3])'
    BY <2>1, PeerStays DEF HandRight
  <2>3. home'[doing[p][3]] # p \/ doing[p][3] \in live' \/ Idle(p)
    BY <2>1 DEF HandRight, Grown
  <2>4. doing[p][1] = "created" => "posted" \in via'[doing[p][2]]
    BY <2>1 DEF HandRight, Grown
  <2> QED
    BY <1>1, <2>2, <2>3, <2>4 DEF HandRight, OfPeer
<1> QED
  BY <1>1, <1>2, <1>3 DEF Typed, HandKnown, Idle

\* The two things that happen to a box: it gets datagrams, or it is emptied.
LEMMA BoxesStep ==
  ASSUME MaxDatagram \in Nat, MaxSession \in Nat, RouteInv, [Next]_vars, Grown
  PROVE  BoxesRight'
<1>0. Typed /\ MapInv /\ BoxesRight
  BY DEF RouteInv, MapInv
<1>a. ASSUME NEW s \in Session, NEW d \in inbox[s] PROVE BoxRight(d, s)'
  BY <1>0, <1>a, BoxStays DEF BoxesRight, Typed, ArrivedOnly
<1>1. ASSUME \A s \in Session : inbox'[s] \subseteq inbox[s] PROVE BoxesRight'
  BY <1>a, <1>1 DEF BoxesRight
<1>2. ASSUME NEW x \in Peer, Arrive(x) PROVE BoxesRight'
  <2>0. PICK n : n = Len(sender) + 1
    OBVIOUS
  <2>1. /\ sender \in Seq(Peer) /\ sender' = Append(sender, x) /\ UNCHANGED <<home, peer, via>>
        /\ \/ \E t \in live : peer[t] = x /\ inbox' = [inbox EXCEPT ![t] = @ \cup {n}]
           \/ UNCHANGED inbox
    BY <1>0, <1>2, <2>0, TypeParts DEF Arrive
  <2>2. sender'[n] = x
    BY <2>0, <2>1, AppendProperties, LenProperties
  <2>3. CASE UNCHANGED inbox
    BY <1>1, <2>3
  <2>4. CASE \E t \in live : peer[t] = x /\ inbox' = [inbox EXCEPT ![t] = @ \cup {n}]
    <3>1. PICK t \in live : peer[t] = x /\ inbox' = [inbox EXCEPT ![t] = @ \cup {n}]
      BY <2>4
    <3>2. t \in Created
      BY <1>0, TypeParts
    <3>3. BoxRight(n, t)'
      BY <2>1, <2>2, <3>1, <3>2 DEF BoxRight, OfPeer, Created
    <3>4. \A s \in Session : \A d \in inbox'[s] : d \in inbox[s] \/ (d = n /\ s = t)
      BY <1>0, <3>1, TypeParts
    <3> QED
      BY <1>a, <3>3, <3>4 DEF BoxesRight
  <2> QED
    BY <2>1, <2>3, <2>4
<1>3. ASSUME NEW p \in Poller, NEW d \in Arrivals, NEW step, SessionCreator(p, d, From(d), step)
      PROVE  BoxesRight'
  <2>1. CASE UNCHANGED inbox
    BY <1>1, <2>1
  <2>2. CASE /\ Creates(p, From(d))
             /\ \E S \in SUBSET {e \in arrived[p] : From(e) # From(d)} :
                  /\ inbox' = [inbox EXCEPT ![Len(home) + 1] = S]
                  /\ via' = [e \in Datagram |-> IF e \in S THEN via[e] \cup {"caught"} ELSE via[e]]
    <3>0. PICK n : n = Len(home) + 1
      OBVIOUS
    <3>1. PICK S \in SUBSET arrived[p] :
             /\ inbox' = [inbox EXCEPT ![n] = S]
             /\ via' = [e \in Datagram |-> IF e \in S THEN via[e] \cup {"caught"} ELSE via[e]]
      BY <2>2, <3>0
    <3>2. n \in Created'
      BY <1>0, <2>2, <3>0, CreatedMore, Numbers DEF From
    <3>3. \A e \in S : BoxRight(e, n)'
      BY <1>0, <3>1, <3>2, TypeParts DEF BoxRight, OfPeer
    <3>4. \A s \in Session : \A e \in inbox'[s] : e \in inbox[s] \/ (e \in S /\ s = n)
      BY <1>0, <3>1, TypeParts
    <3> QED
      BY <1>a, <3>3, <3>4 DEF BoxesRight
  <2> QED
    BY <1>3, <2>1, <2>2 DEF SessionCreator, Creates
<1>4. ASSUME NEW p \in Poller, CreateSession(p) PROVE BoxesRight'
  BY <1>0, <1>1, <1>3, <1>4, HandArrived DEF CreateSession
<1>5. ASSUME NEW p \in Poller, RunCreate(p) PROVE BoxesRight'
  BY <1>0, <1>3, <1>5, FrontKnown DEF RunCreate, KnownIn
<1>6. ASSUME NEW s, inbox' = [inbox EXCEPT ![s] = {}] PROVE BoxesRight'
  BY <1>0, <1>1, <1>6, TypeParts
<1>7. ASSUME NEW p \in Poller, RunRecv(p) \/ RunManage(p) PROVE BoxesRight'
  BY <1>1, <1>6, <1>7 DEF RunRecv, RunManage, Fail
<1>8. ASSUME NEW s \in Created, OnErr(s) PROVE BoxesRight'
  BY <1>6, <1>8 DEF OnErr, Fail
<1>9. ASSUME NEW s \in Created, NEW d \in Datagram, OnSessionRead(s, d) PROVE BoxesRight'
  <2>1. inbox' = [inbox EXCEPT ![s] = @ \ {d}]
    BY <1>9 DEF OnSessionRead
  <2> QED
    BY <1>0, <1>1, <2>1, TypeParts
<1>10. CASE UNCHANGED inbox
  BY <1>1, <1>10
<1> QED
  BY <1>2, <1>4, <1>5, <1>7, <1>8, <1>9, <1>10
  DEF Next, RunClosure, OnRead, UseSession, Manage, vars

\* onRecv is called by the session's read callback, by who holds its reference and by who
\* was posted the datagram.
LEMMA DoneStep ==
  ASSUME MaxDatagram \in Nat, MaxSession \in Nat, RouteInv, [Next]_vars, Grown
  PROVE  AllDoneRight'
<1>0. Typed /\ MapInv /\ AllDoneRight
  BY DEF RouteInv, MapInv
<1>1. \A h \in handled : DoneRight(h)'
  BY <1>0, DoneStays DEF AllDoneRight
<1>2. CASE UNCHANGED handled
  BY <1>1, <1>2 DEF AllDoneRight
<1>3. ASSUME NEW d \in Arrivals, NEW s \in Created, NEW p \in Poller,
             handled' = handled \cup {<<d, s, p>>},
             p = home[s] \/ "posted" \in via[d], OfPeer(d, s)
      PROVE  AllDoneRight'
  <2> DEFINE h == <<d, s, p>>
  <2>1. (h[3] = home[h[2]] \/ "posted" \in via[h[1]])' /\ OfPeer(d, s)'
    BY <1>0, <1>3, PeerStays, Numbers DEF Grown
  <2> QED
    BY <1>1, <1>3, <2>1 DEF AllDoneRight, DoneRight
<1>4. ASSUME NEW s \in Created, NEW d \in Datagram, OnSessionRead(s, d) PROVE AllDoneRight'
  <2>1. CASE UNCHANGED handled
    BY <1>2, <2>1
  <2>2. CASE d \in inbox[s] /\ From(d) = peer[s] /\ handled' = handled \cup {<<d, s, home[s]>>}
    <3>1. d \in Arrivals /\ home[s] \in Poller
      BY <1>0, <2>2, Numbers DEF Typed, ArrivedOnly
    <3> QED
      BY <1>3, <2>2, <3>1 DEF From, OfPeer
  <2> QED
    BY <1>4, <2>1, <2>2 DEF OnSessionRead
<1>5. ASSUME NEW p \in Poller, UseSession(p) PROVE AllDoneRight'
  <2> DEFINE d == doing[p][2]
             s == doing[p][3]
  <2>1. d \in Arrivals /\ d \in Datagram /\ s \in Created /\ s # 0 /\ HandRight(p)
    BY <1>0, <1>5, HandArrived, Numbers DEF UseSession, RouteInv, HandsRight
  <2>2. CASE (home[s] = p \/ doing[p][1] = "created") /\ handled' = handled \cup {<<d, s, p>>}
    <3>1. p = home[s] \/ "posted" \in via[d]
      BY <2>1, <2>2 DEF HandRight
    <3>2. OfPeer(d, s)
      BY <2>1 DEF HandRight
    <3> HIDE DEF d, s
    <3> QED
      BY <1>3, <2>1, <2>2, <3>1, <3>2
  <2> QED
    BY <1>2, <1>5, <2>2 DEF UseSession
<1>6. ASSUME NEW p \in Poller, RunRecv(p) PROVE AllDoneRight'
  <2> DEFINE c == queue[p][1]
  <2>1. queue[p] # <<>> /\ Head(queue[p])[1] = "recv"
    BY <1>6 DEF RunRecv
  <2>2. c = Head(queue[p]) /\ EntryRight(p, c) /\ KnownIn(c, Arrivals, Created)
    BY <1>0, <2>1, FrontKnown DEF RouteInv, EntriesRight
  <2>3. /\ c[2] \in Arrivals /\ c[3] \in Created /\ home[c[3]] = p /\ OfPeer(c[2], c[3])
        /\ handled' = handled \cup {<<c[2], c[3], p>>} \/ UNCHANGED handled
    BY <1>6, <2>1, <2>2 DEF RunRecv, EntryRight, KnownIn
  <2> HIDE DEF c
  <2> QED
    BY <1>2, <1>3, <2>3
<1> QED
  BY <1>2, <1>4, <1>5, <1>6
  DEF Next, RunClosure, RunCreate, RunManage, Arrive, OnRead, CreateSession, OnErr, Manage, vars

\* Closures are posted by who found a session of another thread and by who creates one there.
LEMMA EntriesStep ==
  ASSUME MaxDatagram \in Nat, MaxSession \in Nat, RouteInv, [Next]_vars, Grown
  PROVE  EntriesRight'
<1>0. Typed /\ MapInv /\ EntriesRight
  BY DEF RouteInv, MapInv
<1>1. ASSUME NEW p \in Poller, NEW i \in 1 .. Len(queue[p]), NEW c, c = queue[p][i]
      PROVE  EntryRight(p, c)'
  BY <1>0, <1>1, EntryStays DEF EntriesRight, Typed, QueueKnown
<1>2. CASE UNCHANGED queue
  <2>1. \A p \in Poller : queue'[p] = queue[p] /\ Len(queue'[p]) = Len(queue[p])
    BY <1>2
  <2> QED
    BY <1>1, <2>1 DEF EntriesRight
<1>3. ASSUME NEW p \in Poller, NEW c \in Closure, Post(p, c), EntryRight(p, c)' PROVE EntriesRight'
  <2>1. /\ \A q \in Poller \ {p} : queue'[q] = queue[q]
        /\ Len(queue[p]) \in Nat /\ Len(queue'[p]) = Len(queue[p]) + 1
        /\ queue'[p][Len(queue[p]) + 1] = c
        /\ \A i \in 1 .. Len(queue[p]) : queue'[p][i] = queue[p][i]
    BY <1>0, <1>3, Pushed, TypeParts
  <2> SUFFICES ASSUME NEW q \in Poller, NEW i \in 1 .. Len(queue'[q]), NEW e, e = queue'[q][i]
               PROVE  EntryRight(q, e)'
    BY DEF EntriesRight
  <2>2. CASE q # p
    <3>1. queue'[q] = queue[q] /\ i \in 1 .. Len(queue[q])
      BY <2>1, <2>2
    <3> QED
      BY <1>1, <3>1
  <2>3. CASE q = p /\ i = Len(queue[p]) + 1
    BY <1>3, <2>1, <2>3
  <2>4. CASE q = p /\ i # Len(queue[p]) + 1
    <3>1. i \in 1 .. Len(queue[p])
      BY <2>1, <2>4
    <3> QED
      BY <1>1, <2>1, <2>4, <3>1
  <2> QED
    BY <2>2, <2>3, <2>4
<1>4. ASSUME NEW p \in Poller, queue[p] # <<>>, queue' = [queue EXCEPT ![p] = Tail(@)] PROVE EntriesRight'
  <2>1. /\ \A q \in Poller \ {p} : queue'[q] = queue[q]
        /\ \A i \in 1 .. Len(queue'[p]) : queue'[p][i] = queue[p][i + 1] /\ i + 1 \in 1 .. Len(queue[p])
    BY <1>0, <1>4, Popped, TypeParts
  <2> SUFFICES ASSUME NEW q \in Poller, NEW i \in 1 .. Len(queue'[q]), NEW e, e = queue'[q][i]
               PROVE  EntryRight(q, e)'
    BY DEF EntriesRight
  <2>2. CASE q # p
    <3>1. queue'[q] = queue[q] /\ i \in 1 .. Len(queue[q])
      BY <2>1, <2>2
    <3> QED
      BY <1>1, <3>1
  <2>3. CASE q = p
    BY <1>1, <2>1, <2>3
  <2> QED
    BY <2>2, <2>3
<1>5. ASSUME NEW p \in Poller, UseSession(p) PROVE EntriesRight'
  <2> DEFINE d == doing[p][2]
             s == doing[p][3]
  <2>0. PICK c : c = <<"recv", d, s>>
    OBVIOUS
  <2>1. CASE UNCHANGED queue
    BY <1>2, <2>1
  <2>2. CASE Post(home[s], c)
    <3>1. d \in Arrivals /\ d \in Datagram /\ s \in Created /\ s \in 0 .. MaxSession /\ s # 0
          /\ HandRight(p) /\ home[s] \in Poller
      BY <1>0, <1>5, HandArrived, Numbers DEF UseSession, RouteInv, HandsRight, Session
    <3>2. PICK q \in Poller : q = home[s]
      BY <3>1
    <3>3. c \in Closure /\ KnownIn(c, Arrivals, Created) /\ EntryRight(q, c)
      BY <2>0, <3>1, <3>2 DEF KnownIn, EntryRight, HandRight, Closure
    <3>4. EntryRight(q, c)'
      BY <1>0, <3>3, EntryStays
    <3> QED
      BY <1>3, <2>2, <3>2, <3>3, <3>4
  <2> QED
    BY <1>5, <2>0, <2>1, <2>2 DEF UseSession
<1>6. ASSUME NEW p \in Poller, CreateSession(p) PROVE EntriesRight'
  <2> DEFINE d == doing[p][2]
  <2>0. PICK c : c = <<"create", d, 0>>
    OBVIOUS
  <2>1. CASE UNCHANGED queue
    BY <1>2, <2>1
  <2>2. CASE \E q \in Poller \ {p} : Post(q, c) /\ via' = [via EXCEPT ![d] = @ \cup {"posted"}]
    <3>1. PICK q \in Poller : Post(q, c) /\ via' = [via EXCEPT ![d] = @ \cup {"posted"}]
      BY <2>2
    <3>2. d \in Datagram /\ "posted" \in via'[d]
      BY <1>0, <1>6, <3>1, HandArrived, Numbers, TypeParts DEF CreateSession
    <3>3. c \in Closure /\ c[1] = "create" /\ "posted" \in via'[c[2]]
      BY <2>0, <3>2 DEF Closure
    <3>4. EntryRight(q, c)'
      BY <3>3 DEF EntryRight
    <3> QED
      BY <1>3, <3>1, <3>3, <3>4
  <2> QED
    BY <1>6, <2>0, <2>1, <2>2 DEF CreateSession
<1>7. ASSUME NEW p \in Poller, RunClosure(p) PROVE EntriesRight'
  BY <1>4, <1>7 DEF RunClosure, RunCreate, RunRecv, RunManage
<1>8. CASE Manage
  <2>a. PICK c : c = <<"manage", 0, {e[2] : e \in sessionMap}>>
    OBVIOUS
  <2>0. {e[2] : e \in sessionMap} \subseteq Session
    BY <1>0, Numbers, TypeParts
  <2>1. c \in Closure /\ queue' = [p \in Poller |-> Append(queue[p], c)] /\ queue \in [Poller -> Seq(Closure)]
    BY <1>0, <1>8, <2>a, <2>0, TypeParts DEF Manage, Closure
  <2>2. c[1] = "manage"
    BY <2>a
  <2>3. \A p \in Poller : EntryRight(p, c)'
    BY <2>2 DEF EntryRight
  <2> SUFFICES ASSUME NEW q \in Poller, NEW i \in 1 .. Len(queue'[q]), NEW e, e = queue'[q][i]
               PROVE  EntryRight(q, e)'
    BY DEF EntriesRight
  <2>4. queue'[q][i] = c \/ (i \in 1 .. Len(queue[q]) /\ queue'[q][i] = queue[q][i])
    <3>1. queue'[q] = Append(queue[q], c) /\ queue[q] \in Seq(Closure)
      BY <2>1
    <3> QED
      BY <2>1, <3>1, AppendProperties, LenProperties
  <2> QED
    BY <1>1, <2>3, <2>4
<1> QED
  BY <1>2, <1>5, <1>6, <1>7, <1>8 DEF Next, Arrive, OnRead, OnSessionRead, OnErr, vars

\* A thread takes in hand a session that lives.
LEMMA TakesLive ==
  ASSUME MaxDatagram \in Nat, MaxSession \in Nat, RouteInv, Grown, NEW p \in Poller,
         NEW step \in {"found", "created"}, NEW d \in Arrivals, NEW s \in live, s \in live',
         doing' = [doing EXCEPT ![p] = <<step, d, s>>], OfPeer(d, s),
         step = "created" => "posted" \in via[d]
  PROVE  HandRight(p)'
<1>0. Typed /\ s \in Created /\ s \in 0 .. MaxSession /\ d \in Datagram
  BY Numbers, TypeParts DEF RouteInv, MapInv, Session
<1>1. doing'[p][1] = step /\ doing'[p][2] = d /\ doing'[p][3] = s
  BY <1>0, InHand
<1>2. OfPeer(d, s)' /\ (step = "created" => "posted" \in via'[d])
  BY <1>0, PeerStays DEF Grown
<1> QED
  BY <1>1, <1>2 DEF HandRight, OfPeer

\* What a thread has in hand changes when it looks a session up, makes one or uses it; the
\* session does not fail meanwhile, since its thread would have to be idle.
LEMMA HandsStep ==
  ASSUME MaxDatagram \in Nat, MaxSession \in Nat, RouteInv, [Next]_vars, Grown
  PROVE  HandsRight'
<1>0. Typed /\ MapInv /\ HandsRight
  BY DEF RouteInv, MapInv
<1>1. ASSUME NEW p \in Poller, doing'[p] = doing[p],
             \A s \in live : s \in live' \/ home[s] # p \/ Idle(p)
      PROVE  HandRight(p)'
  BY <1>0, <1>1, HandStaysRight DEF HandsRight
<1>2. CASE UNCHANGED <<doing, live>>
  BY <1>1, <1>2 DEF HandsRight
<1>3. ASSUME NEW p \in Poller, \A q \in Poller \ {p} : doing'[q] = doing[q], live \subseteq live',
             HandRight(p)'
      PROVE  HandsRight'
  BY <1>1, <1>3 DEF HandsRight
<1>4. ASSUME NEW p \in Poller, NEW d \in Arrivals, doing' = [doing EXCEPT ![p] = <<"miss", d, 0>>],
             live' = live
      PROVE  HandsRight'
  <2>1. doing'[p][1] = "miss" /\ doing'[p][3] = 0 /\ \A q \in Poller \ {p} : doing'[q] = doing[q]
    BY <1>0, <1>4, InHand, 0 \in 0 .. MaxSession
  <2> QED
    BY <1>3, <1>4, <2>1 DEF HandRight
<1>5. ASSUME NEW p \in Poller, NEW step \in {"found", "created"}, NEW d \in Arrivals, NEW s \in live,
             live \subseteq live', doing' = [doing EXCEPT ![p] = <<step, d, s>>], OfPeer(d, s),
             step = "created" => "posted" \in via[d]
      PROVE  HandsRight'
  <2>1. \A q \in Poller \ {p} : doing'[q] = doing[q]
    BY <1>5
  <2>2. HandRight(p)'
    BY <1>5, TakesLive
  <2> QED
    BY <1>3, <1>5, <2>1, <2>2
<1>6. ASSUME NEW p \in Poller, doing' = [doing EXCEPT ![p] = Nothing], live \subseteq live'
      PROVE  HandsRight'
  <2>1. doing'[p] = Nothing /\ \A q \in Poller \ {p} : doing'[q] = doing[q]
    BY <1>0, <1>6, HandFree
  <2> QED
    BY <1>3, <1>6, <2>1 DEF HandRight, Nothing
<1>7. ASSUME NEW p \in Poller, NEW d \in Arrivals, NEW x, LookUp(p, d, x), live' = live,
             x = sender[d] \/ "caught" \in via[d]
      PROVE  HandsRight'
  <2>1. CASE doing' = [doing EXCEPT ![p] = <<"miss", d, 0>>]
    BY <1>4, <1>7, <2>1
  <2>2. CASE \E s \in Found(x) : doing' = [doing EXCEPT ![p] = <<"found", d, s>>]
    <3>1. PICK s \in Found(x) : doing' = [doing EXCEPT ![p] = <<"found", d, s>>]
      BY <2>2
    <3>2. s \in live /\ OfPeer(d, s)
      BY <1>0, <1>7, FoundLive DEF OfPeer
    <3> QED
      BY <1>5, <1>7, <3>1, <3>2
  <2> QED
    BY <1>0, <1>7, <2>1, <2>2, Looked
<1>8. ASSUME NEW p \in Poller, NEW d \in Arrivals, NEW step \in {"found", "created"},
             SessionCreator(p, d, From(d), step), step = "created" => "posted" \in via[d],
             sender' = sender
      PROVE  HandsRight'
  <2>1. CASE /\ Found(From(d)) # {} /\ live' = live
             /\ doing' = [doing EXCEPT ![p] = <<step, d, CHOOSE s \in Found(From(d)) : TRUE>>]
    <3>1. PICK s \in Found(From(d)) : doing' = [doing EXCEPT ![p] = <<step, d, s>>]
      BY <2>1
    <3>2. s \in live /\ OfPeer(d, s)
      BY <1>0, FoundLive DEF OfPeer, From
    <3> QED
      BY <1>5, <1>8, <2>1, <3>1, <3>2
  <2>2. CASE /\ Creates(p, From(d)) /\ live' = live \cup {Len(home) + 1} /\ UNCHANGED sender
             /\ doing' = [doing EXCEPT ![p] = <<step, d, Len(home) + 1>>]
    <3>0. PICK n : n = Len(home) + 1
      OBVIOUS
    <3>1. From(d) \in Peer /\ d \in Datagram
      BY <1>0, Numbers DEF From
    <3>2. n \in Session /\ peer'[n] = From(d)
      BY <1>0, <2>2, <3>0, <3>1, CreatedMore
    <3>3. n \in 0 .. MaxSession
      BY <3>2 DEF Session
    <3>4. /\ doing'[p][1] = step /\ doing'[p][2] = d /\ doing'[p][3] = n
          /\ \A q \in Poller \ {p} : doing'[q] = doing[q]
      BY <1>0, <2>2, <3>0, <3>3, InHand
    <3>5. OfPeer(d, n)'
      BY <2>2, <3>2 DEF OfPeer, From
    <3>6. step = "created" => "posted" \in via'[d]
      BY <1>8, <3>1 DEF Grown
    <3>7. HandRight(p)'
      BY <2>2, <3>0, <3>4, <3>5, <3>6 DEF HandRight, OfPeer
    <3> QED
      BY <1>3, <2>2, <3>4, <3>7
  <2> QED
    BY <1>8, <2>1, <2>2 DEF SessionCreator, Creates
<1>9. ASSUME NEW p \in Poller, NEW d \in Datagram, OnRead(p, d) PROVE HandsRight'
  <2>1. d \in Arrivals /\ LookUp(p, d, sender[d]) /\ live' = live
    BY <1>0, <1>9 DEF OnRead, From, Typed, ArrivedOnly
  <2> QED
    BY <1>7, <2>1
<1>10. ASSUME NEW s \in Created, NEW d \in Datagram, OnSessionRead(s, d) PROVE HandsRight'
  <2>1. d \in inbox[s] /\ live' = live /\ s \in Session /\ home[s] \in Poller
    BY <1>0, <1>10, Numbers DEF OnSessionRead
  <2>2. CASE UNCHANGED doing
    BY <1>2, <2>1, <2>2
  <2>3. CASE From(d) # peer[s] /\ LookUp(home[s], d, peer[s])
    <3>1. d \in Arrivals /\ "caught" \in via[d]
      BY <1>0, <2>1, <2>3 DEF RouteInv, BoxesRight, BoxRight, OfPeer, From, Typed, ArrivedOnly
    <3> QED
      BY <1>7, <2>1, <2>3, <3>1
  <2> QED
    BY <1>10, <2>2, <2>3 DEF OnSessionRead
<1>11. ASSUME NEW p \in Poller, UseSession(p) PROVE HandsRight'
  BY <1>6, <1>11 DEF UseSession
<1>12. ASSUME NEW p \in Poller, CreateSession(p) PROVE HandsRight'
  <2>1. doing[p][2] \in Arrivals /\ sender' = sender
    BY <1>0, <1>12, HandArrived DEF CreateSession
  <2>2. CASE SessionCreator(p, doing[p][2], From(doing[p][2]), "found")
    <3> DEFINE d == doing[p][2]
               step == "found"
    <3>1. step \in {"found", "created"} /\ step # "created" /\ SessionCreator(p, d, From(d), step)
      BY <2>2
    <3> HIDE DEF step, d
    <3> QED
      BY <1>8, <2>1, <3>1 DEF d
  <2>3. CASE doing' = [doing EXCEPT ![p] = Nothing] /\ UNCHANGED <<home, peer, sessionMap, live, inbox, arrived>>
    BY <1>6, <2>3
  <2> QED
    BY <1>12, <2>2, <2>3 DEF CreateSession
<1>13. ASSUME NEW p \in Poller, RunCreate(p) PROVE HandsRight'
  <2> DEFINE c == queue[p][1]
             step == "created"
  <2>1. queue[p] # <<>> /\ Head(queue[p])[1] = "create" /\ sender' = sender
    BY <1>13 DEF RunCreate
  <2>2. c = Head(queue[p]) /\ EntryRight(p, c) /\ KnownIn(c, Arrivals, Created)
    BY <1>0, <2>1, FrontKnown DEF RouteInv, EntriesRight
  <2>3. /\ c[2] \in Arrivals /\ "posted" \in via[c[2]] /\ step \in {"found", "created"}
        /\ SessionCreator(p, c[2], From(c[2]), step)
    BY <1>13, <2>1, <2>2 DEF RunCreate, EntryRight, KnownIn
  <2> HIDE DEF c, step
  <2> QED
    BY <1>8, <2>1, <2>3
<1>14. ASSUME NEW s \in live, Fail(s), Idle(home[s]), doing' = doing PROVE HandsRight'
  BY <1>1, <1>14 DEF Fail, HandsRight
<1>15. ASSUME NEW p \in Poller, RunManage(p) PROVE HandsRight'
  BY <1>2, <1>14, <1>15 DEF RunManage
<1>16. ASSUME NEW s \in Created, OnErr(s) PROVE HandsRight'
  BY <1>14, <1>16 DEF OnErr
<1> QED
  BY <1>2, <1>9, <1>10, <1>11, <1>12, <1>13, <1>15, <1>16
  DEF Next, RunClosure, RunRecv, Arrive, Manage, vars

\* Every step keeps the routes right.
LEMMA RouteStep ==
  ASSUME MaxDatagram \in Nat, MaxSession \in Nat PROVE RouteInv /\ [Next]_vars => RouteInv'
<1> SUFFICES ASSUME RouteInv, [Next]_vars PROVE RouteInv'
  OBVIOUS
<1>1. MapInv' /\ Grown
  BY MapStep, Grows DEF RouteInv, MapInv
<1>2. HandsRight' /\ EntriesRight' /\ BoxesRight' /\ AllDoneRight'
  BY <1>1, HandsStep, EntriesStep, BoxesStep, DoneStep
<1> QED
  BY <1>1, <1>2 DEF RouteInv

\* Nothing is on its way at first.
LEMMA RouteInit == ASSUME MaxDatagram \in Nat, MaxSession \in Nat PROVE Init => RouteInv
<1> SUFFICES ASSUME Init PROVE RouteInv
  OBVIOUS
<1>1. MapInv
  BY TypeInit DEF Init, MapInv, OneSessionPerPeer, MapIsLive
<1>2. \A p \in Poller : Len(queue[p]) = 0
  BY EmptySeq DEF Init
<1>3. HandsRight /\ BoxesRight /\ AllDoneRight
  BY DEF Init, HandsRight, HandRight, BoxesRight, AllDoneRight, Nothing
<1>4. EntriesRight
  BY <1>2 DEF EntriesRight
<1> QED
  BY <1>1, <1>3, <1>4 DEF RouteInv

\* What the invariant says of references and of what was handled.
LEMMA RouteImplies ==
  ASSUME RouteInv
  PROVE  TypeOK /\ OneSessionPerPeer /\ MapIsLive /\ OwnThread /\ ForeignDangles /\ RightSessionOrStray
<1>1. TypeOK /\ OneSessionPerPeer /\ MapIsLive /\ MapInv
  BY DEF RouteInv, MapInv, Typed
<1>2. OwnThread /\ RightSessionOrStray
  BY DEF RouteInv, AllDoneRight, DoneRight, OfPeer, OwnThread, RightSessionOrStray
<1>3. ForeignDangles
  BY <1>1, LiveFound DEF RouteInv, HandsRight, HandRight, ForeignDangles, Exists
<1> QED
  BY <1>1, <1>2, <1>3

-----------------------------------------------------------------------------
(* No detour delivers twice.                                               *)

\* Datagram d is at place <<kind, x, i>>: in the queue of a server's socket, in that of a
\* session's socket, in the hand of a thread, in a closure, or with the user.
At(d, kind, x, i) ==
  /\ d \in Datagram
  /\ \/ kind = "waits" /\ x \in Poller /\ i = 0 /\ d \in arrived[x]
     \/ kind = "boxed" /\ x \in Session /\ i = 0 /\ d \in inbox[x]
     \/ kind = "held" /\ x \in Poller /\ i = 0 /\ doing[x][2] = d
     \/ kind = "queued" /\ x \in Poller /\ i \in 1 .. Len(queue[x]) /\ queue[x][i][2] = d
     \/ kind = "done" /\ <<d, x, i>> \in handled

OnePlace ==
  \A d, k, x, i, l, y, j : At(d, k, x, i) /\ At(d, l, y, j) => k = l /\ x = y /\ i = j

OnceInv == Typed /\ OnePlace

\* What is somewhere has arrived.
LEMMA AtArrived ==
  ASSUME MaxDatagram \in Nat, MaxSession \in Nat, Typed, NEW d, NEW k, NEW x, NEW i, At(d, k, x, i)
  PROVE  d \in Arrivals
<1>1. d \in Datagram /\ d # 0
  BY DEF At, Datagram
<1>2. CASE k \in {"waits", "boxed", "done"}
  BY <1>2 DEF At, Typed, ArrivedOnly
<1>3. CASE k = "held"
  BY <1>1, <1>3 DEF At, Typed, HandKnown, Nothing
<1>4. CASE k = "queued"
  BY <1>1, <1>4 DEF At, Typed, QueueKnown, KnownIn
<1> QED
  BY <1>2, <1>3, <1>4 DEF At

\* Datagrams stay where they are or vanish, d goes from one place to another, and those in S
\* from the server's socket of p to a new session's.
GoesWith(d, k0, x0, i0, k1, x1, i1, S, p, n) ==
  /\ At(d, k0, x0, i0) /\ k0 # "waits" /\ \A e \in S : At(e, "waits", p, 0)
  /\ \A e, k, x, i : At(e, k, x, i)' =>
       \/ e = d /\ k = k1 /\ x = x1 /\ i = i1
       \/ e \in S /\ k = "boxed" /\ x = n /\ i = 0
       \/ /\ At(e, k, x, i) /\ ~(e = d /\ k = k0 /\ x = x0 /\ i = i0)
          /\ ~(e \in S /\ k = "waits" /\ x = p /\ i = 0)

\* Only d goes from one place to another.
Goes(d, k0, x0, i0, k1, x1, i1) ==
  /\ At(d, k0, x0, i0)
  /\ \A e, k, x, i : At(e, k, x, i)' =>
       \/ e = d /\ k = k1 /\ x = x1 /\ i = i1
       \/ At(e, k, x, i) /\ ~(e = d /\ k = k0 /\ x = x0 /\ i = i0)

\* The front closure of p is taken; the datagram it may have goes somewhere.
TakesFront(p, d, k1, x1, i1, S, n) ==
  /\ At(d, "queued", p, 1) \/ \A k, x, i : ~At(d, k, x, i)'
  /\ \A e \in S : At(e, "waits", p, 0)
  /\ \A e, k, x, i : At(e, k, x, i)' =>
       \/ e = d /\ k = k1 /\ x = x1 /\ i = i1
       \/ e \in S /\ k = "boxed" /\ x = n /\ i = 0
       \/ k = "queued" /\ x = p /\ i \in Nat /\ i # 0 /\ At(e, "queued", p, i + 1)
       \/ /\ At(e, k, x, i) /\ ~(k = "queued" /\ x = p)
          /\ ~(e \in S /\ k = "waits" /\ x = p /\ i = 0)

\* One datagram that moves keeps the others single.
LEMMA MovesAlone ==
  ASSUME OnePlace, NEW d, NEW k0, NEW x0, NEW i0, NEW k1, NEW x1, NEW i1,
         Goes(d, k0, x0, i0, k1, x1, i1)
  PROVE  OnePlace'
<1>1. \A k, x, i : At(d, k, x, i)' => k = k1 /\ x = x1 /\ i = i1
  BY DEF OnePlace, Goes
<1>2. \A e, k, x, i : e # d /\ At(e, k, x, i)' => At(e, k, x, i)
  BY DEF Goes
<1> SUFFICES ASSUME NEW e, NEW k, NEW x, NEW i, NEW l, NEW y, NEW j, At(e, k, x, i)', At(e, l, y, j)'
             PROVE  k = l /\ x = y /\ i = j
  BY DEF OnePlace
<1>3. CASE e = d
  BY <1>1, <1>3
<1>4. CASE e # d
  BY <1>2, <1>4 DEF OnePlace
<1> QED
  BY <1>3, <1>4

\* So do a datagram that moves and those that a new socket catches.
LEMMA MovesWith ==
  ASSUME OnePlace, NEW d, NEW k0, NEW x0, NEW i0, NEW k1, NEW x1, NEW i1, NEW S, NEW p, NEW n,
         GoesWith(d, k0, x0, i0, k1, x1, i1, S, p, n)
  PROVE  OnePlace'
<1> USE DEF GoesWith
<1>1. d \notin S
  BY DEF OnePlace
<1>2. \A k, x, i : At(d, k, x, i)' => k = k1 /\ x = x1 /\ i = i1
  BY <1>1 DEF OnePlace
<1>3. \A e \in S : \A k, x, i : At(e, k, x, i)' => k = "boxed" /\ x = n /\ i = 0
  BY <1>1 DEF OnePlace
<1>4. \A e, k, x, i : e # d /\ e \notin S /\ At(e, k, x, i)' => At(e, k, x, i)
  OBVIOUS
<1> SUFFICES ASSUME NEW e, NEW k, NEW x, NEW i, NEW l, NEW y, NEW j, At(e, k, x, i)', At(e, l, y, j)'
             PROVE  k = l /\ x = y /\ i = j
  BY DEF OnePlace
<1>5. CASE e = d
  BY <1>2, <1>5
<1>6. CASE e \in S
  BY <1>3, <1>6
<1>7. CASE e # d /\ e \notin S
  BY <1>4, <1>7 DEF OnePlace
<1> QED
  BY <1>5, <1>6, <1>7

\* A datagram that nobody has seen is put somewhere.
LEMMA MovesNew ==
  ASSUME OnePlace, NEW d, \A k, x, i : ~At(d, k, x, i), NEW k1, NEW x1, NEW i1,
         \A e, k, x, i : At(e, k, x, i)' =>
           \/ e = d /\ k = k1 /\ x = x1 /\ i = i1
           \/ At(e, k, x, i)
  PROVE  OnePlace'
<1> SUFFICES ASSUME NEW e, NEW k, NEW x, NEW i, NEW l, NEW y, NEW j, At(e, k, x, i)', At(e, l, y, j)'
             PROVE  k = l /\ x = y /\ i = j
  BY DEF OnePlace
<1> QED
  BY DEF OnePlace

\* So does the closure at the front of a queue.
LEMMA MovesFront ==
  ASSUME OnePlace, NEW p, NEW d, NEW k1, NEW x1, NEW i1, NEW S, NEW n,
         TakesFront(p, d, k1, x1, i1, S, n)
  PROVE  OnePlace'
<1> USE DEF TakesFront
<1> SUFFICES ASSUME NEW e, NEW k, NEW x, NEW i, NEW l, NEW y, NEW j, At(e, k, x, i)', At(e, l, y, j)'
             PROVE  k = l /\ x = y /\ i = j
  BY DEF OnePlace
<1>1. CASE e = d
  <2>1. At(d, "queued", p, 1)
    BY <1>1
  <2>2. d \notin S
    BY <2>1 DEF OnePlace
  <2>3. \A m \in Nat : m # 0 => m + 1 # 1
    OBVIOUS
  <2>4. \A m \in Nat : m # 0 => ~At(d, "queued", p, m + 1)
    BY <2>1, <2>3 DEF OnePlace
  <2>5. \A k2, x2, i2 : At(d, k2, x2, i2) => k2 = "queued" /\ x2 = p
    BY <2>1 DEF OnePlace
  <2> QED
    BY <1>1, <2>2, <2>4, <2>5
<1>2. CASE e # d /\ e \in S
  <2>1. \A m : ~At(e, "queued", p, m)
    BY <1>2 DEF OnePlace
  <2>2. \A k2, x2, i2 : At(e, k2, x2, i2) => k2 = "waits" /\ x2 = p /\ i2 = 0
    BY <1>2 DEF OnePlace
  <2> QED
    BY <1>2, <2>1, <2>2
<1>3. CASE e # d /\ e \notin S
  <2>1. \/ k = "queued" /\ x = p /\ i \in Nat /\ At(e, "queued", p, i + 1)
        \/ At(e, k, x, i) /\ ~(k = "queued" /\ x = p)
    BY <1>3
  <2>2. \/ l = "queued" /\ y = p /\ j \in Nat /\ At(e, "queued", p, j + 1)
        \/ At(e, l, y, j) /\ ~(l = "queued" /\ y = p)
    BY <1>3
  <2>3. CASE /\ k = "queued" /\ x = p /\ i \in Nat /\ At(e, "queued", p, i + 1)
             /\ l = "queued" /\ y = p /\ j \in Nat /\ At(e, "queued", p, j + 1)
    <3>1. i + 1 = j + 1
      BY <2>3 DEF OnePlace
    <3> QED
      BY <2>3, <3>1
  <2> QED
    BY <2>1, <2>2, <2>3 DEF OnePlace
<1> QED
  BY <1>1, <1>2, <1>3

\* getOrCreateSession takes the datagram in hand.
LEMMA LookedHand ==
  ASSUME MaxDatagram \in Nat, MaxSession \in Nat, Typed, NEW p \in Poller, NEW d \in Arrivals,
         NEW x, LookUp(p, d, x)
  PROVE  doing'[p][2] = d /\ \A q \in Poller \ {p} : doing'[q] = doing[q]
<1>1. CASE doing' = [doing EXCEPT ![p] = <<"miss", d, 0>>]
  BY <1>1, InHand, 0 \in 0 .. MaxSession
<1>2. CASE \E s \in Found(x) : s \in Created /\ doing' = [doing EXCEPT ![p] = <<"found", d, s>>]
  <2>1. PICK s \in Created : doing' = [doing EXCEPT ![p] = <<"found", d, s>>]
    BY <1>2
  <2>2. s \in 0 .. MaxSession
    BY Numbers DEF Session
  <2> QED
    BY <2>1, <2>2, InHand
<1> QED
  BY <1>1, <1>2, Looked

\* The socket of session n catches the datagrams S of those that wait at the server's of p.
Catches(p, S, n) ==
  /\ \A e \in S : At(e, "waits", p, 0)
  /\ \A q \in Poller : \A e \in arrived'[q] : e \in arrived[q] /\ ~(q = p /\ e \in S)
  /\ \A s \in Session : \A e \in inbox'[s] : e \in inbox[s] \/ (s = n /\ e \in S)

\* session_creator keeps the datagram in hand, and its socket may catch some that wait.
LEMMA CreatorMoves ==
  ASSUME MaxDatagram \in Nat, MaxSession \in Nat, Typed, NEW p \in Poller, NEW d \in Arrivals,
         NEW step \in {"found", "created"}, SessionCreator(p, d, From(d), step)
  PROVE  /\ doing'[p][2] = d /\ \A q \in Poller \ {p} : doing'[q] = doing[q]
         /\ \E S, n : Catches(p, S, n)
<1>1. CASE /\ Found(From(d)) # {}
           /\ doing' = [doing EXCEPT ![p] = <<step, d, CHOOSE s \in Found(From(d)) : TRUE>>]
           /\ UNCHANGED <<home, peer, sessionMap, live, inbox, arrived, via>>
  <2>1. PICK s \in Created : doing' = [doing EXCEPT ![p] = <<step, d, s>>]
    BY <1>1, FoundCreated
  <2>2. s \in 0 .. MaxSession
    BY Numbers DEF Session
  <2>3. doing'[p][2] = d /\ \A q \in Poller \ {p} : doing'[q] = doing[q]
    BY <2>1, <2>2, InHand
  <2>4. PICK S, n : S = {} /\ n = 0
    OBVIOUS
  <2>5. Catches(p, S, n)
    BY <1>1, <2>4 DEF Catches
  <2> QED
    BY <2>3, <2>5
<1>2. CASE Found(From(d)) = {} /\ Len(home) < MaxSession
  <2>1. PICK n : n = Len(home) + 1
    OBVIOUS
  <2>2. PICK S \in SUBSET {e \in arrived[p] : From(e) # From(d)} :
             /\ inbox' = [inbox EXCEPT ![n] = S]
             /\ arrived' = [arrived EXCEPT ![p] = @ \ S]
    BY <1>2, <2>1 DEF SessionCreator
  <2>3. n \in 0 .. MaxSession /\ doing' = [doing EXCEPT ![p] = <<step, d, n>>]
    BY <1>2, <2>1, Numbers DEF SessionCreator
  <2>4. doing'[p][2] = d /\ \A q \in Poller \ {p} : doing'[q] = doing[q]
    BY <2>3, InHand
  <2>5. \A e \in S : At(e, "waits", p, 0)
    BY <2>2, TypeParts DEF At
  <2>6. Catches(p, S, n)
    BY <2>2, <2>5, TypeParts DEF Catches
  <2> QED
    BY <2>4, <2>6
<1> QED
  BY <1>1, <1>2 DEF SessionCreator

\* The front closure of p is at the first place of its queue, and the others move up.
LEMMA FrontPlaces ==
  ASSUME MaxDatagram \in Nat, MaxSession \in Nat, Typed, NEW p \in Poller, queue[p] # <<>>,
         queue' = [queue EXCEPT ![p] = Tail(@)]
  PROVE  /\ queue[p][1][2] \in Datagram => At(queue[p][1][2], "queued", p, 1)
         /\ \A e \in Datagram : \A q \in Poller : \A i \in 1 .. Len(queue'[q]) :
              queue'[q][i][2] = e =>
                \/ q = p /\ i \in Nat /\ i # 0 /\ At(e, "queued", p, i + 1)
                \/ q # p /\ At(e, "queued", q, i)
<1>1. /\ \A q \in Poller \ {p} : queue'[q] = queue[q]
      /\ 1 \in 1 .. Len(queue[p])
      /\ \A i \in 1 .. Len(queue'[p]) : queue'[p][i] = queue[p][i + 1] /\ i + 1 \in 1 .. Len(queue[p])
  BY Popped, TypeParts
<1>2. queue[p][1][2] \in Datagram => At(queue[p][1][2], "queued", p, 1)
  BY <1>1 DEF At
<1> SUFFICES ASSUME NEW e \in Datagram, NEW q \in Poller, NEW i \in 1 .. Len(queue'[q]), queue'[q][i][2] = e
             PROVE  \/ q = p /\ i \in Nat /\ i # 0 /\ At(e, "queued", p, i + 1)
                    \/ q # p /\ At(e, "queued", q, i)
  BY <1>2
<1>3. CASE q = p
  BY <1>1, <1>3 DEF At
<1>4. CASE q # p
  BY <1>1, <1>4 DEF At
<1> QED
  BY <1>3, <1>4

\* A datagram is posted.
LEMMA PostPlaces ==
  ASSUME Typed, NEW p \in Poller, NEW c \in Closure, Post(p, c), NEW m, m = Len(queue[p]) + 1
  PROVE  \A e \in Datagram : \A q \in Poller : \A i \in 1 .. Len(queue'[q]) :
           queue'[q][i][2] = e => At(e, "queued", q, i) \/ (e = c[2] /\ q = p /\ i = m)
<1>1. /\ \A q \in Poller \ {p} : queue'[q] = queue[q]
      /\ Len(queue[p]) \in Nat /\ Len(queue'[p]) = Len(queue[p]) + 1
      /\ queue'[p][Len(queue[p]) + 1] = c
      /\ \A i \in 1 .. Len(queue[p]) : queue'[p][i] = queue[p][i]
  BY Pushed, TypeParts
<1> SUFFICES ASSUME NEW e \in Datagram, NEW q \in Poller, NEW i \in 1 .. Len(queue'[q]), queue'[q][i][2] = e,
                    ~(e = c[2] /\ q = p /\ i = m)
             PROVE  At(e, "queued", q, i)
  OBVIOUS
<1>2. CASE q # p
  BY <1>1, <1>2 DEF At
<1>3. CASE q = p
  <2>1. i # m
    BY <1>1, <1>3
  <2>2. i \in 1 .. Len(queue[p])
    BY <1>1, <1>3, <2>1
  <2> QED
    BY <1>1, <1>3, <2>2 DEF At
<1> QED
  BY <1>2, <1>3

\* Every step keeps each datagram in one place.
LEMMA OnceStep ==
  ASSUME MaxDatagram \in Nat, MaxSession \in Nat PROVE OnceInv /\ [Next]_vars => OnceInv'
<1> SUFFICES ASSUME Typed, OnePlace, [Next]_vars PROVE OnePlace'
  BY TypeStep DEF OnceInv
<1>1. ASSUME \A e, k, x, i : At(e, k, x, i)' => At(e, k, x, i) PROVE OnePlace'
  BY <1>1 DEF OnePlace
<1>2. ASSUME NEW x \in Peer, Arrive(x) PROVE OnePlace'
  <2>0. PICK d : d = Len(sender) + 1
    OBVIOUS
  <2>1. d \notin Arrivals
    BY <2>0, Numbers DEF Arrivals
  <2>2. \A k, y, i : ~At(d, k, y, i)
    BY <2>1, AtArrived
  <2>3. CASE \E s \in live : inbox' = [inbox EXCEPT ![s] = @ \cup {d}] /\ UNCHANGED arrived
    <3>1. PICK s \in live : inbox' = [inbox EXCEPT ![s] = @ \cup {d}]
      BY <2>3
    <3>2. \A t \in Session : \A e \in inbox'[t] : e \in inbox[t] \/ (e = d /\ t = s)
      BY <3>1, TypeParts
    <3>3. \A e, k, y, i : At(e, k, y, i)' =>
            (e = d /\ k = "boxed" /\ y = s /\ i = 0) \/ At(e, k, y, i)
      BY <1>2, <2>3, <3>2 DEF Arrive, At
    <3> QED
      BY <2>2, <3>3, MovesNew
  <2>4. CASE \E p \in Poller : arrived' = [arrived EXCEPT ![p] = @ \cup {d}] /\ UNCHANGED inbox
    <3>1. PICK p \in Poller : arrived' = [arrived EXCEPT ![p] = @ \cup {d}] /\ UNCHANGED inbox
      BY <2>4
    <3>2. \A q \in Poller : \A e \in arrived'[q] : e \in arrived[q] \/ (e = d /\ q = p)
      BY <3>1, TypeParts
    <3>3. \A e, k, y, i : At(e, k, y, i)' =>
            (e = d /\ k = "waits" /\ y = p /\ i = 0) \/ At(e, k, y, i)
      BY <1>2, <3>1, <3>2 DEF Arrive, At
    <3> QED
      BY <2>2, <3>3, MovesNew
  <2> QED
    BY <1>2, <2>0, <2>3, <2>4 DEF Arrive
<1>3. ASSUME NEW p \in Poller, NEW d \in Datagram, OnRead(p, d) PROVE OnePlace'
  <2>1. At(d, "waits", p, 0) /\ d \in Arrivals /\ LookUp(p, d, From(d))
    BY <1>3 DEF OnRead, At, Typed, ArrivedOnly
  <2>2. doing'[p][2] = d /\ \A q \in Poller \ {p} : doing'[q] = doing[q]
    BY <2>1, LookedHand
  <2>3. \A q \in Poller : \A e \in arrived'[q] : e \in arrived[q] /\ ~(q = p /\ e = d)
    BY <1>3, TypeParts DEF OnRead
  <2>4. Goes(d, "waits", p, 0, "held", p, 0)
    BY <1>3, <2>1, <2>2, <2>3 DEF OnRead, At, Goes
  <2> QED
    BY <2>4, MovesAlone
<1>4. ASSUME NEW s \in Created, NEW d \in Datagram, OnSessionRead(s, d) PROVE OnePlace'
  <2>0. PICK p \in Poller : p = home[s]
    BY Numbers
  <2>1. At(d, "boxed", s, 0) /\ d \in Arrivals /\ s \in Session
    BY <1>4, Numbers DEF OnSessionRead, At, Typed, ArrivedOnly
  <2>2. \A t \in Session : \A e \in inbox'[t] : e \in inbox[t] /\ ~(t = s /\ e = d)
    BY <1>4, TypeParts DEF OnSessionRead
  <2>3. CASE handled' = handled \cup {<<d, s, p>>} /\ UNCHANGED doing
    <3>1. Goes(d, "boxed", s, 0, "done", s, p)
      BY <1>4, <2>1, <2>2, <2>3 DEF OnSessionRead, At, Goes
    <3> QED
      BY <3>1, MovesAlone
  <2>4. CASE LookUp(p, d, peer[s]) /\ UNCHANGED handled
    <3>1. doing'[p][2] = d /\ \A q \in Poller \ {p} : doing'[q] = doing[q]
      BY <2>1, <2>4, LookedHand
    <3>2. Goes(d, "boxed", s, 0, "held", p, 0)
      BY <1>4, <2>1, <2>2, <2>4, <3>1 DEF OnSessionRead, At, Goes
    <3> QED
      BY <3>2, MovesAlone
  <2> QED
    BY <1>4, <2>0, <2>3, <2>4 DEF OnSessionRead
<1>5. ASSUME NEW p \in Poller, NEW d \in Arrivals, doing[p][2] = d,
             UNCHANGED <<arrived, inbox, handled>>,
             doing' = [doing EXCEPT ![p] = Nothing],
             NEW q \in Poller, NEW c \in Closure, Post(q, c), c[2] = d
      PROVE  OnePlace'
  <2>1. At(d, "held", p, 0)
    BY <1>5, Numbers DEF At
  <2>2. doing'[p][2] = 0 /\ \A r \in Poller \ {p} : doing'[r] = doing[r]
    BY <1>5, HandFree DEF Nothing
  <2>3. PICK m : m = Len(queue[q]) + 1
    OBVIOUS
  <2>4. \A e \in Datagram : \A r \in Poller : \A i \in 1 .. Len(queue'[r]) :
           queue'[r][i][2] = e => At(e, "queued", r, i) \/ (e = d /\ r = q /\ i = m)
    BY <1>5, <2>3, PostPlaces
  <2>5. Goes(d, "held", p, 0, "queued", q, m)
    BY <1>5, <2>1, <2>2, <2>4 DEF At, Datagram, Goes
  <2> QED
    BY <2>5, MovesAlone
<1>6. ASSUME NEW p \in Poller, UseSession(p) PROVE OnePlace'
  <2>0. PICK d \in Arrivals, s \in Created : d = doing[p][2] /\ s = doing[p][3]
    BY <1>6, HandArrived DEF UseSession
  <2>1. At(d, "held", p, 0)
    BY <2>0, Numbers DEF At
  <2>2. doing'[p][2] = 0 /\ \A r \in Poller \ {p} : doing'[r] = doing[r]
    BY <1>6, HandFree DEF UseSession, Nothing
  <2>3. CASE UNCHANGED <<queue, handled>>
    <3>1. \A e, k, x, i : At(e, k, x, i)' => At(e, k, x, i)
      BY <1>6, <2>2, <2>3 DEF UseSession, At, Datagram
    <3> QED
      BY <1>1, <3>1
  <2>4. CASE handled' = handled \cup {<<d, s, p>>} /\ UNCHANGED queue
    <3>1. Goes(d, "held", p, 0, "done", s, p)
      BY <1>6, <2>1, <2>2, <2>4 DEF UseSession, At, Datagram, Goes
    <3> QED
      BY <3>1, MovesAlone
  <2>5. CASE Post(home[s], <<"recv", d, s>>) /\ UNCHANGED handled
    <3>1. PICK c : c = <<"recv", d, s>>
      OBVIOUS
    <3>2. c \in Closure /\ c[2] = d /\ home[s] \in Poller
      BY <3>1, Numbers DEF Closure, Session
    <3> QED
      BY <1>5, <1>6, <2>0, <2>5, <3>1, <3>2 DEF UseSession
  <2> QED
    BY <1>6, <2>0, <2>3, <2>4, <2>5 DEF UseSession
<1>7. ASSUME NEW p \in Poller, CreateSession(p) PROVE OnePlace'
  <2>0. PICK d \in Arrivals : d = doing[p][2]
    BY <1>7, HandArrived DEF CreateSession
  <2>1. At(d, "held", p, 0)
    BY <2>0, Numbers DEF At
  <2>2. CASE SessionCreator(p, d, From(d), "found") /\ UNCHANGED queue
    <3>1. /\ doing'[p][2] = d /\ \A q \in Poller \ {p} : doing'[q] = doing[q]
          /\ \E S, n : Catches(p, S, n)
      <4> DEFINE step == "found"
      <4>1. step \in {"found", "created"} /\ SessionCreator(p, d, From(d), step)
        BY <2>2
      <4> HIDE DEF step
      <4> QED
        BY <4>1, CreatorMoves
    <3>2. PICK S, n : Catches(p, S, n)
      BY <3>1
    <3>3. GoesWith(d, "held", p, 0, "held", p, 0, S, p, n)
      BY <1>7, <2>1, <2>2, <3>1, <3>2 DEF CreateSession, At, GoesWith, Catches
    <3> QED
      BY <3>3, MovesWith
  <2>3. CASE /\ \E q \in Poller \ {p} : Post(q, <<"create", d, 0>>)
             /\ doing' = [doing EXCEPT ![p] = Nothing]
             /\ UNCHANGED <<arrived, inbox, handled>>
    <3>1. PICK c : c = <<"create", d, 0>>
      OBVIOUS
    <3>2. c \in Closure /\ c[2] = d
      BY <3>1, Numbers DEF Closure
    <3> QED
      BY <1>5, <2>0, <2>3, <3>1, <3>2
  <2> QED
    BY <1>7, <2>0, <2>2, <2>3 DEF CreateSession
<1>8. ASSUME NEW p \in Poller, RunCreate(p) PROVE OnePlace'
  <2>1. /\ queue[p] # <<>> /\ queue' = [queue EXCEPT ![p] = Tail(@)]
        /\ Head(queue[p])[1] = "create"
    BY <1>8 DEF RunCreate
  <2>2. PICK d \in Arrivals : d = queue[p][1][2] /\ Head(queue[p])[2] = d
    BY <2>1, FrontKnown DEF KnownIn
  <2>3. /\ At(d, "queued", p, 1)
        /\ \A e \in Datagram : \A q \in Poller : \A i \in 1 .. Len(queue'[q]) :
             queue'[q][i][2] = e =>
               \/ q = p /\ i \in Nat /\ i # 0 /\ At(e, "queued", p, i + 1)
               \/ q # p /\ At(e, "queued", q, i)
    BY <2>1, <2>2, FrontPlaces, Numbers
  <2>4. /\ doing'[p][2] = d /\ \A q \in Poller \ {p} : doing'[q] = doing[q]
        /\ \E S, n : Catches(p, S, n)
    <3> DEFINE step == "created"
    <3>1. step \in {"found", "created"} /\ SessionCreator(p, d, From(d), step)
      BY <1>8, <2>2 DEF RunCreate
    <3> HIDE DEF step
    <3> QED
      BY <3>1, CreatorMoves
  <2>5. PICK S, n : Catches(p, S, n)
    BY <2>4
  <2>7. ASSUME NEW e, NEW k, NEW x, NEW i, At(e, k, x, i)'
        PROVE  \/ e = d /\ k = "held" /\ x = p /\ i = 0
               \/ e \in S /\ k = "boxed" /\ x = n /\ i = 0
               \/ k = "queued" /\ x = p /\ i \in Nat /\ i # 0 /\ At(e, "queued", p, i + 1)
               \/ /\ At(e, k, x, i) /\ ~(k = "queued" /\ x = p)
                  /\ ~(e \in S /\ k = "waits" /\ x = p /\ i = 0)
    <3>1. CASE k = "queued"
      <4>1. e \in Datagram /\ x \in Poller /\ i \in 1 .. Len(queue'[x]) /\ queue'[x][i][2] = e
        BY <2>7, <3>1 DEF At
      <4> QED
        BY <3>1, <4>1, <2>3
    <3>2. CASE k # "queued"
      BY <2>7, <3>2, <1>8, <2>4, <2>5 DEF RunCreate, At, Catches
    <3> QED
      BY <3>1, <3>2
  <2>8. TakesFront(p, d, "held", p, 0, S, n)
    BY <2>3, <2>5, <2>7 DEF TakesFront, Catches
  <2> QED
    BY <2>8, MovesFront
<1>9. ASSUME NEW p \in Poller, RunRecv(p) PROVE OnePlace'
  <2>1. /\ queue[p] # <<>> /\ queue' = [queue EXCEPT ![p] = Tail(@)]
        /\ Head(queue[p])[1] = "recv"
    BY <1>9 DEF RunRecv
  <2>2. PICK d \in Arrivals, s \in Created : d = queue[p][1][2] /\ Head(queue[p])[2] = d /\ Head(queue[p])[3] = s
    BY <2>1, FrontKnown DEF KnownIn
  <2>3. /\ At(d, "queued", p, 1)
        /\ \A e \in Datagram : \A q \in Poller : \A i \in 1 .. Len(queue'[q]) :
             queue'[q][i][2] = e =>
               \/ q = p /\ i \in Nat /\ i # 0 /\ At(e, "queued", p, i + 1)
               \/ q # p /\ At(e, "queued", q, i)
    BY <2>1, <2>2, FrontPlaces, Numbers
  <2>4. handled' \subseteq handled \cup {<<d, s, p>>} /\ UNCHANGED <<arrived, inbox, doing>>
    BY <1>9, <2>2 DEF RunRecv
  <2>5. PICK S : S = {}
    OBVIOUS
  <2>6. TakesFront(p, d, "done", s, p, S, 0)
    BY <2>3, <2>4, <2>5 DEF At, TakesFront
  <2> QED
    BY <2>6, MovesFront
<1>10. ASSUME NEW p \in Poller, RunManage(p) PROVE OnePlace'
  <2>1. queue[p] # <<>> /\ queue' = [queue EXCEPT ![p] = Tail(@)] /\ UNCHANGED <<arrived, handled, doing>>
    BY <1>10 DEF RunManage
  <2>2. \A e \in Datagram : \A q \in Poller : \A i \in 1 .. Len(queue'[q]) :
          queue'[q][i][2] = e =>
            \/ q = p /\ i \in Nat /\ i # 0 /\ At(e, "queued", p, i + 1)
            \/ q # p /\ At(e, "queued", q, i)
    BY <2>1, FrontPlaces
  <2>3. \A t \in Session : inbox'[t] \subseteq inbox[t]
    BY <1>10, TypeParts DEF RunManage, Fail
  <2>4. PICK S : S = {}
    OBVIOUS
  <2>5. \A k, x, i : ~At(0, k, x, i)'
    BY DEF At, Datagram
  <2>7. ASSUME NEW e, NEW k, NEW x, NEW i, At(e, k, x, i)'
        PROVE  \/ e = 0 /\ k = "done" /\ x = 0 /\ i = 0
               \/ e \in S /\ k = "boxed" /\ x = 0 /\ i = 0
               \/ k = "queued" /\ x = p /\ i \in Nat /\ i # 0 /\ At(e, "queued", p, i + 1)
               \/ /\ At(e, k, x, i) /\ ~(k = "queued" /\ x = p)
                  /\ ~(e \in S /\ k = "waits" /\ x = p /\ i = 0)
    <3>1. CASE k = "queued"
      <4>1. e \in Datagram /\ x \in Poller /\ i \in 1 .. Len(queue'[x]) /\ queue'[x][i][2] = e
        BY <2>7, <3>1 DEF At
      <4> QED
        BY <3>1, <4>1, <2>2
    <3>2. CASE k # "queued"
      BY <2>7, <3>2, <2>1, <2>3, <2>4 DEF At
    <3> QED
      BY <3>1, <3>2
  <2>8. TakesFront(p, 0, "done", 0, 0, S, 0)
    BY <2>4, <2>5, <2>7 DEF TakesFront
  <2> QED
    BY <2>8, MovesFront
<1>11. ASSUME NEW s \in Created, OnErr(s) PROVE OnePlace'
  <2>1. \A t \in Session : inbox'[t] \subseteq inbox[t]
    BY <1>11, TypeParts DEF OnErr, Fail
  <2>2. \A e, k, x, i : At(e, k, x, i)' => At(e, k, x, i)
    BY <1>11, <2>1 DEF OnErr, At
  <2> QED
    BY <1>1, <2>2
<1>12. CASE Manage
  <2>1. PICK c : c = <<"manage", 0, {e[2] : e \in sessionMap}>>
    OBVIOUS
  <2>2. {e[2] : e \in sessionMap} \subseteq Session
    BY Numbers, TypeParts
  <2>3. /\ c \in Closure /\ queue' = [p \in Poller |-> Append(queue[p], c)] /\ c[2] = 0
        /\ queue \in [Poller -> Seq(Closure)] /\ UNCHANGED <<arrived, inbox, doing, handled>>
    BY <1>12, <2>1, <2>2, TypeParts DEF Manage, Closure
  <2>4. ASSUME NEW e \in Datagram, NEW q \in Poller, NEW i \in 1 .. Len(queue'[q]), queue'[q][i][2] = e
        PROVE  i \in 1 .. Len(queue[q]) /\ queue[q][i][2] = e
    <3>1. queue'[q] = Append(queue[q], c) /\ queue[q] \in Seq(Closure)
      BY <2>3
    <3>2. queue'[q][i] = c \/ (i \in 1 .. Len(queue[q]) /\ queue'[q][i] = queue[q][i])
      BY <2>3, <3>1, AppendProperties, LenProperties
    <3> QED
      BY <2>3, <2>4, <3>2 DEF Datagram
  <2>5. \A e, k, x, i : At(e, k, x, i)' => At(e, k, x, i)
    BY <2>3, <2>4 DEF At
  <2> QED
    BY <1>1, <2>5
<1>13. CASE UNCHANGED vars
  <2>1. \A p \in Poller : Len(queue'[p]) = Len(queue[p])
    BY <1>13 DEF vars
  <2>2. \A e, k, x, i : At(e, k, x, i)' => At(e, k, x, i)
    BY <1>13, <2>1 DEF vars, At
  <2> QED
    BY <1>1, <2>2
<1> QED
  BY <1>2, <1>3, <1>4, <1>6, <1>7, <1>8, <1>9, <1>10, <1>11, <1>12, <1>13 DEF Next, RunClosure

\* No datagram is anywhere at first.
LEMMA OnceInit == ASSUME MaxDatagram \in Nat, MaxSession \in Nat PROVE Init => OnceInv
<1> SUFFICES ASSUME Init PROVE OnceInv
  OBVIOUS
<1>1. \A p \in Poller : Len(queue[p]) = 0
  BY EmptySeq DEF Init
<1>2. \A e, k, x, i : ~At(e, k, x, i)
  BY <1>1 DEF Init, At, Datagram, Nothing
<1> QED
  BY <1>2, TypeInit DEF OnceInv, OnePlace

\* What is with the user is nowhere else.
LEMMA OnceImplies ==
  ASSUME OnceInv
  PROVE  HandledOnce
<1> SUFFICES ASSUME NEW h \in handled
             PROVE  /\ \A g \in handled : g[1] = h[1] => g = h
                    /\ \A p \in Poller : /\ doing[p][2] # h[1] /\ h[1] \notin arrived[p]
                                         /\ \A i \in 1 .. Len(queue[p]) : queue[p][i][2] # h[1]
                    /\ \A t \in Session : h[1] \notin inbox[t]
  BY DEF HandledOnce
<1>1. \A g \in handled : g = <<g[1], g[2], g[3]>> /\ g[1] \in Datagram
  BY TypeParts DEF OnceInv
<1>2. \A g \in handled : At(g[1], "done", g[2], g[3])
  BY <1>1 DEF At
<1>3. \A g \in handled : g[1] = h[1] => g = h
  BY <1>1, <1>2 DEF OnceInv, OnePlace
<1>4. \A k, x, i : At(h[1], k, x, i) => k = "done"
  BY <1>2 DEF OnceInv, OnePlace
<1> QED
  BY <1>1, <1>3, <1>4 DEF At

-----------------------------------------------------------------------------
(* Two threads that read the same peer agree on one session, and what they *)
(* read reaches that session once and on its own thread.                   *)
THEOREM SessionsSafe ==
  ASSUME MaxDatagram \in Nat, MaxSession \in Nat
  PROVE  Spec => []UdpSessionsSafe
<1>1. Init => RouteInv /\ OnceInv
  BY RouteInit, OnceInit
<1>2. RouteInv /\ OnceInv /\ [Next]_vars => (RouteInv /\ OnceInv)'
  BY RouteStep, OnceStep
<1>3. RouteInv /\ OnceInv => UdpSessionsSafe
  BY RouteImplies, OnceImplies DEF UdpSessionsSafe
<1> QED
  BY <1>1, <1>2, <1>3, PTL DEF Spec

=============================================================================
