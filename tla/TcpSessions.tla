---------------------------- MODULE TcpSessions ----------------------------
(***************************************************************************)
(* src/Network/TcpServer.cpp with Server.cpp, Session.cpp and the accept   *)
(* path of Socket.cpp.  A started server has a copy on every poller; the   *)
(* copies share the listening descriptor.  Whichever poller accepts picks  *)
(* the poller the connection will live on and posts the creation of its    *)
(* session there.  One user thread looks sessions up in the global         *)
(* SessionMap, shuts them down and gives the server up.                    *)
(***************************************************************************)
EXTENDS Naturals, Sequences, FiniteSets, SequenceTheorems, TLAPS

CONSTANTS
  Poller,        \* the loop threads of EventPollerPool
  Main,          \* the poller the server was started on; the others have clones
  NoPoller,      \* the poller of a connection not accepted yet
  MaxConn,       \* bound: connections accepted
  MaxAddress     \* bound: places in memory for a SessionHelper

ASSUME ServerAssumption ==
  Main \in Poller /\ NoPoller \notin Poller /\ MaxConn \in Nat /\ MaxAddress \in Nat

Conn == 1 .. MaxConn
Address == 1 .. MaxAddress
NoAddress == 0

VARIABLES
  owner,       \* the poller of each connection's socket
  queue,       \* closures posted to each poller
  accepting,   \* connection whose accept iteration a poller is in, 0 for none
  completed,   \* who still holds `completed`, whose deleter attaches the socket
  sessions,    \* _session_map of the server of each poller
  key,         \* the SessionHelper* that the error callback of a session erases
  fd,          \* connections whose socket has a descriptor
  watched,     \* connections attached to their poller
  managing,    \* pollers inside onManagerSession (_is_on_manager)
  todo,        \* sessions its loop still has to visit
  errors,      \* calls of onError of each session
  user,        \* the user thread: <<step, the session it holds>>
  server,      \* pollers whose server object exists
  held,        \* the user still holds the server
  inside,      \* pollers in onAccept of their listening socket, which the event holds
  ruined       \* a callback used a server object that is no more

vars == <<owner, queue, accepting, completed, sessions, key, fd, watched, managing,
          todo, errors, user, server, held,
          inside, ruined>>

TypeOK ==
  /\ owner \in [Conn -> Poller \cup {NoPoller}]
  /\ queue \in [Poller -> Seq({"accept", "err"} \X Conn \cup {"erase"} \X Address)]
  /\ accepting \in [Poller -> 0 .. MaxConn]
  /\ completed \in [Conn -> SUBSET {"loop", "closure"}]
  /\ sessions \in [Poller -> SUBSET Conn]
  /\ key \in [Conn -> Address \cup {NoAddress}]
  /\ fd \subseteq Conn /\ watched \subseteq fd
  /\ managing \subseteq Poller /\ server \subseteq Poller
  /\ todo \in [Poller -> SUBSET Conn]
  /\ errors \in [Conn -> 0 .. 3]
  /\ user \in {"idle", "seen", "closed"} \X (0 .. MaxConn)
  /\ {held, ruined} \subseteq BOOLEAN
  /\ inside \subseteq Poller /\ inside \cap managing = {}

Init ==
  /\ owner = [c \in Conn |-> NoPoller]
  /\ queue = [p \in Poller |-> <<>>]
  /\ accepting = [p \in Poller |-> 0]
  /\ completed = [c \in Conn |-> {}]
  /\ sessions = [p \in Poller |-> {}] /\ todo = [p \in Poller |-> {}]
  /\ key = [c \in Conn |-> NoAddress]
  /\ fd = {} /\ watched = {} /\ managing = {}
  /\ errors = [c \in Conn |-> 0]
  /\ user = <<"idle", 0>>
  /\ server = Poller /\ held = TRUE
  /\ inside = {} /\ ruined = FALSE

(* A loop thread that runs none of the server's code. *)
Idle(p) == p \notin inside \cup managing

Mapped(maps) == UNION {maps[p] : p \in Poller}

(* A socket is kept by its session, through the map or the user's pointer, and
   by the accept path; when nobody is left its descriptor is closed. *)
Kept(open, maps, holders, thread) ==
  {c \in open : c \in Mapped(maps) \/ thread[2] = c \/ holders[c] # {}}

Post(p, closure) == queue' = [queue EXCEPT ![p] = Append(@, closure)]

-----------------------------------------------------------------------------
(* Mutant: the main server and its clones keep each other. *)
ServersKept(q, h, mg) ==
  LET busy(p) == p \in mg \/ \E i \in 1 .. Len(q[p]) : q[p][i][1] = "accept"
      main == Main \in server /\ (h \/ busy(Main))
  IN {p \in server : main \/ p # Main}

(* A server object lives by the user (the main one) or by the main one (the
   clones), by the closures that will accept on it and by its manager's run. *)
Servers(q, h, mg) ==
  LET busy(p) == p \in mg \/ \E i \in 1 .. Len(q[p]) : q[p][i][1] = "accept"
      main == Main \in server /\ (h \/ busy(Main))
  IN {p \in server : main \/ (p # Main /\ busy(p))}

(* ~TcpServer clears its map; each ~SessionHelper finds the server gone and
   tells the session.  The step leaves queue q, user hold h, managers mg, maps. *)
Destroy(q, h, mg, maps) ==
  LET left == Servers(q, h, mg)
      lost == UNION {maps[p] : p \in server \ left} IN
    /\ server' = left
    /\ sessions' = [p \in Poller |-> IF p \in left THEN maps[p] ELSE {}]
    /\ errors' = [c \in Conn |-> IF c \in lost THEN errors[c] + 1 ELSE errors[c]]

(* onAcceptConnection: the session, its helper in the map of this server, and
   the callbacks of its socket. *)
OnAcceptConnection(c) ==
  \E a \in Address \ {key[d] : d \in Mapped(sessions)} : key' = [key EXCEPT ![c] = a]

(* Mutant: the first holder that goes attaches. *)
ReleaseFirst(c, holder) ==
  /\ completed' = [completed EXCEPT ![c] = @ \ {holder}]
  /\ fd' = Kept(fd, sessions', completed', user)
  /\ watched' = (watched \cup {c}) \cap fd'

(* Setting the last holder of `completed` free attaches the socket, unless it
   was shut down or nobody has it any more. *)
Release(c, holder) ==
  /\ completed' = [completed EXCEPT ![c] = @ \ {holder}]
  /\ fd' = Kept(fd, sessions', completed', user)
  /\ watched' = (IF completed[c] \subseteq {holder} THEN watched \cup {c} ELSE watched) \cap fd'

(* The event of the listening socket holds the socket while it accepts until
   there is no connection left; the server may go meanwhile. *)
AcceptEvent(p) ==
  /\ Idle(p) /\ p \in server
  /\ inside' = inside \cup {p}
  /\ UNCHANGED <<owner, queue, accepting, completed, sessions, key, fd, watched, managing,
                 todo, errors, user, server, held, ruined>>

AcceptReturns(p) ==
  /\ p \in inside /\ accepting[p] = 0
  /\ inside' = inside \ {p}
  /\ UNCHANGED <<owner, queue, accepting, completed, sessions, key, fd, watched, managing,
                 todo, errors, user, server, held, ruined>>

(* The callbacks of the listening socket have a raw `this`, and a clone a raw
   _parent. *)
ServerThere(p) == {p, Main} \subseteq server

(* An iteration of onAccept: the connection gets a socket on any poller q; the
   session is made inline when that is this thread, else by a closure. *)
Accept(p, c) ==
  /\ p \in inside /\ accepting[p] = 0 /\ ServerThere(p)
  /\ owner[c] = NoPoller /\ \A b \in 1 .. c - 1 : owner[b] # NoPoller
  /\ fd' = fd \cup {c}
  /\ accepting' = [accepting EXCEPT ![p] = c]
  /\ \E q \in Poller :
       /\ owner' = [owner EXCEPT ![c] = q]
       /\ \/ /\ q = p
             /\ OnAcceptConnection(c)
             /\ sessions' = [sessions EXCEPT ![p] = @ \cup {c}]
             /\ completed' = [completed EXCEPT ![c] = {"loop"}]
             /\ UNCHANGED queue
          \/ /\ q # p
             /\ Post(q, <<"accept", c>>)
             /\ completed' = [completed EXCEPT ![c] = {"loop", "closure"}]
             /\ UNCHANGED <<sessions, key>>
  /\ UNCHANGED <<watched, managing, todo, errors, user, server, held,
                 inside, ruined>>

(* A connection is accepted when the server of p, or the one it was cloned from,
   is no more.  At best shared_from_this throws, the connection is closed and
   nothing else changes.  If the memory is another's, nobody knows. *)
AcceptAlone(p) ==
  /\ p \in inside /\ accepting[p] = 0 /\ ~ServerThere(p)
  /\ ruined' = TRUE
  /\ UNCHANGED <<owner, queue, accepting, completed, sessions, key, fd, watched, managing,
                 todo, errors, user, server, held, inside>>

(* The end of the iteration drops its reference to `completed`. *)
AcceptEnds(p) ==
  /\ accepting[p] # 0
  /\ accepting' = [accepting EXCEPT ![p] = 0]
  /\ UNCHANGED sessions
  /\ Release(accepting[p], "loop")
  /\ UNCHANGED <<owner, queue, key, managing, todo, errors, user, server, held,
                 inside, ruined>>

(* The closure: the session is made, then the references go, to `completed` and
   to the server, which may be the last. *)
RunAccept(p) ==
  /\ Idle(p) /\ queue[p] # <<>> /\ Head(queue[p])[1] = "accept"
  /\ LET c == Head(queue[p])[2] IN
     /\ queue' = [queue EXCEPT ![p] = Tail(@)]
     /\ OnAcceptConnection(c)
     /\ Destroy(queue', held, managing, [sessions EXCEPT ![p] = @ \cup {c}])
     /\ Release(c, "closure")
  /\ UNCHANGED <<owner, accepting, managing, todo, user, held, inside, ruined>>

-----------------------------------------------------------------------------
(* The helper at address a leaves the map of p, if its server exists, and the
   session goes with it.  `open` are the descriptors that are not shut down. *)
Erase(p, a, open) ==
  /\ sessions' = [sessions EXCEPT ![p] =
                    IF p \in server THEN {c \in @ : key[c] # a} ELSE @]
  /\ fd' = Kept(open, sessions', completed, user)
  /\ watched' = watched \cap fd'

(* Mutant: the session goes without being told. *)
OnErrSilent(p, c) ==
  /\ UNCHANGED errors
  /\ Erase(p, key[c], fd \ {c})

(* _on_err of the socket of c: onError, then the key is erased, whoever has it. *)
OnErr(p, c) ==
  /\ errors' = [errors EXCEPT ![c] = @ + 1]
  /\ Erase(p, key[c], fd \ {c})

(* The connection breaks, or a callback throws: emitErr on the loop thread,
   whose async runs _on_err on the spot. *)
PeerError(p, c) ==
  /\ Idle(p) /\ owner[c] = p /\ c \in watched
  /\ OnErr(p, c)
  /\ UNCHANGED <<owner, queue, accepting, completed, key, managing, todo, user, server, held,
                 inside, ruined>>

(* A session gets its callbacks from the server that makes it; cloneFrom copies
   the listening descriptor and the way sessions are made, not the callbacks. *)
HasCallbacks(p) == p = Main

(* _on_err posted by the user thread; it holds a weak reference to the socket. *)
RunErr(p) ==
  /\ Idle(p) /\ queue[p] # <<>> /\ Head(queue[p])[1] = "err"
  /\ queue' = [queue EXCEPT ![p] = Tail(@)]
  /\ LET c == Head(queue[p])[2] IN
       IF c \in Mapped(sessions) \/ user[2] = c
       THEN OnErr(p, c)
       ELSE UNCHANGED <<errors, sessions, fd, watched>>
  /\ UNCHANGED <<owner, accepting, completed, key, managing, todo, user, server, held,
                 inside, ruined>>

(* The manager timer: it visits every session of the map. *)
Manage(p) ==
  /\ Idle(p) /\ p \in server
  /\ managing' = managing \cup {p}
  /\ todo' = [todo EXCEPT ![p] = sessions[p]]
  /\ UNCHANGED <<owner, queue, accepting, completed, sessions, key, fd, watched, errors,
                 user, server, held,
                 inside, ruined>>

(* onManager of one session; it may shut itself down, and then the erasure is
   posted because the map is being walked. *)
Visit(p, c) ==
  /\ p \in managing /\ c \in todo[p]
  /\ todo' = [todo EXCEPT ![p] = @ \ {c}]
  /\ \/ UNCHANGED <<queue, fd, watched, errors, sessions>>
     \/ /\ c \in fd
        /\ fd' = fd \ {c} /\ watched' = watched \ {c}
        /\ errors' = [errors EXCEPT ![c] = @ + 1]
        /\ Post(p, <<"erase", key[c]>>)
        /\ UNCHANGED sessions
  /\ UNCHANGED <<owner, accepting, completed, key, managing, user, server, held,
                 inside, ruined>>

ManageEnds(p) ==
  /\ p \in managing /\ todo[p] = {}
  /\ managing' = managing \ {p}
  /\ Destroy(queue, held, managing', sessions)
  /\ fd' = Kept(fd, sessions', completed, user) /\ watched' = watched \cap fd'
  /\ UNCHANGED <<owner, queue, accepting, completed, key, todo, user, held, inside, ruined>>

RunErase(p) ==
  /\ Idle(p) /\ queue[p] # <<>> /\ Head(queue[p])[1] = "erase"
  /\ queue' = [queue EXCEPT ![p] = Tail(@)]
  /\ Erase(p, Head(queue[p])[2], fd)
  /\ UNCHANGED <<owner, accepting, completed, key, managing, todo, errors, user, server, held,
                 inside, ruined>>

-----------------------------------------------------------------------------
(* The user thread: SessionMap::get and shutdown, whose emitErr looks at the
   descriptor first and closes it later. *)
Lookup(c) ==
  /\ user[1] = "idle" /\ c \in Mapped(sessions) /\ c \in fd
  /\ user' = <<"seen", c>>
  /\ UNCHANGED <<owner, queue, accepting, completed, sessions, key, fd, watched, managing,
                 todo, errors, server, held,
                 inside, ruined>>

CloseSock ==
  /\ user[1] = "seen"
  /\ user' = <<"closed", user[2]>>
  /\ fd' = fd \ {user[2]} /\ watched' = watched \ {user[2]}
  /\ Post(owner[user[2]], <<"err", user[2]>>)
  /\ UNCHANGED <<owner, accepting, completed, sessions, key, managing, todo, errors, server, held,
                 inside, ruined>>

Forget ==
  /\ user[1] = "closed"
  /\ user' = <<"idle", 0>>
  /\ UNCHANGED <<owner, queue, accepting, completed, sessions, key, fd, watched, managing,
                 todo, errors, server, held,
                 inside, ruined>>

(* The user gives the server up, whatever the loops are doing. *)
DropServer ==
  /\ held /\ user[1] = "idle"
  /\ held' = FALSE
  /\ Destroy(queue, FALSE, managing, sessions)
  /\ fd' = Kept(fd, sessions', completed, user) /\ watched' = watched \cap fd'
  /\ UNCHANGED <<owner, queue, accepting, completed, key, managing, todo, user, inside,
                 ruined>>

RunClosure(p) == RunAccept(p) \/ RunErr(p) \/ RunErase(p)

Next ==
  \/ \E p \in Poller, c \in Conn : Accept(p, c) \/ PeerError(p, c) \/ Visit(p, c)
  \/ \E p \in Poller : AcceptEvent(p) \/ AcceptReturns(p) \/ AcceptAlone(p)
  \/ \E p \in Poller : AcceptEnds(p) \/ RunClosure(p) \/ Manage(p) \/ ManageEnds(p)
  \/ \E c \in Conn : Lookup(c)
  \/ CloseSock \/ Forget \/ DropServer

(* A loop finishes what it is doing and comes back to what is posted between its
   timers and its connections; a call of the user thread ends. *)
Fairness ==
  /\ \A p \in Poller : /\ WF_vars(AcceptReturns(p))
                       /\ WF_vars(AcceptEnds(p)) /\ SF_vars(RunClosure(p))
                       /\ WF_vars(ManageEnds(p)) /\ WF_vars(\E c \in Conn : Visit(p, c))
  /\ WF_vars(CloseSock) /\ WF_vars(Forget)

Spec == Init /\ [][Next]_vars /\ Fairness

-----------------------------------------------------------------------------
(* A socket is attached to its poller, and can be read, only once its session
   and the callbacks exist. *)
SessionFirst == \A c \in watched : key[c] # NoAddress

(* A session is in the map of the server of its socket's poller and in no other,
   so that only that thread ever touches it; no two helpers share an address. *)
OwnMap ==
  /\ \A p \in Poller : \A c \in sessions[p] : owner[c] = p
  /\ \A c, d \in Mapped(sessions) : key[c] = key[d] => c = d

(* A loop of onManagerSession never meets a session that was erased under it. *)
WalkIntact == \A p \in managing : todo[p] \subseteq sessions[p]

(* OCTCommu.h: the function set with setOnReadFunc receives the data.  A session
   that can be read must have it. *)
DataHeard == \A c \in watched : HasCallbacks(owner[c])

(* A session that is no longer in a map was told of an error.  The exception is
   a session whose helper got the address of one that reported twice; and all of
   it is until an accept callback has used a server that was no more. *)
LeavesTold ==
  \A c \in Conn :
    (key[c] # NoAddress /\ c \notin Mapped(sessions)) =>
       \/ errors[c] > 0
       \/ \E d \in Conn : errors[d] > 1 /\ key[d] = key[c]
ToldOrStray == ~ruined => LeavesTold

(* TcpServer.cpp, onAcceptConnection: the session's onError runs before it is removed. *)
ToldFirst ==
  \A c \in Conn : (key[c] # NoAddress /\ c \notin Mapped(sessions)) => errors[c] > 0

(* A clone outlives the main server only by a closure or a manager run. *)
OrphansBusy ==
  Main \notin server =>
    \A p \in server : \/ p \in managing
                      \/ \E i \in 1 .. Len(queue[p]) : queue[p][i][1] = "accept"

(* While the user holds the server it is there with all its clones, and so no
   accept callback uses one that is not. *)
WholeWhileHeld == held => server = Poller /\ ~ruined

(* What the server's code relies on without a lock: callbacks before events, maps
   that only their own poller touches, and no erasure under a walk.  That holds
   while the user holds the server, and when it was given up, until an accept
   callback uses a server that is no more. *)
LoopsSafe == SessionFirst /\ OwnMap /\ WalkIntact /\ OrphansBusy
TcpSessionsSafe == TypeOK /\ WholeWhileHeld /\ (~ruined => LoopsSafe)

(* A session whose socket was shut down leaves its map. *)
ShutLeaves ==
  \A c \in Conn :
    (c \in Mapped(sessions) /\ c \notin fd) ~> (c \notin Mapped(sessions) \/ ruined)

(* An accepted connection is attached, or it is shut down first. *)
AcceptedAttached ==
  \A c \in Conn : (owner[c] # NoPoller) ~> (c \in watched \/ c \notin fd \/ ruined)

(* When the server was given up all its sessions end and are told so, unless an
   accept callback uses it before it is all gone. *)
DropEndsAll == ~held ~> (server = {} /\ Mapped(sessions) = {}) \/ ruined

(* Nothing stays behind: shut sessions leave, accepted sockets are attached, and
   the server takes its sessions with it. *)
TcpSessionsEnd == ShutLeaves /\ AcceptedAttached /\ DropEndsAll

-----------------------------------------------------------------------------
(* Theorems, for any pollers and any number of connections and addresses.  *)
(* SessionsInv adds to the safety of the server what is posted and for     *)
(* whom, and how often a session can be told of an error.                  *)

Closure == {"accept", "err"} \X Conn \cup {"erase"} \X Address

\* Where a closure is posted, and that it is posted once.
Has(q, closure)  == \E i \in 1 .. Len(q) : q[i] = closure
Once(q, closure) == \A i, j \in 1 .. Len(q) : q[i] = closure /\ q[j] = closure => i = j

\* A connection that was not accepted has left no trace.
Fresh ==
  \A c \in Conn : owner[c] = NoPoller =>
    /\ key[c] = NoAddress /\ errors[c] = 0 /\ completed[c] = {}
    /\ c \notin fd /\ c \notin Mapped(sessions)

\* A session is made by the thread that accepts, or by one closure on its poller, whose server
\* waits for it.
Made ==
  /\ \A p \in Poller : accepting[p] # 0 => owner[accepting[p]] # NoPoller
  /\ \A c \in Conn : owner[c] # NoPoller /\ "closure" \notin completed[c] => key[c] # NoAddress
  /\ \A c \in Mapped(sessions) : key[c] # NoAddress
  /\ \A p \in Poller, c \in Conn : Has(queue[p], <<"accept", c>>) =>
       /\ owner[c] = p /\ key[c] = NoAddress /\ p \in server
       /\ Once(queue[p], <<"accept", c>>)

\* All the servers live while the main one does.  A map is that of a server that is there, and
\* a server that is walking its map is there.
Served ==
  /\ Main \in server => server = Poller
  /\ \A p \in Poller \ server : sessions[p] = {}
  /\ managing \subseteq server

\* One closure reports the shutdown of a session by the user thread.
Reported ==
  /\ user[1] = "idle" => user[2] = 0
  /\ user[1] # "idle" => user[2] \in Conn /\ key[user[2]] # NoAddress
  /\ \A p \in Poller, c \in Conn : Has(queue[p], <<"err", c>>) =>
       /\ owner[c] = p /\ key[c] # NoAddress /\ c \notin fd /\ user # <<"seen", c>>
       /\ Once(queue[p], <<"err", c>>)

\* An error of the connection, the user's shutdown and the end of the server tell a session
\* once each.
Pending(c) ==
  \/ c \in fd \/ user = <<"seen", c>>
  \/ \E p \in Poller : Has(queue[p], <<"err", c>>)
Ended(c) == c \notin Mapped(sessions) /\ key[c] # NoAddress
ToldThrice ==
  \A c \in Conn :
    errors[c] <= (IF c \in fd THEN 0 ELSE 1) + (IF Pending(c) THEN 0 ELSE 1)
                 + (IF Ended(c) THEN 1 ELSE 0)

\* A posted erasure finds the session that was told, or the address was used by one that was
\* told twice.
ToldTwice(a) == \E d \in Conn : key[d] = a /\ errors[d] > 1
Erased ==
  \A p \in server, a \in Address : Has(queue[p], <<"erase", a>>) =>
    \/ ToldTwice(a)
    \/ /\ \E c \in sessions[p] : key[c] = a /\ errors[c] > 0 /\ c \notin fd
       /\ Once(queue[p], <<"erase", a>>)

SessionsInv ==
  /\ TypeOK /\ LoopsSafe /\ LeavesTold /\ WholeWhileHeld
  /\ Fresh /\ Made /\ Served /\ Reported /\ ToldThrice /\ Erased

\* The end of a sequence of closures: what Append adds.
LEMMA HasAppend ==
  ASSUME NEW q \in Seq(Closure), NEW x \in Closure
  PROVE  /\ Append(q, x) \in Seq(Closure)
         /\ \A y : Has(Append(q, x), y) <=> Has(q, y) \/ y = x
         /\ \A y : Once(q, y) /\ (y = x => ~Has(q, x)) => Once(Append(q, x), y)
<1>1. /\ Append(q, x) \in Seq(Closure) /\ Len(Append(q, x)) = Len(q) + 1 /\ Len(q) \in Nat
      /\ \A i \in 1 .. Len(q) : Append(q, x)[i] = q[i]
      /\ Append(q, x)[Len(q) + 1] = x
  BY AppendProperties, LenProperties
<1> DEFINE r == Append(q, x)  n == Len(q)
<1>2. \A i : i \in 1 .. Len(r) <=> i \in 1 .. n \/ i = n + 1
  BY <1>1
<1>3. \A y : Has(r, y) <=> Has(q, y) \/ y = x
  <2> TAKE y
  <2>1. ASSUME Has(q, y) \/ y = x PROVE Has(r, y)
    BY <2>1, <1>1, <1>2 DEF Has
  <2>2. ASSUME Has(r, y) PROVE Has(q, y) \/ y = x
    BY <2>2, <1>1, <1>2 DEF Has
  <2> QED
    BY <2>1, <2>2
<1>4. ASSUME NEW y, Once(q, y), y = x => ~Has(q, x) PROVE Once(r, y)
  <2> SUFFICES ASSUME NEW i \in 1 .. Len(r), NEW j \in 1 .. Len(r), r[i] = y, r[j] = y
               PROVE  i = j
    BY DEF Once
  <2>1. CASE i \in 1 .. n /\ j \in 1 .. n
    BY <2>1, <1>1, <1>4 DEF Once
  <2>2. CASE i = n + 1 \/ j = n + 1
    BY <2>2, <1>1, <1>2, <1>4 DEF Has
  <2> QED
    BY <2>1, <2>2, <1>2
<1> QED
  BY <1>1, <1>3, <1>4

\* Its front: what Tail takes away.
LEMMA HasTail ==
  ASSUME NEW q \in Seq(Closure), q # <<>>
  PROVE  /\ Tail(q) \in Seq(Closure) /\ Head(q) \in Closure /\ Has(q, Head(q))
         /\ \A y : Has(q, y) <=> Has(Tail(q), y) \/ y = Head(q)
         /\ \A y : Once(q, y) => Once(Tail(q), y) /\ (y = Head(q) => ~Has(Tail(q), y))
<1>1. /\ Tail(q) \in Seq(Closure) /\ Head(q) \in Closure /\ Len(Tail(q)) = Len(q) - 1
      /\ Head(q) = q[1] /\ \A i \in 1 .. Len(Tail(q)) : Tail(q)[i] = q[i + 1]
      /\ Len(q) \in Nat /\ Len(q) # 0
  BY HeadTailProperties, LenProperties, EmptySeq
<1> DEFINE r == Tail(q)
<1>2. /\ 1 \in 1 .. Len(q)
      /\ \A i \in 1 .. Len(r) : i + 1 \in 1 .. Len(q) /\ i + 1 # 1
      /\ \A i \in 1 .. Len(q) : i # 1 => i - 1 \in 1 .. Len(r) /\ (i - 1) + 1 = i
      /\ \A i, j \in 1 .. Len(r) : i + 1 = j + 1 => i = j
  BY <1>1
<1>3. \A y : Has(q, y) <=> Has(r, y) \/ y = Head(q)
  <2> TAKE y
  <2>1. ASSUME Has(r, y) \/ y = Head(q) PROVE Has(q, y)
    BY <2>1, <1>1, <1>2 DEF Has
  <2>2. ASSUME Has(q, y), y # Head(q) PROVE Has(r, y)
    <3>1. PICK i \in 1 .. Len(q) : q[i] = y
      BY <2>2 DEF Has
    <3>2. i # 1
      BY <3>1, <2>2, <1>1
    <3>3. i - 1 \in 1 .. Len(r) /\ r[i - 1] = y
      BY <3>1, <3>2, <1>1, <1>2
    <3> QED
      BY <3>3 DEF Has
  <2> QED
    BY <2>1, <2>2
<1>4. ASSUME NEW y, Once(q, y) PROVE Once(r, y)
  BY <1>4, <1>1, <1>2 DEF Once
<1>5. ASSUME NEW y, Once(q, y), y = Head(q) PROVE ~Has(r, y)
  BY <1>5, <1>1, <1>2 DEF Once, Has
<1> QED
  BY <1>1, <1>3, <1>4, <1>5, <1>2 DEF Has

\* Closures that create sessions are found by their first component.
LEMMA HasAccept ==
  ASSUME NEW q \in Seq(Closure)
  PROVE  (\E i \in 1 .. Len(q) : q[i][1] = "accept")
           <=> \E c \in Conn : Has(q, <<"accept", c>>)
<1>1. \A i \in 1 .. Len(q) : q[i] \in Closure
  BY LenProperties
<1>2. \A x \in Closure : x[1] = "accept" => \E c \in Conn : x = <<"accept", c>>
  BY DEF Closure
<1> QED
  BY <1>1, <1>2 DEF Has

\* A closure x is added to the queue of p, or taken from its front; the rest stays.
Posted(p, x) ==
  /\ queue' \in [Poller -> Seq(Closure)]
  /\ \A r \in Poller : \A y : Has(queue'[r], y) <=> Has(queue[r], y) \/ (r = p /\ y = x)
  /\ \A r \in Poller : \A y :
       Once(queue[r], y) /\ (r = p /\ y = x => ~Has(queue[p], x)) => Once(queue'[r], y)
Taken(p, x) ==
  /\ queue' \in [Poller -> Seq(Closure)]
  /\ \A r \in Poller : \A y : Has(queue[r], y) <=> Has(queue'[r], y) \/ (r = p /\ y = x)
  /\ \A r \in Poller : \A y :
       Once(queue[r], y) => /\ Once(queue'[r], y)
                            /\ r = p /\ y = x => ~Has(queue'[r], y)

\* Post adds a closure.
LEMMA PostEffect ==
  ASSUME queue \in [Poller -> Seq(Closure)], NEW p \in Poller, NEW x \in Closure, Post(p, x)
  PROVE  Posted(p, x)
<1>1. /\ queue'[p] = Append(queue[p], x) /\ \A r \in Poller : r # p => queue'[r] = queue[r]
      /\ DOMAIN queue' = Poller /\ queue' = [r \in Poller |-> queue'[r]]
  BY DEF Post
<1>2. queue[p] \in Seq(Closure)
  OBVIOUS
<1>3. /\ queue'[p] \in Seq(Closure)
      /\ \A y : Has(queue'[p], y) <=> Has(queue[p], y) \/ y = x
      /\ \A y : Once(queue[p], y) /\ (y = x => ~Has(queue[p], x)) => Once(queue'[p], y)
  BY <1>1, <1>2, HasAppend
<1>4. queue' \in [Poller -> Seq(Closure)]
  BY <1>1, <1>3
<1>5. ASSUME NEW r \in Poller, NEW y
      PROVE  /\ Has(queue'[r], y) <=> Has(queue[r], y) \/ (r = p /\ y = x)
             /\ Once(queue[r], y) /\ (r = p /\ y = x => ~Has(queue[p], x))
                  => Once(queue'[r], y)
  <2>1. CASE r = p
    BY <2>1, <1>3
  <2>2. CASE r # p
    BY <2>2, <1>1
  <2> QED
    BY <2>1, <2>2
<1> QED
  BY <1>4, <1>5 DEF Posted

\* A poller takes its first closure.
LEMMA TakeEffect ==
  ASSUME queue \in [Poller -> Seq(Closure)], NEW p \in Poller, queue[p] # <<>>,
         queue' = [queue EXCEPT ![p] = Tail(@)]
  PROVE  /\ Head(queue[p]) \in Closure /\ Has(queue[p], Head(queue[p]))
         /\ Taken(p, Head(queue[p]))
<1>1. /\ queue'[p] = Tail(queue[p]) /\ \A r \in Poller : r # p => queue'[r] = queue[r]
      /\ DOMAIN queue' = Poller /\ queue' = [r \in Poller |-> queue'[r]]
  OBVIOUS
<1>2. queue[p] \in Seq(Closure)
  OBVIOUS
<1>3. /\ queue'[p] \in Seq(Closure) /\ Head(queue[p]) \in Closure
      /\ Has(queue[p], Head(queue[p]))
      /\ \A y : Has(queue[p], y) <=> Has(queue'[p], y) \/ y = Head(queue[p])
      /\ \A y : Once(queue[p], y) => /\ Once(queue'[p], y)
                                     /\ y = Head(queue[p]) => ~Has(queue'[p], y)
  BY <1>1, <1>2, HasTail
<1>4. queue' \in [Poller -> Seq(Closure)]
  BY <1>1, <1>3
<1>5. ASSUME NEW r \in Poller, NEW y
      PROVE  /\ Has(queue[r], y) <=> Has(queue'[r], y) \/ (r = p /\ y = Head(queue[p]))
             /\ Once(queue[r], y) => /\ Once(queue'[r], y)
                                     /\ r = p /\ y = Head(queue[p]) => ~Has(queue'[r], y)
  <2>1. CASE r = p
    BY <2>1, <1>3
  <2>2. CASE r # p
    BY <2>2, <1>1
  <2> QED
    BY <2>1, <2>2
<1> QED
  BY <1>3, <1>4, <1>5 DEF Taken

\* A server object that a closure or its manager needs stays; when the main one goes only such
\* clones stay.  Remain(q, mg) says it of the queues q and the managers mg after the step.
Busy(p, q, mg) == p \in mg \/ \E c \in Conn : Has(q[p], <<"accept", c>>)
Remain(q, mg) ==
  /\ server' \subseteq server /\ (Main \in server' => server' = server)
  /\ \A p \in Poller \cap server : Busy(p, q, mg) => p \in server'
  /\ Main \notin server' => \A p \in Poller \cap server' : Busy(p, q, mg)

\* Who was in a map that goes is told.
Clears(maps) ==
  /\ sessions' = [p \in Poller |-> IF p \in server' THEN maps[p] ELSE {}]
  /\ errors' = [c \in Conn |-> IF \E p \in server \ server' : c \in maps[p]
                               THEN errors[c] + 1 ELSE errors[c]]

\* What Destroy does to the servers and to the sessions.
LEMMA DestroyEffect ==
  ASSUME NEW q, NEW h, NEW mg, NEW maps, q \in [Poller -> Seq(Closure)],
         Destroy(q, h, mg, maps)
  PROVE  Remain(q, mg) /\ Clears(maps) /\ (h /\ Main \in server => server' = server)
<1> DEFINE busy(p) == p \in mg \/ \E i \in 1 .. Len(q[p]) : q[p][i][1] = "accept"
           main == Main \in server /\ (h \/ busy(Main))
<1>1. \A p \in Poller : busy(p) <=> Busy(p, q, mg)
  <2> TAKE p \in Poller
  <2>1. q[p] \in Seq(Closure)
    OBVIOUS
  <2> QED
    BY <2>1, HasAccept DEF Busy
<1>2. server' = {p \in server : main \/ (p # Main /\ busy(p))}
  BY DEF Destroy, Servers
<1> HIDE DEF busy
<1>3. Main \in Poller
  BY ServerAssumption
<1>4. server' \subseteq server /\ (Main \in server' => server' = server)
  BY <1>2
<1>5. \A p \in Poller \cap server : busy(p) => p \in server'
  BY <1>2
<1>6. Main \notin server' => \A p \in Poller \cap server' : busy(p)
  BY <1>2
<1>7. Clears(maps)
  BY DEF Destroy, Clears
<1>8. h /\ Main \in server => server' = server
  BY <1>2
<1> QED
  BY <1>1, <1>4, <1>5, <1>6, <1>7, <1>8 DEF Remain

\* Told(maps): the step takes whole maps away, and tells those in them once.
Told(maps) ==
  /\ \A p \in Poller : sessions'[p] \subseteq maps[p]
                             /\ (p \in server' => sessions'[p] = maps[p])
  /\ \A p \in Poller \ server' : sessions'[p] = {}
  /\ \A c \in Conn :
       IF c \in Mapped(maps) \ Mapped(sessions') THEN errors'[c] = errors[c] + 1
       ELSE errors'[c] = errors[c]

\* Where every session is in the map of the poller it lives on, and absent servers have none,
\* it is told once.
LEMMA DestroyTells ==
  ASSUME NEW own, NEW maps, maps \in [Poller -> SUBSET Conn], errors \in [Conn -> Nat],
         server' \subseteq server, server \subseteq Poller,
         Clears(maps),
         \A p \in Poller : \A c \in maps[p] : own[c] = p,
         \A p \in Poller \ server : maps[p] = {}
  PROVE  /\ Told(maps) /\ sessions' \in [Poller -> SUBSET Conn] /\ errors' \in [Conn -> Nat]
<1> USE DEF Clears
<1>1. sessions' \in [Poller -> SUBSET Conn] /\ errors' \in [Conn -> Nat]
  OBVIOUS
<1>2. /\ \A p \in Poller : sessions'[p] \subseteq maps[p]
                             /\ (p \in server' => sessions'[p] = maps[p])
      /\ \A p \in Poller \ server' : sessions'[p] = {}
  OBVIOUS
<1>3. \A c \in Conn : c \in Mapped(maps) \ Mapped(sessions')
                        <=> \E p \in server \ server' : c \in maps[p]
  BY DEF Mapped
<1> QED
  BY <1>1, <1>2, <1>3 DEF Told

\* The closure that creates the session of c, with its helper at a.
AcceptRuns(p, c, a) ==
  /\ Has(queue[p], <<"accept", c>>) /\ Taken(p, <<"accept", c>>)
  /\ a \notin {key[d] : d \in Mapped(sessions)} /\ key' = [key EXCEPT ![c] = a]
  /\ Told([sessions EXCEPT ![p] = @ \cup {c}]) /\ Remain(queue', managing)
  /\ sessions' \in [Poller -> SUBSET Conn] /\ errors' \in [Conn -> Nat]
  /\ completed' = [completed EXCEPT ![c] = @ \ {"closure"}]
  /\ fd' \subseteq fd /\ watched' \subseteq (watched \cup {c}) \cap fd'
  /\ p \notin managing /\ (held => server' = server)
  /\ UNCHANGED <<owner, accepting, managing, todo, user, held, inside, ruined>>

\* The session leaves the map at p that has the key a.
Leaves(p, a) ==
  /\ sessions' \in [Poller -> SUBSET Conn]
  /\ \A r \in Poller : sessions'[r] \subseteq sessions[r] /\ (r # p => sessions'[r] = sessions[r])
  /\ \A c \in sessions[p] : c \notin sessions'[p] <=> p \in server /\ key[c] = a

\* Erase, in these terms.
LEMMA EraseLeaves ==
  ASSUME sessions \in [Poller -> SUBSET Conn], NEW p \in Poller, NEW a, NEW open,
         Erase(p, a, open)
  PROVE  Leaves(p, a) /\ fd' \subseteq open /\ watched' \subseteq watched \cap fd'
BY DEF Erase, Leaves, Kept

\* The error of c is reported on p, and its key erased.
Reports(p, c) ==
  /\ errors' = [errors EXCEPT ![c] = @ + 1]
  /\ Leaves(p, key[c])
  /\ fd' \subseteq fd \ {c} /\ watched' \subseteq watched \cap fd'
  /\ p \notin managing
  /\ UNCHANGED <<owner, accepting, completed, key, managing, todo, user,
                 server, held, inside, ruined>>

\* A connection that breaks reports it.
LEMMA PeerErrorReports ==
  ASSUME TypeOK, NEW p \in Poller, NEW c \in Conn, PeerError(p, c)
  PROVE  Reports(p, c) /\ owner[c] = p /\ c \in watched /\ queue' = queue
BY EraseLeaves DEF PeerError, OnErr, Reports, TypeOK, Idle

\* The closure of an error reports it, or has lost the session.
LEMMA RunErrReports ==
  ASSUME TypeOK, NEW p \in Poller, RunErr(p)
  PROVE  \E c \in Conn :
           /\ Has(queue[p], <<"err", c>>) /\ Taken(p, <<"err", c>>)
           /\ \/ Reports(p, c)
              \/ UNCHANGED <<owner, accepting, completed, sessions, key, fd, watched, managing,
                             todo, errors, user, server, held, inside, ruined>>
<1> DEFINE x == Head(queue[p])
<1>1. queue \in [Poller -> Seq(Closure)]
  BY DEF TypeOK, Closure
<1>2. x \in Closure /\ Has(queue[p], x) /\ Taken(p, x)
  BY <1>1, TakeEffect DEF RunErr
<1>3. x[1] = "err"
  BY DEF RunErr
<1>4. PICK c \in Conn : x = <<"err", c>>
  BY <1>2, <1>3 DEF Closure
<1>5. x[2] = c
  BY <1>4
<1>6. CASE OnErr(p, c)
  <2>1. Reports(p, c)
    BY <1>6, EraseLeaves DEF RunErr, OnErr, Reports, TypeOK, Idle
  <2> QED
    BY <2>1, <1>2, <1>4
<1>7. CASE ~OnErr(p, c)
  <2>1. UNCHANGED <<owner, accepting, completed, sessions, key, fd, watched, managing, todo,
                    errors, user, server, held, inside, ruined>>
    BY <1>5, <1>7 DEF RunErr
  <2> QED
    BY <2>1, <1>2, <1>4
<1> QED
  BY <1>6, <1>7

\* An erasure that was posted is made.
ErasesPosted(p, a) ==
  /\ Has(queue[p], <<"erase", a>>) /\ Taken(p, <<"erase", a>>)
  /\ Leaves(p, a) /\ fd' \subseteq fd /\ watched' \subseteq watched \cap fd'
  /\ p \notin managing
  /\ UNCHANGED <<owner, accepting, completed, key, managing, todo, errors, user,
                 server, held, inside, ruined>>

\* A poller runs such a closure.
LEMMA RunEraseLeaves ==
  ASSUME TypeOK, NEW p \in Poller, RunErase(p)
  PROVE  \E a \in Address : ErasesPosted(p, a)
<1> DEFINE x == Head(queue[p])
<1>1. queue \in [Poller -> Seq(Closure)]
  BY DEF TypeOK, Closure
<1>2. x \in Closure /\ Has(queue[p], x) /\ Taken(p, x)
  BY <1>1, TakeEffect DEF RunErase
<1>3. x[1] = "erase"
  BY DEF RunErase
<1>4. PICK a \in Address : x = <<"erase", a>>
  BY <1>2, <1>3 DEF Closure
<1>5. x[2] = a
  BY <1>4
<1>6. Leaves(p, a) /\ fd' \subseteq fd /\ watched' \subseteq watched \cap fd'
  BY <1>5, EraseLeaves DEF RunErase, TypeOK
<1> QED
  BY <1>2, <1>4, <1>6 DEF RunErase, Idle, ErasesPosted

\* A closure that accepts.
LEMMA RunAcceptEffect ==
  ASSUME SessionsInv, NEW p \in Poller, RunAccept(p)
  PROVE  \E c \in Conn, a \in Address : AcceptRuns(p, c, a)
<1> DEFINE x == Head(queue[p])
<1> USE DEF SessionsInv, LoopsSafe
<1>1. queue \in [Poller -> Seq(Closure)]
  BY DEF TypeOK, Closure
<1>2. x \in Closure /\ Has(queue[p], x) /\ Taken(p, x)
  BY <1>1, TakeEffect DEF RunAccept
<1>3. x[1] = "accept"
  BY DEF RunAccept
<1>4. PICK c \in Conn : x = <<"accept", c>>
  BY <1>2, <1>3 DEF Closure
<1>5. x[2] = c
  BY <1>4
<1>6. PICK maps : maps = [sessions EXCEPT ![p] = @ \cup {c}]
  OBVIOUS
<1>7. PICK q : q = queue'
  OBVIOUS
<1>8. PICK mg : mg = managing
  OBVIOUS
<1>9. PICK own : own = owner
  OBVIOUS
<1>10. PICK h : h = held
  OBVIOUS
<1>11. Destroy(q, h, mg, maps)
  BY <1>5, <1>6, <1>7, <1>8, <1>10 DEF RunAccept
<1>12. q \in [Poller -> Seq(Closure)] /\ maps \in [Poller -> SUBSET Conn]
  BY <1>2, <1>6, <1>7 DEF Taken, TypeOK
<1>13. PICK a \in Address : /\ a \notin {key[d] : d \in Mapped(sessions)}
                            /\ key' = [key EXCEPT ![c] = a]
  BY <1>5 DEF RunAccept, OnAcceptConnection
<1>14. owner[c] = p /\ p \in server
  BY <1>2, <1>4 DEF Made
<1>15. /\ \A r \in Poller : \A d \in maps[r] : own[d] = r
       /\ \A r \in Poller \ server : maps[r] = {}
  BY <1>6, <1>9, <1>14 DEF OwnMap, Served, TypeOK
<1>16. Remain(q, mg) /\ Clears(maps) /\ (h /\ Main \in server => server' = server)
  BY <1>11, <1>12, DestroyEffect
<1>24. held => server' = server
  BY <1>10, <1>16, ServerAssumption DEF WholeWhileHeld
<1>17. server \subseteq Poller /\ errors \in [Conn -> Nat]
  <2>1. server \subseteq Poller /\ errors \in [Conn -> 0 .. 3] /\ 0 .. 3 \subseteq Nat
    BY DEF TypeOK
  <2> QED
    BY ONLY <2>1
<1>18. server' \subseteq server
  BY <1>16 DEF Remain
<1>19. /\ Told(maps) /\ sessions' \in [Poller -> SUBSET Conn] /\ errors' \in [Conn -> Nat]
  BY <1>12, <1>15, <1>16, <1>17, <1>18, DestroyTells
<1>20. Remain(queue', managing)
  BY <1>7, <1>8, <1>16
<1>21. /\ completed' = [completed EXCEPT ![c] = @ \ {"closure"}]
       /\ fd' \subseteq fd /\ watched' \subseteq (watched \cup {c}) \cap fd'
  BY <1>5 DEF RunAccept, Release, Kept
<1>22. Told([sessions EXCEPT ![p] = @ \cup {c}])
  BY <1>6, <1>19
<1>23. AcceptRuns(p, c, a)
  BY <1>2, <1>4, <1>13, <1>19, <1>20, <1>21, <1>22, <1>24 DEF AcceptRuns, RunAccept, Idle
<1> QED
  BY <1>23

\* Where a server object may go, in the end of a manager or when the user gives it up.
LEMMA DestroyStep ==
  ASSUME SessionsInv, NEW h, NEW mg, mg \subseteq managing, UNCHANGED queue,
         Destroy(queue, h, mg, sessions)
  PROVE  /\ Told(sessions) /\ Remain(queue', mg)
         /\ sessions' \in [Poller -> SUBSET Conn] /\ errors' \in [Conn -> Nat]
         /\ held /\ h => server' = server
<1> USE DEF SessionsInv, LoopsSafe
<1>1. PICK maps : maps = sessions
  OBVIOUS
<1>2. PICK q : q = queue
  OBVIOUS
<1>3. PICK own : own = owner
  OBVIOUS
<1>4. Destroy(q, h, mg, maps)
  BY <1>1, <1>2
<1>5. q \in [Poller -> Seq(Closure)] /\ maps \in [Poller -> SUBSET Conn]
  BY <1>1, <1>2 DEF TypeOK, Closure
<1>6. /\ \A r \in Poller : \A d \in maps[r] : own[d] = r
      /\ \A r \in Poller \ server : maps[r] = {}
  BY <1>1, <1>3 DEF OwnMap, Served
<1>7. Remain(q, mg) /\ Clears(maps) /\ (h /\ Main \in server => server' = server)
  BY <1>4, <1>5, DestroyEffect
<1>12. held /\ h => server' = server
  BY <1>7, ServerAssumption DEF WholeWhileHeld
<1>8. server \subseteq Poller /\ errors \in [Conn -> Nat]
  <2>1. server \subseteq Poller /\ errors \in [Conn -> 0 .. 3] /\ 0 .. 3 \subseteq Nat
    BY DEF TypeOK
  <2> QED
    BY ONLY <2>1
<1>9. server' \subseteq server
  BY <1>7 DEF Remain
<1>10. /\ Told(maps) /\ sessions' \in [Poller -> SUBSET Conn] /\ errors' \in [Conn -> Nat]
  BY <1>5, <1>6, <1>7, <1>8, <1>9, DestroyTells
<1>11. Remain(queue', mg)
  BY <1>2, <1>7
<1> QED
  BY <1>1, <1>10, <1>11, <1>12

\* The acceptance of a connection: its session is made at once, or posted to q.
Accepts(p, c) ==
  /\ owner[c] = NoPoller /\ server = Poller /\ p \notin managing
  /\ fd' = fd \cup {c} /\ accepting' = [accepting EXCEPT ![p] = c]
  /\ UNCHANGED <<watched, managing, todo, errors, user, server, held, inside, ruined>>
AcceptsHere(p, c, a) ==
  /\ Accepts(p, c) /\ queue' = queue
  /\ owner' = [owner EXCEPT ![c] = p]
  /\ a \notin {key[d] : d \in Mapped(sessions)} /\ key' = [key EXCEPT ![c] = a]
  /\ sessions' = [sessions EXCEPT ![p] = @ \cup {c}]
  /\ completed' = [completed EXCEPT ![c] = {"loop"}]
AcceptsThere(p, c, q) ==
  /\ Accepts(p, c) /\ Posted(q, <<"accept", c>>)
  /\ owner' = [owner EXCEPT ![c] = q]
  /\ completed' = [completed EXCEPT ![c] = {"loop", "closure"}]
  /\ UNCHANGED <<sessions, key>>

\* Either way is what onAccept does.
LEMMA AcceptEffect ==
  ASSUME SessionsInv, NEW p \in Poller, NEW c \in Conn, Accept(p, c)
  PROVE  (\E a \in Address : AcceptsHere(p, c, a)) \/ (\E q \in Poller : AcceptsThere(p, c, q))
<1>1. queue \in [Poller -> Seq(Closure)]
  BY DEF SessionsInv, LoopsSafe, TypeOK, Closure
<1>2. <<"accept", c>> \in Closure
  BY DEF Closure
<1>3. \A q \in Poller : Post(q, <<"accept", c>>) => Posted(q, <<"accept", c>>)
  BY <1>1, <1>2, PostEffect
<1>4. Accepts(p, c)
  BY DEF Accept, Accepts, SessionsInv, Served, ServerThere, TypeOK
<1>5. PICK q \in Poller :
        /\ owner' = [owner EXCEPT ![c] = q]
        /\ \/ /\ q = p
              /\ OnAcceptConnection(c)
              /\ sessions' = [sessions EXCEPT ![p] = @ \cup {c}]
              /\ completed' = [completed EXCEPT ![c] = {"loop"}]
              /\ UNCHANGED queue
           \/ /\ Post(q, <<"accept", c>>)
              /\ completed' = [completed EXCEPT ![c] = {"loop", "closure"}]
              /\ UNCHANGED <<sessions, key>>
  BY DEF Accept
<1>6. CASE Post(q, <<"accept", c>>)
  <2>1. AcceptsThere(p, c, q) \/ \E a \in Address : AcceptsHere(p, c, a)
    BY <1>3, <1>4, <1>5, <1>6 DEF AcceptsThere, AcceptsHere, OnAcceptConnection
  <2> QED
    BY <2>1
<1>7. CASE ~Post(q, <<"accept", c>>)
  BY <1>4, <1>5, <1>7 DEF AcceptsHere, OnAcceptConnection
<1> QED
  BY <1>6, <1>7

\* The end of a manager, and the user's end: server objects go, with their sessions.
ServersGo ==
  /\ Told(sessions) /\ Remain(queue', managing')
  /\ sessions' \in [Poller -> SUBSET Conn] /\ errors' \in [Conn -> Nat]
  /\ fd' \subseteq fd /\ watched' \subseteq watched \cap fd'
  /\ managing' \subseteq managing /\ held' \in BOOLEAN
  /\ held' => held /\ server' = server
  /\ UNCHANGED <<owner, queue, accepting, completed, key, todo, user, inside, ruined>>

\* A session shuts itself down in onManager.
ShutsItself(p, c) ==
  /\ p \in managing /\ c \in todo[p] /\ c \in fd
  /\ todo' = [todo EXCEPT ![p] = @ \ {c}]
  /\ fd' = fd \ {c} /\ watched' = watched \ {c}
  /\ errors' = [errors EXCEPT ![c] = @ + 1]
  /\ Posted(p, <<"erase", key[c]>>)
  /\ UNCHANGED <<owner, accepting, completed, sessions, key, managing, user,
                 server, held, inside, ruined>>

\* The user closes a socket and posts its error.
Closes ==
  /\ user[1] = "seen" /\ user' = <<"closed", user[2]>>
  /\ fd' = fd \ {user[2]} /\ watched' = watched \ {user[2]}
  /\ Posted(owner[user[2]], <<"err", user[2]>>)
  /\ UNCHANGED <<owner, accepting, completed, sessions, key, managing, todo, errors,
                 server, held, inside, ruined>>

\* A closure at the front of p finds its session gone.
Vain(p, c) ==
  /\ Has(queue[p], <<"err", c>>) /\ Taken(p, <<"err", c>>)
  /\ UNCHANGED <<owner, accepting, completed, sessions, key, fd, watched, managing, todo,
                 errors, user, server, held, inside, ruined>>

\* The manager passes by a session.
Passes(p, c) ==
  /\ p \in managing /\ todo' = [todo EXCEPT ![p] = @ \ {c}]
  /\ UNCHANGED <<owner, queue, accepting, completed, sessions, key, fd, watched, managing,
                 errors, user, server, held, inside, ruined>>

\* A poller comes to its listening socket, is done with it, or accepts on it when its server is
\* no more.
AcceptMoves ==
  /\ inside' \subseteq Poller /\ inside' \cap managing = {}
  /\ ruined' \in BOOLEAN /\ (ruined' => ruined \/ ~held)
  /\ UNCHANGED <<owner, queue, accepting, completed, sessions, key, fd, watched, managing,
                 todo, errors, user, server, held>>

\* Handlers that leave sessions, keys, errors and servers alone.
Quiet ==
  \/ AcceptMoves
  \/ \E p \in Poller : AcceptEnds(p) \/ Manage(p) \/ \E c \in Conn : Vain(p, c)
  \/ \E p \in Poller, c \in Conn : Passes(p, c)
  \/ \E c \in Conn : Lookup(c)
  \/ Closes \/ Forget \/ UNCHANGED vars

\* Every step is one of these.
SessionStep ==
  \/ \E p \in Poller, c \in Conn :
       \/ \E a \in Address : AcceptsHere(p, c, a)
       \/ \E q \in Poller : AcceptsThere(p, c, q)
       \/ \E a \in Address : AcceptRuns(p, c, a)
       \/ Reports(p, c) /\ owner[c] = p /\ c \in watched /\ queue' = queue
       \/ Reports(p, c) /\ Has(queue[p], <<"err", c>>) /\ Taken(p, <<"err", c>>)
       \/ ShutsItself(p, c)
  \/ ServersGo
  \/ \E p \in Poller, a \in Address : ErasesPosted(p, a)
  \/ Quiet

\* The actions of the server and of the user are such steps.
LEMMA StepsOfServer ==
  ASSUME SessionsInv, [Next]_vars PROVE SessionStep
<1> USE DEF SessionsInv, LoopsSafe
<1>1. queue \in [Poller -> Seq(Closure)]
  BY DEF TypeOK, Closure
<1>2. ASSUME NEW p \in Poller, NEW c \in Conn, Accept(p, c) PROVE SessionStep
  BY <1>2, AcceptEffect DEF SessionStep
<1>3. ASSUME NEW p \in Poller, NEW c \in Conn, PeerError(p, c) PROVE SessionStep
  BY <1>3, PeerErrorReports DEF SessionStep
<1>4. ASSUME NEW p \in Poller, NEW c \in Conn, Visit(p, c) PROVE SessionStep
  <2>1. CASE c \in fd /\ Post(p, <<"erase", key[c]>>)
    <3>1. c \in sessions[p]
      BY <1>4 DEF Visit, WalkIntact
    <3>2. key[c] \in Address
      BY <3>1 DEF Made, Mapped, TypeOK
    <3>3. <<"erase", key[c]>> \in Closure
      BY <3>2 DEF Closure
    <3>4. Posted(p, <<"erase", key[c]>>)
      BY <1>1, <2>1, <3>3, PostEffect
    <3>5. UNCHANGED <<queue, fd, watched, errors, sessions>> \/ ShutsItself(p, c)
      BY <1>4, <2>1, <3>4 DEF Visit, ShutsItself
    <3>6. CASE ShutsItself(p, c)
      BY <3>6 DEF SessionStep
    <3>7. CASE UNCHANGED <<queue, fd, watched, errors, sessions>>
      BY <1>4, <3>7 DEF Visit, Passes, Quiet, SessionStep
    <3> QED
      BY <3>5, <3>6, <3>7
  <2>2. CASE ~(c \in fd /\ Post(p, <<"erase", key[c]>>))
    BY <1>4, <2>2 DEF Visit, Passes, Quiet, SessionStep
  <2> QED
    BY <2>1, <2>2
<1>5. ASSUME NEW p \in Poller, RunAccept(p) PROVE SessionStep
  BY <1>5, RunAcceptEffect DEF SessionStep
<1>6. ASSUME NEW p \in Poller, RunErr(p) PROVE SessionStep
  BY <1>6, RunErrReports DEF Vain, Quiet, SessionStep
<1>7. ASSUME NEW p \in Poller, RunErase(p) PROVE SessionStep
  BY <1>7, RunEraseLeaves DEF SessionStep
<1>8. ASSUME NEW p \in Poller, ManageEnds(p) PROVE SessionStep
  <2>1. PICK mg : mg = managing \ {p}
    OBVIOUS
  <2>2. PICK h : h = held
    OBVIOUS
  <2>3. Destroy(queue, h, mg, sessions) /\ UNCHANGED queue /\ mg \subseteq managing
    BY <1>8, <2>1, <2>2 DEF ManageEnds
  <2>4. /\ Told(sessions) /\ Remain(queue', mg)
        /\ sessions' \in [Poller -> SUBSET Conn] /\ errors' \in [Conn -> Nat]
        /\ held /\ h => server' = server
    BY <2>3, DestroyStep
  <2>5. Remain(queue', managing')
    BY <1>8, <2>1, <2>4 DEF ManageEnds
  <2>6. ServersGo
    BY <1>8, <2>2, <2>4, <2>5 DEF ManageEnds, ServersGo, Kept, TypeOK
  <2> QED
    BY <2>6 DEF SessionStep
<1>9. ASSUME DropServer PROVE SessionStep
  <2>1. PICK mg : mg = managing
    OBVIOUS
  <2>2. PICK h : h = FALSE
    OBVIOUS
  <2>3. Destroy(queue, h, mg, sessions) /\ UNCHANGED queue /\ mg \subseteq managing
    BY <1>9, <2>1, <2>2 DEF DropServer
  <2>4. /\ Told(sessions) /\ Remain(queue', mg)
        /\ sessions' \in [Poller -> SUBSET Conn] /\ errors' \in [Conn -> Nat]
        /\ held /\ h => server' = server
    BY <2>3, DestroyStep
  <2>5. Remain(queue', managing')
    BY <1>9, <2>1, <2>4 DEF DropServer
  <2>6. ServersGo
    BY <1>9, <2>4, <2>5 DEF DropServer, ServersGo, Kept
  <2> QED
    BY <2>6 DEF SessionStep
<1>10. ASSUME CloseSock PROVE SessionStep
  <2>1. /\ user[2] \in Conn /\ owner[user[2]] \in Poller
    BY <1>10 DEF CloseSock, Reported, Fresh, TypeOK
  <2>2. <<"err", user[2]>> \in Closure
    BY <2>1 DEF Closure
  <2>3. Posted(owner[user[2]], <<"err", user[2]>>)
    BY <1>1, <1>10, <2>1, <2>2, PostEffect DEF CloseSock
  <2> QED
    BY <1>10, <2>3 DEF CloseSock, Closes, Quiet, SessionStep
<1>11. ASSUME NEW p \in Poller, AcceptEvent(p) \/ AcceptReturns(p) \/ AcceptAlone(p)
       PROVE  SessionStep
  <2>1. inside \subseteq Poller /\ inside \cap managing = {} /\ ruined \in BOOLEAN
    BY DEF TypeOK
  <2>2. AcceptEvent(p) => AcceptMoves
    BY <2>1 DEF AcceptEvent, AcceptMoves, Idle
  <2>3. AcceptReturns(p) => AcceptMoves
    BY <2>1 DEF AcceptReturns, AcceptMoves
  <2>4. AcceptAlone(p) => AcceptMoves
    <3>1. held => ServerThere(p)
      BY ServerAssumption DEF WholeWhileHeld, ServerThere
    <3> QED
      BY <2>1, <3>1 DEF AcceptAlone, AcceptMoves
  <2> QED
    BY <1>11, <2>2, <2>3, <2>4 DEF Quiet, SessionStep
<1> QED
  BY <1>2, <1>3, <1>4, <1>5, <1>6, <1>7, <1>8, <1>9, <1>10, <1>11
     DEF Next, RunClosure, Quiet, SessionStep

\* A session that can still be told was told twice at most.
LEMMA ToldTwiceAtMost ==
  ASSUME SessionsInv, NEW c \in Conn
  PROVE  /\ errors[c] \in Nat
         /\ Pending(c) \/ ~Ended(c) => errors[c] + 1 \in 0 .. 3
         /\ owner[c] = NoPoller => errors[c] = 0
<1>1. errors[c] \in 0 .. 3
  BY DEF SessionsInv, LoopsSafe, TypeOK
<1>2. errors[c] <= (IF c \in fd THEN 0 ELSE 1) + (IF Pending(c) THEN 0 ELSE 1)
                   + (IF Ended(c) THEN 1 ELSE 0)
  BY DEF SessionsInv, ToldThrice
<1>3. owner[c] = NoPoller => errors[c] = 0
  BY DEF SessionsInv, Fresh
<1> QED
  BY <1>1, <1>2, <1>3

\* The types after a step; a session is never told a fourth time.
LEMMA TypeStep == SessionsInv /\ SessionStep => TypeOK'
<1> SUFFICES ASSUME SessionsInv, SessionStep PROVE TypeOK'
  OBVIOUS
<1>t. TypeOK
  BY DEF SessionsInv, LoopsSafe
<1>q. /\ queue \in [Poller -> Seq(Closure)]
      /\ queue' \in [Poller -> Seq(Closure)] =>
           queue' \in [Poller -> Seq({"accept", "err"} \X Conn \cup {"erase"} \X Address)]
  BY <1>t DEF TypeOK, Closure
<1>1. ASSUME NEW p \in Poller, NEW c \in Conn, Accepts(p, c),
             queue' \in [Poller -> Seq(Closure)], owner' \in [Conn -> Poller \cup {NoPoller}],
             sessions' \in [Poller -> SUBSET Conn],
             key' \in [Conn -> Address \cup {NoAddress}],
             completed' \in [Conn -> SUBSET {"loop", "closure"}]
      PROVE  TypeOK'
  <2>1. accepting' \in [Poller -> 0 .. MaxConn]
    <3>1. c \in 0 .. MaxConn
      BY ServerAssumption DEF Conn
    <3> QED
      BY <3>1, <1>1, <1>t DEF Accepts, TypeOK
  <2>2. fd' \subseteq Conn /\ watched' \subseteq fd'
    BY <1>1, <1>t DEF Accepts, TypeOK
  <2> QED
    BY <2>1, <2>2, <1>1, <1>t, <1>q DEF Accepts, TypeOK
<1>2. ASSUME NEW p \in Poller, NEW c \in Conn, NEW a \in Address, AcceptsHere(p, c, a)
      PROVE  TypeOK'
  BY <1>2, <1>1, <1>t, <1>q DEF AcceptsHere, TypeOK
<1>3. ASSUME NEW p \in Poller, NEW c \in Conn, NEW q \in Poller, AcceptsThere(p, c, q)
       PROVE  TypeOK'
  BY <1>3, <1>1, <1>t, <1>q DEF AcceptsThere, Posted, TypeOK
<1>4. ASSUME NEW p \in Poller, NEW c \in Conn, NEW a \in Address, AcceptRuns(p, c, a)
      PROVE  TypeOK'
  <2>1. queue' \in [Poller -> Seq(Closure)]
    BY <1>4 DEF AcceptRuns, Taken
  <2>2. errors' \in [Conn -> 0 .. 3]
    <3>1. ASSUME NEW d \in Conn PROVE errors'[d] \in 0 .. 3
      <4>1. d \in Mapped([sessions EXCEPT ![p] = @ \cup {c}]) => ~Ended(d)
        <5>1. key[c] = NoAddress
          BY <1>4 DEF AcceptRuns, SessionsInv, Made
        <5> QED
          BY <5>1, <1>t DEF Mapped, Ended, TypeOK
      <4>2. (errors'[d] = errors[d] + 1 /\ ~Ended(d)) \/ errors'[d] = errors[d]
        BY <1>4, <4>1 DEF AcceptRuns, Told
      <4> QED
        BY <4>2, ToldTwiceAtMost, <1>t DEF TypeOK
    <3> QED
      BY <3>1, <1>4 DEF AcceptRuns
  <2>3. /\ key' \in [Conn -> Address \cup {NoAddress}]
        /\ completed' \in [Conn -> SUBSET {"loop", "closure"}]
    BY <1>4, <1>t DEF AcceptRuns, TypeOK
  <2>4. fd' \subseteq Conn /\ watched' \subseteq fd' /\ server' \subseteq Poller
    BY <1>4, <1>t DEF AcceptRuns, Remain, TypeOK
  <2> QED
    BY <2>1, <2>2, <2>3, <2>4, <1>4, <1>t, <1>q DEF AcceptRuns, TypeOK
<1>5. ASSUME NEW p \in Poller, NEW c \in Conn, Reports(p, c),
             \/ c \in watched /\ queue' = queue
             \/ Has(queue[p], <<"err", c>>) /\ Taken(p, <<"err", c>>)
      PROVE  TypeOK'
  <2>1. queue' \in [Poller -> Seq(Closure)]
    BY <1>5, <1>q DEF Taken
  <2>2. Pending(c)
    BY <1>5, <1>t DEF Pending, TypeOK
  <2>3. errors' \in [Conn -> 0 .. 3]
    BY <2>2, <1>5, <1>t, ToldTwiceAtMost DEF Reports, TypeOK
  <2>4. fd' \subseteq Conn /\ watched' \subseteq fd' /\ sessions' \in [Poller -> SUBSET Conn]
    BY <1>5, <1>t DEF Reports, Leaves, TypeOK
  <2> QED
    BY <2>1, <2>3, <2>4, <1>5, <1>t, <1>q DEF Reports, TypeOK
<1>6. ASSUME NEW p \in Poller, NEW c \in Conn, ShutsItself(p, c) PROVE TypeOK'
  <2>1. queue' \in [Poller -> Seq(Closure)]
    BY <1>6 DEF ShutsItself, Posted
  <2>2. Pending(c)
    BY <1>6 DEF Pending, ShutsItself
  <2>3. errors' \in [Conn -> 0 .. 3]
    BY <2>2, <1>6, <1>t, ToldTwiceAtMost DEF ShutsItself, TypeOK
  <2>4. fd' \subseteq Conn /\ watched' \subseteq fd' /\ todo' \in [Poller -> SUBSET Conn]
    BY <1>6, <1>t DEF ShutsItself, TypeOK
  <2> QED
    BY <2>1, <2>3, <2>4, <1>6, <1>t, <1>q DEF ShutsItself, TypeOK
<1>7. ASSUME ServersGo PROVE TypeOK'
  <2>1. errors' \in [Conn -> 0 .. 3]
    <3>1. ASSUME NEW d \in Conn PROVE errors'[d] \in 0 .. 3
      <4>1. (errors'[d] = errors[d] + 1 /\ ~Ended(d)) \/ errors'[d] = errors[d]
        BY <1>7 DEF ServersGo, Told, Ended
      <4> QED
        BY <4>1, ToldTwiceAtMost, <1>t DEF TypeOK
    <3> QED
      BY <3>1, <1>7 DEF ServersGo
  <2>2. /\ fd' \subseteq Conn /\ watched' \subseteq fd' /\ server' \subseteq Poller
        /\ managing' \subseteq Poller
    BY <1>7, <1>t DEF ServersGo, Remain, TypeOK
  <2> QED
    BY <2>1, <2>2, <1>7, <1>t DEF ServersGo, TypeOK
<1>8. ASSUME NEW p \in Poller, NEW a \in Address, ErasesPosted(p, a) PROVE TypeOK'
  BY <1>8, <1>t, <1>q DEF ErasesPosted, Taken, Leaves, TypeOK
<1>9. ASSUME Quiet PROVE TypeOK'
  <2>1. ASSUME NEW p \in Poller, AcceptEnds(p) PROVE TypeOK'
    <3>1. accepting' \in [Poller -> 0 .. MaxConn]
      <4>1. 0 \in 0 .. MaxConn
        BY ServerAssumption
      <4> QED
        BY <4>1, <2>1, <1>t DEF AcceptEnds, TypeOK
    <3>2. /\ completed' \in [Conn -> SUBSET {"loop", "closure"}]
          /\ fd' \subseteq fd /\ watched' \subseteq fd'
      BY <2>1, <1>t DEF AcceptEnds, Release, Kept, TypeOK
    <3> QED
      BY <3>1, <3>2, <2>1, <1>t DEF AcceptEnds, TypeOK
  <2>2. ASSUME NEW p \in Poller, Manage(p) PROVE TypeOK'
    BY <2>2, <1>t DEF Manage, Idle, TypeOK
  <2>3. ASSUME NEW p \in Poller, NEW c \in Conn, Vain(p, c) PROVE TypeOK'
    BY <2>3, <1>t, <1>q DEF Vain, Taken, TypeOK
  <2>4. ASSUME NEW p \in Poller, NEW c \in Conn, Passes(p, c) PROVE TypeOK'
    BY <2>4, <1>t DEF Passes, TypeOK
  <2>5. ASSUME NEW c \in Conn, Lookup(c) PROVE TypeOK'
    <3>1. c \in 0 .. MaxConn
      BY ServerAssumption DEF Conn
    <3> QED
      BY <3>1, <2>5, <1>t DEF Lookup, TypeOK
  <2>6. ASSUME Closes PROVE TypeOK'
    <3>1. user[2] \in 0 .. MaxConn
      BY <1>t DEF TypeOK
    <3>2. user' \in {"idle", "seen", "closed"} \X (0 .. MaxConn)
      BY <3>1, <2>6 DEF Closes
    <3>3. queue' \in [Poller -> Seq(Closure)] /\ fd' \subseteq Conn /\ watched' \subseteq fd'
      BY <2>6, <1>t DEF Closes, Posted, TypeOK
    <3> QED
      BY <3>2, <3>3, <2>6, <1>t, <1>q DEF Closes, TypeOK
  <2>7. ASSUME Forget PROVE TypeOK'
    <3>1. 0 \in 0 .. MaxConn
      BY ServerAssumption
    <3> QED
      BY <3>1, <2>7, <1>t DEF Forget, TypeOK
  <2>8. ASSUME UNCHANGED vars PROVE TypeOK'
    BY <2>8, <1>t DEF vars, TypeOK
  <2>9. ASSUME AcceptMoves PROVE TypeOK'
    BY <2>9, <1>t DEF AcceptMoves, TypeOK
  <2> QED
    BY <1>9, <2>1, <2>2, <2>3, <2>4, <2>5, <2>6, <2>7, <2>8, <2>9 DEF Quiet
<1> QED
  BY <1>2, <1>3, <1>4, <1>5, <1>6, <1>7, <1>8, <1>9 DEF SessionStep

-----------------------------------------------------------------------------
(* Each part of SessionsInv after a step.                                  *)

\* A connection leaves its first trace when it is accepted.
LEMMA FreshStep == SessionsInv /\ SessionStep => Fresh'
<1> SUFFICES ASSUME SessionsInv, SessionStep PROVE Fresh'
  OBVIOUS
<1>t. TypeOK /\ NoPoller \notin Poller
  BY ServerAssumption DEF SessionsInv, LoopsSafe
<1>1. ASSUME NEW p \in Poller, NEW c \in Conn, NEW a \in Address, AcceptsHere(p, c, a)
      PROVE  Fresh'
  BY <1>1, <1>t DEF AcceptsHere, Accepts, SessionsInv, Fresh, Made, Reported, Mapped, TypeOK
<1>2. ASSUME NEW p \in Poller, NEW c \in Conn, NEW q \in Poller, AcceptsThere(p, c, q)
      PROVE  Fresh'
  BY <1>2, <1>t
     DEF AcceptsThere, Accepts, Posted, SessionsInv, Fresh, Made, Reported, Mapped, TypeOK
<1>3. ASSUME NEW p \in Poller, NEW c \in Conn, NEW a \in Address, AcceptRuns(p, c, a)
      PROVE  Fresh'
  BY <1>3, <1>t DEF AcceptRuns, Told, Taken, SessionsInv, Fresh, Made, Reported, Mapped, TypeOK
<1>4. ASSUME NEW p \in Poller, NEW c \in Conn, Reports(p, c), owner[c] = p, c \in watched,
             queue' = queue
      PROVE  Fresh'
  BY <1>4, <1>t DEF Reports, Leaves, SessionsInv, Fresh, Made, Reported, Mapped, TypeOK
<1>5. ASSUME NEW p \in Poller, NEW c \in Conn, Reports(p, c), Has(queue[p], <<"err", c>>),
             Taken(p, <<"err", c>>)
      PROVE  Fresh'
  BY <1>5, <1>t DEF Reports, Leaves, Taken, SessionsInv, Fresh, Made, Reported, Mapped, TypeOK
<1>6. ASSUME NEW p \in Poller, NEW c \in Conn, ShutsItself(p, c)
      PROVE  Fresh'
  BY <1>6, <1>t DEF ShutsItself, Posted, SessionsInv, Fresh, Made, Reported, Mapped, TypeOK
<1>7. ASSUME ServersGo PROVE Fresh'
  BY <1>7, <1>t DEF ServersGo, Told, SessionsInv, Fresh, Made, Reported, Mapped, TypeOK
<1>8. ASSUME NEW p \in Poller, NEW a \in Address, ErasesPosted(p, a)
      PROVE  Fresh'
  BY <1>8, <1>t
     DEF ErasesPosted, Leaves, Taken, SessionsInv, Fresh, Made, Reported, Mapped, TypeOK
<1>9. ASSUME Quiet PROVE Fresh'
  <2>1. ASSUME NEW p \in Poller, AcceptEnds(p) PROVE Fresh'
    BY <2>1, <1>t
       DEF AcceptEnds, Release, Kept, SessionsInv, Fresh, Made, Reported, Mapped, TypeOK
  <2>2. ASSUME NEW p \in Poller, Manage(p) PROVE Fresh'
    BY <2>2, <1>t DEF Manage, SessionsInv, Fresh, Made, Reported, Mapped, TypeOK
  <2>3. ASSUME NEW p \in Poller, NEW c \in Conn, Vain(p, c)
        PROVE  Fresh'
    BY <2>3, <1>t DEF Vain, Taken, SessionsInv, Fresh, Made, Reported, Mapped, TypeOK
  <2>4. ASSUME NEW p \in Poller, NEW c \in Conn, Passes(p, c)
        PROVE  Fresh'
    BY <2>4, <1>t DEF Passes, SessionsInv, Fresh, Made, Reported, Mapped, TypeOK
  <2>5. ASSUME NEW c \in Conn, Lookup(c) PROVE Fresh'
    BY <2>5, <1>t DEF Lookup, SessionsInv, Fresh, Made, Reported, Mapped, TypeOK
  <2>6. ASSUME Closes PROVE Fresh'
    BY <2>6, <1>t DEF Closes, Posted, SessionsInv, Fresh, Made, Reported, Mapped, TypeOK
  <2>7. ASSUME Forget PROVE Fresh'
    BY <2>7, <1>t DEF Forget, SessionsInv, Fresh, Made, Reported, Mapped, TypeOK
  <2>8. ASSUME UNCHANGED vars PROVE Fresh'
    BY <2>8, <1>t DEF vars, SessionsInv, Fresh, Made, Reported, Mapped, TypeOK
  <2>9. ASSUME AcceptMoves PROVE Fresh'
    BY <2>9, <1>t DEF AcceptMoves, SessionsInv, Fresh, Made, Reported, Mapped, TypeOK
  <2> QED
    BY <1>9, <2>1, <2>2, <2>3, <2>4, <2>5, <2>6, <2>7, <2>8, <2>9 DEF Quiet
<1> QED
  BY <1>1, <1>2, <1>3, <1>4, <1>5, <1>6, <1>7, <1>8, <1>9 DEF SessionStep

\* A closure that accepts keeps its server, and only it makes the session.
LEMMA MadeStep == SessionsInv /\ SessionStep => Made'
<1> SUFFICES ASSUME SessionsInv, SessionStep PROVE Made'
  OBVIOUS
<1>t. TypeOK /\ NoPoller \notin Poller
  BY ServerAssumption DEF SessionsInv, LoopsSafe
<1>1. ASSUME NEW p \in Poller, NEW c \in Conn, NEW a \in Address, AcceptsHere(p, c, a)
      PROVE  Made'
  <2>1. \A r \in Poller : accepting'[r] # 0 => owner'[accepting'[r]] # NoPoller
    BY <1>1, <1>t DEF AcceptsHere, Accepts, SessionsInv, Made, TypeOK
  <2>2. \A d \in Conn :
          owner'[d] # NoPoller /\ "closure" \notin completed'[d] => key'[d] # NoAddress
    BY <1>1, <1>t DEF AcceptsHere, SessionsInv, Made, TypeOK, Address, NoAddress
  <2>3. \A d \in Mapped(sessions') : key'[d] # NoAddress
    <3>1. \A r \in Poller : sessions'[r] \subseteq sessions[r] \cup {c}
      BY <1>1, <1>t DEF AcceptsHere, TypeOK
    <3>2. key'[c] # NoAddress /\ \A d \in Conn : key[d] # NoAddress => key'[d] # NoAddress
      BY <1>1, <1>t DEF AcceptsHere, TypeOK, Address, NoAddress
    <3>3. \A d \in Mapped(sessions') : d = c \/ d \in Mapped(sessions)
      BY <3>1 DEF Mapped
    <3>4. \A d \in Mapped(sessions) : d \in Conn /\ key[d] # NoAddress
      BY <1>t DEF SessionsInv, Made, Mapped, TypeOK
    <3> QED
      BY <3>2, <3>3, <3>4
  <2>4. ASSUME NEW r \in Poller, NEW d \in Conn, Has(queue'[r], <<"accept", d>>)
        PROVE  /\ owner'[d] = r /\ key'[d] = NoAddress /\ r \in server'
               /\ Once(queue'[r], <<"accept", d>>)
    <3>1. /\ owner[d] = r /\ key[d] = NoAddress /\ r \in server
          /\ Once(queue[r], <<"accept", d>>) /\ d # c
      BY <1>1, <1>t, <2>4 DEF AcceptsHere, Accepts, SessionsInv, Made
    <3> QED
      BY <1>1, <1>t, <2>4, <3>1 DEF AcceptsHere, Accepts, TypeOK
  <2> QED
    BY <2>1, <2>2, <2>3, <2>4 DEF Made
<1>2. ASSUME NEW p \in Poller, NEW c \in Conn, NEW q \in Poller, AcceptsThere(p, c, q)
      PROVE  Made'
  <2>1. \A r \in Poller : accepting'[r] # 0 => owner'[accepting'[r]] # NoPoller
    BY <1>2, <1>t DEF AcceptsThere, Accepts, SessionsInv, Made, TypeOK
  <2>2. \A d \in Conn :
          owner'[d] # NoPoller /\ "closure" \notin completed'[d] => key'[d] # NoAddress
    BY <1>2, <1>t DEF AcceptsThere, SessionsInv, Made, TypeOK, Address, NoAddress
  <2>3. \A d \in Mapped(sessions') : key'[d] # NoAddress
    BY <1>2, <1>t DEF AcceptsThere, SessionsInv, Made
  <2>4. ASSUME NEW r \in Poller, NEW d \in Conn, Has(queue'[r], <<"accept", d>>)
        PROVE  /\ owner'[d] = r /\ key'[d] = NoAddress /\ r \in server'
               /\ Once(queue'[r], <<"accept", d>>)
    <3>1. Has(queue[r], <<"accept", d>>) \/ (r = q /\ d = c)
      BY <1>2, <2>4 DEF AcceptsThere, Posted
    <3>2. ~Has(queue[q], <<"accept", c>>) /\ key[c] = NoAddress
      BY <1>2, <1>t DEF AcceptsThere, Accepts, SessionsInv, Made, Fresh
    <3>3. CASE Has(queue[r], <<"accept", d>>)
      <4>1. /\ owner[d] = r /\ key[d] = NoAddress /\ r \in server
            /\ Once(queue[r], <<"accept", d>>) /\ d # c
        BY <1>2, <1>t, <3>3 DEF AcceptsThere, Accepts, SessionsInv, Made
      <4> QED
        BY <1>2, <1>t, <4>1 DEF AcceptsThere, Accepts, Posted, TypeOK
    <3>4. CASE r = q /\ d = c /\ ~Has(queue[r], <<"accept", d>>)
      <4>1. Once(queue[r], <<"accept", d>>)
        BY <3>4 DEF Once, Has
      <4> QED
        BY <1>2, <1>t, <3>2, <3>4, <4>1 DEF AcceptsThere, Accepts, Posted, TypeOK
    <3> QED
      BY <3>1, <3>3, <3>4
  <2> QED
    BY <2>1, <2>2, <2>3, <2>4 DEF Made
<1>3. ASSUME NEW p \in Poller, NEW c \in Conn, NEW a \in Address, AcceptRuns(p, c, a)
      PROVE  Made'
  <2>1. \A r \in Poller : accepting'[r] # 0 => owner'[accepting'[r]] # NoPoller
    BY <1>3, <1>t DEF AcceptRuns, Accepts, SessionsInv, Made, TypeOK
  <2>2. \A d \in Conn :
          owner'[d] # NoPoller /\ "closure" \notin completed'[d] => key'[d] # NoAddress
    BY <1>3, <1>t DEF AcceptRuns, SessionsInv, Made, TypeOK, Address, NoAddress
  <2>3. \A d \in Mapped(sessions') : key'[d] # NoAddress
    <3>1. \A r \in Poller : sessions'[r] \subseteq sessions[r] \cup {c}
      BY <1>3, <1>t DEF AcceptRuns, Told, TypeOK
    <3>2. key'[c] # NoAddress /\ \A d \in Conn : key[d] # NoAddress => key'[d] # NoAddress
      BY <1>3, <1>t DEF AcceptRuns, TypeOK, Address, NoAddress
    <3>3. \A d \in Mapped(sessions') : d = c \/ d \in Mapped(sessions)
      BY <3>1 DEF Mapped
    <3>4. \A d \in Mapped(sessions) : d \in Conn /\ key[d] # NoAddress
      BY <1>t DEF SessionsInv, Made, Mapped, TypeOK
    <3> QED
      BY <3>2, <3>3, <3>4
  <2>4. ASSUME NEW r \in Poller, NEW d \in Conn, Has(queue'[r], <<"accept", d>>)
        PROVE  /\ owner'[d] = r /\ key'[d] = NoAddress /\ r \in server'
               /\ Once(queue'[r], <<"accept", d>>)
    <3>1. Has(queue[r], <<"accept", d>>) /\ <<r, d>> # <<p, c>>
      BY <1>3, <2>4 DEF AcceptRuns, Taken, SessionsInv, Made
    <3>2. /\ owner[d] = r /\ key[d] = NoAddress /\ r \in server
          /\ Once(queue[r], <<"accept", d>>) /\ owner[c] = p
      BY <1>3, <1>t, <3>1 DEF AcceptRuns, SessionsInv, Made
    <3>3. d # c
      BY <3>1, <3>2
    <3>4. r \in server'
      BY <1>3, <2>4, <3>2 DEF AcceptRuns, Remain, Busy
    <3> QED
      BY <1>3, <1>t, <3>2, <3>3, <3>4 DEF AcceptRuns, Taken, TypeOK
  <2> QED
    BY <2>1, <2>2, <2>3, <2>4 DEF Made
<1>4. ASSUME NEW p \in Poller, NEW c \in Conn, Reports(p, c), owner[c] = p, c \in watched,
             queue' = queue
      PROVE  Made'
  BY <1>4, <1>t DEF Reports, Leaves, SessionsInv, Made, Fresh, Served, Mapped, TypeOK
<1>5. ASSUME NEW p \in Poller, NEW c \in Conn, Reports(p, c), Has(queue[p], <<"err", c>>),
             Taken(p, <<"err", c>>)
      PROVE  Made'
  BY <1>5, <1>t DEF Reports, Leaves, Taken, SessionsInv, Made, Fresh, Served, Mapped, TypeOK
<1>6. ASSUME NEW p \in Poller, NEW c \in Conn, ShutsItself(p, c)
      PROVE  Made'
  BY <1>6, <1>t DEF ShutsItself, Posted, SessionsInv, Made, Fresh, Served, Mapped, TypeOK
<1>7. ASSUME ServersGo PROVE Made'
  <2>1. \A r \in Poller : accepting'[r] # 0 => owner'[accepting'[r]] # NoPoller
    BY <1>7, <1>t DEF ServersGo, Accepts, SessionsInv, Made, TypeOK
  <2>2. \A d \in Conn :
          owner'[d] # NoPoller /\ "closure" \notin completed'[d] => key'[d] # NoAddress
    BY <1>7, <1>t DEF ServersGo, SessionsInv, Made, TypeOK, Address, NoAddress
  <2>3. \A d \in Mapped(sessions') : key'[d] # NoAddress
    <3>1. \A r \in Poller : sessions'[r] \subseteq sessions[r]
      BY <1>7 DEF ServersGo, Told
    <3> QED
      BY <1>7, <3>1 DEF ServersGo, SessionsInv, Made, Mapped
  <2>4. ASSUME NEW r \in Poller, NEW d \in Conn, Has(queue'[r], <<"accept", d>>)
        PROVE  /\ owner'[d] = r /\ key'[d] = NoAddress /\ r \in server'
               /\ Once(queue'[r], <<"accept", d>>)
    <3>1. Has(queue[r], <<"accept", d>>)
      BY <1>7, <2>4 DEF ServersGo
    <3>2. /\ owner[d] = r /\ key[d] = NoAddress /\ r \in server
          /\ Once(queue[r], <<"accept", d>>)
      BY <3>1 DEF SessionsInv, Made
    <3>3. r \in server'
      BY <1>7, <2>4, <3>2 DEF ServersGo, Remain, Busy
    <3> QED
      BY <1>7, <3>2, <3>3 DEF ServersGo
  <2> QED
    BY <2>1, <2>2, <2>3, <2>4 DEF Made
<1>8. ASSUME NEW p \in Poller, NEW a \in Address, ErasesPosted(p, a)
      PROVE  Made'
  BY <1>8, <1>t
     DEF ErasesPosted, Leaves, Taken, SessionsInv, Made, Fresh, Served, Mapped, TypeOK
<1>9. ASSUME Quiet PROVE Made'
  <2>1. ASSUME NEW p \in Poller, AcceptEnds(p) PROVE Made'
    BY <2>1, <1>t
       DEF AcceptEnds, Release, Kept, SessionsInv, Made, Fresh, Served, Mapped, TypeOK
  <2>2. ASSUME NEW p \in Poller, Manage(p) PROVE Made'
    BY <2>2, <1>t DEF Manage, SessionsInv, Made, Fresh, Served, Mapped, TypeOK
  <2>3. ASSUME NEW p \in Poller, NEW c \in Conn, Vain(p, c)
        PROVE  Made'
    BY <2>3, <1>t DEF Vain, Taken, SessionsInv, Made, Fresh, Served, Mapped, TypeOK
  <2>4. ASSUME NEW p \in Poller, NEW c \in Conn, Passes(p, c)
        PROVE  Made'
    BY <2>4, <1>t DEF Passes, SessionsInv, Made, Fresh, Served, Mapped, TypeOK
  <2>5. ASSUME NEW c \in Conn, Lookup(c) PROVE Made'
    BY <2>5, <1>t DEF Lookup, SessionsInv, Made, Fresh, Served, Mapped, TypeOK
  <2>6. ASSUME Closes PROVE Made'
    BY <2>6, <1>t DEF Closes, Posted, SessionsInv, Made, Fresh, Served, Mapped, TypeOK
  <2>7. ASSUME Forget PROVE Made'
    BY <2>7, <1>t DEF Forget, SessionsInv, Made, Fresh, Served, Mapped, TypeOK
  <2>8. ASSUME UNCHANGED vars PROVE Made'
    BY <2>8, <1>t DEF vars, SessionsInv, Made, Fresh, Served, Mapped, TypeOK
  <2>9. ASSUME AcceptMoves PROVE Made'
    BY <2>9, <1>t DEF AcceptMoves, SessionsInv, Made, Fresh, Served, Mapped, TypeOK
  <2> QED
    BY <1>9, <2>1, <2>2, <2>3, <2>4, <2>5, <2>6, <2>7, <2>8, <2>9 DEF Quiet
<1> QED
  BY <1>1, <1>2, <1>3, <1>4, <1>5, <1>6, <1>7, <1>8, <1>9 DEF SessionStep

\* Maps go with their servers.
LEMMA ServedStep == SessionsInv /\ SessionStep => Served'
<1> SUFFICES ASSUME SessionsInv, SessionStep PROVE Served'
  OBVIOUS
<1>t. TypeOK /\ NoPoller \notin Poller
  BY ServerAssumption DEF SessionsInv, LoopsSafe
<1>1. ASSUME NEW p \in Poller, NEW c \in Conn, NEW a \in Address, AcceptsHere(p, c, a)
      PROVE  Served'
  BY <1>1, <1>t DEF AcceptsHere, Accepts, SessionsInv, Served, Made, Remain, Busy, TypeOK
<1>2. ASSUME NEW p \in Poller, NEW c \in Conn, NEW q \in Poller, AcceptsThere(p, c, q)
      PROVE  Served'
  BY <1>2, <1>t
     DEF AcceptsThere, Accepts, Posted, SessionsInv, Served, Made, Remain, Busy, TypeOK
<1>3. ASSUME NEW p \in Poller, NEW c \in Conn, NEW a \in Address, AcceptRuns(p, c, a)
      PROVE  Served'
  <2>1. Main \in server' => server' = Poller
    BY <1>3 DEF AcceptRuns, Remain, SessionsInv, Served
  <2>2. \A r \in Poller \ server' : sessions'[r] = {}
    BY <1>3 DEF AcceptRuns, Told
  <2>3. managing' \subseteq server'
    BY <1>3, <1>t DEF AcceptRuns, Remain, Busy, SessionsInv, Served, TypeOK
  <2> QED
    BY <2>1, <2>2, <2>3 DEF Served
<1>4. ASSUME NEW p \in Poller, NEW c \in Conn, Reports(p, c), owner[c] = p, c \in watched,
             queue' = queue
      PROVE  Served'
  BY <1>4, <1>t DEF Reports, Leaves, SessionsInv, Served, Made, Remain, Busy, TypeOK
<1>5. ASSUME NEW p \in Poller, NEW c \in Conn, Reports(p, c), Has(queue[p], <<"err", c>>),
             Taken(p, <<"err", c>>)
      PROVE  Served'
  BY <1>5, <1>t DEF Reports, Leaves, Taken, SessionsInv, Served, Made, Remain, Busy, TypeOK
<1>6. ASSUME NEW p \in Poller, NEW c \in Conn, ShutsItself(p, c)
      PROVE  Served'
  BY <1>6, <1>t DEF ShutsItself, Posted, SessionsInv, Served, Made, Remain, Busy, TypeOK
<1>7. ASSUME ServersGo PROVE Served'
  <2>1. Main \in server' => server' = Poller
    BY <1>7 DEF ServersGo, Remain, SessionsInv, Served
  <2>2. \A r \in Poller \ server' : sessions'[r] = {}
    BY <1>7 DEF ServersGo, Told
  <2>3. managing' \subseteq server'
    BY <1>7, <1>t DEF ServersGo, Remain, Busy, SessionsInv, Served, TypeOK
  <2> QED
    BY <2>1, <2>2, <2>3 DEF Served
<1>8. ASSUME NEW p \in Poller, NEW a \in Address, ErasesPosted(p, a)
      PROVE  Served'
  BY <1>8, <1>t DEF ErasesPosted, Leaves, Taken, SessionsInv, Served, Made, Remain, Busy, TypeOK
<1>9. ASSUME Quiet PROVE Served'
  <2>1. ASSUME NEW p \in Poller, AcceptEnds(p) PROVE Served'
    BY <2>1, <1>t DEF AcceptEnds, Release, Kept, SessionsInv, Served, Made, Remain, Busy, TypeOK
  <2>2. ASSUME NEW p \in Poller, Manage(p) PROVE Served'
    BY <2>2, <1>t DEF Manage, SessionsInv, Served, Made, Remain, Busy, TypeOK
  <2>3. ASSUME NEW p \in Poller, NEW c \in Conn, Vain(p, c)
        PROVE  Served'
    BY <2>3, <1>t DEF Vain, Taken, SessionsInv, Served, Made, Remain, Busy, TypeOK
  <2>4. ASSUME NEW p \in Poller, NEW c \in Conn, Passes(p, c)
        PROVE  Served'
    BY <2>4, <1>t DEF Passes, SessionsInv, Served, Made, Remain, Busy, TypeOK
  <2>5. ASSUME NEW c \in Conn, Lookup(c) PROVE Served'
    BY <2>5, <1>t DEF Lookup, SessionsInv, Served, Made, Remain, Busy, TypeOK
  <2>6. ASSUME Closes PROVE Served'
    BY <2>6, <1>t DEF Closes, Posted, SessionsInv, Served, Made, Remain, Busy, TypeOK
  <2>7. ASSUME Forget PROVE Served'
    BY <2>7, <1>t DEF Forget, SessionsInv, Served, Made, Remain, Busy, TypeOK
  <2>8. ASSUME UNCHANGED vars PROVE Served'
    BY <2>8, <1>t DEF vars, SessionsInv, Served, Made, Remain, Busy, TypeOK
  <2>9. ASSUME AcceptMoves PROVE Served'
    BY <2>9, <1>t DEF AcceptMoves, SessionsInv, Served, Made, Remain, Busy, TypeOK
  <2> QED
    BY <1>9, <2>1, <2>2, <2>3, <2>4, <2>5, <2>6, <2>7, <2>8, <2>9 DEF Quiet
<1> QED
  BY <1>1, <1>2, <1>3, <1>4, <1>5, <1>6, <1>7, <1>8, <1>9 DEF SessionStep

\* The user posts an error after it closed the descriptor, once.
LEMMA ReportedStep == SessionsInv /\ SessionStep => Reported'
<1> SUFFICES ASSUME SessionsInv, SessionStep PROVE Reported'
  OBVIOUS
<1>t. TypeOK /\ NoPoller \notin Poller
  BY ServerAssumption DEF SessionsInv, LoopsSafe
<1>1. ASSUME NEW p \in Poller, NEW c \in Conn, NEW a \in Address, AcceptsHere(p, c, a)
      PROVE  Reported'
  BY <1>1, <1>t DEF AcceptsHere, Accepts, SessionsInv, Reported, Made, Fresh, Mapped, TypeOK
<1>2. ASSUME NEW p \in Poller, NEW c \in Conn, NEW q \in Poller, AcceptsThere(p, c, q)
      PROVE  Reported'
  BY <1>2, <1>t
     DEF AcceptsThere, Accepts, Posted, SessionsInv, Reported, Made, Fresh, Mapped, TypeOK
<1>3. ASSUME NEW p \in Poller, NEW c \in Conn, NEW a \in Address, AcceptRuns(p, c, a)
      PROVE  Reported'
  BY <1>3, <1>t DEF AcceptRuns, Told, Taken, SessionsInv, Reported, Made, Fresh, Mapped, TypeOK
<1>4. ASSUME NEW p \in Poller, NEW c \in Conn, Reports(p, c), owner[c] = p, c \in watched,
             queue' = queue
      PROVE  Reported'
  BY <1>4, <1>t DEF Reports, Leaves, SessionsInv, Reported, Made, Fresh, Mapped, TypeOK
<1>5. ASSUME NEW p \in Poller, NEW c \in Conn, Reports(p, c), Has(queue[p], <<"err", c>>),
             Taken(p, <<"err", c>>)
      PROVE  Reported'
  BY <1>5, <1>t DEF Reports, Leaves, Taken, SessionsInv, Reported, Made, Fresh, Mapped, TypeOK
<1>6. ASSUME NEW p \in Poller, NEW c \in Conn, ShutsItself(p, c)
      PROVE  Reported'
  BY <1>6, <1>t DEF ShutsItself, Posted, SessionsInv, Reported, Made, Fresh, Mapped, TypeOK
<1>7. ASSUME ServersGo PROVE Reported'
  BY <1>7, <1>t DEF ServersGo, Told, SessionsInv, Reported, Made, Fresh, Mapped, TypeOK
<1>8. ASSUME NEW p \in Poller, NEW a \in Address, ErasesPosted(p, a)
      PROVE  Reported'
  BY <1>8, <1>t
     DEF ErasesPosted, Leaves, Taken, SessionsInv, Reported, Made, Fresh, Mapped, TypeOK
<1>9. ASSUME Quiet PROVE Reported'
  <2>1. ASSUME NEW p \in Poller, AcceptEnds(p) PROVE Reported'
    BY <2>1, <1>t
       DEF AcceptEnds, Release, Kept, SessionsInv, Reported, Made, Fresh, Mapped, TypeOK
  <2>2. ASSUME NEW p \in Poller, Manage(p) PROVE Reported'
    BY <2>2, <1>t DEF Manage, SessionsInv, Reported, Made, Fresh, Mapped, TypeOK
  <2>3. ASSUME NEW p \in Poller, NEW c \in Conn, Vain(p, c)
        PROVE  Reported'
    BY <2>3, <1>t DEF Vain, Taken, SessionsInv, Reported, Made, Fresh, Mapped, TypeOK
  <2>4. ASSUME NEW p \in Poller, NEW c \in Conn, Passes(p, c)
        PROVE  Reported'
    BY <2>4, <1>t DEF Passes, SessionsInv, Reported, Made, Fresh, Mapped, TypeOK
  <2>5. ASSUME NEW c \in Conn, Lookup(c) PROVE Reported'
    BY <2>5, <1>t DEF Lookup, SessionsInv, Reported, Made, Fresh, Mapped, TypeOK
  <2>6. ASSUME Closes PROVE Reported'
    <3>1. PICK c \in Conn : user[2] = c /\ user = <<"seen", c>> /\ key[c] # NoAddress
      BY <2>6, <1>t DEF Closes, SessionsInv, Reported, TypeOK
    <3>2. /\ user' = <<"closed", c>> /\ fd' = fd \ {c}
          /\ Posted(owner[c], <<"err", c>>) /\ owner[c] \in Poller
      BY <2>6, <1>t, <3>1 DEF Closes, SessionsInv, Fresh, TypeOK
    <3>3. ~Has(queue[owner[c]], <<"err", c>>)
      BY <3>1, <3>2 DEF SessionsInv, Reported
    <3>4. Once(queue[owner[c]], <<"err", c>>)
      BY <3>3 DEF Has, Once
    <3>5. ASSUME NEW r \in Poller, NEW d \in Conn, Has(queue'[r], <<"err", d>>)
          PROVE  /\ owner[d] = r /\ key[d] # NoAddress /\ d \notin fd' /\ user' # <<"seen", d>>
                 /\ Once(queue'[r], <<"err", d>>)
      <4>1. CASE Has(queue[r], <<"err", d>>)
        BY <3>2, <3>3, <4>1 DEF SessionsInv, Reported, Posted
      <4>2. CASE r = owner[c] /\ d = c
        BY <3>1, <3>2, <3>3, <3>4, <4>2 DEF Posted
      <4> QED
        BY <3>2, <3>5, <4>1, <4>2 DEF Posted
    <3>6. user'[1] = "closed" /\ user'[2] = c
      BY <3>2
    <3> QED
      BY <2>6, <3>1, <3>5, <3>6 DEF Closes, Reported
  <2>7. ASSUME Forget PROVE Reported'
    BY <2>7, <1>t DEF Forget, SessionsInv, Reported, Made, Fresh, Mapped, TypeOK
  <2>8. ASSUME UNCHANGED vars PROVE Reported'
    BY <2>8, <1>t DEF vars, SessionsInv, Reported, Made, Fresh, Mapped, TypeOK
  <2>9. ASSUME AcceptMoves PROVE Reported'
    BY <2>9, <1>t DEF AcceptMoves, SessionsInv, Reported, Made, Fresh, Mapped, TypeOK
  <2> QED
    BY <1>9, <2>1, <2>2, <2>3, <2>4, <2>5, <2>6, <2>7, <2>8, <2>9 DEF Quiet
<1> QED
  BY <1>1, <1>2, <1>3, <1>4, <1>5, <1>6, <1>7, <1>8, <1>9 DEF SessionStep

\* Callbacks exist before a socket is attached.
LEMMA SessionFirstStep == SessionsInv /\ SessionStep => SessionFirst'
<1> SUFFICES ASSUME SessionsInv, SessionStep PROVE SessionFirst'
  OBVIOUS
<1>t. TypeOK /\ NoPoller \notin Poller
  BY ServerAssumption DEF SessionsInv, LoopsSafe
<1>1. ASSUME NEW p \in Poller, NEW c \in Conn, NEW a \in Address, AcceptsHere(p, c, a)
      PROVE  SessionFirst'
  BY <1>1, <1>t
     DEF AcceptsHere, Accepts, SessionsInv, LoopsSafe, SessionFirst, Made, TypeOK,
         Address, NoAddress
<1>2. ASSUME NEW p \in Poller, NEW c \in Conn, NEW q \in Poller, AcceptsThere(p, c, q)
      PROVE  SessionFirst'
  BY <1>2, <1>t
     DEF AcceptsThere, Accepts, Posted, SessionsInv, LoopsSafe, SessionFirst, Made,
         TypeOK, Address, NoAddress
<1>3. ASSUME NEW p \in Poller, NEW c \in Conn, NEW a \in Address, AcceptRuns(p, c, a)
      PROVE  SessionFirst'
  BY <1>3, <1>t
     DEF AcceptRuns, Told, Taken, SessionsInv, LoopsSafe, SessionFirst, Made, TypeOK,
         Address, NoAddress
<1>4. ASSUME NEW p \in Poller, NEW c \in Conn, Reports(p, c), owner[c] = p, c \in watched,
             queue' = queue
      PROVE  SessionFirst'
  BY <1>4, <1>t
     DEF Reports, Leaves, SessionsInv, LoopsSafe, SessionFirst, Made, TypeOK, Address,
         NoAddress
<1>5. ASSUME NEW p \in Poller, NEW c \in Conn, Reports(p, c), Has(queue[p], <<"err", c>>),
             Taken(p, <<"err", c>>)
      PROVE  SessionFirst'
  BY <1>5, <1>t
     DEF Reports, Leaves, Taken, SessionsInv, LoopsSafe, SessionFirst, Made, TypeOK,
         Address, NoAddress
<1>6. ASSUME NEW p \in Poller, NEW c \in Conn, ShutsItself(p, c)
      PROVE  SessionFirst'
  BY <1>6, <1>t
     DEF ShutsItself, Posted, SessionsInv, LoopsSafe, SessionFirst, Made, TypeOK, Address,
         NoAddress
<1>7. ASSUME ServersGo PROVE SessionFirst'
  BY <1>7, <1>t
     DEF ServersGo, Told, SessionsInv, LoopsSafe, SessionFirst, Made, TypeOK, Address,
         NoAddress
<1>8. ASSUME NEW p \in Poller, NEW a \in Address, ErasesPosted(p, a)
      PROVE  SessionFirst'
  BY <1>8, <1>t
     DEF ErasesPosted, Leaves, Taken, SessionsInv, LoopsSafe, SessionFirst, Made, TypeOK,
         Address, NoAddress
<1>9. ASSUME Quiet PROVE SessionFirst'
  <2>1. ASSUME NEW p \in Poller, AcceptEnds(p) PROVE SessionFirst'
    BY <2>1, <1>t
       DEF AcceptEnds, Release, Kept, SessionsInv, LoopsSafe, SessionFirst, Made, TypeOK,
           Address, NoAddress
  <2>2. ASSUME NEW p \in Poller, Manage(p) PROVE SessionFirst'
    BY <2>2, <1>t
       DEF Manage, SessionsInv, LoopsSafe, SessionFirst, Made, TypeOK, Address, NoAddress
  <2>3. ASSUME NEW p \in Poller, NEW c \in Conn, Vain(p, c)
        PROVE  SessionFirst'
    BY <2>3, <1>t
       DEF Vain, Taken, SessionsInv, LoopsSafe, SessionFirst, Made, TypeOK, Address,
           NoAddress
  <2>4. ASSUME NEW p \in Poller, NEW c \in Conn, Passes(p, c)
        PROVE  SessionFirst'
    BY <2>4, <1>t
       DEF Passes, SessionsInv, LoopsSafe, SessionFirst, Made, TypeOK, Address, NoAddress
  <2>5. ASSUME NEW c \in Conn, Lookup(c) PROVE SessionFirst'
    BY <2>5, <1>t
       DEF Lookup, SessionsInv, LoopsSafe, SessionFirst, Made, TypeOK, Address, NoAddress
  <2>6. ASSUME Closes PROVE SessionFirst'
    BY <2>6, <1>t
       DEF Closes, Posted, SessionsInv, LoopsSafe, SessionFirst, Made, TypeOK, Address,
           NoAddress
  <2>7. ASSUME Forget PROVE SessionFirst'
    BY <2>7, <1>t
       DEF Forget, SessionsInv, LoopsSafe, SessionFirst, Made, TypeOK, Address, NoAddress
  <2>8. ASSUME UNCHANGED vars PROVE SessionFirst'
    BY <2>8, <1>t
       DEF vars, SessionsInv, LoopsSafe, SessionFirst, Made, TypeOK, Address, NoAddress
  <2>9. ASSUME AcceptMoves PROVE SessionFirst'
    BY <2>9, <1>t
       DEF AcceptMoves, SessionsInv, LoopsSafe, SessionFirst, Made, TypeOK, Address, NoAddress
  <2> QED
    BY <1>9, <2>1, <2>2, <2>3, <2>4, <2>5, <2>6, <2>7, <2>8, <2>9 DEF Quiet
<1> QED
  BY <1>1, <1>2, <1>3, <1>4, <1>5, <1>6, <1>7, <1>8, <1>9 DEF SessionStep

\* A session comes with a key of its own.
LEMMA OwnMapGrows ==
  ASSUME OwnMap, NEW p \in Poller, NEW c \in Conn,
         \A r \in Poller : sessions'[r] \subseteq sessions[r] \cup (IF r = p THEN {c} ELSE {}),
         \A d \in Mapped(sessions) : key'[d] = key[d] /\ owner'[d] = owner[d],
         owner'[c] = p, key'[c] \notin {key[d] : d \in Mapped(sessions)}
  PROVE  OwnMap'
<1>1. /\ \A r \in Poller : \A d \in sessions[r] : owner[d] = r /\ d \in Mapped(sessions)
      /\ \A d, e \in Mapped(sessions) : key[d] = key[e] => d = e
  BY DEF OwnMap, Mapped
<1>2. \A d \in Mapped(sessions') : d = c \/ d \in Mapped(sessions)
  BY DEF Mapped
<1>3. \A d \in Mapped(sessions) : key'[d] # key'[c]
  OBVIOUS
<1>4. \A d, e \in Mapped(sessions') : key'[d] = key'[e] => d = e
  BY <1>1, <1>2, <1>3
<1>5. ASSUME NEW r \in Poller, NEW d \in sessions'[r] PROVE owner'[d] = r
  BY <1>1
<1> QED
  BY <1>4, <1>5 DEF OwnMap

\* Sessions stay on their poller, at addresses of their own.
LEMMA OwnMapStep == SessionsInv /\ SessionStep => OwnMap'
<1> SUFFICES ASSUME SessionsInv, SessionStep PROVE OwnMap'
  OBVIOUS
<1>t. TypeOK /\ OwnMap
  BY DEF SessionsInv, LoopsSafe
<1>1. ASSUME NEW p \in Poller, NEW c \in Conn, NEW a \in Address,
             AcceptsHere(p, c, a) \/ AcceptRuns(p, c, a)
      PROVE  OwnMap'
  <2>1. c \notin Mapped(sessions) /\ (AcceptRuns(p, c, a) => owner[c] = p)
    BY <1>1 DEF AcceptsHere, Accepts, AcceptRuns, SessionsInv, Fresh, Made
  <2>2. /\ \A r \in Poller : sessions'[r] \subseteq sessions[r] \cup (IF r = p THEN {c} ELSE {})
        /\ owner'[c] = p /\ key'[c] = a /\ a \notin {key[d] : d \in Mapped(sessions)}
    <3>1. CASE AcceptsHere(p, c, a)
      BY <3>1, <1>t DEF AcceptsHere, TypeOK
    <3>2. CASE AcceptRuns(p, c, a)
      <4>1. PICK maps : maps = [sessions EXCEPT ![p] = @ \cup {c}]
        OBVIOUS
      <4>2. \A r \in Poller : maps[r] \subseteq sessions[r] \cup (IF r = p THEN {c} ELSE {})
        BY <4>1, <1>t DEF TypeOK
      <4>3. \A r \in Poller : sessions'[r] \subseteq maps[r]
        BY <3>2, <4>1 DEF AcceptRuns, Told
      <4>4. owner'[c] = p /\ key'[c] = a /\ a \notin {key[d] : d \in Mapped(sessions)}
        BY <3>2, <1>t, <2>1 DEF AcceptRuns, TypeOK
      <4> QED
        BY <4>2, <4>3, <4>4
    <3> QED
      BY <1>1, <3>1, <3>2
  <2>3. \A d \in Mapped(sessions) : key'[d] = key[d] /\ owner'[d] = owner[d]
    <3>1. \A d \in Mapped(sessions) : d \in Conn /\ d # c
      BY <2>1, <1>t DEF Mapped, TypeOK
    <3> QED
      BY <1>1, <1>t, <3>1 DEF AcceptsHere, AcceptRuns, TypeOK
  <2> QED
    BY <1>t, <2>2, <2>3, OwnMapGrows
<1>2. ASSUME \A r \in Poller : sessions'[r] \subseteq sessions[r],
             \A d \in Mapped(sessions) : key'[d] = key[d] /\ owner'[d] = owner[d]
      PROVE  OwnMap'
  <2>1. /\ \A r \in Poller : \A d \in sessions[r] : owner[d] = r /\ d \in Mapped(sessions)
        /\ \A d, e \in Mapped(sessions) : key[d] = key[e] => d = e
    BY <1>t DEF OwnMap, Mapped
  <2>2. \A d \in Mapped(sessions') : d \in Mapped(sessions)
    BY <1>2 DEF Mapped
  <2> QED
    BY <1>2, <2>1, <2>2 DEF OwnMap
<1>3. ASSUME NEW p \in Poller, NEW c \in Conn, NEW q \in Poller, AcceptsThere(p, c, q)
      PROVE  OwnMap'
  <2>1. \A d \in Mapped(sessions) : d \in Conn /\ d # c
    BY <1>3, <1>t DEF AcceptsThere, Accepts, SessionsInv, Fresh, Mapped, TypeOK
  <2> QED
    BY <1>2, <1>3, <1>t, <2>1 DEF AcceptsThere, TypeOK
<1>4. ASSUME NEW p \in Poller, NEW c \in Conn, Reports(p, c) PROVE OwnMap'
  BY <1>2, <1>4 DEF Reports, Leaves
<1>5. ASSUME NEW p \in Poller, NEW c \in Conn, ShutsItself(p, c) PROVE OwnMap'
  BY <1>2, <1>5 DEF ShutsItself
<1>6. ASSUME ServersGo PROVE OwnMap'
  BY <1>2, <1>6 DEF ServersGo, Told
<1>7. ASSUME NEW p \in Poller, NEW a \in Address, ErasesPosted(p, a) PROVE OwnMap'
  BY <1>2, <1>7 DEF ErasesPosted, Leaves
<1>8. ASSUME Quiet PROVE OwnMap'
  <2>1. UNCHANGED <<sessions, key, owner>>
    BY <1>8 DEF Quiet, AcceptMoves, AcceptEnds, Manage, Vain, Passes, Lookup, Closes, Forget,
                vars
  <2> QED
    BY <1>2, <2>1
<1> QED
  BY <1>1, <1>3, <1>4, <1>5, <1>6, <1>7, <1>8 DEF SessionStep

\* While a manager walks, sessions only come.
LEMMA WalkIntactStep == SessionsInv /\ SessionStep => WalkIntact'
<1> SUFFICES ASSUME SessionsInv, SessionStep PROVE WalkIntact'
  OBVIOUS
<1>t. TypeOK /\ NoPoller \notin Poller
  BY ServerAssumption DEF SessionsInv, LoopsSafe
<1>1. ASSUME NEW p \in Poller, NEW c \in Conn, NEW a \in Address, AcceptsHere(p, c, a)
      PROVE  WalkIntact'
  BY <1>1, <1>t
     DEF AcceptsHere, Accepts, SessionsInv, LoopsSafe, WalkIntact, Served, Remain, Busy,
         TypeOK
<1>2. ASSUME NEW p \in Poller, NEW c \in Conn, NEW q \in Poller, AcceptsThere(p, c, q)
      PROVE  WalkIntact'
  BY <1>2, <1>t
     DEF AcceptsThere, Accepts, Posted, SessionsInv, LoopsSafe, WalkIntact, Served,
         Remain, Busy, TypeOK
<1>3. ASSUME NEW p \in Poller, NEW c \in Conn, NEW a \in Address, AcceptRuns(p, c, a)
      PROVE  WalkIntact'
  BY <1>3, <1>t
     DEF AcceptRuns, Told, Taken, SessionsInv, LoopsSafe, WalkIntact, Served, Remain,
         Busy, TypeOK
<1>4. ASSUME NEW p \in Poller, NEW c \in Conn, Reports(p, c), owner[c] = p, c \in watched,
             queue' = queue
      PROVE  WalkIntact'
  BY <1>4, <1>t, ZenonT(60)
     DEF Reports, Leaves, SessionsInv, LoopsSafe, WalkIntact, Served, Remain, Busy, TypeOK
<1>5. ASSUME NEW p \in Poller, NEW c \in Conn, Reports(p, c), Has(queue[p], <<"err", c>>),
             Taken(p, <<"err", c>>)
      PROVE  WalkIntact'
  BY <1>5, <1>t
     DEF Reports, Leaves, Taken, SessionsInv, LoopsSafe, WalkIntact, Served, Remain, Busy,
         TypeOK
<1>6. ASSUME NEW p \in Poller, NEW c \in Conn, ShutsItself(p, c)
      PROVE  WalkIntact'
  BY <1>6, <1>t
     DEF ShutsItself, Posted, SessionsInv, LoopsSafe, WalkIntact, Served, Remain, Busy,
         TypeOK
<1>7. ASSUME ServersGo PROVE WalkIntact'
  BY <1>7, <1>t
     DEF ServersGo, Told, SessionsInv, LoopsSafe, WalkIntact, Served, Remain, Busy, TypeOK
<1>8. ASSUME NEW p \in Poller, NEW a \in Address, ErasesPosted(p, a)
      PROVE  WalkIntact'
  BY <1>8, <1>t
     DEF ErasesPosted, Leaves, Taken, SessionsInv, LoopsSafe, WalkIntact, Served, Remain,
         Busy, TypeOK
<1>9. ASSUME Quiet PROVE WalkIntact'
  <2>1. ASSUME NEW p \in Poller, AcceptEnds(p) PROVE WalkIntact'
    BY <2>1, <1>t
       DEF AcceptEnds, Release, Kept, SessionsInv, LoopsSafe, WalkIntact, Served, Remain,
           Busy, TypeOK
  <2>2. ASSUME NEW p \in Poller, Manage(p) PROVE WalkIntact'
    BY <2>2, <1>t
       DEF Manage, SessionsInv, LoopsSafe, WalkIntact, Served, Remain, Busy, TypeOK
  <2>3. ASSUME NEW p \in Poller, NEW c \in Conn, Vain(p, c)
        PROVE  WalkIntact'
    BY <2>3, <1>t
       DEF Vain, Taken, SessionsInv, LoopsSafe, WalkIntact, Served, Remain, Busy, TypeOK
  <2>4. ASSUME NEW p \in Poller, NEW c \in Conn, Passes(p, c)
        PROVE  WalkIntact'
    BY <2>4, <1>t
       DEF Passes, SessionsInv, LoopsSafe, WalkIntact, Served, Remain, Busy, TypeOK
  <2>5. ASSUME NEW c \in Conn, Lookup(c) PROVE WalkIntact'
    BY <2>5, <1>t
       DEF Lookup, SessionsInv, LoopsSafe, WalkIntact, Served, Remain, Busy, TypeOK
  <2>6. ASSUME Closes PROVE WalkIntact'
    BY <2>6, <1>t
       DEF Closes, Posted, SessionsInv, LoopsSafe, WalkIntact, Served, Remain, Busy,
           TypeOK
  <2>7. ASSUME Forget PROVE WalkIntact'
    BY <2>7, <1>t
       DEF Forget, SessionsInv, LoopsSafe, WalkIntact, Served, Remain, Busy, TypeOK
  <2>8. ASSUME UNCHANGED vars PROVE WalkIntact'
    BY <2>8, <1>t
       DEF vars, SessionsInv, LoopsSafe, WalkIntact, Served, Remain, Busy, TypeOK
  <2>9. ASSUME AcceptMoves PROVE WalkIntact'
    BY <2>9, <1>t
       DEF AcceptMoves, SessionsInv, LoopsSafe, WalkIntact, Served, Remain, Busy, TypeOK
  <2> QED
    BY <1>9, <2>1, <2>2, <2>3, <2>4, <2>5, <2>6, <2>7, <2>8, <2>9 DEF Quiet
<1> QED
  BY <1>1, <1>2, <1>3, <1>4, <1>5, <1>6, <1>7, <1>8, <1>9 DEF SessionStep

\* A busy server in terms of the closures.
LEMMA OrphansAreBusy ==
  ASSUME NEW q \in [Poller -> Seq(Closure)], NEW mg, NEW p \in Poller
  PROVE  Busy(p, q, mg) <=> p \in mg \/ \E i \in 1 .. Len(q[p]) : q[p][i][1] = "accept"
<1>1. q[p] \in Seq(Closure)
  OBVIOUS
<1> QED
  BY <1>1, HasAccept DEF Busy

\* A clone without the main server is busy.
LEMMA OrphansStep == SessionsInv /\ SessionStep => OrphansBusy'
<1> SUFFICES ASSUME SessionsInv, SessionStep PROVE OrphansBusy'
  OBVIOUS
<1>t. TypeOK /\ queue \in [Poller -> Seq(Closure)]
  BY DEF SessionsInv, LoopsSafe, TypeOK, Closure
<1>b. Main \notin server => \A p \in server : Busy(p, queue, managing)
  <2>1. \A p \in Poller : Busy(p, queue, managing)
          <=> p \in managing \/ \E i \in 1 .. Len(queue[p]) : queue[p][i][1] = "accept"
    BY <1>t, OrphansAreBusy
  <2> QED
    BY <1>t, <2>1 DEF SessionsInv, LoopsSafe, OrphansBusy, TypeOK
<1>c. ASSUME Main \notin server' => \A p \in server' : Busy(p, queue', managing')
      PROVE  OrphansBusy'
  <2>1. PICK q : q = queue'
    OBVIOUS
  <2>2. PICK mg : mg = managing'
    OBVIOUS
  <2>3. q \in [Poller -> Seq(Closure)] /\ server' \subseteq Poller
    BY <2>1, TypeStep DEF TypeOK, Closure
  <2>4. \A p \in Poller : Busy(p, q, mg)
          <=> p \in mg \/ \E i \in 1 .. Len(q[p]) : q[p][i][1] = "accept"
    BY <2>3, OrphansAreBusy
  <2>5. Main \notin server' => \A p \in server' : Busy(p, q, mg)
    BY <1>c, <2>1, <2>2
  <2>6. Main \notin server' =>
          \A p \in server' : p \in mg \/ \E i \in 1 .. Len(q[p]) : q[p][i][1] = "accept"
    BY <2>3, <2>4, <2>5
  <2> QED
    BY <2>1, <2>2, <2>6 DEF OrphansBusy
\* The servers stay, and so do the closures that create sessions and the managers.
<1>k. ASSUME server' = server, managing \subseteq managing',
             \A p \in Poller, c \in Conn :
               Has(queue[p], <<"accept", c>>) => Has(queue'[p], <<"accept", c>>)
      PROVE  OrphansBusy'
  BY <1>b, <1>c, <1>k, <1>t DEF Busy, TypeOK
<1>1. ASSUME NEW p \in Poller, NEW c \in Conn, Accepts(p, c) PROVE OrphansBusy'
  BY <1>1, <1>c, ServerAssumption DEF Accepts
<1>2. ASSUME NEW p \in Poller, NEW c \in Conn, NEW a \in Address, AcceptRuns(p, c, a)
      PROVE  OrphansBusy'
  BY <1>2, <1>c, <1>t DEF AcceptRuns, Remain, TypeOK
<1>3. ASSUME NEW p \in Poller, NEW c \in Conn, Reports(p, c),
             queue' = queue \/ Taken(p, <<"err", c>>)
      PROVE  OrphansBusy'
  BY <1>3, <1>k DEF Reports, Taken
<1>4. ASSUME NEW p \in Poller, NEW c \in Conn, ShutsItself(p, c) PROVE OrphansBusy'
  BY <1>4, <1>k DEF ShutsItself, Posted
<1>5. ASSUME ServersGo PROVE OrphansBusy'
  BY <1>5, <1>c, <1>t DEF ServersGo, Remain, TypeOK
<1>6. ASSUME NEW p \in Poller, NEW a \in Address, ErasesPosted(p, a) PROVE OrphansBusy'
  BY <1>6, <1>k DEF ErasesPosted, Taken
<1>7. ASSUME Quiet PROVE OrphansBusy'
  <2>1. server' = server /\ managing \subseteq managing'
    BY <1>7 DEF Quiet, AcceptMoves, AcceptEnds, Manage, Vain, Passes, Lookup, Closes, Forget,
                vars
  <2>2. \A p \in Poller, c \in Conn :
          Has(queue[p], <<"accept", c>>) => Has(queue'[p], <<"accept", c>>)
    <3>1. queue' = queue \/ Closes \/ \E p \in Poller, c \in Conn : Vain(p, c)
      BY <1>7 DEF Quiet, AcceptMoves, AcceptEnds, Manage, Passes, Lookup, Forget, vars
    <3>2. CASE Closes
      <4>1. owner[user[2]] \in Poller
        BY <3>2, <1>t DEF Closes, SessionsInv, Reported, Fresh, TypeOK
      <4> QED
        BY <3>2, <4>1 DEF Closes, Posted
    <3>3. ASSUME NEW q \in Poller, NEW d \in Conn, Vain(q, d)
          PROVE  \A p \in Poller, c \in Conn :
                   Has(queue[p], <<"accept", c>>) => Has(queue'[p], <<"accept", c>>)
      BY <3>3 DEF Vain, Taken
    <3> QED
      BY <3>1, <3>2, <3>3
  <2> QED
    BY <1>k, <2>1, <2>2
<1> QED
  BY <1>1, <1>2, <1>3, <1>4, <1>5, <1>6, <1>7 DEF SessionStep, AcceptsHere, AcceptsThere

\* No server object goes while the user holds the server.
LEMMA WholeStep == SessionsInv /\ SessionStep => WholeWhileHeld'
<1> SUFFICES ASSUME SessionsInv, SessionStep PROVE WholeWhileHeld'
  OBVIOUS
<1> USE DEF SessionsInv, WholeWhileHeld
<1>1. ASSUME held' => held /\ server' = server, ruined' = ruined PROVE WholeWhileHeld'
  BY <1>1
<1>2. CASE Quiet
  <2>1. AcceptMoves \/ UNCHANGED <<server, held, ruined>>
    BY <1>2 DEF Quiet, AcceptEnds, Manage, Vain, Passes, Lookup, Closes, Forget, vars
  <2> QED
    BY <1>1, <2>1 DEF AcceptMoves
<1>3. CASE ~Quiet
  <2>1. \A p \in Poller, c \in Conn : Accepts(p, c) \/ Reports(p, c) \/ ShutsItself(p, c) =>
          UNCHANGED <<server, held, ruined>>
    BY DEF Accepts, Reports, ShutsItself
  <2>2. \A p \in Poller, c \in Conn, a \in Address : AcceptRuns(p, c, a) =>
          (held => server' = server) /\ UNCHANGED <<held, ruined>>
    BY DEF AcceptRuns
  <2>3. ServersGo => (held' => held /\ server' = server) /\ ruined' = ruined
    BY DEF ServersGo
  <2>4. \A p \in Poller, a \in Address : ErasesPosted(p, a) => UNCHANGED <<server, held, ruined>>
    BY DEF ErasesPosted
  <2>5. (held' => held /\ server' = server) /\ ruined' = ruined
    BY <1>3, <2>1, <2>2, <2>3, <2>4 DEF SessionStep, AcceptsHere, AcceptsThere
  <2> QED
    BY <1>1, <2>5
<1> QED
  BY <1>2, <1>3

\* A key once set stays, an ended session is not mapped again, and what was told stays told.
LEMMA Monotone ==
  ASSUME SessionsInv, SessionStep, NEW d \in Conn
  PROVE  /\ key[d] # NoAddress => key'[d] = key[d]
         /\ errors[d] \in Nat /\ errors'[d] \in Nat /\ errors[d] <= errors'[d]
         /\ Ended(d) => Ended(d)'
<1>t. TypeOK /\ TypeOK'
  BY TypeStep DEF SessionsInv, LoopsSafe
<1>e. errors \in [Conn -> 0 .. 3] /\ errors' \in [Conn -> 0 .. 3] /\ 0 .. 3 \subseteq Nat
  BY <1>t DEF TypeOK
<1>n. errors[d] \in Nat /\ errors'[d] \in Nat
  BY ONLY <1>e, d \in Conn
<1>1. ASSUME NEW p \in Poller, NEW c \in Conn, NEW a \in Address,
             AcceptsHere(p, c, a) \/ AcceptRuns(p, c, a)
      PROVE  /\ key[d] # NoAddress => key'[d] = key[d] /\ d # c
             /\ \A r \in Poller : sessions'[r] \subseteq sessions[r] \cup {c}
  <2>1. key[c] = NoAddress
    BY <1>1 DEF AcceptsHere, Accepts, AcceptRuns, SessionsInv, Fresh, Made
  <2>2. CASE AcceptsHere(p, c, a)
    BY <1>t, <2>1, <2>2 DEF AcceptsHere, TypeOK
  <2>3. CASE AcceptRuns(p, c, a)
    BY <1>t, <2>1, <2>3 DEF AcceptRuns, Told, TypeOK
  <2> QED
    BY <1>1, <2>2, <2>3
<1>2. ASSUME ~ \E p \in Poller, c \in Conn, a \in Address :
               AcceptsHere(p, c, a) \/ AcceptRuns(p, c, a)
      PROVE  key' = key /\ \A r \in Poller : sessions'[r] \subseteq sessions[r]
  <2>1. CASE Quiet
    BY <2>1 DEF Quiet, AcceptMoves, AcceptEnds, Manage, Vain, Passes, Lookup, Closes, Forget,
                vars
  <2>2. CASE ~Quiet
    BY <1>2, <2>2, ZenonT(60)
       DEF SessionStep, AcceptsThere, Reports, Leaves, ShutsItself, ServersGo, Told, ErasesPosted
  <2> QED
    BY <2>1, <2>2
<1>3. key[d] # NoAddress => key'[d] = key[d]
  BY <1>1, <1>2
<1>4. Ended(d) => Ended(d)'
  BY <1>1, <1>2 DEF Ended, Mapped
<1>5. errors'[d] = errors[d] \/ errors'[d] = errors[d] + 1
  <2>1. CASE Quiet
    BY <2>1 DEF Quiet, AcceptMoves, AcceptEnds, Manage, Vain, Passes, Lookup, Closes, Forget,
                vars
  <2>2. ASSUME NEW c \in Conn, errors' = [errors EXCEPT ![c] = @ + 1]
        PROVE  errors'[d] = errors[d] \/ errors'[d] = errors[d] + 1
    BY <1>t, <2>2 DEF TypeOK
  <2>3. ASSUME NEW p \in Poller, NEW c \in Conn, NEW a \in Address, AcceptRuns(p, c, a)
        PROVE  errors'[d] = errors[d] \/ errors'[d] = errors[d] + 1
    BY <2>3 DEF AcceptRuns, Told
  <2>4. CASE ServersGo
    BY <2>4 DEF ServersGo, Told
  <2>5. ASSUME NEW p \in Poller, NEW c \in Conn, Accepts(p, c) PROVE errors'[d] = errors[d]
    BY <2>5 DEF Accepts
  <2>6. ASSUME NEW p \in Poller, NEW c \in Conn, Reports(p, c) \/ ShutsItself(p, c)
        PROVE  errors'[d] = errors[d] \/ errors'[d] = errors[d] + 1
    BY <2>2, <2>6 DEF Reports, ShutsItself
  <2>7. ASSUME NEW p \in Poller, NEW a \in Address, ErasesPosted(p, a)
        PROVE  errors'[d] = errors[d]
    BY <2>7 DEF ErasesPosted
  <2> QED
    BY <2>1, <2>3, <2>4, <2>5, <2>6, <2>7 DEF SessionStep, AcceptsHere, AcceptsThere
<1> QED
  BY <1>n, <1>3, <1>4, <1>5

\* What can still be told does not come back, but for a connection that is accepted.
LEMMA PendingEnds ==
  ASSUME SessionsInv, SessionStep, NEW d \in Conn
  PROVE  /\ Pending(d)' => Pending(d) \/ owner[d] = NoPoller
         /\ d \in fd' => d \in fd \/ owner[d] = NoPoller
<1>t. TypeOK
  BY DEF SessionsInv, LoopsSafe
<1> DEFINE Err(r) == Has(queue[r], <<"err", d>>)
           Err2(r) == Has(queue'[r], <<"err", d>>)
           Goal == /\ Pending(d)' => Pending(d) \/ owner[d] = NoPoller
                   /\ d \in fd' => d \in fd \/ owner[d] = NoPoller
<1>k. ASSUME fd' \subseteq fd, UNCHANGED user, \A r \in Poller : Err2(r) => Err(r) PROVE Goal
  BY <1>k DEF Pending
<1>1. ASSUME NEW p \in Poller, NEW c \in Conn, Accepts(p, c),
             \A r \in Poller : Err2(r) => Err(r)
      PROVE  Goal
  BY <1>1 DEF Accepts, Pending
<1>2. ASSUME NEW p \in Poller, NEW c \in Conn, NEW a \in Address, AcceptsHere(p, c, a)
      PROVE  Goal
  BY <1>1, <1>2 DEF AcceptsHere
<1>3. ASSUME NEW p \in Poller, NEW c \in Conn, NEW q \in Poller, AcceptsThere(p, c, q)
      PROVE  Goal
  BY <1>1, <1>3 DEF AcceptsThere, Posted
<1>4. ASSUME NEW p \in Poller, NEW c \in Conn, NEW a \in Address, AcceptRuns(p, c, a)
      PROVE  Goal
  BY <1>k, <1>4 DEF AcceptRuns, Taken
<1>5. ASSUME NEW p \in Poller, NEW c \in Conn, Reports(p, c),
             queue' = queue \/ Taken(p, <<"err", c>>)
      PROVE  Goal
  BY <1>k, <1>5 DEF Reports, Taken
<1>6. ASSUME NEW p \in Poller, NEW c \in Conn, ShutsItself(p, c) PROVE Goal
  BY <1>k, <1>6 DEF ShutsItself, Posted
<1>7. ASSUME ServersGo PROVE Goal
  BY <1>k, <1>7 DEF ServersGo
<1>8. ASSUME NEW p \in Poller, NEW a \in Address, ErasesPosted(p, a) PROVE Goal
  BY <1>k, <1>8 DEF ErasesPosted, Taken
<1>9. ASSUME NEW p \in Poller, AcceptEnds(p) \/ Manage(p) PROVE Goal
  BY <1>k, <1>9 DEF AcceptEnds, Release, Kept, Manage
<1>10. ASSUME NEW p \in Poller, NEW c \in Conn, Vain(p, c) \/ Passes(p, c) PROVE Goal
  BY <1>k, <1>10 DEF Vain, Taken, Passes
<1>11. ASSUME NEW c \in Conn, Lookup(c) PROVE Goal
  BY <1>11 DEF Lookup, Pending
<1>12. ASSUME Closes PROVE Goal
  <2>1. user = <<"seen", user[2]>> /\ owner[user[2]] \in Poller
    BY <1>12, <1>t DEF Closes, SessionsInv, Reported, Fresh, TypeOK
  <2>2. \A r \in Poller : Err2(r) => Err(r) \/ user[2] = d
    BY <1>12, <2>1 DEF Closes, Posted
  <2> QED
    BY <1>12, <2>1, <2>2 DEF Closes, Pending
<1>13. ASSUME Forget \/ AcceptMoves \/ UNCHANGED vars PROVE Goal
  BY <1>13 DEF Forget, AcceptMoves, vars, Pending
<1> HIDE DEF Goal
<1>14. Goal
  BY <1>2, <1>3, <1>4, <1>5, <1>6, <1>7, <1>8, <1>9, <1>10, <1>11, <1>12, <1>13
     DEF SessionStep, Quiet
<1> QED
  BY <1>14 DEF Goal

\* Each of the three ways to be told is used up once.
LEMMA ToldThriceStep == SessionsInv /\ SessionStep => ToldThrice'
<1> SUFFICES ASSUME SessionsInv, SessionStep, NEW d \in Conn
             PROVE  errors'[d] <= (IF d \in fd' THEN 0 ELSE 1) + (IF Pending(d)' THEN 0 ELSE 1)
                                  + (IF Ended(d)' THEN 1 ELSE 0)
  BY DEF ToldThrice
<1> DEFINE Goal == errors'[d] <= (IF d \in fd' THEN 0 ELSE 1) + (IF Pending(d)' THEN 0 ELSE 1)
                                 + (IF Ended(d)' THEN 1 ELSE 0)
           Err(r) == Has(queue'[r], <<"err", d>>)
<1>t. TypeOK /\ errors[d] \in Nat /\ errors'[d] \in Nat /\ (Ended(d) => Ended(d)')
  BY Monotone DEF SessionsInv, LoopsSafe
<1>i. errors[d] <= (IF d \in fd THEN 0 ELSE 1) + (IF Pending(d) THEN 0 ELSE 1)
                   + (IF Ended(d) THEN 1 ELSE 0)
  BY DEF SessionsInv, ToldThrice
<1>p. /\ Pending(d)' => Pending(d) \/ owner[d] = NoPoller
      /\ d \in fd' => d \in fd \/ owner[d] = NoPoller
      /\ owner[d] = NoPoller => errors[d] = 0
  BY PendingEnds DEF SessionsInv, Fresh
<1>k. ASSUME errors'[d] = errors[d] PROVE Goal
  BY ONLY <1>k, <1>t, <1>i, <1>p
\* It ended in this step.
<1>e. ASSUME errors'[d] = errors[d] + 1, ~Ended(d), Ended(d)', owner[d] # NoPoller PROVE Goal
  BY ONLY <1>e, <1>t, <1>i, <1>p
\* Its descriptor was closed in this step.
<1>f. ASSUME errors'[d] = errors[d] + 1, d \in fd, d \notin fd', owner[d] # NoPoller PROVE Goal
  <2>1. Pending(d)
    BY <1>f DEF Pending
  <2> QED
    BY ONLY <1>f, <2>1, <1>t, <1>i, <1>p
\* Its posted error ran in this step.
<1>g. ASSUME errors'[d] = errors[d] + 1, Pending(d), ~Pending(d)', d \notin fd, d \notin fd'
      PROVE  Goal
  BY ONLY <1>g, <1>t, <1>i, <1>p
<1>1. ASSUME NEW p \in Poller, NEW c \in Conn, Accepts(p, c) PROVE Goal
  BY <1>1, <1>k DEF Accepts
<1>2. ASSUME NEW p \in Poller, NEW c \in Conn, NEW a \in Address, AcceptRuns(p, c, a)
      PROVE  Goal
  <2>1. owner[c] # NoPoller /\ key[c] = NoAddress
    BY <1>2, ServerAssumption DEF AcceptRuns, SessionsInv, Made
  <2>2. PICK maps : maps = [sessions EXCEPT ![p] = @ \cup {c}]
    OBVIOUS
  <2>3. IF d \in Mapped(maps) \ Mapped(sessions') THEN errors'[d] = errors[d] + 1
        ELSE errors'[d] = errors[d]
    BY <1>2, <2>2 DEF AcceptRuns, Told
  <2>4. ASSUME d \in Mapped(maps), d \notin Mapped(sessions') PROVE Goal
    <3>1. d = c \/ d \in Mapped(sessions)
      BY <2>2, <2>4, <1>t DEF Mapped, TypeOK
    <3>2. ~Ended(d) /\ owner[d] # NoPoller
      BY <2>1, <3>1 DEF Ended, SessionsInv, Fresh
    <3>3. key'[d] # NoAddress
      <4>1. CASE d = c
        BY <1>2, <1>t, <4>1 DEF AcceptRuns, TypeOK, Address, NoAddress
      <4>2. CASE d \in Mapped(sessions)
        BY <4>2, Monotone DEF SessionsInv, Made
      <4> QED
        BY <3>1, <4>1, <4>2
    <3>4. Ended(d)'
      BY <2>4, <3>3 DEF Ended
    <3> QED
      BY <2>3, <2>4, <3>2, <3>4, <1>e
  <2> QED
    BY <2>3, <2>4, <1>k
<1>3. ASSUME NEW p \in Poller, NEW c \in Conn, Reports(p, c), owner[c] = p, c \in watched
      PROVE  Goal
  <2>1. CASE d = c
    <3>1. errors'[d] = errors[d] + 1 /\ d \in fd /\ d \notin fd' /\ owner[d] # NoPoller
      BY <1>3, <1>t, <2>1, ServerAssumption DEF Reports, TypeOK
    <3> QED
      BY <3>1, <1>f
  <2>2. CASE d # c
    BY <1>3, <1>t, <1>k, <2>2 DEF Reports, TypeOK
  <2> QED
    BY <2>1, <2>2
<1>4. ASSUME NEW p \in Poller, NEW c \in Conn, Reports(p, c), Has(queue[p], <<"err", c>>),
             Taken(p, <<"err", c>>)
      PROVE  Goal
  <2>1. CASE d = c
    <3>1. /\ owner[d] = p /\ d \notin fd /\ user # <<"seen", d>>
          /\ Once(queue[p], <<"err", d>>)
          /\ \A r \in Poller : Has(queue[r], <<"err", d>>) => r = p
      BY <1>4, <2>1 DEF SessionsInv, Reported
    <3>2. Pending(d)
      BY <1>4, <2>1 DEF Pending
    <3>3. \A r \in Poller : ~Has(queue'[r], <<"err", d>>)
      BY <1>4, <2>1, <3>1 DEF Taken
    <3>4. ~Pending(d)' /\ d \notin fd'
      BY <1>4, <3>1, <3>3 DEF Reports, Pending
    <3>5. errors'[d] = errors[d] + 1
      BY <1>4, <1>t, <2>1 DEF Reports, TypeOK
    <3> QED
      BY <3>1, <3>2, <3>4, <3>5, <1>g
  <2>2. CASE d # c
    BY <1>4, <1>t, <1>k, <2>2 DEF Reports, TypeOK
  <2> QED
    BY <2>1, <2>2
<1>5. ASSUME NEW p \in Poller, NEW c \in Conn, ShutsItself(p, c) PROVE Goal
  <2>1. CASE d = c
    <3>1. errors'[d] = errors[d] + 1 /\ d \in fd /\ d \notin fd'
      BY <1>5, <1>t, <2>1 DEF ShutsItself, TypeOK
    <3>2. owner[d] # NoPoller
      BY <3>1 DEF SessionsInv, Fresh
    <3> QED
      BY <3>1, <3>2, <1>f
  <2>2. CASE d # c
    BY <1>5, <1>t, <1>k, <2>2 DEF ShutsItself, TypeOK
  <2> QED
    BY <2>1, <2>2
<1>6. ASSUME ServersGo PROVE Goal
  <2>1. IF d \in Mapped(sessions) \ Mapped(sessions') THEN errors'[d] = errors[d] + 1
        ELSE errors'[d] = errors[d]
    BY <1>6 DEF ServersGo, Told
  <2>2. ASSUME d \in Mapped(sessions), d \notin Mapped(sessions') PROVE Goal
    <3>1. ~Ended(d) /\ owner[d] # NoPoller /\ key[d] # NoAddress
      BY <2>2 DEF Ended, SessionsInv, Fresh, Made
    <3>2. Ended(d)'
      BY <1>6, <2>2, <3>1 DEF ServersGo, Ended
    <3> QED
      BY <2>1, <2>2, <3>1, <3>2, <1>e
  <2> QED
    BY <2>1, <2>2, <1>k
<1>7. ASSUME NEW p \in Poller, NEW a \in Address, ErasesPosted(p, a) PROVE Goal
  BY <1>7, <1>k DEF ErasesPosted
<1>8. ASSUME Quiet PROVE Goal
  BY <1>8, <1>k DEF Quiet, AcceptMoves, AcceptEnds, Manage, Vain, Passes, Lookup, Closes, Forget,
                vars
<1> HIDE DEF Goal
<1>9. Goal
  BY <1>1, <1>2, <1>3, <1>4, <1>5, <1>6, <1>7, <1>8 DEF SessionStep, AcceptsHere, AcceptsThere
<1> QED
  BY <1>9 DEF Goal

\* Erasing the key of a session that is told takes that session, or one with the key of a session
\* that has now been told twice.
LEMMA ReportCovers ==
  ASSUME SessionsInv, SessionStep, NEW p \in Poller, NEW c \in Conn, Reports(p, c),
         key[c] # NoAddress, NEW d \in sessions[p], key[d] = key[c]
  PROVE  d \in Conn /\ (d = c \/ ToldTwice(key[d])')
<1>t. TypeOK /\ OwnMap /\ LeavesTold
  BY DEF SessionsInv, LoopsSafe
<1>1. d \in Conn /\ d \in Mapped(sessions)
  BY <1>t DEF TypeOK, Mapped
<1>2. CASE c \in Mapped(sessions)
  BY <1>t, <1>1, <1>2 DEF OwnMap
<1>3. CASE c \notin Mapped(sessions)
  <2>1. errors[c] > 0 \/ \E e \in Conn : errors[e] > 1 /\ key[e] = key[c]
    BY <1>3, <1>t DEF LeavesTold
  <2>2. errors'[c] = errors[c] + 1 /\ errors[c] \in Nat /\ key' = key
    BY <1>t, Monotone DEF Reports, TypeOK
  <2>3. CASE errors[c] > 0
    <3>1. errors'[c] > 1 /\ key'[c] = key[d]
      BY <2>2, <2>3
    <3> QED
      BY <1>1, <3>1, <2>2 DEF ToldTwice
  <2>4. ASSUME NEW e \in Conn, errors[e] > 1, key[e] = key[c] PROVE ToldTwice(key[d])'
    <3>1. errors[e] \in Nat /\ errors'[e] \in Nat /\ errors[e] <= errors'[e]
      BY Monotone
    <3>2. errors'[e] > 1
      BY <3>1, <2>4
    <3> QED
      BY <1>1, <3>2, <2>2, <2>4 DEF ToldTwice
  <2> QED
    BY <1>1, <2>1, <2>3, <2>4
<1> QED
  BY <1>1, <1>2, <1>3

\* An address of a session told twice stays one.
LEMMA TwiceStays ==
  ASSUME SessionsInv, SessionStep, NEW a \in Address, ToldTwice(a) PROVE ToldTwice(a)'
<1>1. PICK e \in Conn : key[e] = a /\ errors[e] > 1
  BY DEF ToldTwice
<1>2. key[e] # NoAddress
  BY <1>1 DEF Address, NoAddress
<1>3. key'[e] = a /\ errors[e] \in Nat /\ errors'[e] \in Nat /\ errors[e] <= errors'[e]
  BY <1>1, <1>2, Monotone
<1>4. errors'[e] > 1
  BY <1>1, <1>3
<1> QED
  BY <1>3, <1>4 DEF ToldTwice

\* A session that ends is told, or its address was that of one told twice.
LEMMA ToldOrStrayStep == SessionsInv /\ SessionStep => LeavesTold'
<1> SUFFICES ASSUME SessionsInv, SessionStep, NEW d \in Conn, key'[d] # NoAddress,
                    d \notin Mapped(sessions')
             PROVE  errors'[d] > 0 \/ ToldTwice(key[d])'
  BY DEF LeavesTold, ToldTwice
<1> DEFINE Goal == errors'[d] > 0 \/ ToldTwice(key[d])'
<1>t. /\ TypeOK /\ OwnMap /\ errors[d] \in Nat /\ errors'[d] \in Nat
      /\ errors[d] <= errors'[d] /\ (key[d] # NoAddress => key'[d] = key[d])
  BY Monotone DEF SessionsInv, LoopsSafe
\* It had ended before.
<1>b. ASSUME Ended(d) PROVE Goal
  <2>1. errors[d] > 0 \/ ToldTwice(key[d])
    BY <1>b DEF SessionsInv, LeavesTold, Ended, ToldTwice
  <2>2. key[d] \in Address /\ key'[d] = key[d]
    BY <1>b, <1>t DEF Ended, TypeOK
  <2>3. ASSUME ToldTwice(key[d]) PROVE ToldTwice(key[d])'
    <3>1. PICK a \in Address : a = key[d]
      BY <2>2
    <3>2. ToldTwice(a)'
      BY <2>3, <3>1, TwiceStays
    <3> QED
      BY <2>2, <3>1, <3>2 DEF ToldTwice
  <2>4. errors[d] > 0 => errors'[d] > 0
    BY <1>t
  <2> QED
    BY <2>1, <2>3, <2>4
\* Neither its key nor the maps lose anything.
<1>k. ASSUME key' = key, \A r \in Poller : sessions[r] \subseteq sessions'[r] PROVE Goal
  BY <1>k, <1>b DEF Ended, Mapped
\* It is told now.
<1>n. ASSUME errors'[d] = errors[d] + 1 PROVE Goal
  BY ONLY <1>n, <1>t
<1>1. ASSUME NEW p \in Poller, NEW c \in Conn, NEW a \in Address, AcceptsHere(p, c, a)
      PROVE  Goal
  <2>1. d # c /\ key[d] # NoAddress /\ d \notin Mapped(sessions)
    BY <1>1, <1>t DEF AcceptsHere, Mapped, TypeOK
  <2> QED
    BY <2>1, <1>b DEF Ended
<1>2. ASSUME NEW p \in Poller, NEW c \in Conn, NEW q \in Poller, AcceptsThere(p, c, q)
      PROVE  Goal
  BY <1>2, <1>k DEF AcceptsThere
<1>3. ASSUME NEW p \in Poller, NEW c \in Conn, NEW a \in Address, AcceptRuns(p, c, a)
      PROVE  Goal
  <2>1. PICK maps : maps = [sessions EXCEPT ![p] = @ \cup {c}]
    OBVIOUS
  <2>2. d \in Mapped(maps) => errors'[d] = errors[d] + 1
    BY <1>3, <2>1 DEF AcceptRuns, Told
  <2>3. d \notin Mapped(maps) => d # c /\ d \notin Mapped(sessions)
    BY <2>1, <1>t DEF Mapped, TypeOK
  <2>4. d # c => key'[d] = key[d]
    BY <1>3, <1>t DEF AcceptRuns, TypeOK
  <2> QED
    BY <2>2, <2>3, <2>4, <1>n, <1>b DEF Ended
<1>4. ASSUME NEW p \in Poller, NEW c \in Conn, Reports(p, c), key[c] # NoAddress PROVE Goal
  <2>1. key[d] # NoAddress
    BY <1>4 DEF Reports
  <2>2. CASE d \in Mapped(sessions)
    <3>1. d \in sessions[p] /\ key[d] = key[c]
      BY <1>4, <2>2 DEF Reports, Leaves, Mapped
    <3>2. d = c \/ ToldTwice(key[d])'
      BY <1>4, <3>1, ReportCovers
    <3>3. d = c => errors'[d] = errors[d] + 1
      BY <1>4, <1>t DEF Reports, TypeOK
    <3> QED
      BY <3>2, <3>3, <1>n
  <2>3. CASE d \notin Mapped(sessions)
    BY <2>1, <2>3, <1>b DEF Ended
  <2> QED
    BY <2>2, <2>3
<1>5. ASSUME NEW p \in Poller, NEW c \in Conn, ShutsItself(p, c) PROVE Goal
  BY <1>5, <1>k DEF ShutsItself
<1>6. ASSUME ServersGo PROVE Goal
  <2>1. d \in Mapped(sessions) => errors'[d] = errors[d] + 1
    BY <1>6 DEF ServersGo, Told
  <2>2. d \notin Mapped(sessions) => Ended(d)
    BY <1>6 DEF ServersGo, Ended
  <2> QED
    BY <2>1, <2>2, <1>n, <1>b
<1>7. ASSUME NEW p \in Poller, NEW a \in Address, ErasesPosted(p, a) PROVE Goal
  <2>1. key[d] # NoAddress
    BY <1>7 DEF ErasesPosted
  <2>2. CASE d \in Mapped(sessions)
    <3>1. d \in sessions[p] /\ key[d] = a /\ p \in server
      BY <1>7, <2>2 DEF ErasesPosted, Leaves, Mapped
    <3>2. ToldTwice(a) \/ \E e \in sessions[p] : key[e] = a /\ errors[e] > 0
      BY <1>7, <3>1 DEF ErasesPosted, SessionsInv, Erased
    <3>3. CASE ToldTwice(a)
      <4>1. ToldTwice(a)'
        BY <3>3, TwiceStays
      <4>2. key'[d] = a
        BY <2>1, <3>1, <1>t
      <4> QED
        BY <4>1, <4>2 DEF ToldTwice
    <3>4. ASSUME NEW e \in sessions[p], key[e] = a, errors[e] > 0 PROVE Goal
      <4>1. e = d
        BY <2>2, <3>1, <3>4, <1>t DEF OwnMap, Mapped
      <4> QED
        BY ONLY <3>4, <4>1, <1>t
    <3> QED
      BY <3>2, <3>3, <3>4
  <2>3. CASE d \notin Mapped(sessions)
    BY <2>1, <2>3, <1>b DEF Ended
  <2> QED
    BY <2>2, <2>3
<1>8. ASSUME Quiet PROVE Goal
  <2>1. UNCHANGED <<key, sessions>>
    BY <1>8 DEF Quiet, AcceptMoves, AcceptEnds, Manage, Vain, Passes, Lookup, Closes, Forget,
                vars
  <2> QED
    BY <2>1, <1>k
<1>9. \A p \in Poller, c \in Conn :
        (owner[c] = p /\ c \in watched) \/ Has(queue[p], <<"err", c>>) => key[c] # NoAddress
  BY DEF SessionsInv, LoopsSafe, SessionFirst, Reported
<1> HIDE DEF Goal
<1>10. Goal
  BY <1>1, <1>2, <1>3, <1>4, <1>5, <1>6, <1>7, <1>8, <1>9 DEF SessionStep
<1> QED
  BY <1>10 DEF Goal

\* A posted erasure still finds the session it was posted for.
LEMMA ErasedStep == SessionsInv /\ SessionStep => Erased'
<1> SUFFICES ASSUME SessionsInv, SessionStep, NEW s \in server', NEW b \in Address,
                    Has(queue'[s], <<"erase", b>>)
             PROVE  \/ ToldTwice(b)'
                    \/ /\ \E d \in sessions'[s] : key'[d] = b /\ errors'[d] > 0 /\ d \notin fd'
                       /\ Once(queue'[s], <<"erase", b>>)
  BY DEF Erased
<1> DEFINE Goal == \/ ToldTwice(b)'
                   \/ /\ \E d \in sessions'[s] : key'[d] = b /\ errors'[d] > 0 /\ d \notin fd'
                      /\ Once(queue'[s], <<"erase", b>>)
<1>t. /\ TypeOK /\ OwnMap /\ s \in Poller
      /\ \A d \in Conn : /\ errors[d] \in Nat /\ errors'[d] \in Nat /\ errors[d] <= errors'[d]
                         /\ key[d] # NoAddress => key'[d] = key[d]
  BY TypeStep, Monotone DEF SessionsInv, LoopsSafe, TypeOK
<1>m. \A d \in sessions[s] : d \in Conn /\ d \in Mapped(sessions) /\ key'[d] = key[d]
  <2>1. \A d \in sessions[s] : d \in Conn /\ d \in Mapped(sessions)
    BY <1>t DEF Mapped, TypeOK
  <2> QED
    BY <2>1, <1>t DEF SessionsInv, Made
\* The erasure was posted before: what could disturb it.
<1>k. ASSUME Has(queue[s], <<"erase", b>>), s \in server,
             Once(queue[s], <<"erase", b>>) => Once(queue'[s], <<"erase", b>>),
             \A d \in sessions[s] : key[d] = b /\ errors[d] > 0 /\ d \notin fd =>
               d \in sessions'[s] /\ d \notin fd'
      PROVE  Goal
  <2>1. CASE ToldTwice(b)
    BY <2>1, TwiceStays
  <2>2. ASSUME NEW d \in sessions[s], key[d] = b, errors[d] > 0, d \notin fd,
               Once(queue[s], <<"erase", b>>)
        PROVE  Goal
    <3>1. d \in sessions'[s] /\ d \notin fd' /\ key'[d] = b
      BY <1>k, <1>m, <2>2
    <3>2. errors'[d] > 0
      BY <1>t, <1>m, <2>2
    <3> QED
      BY <1>k, <2>2, <3>1, <3>2
  <2> QED
    BY <1>k, <2>1, <2>2 DEF SessionsInv, Erased
<1>1. ASSUME NEW p \in Poller, NEW c \in Conn, Accepts(p, c),
             \A r \in Poller : sessions[r] \subseteq sessions'[r],
             Has(queue[s], <<"erase", b>>),
             Once(queue[s], <<"erase", b>>) => Once(queue'[s], <<"erase", b>>)
      PROVE  Goal
  <2>1. c \notin Mapped(sessions)
    BY <1>1 DEF Accepts, SessionsInv, Fresh
  <2> QED
    BY <1>1, <1>k, <1>m, <1>t, <2>1 DEF Accepts
<1>2. ASSUME NEW p \in Poller, NEW c \in Conn, NEW a \in Address, AcceptsHere(p, c, a)
      PROVE  Goal
  BY <1>1, <1>2, <1>t DEF AcceptsHere, TypeOK
<1>3. ASSUME NEW p \in Poller, NEW c \in Conn, NEW q \in Poller, AcceptsThere(p, c, q)
      PROVE  Goal
  BY <1>1, <1>3, <1>t DEF AcceptsThere, Posted
<1>4. ASSUME NEW p \in Poller, NEW c \in Conn, NEW a \in Address, AcceptRuns(p, c, a)
      PROVE  Goal
  <2>1. PICK maps : maps = [sessions EXCEPT ![p] = @ \cup {c}]
    OBVIOUS
  <2>2. sessions[s] \subseteq maps[s]
    BY <1>t, <2>1 DEF TypeOK
  <2>3. Told(maps) /\ s \in server /\ fd' \subseteq fd
    BY <1>4, <2>1 DEF AcceptRuns, Remain
  <2>4. s \in server /\ sessions[s] \subseteq sessions'[s] /\ fd' \subseteq fd
    BY <1>t, <2>2, <2>3 DEF Told
  <2>5. /\ Has(queue[s], <<"erase", b>>)
        /\ Once(queue[s], <<"erase", b>>) => Once(queue'[s], <<"erase", b>>)
    BY <1>4, <1>t DEF AcceptRuns, Taken
  <2> QED
    BY <1>k, <2>4, <2>5
<1>5. ASSUME NEW p \in Poller, NEW c \in Conn, Reports(p, c), key[c] # NoAddress,
             queue' = queue \/ Taken(p, <<"err", c>>)
      PROVE  Goal
  <2>1. /\ Has(queue[s], <<"erase", b>>) /\ s \in server
        /\ Once(queue[s], <<"erase", b>>) => Once(queue'[s], <<"erase", b>>)
    BY <1>5, <1>t DEF Reports, Taken
  <2>2. CASE s = p /\ key[c] = b
    <3>1. ASSUME NEW d \in sessions[s], key[d] = b, errors[d] > 0, d \notin fd
          PROVE  ToldTwice(b)'
      <4>1. d = c \/ ToldTwice(key[d])'
        BY <1>5, <2>2, <3>1, ReportCovers
      <4>2. CASE d = c
        <5>1. errors'[d] = errors[d] + 1 /\ key'[d] = b /\ d \in Conn
          BY <1>5, <1>t, <1>m, <3>1, <4>2 DEF Reports, TypeOK
        <5>2. errors'[d] > 1
          BY <5>1, <3>1, <1>t
        <5> QED
          BY <5>1, <5>2 DEF ToldTwice
      <4>3. CASE ToldTwice(key[d])'
        BY <4>3, <1>m, <3>1 DEF ToldTwice
      <4> QED
        BY <4>1, <4>2, <4>3
    <3>2. ToldTwice(b) => ToldTwice(b)'
      BY TwiceStays
    <3> QED
      BY <2>1, <3>1, <3>2 DEF SessionsInv, Erased
  <2>3. CASE ~(s = p /\ key[c] = b)
    BY <1>5, <1>k, <1>t, <2>1, <2>3 DEF Reports, Leaves
  <2> QED
    BY <2>2, <2>3
<1>6. ASSUME NEW p \in Poller, NEW c \in Conn, ShutsItself(p, c) PROVE Goal
  <2>1. /\ Has(queue[s], <<"erase", b>>) \/ (s = p /\ b = key[c])
        /\ s \in server /\ c \in sessions[p] /\ c \in fd /\ fd' \subseteq fd /\ c \notin fd'
        /\ sessions' = sessions
    BY <1>6, <1>t DEF ShutsItself, Posted, SessionsInv, LoopsSafe, WalkIntact
  <2>2. CASE s = p /\ b = key[c]
    <3>1. ASSUME Has(queue[s], <<"erase", b>>) PROVE ToldTwice(b)
      <4>1. ASSUME NEW d \in sessions[s], key[d] = b, d \notin fd PROVE FALSE
        BY <2>1, <2>2, <4>1, <1>m, <1>t DEF OwnMap
      <4> QED
        BY <2>1, <3>1, <4>1 DEF SessionsInv, Erased
    <3>2. ToldTwice(b) => ToldTwice(b)'
      BY TwiceStays
    <3>3. CASE ~Has(queue[s], <<"erase", b>>)
      <4>1. Once(queue[s], <<"erase", b>>)
        BY <3>3 DEF Once, Has
      <4>2. Once(queue'[s], <<"erase", b>>)
        BY <1>6, <2>2, <3>3, <4>1 DEF ShutsItself, Posted
      <4>3. c \in Conn /\ key'[c] = b /\ errors'[c] = errors[c] + 1
        BY <1>6, <1>t, <2>2 DEF ShutsItself, TypeOK
      <4>4. errors'[c] > 0
        BY <4>3, <1>t
      <4> QED
        BY <2>1, <2>2, <4>2, <4>3, <4>4
    <3> QED
      BY <3>1, <3>2, <3>3
  <2>3. CASE ~(s = p /\ b = key[c])
    <3>1. Once(queue[s], <<"erase", b>>) => Once(queue'[s], <<"erase", b>>)
      BY <1>6, <1>t, <2>3 DEF ShutsItself, Posted
    <3> QED
      BY <1>k, <2>1, <2>3, <3>1
  <2> QED
    BY <2>2, <2>3
<1>7. ASSUME ServersGo PROVE Goal
  <2>1. s \in server /\ sessions'[s] = sessions[s] /\ fd' \subseteq fd /\ queue' = queue
    BY <1>7, <1>t DEF ServersGo, Told, Remain
  <2> QED
    BY <1>k, <2>1
<1>8. ASSUME NEW p \in Poller, NEW a \in Address, ErasesPosted(p, a) PROVE Goal
  <2>1. /\ Has(queue[s], <<"erase", b>>) /\ s \in server /\ fd' \subseteq fd
        /\ Once(queue[s], <<"erase", b>>) => Once(queue'[s], <<"erase", b>>)
    BY <1>8, <1>t DEF ErasesPosted, Taken
  <2>2. CASE s = p /\ a = b
    <3>1. ~Once(queue[s], <<"erase", b>>)
      BY <1>8, <2>2 DEF ErasesPosted, Taken
    <3>2. ToldTwice(b)
      BY <2>1, <3>1 DEF SessionsInv, Erased
    <3> QED
      BY <3>2, TwiceStays
  <2>3. CASE ~(s = p /\ a = b)
    BY <1>8, <1>k, <1>t, <2>1, <2>3 DEF ErasesPosted, Leaves
  <2> QED
    BY <2>2, <2>3
<1>9. ASSUME Quiet PROVE Goal
  <2>1. server' = server /\ sessions' = sessions /\ fd' \subseteq fd
    BY <1>9 DEF Quiet, AcceptMoves, AcceptEnds, Release, Kept, Manage, Vain, Passes, Lookup, Closes,
                Forget,
                vars
  <2>2. /\ Has(queue[s], <<"erase", b>>)
        /\ Once(queue[s], <<"erase", b>>) => Once(queue'[s], <<"erase", b>>)
    <3>1. queue' = queue \/ Closes \/ \E p \in Poller, c \in Conn : Vain(p, c)
      BY <1>9 DEF Quiet, AcceptMoves, AcceptEnds, Manage, Passes, Lookup, Forget, vars
    <3>2. CASE Closes
      BY <3>2, <1>t DEF Closes, Posted
    <3>3. ASSUME NEW p \in Poller, NEW c \in Conn, Vain(p, c)
          PROVE  /\ Has(queue[s], <<"erase", b>>)
                 /\ Once(queue[s], <<"erase", b>>) => Once(queue'[s], <<"erase", b>>)
      BY <3>3, <1>t DEF Vain, Taken
    <3> QED
      BY <3>1, <3>2, <3>3
  <2> QED
    BY <1>k, <2>1, <2>2
<1>10. \A p \in Poller, c \in Conn :
         (owner[c] = p /\ c \in watched) \/ Has(queue[p], <<"err", c>>) => key[c] # NoAddress
  BY DEF SessionsInv, LoopsSafe, SessionFirst, Reported
<1> HIDE DEF Goal
<1>11. Goal
  BY <1>2, <1>3, <1>4, <1>5, <1>6, <1>7, <1>8, <1>9, <1>10 DEF SessionStep
<1> QED
  BY <1>11 DEF Goal

-----------------------------------------------------------------------------
\* SessionsInv is inductive.
LEMMA SessionsInvHolds == Spec => []SessionsInv
<1>1. Init => SessionsInv
  <2> SUFFICES ASSUME Init PROVE SessionsInv
    OBVIOUS
  <2>1. \A p \in Poller : \A x : ~Has(queue[p], x)
    BY DEF Init, Has
  <2>2. TypeOK
    <3>1. 0 \in 0 .. MaxConn /\ 0 \in 0 .. 3
      BY ServerAssumption
    <3>2. <<>> \in Seq({"accept", "err"} \X Conn \cup {"erase"} \X Address)
      BY EmptySeq
    <3> QED
      BY <3>1, <3>2 DEF Init, TypeOK
  <2>3. Mapped(sessions) = {}
    BY DEF Init, Mapped
  <2>4. LoopsSafe
    BY <2>2, <2>3, ServerAssumption
       DEF Init, LoopsSafe, SessionFirst, OwnMap, WalkIntact, OrphansBusy
  <2>5. LeavesTold /\ Fresh
    BY <2>3 DEF Init, LeavesTold, Fresh
  <2>6. Made /\ Served /\ Reported /\ Erased
    BY <2>1, <2>3 DEF Init, Made, Served, Reported, Erased
  <2>7. ToldThrice
    BY DEF Init, ToldThrice
  <2>8. WholeWhileHeld
    BY DEF Init, WholeWhileHeld
  <2> QED
    BY <2>2, <2>4, <2>5, <2>6, <2>7, <2>8 DEF SessionsInv
<1>2. SessionsInv /\ [Next]_vars => SessionsInv'
  <2> SUFFICES ASSUME SessionsInv, [Next]_vars PROVE SessionsInv'
    OBVIOUS
  <2>1. SessionStep
    BY StepsOfServer
  <2> QED
    BY <2>1, TypeStep, FreshStep, MadeStep, ServedStep, ReportedStep, SessionFirstStep,
       OwnMapStep,
       WalkIntactStep, OrphansStep, WholeStep, ToldThriceStep, ToldOrStrayStep, ErasedStep
       DEF SessionsInv, LoopsSafe
<1> QED
  BY <1>1, <1>2, PTL DEF Spec

\* Whatever pollers accept, break, walk their sessions or go, and whatever the user thread does in
\* between: callbacks exist before events, each map is touched by its own thread, and nothing is
\* erased under a walk.  While the user holds the server no accept callback uses one that has
\* gone; from then on it all is so until one does.
THEOREM SessionsSafe == Spec => []TcpSessionsSafe
<1>1. SessionsInv => TcpSessionsSafe
  BY DEF SessionsInv, TcpSessionsSafe
<1> QED
  BY <1>1, SessionsInvHolds, PTL

\* A session that left its map was told of it, but for one at the address of a session that was
\* told twice, and until an accept callback has used a server that has gone.
THEOREM SessionsTold == Spec => []ToldOrStray
<1>1. SessionsInv => ToldOrStray
  BY DEF SessionsInv, ToldOrStray
<1> QED
  BY <1>1, SessionsInvHolds, PTL
=============================================================================
