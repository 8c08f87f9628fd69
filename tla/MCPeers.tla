------------------------------ MODULE MCPeers -------------------------------
(***************************************************************************)
(* Instances for TLC of TcpClient, which connects, of UdpSessions, the     *)
(* server of peers without connections, and of what their pollers keep:    *)
(* PollerEvents, the table of descriptors, Timer, the delay tasks, and     *)
(* Clock, the time they are counted with.  `unit` says which of them a     *)
(* behaviour is about; the others stay as they started.                    *)
(*                                                                         *)
(* Theorems about TcpClient, for any number of attempts and of calls of    *)
(* shutdown; about UdpSessions, PollerEvents, Timer and Clock, as they are *)
(* composed here.                                                          *)
(***************************************************************************)
EXTENDS TcpClient, SequenceTheorems, FiniteSetTheorems, TLAPS

CONSTANTS
  Poller, Peer, MaxDatagram, MaxSession, Fd, MaxWatcher, Period, MaxBegin, MaxNow, Reader,
  Milli, Limit, MaxReal, MaxStep, MaxSets

\* Descriptors are few and 0 is none of them; periods, bounds and units of time are numbers, and
\* a second and a millisecond are not nothing.
ASSUME PollerAssumption ==
  /\ IsFiniteSet(Fd) /\ 0 \notin Fd /\ MaxWatcher \in Nat
  /\ Period \subseteq Nat /\ MaxBegin \in Nat
  /\ Milli \in Nat \ {0} /\ Limit \in Nat \ {0} /\ MaxStep \in Nat /\ MaxSets \in Nat

VARIABLES
  unit,
  sessions_sender, sessions_arrived, sessions_inbox, sessions_queue, sessions_doing,
  sessions_home, sessions_peer, sessions_sessionMap, sessions_live, sessions_handled,
  sessions_dangling, sessions_via,
  events_build, events_made, events_fd_of, events_epoll, events_event_map, events_signal,
  events_batch, events_tasks, events_calling, events_reused,
  timers_now, timers_period, timers_tag, timers_begun, timers_due, timers_cancelled,
  timers_round, timers_calls, timers_refused, timers_live, timers_stray,
  stamps_real, stamps_offset, stamps_sets, stamps_at, stamps_now, stamps_last,
  stamps_microsecond, stamps_stamps, stamps_seen, stamps_missed

sessionsVars ==
  <<sessions_sender, sessions_arrived, sessions_inbox, sessions_queue, sessions_doing,
    sessions_home, sessions_peer, sessions_sessionMap, sessions_live, sessions_handled,
    sessions_dangling, sessions_via>>
eventsVars ==
  <<events_build, events_made, events_fd_of, events_epoll, events_event_map, events_signal,
    events_batch, events_tasks, events_calling, events_reused>>
timersVars ==
  <<timers_now, timers_period, timers_tag, timers_begun, timers_due, timers_cancelled,
    timers_round, timers_calls, timers_refused, timers_live, timers_stray>>
stampsVars ==
  <<stamps_real, stamps_offset, stamps_sets, stamps_at, stamps_now, stamps_last,
    stamps_microsecond, stamps_stamps, stamps_seen, stamps_missed>>

Sessions == INSTANCE UdpSessions WITH
  sender <- sessions_sender, arrived <- sessions_arrived, inbox <- sessions_inbox,
  queue <- sessions_queue, doing <- sessions_doing, home <- sessions_home,
  peer <- sessions_peer, sessionMap <- sessions_sessionMap, live <- sessions_live,
  handled <- sessions_handled, dangling <- sessions_dangling, via <- sessions_via

Events == INSTANCE PollerEvents WITH
  build <- events_build, made <- events_made, fd_of <- events_fd_of, epoll <- events_epoll,
  event_map <- events_event_map, signal <- events_signal, batch <- events_batch,
  tasks <- events_tasks, calling <- events_calling, reused <- events_reused

Timers == INSTANCE Timer WITH
  now <- timers_now, period <- timers_period, tag <- timers_tag, begun <- timers_begun,
  due <- timers_due, cancelled <- timers_cancelled, round <- timers_round,
  calls <- timers_calls, refused <- timers_refused, live <- timers_live,
  stray <- timers_stray

Stamps == INSTANCE Clock WITH
  MaxNow <- MaxReal, real <- stamps_real, offset <- stamps_offset, sets <- stamps_sets,
  at <- stamps_at, now <- stamps_now, last <- stamps_last,
  microsecond <- stamps_microsecond, stamps <- stamps_stamps, seen <- stamps_seen,
  missed <- stamps_missed

PeersInit ==
  /\ unit \in {"client", "sessions", "events", "timers", "stamps"}
  /\ Init
  /\ Sessions!Init
  /\ Events!Init
  /\ Timers!Init
  /\ Stamps!Init

PeersNext ==
  /\ UNCHANGED unit
  /\ IF unit = "client" THEN Next ELSE UNCHANGED vars
  /\ IF unit = "sessions" THEN Sessions!Next ELSE UNCHANGED sessionsVars
  /\ IF unit = "events" THEN Events!Next ELSE UNCHANGED eventsVars
  /\ IF unit = "timers" THEN Timers!Next ELSE UNCHANGED timersVars
  /\ IF unit = "stamps" THEN Stamps!Next ELSE UNCHANGED stampsVars

peersVars == <<unit, vars, sessionsVars, eventsVars, timersVars, stampsVars>>

PeersSpec ==
  /\ PeersInit /\ [][PeersNext]_peersVars
  /\ Fairness
  /\ Sessions!Fairness
  /\ Events!Fairness

(* Two threads that read the same peer agree on one session, and what they read reaches that
   session once and on its own thread. *)
UdpSessionsSafe == Sessions!UdpSessionsSafe

(* A datagram that was read is handled, or its session failed, or the reference dangled; and
   what happens to a descriptor that is watched is taken up by the loop. *)
Consumed == Sessions!Consumed /\ Events!EventsReach

(* The descriptors that a poller watches, the timers it calls back, and the time it goes by. *)
PollerRight ==
  /\ [](Events!PollerEventsRight /\ Timers!TimerRight /\ Stamps!ClockRight)
  /\ Events!NoneAfterDel /\ [][Stamps!NeverBack]_stampsVars

-----------------------------------------------------------------------------
(* Theorems.  SockInv is about the socket: who owns a descriptor, what can still call back and
   what it finds reported.  ClientInv adds the client: a connection is lost only where a new
   one is on its way. *)

\* What the client does to its socket.
SockNext ==
  \/ \E r \in Result : ConnectStart(r) \/ Connected(r) \/ ConTimeout(r)
  \/ \E r \in Result, m \in inbox : Resolved(m, r)
  \/ \E a \in Attempt : Resolve(a) \/ DelEvent(a)
  \/ Connectable \/ (CloseHere /\ connecting = 0) \/ CloseThere
  \/ UNCHANGED sockVars

\* A step of the client or the pool thread is one of these, or leaves the socket alone.
LEMMA SocketSteps == [Next]_vars => SockNext
<1> SUFFICES ASSUME [Next]_vars PROVE SockNext
  OBVIOUS
<1> USE DEF SockNext
<1>1. CASE ConnectCall \/ ReconnectFires
  BY <1>1 DEF ConnectCall, ReconnectFires
<1>2. CASE AnswerArrives
  BY <1>2 DEF AnswerArrives
<1>3. CASE ConnectBegins \/ ConnectEnds \/ ConnectTimesOut
  BY <1>3 DEF ConnectBegins, ConnectEnds, ConnectTimesOut
<1>4. CASE PeerCloses \/ ErrorRuns
  BY <1>4 DEF PeerCloses, ErrorRuns
<1>5. CASE (\E a \in Attempt : DelEvent(a)) \/ PoolThread
  BY <1>5 DEF PoolThread
<1>6. CASE User
  BY <1>6 DEF User, StartConnect, Shutdown, EmitErr, CloseSock, PostErr, Destroy, DestroyCrashes
<1>7. CASE UNCHANGED vars
  BY <1>7 DEF vars
<1> QED
  BY <1>1, <1>2, <1>3, <1>4, <1>5, <1>6, <1>7 DEF Next, Loop

\* The types hold at first.
LEMMA SockTypeInit == SockInit => SockTypeOK
<1>1. <<>> \in Seq(Error \cup {"ok"})
  BY EmptySeq
<1>2. 0 \in 0 .. MaxAttempt
  BY AttemptAssumption
<1> QED
  BY <1>1, <1>2 DEF SockInit, SockTypeOK

\* A result is added to those of one attempt.
LEMMA Reported ==
  ASSUME SockTypeOK, NEW a \in Attempt, NEW r \in Error \cup {"ok"}, Report(a, r)
  PROVE  /\ results' \in [Attempt -> Seq(Error \cup {"ok"})]
         /\ results'[a] = Append(results[a], r)
         /\ \A b \in Attempt \ {a} : results'[b] = results[b]
<1>1. results \in [Attempt -> Seq(Error \cup {"ok"})]
  BY DEF SockTypeOK
<1>2. Append(results[a], r) \in Seq(Error \cup {"ok"})
  BY <1>1, AppendProperties
<1> QED
  BY <1>1, <1>2 DEF Report

\* They are kept, one case per action.
LEMMA SockTypeStep == SockTypeOK /\ SockNext => SockTypeOK'
<1> SUFFICES ASSUME SockTypeOK, SockNext PROVE SockTypeOK'
  OBVIOUS
<1>0. /\ MaxAttempt \in Nat /\ 0 \in 0 .. MaxAttempt /\ attempt \in 0 .. MaxAttempt
      /\ con_timer \in 0 .. MaxAttempt /\ async_con_cb \in 0 .. MaxAttempt
      /\ sock_fd \in 0 .. MaxAttempt /\ connecting \in 0 .. MaxAttempt
      /\ attached \in BOOLEAN /\ resolver \subseteq Attempt /\ closing \subseteq Attempt
      /\ open \subseteq Attempt /\ inbox \subseteq Attempt \X BOOLEAN
      /\ results \in [Attempt -> Seq(Error \cup {"ok"})]
  BY AttemptAssumption DEF SockTypeOK
<1>1. ASSUME NEW a \in Attempt, NEW r \in Error \cup {"ok"}, NEW kept \in SUBSET Attempt,
             ConError(a, r, kept), inbox' \in SUBSET (Attempt \X BOOLEAN),
             UNCHANGED <<attempt, resolver, closing>>, connecting' \in 0 .. MaxAttempt
      PROVE  SockTypeOK'
  <2>1. results' \in [Attempt -> Seq(Error \cup {"ok"})]
    BY <1>1, Reported DEF ConError
  <2> QED
    BY <1>0, <1>1, <2>1 DEF ConError, SockTypeOK
<1>2. ASSUME NEW r \in Result, ConnectStart(r) PROVE SockTypeOK'
  <2> DEFINE a == attempt + 1
  <2>1. a \in Attempt /\ a \in 0 .. MaxAttempt
    BY <1>0, <1>2 DEF ConnectStart, Attempt
  <2>2. CASE UNCHANGED results
    BY <1>0, <1>2, <2>1, <2>2 DEF ConnectStart, Watch, SockTypeOK, Attempt
  <2>3. CASE r \in {"dns", "other"} /\ Report(a, r)
    <3>1. results' \in [Attempt -> Seq(Error \cup {"ok"})]
      BY <2>1, <2>3, Reported DEF Error
    <3> QED
      BY <1>0, <1>2, <2>1, <3>1 DEF ConnectStart, Watch, SockTypeOK
  <2> QED
    BY <1>2, <2>2, <2>3 DEF ConnectStart, Watch
<1>3. ASSUME NEW r \in Result, Connected(r) PROVE SockTypeOK'
  <2>1. connecting \in Attempt /\ 0 \in 0 .. MaxAttempt
    BY <1>0, <1>3 DEF Connected, Attempt
  <2> DEFINE kept == IF sock_fd = connecting THEN open ELSE open \ {connecting}
  <2>2. kept \in SUBSET Attempt
    BY <1>0
  <2>3. CASE r \in {"refused", "other"} /\ ConError(connecting, r, kept)
    <3>1. r \in Error \cup {"ok"}
      BY <2>3 DEF Error
    <3> HIDE DEF kept
    <3> QED
      BY <1>0, <1>1, <1>3, <2>1, <2>2, <2>3, <3>1 DEF Connected
  <2>4. CASE /\ con_timer' = 0 /\ async_con_cb' = 0
             /\ attached' = (sock_fd = connecting) /\ open' = kept
             /\ Report(connecting, "ok") /\ UNCHANGED sock_fd
    <3>1. results' \in [Attempt -> Seq(Error \cup {"ok"})]
      BY <2>1, <2>4, Reported
    <3> QED
      BY <1>0, <1>3, <2>1, <2>4, <3>1 DEF Connected, SockTypeOK
  <2> QED
    BY <1>3, <2>3, <2>4 DEF Connected
<1>4. ASSUME NEW r \in Result, ConTimeout(r) PROVE SockTypeOK'
  <2>1. con_timer \in Attempt
    BY <1>0, <1>4 DEF ConTimeout, Attempt
  <2>2. "timeout" \in Error \cup {"ok"}
    BY DEF Error
  <2> QED
    BY <1>0, <1>1, <1>4, <2>1, <2>2 DEF ConTimeout
<1>5. ASSUME NEW r \in Result, NEW m \in inbox, Resolved(m, r) PROVE SockTypeOK'
  <2>a. PICK a \in Attempt, ok \in BOOLEAN : m = <<a, ok>>
    BY <1>0
  <2>b. m[1] \in Attempt /\ m[1] \in 0 .. MaxAttempt
    BY <2>a DEF Attempt
  <2>c. /\ inbox' = inbox \ {m} /\ connecting' = connecting
        /\ UNCHANGED <<attempt, connecting, resolver, closing>>
    BY <1>5 DEF Resolved
  <2>1. /\ m[1] \in Attempt /\ m[1] \in 0 .. MaxAttempt
        /\ {"dns", "other"} \subseteq Error \cup {"ok"}
        /\ open \ {m[1]} \in SUBSET Attempt /\ open \in SUBSET Attempt
        /\ inbox' \in SUBSET (Attempt \X BOOLEAN) /\ connecting' \in 0 .. MaxAttempt
    BY <1>0, <2>b, <2>c DEF Error
  <2>2. CASE UNCHANGED results /\ UNCHANGED con_timer
    BY <1>0, <1>5, <2>1, <2>2 DEF Resolved, Watch, SockTypeOK, ConError
  <2>3. CASE ConError(m[1], "dns", open)
    BY <1>1, <1>5, <2>1, <2>3 DEF Resolved
  <2>4. CASE ConError(m[1], "other", open \ {m[1]})
    BY <1>1, <1>5, <2>1, <2>4 DEF Resolved
  <2> QED
    BY <1>5, <2>2, <2>3, <2>4 DEF Resolved, Watch
<1>6. ASSUME NEW a \in Attempt, Resolve(a) PROVE SockTypeOK'
  BY <1>0, <1>6 DEF Resolve, SockTypeOK
<1>7. ASSUME NEW a \in Attempt, DelEvent(a) PROVE SockTypeOK'
  BY <1>0, <1>7 DEF DelEvent, SockTypeOK
<1>8. CASE Connectable
  BY <1>0, <1>8 DEF Connectable, SockTypeOK
<1>9. CASE CloseHere
  BY <1>0, <1>9 DEF CloseHere, SockTypeOK
<1>10. CASE CloseThere
  <2>1. {sock_fd} \ {0, connecting} \subseteq Attempt
    BY <1>0 DEF Attempt
  <2> QED
    BY <1>0, <1>10, <2>1 DEF CloseThere, SockTypeOK
<1>11. CASE UNCHANGED sockVars
  BY <1>11 DEF sockVars, SockTypeOK
<1> QED
  BY <1>2, <1>3, <1>4, <1>5, <1>6, <1>7, <1>8, <1>9, <1>10, <1>11 DEF SockNext

-----------------------------------------------------------------------------
(* Attempts are kept apart.                                                *)

\* Attempts whose answer was posted.
Answered == {a \in Attempt : \E ok \in BOOLEAN : <<a, ok>> \in inbox}

\* Attempts the socket is still busy with: with the resolver, answered, or given up.
Apart ==
  /\ resolver \cap Answered = {} /\ closing \cap (Answered \cup resolver) = {}
  /\ \A a \in Attempt : <<a, TRUE>> \in inbox => <<a, FALSE>> \notin inbox
  /\ \A f \in {sock_fd, connecting} : f \notin closing \cup Answered \cup resolver

\* What can call back belongs to the newest attempt, which is the last that was made.
Newest ==
  /\ {con_timer, async_con_cb, sock_fd, connecting} \subseteq {0, attempt}
  /\ \A a \in resolver \cup Answered \cup closing : a <= attempt

\* Who can still report finds that nothing was reported, but for the timer of an attempt that
\* failed at once.
Unreported ==
  /\ \A a \in Attempt : a > attempt => results[a] = <<>>
  /\ async_con_cb # 0 => results[async_con_cb] = <<>>
  /\ sock_fd # 0 /\ ~attached => results[sock_fd] = <<>>
  /\ connecting # 0 => results[connecting] = <<>> /\ ~attached
  /\ con_timer # 0 => \/ results[con_timer] = <<>>
                      \/ Len(results[con_timer]) = 1 /\ results[con_timer][1] \in {"dns", "other"}
  /\ attached => con_timer = 0 /\ async_con_cb = 0 /\ sock_fd # 0

SockInv == SockTypeOK /\ Apart /\ Newest /\ NoLeak /\ Unreported /\ OneResult

\* The types, one variable at a time.
LEMMA SockParts ==
  ASSUME SockTypeOK
  PROVE  /\ MaxAttempt \in Nat /\ attempt \in 0 .. MaxAttempt /\ con_timer \in 0 .. MaxAttempt
         /\ async_con_cb \in 0 .. MaxAttempt /\ sock_fd \in 0 .. MaxAttempt
         /\ connecting \in 0 .. MaxAttempt /\ 0 \notin Attempt
         /\ \A n \in 0 .. MaxAttempt : n # 0 => n \in Attempt
         /\ attached \in BOOLEAN /\ resolver \subseteq Attempt /\ closing \subseteq Attempt
         /\ open \subseteq Attempt /\ inbox \subseteq Attempt \X BOOLEAN
         /\ results \in [Attempt -> Seq(Error \cup {"ok"})]
BY AttemptAssumption DEF SockTypeOK, Attempt

\* Nothing is under way for the next attempt.
LEMMA NextFree ==
  ASSUME SockInv, attempt < MaxAttempt
  PROVE  /\ attempt + 1 \in Attempt /\ attempt + 1 # 0 /\ attempt + 1 # attempt
         /\ attempt + 1 \notin resolver \cup Answered \cup closing
         /\ attempt + 1 \notin {con_timer, async_con_cb, sock_fd, connecting}
         /\ results[attempt + 1] = <<>>
<1>1. SockTypeOK /\ Newest /\ Unreported
  BY DEF SockInv
<1>2. MaxAttempt \in Nat /\ attempt \in 0 .. MaxAttempt
  BY <1>1, SockParts
<1>3. /\ attempt + 1 \in Attempt /\ attempt + 1 # 0 /\ attempt + 1 # attempt
      /\ attempt + 1 > attempt /\ ~(attempt + 1 <= attempt)
  BY <1>2 DEF Attempt
<1> QED
  BY <1>1, <1>3 DEF Newest, Unreported

\* The owners of descriptors and answers stay apart.
LEMMA ApartStep == SockInv /\ SockNext => (Apart /\ Newest /\ NoLeak)'
<1> SUFFICES ASSUME SockInv, SockNext PROVE (Apart /\ Newest /\ NoLeak)'
  OBVIOUS
<1>0. SockTypeOK /\ Apart /\ Newest /\ NoLeak
  BY DEF SockInv
<1> USE SockParts
<1>1. ASSUME NEW r \in Result, ConnectStart(r) PROVE (Apart /\ Newest /\ NoLeak)'
  <2> DEFINE a == attempt + 1
  <2>1. /\ a \in Attempt /\ a # 0 /\ a # attempt /\ a \notin resolver \cup Answered \cup closing
        /\ a \notin {con_timer, async_con_cb, sock_fd, connecting}
        /\ \A b \in Attempt : b <= attempt => b <= a
    BY <1>0, <1>1, NextFree DEF ConnectStart, Attempt
  <2>2. /\ attempt' = a /\ connecting = 0 /\ UNCHANGED <<connecting, inbox, closing>>
        /\ {con_timer', async_con_cb', sock_fd'} \subseteq {0, a}
        /\ \/ resolver' = resolver \cup {a} /\ sock_fd' = 0 /\ open' = open \ {sock_fd}
           \/ resolver' = resolver /\ sock_fd' = a /\ open' = (open \ {sock_fd}) \cup {a}
           \/ resolver' = resolver /\ sock_fd' = 0 /\ open' = open \ {sock_fd}
    BY <1>1 DEF ConnectStart, Watch
  <2> HIDE DEF a
  <2>3. Answered' = Answered
    BY <2>2 DEF Answered
  <2>4. Apart'
    BY <1>0, <2>1, <2>2, <2>3 DEF Apart
  <2>a. \A b \in resolver \cup Answered \cup closing : b <= a
    BY <1>0, <2>1 DEF Newest, Answered
  <2>b. a <= a
    BY <2>1 DEF Attempt
  <2>5. Newest'
    BY <1>0, <2>2, <2>3, <2>a, <2>b DEF Newest
  <2>6. NoLeak'
    BY <1>0, <2>1, <2>2 DEF NoLeak, Apart, Answered
  <2> QED
    BY <2>4, <2>5, <2>6
<1>2. ASSUME NEW r \in Result, Connected(r) PROVE (Apart /\ Newest /\ NoLeak)'
  <2>1. /\ UNCHANGED <<attempt, resolver, inbox, closing>> /\ connecting # 0 /\ connecting' = 0
        /\ {con_timer', async_con_cb'} = {0} /\ Answered' = Answered
        /\ \/ /\ sock_fd' = 0
              /\ open' = (IF sock_fd = connecting THEN open ELSE open \ {connecting}) \ {sock_fd}
           \/ /\ sock_fd' = sock_fd
              /\ open' = IF sock_fd = connecting THEN open ELSE open \ {connecting}
    BY <1>2 DEF Connected, ConError, Answered
  <2>2. sock_fd' \in {0, sock_fd}
    BY <2>1
  <2>3a. 0 \notin closing \cup Answered \cup resolver
    BY <1>0 DEF Answered
  <2>a. Apart'
    BY <1>0, <2>1, <2>2, <2>3a DEF Apart
  <2>b. Newest'
    BY <1>0, <2>1, <2>2 DEF Newest
  <2>3. NoLeak'
    BY <1>0, <2>1 DEF NoLeak, Apart, Answered
  <2> QED
    BY <2>a, <2>b, <2>3
<1>3. ASSUME connecting = 0, sock_fd' = 0, con_timer' = 0, async_con_cb' = 0,
             open' = open \ {sock_fd},
             UNCHANGED <<attempt, connecting, resolver, inbox, closing>>
      PROVE (Apart /\ Newest /\ NoLeak)'
  <2>1. Answered' = Answered
    BY <1>3 DEF Answered
  <2>2. Apart' /\ Newest'
    BY <1>0, <1>3, <2>1 DEF Apart, Newest
  <2>3. NoLeak'
    BY <1>0, <1>3 DEF NoLeak, Apart, Answered
  <2> QED
    BY <2>2, <2>3
<1>4. ASSUME NEW r \in Result, ConTimeout(r) \/ (CloseHere /\ connecting = 0)
      PROVE  (Apart /\ Newest /\ NoLeak)'
  BY <1>3, <1>4 DEF ConTimeout, ConError, CloseHere
<1>5. ASSUME NEW r \in Result, NEW m \in inbox, Resolved(m, r) PROVE (Apart /\ Newest /\ NoLeak)'
  <2>1. PICK a \in Attempt, ok \in BOOLEAN : m = <<a, ok>>
    BY <1>0
  <2>2. /\ m[1] = a /\ m[2] = ok /\ a \in Answered
    BY <2>1 DEF Answered
  <2>3. /\ a \notin {sock_fd, connecting} \cup closing \cup resolver
        /\ ok => <<a, FALSE>> \notin inbox
        /\ ~ok => <<a, TRUE>> \notin inbox
    BY <1>0, <2>1, <2>2 DEF Apart
  <2>4. /\ inbox' = inbox \ {<<a, ok>>} /\ connecting = 0
        /\ UNCHANGED <<attempt, connecting, resolver, closing>>
    BY <1>5, <2>1 DEF Resolved
  <2>5. /\ Answered' = Answered \ {a}
        /\ \A b \in Attempt \ {a} : \A t \in BOOLEAN : <<b, t>> \in inbox' <=> <<b, t>> \in inbox
    BY <1>0, <2>1, <2>3, <2>4 DEF Answered
  <2>6. <<a, TRUE>> \notin inbox' /\ <<a, FALSE>> \notin inbox'
    BY <2>1, <2>3, <2>4
  <2>7. CASE /\ async_con_cb # a /\ open' = open \ {a}
             /\ UNCHANGED <<con_timer, async_con_cb, sock_fd>>
    <3>1. Apart' /\ Newest'
      BY <1>0, <2>3, <2>4, <2>5, <2>7 DEF Apart, Newest
    <3>2. NoLeak'
      BY <1>0, <2>3, <2>4, <2>5, <2>6, <2>7 DEF NoLeak
    <3> QED
      BY <3>1, <3>2
  <2>8. CASE async_con_cb = a
    <3>1. a = attempt /\ sock_fd = 0
      BY <1>0, <2>3, <2>8 DEF Newest
    <3>2. \/ /\ con_timer' = 0 /\ async_con_cb' = 0 /\ sock_fd' = 0
             /\ \/ ~ok /\ open' = open
                \/ ok /\ open' = open \ {a}
          \/ ok /\ sock_fd' = a /\ UNCHANGED <<con_timer, async_con_cb, open>>
      BY <1>0, <1>5, <2>2, <2>8, <3>1 DEF Resolved, Watch, ConError
    <3>3. Apart'
      BY <1>0, <2>3, <2>4, <2>5, <3>1, <3>2 DEF Apart
    <3>4. Newest'
      BY <1>0, <2>4, <2>5, <3>1, <3>2 DEF Newest
    <3>5. NoLeak'
      BY <1>0, <2>1, <2>3, <2>4, <2>5, <2>6, <3>1, <3>2 DEF NoLeak
    <3> QED
      BY <3>3, <3>4, <3>5
  <2> QED
    BY <1>5, <2>2, <2>7, <2>8 DEF Resolved
<1>6. ASSUME NEW a \in Attempt, Resolve(a) PROVE (Apart /\ Newest /\ NoLeak)'
  <2>1. PICK ok \in BOOLEAN : /\ inbox' = inbox \cup {<<a, ok>>}
                             /\ open' = IF ok THEN open \cup {a} ELSE open
    BY <1>6 DEF Resolve
  <2>2. /\ a \in resolver /\ resolver' = resolver \ {a}
        /\ UNCHANGED <<attempt, con_timer, async_con_cb, sock_fd, connecting, closing>>
    BY <1>6 DEF Resolve
  <2>3. Answered' = Answered \cup {a} /\ a \notin Answered
    BY <1>0, <2>1, <2>2 DEF Answered, Apart
  <2>4. /\ <<a, TRUE>> \notin inbox /\ <<a, FALSE>> \notin inbox
        /\ \A b \in Attempt : \A t \in BOOLEAN :
             <<b, t>> \in inbox' <=> <<b, t>> \in inbox \/ (b = a /\ t = ok)
    BY <2>1, <2>3 DEF Answered
  <2>5. Apart'
    BY <1>0, <2>2, <2>3, <2>4 DEF Apart
  <2>6. Newest'
    BY <1>0, <2>2, <2>3 DEF Newest
  <2>7. NoLeak'
    BY <1>0, <2>1, <2>2, <2>4 DEF NoLeak
  <2> QED
    BY <2>5, <2>6, <2>7
<1>7. ASSUME NEW a \in Attempt, DelEvent(a) PROVE (Apart /\ Newest /\ NoLeak)'
  <2>1. Answered' = Answered
    BY <1>7 DEF DelEvent, Answered
  <2>2. Apart' /\ Newest'
    BY <1>0, <1>7, <2>1 DEF DelEvent, Apart, Newest
  <2>3. NoLeak'
    BY <1>0, <1>7 DEF DelEvent, NoLeak, Apart, Answered
  <2> QED
    BY <2>2, <2>3
<1>8. CASE Connectable
  <2>1. Answered' = Answered
    BY <1>8 DEF Connectable, Answered
  <2> QED
    BY <1>0, <1>8, <2>1 DEF Connectable, Apart, Newest, NoLeak
<1>9. CASE CloseThere
  <2>1. Answered' = Answered
    BY <1>9 DEF CloseThere, Answered
  <2>2. sock_fd # 0 => sock_fd \in Attempt /\ sock_fd = attempt /\ attempt <= attempt
    BY <1>0 DEF Newest
  <2>5. 0 \notin closing \cup Answered \cup resolver
    BY <1>0 DEF Answered
  <2>6. closing' = closing \cup ({sock_fd} \ {0, connecting}) /\ sock_fd' = 0
        /\ UNCHANGED <<resolver, inbox, open, connecting>>
    BY <1>9 DEF CloseThere
  <2>7. Apart'
    BY <1>0, <2>1, <2>5, <2>6 DEF Apart
  <2>8. NoLeak'
    BY <1>0, <2>5, <2>6 DEF NoLeak
  <2>3. Apart' /\ NoLeak'
    BY <2>7, <2>8
  <2>4. Newest'
    BY <1>0, <1>9, <2>1, <2>2 DEF CloseThere, Newest
  <2> QED
    BY <2>3, <2>4
<1>10. CASE UNCHANGED sockVars
  <2>1. Answered' = Answered
    BY <1>10 DEF sockVars, Answered
  <2> QED
    BY <1>0, <1>10, <2>1 DEF sockVars, Apart, Newest, NoLeak
<1> QED
  BY <1>1, <1>2, <1>4, <1>5, <1>6, <1>7, <1>8, <1>9, <1>10 DEF SockNext, Result

-----------------------------------------------------------------------------
(* Results.                                                                *)

\* An attempt that reported nothing reports its first result, one that failed at once its timeout.
LEMMA ReportKept ==
  ASSUME SockTypeOK, OneResult, Unreported, NEW a \in Attempt, NEW r \in Error \cup {"ok"},
         Report(a, r), attempt' \in Nat, attempt <= attempt', a <= attempt',
         \/ results[a] = <<>>
         \/ Len(results[a]) = 1 /\ results[a][1] \in {"dns", "other"} /\ r = "timeout"
  PROVE  /\ OneResult'
         /\ \A b \in Attempt : b > attempt' => results'[b] = <<>>
         /\ \A b \in Attempt \ {a} : results'[b] = results[b]
         /\ results[a] = <<>> => Len(results'[a]) = 1 /\ results'[a][1] = r
<1>1. /\ results'[a] = Append(results[a], r)
      /\ \A b \in Attempt \ {a} : results'[b] = results[b]
  BY Reported
<1>2. results[a] \in Seq(Error \cup {"ok"}) /\ attempt \in Nat /\ Attempt \subseteq Nat
  BY SockParts DEF Attempt
<1>3. /\ Len(results'[a]) = Len(results[a]) + 1
      /\ results'[a][Len(results[a]) + 1] = r
      /\ \A i \in 1 .. Len(results[a]) : results'[a][i] = results[a][i]
  BY <1>1, <1>2, AppendProperties
<1>4. results[a] = <<>> => Len(results[a]) = 0
  BY EmptySeq
<1>5. results[a] = <<>> => Len(results'[a]) = 1 /\ results'[a][1] = r
  BY <1>3, <1>4
<1>6. \/ Len(results'[a]) <= 1
      \/ Len(results'[a]) = 2 /\ results'[a][1] \in {"dns", "other"} /\ results'[a][2] = "timeout"
  <2>1. CASE results[a] = <<>>
    BY <1>5, <2>1
  <2>2. CASE Len(results[a]) = 1 /\ results[a][1] \in {"dns", "other"} /\ r = "timeout"
    BY <1>3, <2>2
  <2> QED
    BY <2>1, <2>2
<1>7. OneResult'
  BY <1>1, <1>6 DEF OneResult
<1>8. ASSUME NEW b \in Attempt, b > attempt' PROVE results'[b] = <<>>
  <2>1. b > attempt /\ b # a
    BY <1>2, <1>8
  <2> QED
    BY <1>1, <2>1 DEF Unreported
<1> QED
  BY <1>1, <1>5, <1>7, <1>8

\* A result is reported for an attempt that can still report one.
LEMMA ResultStep == SockInv /\ SockNext => (Unreported /\ OneResult)'
<1> SUFFICES ASSUME SockInv, SockNext PROVE (Unreported /\ OneResult)'
  OBVIOUS
<1>0. SockTypeOK /\ Apart /\ Newest /\ Unreported /\ OneResult
  BY DEF SockInv
<1> USE SockParts
<1>n. attempt \in Nat /\ Attempt \subseteq Nat /\ attempt <= attempt
  BY <1>0 DEF Attempt
<1>1. ASSUME NEW r \in Result, ConnectStart(r) PROVE (Unreported /\ OneResult)'
  <2> DEFINE a == attempt + 1
  <2>1. /\ a \in Attempt /\ a # 0 /\ a # attempt /\ results[a] = <<>>
        /\ a \in Nat /\ attempt <= a /\ a <= a /\ \A b \in Attempt : b > a => b > attempt
    BY <1>0, <1>1, <1>n, NextFree DEF ConnectStart, Attempt
  <2>2. attempt' = a /\ connecting' = 0 /\ connecting = 0 /\ con_timer' = a /\ attached' = FALSE
    BY <1>1 DEF ConnectStart, Watch
  <2>3. \/ UNCHANGED results /\ {async_con_cb', sock_fd'} \subseteq {0, a}
        \/ r \in {"dns", "other"} /\ Report(a, r) /\ async_con_cb' = 0 /\ sock_fd' = 0
    BY <1>1 DEF ConnectStart, Watch
  <2> HIDE DEF a
  <2>4. CASE UNCHANGED results /\ {async_con_cb', sock_fd'} \subseteq {0, a}
    BY <1>0, <2>1, <2>2, <2>4 DEF Unreported, OneResult
  <2>5. CASE r \in {"dns", "other"} /\ Report(a, r) /\ async_con_cb' = 0 /\ sock_fd' = 0
    <3>1. r \in Error \cup {"ok"}
      BY <2>5 DEF Error
    <3>2. /\ OneResult'
          /\ \A b \in Attempt : b > attempt' => results'[b] = <<>>
          /\ Len(results'[a]) = 1 /\ results'[a][1] = r
      BY <1>0, <2>1, <2>2, <2>5, <3>1, ReportKept
    <3> QED
      BY <2>1, <2>2, <2>5, <3>2 DEF Unreported
  <2> QED
    BY <2>3, <2>4, <2>5
<1>2. ASSUME NEW a \in Attempt, NEW r \in Error \cup {"ok"}, Report(a, r), a = attempt,
             attempt' = attempt, con_timer' = 0, async_con_cb' = 0, connecting' = 0,
             attached' => sock_fd' # 0, ~attached' => sock_fd' = 0,
             \/ results[a] = <<>>
             \/ Len(results[a]) = 1 /\ results[a][1] \in {"dns", "other"} /\ r = "timeout"
      PROVE  (Unreported /\ OneResult)'
  <2>1. OneResult' /\ \A b \in Attempt : b > attempt' => results'[b] = <<>>
    BY <1>0, <1>2, <1>n, ReportKept
  <2> QED
    BY <1>2, <2>1 DEF Unreported
<1>3. ASSUME NEW r \in Result, Connected(r) PROVE (Unreported /\ OneResult)'
  <2>1. /\ connecting \in Attempt /\ connecting = attempt /\ results[connecting] = <<>> /\ ~attached
        /\ sock_fd \in {0, connecting}
    BY <1>0, <1>3 DEF Connected, Newest, Unreported
  <2>2. {"refused", "other", "ok"} \subseteq Error \cup {"ok"}
    BY DEF Error
  <2>3. /\ attempt' = attempt /\ connecting' = 0 /\ con_timer' = 0 /\ async_con_cb' = 0
        /\ attached' => sock_fd' # 0
        /\ ~attached' => sock_fd' = 0
        /\ \E q \in {"refused", "other", "ok"} : Report(connecting, q)
    BY <1>3, <2>1 DEF Connected, ConError
  <2> QED
    BY <1>2, <2>1, <2>2, <2>3
<1>4. ASSUME NEW r \in Result, ConTimeout(r) PROVE (Unreported /\ OneResult)'
  <2>1. /\ con_timer \in Attempt /\ con_timer = attempt
        /\ \/ results[con_timer] = <<>>
           \/ Len(results[con_timer]) = 1 /\ results[con_timer][1] \in {"dns", "other"}
    BY <1>0, <1>4 DEF ConTimeout, Newest, Unreported
  <2>2. "timeout" \in Error \cup {"ok"}
    BY DEF Error
  <2> QED
    BY <1>2, <1>4, <2>1, <2>2 DEF ConTimeout, ConError
<1>5. ASSUME NEW r \in Result, NEW m \in inbox, Resolved(m, r) PROVE (Unreported /\ OneResult)'
  <2>1. PICK a \in Attempt, ok \in BOOLEAN : m = <<a, ok>>
    BY <1>0
  <2>2. m[1] = a /\ m[2] = ok /\ a # 0 /\ connecting = 0 /\ UNCHANGED <<attempt, connecting>>
    BY <1>0, <1>5, <2>1 DEF Resolved
  <2>3. CASE UNCHANGED <<con_timer, async_con_cb, sock_fd, attached, results>>
    BY <1>0, <2>2, <2>3 DEF Unreported, OneResult
  <2>4. CASE async_con_cb = a
    <3>1. a = attempt /\ results[a] = <<>>
      BY <1>0, <2>2, <2>4 DEF Newest, Unreported
    <3>2. CASE /\ con_timer' = 0 /\ async_con_cb' = 0 /\ sock_fd' = 0 /\ attached' = FALSE
               /\ Report(a, "dns") \/ Report(a, "other")
      <4>1. {"dns", "other"} \subseteq Error \cup {"ok"}
        BY DEF Error
      <4> QED
        BY <1>2, <2>2, <3>1, <3>2, <4>1
    <3>3. CASE sock_fd' = a /\ attached' = FALSE /\ UNCHANGED <<con_timer, async_con_cb, results>>
      BY <1>0, <2>2, <3>1, <3>3 DEF Unreported, OneResult
    <3> QED
      BY <1>5, <2>2, <2>4, <3>2, <3>3 DEF Resolved, Watch, ConError
  <2> QED
    BY <1>5, <2>2, <2>3, <2>4 DEF Resolved
<1>6. ASSUME con_timer' = 0, async_con_cb' = 0, sock_fd' = 0, attached' = FALSE,
             UNCHANGED <<attempt, connecting, results>>
      PROVE  (Unreported /\ OneResult)'
  BY <1>0, <1>6 DEF Unreported, OneResult
<1>7. ASSUME UNCHANGED <<attempt, con_timer, async_con_cb, sock_fd, attached, connecting, results>>
      PROVE  (Unreported /\ OneResult)'
  BY <1>0, <1>7 DEF Unreported, OneResult
<1>8. CASE Connectable
  BY <1>0, <1>8 DEF Connectable, Unreported, OneResult
<1> QED
  BY <1>1, <1>3, <1>4, <1>5, <1>6, <1>7, <1>8
     DEF SockNext, CloseHere, CloseThere, Resolve, DelEvent, sockVars

\* The result of a step is that of the newest attempt.
LEMMA NewestStep ==
  SockInv /\ SockNext => \A a \in Attempt : results'[a] # results[a] => a = attempt'
<1> SUFFICES ASSUME SockInv, SockNext, NEW b \in Attempt, results'[b] # results[b]
             PROVE  b = attempt'
  OBVIOUS
<1>0. SockTypeOK /\ Newest
  BY DEF SockInv
<1> USE SockParts
<1>1. ASSUME NEW a \in Attempt, NEW r \in Error \cup {"ok"}, Report(a, r), a = attempt'
      PROVE  b = attempt'
  BY <1>0, <1>1, Reported
<1>2. {"dns", "other", "refused", "timeout", "ok"} = Error \cup {"ok"}
  BY DEF Error
<1>3. ASSUME NEW r \in Result, ConnectStart(r) PROVE b = attempt'
  <2>1. attempt + 1 \in Attempt /\ attempt' = attempt + 1
    BY <1>0, <1>3 DEF ConnectStart, Attempt
  <2>2. r \in {"dns", "other"} /\ Report(attempt + 1, r)
    BY <1>3 DEF ConnectStart, Watch
  <2> QED
    BY <1>1, <1>2, <2>1, <2>2
<1>4. ASSUME NEW r \in Result, Connected(r) PROVE b = attempt'
  <2>1. connecting \in Attempt /\ connecting = attempt'
    BY <1>0, <1>4 DEF Connected, Newest
  <2>2. \E q \in {"refused", "other", "ok"} : Report(connecting, q)
    BY <1>4 DEF Connected, ConError
  <2> QED
    BY <1>1, <1>2, <2>1, <2>2
<1>5. ASSUME NEW r \in Result, ConTimeout(r) PROVE b = attempt'
  <2>1. con_timer \in Attempt /\ con_timer = attempt'
    BY <1>0, <1>5 DEF ConTimeout, Newest
  <2> QED
    BY <1>1, <1>2, <1>5, <2>1 DEF ConTimeout, ConError
<1>6. ASSUME NEW r \in Result, NEW m \in inbox, Resolved(m, r) PROVE b = attempt'
  <2>1. m[1] \in Attempt
    BY <1>0
  <2>2. async_con_cb = m[1] /\ (Report(m[1], "dns") \/ Report(m[1], "other"))
    BY <1>6 DEF Resolved, Watch, ConError
  <2>3. m[1] = attempt'
    BY <1>0, <1>6, <2>1, <2>2 DEF Newest, Resolved
  <2> QED
    BY <1>1, <1>2, <2>1, <2>2, <2>3
<1> QED
  BY <1>3, <1>4, <1>5, <1>6
     DEF SockNext, Connectable, CloseHere, CloseThere, Resolve, DelEvent, sockVars

\* At first nothing is under way.
LEMMA SockInvInit == SockInit => SockInv
<1> SUFFICES ASSUME SockInit PROVE SockInv
  OBVIOUS
<1>1. Len(<<>>) = 0
  BY EmptySeq
<1>2. SockTypeOK /\ OneResult
  BY <1>1, SockTypeInit DEF SockInit, OneResult
<1>3. Answered = {}
  BY DEF SockInit, Answered
<1> QED
  BY <1>2, <1>3 DEF SockInit, SockInv, Apart, Newest, NoLeak, Unreported

\* The invariant of the socket is kept by what the client does.
LEMMA SockInvStep == SockInv /\ [Next]_vars => SockInv'
BY SocketSteps, SockTypeStep, ApartStep, ResultStep DEF SockInv

\* What can call back, and who owns the descriptors: the invariant holds in every state.
LEMMA SockInvHolds == Spec => []SockInv
<1>1. Init => SockInv
  BY SockInvInit DEF Init
<1> QED
  BY <1>1, SockInvStep, PTL DEF Spec

\* A resolver, a timer or an event that comes late for an attempt changes nothing for the one
\* that replaced it, each attempt reports once, and every open descriptor has an owner.
THEOREM LateIsHarmless == Spec => AttemptsApart
<1>1. SockInv => OneLiveAttempt /\ NoLeak /\ OneResult
  BY DEF SockInv, Newest, OneLiveAttempt
<1>2. SockInv /\ [Next]_vars => [\A a \in Attempt : results'[a] # results[a] => a = attempt']_vars
  BY SocketSteps, NewestStep
<1> QED
  BY <1>1, <1>2, SockInvHolds, PTL DEF Spec, AttemptsApart, NewestReports

-----------------------------------------------------------------------------
(* The client.                                                             *)

\* Closures of shutdown are posted once for each call.
Counted == errors + (IF user \in {"emit", "close", "post"} THEN 1 ELSE 0) <= shutdowns

\* While the first attempt waits to be made nothing else is under way, and a connection that
\* is given up while it is made is followed by the closure that restarts it.
Retrying ==
  /\ calls > 0 => connecting = 0 /\ (Alive => reconnect)
  /\ Alive /\ connecting # 0 /\ sock_fd # connecting => errors > 0 \/ user = "post"
  /\ user = "new" => connecting = 0 /\ ~attached /\ sock_fd = 0 /\ attempt = 0
  /\ RetryArmed

ClientInv == TypeOK /\ Counted /\ Retrying

\* Every variable keeps its type, and errors posted are counted by the calls of shutdown.
LEMMA ClientTypeStep == TypeOK /\ Counted /\ [Next]_vars => (TypeOK /\ Counted)'
<1> SUFFICES ASSUME TypeOK, Counted, [Next]_vars PROVE (TypeOK /\ Counted)'
  OBVIOUS
<1>1. SockTypeOK'
  BY SocketSteps, SockTypeStep DEF TypeOK
<1>2. /\ MaxShutdown \in Nat /\ manager \in BOOLEAN /\ reconnect \in BOOLEAN
      /\ calls \in 0 .. 1 /\ errors \in 0 .. MaxShutdown /\ shutdowns \in 0 .. MaxShutdown
      /\ user \in {"new", "idle", "emit", "close", "post", "gone", "crashed"}
  BY ShutdownAssumption DEF TypeOK
<1>3. ASSUME \E r \in Result : OnSockConnect(r), calls' \in 0 .. 1
      PROVE  (TypeOK /\ Counted)'
  BY <1>1, <1>2, <1>3 DEF OnSockConnect, TypeOK, Counted
<1>4. CASE ConnectCall \/ ReconnectFires \/ AnswerArrives \/ ConnectEnds \/ ConnectTimesOut
  BY <1>2, <1>3, <1>4
     DEF ConnectCall, ReconnectFires, AnswerArrives, ConnectEnds, ConnectTimesOut
<1>5. CASE UNCHANGED clientVars
  BY <1>1, <1>2, <1>5 DEF clientVars, TypeOK, Counted
<1>c. errors + (IF user \in {"emit", "close", "post"} THEN 1 ELSE 0) <= shutdowns
  BY DEF Counted
<1>6. CASE PeerCloses
  BY <1>1, <1>2, <1>c, <1>6 DEF PeerCloses, OnErr, TypeOK, Counted
<1>7. CASE ErrorRuns
  <2>1. errors' = errors - 1 /\ errors > 0 /\ UNCHANGED <<calls, user, shutdowns>>
        /\ manager' \in BOOLEAN /\ reconnect' \in BOOLEAN
    BY <1>7 DEF ErrorRuns, OnErr
  <2>2. errors' \in 0 .. MaxShutdown
    BY <1>2, <2>1
  <2>3. Counted'
    BY <1>2, <1>c, <2>1 DEF Counted
  <2> QED
    BY <1>1, <1>2, <2>1, <2>2, <2>3 DEF TypeOK
<1>8. CASE StartConnect
  BY <1>1, <1>2, <1>c, <1>8 DEF StartConnect, TypeOK, Counted
<1>9. CASE Destroy
  <2>1. /\ user' = "gone" /\ manager' = FALSE /\ reconnect' = FALSE
        /\ calls' = 0 /\ errors' = 0 /\ shutdowns' = shutdowns
    BY <1>9 DEF Destroy
  <2>2. Counted' /\ 0 \in 0 .. MaxShutdown /\ 0 \in 0 .. 1
    BY <1>2, <2>1 DEF Counted
  <2> QED
    BY <1>1, <1>2, <2>1, <2>2 DEF TypeOK
<1>10. CASE DestroyCrashes
  BY <1>1, <1>2, <1>c, <1>10 DEF DestroyCrashes, TypeOK, Counted
<1>11. CASE Shutdown
  <2>1. /\ user = "idle" /\ user' = "emit" /\ manager' = FALSE /\ shutdowns < MaxShutdown
        /\ shutdowns' = shutdowns + 1 /\ UNCHANGED <<reconnect, calls, errors>>
    BY <1>11 DEF Shutdown
  <2>2. shutdowns' \in 0 .. MaxShutdown
    BY <1>2, <2>1
  <2>3. errors <= shutdowns
    BY <1>2, <1>c, <2>1
  <2>4. Counted'
    BY <1>2, <2>1, <2>3 DEF Counted
  <2> QED
    BY <1>1, <1>2, <2>1, <2>2, <2>4 DEF TypeOK
<1>12. CASE EmitErr
  BY <1>1, <1>2, <1>c, <1>12 DEF EmitErr, TypeOK, Counted
<1>13. CASE CloseSock
  BY <1>1, <1>2, <1>c, <1>13 DEF CloseSock, TypeOK, Counted
<1>14. CASE PostErr
  BY <1>1, <1>2, <1>c, <1>14 DEF PostErr, TypeOK, Counted
<1> QED
  BY <1>4, <1>5, <1>6, <1>7, <1>8, <1>9, <1>10, <1>11, <1>12, <1>13, <1>14
     DEF Next, Loop, PoolThread, User, ConnectBegins, vars

\* The way to the next connection is kept: reconnection ends only where a connection is there,
\* and a connection is lost only where it is restarted.
LEMMA RetryStep == SockInv /\ ClientInv /\ [Next]_vars => Retrying'
<1> SUFFICES ASSUME SockInv, ClientInv, [Next]_vars PROVE Retrying'
  OBVIOUS
<1>0. SockTypeOK /\ Newest /\ Unreported /\ TypeOK /\ Counted /\ Retrying
  BY DEF SockInv, ClientInv
<1>1. /\ reconnect \in BOOLEAN /\ attached \in BOOLEAN /\ calls \in 0 .. 1 /\ errors \in Nat
      /\ attempt \in Nat
  BY <1>0, SockParts, ShutdownAssumption, AttemptAssumption DEF TypeOK
<1>2. /\ con_timer # 0 \/ async_con_cb # 0 \/ connecting # 0 => ~attached
      /\ user = "new" => con_timer = 0 /\ async_con_cb = 0 /\ Answered = {}
  <2>1. user = "new" => \A a \in Answered : FALSE
    BY <1>0 DEF Retrying, Newest, Answered, Attempt
  <2> QED
    BY <1>0, <2>1 DEF Retrying, Newest, Unreported
<1>3. ASSUME NEW r \in Result, ConnectStart(r), OnSockConnect(r), Alive, reconnect,
             calls' \in {calls, calls - 1}
      PROVE  Retrying'
  <2>1. r # "ok" /\ connecting' = 0
    BY <1>3 DEF ConnectStart
  <2>2. reconnect' /\ user' = user /\ user # "new" /\ errors' = errors
    BY <1>3, <2>1 DEF OnSockConnect, Alive
  <2> QED
    BY <2>1, <2>2 DEF Retrying, RetryArmed
<1>4. CASE ConnectCall
  BY <1>0, <1>3, <1>4 DEF ConnectCall, Retrying
<1>5. CASE ReconnectFires
  BY <1>3, <1>5 DEF ReconnectFires
<1>6. CASE AnswerArrives
  <2>1. PICK m \in inbox, r \in Result : Resolved(m, r) /\ OnSockConnect(r)
    BY <1>6 DEF AnswerArrives
  <2>2. m[1] \in Answered
    <3>1. PICK a \in Attempt, ok \in BOOLEAN : m = <<a, ok>>
      BY <1>0, <2>1, SockParts
    <3> QED
      BY <2>1, <3>1 DEF Answered
  <2>3. /\ r # "ok" /\ attached' = attached /\ connecting = 0 /\ connecting' = 0 /\ calls' = calls
        /\ calls = 0
    BY <1>2, <1>6, <2>1, <2>2, <1>0, SockParts
       DEF AnswerArrives, Resolved, Watch, ConError, Answered, Unreported
  <2>4. user # "new" /\ user' = user /\ errors' = errors /\ reconnect' = reconnect
    BY <1>1, <1>2, <2>1, <2>2, <2>3 DEF OnSockConnect
  <2> QED
    BY <1>0, <2>3, <2>4 DEF Retrying, RetryArmed, Alive
<1>7. CASE ConnectBegins
  <2>1. /\ sock_fd # 0 /\ calls = 0 /\ connecting' = sock_fd
        /\ UNCHANGED <<sock_fd, attached, attempt, calls, errors, user, reconnect>>
    BY <1>7 DEF ConnectBegins, Connectable, clientVars
  <2> QED
    BY <1>0, <2>1 DEF Retrying, RetryArmed, Alive
<1>8. CASE ConnectEnds
  <2>1. PICK r \in Result : Connected(r) /\ OnSockConnect(r)
    BY <1>8 DEF ConnectEnds
  <2>2. connecting # 0 /\ connecting' = 0 /\ user # "new" /\ ~attached /\ calls = 0
    BY <1>0, <1>1, <1>2, <2>1 DEF Connected, Retrying
  <2>3. UNCHANGED <<calls, errors, user>>
    BY <1>8, <2>1 DEF ConnectEnds, OnSockConnect
  <2>4. CASE r # "ok"
    <3>1. reconnect' = reconnect
      BY <1>1, <2>1, <2>4 DEF OnSockConnect
    <3> QED
      BY <1>0, <2>2, <2>3, <3>1 DEF Retrying, RetryArmed, Alive
  <2>5. CASE r = "ok"
    <3>1. attached' = (sock_fd = connecting)
      BY <2>1, <2>5 DEF Connected
    <3> QED
      BY <1>0, <2>2, <2>3, <3>1 DEF Retrying, RetryArmed, Alive
  <2> QED
    BY <2>4, <2>5
<1>9. CASE ConnectTimesOut
  <2>1. PICK r \in Result : ConTimeout(r) /\ OnSockConnect(r)
    BY <1>9 DEF ConnectTimesOut
  <2>2. /\ r # "ok" /\ con_timer # 0 /\ connecting = 0 /\ connecting' = 0 /\ ~attached
        /\ user # "new" /\ UNCHANGED <<calls, errors, user>>
    BY <1>2, <1>9, <2>1 DEF ConTimeout, ConnectTimesOut, OnSockConnect
  <2>3. reconnect' = reconnect
    BY <1>1, <2>1, <2>2 DEF OnSockConnect
  <2> QED
    BY <1>0, <2>2, <2>3 DEF Retrying, RetryArmed, Alive
<1>10. CASE PeerCloses
  BY <1>0, <1>10 DEF PeerCloses, CloseHere, OnErr, Retrying, RetryArmed, Alive
<1>11. CASE ErrorRuns
  BY <1>0, <1>11 DEF ErrorRuns, OnErr, Retrying, RetryArmed, Alive, sockVars
<1>12. CASE (\E a \in Attempt : DelEvent(a) \/ Resolve(a)) /\ UNCHANGED clientVars
  BY <1>0, <1>12 DEF DelEvent, Resolve, clientVars, Retrying, RetryArmed, Alive
<1>13. CASE StartConnect
  BY <1>0, <1>13 DEF StartConnect, sockVars, Retrying, RetryArmed, Alive
<1>14. CASE Shutdown \/ EmitErr
  BY <1>0, <1>14 DEF Shutdown, EmitErr, sockVars, Retrying, RetryArmed, Alive
<1>15. CASE CloseSock
  BY <1>0, <1>15 DEF CloseSock, CloseThere, Retrying, RetryArmed, Alive
<1>16. CASE PostErr
  <2>1. errors' > 0
    BY <1>1, <1>16 DEF PostErr
  <2> QED
    BY <1>0, <1>16, <2>1 DEF PostErr, sockVars, Retrying, RetryArmed, Alive
<1>17. CASE Destroy \/ DestroyCrashes
  BY <1>0, <1>17 DEF Destroy, DestroyCrashes, CloseThere, sockVars, Retrying, RetryArmed, Alive
<1>18. CASE UNCHANGED vars
  BY <1>0, <1>18 DEF vars, sockVars, clientVars, Retrying, RetryArmed, Alive
<1> QED
  BY <1>4, <1>5, <1>6, <1>7, <1>8, <1>9, <1>10, <1>11, <1>12, <1>13, <1>14, <1>15, <1>16, <1>17,
     <1>18 DEF Next, Loop, PoolThread, User

\* The invariants of the socket and of the client hold in every state.
LEMMA ClientInvHolds == Spec => [](SockInv /\ ClientInv)
<1>1. Init => ClientInv
  <2> SUFFICES ASSUME Init PROVE ClientInv
    OBVIOUS
  <2>1. TypeOK
    <3>1. 0 \in 0 .. MaxShutdown /\ 0 \in 0 .. 1
      BY ShutdownAssumption
    <3> QED
      BY <3>1, SockTypeInit DEF Init, TypeOK
  <2>2. Counted /\ Retrying
    BY DEF Init, SockInit, Counted, Retrying, RetryArmed, Alive
  <2> QED
    BY <2>1, <2>2 DEF ClientInv
<1>2. SockInv /\ ClientInv /\ [Next]_vars => ClientInv'
  BY ClientTypeStep, RetryStep DEF ClientInv
<1> QED
  BY <1>1, <1>2, SockInvHolds, PTL DEF Spec

\* Every variable of the socket and the client keeps its type.
THEOREM ClientTypeCorrect == Spec => []TypeOK
BY ClientInvHolds, PTL DEF ClientInv

\* A client that has no connection is on its way to one, whatever its user, its resolver and
\* its timers do meanwhile.
THEOREM AlwaysRetrying == Spec => []RetryArmed
<1>1. ClientInv => RetryArmed
  BY DEF ClientInv, Retrying
<1> QED
  BY <1>1, ClientInvHolds, PTL

-----------------------------------------------------------------------------
(* The sessions, in any behaviour of MCPeers.                              *)

\* Two poller threads that read datagrams of one peer agree on one session, and what they
\* read reaches it once, on its own thread (onRead and the cloned sockets of UdpServer).
THEOREM SessionsAgree ==
  ASSUME MaxDatagram \in Nat, MaxSession \in Nat
  PROVE  PeersSpec => []UdpSessionsSafe
<1>1. Sessions!Spec => []UdpSessionsSafe
  BY Sessions!SessionsSafe DEF UdpSessionsSafe
<1>2. PeersInit => Sessions!Init
  BY DEF PeersInit
<1>3. [PeersNext]_peersVars => [Sessions!Next]_Sessions!vars
  BY DEF PeersNext, peersVars, sessionsVars, Sessions!vars
<1> QED
  BY <1>1, <1>2, <1>3, PTL DEF PeersSpec, Sessions!Spec

-----------------------------------------------------------------------------
(* What a poller keeps: the table of descriptors.                          *)

\* What other threads post: to add a watcher, or to end one.
Closures == {"add", "del"} \X Events!Watcher \X Fd

Built == events_build \in {"", "epoll", "select"}
EventTypes ==
  /\ Built /\ events_made \in 0 .. MaxWatcher
  /\ events_reused \in BOOLEAN
  /\ events_fd_of \in [Events!Watcher -> Fd \cup {0}] /\ events_signal \subseteq Events!Watcher
  /\ events_epoll \in [Fd -> Events!Watcher \cup {0}]
  /\ events_event_map \in [Fd -> Events!Watcher \cup {0}]
  /\ events_tasks \in Seq(Closures)
  /\ events_batch \in Seq(Fd \X Events!Watcher)

\* A number is held by one watcher, made so far.
HeldOnce(fds, n) ==
  /\ \A w \in Events!Watcher : w > n => fds[w] = 0
  /\ \A v, w \in Events!Watcher : fds[v] = fds[w] /\ fds[v] # 0 => v = w

\* Closures are for watchers made so far, and none that adds one comes after one that ends it.
TasksRight(ts, n) ==
  /\ \A i \in 1 .. Len(ts) : ts[i][2] <= n
  /\ \A i, j \in 1 .. Len(ts) :
       i < j /\ ts[i][1] = "del" /\ ts[j][1] = "add" => ts[i][2] # ts[j][2]

\* Until a number is used again too early: what is to be added holds its number still ...
AddsHeld(ts, fds) == \A i \in 1 .. Len(ts) : ts[i][1] = "add" => fds[ts[i][2]] = ts[i][3]

\* ... kernel and map agree ...
Agree(ep, map, fds) ==
  \A f \in Fd : map[f] = ep[f] /\ (ep[f] # 0 => fds[ep[f]] = f)

\* ... and a function is that of the watcher the event was of, if there is one.
BatchRight(bs, map) == \A i \in 1 .. Len(bs) : map[bs[i][1]] \in {0, bs[i][2]}

EventsInv ==
  /\ EventTypes
  /\ HeldOnce(events_fd_of, events_made)
  /\ TasksRight(events_tasks, events_made)
  /\ \A f \in Fd : events_epoll[f] # 0 => events_event_map[f] # 0
  /\ Events!RightWatcher
  /\ ~events_reused =>
       /\ AddsHeld(events_tasks, events_fd_of)
       /\ Agree(events_epoll, events_event_map, events_fd_of)
       /\ BatchRight(events_batch, events_event_map)

\* The watchers, and the number that stands for none of them.
LEMMA WatcherSet ==
  /\ Events!Watcher = 1 .. MaxWatcher /\ 0 \notin Events!Watcher /\ Events!None = 0
  /\ 0 \notin Fd /\ MaxWatcher \in Nat
BY PollerAssumption DEF Events!Watcher, Events!None

\* A poller stays of the build it is.
LEMMA BuiltKept == Built /\ events_build' = events_build => Built'
BY Zenon DEF Built

\* A closure is put behind the others.
LEMMA TasksAppend ==
  ASSUME NEW ts \in Seq(Closures), NEW t \in Closures, NEW n \in Nat, NEW m \in Nat, n <= m,
         TasksRight(ts, n), t[2] <= m, t[1] = "add" => t[2] > n
  PROVE  /\ Append(ts, t) \in Seq(Closures) /\ TasksRight(Append(ts, t), m)
         /\ Len(Append(ts, t)) = Len(ts) + 1 /\ Append(ts, t)[Len(ts) + 1] = t
         /\ \A i \in 1 .. Len(ts) : Append(ts, t)[i] = ts[i]
<1> DEFINE new == Append(ts, t)
<1>1. /\ new \in Seq(Closures) /\ Len(new) = Len(ts) + 1 /\ new[Len(ts) + 1] = t
      /\ \A i \in 1 .. Len(ts) : new[i] = ts[i]
      /\ Len(ts) \in Nat
  BY AppendProperties
<1>2. \A i \in 1 .. Len(ts) : ts[i] \in Closures /\ ts[i][2] \in Nat
  <2>1. \A i \in 1 .. Len(ts) : ts[i] \in Closures
    BY ElementOfSeq
  <2> QED
    BY <2>1, WatcherSet DEF Closures
<1> HIDE DEF new
<1>3. \A i \in 1 .. Len(new) : i \in 1 .. Len(ts) \/ i = Len(ts) + 1
  BY <1>1
<1>4. \A i \in 1 .. Len(new) : new[i][2] <= m
  BY <1>1, <1>2, <1>3 DEF TasksRight
<1>5. ASSUME NEW i \in 1 .. Len(new), NEW j \in 1 .. Len(new), i < j,
             new[i][1] = "del", new[j][1] = "add"
      PROVE  new[i][2] # new[j][2]
  <2>1. i \in 1 .. Len(ts) /\ new[i] = ts[i]
    BY <1>1, <1>3, <1>5
  <2>2. CASE j \in 1 .. Len(ts)
    <3>1. new[j] = ts[j]
      BY <1>1, <2>2
    <3> QED
      BY <1>5, <2>1, <2>2, <3>1 DEF TasksRight
  <2>3. CASE j = Len(ts) + 1
    <3>1. new[j] = t /\ t[2] > n
      BY <1>1, <1>5, <2>3
    <3>2. ts[i][2] <= n /\ ts[i][2] \in Nat
      BY <1>2, <2>1 DEF TasksRight
    <3> QED
      BY <2>1, <3>1, <3>2
  <2> QED
    BY <1>3, <2>2, <2>3
<1> QED
  BY <1>1, <1>4, <1>5 DEF TasksRight, new

\* The first closure is run; if it ends a watcher, none that is left adds it.
LEMMA TasksTail ==
  ASSUME NEW ts \in Seq(Closures), NEW n \in Nat, ts # <<>>, TasksRight(ts, n)
  PROVE  /\ Head(ts) = ts[1] /\ ts[1] \in Closures /\ ts[1][2] <= n /\ 1 \in 1 .. Len(ts)
         /\ Tail(ts) \in Seq(Closures) /\ TasksRight(Tail(ts), n)
         /\ \A i \in 1 .. Len(Tail(ts)) : i + 1 \in 1 .. Len(ts) /\ Tail(ts)[i] = ts[i + 1]
         /\ ts[1][1] = "del" => \A i \in 1 .. Len(Tail(ts)) :
                                  Tail(ts)[i][1] = "add" => Tail(ts)[i][2] # ts[1][2]
<1> DEFINE rest == Tail(ts)
<1>1. /\ Head(ts) = ts[1] /\ Len(ts) \in Nat /\ Len(ts) # 0 /\ Len(rest) = Len(ts) - 1
      /\ rest \in Seq(Closures) /\ Head(ts) \in Closures
  BY EmptySeq, HeadTailProperties, LenProperties
<1>2. \A i \in 1 .. Len(rest) : rest[i] = ts[i + 1]
  BY HeadTailProperties
<1> HIDE DEF rest
<1>3. \A i \in 1 .. Len(rest) : i + 1 \in 1 .. Len(ts) /\ 1 < i + 1
  BY <1>1
<1>4. 1 \in 1 .. Len(ts)
  BY <1>1
<1>5. \A i \in 1 .. Len(rest) : rest[i][2] <= n
  BY <1>2, <1>3 DEF TasksRight
<1>6. ASSUME NEW i \in 1 .. Len(rest), NEW j \in 1 .. Len(rest), i < j,
             rest[i][1] = "del", rest[j][1] = "add"
      PROVE  rest[i][2] # rest[j][2]
  <2>1. i + 1 < j + 1 /\ rest[i] = ts[i + 1] /\ rest[j] = ts[j + 1]
    BY <1>2, <1>6
  <2> QED
    BY <1>3, <1>6, <2>1 DEF TasksRight
<1>7. ts[1][1] = "del" => \A i \in 1 .. Len(rest) : rest[i][1] = "add" => rest[i][2] # ts[1][2]
  BY <1>2, <1>3, <1>4 DEF TasksRight
<1> QED
  BY <1>1, <1>2, <1>3, <1>4, <1>5, <1>6, <1>7 DEF TasksRight, rest

\* Who holds a number.
LEMMA HolderIs ==
  ASSUME EventTypes, HeldOnce(events_fd_of, events_made), NEW f \in Fd
  PROVE  /\ Events!Holder(f) \in Events!Watcher \cup {0}
         /\ Events!Held(f) => Events!Holder(f) \in Events!Watcher
         /\ \A w \in Events!Watcher : events_fd_of[w] = f => Events!Held(f) /\ Events!Holder(f) = w
<1>1. CASE Events!Held(f)
  <2>1. \E w \in Events!Watcher : events_fd_of[w] = f
    BY <1>1 DEF Events!Held
  <2>2. PICK v : v = CHOOSE x \in Events!Watcher : events_fd_of[x] = f
    OBVIOUS
  <2>3. v \in Events!Watcher /\ events_fd_of[v] = f
    BY <2>1, <2>2
  <2>4. Events!Holder(f) = v
    BY <1>1, <2>2 DEF Events!Holder
  <2>5. f # 0
    BY WatcherSet
  <2>6. \A w \in Events!Watcher : events_fd_of[w] = f => v = w
    BY <2>3, <2>5 DEF HeldOnce
  <2> QED
    BY <1>1, <2>3, <2>4, <2>6
<1>2. CASE ~Events!Held(f)
  <2>1. Events!Holder(f) = 0
    BY <1>2, WatcherSet DEF Events!Holder
  <2> QED
    BY <1>2, <2>1 DEF Events!Held
<1> QED
  BY <1>1, <1>2

\* A step that leaves descriptors, kernel, map and closures alone.
LEMMA EventsQuiet ==
  ASSUME EventsInv, UNCHANGED <<events_made, events_fd_of, events_epoll, events_event_map,
                                events_tasks, events_reused>>,
         Built', events_signal' \subseteq Events!Watcher,
         events_batch' \in Seq(Fd \X Events!Watcher),
         ~events_reused => /\ events_calling'[1] = events_calling'[2]
                           /\ BatchRight(events_batch', events_event_map)
  PROVE  EventsInv'
<1>1. EventTypes'
  BY DEF EventsInv, EventTypes
<1>2. HeldOnce(events_fd_of, events_made)' /\ TasksRight(events_tasks, events_made)'
  BY DEF EventsInv
<1>3. (\A f \in Fd : events_epoll[f] # 0 => events_event_map[f] # 0)'
  BY DEF EventsInv
<1>4. Events!RightWatcher'
  BY DEF Events!RightWatcher
<1>5. (~events_reused => /\ AddsHeld(events_tasks, events_fd_of)
                         /\ Agree(events_epoll, events_event_map, events_fd_of)
                         /\ BatchRight(events_batch, events_event_map))'
  BY DEF EventsInv
<1> QED
  BY <1>1, <1>2, <1>3, <1>4, <1>5 DEF EventsInv

\* delEvent forgets f, in the kernel and in the map, if they know it, and nothing else.
LEMMA DelForgets ==
  ASSUME EventsInv, NEW f \in Fd, Events!DelHere(f)
  PROVE  /\ events_epoll' \in [Fd -> Events!Watcher \cup {0}]
         /\ events_event_map' \in [Fd -> Events!Watcher \cup {0}]
         /\ \A g \in Fd \ {f} : events_epoll'[g] = events_epoll[g]
                                /\ events_event_map'[g] = events_event_map[g]
         /\ events_epoll'[f] = 0
         /\ events_event_map'[f] \in {0, events_event_map[f]}
         /\ ~events_reused => events_event_map'[f] = 0
<1>1. /\ events_epoll \in [Fd -> Events!Watcher \cup {0}]
      /\ events_event_map \in [Fd -> Events!Watcher \cup {0}]
  BY DEF EventsInv, EventTypes
<1>2. ~events_reused => events_event_map[f] = events_epoll[f]
  BY DEF EventsInv, Agree
<1>3. CASE events_build = "select" \/ events_epoll[f] # 0
  <2>1. events_epoll' = [events_epoll EXCEPT ![f] = 0]
    BY <1>3, WatcherSet DEF Events!DelHere
  <2>2. events_event_map' = [events_event_map EXCEPT ![f] = 0]
    BY <1>3, WatcherSet DEF Events!DelHere
  <2> QED
    BY <1>1, <2>1, <2>2
<1>4. CASE ~(events_build = "select" \/ events_epoll[f] # 0)
  <2>1. events_epoll' = events_epoll /\ events_event_map' = events_event_map
    BY <1>4, WatcherSet DEF Events!DelHere, Events!mapVars
  <2> QED
    BY <1>1, <1>2, <1>4, <2>1
<1> QED
  BY <1>3, <1>4

\* A watcher is closed: its number is free, and forgotten.
LEMMA EventsClosed ==
  ASSUME EventsInv, NEW w \in Events!Watcher, NEW f \in Fd, events_fd_of[w] = f,
         Events!DelHere(f),
         events_fd_of' = [events_fd_of EXCEPT ![w] = 0], events_signal' = events_signal \ {w},
         UNCHANGED <<events_build, events_made, events_batch, events_calling>>,
         events_tasks' \in Seq(Closures), TasksRight(events_tasks', events_made),
         events_reused' \in BOOLEAN,
         ~events_reused' => /\ ~events_reused /\ AddsHeld(events_tasks', events_fd_of)
                            /\ \A i \in 1 .. Len(events_tasks') :
                                 events_tasks'[i][1] = "add" => events_tasks'[i][2] # w
  PROVE  EventsInv'
<1>0. /\ events_fd_of \in [Events!Watcher -> Fd \cup {0}] /\ f # 0
      /\ events_fd_of' \in [Events!Watcher -> Fd \cup {0}]
      /\ events_fd_of'[w] = 0 /\ \A v \in Events!Watcher \ {w} : events_fd_of'[v] = events_fd_of[v]
  BY WatcherSet DEF EventsInv, EventTypes
<1>1. EventTypes'
  BY <1>0, DelForgets, BuiltKept DEF EventsInv, EventTypes, Closures
<1>2. HeldOnce(events_fd_of', events_made')
  BY <1>0 DEF EventsInv, HeldOnce
<1>3. TasksRight(events_tasks', events_made')
  OBVIOUS
<1>4. \A g \in Fd : events_epoll'[g] # 0 => events_event_map'[g] # 0
  BY DelForgets DEF EventsInv
<1>5. Events!RightWatcher'
  BY DEF EventsInv, Events!RightWatcher
<1>6. ASSUME ~events_reused'
      PROVE  /\ AddsHeld(events_tasks', events_fd_of')
             /\ Agree(events_epoll', events_event_map', events_fd_of')
             /\ BatchRight(events_batch', events_event_map')
  <2>1. AddsHeld(events_tasks', events_fd_of')
    <3> SUFFICES ASSUME NEW i \in 1 .. Len(events_tasks'), events_tasks'[i][1] = "add"
                 PROVE  events_fd_of'[events_tasks'[i][2]] = events_tasks'[i][3]
      BY DEF AddsHeld
    <3>1. events_tasks'[i] \in Closures
      BY ElementOfSeq
    <3>2. events_tasks'[i][2] \in Events!Watcher \ {w}
      BY <1>6, <3>1 DEF Closures
    <3> QED
      BY <1>0, <1>6, <3>2 DEF AddsHeld
  <2>2. Agree(events_epoll', events_event_map', events_fd_of')
    <3> SUFFICES ASSUME NEW g \in Fd
                 PROVE  /\ events_event_map'[g] = events_epoll'[g]
                        /\ events_epoll'[g] # 0 => events_fd_of'[events_epoll'[g]] = g
      BY DEF Agree
    <3>1. CASE g = f
      BY <1>6, <3>1, DelForgets
    <3>2. CASE g # f
      <4>1. events_epoll'[g] = events_epoll[g] /\ events_event_map'[g] = events_event_map[g]
        BY <3>2, DelForgets
      <4>2. /\ events_event_map[g] = events_epoll[g]
            /\ events_epoll[g] # 0 => events_fd_of[events_epoll[g]] = g
        BY <1>6 DEF EventsInv, Agree
      <4>3. events_epoll[g] \in Events!Watcher \cup {0}
        BY DEF EventsInv, EventTypes
      <4>4. events_epoll[g] # w
        BY <3>2, <4>2, WatcherSet
      <4> QED
        BY <1>0, <4>1, <4>2, <4>3, <4>4
    <3> QED
      BY <3>1, <3>2
  <2>3. BatchRight(events_batch', events_event_map')
    <3> SUFFICES ASSUME NEW i \in 1 .. Len(events_batch)
                 PROVE  events_event_map'[events_batch[i][1]] \in {0, events_batch[i][2]}
      BY DEF BatchRight
    <3>1. events_batch[i] \in Fd \X Events!Watcher
      BY ElementOfSeq DEF EventsInv, EventTypes
    <3>2. events_batch[i][1] \in Fd
      BY <3>1
    <3>3. events_event_map[events_batch[i][1]] \in {0, events_batch[i][2]}
      BY <1>6 DEF EventsInv, BatchRight
    <3> QED
      BY <3>2, <3>3, DelForgets
  <2> QED
    BY <2>1, <2>2, <2>3
<1> QED
  BY <1>1, <1>2, <1>3, <1>4, <1>5, <1>6 DEF EventsInv

\* A function that is called makes a watcher.
LEMMA EventsOpenHere ==
  ASSUME EventsInv, NEW f \in Fd, Events!OpenHere(f)
  PROVE  EventsInv'
<1> DEFINE w == events_made + 1
<1>0. /\ events_made \in Nat /\ w \in Events!Watcher /\ f # 0 /\ w # 0
      /\ events_fd_of \in [Events!Watcher -> Fd \cup {0}]
      /\ events_epoll \in [Fd -> Events!Watcher \cup {0}]
      /\ events_event_map \in [Fd -> Events!Watcher \cup {0}]
      /\ \A v \in Events!Watcher : events_fd_of[v] # f
      /\ events_fd_of[w] = 0
  <2>1. /\ events_made \in 0 .. MaxWatcher
        /\ events_fd_of \in [Events!Watcher -> Fd \cup {0}]
        /\ events_epoll \in [Fd -> Events!Watcher \cup {0}]
        /\ events_event_map \in [Fd -> Events!Watcher \cup {0}]
    BY DEF EventsInv, EventTypes
  <2>2. events_made < MaxWatcher /\ \A v \in Events!Watcher : events_fd_of[v] # f
    BY DEF Events!OpenHere, Events!Held
  <2>3. w \in Events!Watcher /\ w > events_made
    BY <2>1, <2>2, WatcherSet
  <2>4. events_fd_of[w] = 0
    BY <2>3 DEF EventsInv, HeldOnce
  <2> QED
    BY <2>1, <2>2, <2>3, <2>4, WatcherSet
<1>1. /\ events_made' = w /\ events_fd_of' = [events_fd_of EXCEPT ![w] = f]
      /\ events_epoll' = [events_epoll EXCEPT ![f] = w]
      /\ events_reused' = (events_reused \/ Events!InBatch(f))
      /\ events_build' = events_build /\ events_signal' = events_signal
      /\ events_batch' = events_batch /\ events_tasks' = events_tasks
      /\ events_calling' = events_calling
  BY DEF Events!OpenHere
<1>2. events_event_map' = IF events_event_map[f] = 0 THEN [events_event_map EXCEPT ![f] = w]
                                                     ELSE events_event_map
  BY WatcherSet DEF Events!OpenHere
<1> HIDE DEF w
<1>3. /\ events_fd_of' \in [Events!Watcher -> Fd \cup {0}]
      /\ events_fd_of'[w] = f /\ \A v \in Events!Watcher \ {w} : events_fd_of'[v] = events_fd_of[v]
  BY <1>0, <1>1
<1>4. /\ events_epoll' \in [Fd -> Events!Watcher \cup {0}]
      /\ events_epoll'[f] = w /\ \A g \in Fd \ {f} : events_epoll'[g] = events_epoll[g]
  BY <1>0, <1>1
<1>5. /\ events_event_map' \in [Fd -> Events!Watcher \cup {0}] /\ events_event_map'[f] # 0
      /\ events_event_map[f] = 0 => events_event_map'[f] = w
      /\ \A g \in Fd \ {f} : events_event_map'[g] = events_event_map[g]
  <2>1. CASE events_event_map[f] = 0
    BY <1>0, <1>2, <2>1
  <2>2. CASE events_event_map[f] # 0
    BY <1>0, <1>2, <2>2
  <2> QED
    BY <2>1, <2>2
<1>6. EventTypes'
  <2>1. events_made' \in 0 .. MaxWatcher
    BY <1>0, <1>1, WatcherSet
  <2>2. events_reused' \in BOOLEAN
    BY <1>1
  <2> QED
    BY <1>1, <1>3, <1>4, <1>5, <2>1, <2>2, BuiltKept DEF EventsInv, EventTypes
<1>7. HeldOnce(events_fd_of', events_made')
  <2>1. \A v \in Events!Watcher : v > w => v > events_made /\ v # w
    BY <1>0, WatcherSet DEF w
  <2> QED
    BY <1>0, <1>1, <1>3, <2>1 DEF EventsInv, HeldOnce
<1>8. TasksRight(events_tasks', events_made')
  <2>1. \A i \in 1 .. Len(events_tasks) : events_tasks[i][2] \in Nat
    BY ElementOfSeq, WatcherSet DEF EventsInv, EventTypes, Closures
  <2>2. \A i \in 1 .. Len(events_tasks) : events_tasks[i][2] <= w
    BY <1>0, <2>1 DEF EventsInv, TasksRight, w
  <2> QED
    BY <1>1, <2>2 DEF EventsInv, TasksRight
<1>9. \A g \in Fd : events_epoll'[g] # 0 => events_event_map'[g] # 0
  BY <1>4, <1>5 DEF EventsInv
<1>10. Events!RightWatcher'
  BY <1>1 DEF EventsInv, Events!RightWatcher
<1>11. ASSUME ~events_reused'
       PROVE  /\ AddsHeld(events_tasks', events_fd_of')
              /\ Agree(events_epoll', events_event_map', events_fd_of')
              /\ BatchRight(events_batch', events_event_map')
  <2>0. ~events_reused /\ ~Events!InBatch(f)
    BY <1>1, <1>11
  <2>1. AddsHeld(events_tasks', events_fd_of')
    <3> SUFFICES ASSUME NEW i \in 1 .. Len(events_tasks), events_tasks[i][1] = "add"
                 PROVE  events_fd_of'[events_tasks[i][2]] = events_tasks[i][3]
      BY <1>1 DEF AddsHeld
    <3>1. events_tasks[i] \in Closures
      BY ElementOfSeq DEF EventsInv, EventTypes
    <3>2. events_tasks[i][2] \in Events!Watcher
      BY <3>1 DEF Closures
    <3>3. events_tasks[i][2] <= events_made
      BY DEF EventsInv, TasksRight
    <3>4. events_tasks[i][2] # w
      BY <1>0, <3>3 DEF w
    <3> QED
      BY <1>3, <2>0, <3>2, <3>4 DEF EventsInv, AddsHeld
  <2>2. events_event_map[f] = 0
    <3>1. events_event_map[f] = events_epoll[f]
          /\ (events_epoll[f] # 0 => events_fd_of[events_epoll[f]] = f)
      BY <2>0 DEF EventsInv, Agree
    <3> QED
      BY <1>0, <3>1
  <2>3. Agree(events_epoll', events_event_map', events_fd_of')
    <3> SUFFICES ASSUME NEW g \in Fd
                 PROVE  /\ events_event_map'[g] = events_epoll'[g]
                        /\ events_epoll'[g] # 0 => events_fd_of'[events_epoll'[g]] = g
      BY DEF Agree
    <3>1. CASE g = f
      BY <1>3, <1>4, <1>5, <2>2, <3>1
    <3>2. CASE g # f
      <4>1. events_epoll'[g] = events_epoll[g] /\ events_event_map'[g] = events_event_map[g]
        BY <1>4, <1>5, <3>2
      <4>2. /\ events_event_map[g] = events_epoll[g]
            /\ events_epoll[g] # 0 => events_fd_of[events_epoll[g]] = g
        BY <2>0 DEF EventsInv, Agree
      <4>3. g # 0
        BY WatcherSet
      <4>4. events_epoll[g] \in Events!Watcher \cup {0} /\ events_epoll[g] # w
        BY <1>0, <4>2, <4>3
      <4> QED
        BY <1>3, <4>1, <4>2, <4>4
    <3> QED
      BY <3>1, <3>2
  <2>4. BatchRight(events_batch', events_event_map')
    <3> SUFFICES ASSUME NEW i \in 1 .. Len(events_batch)
                 PROVE  events_event_map'[events_batch[i][1]] \in {0, events_batch[i][2]}
      BY <1>1 DEF BatchRight
    <3>1. events_batch[i] \in Fd \X Events!Watcher
      BY ElementOfSeq DEF EventsInv, EventTypes
    <3>2. events_batch[i][1] \in Fd \ {f}
      BY <2>0, <3>1 DEF Events!InBatch
    <3>3. events_event_map[events_batch[i][1]] \in {0, events_batch[i][2]}
      BY <2>0 DEF EventsInv, BatchRight
    <3> QED
      BY <1>5, <3>2, <3>3
  <2> QED
    BY <2>1, <2>3, <2>4
<1> QED
  BY <1>6, <1>7, <1>8, <1>9, <1>10, <1>11 DEF EventsInv

\* Another thread makes one: the closure that adds it waits.
LEMMA EventsOpen ==
  ASSUME EventsInv, NEW f \in Fd, Events!Open(f)
  PROVE  EventsInv'
<1> DEFINE w == events_made + 1
           t == <<"add", w, f>>
<1>0. /\ events_made \in Nat /\ w \in Events!Watcher /\ f # 0 /\ w # 0
      /\ events_fd_of \in [Events!Watcher -> Fd \cup {0}]
      /\ events_tasks \in Seq(Closures) /\ TasksRight(events_tasks, events_made)
      /\ \A v \in Events!Watcher : events_fd_of[v] # f
      /\ events_fd_of[w] = 0
  <2>1. /\ events_made \in 0 .. MaxWatcher
        /\ events_fd_of \in [Events!Watcher -> Fd \cup {0}]
        /\ events_tasks \in Seq(Closures) /\ TasksRight(events_tasks, events_made)
    BY DEF EventsInv, EventTypes
  <2>2. events_made < MaxWatcher /\ \A v \in Events!Watcher : events_fd_of[v] # f
    BY Zenon DEF Events!Open, Events!Held
  <2>3. w \in Events!Watcher /\ w > events_made
    BY <2>1, <2>2, WatcherSet
  <2>4. events_fd_of[w] = 0
    BY <2>3 DEF EventsInv, HeldOnce
  <2> QED
    BY <2>1, <2>2, <2>3, <2>4, WatcherSet
<1>1. /\ events_made' = w /\ events_fd_of' = [events_fd_of EXCEPT ![w] = f]
      /\ events_tasks' = Append(events_tasks, t)
      /\ events_build' = events_build /\ events_signal' = events_signal
      /\ events_batch' = events_batch /\ events_epoll' = events_epoll
      /\ events_event_map' = events_event_map /\ events_reused' = events_reused
      /\ events_calling' = events_calling
  BY Zenon DEF Events!Open, Events!mapVars
<1>2. t \in Closures /\ t[1] = "add" /\ t[2] = w /\ t[3] = f
  BY <1>0 DEF Closures
<1>3. w \in Nat /\ events_made <= w /\ w > events_made /\ w <= w
  BY <1>0
<1> HIDE DEF w, t
<1>4. /\ events_tasks' \in Seq(Closures) /\ TasksRight(events_tasks', w)
      /\ Len(events_tasks') = Len(events_tasks) + 1 /\ events_tasks'[Len(events_tasks) + 1] = t
      /\ \A i \in 1 .. Len(events_tasks) : events_tasks'[i] = events_tasks[i]
  BY <1>0, <1>1, <1>2, <1>3, TasksAppend
<1>5. /\ events_fd_of' \in [Events!Watcher -> Fd \cup {0}]
      /\ events_fd_of'[w] = f /\ \A v \in Events!Watcher \ {w} : events_fd_of'[v] = events_fd_of[v]
  BY <1>0, <1>1
<1>6. EventTypes'
  <2>1. events_made' \in 0 .. MaxWatcher
    BY <1>0, <1>1, WatcherSet
  <2> QED
    BY <1>1, <1>4, <1>5, <2>1, BuiltKept DEF EventsInv, EventTypes
<1>7. HeldOnce(events_fd_of', events_made')
  <2>1. \A v \in Events!Watcher : v > w => v > events_made /\ v # w
    BY <1>0, WatcherSet DEF w
  <2> QED
    BY <1>0, <1>1, <1>5, <2>1 DEF EventsInv, HeldOnce
<1>8. (\A g \in Fd : events_epoll[g] # 0 => events_event_map[g] # 0)'
  BY <1>1 DEF EventsInv
<1>9. Events!RightWatcher'
  BY <1>1 DEF EventsInv, Events!RightWatcher
<1>10. ASSUME ~events_reused
       PROVE  /\ AddsHeld(events_tasks', events_fd_of')
              /\ Agree(events_epoll, events_event_map, events_fd_of')
              /\ BatchRight(events_batch, events_event_map)
  <2>1. AddsHeld(events_tasks', events_fd_of')
    <3> SUFFICES ASSUME NEW i \in 1 .. Len(events_tasks'), events_tasks'[i][1] = "add"
                 PROVE  events_fd_of'[events_tasks'[i][2]] = events_tasks'[i][3]
      BY DEF AddsHeld
    <3>0. Len(events_tasks) \in Nat
      BY <1>0, LenProperties
    <3>1. CASE i = Len(events_tasks) + 1
      BY <1>2, <1>4, <1>5, <3>1
    <3>2. CASE i # Len(events_tasks) + 1
      <4>1. i \in 1 .. Len(events_tasks) /\ events_tasks'[i] = events_tasks[i]
        BY <1>4, <3>0, <3>2
      <4>2. events_tasks[i] \in Closures
        BY <1>0, <4>1, ElementOfSeq
      <4>3. events_tasks[i][2] \in Events!Watcher
        BY <4>2 DEF Closures
      <4>4. events_tasks[i][2] <= events_made
        BY <1>0, <4>1 DEF TasksRight
      <4>5. events_tasks[i][2] # w
        BY <1>0, <4>4 DEF w
      <4> QED
        BY <1>5, <1>10, <4>1, <4>3, <4>5 DEF EventsInv, AddsHeld
    <3> QED
      BY <3>1, <3>2
  <2>2. Agree(events_epoll, events_event_map, events_fd_of')
    <3> SUFFICES ASSUME NEW g \in Fd
                 PROVE  /\ events_event_map[g] = events_epoll[g]
                        /\ events_epoll[g] # 0 => events_fd_of'[events_epoll[g]] = g
      BY DEF Agree
    <3>1. /\ events_event_map[g] = events_epoll[g]
          /\ events_epoll[g] # 0 => events_fd_of[events_epoll[g]] = g
      BY <1>10 DEF EventsInv, Agree
    <3>2. g # 0
      BY WatcherSet
    <3>3. events_epoll[g] \in Events!Watcher \cup {0}
      BY DEF EventsInv, EventTypes
    <3>4. events_epoll[g] # w
      BY <1>0, <3>1, <3>2
    <3> QED
      BY <1>5, <3>1, <3>3, <3>4
  <2> QED
    BY <1>10, <2>1, <2>2 DEF EventsInv
<1> QED
  BY <1>1, <1>4, <1>6, <1>7, <1>8, <1>9, <1>10 DEF EventsInv

\* Its end, on the loop's thread.
LEMMA EventsCloseHere ==
  ASSUME EventsInv, NEW w \in Events!Watcher, Events!CloseHere(w)
  PROVE  EventsInv'
<1> DEFINE f == events_fd_of[w]
<1>1. /\ f # 0 /\ Events!DelHere(f) /\ events_fd_of' = [events_fd_of EXCEPT ![w] = 0]
      /\ events_signal' = events_signal \ {w}
      /\ events_reused' = (events_reused \/ Events!Overtakes(w))
      /\ UNCHANGED <<events_build, events_made, events_batch, events_tasks, events_calling>>
  BY WatcherSet DEF Events!CloseHere
<1>2. f \in Fd
  BY <1>1 DEF EventsInv, EventTypes
<1>3. events_tasks \in Seq(Closures) /\ TasksRight(events_tasks, events_made)
  BY DEF EventsInv, EventTypes
<1>4. ASSUME ~events_reused'
      PROVE  /\ ~events_reused /\ AddsHeld(events_tasks, events_fd_of)
             /\ \A i \in 1 .. Len(events_tasks) :
                  events_tasks[i][1] = "add" => events_tasks[i][2] # w
  <2>1. ~events_reused /\ ~Events!Overtakes(w)
    BY <1>1, <1>4
  <2>2. AddsHeld(events_tasks, events_fd_of)
    BY <2>1 DEF EventsInv
  <2>3. ASSUME NEW i \in 1 .. Len(events_tasks), events_tasks[i][1] = "add",
               events_tasks[i][2] = w
        PROVE  FALSE
    <3>1. events_tasks[i][3] = f
      BY <2>2, <2>3 DEF AddsHeld
    <3>2. events_tasks[i] \in Closures
      BY <1>3, ElementOfSeq
    <3>3. events_tasks[i] = <<"add", w, f>>
      BY <2>3, <3>1, <3>2 DEF Closures
    <3> QED
      BY <2>1, <3>3 DEF Events!Overtakes
  <2> QED
    BY <2>1, <2>2, <2>3
<1>5. events_reused' \in BOOLEAN
  BY <1>1
<1> HIDE DEF f
<1> QED
  BY <1>1, <1>2, <1>3, <1>4, <1>5, EventsClosed DEF f

\* Its end, by another thread: the closure that ends it waits.
LEMMA EventsClose ==
  ASSUME EventsInv, NEW w \in Events!Watcher, Events!Close(w)
  PROVE  EventsInv'
<1> DEFINE f == events_fd_of[w]
           t == <<"del", w, f>>
<1>1. /\ f # 0 /\ events_tasks' = Append(events_tasks, t)
      /\ events_fd_of' = events_fd_of /\ events_made' = events_made
      /\ events_build' = events_build /\ events_signal' = events_signal
      /\ events_batch' = events_batch /\ events_epoll' = events_epoll
      /\ events_event_map' = events_event_map /\ events_reused' = events_reused
      /\ events_calling' = events_calling
  BY WatcherSet DEF Events!Close, Events!mapVars
<1>2. /\ f \in Fd /\ w <= events_made /\ events_made \in Nat
      /\ events_tasks \in Seq(Closures) /\ TasksRight(events_tasks, events_made)
  <2>1. /\ f \in Fd /\ events_tasks \in Seq(Closures) /\ TasksRight(events_tasks, events_made)
        /\ events_made \in Nat
    BY <1>1 DEF EventsInv, EventTypes
  <2>2. ~(w > events_made)
    BY <1>1 DEF EventsInv, HeldOnce
  <2>3. w \in Nat
    BY WatcherSet
  <2> QED
    BY <2>1, <2>2, <2>3
<1>3. t \in Closures /\ t[1] = "del" /\ t[2] = w
  BY <1>2 DEF Closures
<1> HIDE DEF f, t
<1>4. /\ events_tasks' \in Seq(Closures) /\ TasksRight(events_tasks', events_made)
      /\ Len(events_tasks') = Len(events_tasks) + 1 /\ events_tasks'[Len(events_tasks) + 1] = t
      /\ \A i \in 1 .. Len(events_tasks) : events_tasks'[i] = events_tasks[i]
  <2>1. t[1] = "add" => t[2] > events_made
    BY <1>3
  <2>2. events_made <= events_made
    BY <1>2
  <2> QED
    BY <1>1, <1>2, <1>3, <2>1, <2>2, TasksAppend
<1>5. EventTypes'
  BY <1>1, <1>4, BuiltKept DEF EventsInv, EventTypes
<1>6. ASSUME ~events_reused PROVE AddsHeld(events_tasks', events_fd_of)
  <2> SUFFICES ASSUME NEW i \in 1 .. Len(events_tasks'), events_tasks'[i][1] = "add"
               PROVE  events_fd_of[events_tasks'[i][2]] = events_tasks'[i][3]
    BY DEF AddsHeld
  <2>1. Len(events_tasks) \in Nat
    BY <1>2, LenProperties
  <2>2. i # Len(events_tasks) + 1
    BY <1>3, <1>4
  <2>3. i \in 1 .. Len(events_tasks) /\ events_tasks'[i] = events_tasks[i]
    BY <1>4, <2>1, <2>2
  <2> QED
    BY <1>6, <2>3 DEF EventsInv, AddsHeld
<1> QED
  BY <1>1, <1>4, <1>5, <1>6 DEF EventsInv, Events!RightWatcher

\* The closure that adds a watcher runs.
LEMMA EventsAdd ==
  ASSUME EventsInv, NEW w \in Events!Watcher, NEW f \in Fd, Events!AddHere(w, f),
         events_tasks' \in Seq(Closures), TasksRight(events_tasks', events_made),
         ~events_reused => /\ AddsHeld(events_tasks', events_fd_of) /\ events_fd_of[w] = f,
         UNCHANGED <<events_build, events_made, events_fd_of, events_signal, events_batch,
                     events_calling>>
  PROVE  EventsInv'
<1> DEFINE v == Events!Holder(f)
<1>0. /\ events_epoll \in [Fd -> Events!Watcher \cup {0}]
      /\ events_event_map \in [Fd -> Events!Watcher \cup {0}]
      /\ w # 0 /\ f # 0 /\ events_reused \in BOOLEAN
  BY WatcherSet DEF EventsInv, EventTypes
<1>1. /\ v \in Events!Watcher \cup {0}
      /\ events_fd_of[w] = f => Events!Held(f) /\ v = w
  BY HolderIs DEF EventsInv
<1>2. CASE ~(events_build = "select" \/ (Events!Held(f) /\ events_epoll[f] = 0))
  <2>1. UNCHANGED <<events_epoll, events_event_map, events_reused>>
    BY <1>2, WatcherSet DEF Events!AddHere
  <2>2. EventTypes'
    BY <2>1, BuiltKept DEF EventsInv, EventTypes
  <2> QED
    BY <2>1, <2>2 DEF EventsInv, Events!RightWatcher
<1>3. CASE events_build = "select" \/ (Events!Held(f) /\ events_epoll[f] = 0)
  <2>1. events_epoll' = [events_epoll EXCEPT ![f] = v]
    BY <1>3, WatcherSet DEF Events!AddHere
  <2>2. events_event_map' = IF events_event_map[f] = 0 THEN [events_event_map EXCEPT ![f] = w]
                                                       ELSE events_event_map
    BY <1>3, WatcherSet DEF Events!AddHere
  <2>3. events_reused' = (events_reused \/ Events!InBatch(f))
    BY <1>3, WatcherSet DEF Events!AddHere
  <2> HIDE DEF v
  <2>4. /\ events_epoll' \in [Fd -> Events!Watcher \cup {0}]
        /\ events_epoll'[f] = v /\ \A g \in Fd \ {f} : events_epoll'[g] = events_epoll[g]
    BY <1>0, <1>1, <2>1
  <2>5. /\ events_event_map' \in [Fd -> Events!Watcher \cup {0}] /\ events_event_map'[f] # 0
        /\ events_event_map[f] = 0 => events_event_map'[f] = w
        /\ events_event_map[f] # 0 => events_event_map'[f] = events_event_map[f]
        /\ \A g \in Fd \ {f} : events_event_map'[g] = events_event_map[g]
    <3>1. CASE events_event_map[f] = 0
      BY <1>0, <2>2, <3>1
    <3>2. CASE events_event_map[f] # 0
      BY <1>0, <2>2, <3>2
    <3> QED
      BY <3>1, <3>2
  <2>6. EventTypes'
    <3>1. events_reused' \in BOOLEAN
      BY <2>3
    <3> QED
      BY <2>4, <2>5, <3>1, BuiltKept DEF EventsInv, EventTypes
  <2>7. \A g \in Fd : events_epoll'[g] # 0 => events_event_map'[g] # 0
    BY <2>4, <2>5 DEF EventsInv
  <2>8. Events!RightWatcher'
    BY <2>3 DEF EventsInv, Events!RightWatcher
  <2>9. ASSUME ~events_reused'
        PROVE  /\ Agree(events_epoll', events_event_map', events_fd_of)
               /\ BatchRight(events_batch, events_event_map')
    <3>0. ~events_reused /\ ~Events!InBatch(f)
      BY <2>3, <2>9
    <3>1. events_fd_of[w] = f /\ v = w
      BY <1>1, <3>0
    <3>2. events_event_map[f] = events_epoll[f]
          /\ (events_epoll[f] # 0 => events_fd_of[events_epoll[f]] = f)
      BY <3>0 DEF EventsInv, Agree
    <3>3. events_epoll[f] # 0 => events_epoll[f] = w
      <4> SUFFICES ASSUME events_epoll[f] # 0 PROVE events_epoll[f] = w
        OBVIOUS
      <4>1. events_epoll[f] \in Events!Watcher
        BY <1>0
      <4> QED
        BY <1>0, <3>1, <3>2, <4>1 DEF EventsInv, HeldOnce
    <3>4. events_event_map'[f] = w
      BY <2>5, <3>2, <3>3
    <3>5. Agree(events_epoll', events_event_map', events_fd_of)
      <4> SUFFICES ASSUME NEW g \in Fd
                   PROVE  /\ events_event_map'[g] = events_epoll'[g]
                          /\ events_epoll'[g] # 0 => events_fd_of[events_epoll'[g]] = g
        BY DEF Agree
      <4>1. CASE g = f
        BY <2>4, <3>1, <3>4, <4>1
      <4>2. CASE g # f
        BY <2>4, <2>5, <3>0, <4>2 DEF EventsInv, Agree
      <4> QED
        BY <4>1, <4>2
    <3>6. BatchRight(events_batch, events_event_map')
      <4> SUFFICES ASSUME NEW i \in 1 .. Len(events_batch)
                   PROVE  events_event_map'[events_batch[i][1]] \in {0, events_batch[i][2]}
        BY DEF BatchRight
      <4>1. events_batch[i] \in Fd \X Events!Watcher
        BY ElementOfSeq DEF EventsInv, EventTypes
      <4>2. events_batch[i][1] \in Fd \ {f}
        BY <3>0, <4>1 DEF Events!InBatch
      <4>3. events_event_map[events_batch[i][1]] \in {0, events_batch[i][2]}
        BY <3>0 DEF EventsInv, BatchRight
      <4> QED
        BY <2>5, <4>2, <4>3
    <3> QED
      BY <3>5, <3>6
  <2>10. ~events_reused' => AddsHeld(events_tasks', events_fd_of)
    BY <2>3
  <2> QED
    BY <2>6, <2>7, <2>8, <2>9, <2>10 DEF EventsInv
<1> QED
  BY <1>2, <1>3

\* A closure of another thread runs.
LEMMA EventsRunTask ==
  ASSUME EventsInv, Events!RunTask
  PROVE  EventsInv'
<1> PICK t : t = events_tasks[1]
  OBVIOUS
<1>1. /\ events_tasks # <<>> /\ events_tasks' = Tail(events_tasks)
      /\ UNCHANGED <<events_build, events_made, events_batch, events_calling>>
  BY DEF Events!RunTask
<1>2. events_tasks \in Seq(Closures) /\ TasksRight(events_tasks, events_made)
      /\ events_made \in Nat
  BY DEF EventsInv, EventTypes
<1>3. /\ Head(events_tasks) = t /\ t \in Closures /\ 1 \in 1 .. Len(events_tasks)
      /\ events_tasks' \in Seq(Closures) /\ TasksRight(events_tasks', events_made)
      /\ \A i \in 1 .. Len(events_tasks') :
           i + 1 \in 1 .. Len(events_tasks) /\ events_tasks'[i] = events_tasks[i + 1]
      /\ t[1] = "del" => \A i \in 1 .. Len(events_tasks') :
                           events_tasks'[i][1] = "add" => events_tasks'[i][2] # t[2]
  BY <1>1, <1>2, TasksTail
<1>4. t[1] \in {"add", "del"} /\ t[2] \in Events!Watcher /\ t[3] \in Fd
  BY <1>3 DEF Closures
<1>5. ~events_reused => AddsHeld(events_tasks', events_fd_of)
  BY <1>3 DEF EventsInv, AddsHeld
<1>6. \/ /\ t[1] = "add" /\ Events!AddHere(t[2], t[3])
         /\ UNCHANGED <<events_fd_of, events_signal>>
      \/ /\ t[1] = "del" /\ events_fd_of[t[2]] = t[3] /\ Events!DelHere(t[3])
         /\ events_fd_of' = [events_fd_of EXCEPT ![t[2]] = 0]
         /\ events_signal' = events_signal \ {t[2]} /\ events_reused' = events_reused
      \/ UNCHANGED <<events_epoll, events_event_map, events_fd_of, events_signal, events_reused>>
  BY <1>3, WatcherSet DEF Events!RunTask, Events!mapVars
<1>7. CASE t[1] = "add" /\ Events!AddHere(t[2], t[3]) /\ UNCHANGED <<events_fd_of, events_signal>>
  <2>1. ~events_reused => events_fd_of[t[2]] = t[3]
    BY <1>3, <1>7 DEF EventsInv, AddsHeld
  <2> QED
    BY <1>1, <1>3, <1>4, <1>5, <1>7, <2>1, EventsAdd
<1>8. CASE /\ t[1] = "del" /\ events_fd_of[t[2]] = t[3] /\ Events!DelHere(t[3])
           /\ events_fd_of' = [events_fd_of EXCEPT ![t[2]] = 0]
           /\ events_signal' = events_signal \ {t[2]} /\ events_reused' = events_reused
  <2>1. events_reused' \in BOOLEAN
    BY <1>8 DEF EventsInv, EventTypes
  <2>2. ~events_reused' => /\ ~events_reused /\ AddsHeld(events_tasks', events_fd_of)
                           /\ \A i \in 1 .. Len(events_tasks') :
                                events_tasks'[i][1] = "add" => events_tasks'[i][2] # t[2]
    BY <1>3, <1>5, <1>8
  <2> QED
    BY <1>1, <1>3, <1>4, <1>8, <2>1, <2>2, EventsClosed
<1>9. CASE UNCHANGED <<events_epoll, events_event_map, events_fd_of, events_signal, events_reused>>
  <2>1. EventTypes'
    BY <1>1, <1>3, <1>9, BuiltKept DEF EventsInv, EventTypes
  <2> QED
    BY <1>1, <1>3, <1>5, <1>9, <2>1 DEF EventsInv, Events!RightWatcher
<1> QED
  BY <1>6, <1>7, <1>8, <1>9

\* A finite set as a sequence: its elements, whatever the order.
LEMMA SeqOfSet ==
  ASSUME NEW S, IsFiniteSet(S)
  PROVE  Events!SetToSeq(S) \in Seq(S)
<1>1. Events!Cardinality(S) = Cardinality(S) /\ Cardinality(S) \in Nat
  <2>1. Events!Cardinality(S) = Cardinality(S)
    BY ONLY DEF Events!Cardinality, Cardinality
  <2> QED
    BY <2>1, FS_CardinalityType
<1>2. PICK f : f \in [1 .. Cardinality(S) -> S] /\ Events!IsInjective(f)
  <2>1. ExistsBijection(1 .. Cardinality(S), S)
    <3>1. PICK n \in Nat : ExistsBijection(1 .. n, S)
      BY FS_NatBijection
    <3> QED
      BY <3>1, FS_CountingElements
  <2>2. PICK f \in Bijection(1 .. Cardinality(S), S) : TRUE
    BY <2>1 DEF ExistsBijection
  <2>3. f \in [1 .. Cardinality(S) -> S] /\ Events!IsInjective(f)
    BY <2>2 DEF Bijection, Injection, IsInjective, Events!IsInjective
  <2> QED
    BY <2>3
<1>3. Events!SetToSeq(S) \in [1 .. Cardinality(S) -> S]
  BY <1>1, <1>2 DEF Events!SetToSeq
<1> QED
  BY <1>1, <1>3

\* The kernel reports what has happened.
LEMMA EventsWait ==
  ASSUME EventsInv, Events!Wait
  PROVE  EventsInv'
<1> PICK q : q = Events!SetToSeq(Events!Watched)
  OBVIOUS
<1>1. /\ UNCHANGED <<events_build, events_made, events_fd_of, events_epoll, events_event_map,
                     events_tasks, events_calling, events_reused>>
      /\ events_signal' \subseteq events_signal
      /\ events_batch' = [i \in 1 .. Len(q) |->
           <<q[i], IF events_build = "epoll" THEN events_epoll[q[i]] ELSE events_event_map[q[i]]>>]
  BY DEF Events!Wait, Events!mapVars
<1>2. q \in Seq(Events!Watched) /\ Len(q) \in Nat
  <2>1. IsFiniteSet(Events!Watched)
    <3>1. Events!Watched \subseteq Fd
      BY DEF Events!Watched
    <3> QED
      BY <3>1, PollerAssumption, FS_Subset
  <2> QED
    BY <2>1, SeqOfSet, LenProperties
<1>3. \A i \in 1 .. Len(q) : /\ q[i] \in Fd /\ events_epoll[q[i]] \in Events!Watcher
                             /\ events_event_map[q[i]] \in Events!Watcher
  <2> SUFFICES ASSUME NEW i \in 1 .. Len(q)
               PROVE  /\ q[i] \in Fd /\ events_epoll[q[i]] \in Events!Watcher
                      /\ events_event_map[q[i]] \in Events!Watcher
    OBVIOUS
  <2>1. q[i] \in Fd /\ events_epoll[q[i]] # 0
    BY <1>2, ElementOfSeq, WatcherSet DEF Events!Watched
  <2>2. events_event_map[q[i]] # 0
    BY <2>1 DEF EventsInv
  <2> QED
    BY <2>1, <2>2 DEF EventsInv, EventTypes
<1>4. events_batch' \in Seq(Fd \X Events!Watcher) /\ Len(events_batch') = Len(q)
      /\ \A i \in 1 .. Len(q) :
           /\ events_batch'[i][1] = q[i]
           /\ events_batch'[i][2] \in {events_epoll[q[i]], events_event_map[q[i]]}
  BY <1>1, <1>2, <1>3
<1>5. ~events_reused => BatchRight(events_batch', events_event_map)
  <2> SUFFICES ASSUME ~events_reused, NEW i \in 1 .. Len(events_batch')
               PROVE  events_event_map[events_batch'[i][1]] \in {0, events_batch'[i][2]}
    BY DEF BatchRight
  <2>1. events_event_map[q[i]] = events_epoll[q[i]]
    BY <1>3, <1>4 DEF EventsInv, Agree
  <2> QED
    BY <1>4, <2>1
<1>6. /\ Built' /\ events_signal' \subseteq Events!Watcher
      /\ ~events_reused => events_calling'[1] = events_calling'[2]
  BY <1>1, BuiltKept DEF EventsInv, EventTypes, Events!RightWatcher
<1> QED
  BY <1>1, <1>4, <1>5, <1>6, EventsQuiet

\* The first event of a batch, and those that are left.
LEMMA BatchTail ==
  ASSUME NEW bs \in Seq(Fd \X Events!Watcher), bs # <<>>, NEW map
  PROVE  /\ Head(bs) = bs[1] /\ Head(bs) \in Fd \X Events!Watcher /\ 1 \in 1 .. Len(bs)
         /\ Tail(bs) \in Seq(Fd \X Events!Watcher)
         /\ BatchRight(bs, map) => BatchRight(Tail(bs), map)
<1> DEFINE rest == Tail(bs)
<1>1. /\ Head(bs) = bs[1] /\ Len(bs) \in Nat /\ Len(bs) # 0 /\ Len(rest) = Len(bs) - 1
      /\ rest \in Seq(Fd \X Events!Watcher) /\ Head(bs) \in Fd \X Events!Watcher
  BY EmptySeq, HeadTailProperties, LenProperties
<1>2. \A i \in 1 .. Len(rest) : rest[i] = bs[i + 1]
  BY HeadTailProperties
<1> HIDE DEF rest
<1>3. \A i \in 1 .. Len(rest) : i + 1 \in 1 .. Len(bs)
  BY <1>1
<1>4. 1 \in 1 .. Len(bs)
  BY <1>1
<1>5. BatchRight(bs, map) => BatchRight(rest, map)
  BY <1>2, <1>3 DEF BatchRight
<1> QED
  BY <1>1, <1>4, <1>5 DEF rest

\* The loop calls the function of an event.
LEMMA EventsCall ==
  ASSUME EventsInv, Events!CallBack \/ Events!CallRecord
  PROVE  EventsInv'
<1> PICK f, v : f = Head(events_batch)[1] /\ v = Head(events_batch)[2]
  OBVIOUS
<1>1. /\ events_batch # <<>> /\ events_batch' = Tail(events_batch)
      /\ UNCHANGED <<events_build, events_made, events_fd_of, events_event_map, events_signal,
                     events_tasks, events_reused>>
  BY DEF Events!CallBack, Events!CallRecord, Events!mapVars
<1>2. events_batch \in Seq(Fd \X Events!Watcher)
  BY DEF EventsInv, EventTypes
<1>3. /\ Head(events_batch) = events_batch[1] /\ Head(events_batch) \in Fd \X Events!Watcher
      /\ 1 \in 1 .. Len(events_batch) /\ events_batch' \in Seq(Fd \X Events!Watcher)
      /\ BatchRight(events_batch, events_event_map) => BatchRight(events_batch', events_event_map)
  BY <1>1, <1>2, BatchTail
<1>4. f \in Fd
  BY <1>3
<1>5. ~events_reused => BatchRight(events_batch', events_event_map)
                        /\ events_event_map[f] \in {0, v}
  BY <1>3 DEF EventsInv, BatchRight
<1>6. events_epoll' = events_epoll
  <2>1. CASE Events!CallRecord
    BY <2>1 DEF Events!CallRecord, Events!mapVars
  <2>2. CASE Events!CallBack /\ events_event_map[f] # 0
    BY <2>2, WatcherSet DEF Events!CallBack, Events!mapVars
  <2>3. CASE Events!CallBack /\ events_event_map[f] = 0
    <3>1. events_epoll' = [events_epoll EXCEPT ![f] = 0]
      BY <2>3, WatcherSet DEF Events!CallBack
    <3>2. events_epoll \in [Fd -> Events!Watcher \cup {0}] /\ events_epoll[f] = 0
      BY <1>4, <2>3 DEF EventsInv, EventTypes
    <3> QED
      BY <3>1, <3>2
  <2> QED
    BY <2>1, <2>2, <2>3
<1>7. ~events_reused => events_calling'[1] = events_calling'[2]
  <2>1. CASE Events!CallRecord
    BY <2>1 DEF Events!CallRecord
  <2>2. CASE Events!CallBack /\ events_event_map[f] # 0
    <3>1. events_calling' = <<events_event_map[f], v>>
      BY <2>2, WatcherSet DEF Events!CallBack
    <3> QED
      BY <1>5, <2>2, <3>1
  <2>3. CASE Events!CallBack /\ events_event_map[f] = 0
    <3>1. events_calling' = events_calling
      BY <2>3, WatcherSet DEF Events!CallBack
    <3> QED
      BY <3>1 DEF EventsInv, Events!RightWatcher
  <2> QED
    BY <2>1, <2>2, <2>3
<1>8. Built' /\ events_signal' \subseteq Events!Watcher
  BY <1>1, BuiltKept DEF EventsInv, EventTypes
<1> QED
  BY <1>1, <1>3, <1>5, <1>6, <1>7, <1>8, EventsQuiet

\* The other steps.
LEMMA EventsOther ==
  ASSUME EventsInv,
         \/ Events!Build \/ Events!Return \/ \E w \in Events!Watcher : Events!Signal(w)
         \/ UNCHANGED Events!vars
  PROVE  EventsInv'
<1>1. /\ UNCHANGED <<events_made, events_fd_of, events_epoll, events_event_map, events_batch,
                     events_tasks, events_reused>>
      /\ events_calling' \in {events_calling, Events!Nobody}
  BY Zenon DEF Events!Build, Events!Return, Events!Signal, Events!vars, Events!mapVars
<1>2. Built'
  <2>1. Built
    BY DEF EventsInv, EventTypes
  <2> QED
    BY <2>1, BuiltKept, Zenon DEF Events!Build, Events!Return, Events!Signal, Events!vars, Built
<1>3. events_signal' \subseteq Events!Watcher
  <2>1. events_signal \subseteq Events!Watcher
    BY DEF EventsInv, EventTypes
  <2>2. events_signal' = events_signal
        \/ \E w \in Events!Watcher : events_signal' = events_signal \cup {w}
    BY Zenon DEF Events!Build, Events!Return, Events!Signal, Events!vars
  <2> QED
    BY <2>1, <2>2
<1>4. events_batch' \in Seq(Fd \X Events!Watcher)
  BY <1>1 DEF EventsInv, EventTypes
<1>5. ~events_reused => /\ events_calling'[1] = events_calling'[2]
                        /\ BatchRight(events_batch', events_event_map)
  BY <1>1 DEF EventsInv, Events!RightWatcher, Events!Nobody
<1> QED
  BY <1>1, <1>2, <1>3, <1>4, <1>5, EventsQuiet

\* At first there are no watchers.
LEMMA EventsStart == Events!Init => EventsInv
<1> SUFFICES ASSUME Events!Init PROVE EventsInv
  OBVIOUS
<1>1. /\ Built /\ events_made = 0 /\ events_reused = FALSE
      /\ events_fd_of = [w \in Events!Watcher |-> 0]
      /\ events_epoll = [f \in Fd |-> 0] /\ events_event_map = [f \in Fd |-> 0]
      /\ events_signal = {} /\ events_batch = <<>> /\ events_tasks = <<>>
      /\ events_calling = <<0, 0>>
  BY WatcherSet, Zenon DEF Events!Init, Events!Nobody, Built
<1>2. Len(<<>>) = 0 /\ events_batch \in Seq(Fd \X Events!Watcher) /\ events_tasks \in Seq(Closures)
  BY <1>1, EmptySeq
<1>3. EventTypes
  <2>1. events_made \in 0 .. MaxWatcher
    BY <1>1, WatcherSet
  <2>2. events_reused \in BOOLEAN
    BY <1>1
  <2>3. /\ events_fd_of \in [Events!Watcher -> Fd \cup {0}]
        /\ events_epoll \in [Fd -> Events!Watcher \cup {0}]
        /\ events_event_map \in [Fd -> Events!Watcher \cup {0}]
    BY <1>1
  <2>4. events_signal \subseteq Events!Watcher
    BY <1>1
  <2> QED
    BY <1>1, <1>2, <2>1, <2>2, <2>3, <2>4 DEF EventTypes
<1>4. HeldOnce(events_fd_of, events_made)
  BY <1>1 DEF HeldOnce
<1>5. TasksRight(events_tasks, events_made) /\ AddsHeld(events_tasks, events_fd_of)
      /\ BatchRight(events_batch, events_event_map)
  BY <1>1, <1>2 DEF TasksRight, AddsHeld, BatchRight
<1>6. Agree(events_epoll, events_event_map, events_fd_of)
      /\ \A f \in Fd : events_epoll[f] # 0 => events_event_map[f] # 0
  BY <1>1 DEF Agree
<1>7. Events!RightWatcher
  BY <1>1 DEF Events!RightWatcher
<1> QED
  BY <1>3, <1>4, <1>5, <1>6, <1>7 DEF EventsInv

\* A step keeps all of it.
LEMMA EventsStep == EventsInv /\ [Events!Next]_Events!vars => EventsInv'
<1> SUFFICES ASSUME EventsInv, [Events!Next]_Events!vars PROVE EventsInv'
  OBVIOUS
<1>1. CASE Events!RunTask
  BY <1>1, EventsRunTask
<1>2. CASE Events!Wait
  BY <1>2, EventsWait
<1>3. CASE Events!CallBack \/ Events!CallRecord
  BY <1>3, EventsCall
<1>4. CASE \E f \in Fd : Events!OpenHere(f) \/ Events!Open(f)
  BY <1>4, EventsOpenHere, EventsOpen
<1>5. CASE \E w \in Events!Watcher : Events!CloseHere(w) \/ Events!Close(w)
  BY <1>5, EventsCloseHere, EventsClose
<1>6. CASE \/ Events!Build \/ Events!Return \/ \E w \in Events!Watcher : Events!Signal(w)
           \/ UNCHANGED Events!vars
  BY <1>6, EventsOther
<1> QED
  BY <1>1, <1>2, <1>3, <1>4, <1>5, <1>6 DEF Events!Next

\* Kernel and map agree, and with epoll nothing is called whose delEvent has been made.
LEMMA EventsPromise ==
  /\ EventsInv => Events!PollerEventsRight
  /\ EventsInv /\ [Events!Next]_Events!vars
       => [(events_build = "epoll" /\ events_calling' # Events!Nobody
            /\ events_calling = Events!Nobody /\ ~events_reused)
             => events_fd_of[events_calling'[1]] # Events!None]_Events!vars
<1>1. ASSUME EventsInv PROVE Events!PollerEventsRight
  <2>1. Events!TypeOK
    <3>1. \A i \in 1 .. Len(events_batch) : events_batch[i] \in Fd \X Events!Watcher
      BY <1>1, ElementOfSeq DEF EventsInv, EventTypes
    <3>2. Built /\ EventTypes
      BY <1>1 DEF EventsInv, EventTypes
    <3>3. events_made \in 0 .. MaxWatcher /\ events_reused \in BOOLEAN
          /\ events_fd_of \in [Events!Watcher -> Fd \cup {Events!None}]
          /\ events_signal \subseteq Events!Watcher
          /\ {events_epoll, events_event_map} \subseteq [Fd -> Events!Watcher \cup {Events!None}]
      BY <3>2, WatcherSet DEF EventTypes
    <3> QED
      BY <3>1, <3>2, <3>3, Zenon DEF Built, Events!TypeOK
  <2>2. Events!SameWatched
    BY <1>1, WatcherSet DEF EventsInv, Agree, Events!SameWatched
  <2>3. Events!RightWatcher
    BY <1>1 DEF EventsInv
  <2> QED
    BY <2>1, <2>2, <2>3 DEF Events!PollerEventsRight
<1>2. ASSUME EventsInv, Events!Next, events_build = "epoll", events_calling' # Events!Nobody,
             events_calling = Events!Nobody, ~events_reused
      PROVE  events_fd_of[events_calling'[1]] # Events!None
  <2> PICK f : f = Head(events_batch)[1]
    OBVIOUS
  <2>1. Events!CallBack
    BY <1>2 DEF Events!Next, Events!Build, Events!RunTask, Events!Wait, Events!CallRecord,
                Events!Return, Events!OpenHere, Events!Open, Events!CloseHere, Events!Close,
                Events!Signal
  <2>2. events_event_map[f] # 0 /\ events_calling'[1] = events_event_map[f]
    BY <1>2, <2>1, WatcherSet DEF Events!CallBack
  <2>3. f \in Fd
    <3>1. events_batch # <<>> /\ events_batch \in Seq(Fd \X Events!Watcher)
      BY <1>2, <2>1 DEF Events!CallBack, EventsInv, EventTypes
    <3>2. Head(events_batch) \in Fd \X Events!Watcher
      BY <3>1, BatchTail
    <3> QED
      BY <3>2
  <2>4. events_event_map[f] = events_epoll[f] /\ events_fd_of[events_epoll[f]] = f
    BY <1>2, <2>2, <2>3 DEF EventsInv, Agree
  <2> QED
    BY <2>2, <2>3, <2>4, WatcherSet
<1> QED
  BY <1>1, <1>2

-----------------------------------------------------------------------------
(* What a poller keeps: the delay tasks of a timer.                        *)

TimerTypes ==
  /\ timers_now \in Nat /\ timers_period \in Int /\ timers_tag \in Nat
  /\ timers_calls \in [Timers!Id -> Nat]
  /\ timers_round \in [time : Nat, todo : SUBSET Nat, in : Nat]
  /\ \E n \in Nat : n <= MaxBegin /\ DOMAIN timers_begun = 1 .. n
  /\ DOMAIN timers_due \cup timers_round.todo \subseteq DOMAIN timers_begun
  /\ timers_round.in \in DOMAIN timers_begun \cup {0}
  /\ DOMAIN timers_due \cap timers_round.todo = {}
  /\ timers_round.in \notin DOMAIN timers_due \cup timers_round.todo
  /\ \A i \in Timers!Id : i \notin DOMAIN timers_begun => timers_calls[i] = 0

\* What is pending, or is called, was begun last, or forgotten, or cancelled.
EndsRight ==
  /\ timers_live \subseteq {timers_tag} /\ (timers_tag = 0 => timers_live = {})
  /\ \A i \in DOMAIN timers_due \cup timers_round.todo \cup {timers_round.in} :
       i # 0 => i \in timers_cancelled \cup timers_live \cup timers_stray

\* k periods after begin() made the delay task b.
Late(b, k) == b.at + k * b.period

\* i, which begin() made as b, was called k times, each a period later; it is not due too soon.
OnTime(i, b, k, due, round, now) ==
  /\ b.period \in Nat /\ b.at \in Nat
  /\ i \in DOMAIN due => due[i] \in Nat /\ Late(b, k + 1) <= due[i]
  /\ i \in round.todo => Late(b, k + 1) <= round.time
  /\ i = round.in => k > 0 /\ Late(b, k) <= round.time
  /\ k > 0 => Late(b, k) <= now
  /\ b.period = 0 => /\ i \in DOMAIN due \cup round.todo => k = 0
                     /\ i = round.in => k = 1

\* It goes on until its callback wants no more.
Continues(i, b, k, due, round, over) ==
  \/ i \in DOMAIN due \cup round.todo \/ i = round.in
  \/ i \in over \/ (b.period = 0 /\ k = 1)

TimerInv ==
  /\ TimerTypes /\ EndsRight /\ timers_round.time <= timers_now
  /\ \A i \in DOMAIN timers_begun :
       /\ OnTime(i, timers_begun[i], timers_calls[i], timers_due, timers_round, timers_now)
       /\ Continues(i, timers_begun[i], timers_calls[i], timers_due, timers_round,
                    timers_refused \cup timers_cancelled)

\* One period after the other.
LEMMA LateNext ==
  ASSUME NEW b, b.at \in Nat, b.period \in Nat, NEW k \in Nat
  PROVE  /\ Late(b, k) \in Nat /\ Late(b, k + 1) = Late(b, k) + b.period /\ Late(b, k + 1) \in Nat
         /\ Late(b, 0) = b.at
<1> PICK p \in Nat, a \in Nat : p = b.period /\ a = b.at
  OBVIOUS
<1>1. k * p \in Nat /\ (k + 1) * p = k * p + p /\ 0 * p = 0
  BY ONLY k \in Nat, p \in Nat
<1>2. Late(b, k) = a + k * p /\ Late(b, k + 1) = a + (k + 1) * p /\ Late(b, 0) = a + 0 * p
  BY DEF Late
<1> QED
  BY ONLY <1>1, <1>2, a = b.at, p = b.period, a \in Nat, p \in Nat

\* What is known of the delay tasks.
LEMMA TimerParts ==
  ASSUME TimerInv
  PROVE  /\ timers_now \in Nat /\ timers_round.time \in Nat /\ timers_round.time <= timers_now
         /\ timers_round.todo \subseteq DOMAIN timers_begun
         /\ DOMAIN timers_due \subseteq DOMAIN timers_begun
         /\ DOMAIN timers_begun \subseteq Timers!Id /\ Timers!Id = 1 .. MaxBegin
         /\ timers_calls \in [Timers!Id -> Nat]
         /\ \A i \in DOMAIN timers_begun :
              /\ i # 0 /\ i \in Nat /\ timers_calls[i] \in Nat
              /\ OnTime(i, timers_begun[i], timers_calls[i], timers_due, timers_round, timers_now)
<1>1. PICK n \in Nat : n <= MaxBegin /\ DOMAIN timers_begun = 1 .. n
  BY DEF TimerInv, TimerTypes
<1>2. Timers!Id = 1 .. MaxBegin /\ MaxBegin \in Nat
  BY PollerAssumption DEF Timers!Id
<1>3. DOMAIN timers_begun \subseteq Timers!Id
  BY <1>1, <1>2
<1>4. /\ timers_now \in Nat /\ timers_round.time \in Nat
      /\ timers_calls \in [Timers!Id -> Nat]
      /\ timers_round.todo \subseteq DOMAIN timers_begun
      /\ DOMAIN timers_due \subseteq DOMAIN timers_begun
  BY DEF TimerInv, TimerTypes
<1>5. timers_round.time <= timers_now
  BY DEF TimerInv
<1>6. \A i \in DOMAIN timers_begun :
        OnTime(i, timers_begun[i], timers_calls[i], timers_due, timers_round, timers_now)
  BY DEF TimerInv
<1>7. \A i \in DOMAIN timers_begun : i # 0 /\ i \in Nat /\ timers_calls[i] \in Nat
  BY <1>1, <1>3, <1>4
<1> QED
  BY <1>2, <1>3, <1>4, <1>5, <1>6, <1>7

\* Time passes.
LEMMA TimerTick == TimerInv /\ Timers!Tick => TimerInv'
<1> SUFFICES ASSUME TimerInv, Timers!Tick PROVE TimerInv'
  OBVIOUS
<1>1. /\ timers_now' = timers_now + 1
      /\ timers_period' = timers_period /\ timers_tag' = timers_tag
      /\ timers_begun' = timers_begun /\ timers_due' = timers_due
      /\ timers_cancelled' = timers_cancelled /\ timers_round' = timers_round
      /\ timers_calls' = timers_calls /\ timers_refused' = timers_refused
      /\ timers_live' = timers_live /\ timers_stray' = timers_stray
  BY DEF Timers!Tick
<1>2. TimerTypes'
  BY <1>1 DEF TimerInv, TimerTypes
<1>3. EndsRight'
  BY <1>1 DEF TimerInv, EndsRight
<1>4. timers_round'.time <= timers_now'
  BY <1>1, TimerParts
<1>5. \A i \in DOMAIN timers_begun :
        OnTime(i, timers_begun[i], timers_calls[i], timers_due, timers_round, timers_now + 1)
  <2> SUFFICES ASSUME NEW i \in DOMAIN timers_begun
               PROVE OnTime(i, timers_begun[i], timers_calls[i], timers_due, timers_round,
                            timers_now + 1)
    OBVIOUS
  <2>1. OnTime(i, timers_begun[i], timers_calls[i], timers_due, timers_round, timers_now)
        /\ timers_calls[i] \in Nat /\ timers_now \in Nat
    BY TimerParts
  <2>2. Late(timers_begun[i], timers_calls[i]) \in Nat
    BY <2>1, LateNext DEF OnTime
  <2> QED
    BY <2>1, <2>2 DEF OnTime
<1> QED
  BY <1>1, <1>2, <1>3, <1>4, <1>5 DEF TimerInv

\* begin() makes the next delay task.
LEMMA TimerBegin == TimerInv /\ Timers!Begin => TimerInv'
<1> SUFFICES ASSUME TimerInv, Timers!Begin PROVE TimerInv'
  OBVIOUS
<1>1. PICK n \in Nat : n <= MaxBegin /\ DOMAIN timers_begun = 1 .. n
  BY DEF TimerInv, TimerTypes
<1> DEFINE i == n + 1
           b == [period |-> timers_period, at |-> timers_now]
<1>2. Timers!Cardinality(DOMAIN timers_begun) = n
  <2>1. Timers!Cardinality(DOMAIN timers_begun) = Cardinality(DOMAIN timers_begun)
    BY ONLY DEF Timers!Cardinality, Cardinality
  <2>2. Cardinality(1 .. n) = IF 1 > n THEN 0 ELSE n - 1 + 1
    BY ONLY FS_Interval, 1 \in Int, n \in Int
  <2>3. Cardinality(1 .. n) = n
    BY <2>2
  <2> QED
    BY <1>1, <2>1, <2>3
<1>3. /\ timers_period >= 0 /\ i <= MaxBegin
      /\ timers_begun' = [j \in DOMAIN timers_begun \cup {i} |->
                            IF j = i THEN b ELSE timers_begun[j]]
      /\ timers_due' = [j \in DOMAIN timers_due \cup {i} |->
                          IF j = i THEN timers_now + timers_period ELSE timers_due[j]]
      /\ timers_tag' = i /\ timers_live' = {i} /\ timers_stray' = timers_stray \cup timers_live
      /\ timers_now' = timers_now /\ timers_period' = timers_period
      /\ timers_cancelled' = timers_cancelled /\ timers_round' = timers_round
      /\ timers_calls' = timers_calls /\ timers_refused' = timers_refused
  BY <1>2 DEF Timers!Begin
<1>4. /\ timers_now \in Nat /\ timers_period \in Nat /\ i \in Nat /\ i # 0
      /\ i \notin DOMAIN timers_begun /\ i \notin DOMAIN timers_due
      /\ i \notin timers_round.todo /\ i # timers_round.in
      /\ timers_calls[i] = 0
  <2>1. timers_now \in Nat /\ timers_period \in Nat
    BY <1>3 DEF TimerInv, TimerTypes
  <2>2. i \in Nat /\ i # 0 /\ i \notin DOMAIN timers_begun /\ i \in Timers!Id
    BY <1>1, <1>3, TimerParts
  <2>3. /\ i \notin DOMAIN timers_due /\ i \notin timers_round.todo /\ i # timers_round.in
        /\ timers_calls[i] = 0
    BY <2>2 DEF TimerInv, TimerTypes
  <2> QED
    BY <2>1, <2>2, <2>3
<1>5. b.period = timers_period /\ b.at = timers_now
  OBVIOUS
<1>6. DOMAIN timers_begun' = 1 .. i
  BY <1>1, <1>3
<1> HIDE DEF i, b
<1>7. /\ DOMAIN timers_begun' = DOMAIN timers_begun \cup {i}
      /\ DOMAIN timers_due' = DOMAIN timers_due \cup {i}
      /\ timers_begun'[i] = b /\ timers_due'[i] = timers_now + timers_period
      /\ \A j \in DOMAIN timers_begun : timers_begun'[j] = timers_begun[j]
      /\ \A j \in DOMAIN timers_due : timers_due'[j] = timers_due[j]
  BY ONLY <1>3, <1>4
<1>8. TimerTypes'
  <2>1. \E m \in Nat : m <= MaxBegin /\ DOMAIN timers_begun' = 1 .. m
    BY <1>3, <1>4, <1>6
  <2>2. /\ DOMAIN timers_due \cup timers_round.todo \subseteq DOMAIN timers_begun
        /\ timers_round.in \in DOMAIN timers_begun \cup {0}
        /\ DOMAIN timers_due \cap timers_round.todo = {}
        /\ timers_round.in \notin DOMAIN timers_due \cup timers_round.todo
    BY DEF TimerInv, TimerTypes
  <2>3. /\ DOMAIN timers_due' \cup timers_round.todo \subseteq DOMAIN timers_begun'
        /\ timers_round.in \in DOMAIN timers_begun' \cup {0}
        /\ DOMAIN timers_due' \cap timers_round.todo = {}
        /\ timers_round.in \notin DOMAIN timers_due' \cup timers_round.todo
    BY ONLY <1>4, <1>7, <2>2
  <2>4. \A j \in Timers!Id : j \notin DOMAIN timers_begun' => timers_calls[j] = 0
    BY <1>7 DEF TimerInv, TimerTypes
  <2>5. /\ timers_now \in Nat /\ timers_period \in Int /\ i \in Nat
        /\ timers_calls \in [Timers!Id -> Nat]
        /\ timers_round \in [time : Nat, todo : SUBSET Nat, in : Nat]
    BY <1>4 DEF TimerInv, TimerTypes
  <2> QED
    BY ONLY <1>3, <2>1, <2>3, <2>4, <2>5 DEF TimerTypes
<1>9. EndsRight'
  <2>1. \A j \in DOMAIN timers_due \cup timers_round.todo \cup {timers_round.in} :
          j # 0 => j \in timers_cancelled \cup timers_live \cup timers_stray
    BY DEF TimerInv, EndsRight
  <2> QED
    BY ONLY <1>3, <1>4, <1>7, <2>1 DEF EndsRight
<1>10. ASSUME NEW j \in DOMAIN timers_begun'
       PROVE  /\ OnTime(j, timers_begun'[j], timers_calls[j], timers_due', timers_round, timers_now)
              /\ Continues(j, timers_begun'[j], timers_calls[j], timers_due', timers_round,
                           timers_refused \cup timers_cancelled)
  <2>1. CASE j = i
    <3>1. Late(b, 0 + 1) = timers_now + timers_period
      <4>1. b.at \in Nat /\ b.period \in Nat /\ 0 \in Nat
        BY <1>4, <1>5
      <4>2. Late(b, 0 + 1) = Late(b, 0) + b.period /\ Late(b, 0) = b.at
        BY <4>1, LateNext
      <4> QED
        BY <1>5, <4>2
    <3> QED
      BY <1>4, <1>5, <1>7, <2>1, <3>1 DEF OnTime, Continues
  <2>2. CASE j # i
    <3>1. j \in DOMAIN timers_begun /\ timers_begun'[j] = timers_begun[j]
      BY <1>7, <2>2
    <3>2. /\ OnTime(j, timers_begun[j], timers_calls[j], timers_due, timers_round, timers_now)
          /\ Continues(j, timers_begun[j], timers_calls[j], timers_due, timers_round,
                       timers_refused \cup timers_cancelled)
      BY <3>1 DEF TimerInv
    <3>3. (j \in DOMAIN timers_due' <=> j \in DOMAIN timers_due)
          /\ (j \in DOMAIN timers_due => timers_due'[j] = timers_due[j])
      BY <1>7, <2>2
    <3> QED
      BY ONLY <3>1, <3>2, <3>3 DEF OnTime, Continues
  <2> QED
    BY <2>1, <2>2
<1>11. timers_round'.time <= timers_now'
  BY <1>3, TimerParts
<1> QED
  BY <1>3, <1>8, <1>9, <1>10, <1>11 DEF TimerInv

\* end(), also from init().
LEMMA TimerEnd ==
  ASSUME TimerInv, Timers!EndCall \/ \E p \in Period \cup {-1} : Timers!InitTimer(p)
  PROVE  TimerInv'
<1>1. /\ timers_cancelled' = timers_cancelled \cup (IF timers_tag = 0 THEN {} ELSE {timers_tag})
      /\ timers_live' = {} /\ timers_tag' = timers_tag
      /\ timers_now' = timers_now /\ timers_begun' = timers_begun /\ timers_due' = timers_due
      /\ timers_round' = timers_round /\ timers_calls' = timers_calls
      /\ timers_refused' = timers_refused /\ timers_stray' = timers_stray
  BY DEF Timers!EndCall, Timers!InitTimer, Timers!End
<1>2. timers_period' \in Int
  <2>1. timers_period \in Int
    BY DEF TimerInv, TimerTypes
  <2>2. CASE Timers!EndCall
    BY <2>1, <2>2 DEF Timers!EndCall
  <2>3. ASSUME NEW p \in Period \cup {-1}, Timers!InitTimer(p) PROVE timers_period' \in Int
    <3>1. p \in Int
      BY PollerAssumption
    <3> QED
      BY <2>1, <2>3, <3>1 DEF Timers!InitTimer
  <2> QED
    BY <2>2, <2>3
<1>3. TimerTypes'
  BY <1>1, <1>2 DEF TimerInv, TimerTypes
<1>4. EndsRight'
  <2>1. /\ timers_live \subseteq {timers_tag} /\ (timers_tag = 0 => timers_live = {})
        /\ \A i \in DOMAIN timers_due \cup timers_round.todo \cup {timers_round.in} :
             i # 0 => i \in timers_cancelled \cup timers_live \cup timers_stray
    BY DEF TimerInv, EndsRight
  <2> QED
    BY ONLY <1>1, <2>1 DEF EndsRight
<1>5. \A i \in DOMAIN timers_begun :
        Continues(i, timers_begun[i], timers_calls[i], timers_due, timers_round,
                  timers_refused \cup timers_cancelled')
  BY <1>1 DEF TimerInv, Continues
<1> QED
  BY <1>1, <1>3, <1>4, <1>5 DEF TimerInv

\* A round begins.
LEMMA TimerFlush == TimerInv /\ Timers!Flush => TimerInv'
<1> SUFFICES ASSUME TimerInv, Timers!Flush PROVE TimerInv'
  OBVIOUS
<1>1. PICK over \in SUBSET {i \in DOMAIN timers_due : timers_due[i] <= timers_now} :
        /\ timers_round' = [time |-> timers_now, todo |-> over, in |-> 0]
        /\ timers_due' = [i \in DOMAIN timers_due \ over |-> timers_due[i]]
  BY DEF Timers!Flush
<1>2. /\ timers_round.in = 0 /\ timers_round.todo = {}
      /\ timers_now' = timers_now /\ timers_period' = timers_period /\ timers_tag' = timers_tag
      /\ timers_begun' = timers_begun /\ timers_cancelled' = timers_cancelled
      /\ timers_calls' = timers_calls /\ timers_refused' = timers_refused
      /\ timers_live' = timers_live /\ timers_stray' = timers_stray
  BY DEF Timers!Flush
<1>3. /\ timers_round'.time = timers_now /\ timers_round'.todo = over /\ timers_round'.in = 0
      /\ DOMAIN timers_due' = DOMAIN timers_due \ over
      /\ \A i \in DOMAIN timers_due' : timers_due'[i] = timers_due[i]
      /\ over \subseteq DOMAIN timers_due /\ \A i \in over : timers_due[i] <= timers_now
  BY ONLY <1>1
<1>4. TimerTypes'
  <2>1. /\ timers_now \in Nat /\ timers_period \in Int /\ timers_tag \in Nat
        /\ timers_calls \in [Timers!Id -> Nat]
        /\ \E n \in Nat : n <= MaxBegin /\ DOMAIN timers_begun = 1 .. n
        /\ \A i \in Timers!Id : i \notin DOMAIN timers_begun => timers_calls[i] = 0
    BY DEF TimerInv, TimerTypes
  <2>2. over \subseteq DOMAIN timers_begun /\ over \subseteq Nat /\ 0 \notin DOMAIN timers_begun
        /\ DOMAIN timers_due \subseteq DOMAIN timers_begun
    BY <1>3, TimerParts
  <2>3. timers_round' \in [time : Nat, todo : SUBSET Nat, in : Nat]
    BY ONLY <1>1, <2>1, <2>2
  <2> QED
    BY ONLY <1>2, <1>3, <2>1, <2>2, <2>3 DEF TimerTypes
<1>5. EndsRight'
  <2>1. EndsRight
    BY DEF TimerInv
  <2> QED
    BY ONLY <1>2, <1>3, <2>1 DEF EndsRight
<1>6. ASSUME NEW i \in DOMAIN timers_begun
      PROVE  /\ OnTime(i, timers_begun[i], timers_calls[i], timers_due', timers_round', timers_now)
             /\ Continues(i, timers_begun[i], timers_calls[i], timers_due', timers_round',
                          timers_refused \cup timers_cancelled)
  <2>1. /\ OnTime(i, timers_begun[i], timers_calls[i], timers_due, timers_round, timers_now)
        /\ timers_calls[i] \in Nat /\ timers_now \in Nat /\ i # 0
    BY TimerParts
  <2>2. Continues(i, timers_begun[i], timers_calls[i], timers_due, timers_round,
                  timers_refused \cup timers_cancelled)
    BY DEF TimerInv
  <2>3. Late(timers_begun[i], timers_calls[i] + 1) \in Nat
    BY <2>1, LateNext DEF OnTime
  <2>4. OnTime(i, timers_begun[i], timers_calls[i], timers_due', timers_round', timers_now)
    BY ONLY <1>2, <1>3, <2>1, <2>3 DEF OnTime
  <2>5. Continues(i, timers_begun[i], timers_calls[i], timers_due', timers_round',
                  timers_refused \cup timers_cancelled)
    BY ONLY <1>2, <1>3, <2>1, <2>2 DEF Continues
  <2> QED
    BY <2>4, <2>5
<1>7. timers_round'.time <= timers_now
  BY <1>3, TimerParts
<1> QED
  BY <1>2, <1>4, <1>5, <1>6, <1>7 DEF TimerInv

\* The poller passes over one that was cancelled, or calls it.
LEMMA TimerRound ==
  ASSUME TimerInv, NEW i \in Timers!Id, Timers!Skip(i) \/ Timers!TimeOut(i)
  PROVE  TimerInv'
<1> PICK called \in {0, i} : called = IF Timers!TimeOut(i) THEN i ELSE 0
  OBVIOUS
<1>1. /\ timers_round.in = 0 /\ i \in timers_round.todo
      /\ timers_now' = timers_now /\ timers_period' = timers_period /\ timers_tag' = timers_tag
      /\ timers_begun' = timers_begun /\ timers_due' = timers_due
      /\ timers_cancelled' = timers_cancelled /\ timers_refused' = timers_refused
      /\ timers_live' = timers_live /\ timers_stray' = timers_stray
  BY DEF Timers!Skip, Timers!TimeOut
<1>2. /\ timers_round \in [time : Nat, todo : SUBSET Nat, in : Nat] /\ i \in Nat /\ i # 0
      /\ timers_calls \in [Timers!Id -> Nat] /\ i \in DOMAIN timers_begun
      /\ i \notin DOMAIN timers_due
  <2>1. timers_round \in [time : Nat, todo : SUBSET Nat, in : Nat] /\ i \notin DOMAIN timers_due
    BY <1>1 DEF TimerInv, TimerTypes
  <2>2. i \in DOMAIN timers_begun
    BY <1>1, TimerParts
  <2> QED
    BY <2>1, <2>2, TimerParts
<1>3. /\ timers_round'.time = timers_round.time
      /\ timers_round'.todo = timers_round.todo \ {i} /\ timers_round'.in = called
      /\ timers_round' \in [time : Nat, todo : SUBSET Nat, in : Nat]
      /\ called = 0 => i \in timers_cancelled /\ timers_calls' = timers_calls
      /\ called # 0 => timers_calls' = [timers_calls EXCEPT ![i] = @ + 1]
  <2>1. CASE Timers!TimeOut(i)
    <3>1. /\ timers_round' = [timers_round EXCEPT !.todo = @ \ {i}, !.in = i]
          /\ timers_calls' = [timers_calls EXCEPT ![i] = @ + 1]
      BY <2>1 DEF Timers!TimeOut
    <3>2. called = i
      BY <2>1
    <3> QED
      BY ONLY <1>2, <3>1, <3>2
  <2>2. CASE Timers!Skip(i) /\ ~Timers!TimeOut(i)
    <3>1. /\ timers_round' = [timers_round EXCEPT !.todo = @ \ {i}]
          /\ i \in timers_cancelled /\ timers_calls' = timers_calls
      BY <2>2 DEF Timers!Skip
    <3>2. called = 0
      BY <2>2
    <3> QED
      BY ONLY <1>1, <1>2, <3>1, <3>2
  <2> QED
    BY <2>1, <2>2
<1>4. /\ timers_calls' \in [Timers!Id -> Nat]
      /\ \A j \in Timers!Id \ {i} : timers_calls'[j] = timers_calls[j]
      /\ timers_calls'[i] = IF called = 0 THEN timers_calls[i] ELSE timers_calls[i] + 1
  BY ONLY <1>2, <1>3, i \in Timers!Id
<1>5. TimerTypes'
  <2>1. /\ timers_now \in Nat /\ timers_period \in Int /\ timers_tag \in Nat
        /\ \E n \in Nat : n <= MaxBegin /\ DOMAIN timers_begun = 1 .. n
        /\ DOMAIN timers_due \cup timers_round.todo \subseteq DOMAIN timers_begun
        /\ DOMAIN timers_due \cap timers_round.todo = {}
        /\ 0 \notin DOMAIN timers_due \cup timers_round.todo
        /\ \A j \in Timers!Id : j \notin DOMAIN timers_begun => timers_calls[j] = 0
    BY <1>1 DEF TimerInv, TimerTypes
  <2>2. \A j \in Timers!Id : j \notin DOMAIN timers_begun => timers_calls'[j] = 0
    BY ONLY <1>2, <1>4, <2>1
  <2> QED
    BY ONLY <1>1, <1>2, <1>3, <1>4, <2>1, <2>2, called \in {0, i} DEF TimerTypes
<1>6. EndsRight'
  <2>1. EndsRight
    BY DEF TimerInv
  <2> QED
    BY ONLY <1>1, <1>3, <2>1, called \in {0, i} DEF EndsRight
<1>7. ASSUME NEW j \in DOMAIN timers_begun
      PROVE  /\ OnTime(j, timers_begun[j], timers_calls'[j], timers_due, timers_round', timers_now)
             /\ Continues(j, timers_begun[j], timers_calls'[j], timers_due, timers_round',
                          timers_refused \cup timers_cancelled)
  <2>1. /\ OnTime(j, timers_begun[j], timers_calls[j], timers_due, timers_round, timers_now)
        /\ timers_calls[j] \in Nat /\ timers_now \in Nat /\ j # 0 /\ j \in Timers!Id
        /\ timers_round.time \in Nat /\ timers_round.time <= timers_now
    BY TimerParts
  <2>2. Continues(j, timers_begun[j], timers_calls[j], timers_due, timers_round,
                  timers_refused \cup timers_cancelled)
    BY DEF TimerInv
  <2>3. CASE j # i
    <3>1. timers_calls'[j] = timers_calls[j] /\ j # called
      BY <1>4, <2>1, <2>3
    <3> QED
      BY ONLY <1>1, <1>3, <2>1, <2>2, <2>3, <3>1 DEF OnTime, Continues
  <2>4. CASE j = i /\ called = 0
    <3>1. timers_calls'[j] = timers_calls[j]
      BY <1>4, <2>4
    <3> QED
      BY ONLY <1>1, <1>2, <1>3, <2>1, <2>4, <3>1 DEF OnTime, Continues
  <2>5. CASE j = i /\ called = i
    <3>1. timers_calls'[j] = timers_calls[j] + 1
      BY <1>2, <1>4, <2>5
    <3>2. Late(timers_begun[j], timers_calls[j] + 1) \in Nat
      BY <2>1, LateNext DEF OnTime
    <3>3. Late(timers_begun[j], timers_calls[j] + 1) <= timers_round.time
      BY <1>1, <2>1, <2>5 DEF OnTime
    <3>4. timers_begun[j].period = 0 => timers_calls[j] = 0
      BY <1>1, <2>1, <2>5 DEF OnTime
    <3>5. timers_begun[j].period \in Nat /\ timers_begun[j].at \in Nat
      BY <2>1 DEF OnTime
    <3>6. Late(timers_begun[j], timers_calls[j] + 1) <= timers_now
      BY ONLY <2>1, <3>2, <3>3
    <3> QED
      BY ONLY <1>2, <1>3, <2>1, <2>5, <3>1, <3>3, <3>4, <3>5, <3>6 DEF OnTime, Continues
  <2> QED
    BY <2>3, <2>4, <2>5
<1>8. timers_round'.time <= timers_now'
  BY <1>1, <1>3, TimerParts
<1> QED
  BY <1>1, <1>5, <1>6, <1>7, <1>8 DEF TimerInv

\* The callback returns: the delay task is due again, or over.
LEMMA TimerReturn ==
  ASSUME TimerInv, NEW i \in Timers!Id, Timers!Again(i) \/ Timers!NoMore(i)
  PROVE  TimerInv'
<1> DEFINE again == Timers!Again(i) /\ timers_begun[i].period # 0
<1>1. /\ timers_round.in = i /\ i # 0
      /\ timers_round' = [timers_round EXCEPT !.in = 0]
      /\ timers_now' = timers_now /\ timers_period' = timers_period /\ timers_tag' = timers_tag
      /\ timers_begun' = timers_begun /\ timers_calls' = timers_calls
      /\ timers_cancelled' = timers_cancelled
      /\ timers_live' = timers_live /\ timers_stray' = timers_stray
  BY DEF Timers!Again, Timers!NoMore
<1>2. /\ timers_round \in [time : Nat, todo : SUBSET Nat, in : Nat] /\ i \in DOMAIN timers_begun
      /\ i \notin DOMAIN timers_due \cup timers_round.todo
  BY <1>1 DEF TimerInv, TimerTypes
<1>3. /\ timers_round'.time = timers_round.time /\ timers_round'.todo = timers_round.todo
      /\ timers_round'.in = 0
      /\ timers_round' \in [time : Nat, todo : SUBSET Nat, in : Nat]
  BY ONLY <1>1, <1>2
<1>4. /\ timers_due' = IF again
                       THEN [j \in DOMAIN timers_due \cup {i} |->
                               IF j = i THEN timers_round.time + timers_begun[i].period
                               ELSE timers_due[j]]
                       ELSE timers_due
      /\ timers_refused \subseteq timers_refused'
      /\ ~again => i \in timers_refused' \/ timers_begun[i].period = 0
  <2>1. CASE Timers!Again(i)
    BY <2>1 DEF Timers!Again
  <2>2. CASE Timers!NoMore(i) /\ ~Timers!Again(i)
    BY <2>2 DEF Timers!NoMore
  <2> QED
    BY <2>1, <2>2
<1> HIDE DEF again
<1>5. /\ DOMAIN timers_due' = IF again THEN DOMAIN timers_due \cup {i} ELSE DOMAIN timers_due
      /\ \A j \in DOMAIN timers_due : timers_due'[j] = timers_due[j]
      /\ again => timers_due'[i] = timers_round.time + timers_begun[i].period
  <2>1. CASE again
    BY ONLY <1>2, <1>4, <2>1
  <2>2. CASE ~again
    BY ONLY <1>4, <2>2
  <2> QED
    BY <2>1, <2>2
<1>6. TimerTypes'
  <2>1. /\ timers_now \in Nat /\ timers_period \in Int /\ timers_tag \in Nat
        /\ timers_calls \in [Timers!Id -> Nat]
        /\ \E n \in Nat : n <= MaxBegin /\ DOMAIN timers_begun = 1 .. n
        /\ DOMAIN timers_due \cup timers_round.todo \subseteq DOMAIN timers_begun
        /\ DOMAIN timers_due \cap timers_round.todo = {}
        /\ \A j \in Timers!Id : j \notin DOMAIN timers_begun => timers_calls[j] = 0
    BY DEF TimerInv, TimerTypes
  <2>2. 0 \notin DOMAIN timers_begun
    BY TimerParts
  <2> QED
    BY ONLY <1>1, <1>2, <1>3, <1>5, <2>1, <2>2 DEF TimerTypes
<1>7. EndsRight'
  <2>1. EndsRight
    BY DEF TimerInv
  <2> QED
    BY ONLY <1>1, <1>3, <1>5, <2>1 DEF EndsRight
<1>8. ASSUME NEW j \in DOMAIN timers_begun
      PROVE  /\ OnTime(j, timers_begun[j], timers_calls[j], timers_due', timers_round', timers_now)
             /\ Continues(j, timers_begun[j], timers_calls[j], timers_due', timers_round',
                          timers_refused' \cup timers_cancelled)
  <2>1. /\ OnTime(j, timers_begun[j], timers_calls[j], timers_due, timers_round, timers_now)
        /\ timers_calls[j] \in Nat /\ timers_now \in Nat /\ j # 0
        /\ timers_round.time \in Nat
    BY TimerParts
  <2>2. Continues(j, timers_begun[j], timers_calls[j], timers_due, timers_round,
                  timers_refused \cup timers_cancelled)
    BY DEF TimerInv
  <2>3. CASE j # i
    BY ONLY <1>1, <1>3, <1>4, <1>5, <2>1, <2>2, <2>3 DEF OnTime, Continues
  <2>4. CASE j = i /\ again
    <3>1. /\ timers_begun[j].period \in Nat /\ timers_begun[j].at \in Nat
          /\ timers_calls[j] > 0 /\ Late(timers_begun[j], timers_calls[j]) <= timers_round.time
          /\ Late(timers_begun[j], timers_calls[j]) <= timers_now
      BY <1>1, <2>1, <2>4 DEF OnTime
    <3>2. /\ Late(timers_begun[j], timers_calls[j]) \in Nat
          /\ Late(timers_begun[j], timers_calls[j] + 1)
               = Late(timers_begun[j], timers_calls[j]) + timers_begun[j].period
      BY <2>1, <3>1, LateNext
    <3>3. timers_begun[j].period # 0
      BY <2>4 DEF again
    <3>4. timers_due'[j] \in Nat /\ Late(timers_begun[j], timers_calls[j] + 1) <= timers_due'[j]
      BY ONLY <1>5, <2>1, <2>4, <3>1, <3>2
    <3> QED
      BY ONLY <1>2, <1>3, <1>5, <2>1, <2>4, <3>1, <3>3, <3>4 DEF OnTime, Continues
  <2>5. CASE j = i /\ ~again
    <3>1. timers_begun[j].period = 0 => timers_calls[j] = 1
      BY <1>1, <2>1, <2>5 DEF OnTime
    <3> QED
      BY ONLY <1>2, <1>3, <1>4, <1>5, <2>1, <2>5, <3>1 DEF OnTime, Continues
  <2> QED
    BY <2>3, <2>4, <2>5
<1>9. timers_round'.time <= timers_now'
  BY <1>1, <1>3, TimerParts
<1> QED
  BY <1>1, <1>6, <1>7, <1>8, <1>9 DEF TimerInv

\* At first nothing was begun.
LEMMA TimerStart == Timers!Init => TimerInv
<1> SUFFICES ASSUME Timers!Init PROVE TimerInv
  OBVIOUS
<1>1. /\ timers_now = 0 /\ timers_period = -1 /\ timers_tag = 0
      /\ timers_begun = [i \in {} |-> 0] /\ timers_due = [i \in {} |-> 0]
      /\ timers_cancelled = {} /\ timers_round = [time |-> 0, todo |-> {}, in |-> 0]
      /\ timers_calls = [i \in Timers!Id |-> 0] /\ timers_refused = {} /\ timers_live = {}
      /\ timers_stray = {}
  BY DEF Timers!Init, Timers!NoRound
<1>2. /\ DOMAIN timers_begun = {} /\ DOMAIN timers_due = {} /\ timers_round.todo = {}
      /\ timers_round.in = 0 /\ timers_round.time = 0
      /\ timers_round \in [time : Nat, todo : SUBSET Nat, in : Nat]
      /\ timers_calls \in [Timers!Id -> Nat] /\ \A i \in Timers!Id : timers_calls[i] = 0
  BY ONLY <1>1
<1>3. 0 \in Nat /\ 0 <= MaxBegin /\ 1 .. 0 = {}
  BY PollerAssumption
<1>4. TimerTypes
  BY ONLY <1>1, <1>2, <1>3 DEF TimerTypes
<1>5. EndsRight
  BY ONLY <1>1, <1>2 DEF EndsRight
<1> QED
  BY <1>1, <1>2, <1>4, <1>5 DEF TimerInv

\* A step keeps all of it.
LEMMA TimerStep == TimerInv /\ [Timers!Next]_Timers!vars => TimerInv'
<1> SUFFICES ASSUME TimerInv, [Timers!Next]_Timers!vars PROVE TimerInv'
  OBVIOUS
<1>1. CASE Timers!Tick
  BY <1>1, TimerTick
<1>2. CASE Timers!Begin
  BY <1>2, TimerBegin
<1>3. CASE Timers!EndCall \/ \E p \in Period \cup {-1} : Timers!InitTimer(p)
  BY <1>3, TimerEnd
<1>4. CASE Timers!Flush
  BY <1>4, TimerFlush
<1>5. CASE \E i \in Timers!Id : Timers!Skip(i) \/ Timers!TimeOut(i)
  BY <1>5, TimerRound
<1>6. CASE \E i \in Timers!Id : Timers!Again(i) \/ Timers!NoMore(i)
  BY <1>6, TimerReturn
<1>7. CASE UNCHANGED Timers!vars
  <2>1. /\ timers_now' = timers_now /\ timers_period' = timers_period /\ timers_tag' = timers_tag
        /\ timers_begun' = timers_begun /\ timers_due' = timers_due
        /\ timers_cancelled' = timers_cancelled /\ timers_round' = timers_round
        /\ timers_calls' = timers_calls /\ timers_refused' = timers_refused
        /\ timers_live' = timers_live /\ timers_stray' = timers_stray
    BY <1>7 DEF Timers!vars
  <2>2. TimerTypes' /\ EndsRight'
    BY <2>1 DEF TimerInv, TimerTypes, EndsRight
  <2> QED
    BY <2>1, <2>2 DEF TimerInv
<1> QED
  BY <1>1, <1>2, <1>3, <1>4, <1>5, <1>6, <1>7 DEF Timers!Next

\* end() stops the timer, a call comes not too soon, and it goes on until it is stopped.
LEMMA TimerPromise == TimerInv => Timers!TimerRight
<1> SUFFICES ASSUME TimerInv PROVE Timers!TimerRight
  OBVIOUS
<1>1. Timers!EndStops
  <2>1. 0 \notin DOMAIN timers_due \cup timers_round.todo
    BY TimerParts
  <2> QED
    BY <2>1 DEF TimerInv, EndsRight, Timers!EndStops, Timers!Pending
<1>2. Timers!NeverFast
  <2> SUFFICES ASSUME NEW i \in DOMAIN timers_begun, timers_calls[i] > 0
               PROVE  timers_begun[i].at + timers_calls[i] * timers_begun[i].period <= timers_now
    BY DEF Timers!NeverFast
  <2>1. Late(timers_begun[i], timers_calls[i]) <= timers_now
    BY DEF TimerInv, OnTime
  <2> QED
    BY ONLY <2>1 DEF Late
<1>3. Timers!GoesOn
  BY DEF TimerInv, Continues, Timers!GoesOn, Timers!Pending
<1> QED
  BY <1>1, <1>2, <1>3 DEF Timers!TimerRight

-----------------------------------------------------------------------------
(* What a poller keeps: the time it goes by.                               *)

StampTypes ==
  /\ stamps_real \in Nat /\ stamps_offset \in Int /\ stamps_sets \in Nat
  /\ stamps_at \in {"read", "system", "system2", "judge", "milli"}
  /\ stamps_now \in Int /\ stamps_last \in Int /\ stamps_microsecond \in Nat
  /\ stamps_missed \in Int
  /\ stamps_stamps \in [micro : Nat, milli : Nat, microSystem : Int, milliSystem : Int]
  /\ stamps_seen \in [Reader -> [micro : Nat, milli : Nat]]

\* The loop before was at rl, when the clock had been set sl times, this one is at rn and sn; what
\* was counted until then is time that passed, or less than a second for each time it was set.
Looped(rl, sl, rn, sn) ==
  /\ rl <= rn /\ rn <= stamps_real /\ sl <= sn /\ sn <= stamps_sets
  /\ stamps_microsecond <= rl + sl * (Limit - 1)
  /\ sn = stamps_sets => stamps_now = Stamps!Start + rn + stamps_offset
  /\ sl = sn => stamps_now - stamps_last = rn - rl
  /\ stamps_at \in {"read", "milli"} => rl = rn /\ sl = sn

ClockInv ==
  /\ StampTypes
  /\ \E rl, sl, rn, sn \in Nat : Looped(rl, sl, rn, sn)
  /\ stamps_microsecond + stamps_missed = stamps_last - Stamps!Start
  /\ stamps_stamps.micro = stamps_microsecond
  /\ stamps_stamps.milli <= stamps_microsecond \div Milli
  /\ stamps_at # "milli" => stamps_stamps.milli = stamps_microsecond \div Milli
  /\ stamps_sets = 0 => stamps_missed = 0 \/ stamps_missed >= Limit
  /\ \A r \in Reader : /\ stamps_seen[r].micro <= stamps_stamps.micro
                       /\ stamps_seen[r].milli <= stamps_stamps.milli

\* Whole multiples: a quotient is the largest number of them.
LEMMA Quotient ==
  ASSUME NEW m \in Nat, NEW k \in Nat \ {0}
  PROVE  m \div k \in Nat /\ (m \div k) * k <= m /\ m < (m \div k) * k + k
OBVIOUS

\* A quotient does not shrink when the number grows.
LEMMA QuotientGrows ==
  ASSUME NEW m \in Nat, NEW n \in Nat, m <= n, NEW k \in Nat \ {0}
  PROVE  m \div k <= n \div k
<1> DEFINE p == m \div k
           q == n \div k
<1>1. p \in Nat /\ q \in Nat /\ p * k <= m /\ n < q * k + k
  BY Quotient
<1> HIDE DEF p, q
<1>2. ASSUME q < p PROVE FALSE
  <2>1. PICK d \in Nat : p = q + 1 + d
    <3>1. p - q - 1 \in Nat /\ p = q + 1 + (p - q - 1)
      BY <1>1, <1>2
    <3> QED
      BY <3>1
  <2>2. p * k = q * k + k + d * k /\ d * k \in Nat
    BY <1>1, <2>1
  <2> QED
    BY <1>1, <2>2
<1> QED
  BY <1>1, <1>2 DEF p, q

\* One more factor, one more term.
LEMMA Factor ==
  ASSUME NEW s \in Nat, NEW t \in Nat, NEW l \in Nat
  PROVE  /\ s * l \in Nat
         /\ s <= t => s * l <= t * l
         /\ s < t => s * l + l <= t * l
<1>1. s * l \in Nat
  OBVIOUS
<1>2. ASSUME s <= t PROVE s * l <= t * l
  <2>1. t - s \in Nat /\ t * l = s * l + (t - s) * l /\ (t - s) * l \in Nat
    BY <1>2
  <2> QED
    BY <1>1, <2>1
<1>3. ASSUME s < t PROVE s * l + l <= t * l
  <2>1. t - s - 1 \in Nat /\ t * l = s * l + l + (t - s - 1) * l /\ (t - s - 1) * l \in Nat
    BY <1>3
  <2> QED
    BY <1>1, <2>1
<1> QED
  BY <1>1, <1>2, <1>3

\* The clock of the system starts at some time.
LEMMA StartIs == Stamps!Start \in Nat
BY PollerAssumption DEF Stamps!Start

\* At the start the last loop and this one are both where the clock started.
LEMMA ClockStart == Stamps!Init => ClockInv
<1> SUFFICES ASSUME Stamps!Init PROVE ClockInv
  OBVIOUS
<1> USE DEF Stamps!Init
<1>1. StampTypes
  BY StartIs, Quotient, PollerAssumption DEF StampTypes
<1>2. Looped(0, 0, 0, 0)
  BY StartIs, PollerAssumption DEF Looped
<1>3. 0 \div Milli = 0
  BY PollerAssumption
<1>4. \E rl, sl, rn, sn \in Nat : Looped(rl, sl, rn, sn)
  BY <1>2
<1> QED
  BY <1>1, <1>3, <1>4, StartIs DEF ClockInv

\* The thread reads the clock of the system: this loop is where the time and the clock are now.
LEMMA ClockRead == ClockInv /\ Stamps!Read => ClockInv'
<1> SUFFICES ASSUME ClockInv, Stamps!Read PROVE ClockInv'
  OBVIOUS
<1> USE DEF Stamps!Read
<1>1. PICK rl, sl, rn, sn \in Nat : Looped(rl, sl, rn, sn)
  BY DEF ClockInv
<1>2. StampTypes /\ StampTypes'
  BY StartIs DEF ClockInv, StampTypes, Stamps!System
<1>3. Looped(rl, sl, stamps_real, stamps_sets)'
  BY <1>1, <1>2, StartIs DEF Looped, StampTypes, Stamps!System
<1>4. \E a, b, c, d \in Nat : Looped(a, b, c, d)'
  BY <1>2, <1>3 DEF StampTypes
<1> QED
  BY <1>2, <1>4 DEF ClockInv

\* The stamps of the system's clock are of no interest to the others.
LEMMA ClockStore ==
  ClockInv /\ (Stamps!StoreMicroSystem \/ Stamps!StoreMilliSystem) => ClockInv'
<1> SUFFICES ASSUME ClockInv, Stamps!StoreMicroSystem \/ Stamps!StoreMilliSystem
             PROVE  ClockInv'
  OBVIOUS
<1> USE DEF Stamps!StoreMicroSystem, Stamps!StoreMilliSystem
<1>1. PICK rl, sl, rn, sn \in Nat : Looped(rl, sl, rn, sn)
  BY DEF ClockInv
<1>2. StampTypes
  BY DEF ClockInv
<1>3. stamps_now \div Milli \in Int
  BY <1>2, PollerAssumption DEF StampTypes
<1>4. StampTypes' /\ stamps_stamps'.micro = stamps_stamps.micro
                  /\ stamps_stamps'.milli = stamps_stamps.milli
  BY <1>2, <1>3 DEF StampTypes
<1>5. Looped(rl, sl, rn, sn)'
  BY <1>1 DEF Looped
<1>6. \E a, b, c, d \in Nat : Looped(a, b, c, d)'
  BY <1>5
<1> QED
  BY <1>2, <1>4, <1>6 DEF ClockInv

\* A loop that is sound adds time that passed, or less than a second where the clock was set.
LEMMA ClockJudge == ClockInv /\ Stamps!Judge => ClockInv'
<1> SUFFICES ASSUME ClockInv, Stamps!Judge PROVE ClockInv'
  OBVIOUS
<1>1. PICK rl, sl, rn, sn \in Nat : Looped(rl, sl, rn, sn)
  BY DEF ClockInv
<1>2. StampTypes
  BY DEF ClockInv
<1>3. PICK e \in Int : e = stamps_now - stamps_last
  BY <1>2 DEF StampTypes
<1>4. /\ stamps_at = "judge" /\ stamps_last' = stamps_now
      /\ UNCHANGED <<stamps_real, stamps_offset, stamps_sets, stamps_now, stamps_seen>>
  BY DEF Stamps!Judge
<1>5. stamps_last' = stamps_last + e
  BY <1>2, <1>3, <1>4 DEF StampTypes
<1>6. rl <= rn /\ sl * (Limit - 1) \in Nat /\ sn * (Limit - 1) \in Nat
                /\ sl * (Limit - 1) <= sn * (Limit - 1)
                /\ (sl < sn => sl * (Limit - 1) + (Limit - 1) <= sn * (Limit - 1))
  <2>1. Limit - 1 \in Nat
    BY PollerAssumption
  <2> QED
    BY <1>1, <2>1, Factor DEF Looped
<1>7. CASE Stamps!Sound(e)
  <2>1. e \in Nat /\ e <= Limit - 1
    BY <1>3, <1>7, PollerAssumption DEF Stamps!Sound
  <2>2. /\ stamps_microsecond' = stamps_microsecond + e
        /\ stamps_stamps' = [stamps_stamps EXCEPT !.micro = stamps_microsecond + e]
        /\ stamps_at' = "milli" /\ UNCHANGED stamps_missed
    BY <1>3, <1>7 DEF Stamps!Judge
  <2>3. StampTypes'
    BY <1>2, <1>4, <2>1, <2>2 DEF StampTypes
  <2>4. stamps_microsecond + e <= rn + sn * (Limit - 1)
    <3>1. CASE sl = sn
      BY <1>1, <1>2, <1>3, <1>6, <2>1, <3>1 DEF Looped, StampTypes
    <3>2. CASE sl < sn
      BY <1>1, <1>2, <1>6, <2>1, <3>2, PollerAssumption DEF Looped, StampTypes
    <3> QED
      BY <1>1, <3>1, <3>2 DEF Looped
  <2>5. Looped(rn, sn, rn, sn)'
    BY <1>1, <1>2, <1>4, <2>2, <2>4 DEF Looped, StampTypes
  <2>6. \E a, b, c, d \in Nat : Looped(a, b, c, d)'
    BY <2>5
  <2>7. /\ stamps_microsecond' + stamps_missed' = stamps_last' - Stamps!Start
        /\ stamps_sets' = 0 => stamps_missed' = 0 \/ stamps_missed' >= Limit
    BY <1>2, <1>4, <1>5, <2>1, <2>2, StartIs DEF ClockInv, StampTypes
  <2>8. stamps_stamps'.micro = stamps_microsecond + e
                /\ stamps_stamps'.milli = stamps_stamps.milli
    BY <1>2, <2>2 DEF StampTypes
  <2>9. stamps_stamps.milli <= (stamps_microsecond + e) \div Milli
    <3>1. stamps_microsecond \div Milli <= (stamps_microsecond + e) \div Milli
      <4>1. stamps_microsecond \in Nat /\ stamps_microsecond + e \in Nat
              /\ stamps_microsecond <= stamps_microsecond + e
        BY <1>2, <2>1 DEF StampTypes
      <4>2. Milli \in Nat \ {0}
        BY PollerAssumption
      <4> QED
        BY ONLY <4>1, <4>2, QuotientGrows
    <3>2. /\ stamps_microsecond \div Milli \in Nat
          /\ (stamps_microsecond + e) \div Milli \in Nat
      BY <1>2, <2>1, Quotient, PollerAssumption DEF StampTypes
    <3>3. stamps_stamps.milli <= stamps_microsecond \div Milli /\ stamps_stamps.milli \in Nat
      BY <1>2 DEF ClockInv, StampTypes
    <3> QED
      BY ONLY <3>1, <3>2, <3>3
  <2>10. \A r \in Reader : /\ stamps_seen'[r].micro <= stamps_stamps'.micro
                           /\ stamps_seen'[r].milli <= stamps_stamps'.milli
    BY <1>2, <1>4, <2>1, <2>8 DEF ClockInv, StampTypes
  <2> QED
    BY <2>2, <2>3, <2>6, <2>7, <2>8, <2>9, <2>10 DEF ClockInv
<1>8. CASE ~Stamps!Sound(e)
  <2>1. /\ stamps_missed' = stamps_missed + e /\ stamps_at' = "read"
        /\ UNCHANGED <<stamps_microsecond, stamps_stamps>>
    BY <1>3, <1>8 DEF Stamps!Judge
  <2>2. StampTypes'
    BY <1>2, <1>4, <2>1 DEF StampTypes
  <2>3. Looped(rn, sn, rn, sn)'
    BY <1>1, <1>2, <1>4, <1>6, <2>1 DEF Looped, StampTypes
  <2>4. \E a, b, c, d \in Nat : Looped(a, b, c, d)'
    BY <2>3
  <2>5. stamps_microsecond' + stamps_missed' = stamps_last' - Stamps!Start
    BY <1>2, <1>5, <2>1, StartIs DEF ClockInv, StampTypes
  <2>6. ASSUME stamps_sets' = 0 PROVE stamps_missed' = 0 \/ stamps_missed' >= Limit
    <3>1. sl = sn /\ e = rn - rl
      BY <1>1, <1>3, <1>4, <2>6 DEF Looped
    <3>2. e = 0 \/ e >= Limit
      BY <1>6, <1>8, <3>1, PollerAssumption DEF Stamps!Sound
    <3>3. stamps_missed = 0 \/ stamps_missed >= Limit
      BY <1>4, <2>6 DEF ClockInv
    <3> QED
      BY <1>2, <2>1, <3>2, <3>3, PollerAssumption DEF StampTypes
  <2>7. stamps_at # "milli"
    BY <1>4
  <2> QED
    BY <1>4, <2>1, <2>2, <2>4, <2>5, <2>6, <2>7 DEF ClockInv
<1> QED
  BY <1>7, <1>8

\* The milliseconds are stored last, and are again those of the microseconds.
LEMMA ClockMilli == ClockInv /\ Stamps!StoreMilli => ClockInv'
<1> SUFFICES ASSUME ClockInv, Stamps!StoreMilli PROVE ClockInv'
  OBVIOUS
<1> USE DEF Stamps!StoreMilli
<1>1. PICK rl, sl, rn, sn \in Nat : Looped(rl, sl, rn, sn)
  BY DEF ClockInv
<1>2. StampTypes
  BY DEF ClockInv
<1>3. PICK q \in Nat : q = stamps_microsecond \div Milli
  BY <1>2, Quotient, PollerAssumption DEF StampTypes
<1>4. /\ stamps_stamps'.micro = stamps_stamps.micro /\ stamps_stamps'.milli = q
      /\ stamps_stamps.milli <= q
  BY <1>2, <1>3 DEF ClockInv, StampTypes
<1>5. StampTypes'
  BY <1>2, <1>3 DEF StampTypes
<1>6. Looped(rl, sl, rn, sn)'
  BY <1>1 DEF Looped
<1>7. \E a, b, c, d \in Nat : Looped(a, b, c, d)'
  BY <1>6
<1>8. \A r \in Reader : /\ stamps_seen'[r].micro <= stamps_stamps'.micro
                        /\ stamps_seen'[r].milli <= stamps_stamps'.milli
  BY <1>2, <1>4 DEF ClockInv, StampTypes
<1>9. q <= q /\ UNCHANGED <<stamps_microsecond, stamps_missed, stamps_last, stamps_sets>>
  OBVIOUS
<1> QED
  BY <1>3, <1>4, <1>5, <1>7, <1>8, <1>9 DEF ClockInv

\* A reader sees what is stored.
LEMMA ClockSeen ==
  ASSUME ClockInv, NEW r \in Reader,
         Stamps!GetCurrentMicrosecond(r) \/ Stamps!GetCurrentMillisecond(r)
  PROVE  ClockInv'
<1> USE DEF Stamps!GetCurrentMicrosecond, Stamps!GetCurrentMillisecond
<1>1. PICK rl, sl, rn, sn \in Nat : Looped(rl, sl, rn, sn)
  BY DEF ClockInv
<1>2. StampTypes
  BY DEF ClockInv
<1>3. StampTypes'
  BY <1>2 DEF StampTypes
<1>4. Looped(rl, sl, rn, sn)'
  BY <1>1 DEF Looped
<1>5. \E a, b, c, d \in Nat : Looped(a, b, c, d)'
  BY <1>4
<1>6. ASSUME NEW s \in Reader
      PROVE  /\ stamps_seen'[s].micro <= stamps_stamps'.micro
             /\ stamps_seen'[s].milli <= stamps_stamps'.milli
  BY <1>2, <1>6 DEF ClockInv, StampTypes
<1> QED
  BY <1>3, <1>5, <1>6 DEF ClockInv

\* Time passes, and the clock of the system is set: neither is in a loop yet.
LEMMA ClockPasses ==
  ASSUME ClockInv,
         Stamps!Tick \/ \E by \in (-MaxStep .. MaxStep) \ {0} : Stamps!SetClock(by)
  PROVE  ClockInv'
<1> USE DEF Stamps!Tick, Stamps!SetClock
<1>1. PICK rl, sl, rn, sn \in Nat : Looped(rl, sl, rn, sn)
  BY DEF ClockInv
<1>2. StampTypes
  BY DEF ClockInv
<1>3. StampTypes'
  BY <1>2, PollerAssumption DEF StampTypes
<1>4. Looped(rl, sl, rn, sn)'
  BY <1>1, <1>2 DEF Looped, StampTypes
<1>5. \E a, b, c, d \in Nat : Looped(a, b, c, d)'
  BY <1>4
<1>6. stamps_sets' = 0 => stamps_sets = 0
  BY <1>2 DEF StampTypes
<1> QED
  BY <1>3, <1>5, <1>6 DEF ClockInv

\* Every step of the clock keeps the invariant.
LEMMA ClockStep == ClockInv /\ [Stamps!Next]_Stamps!vars => ClockInv'
<1> SUFFICES ASSUME ClockInv, [Stamps!Next]_Stamps!vars PROVE ClockInv'
  OBVIOUS
<1>1. CASE UNCHANGED Stamps!vars
  <2>1. UNCHANGED <<stamps_real, stamps_offset, stamps_sets, stamps_at, stamps_now, stamps_last,
                    stamps_microsecond, stamps_stamps, stamps_seen, stamps_missed>>
    BY <1>1 DEF Stamps!vars
  <2>2. PICK rl, sl, rn, sn \in Nat : Looped(rl, sl, rn, sn)
    BY DEF ClockInv
  <2>3. Looped(rl, sl, rn, sn)'
    BY <2>1, <2>2 DEF Looped
  <2>4. \E a, b, c, d \in Nat : Looped(a, b, c, d)'
    BY <2>3
  <2>5. StampTypes'
    BY <2>1 DEF ClockInv, StampTypes
  <2> QED
    BY <2>1, <2>4, <2>5 DEF ClockInv
<1>2. CASE Stamps!Next
  BY <1>2, ClockRead, ClockStore, ClockJudge, ClockMilli, ClockSeen, ClockPasses
     DEF Stamps!Next
<1> QED
  BY <1>1, <1>2

\* Every reader's time goes on, and is the time that passed as far as the clock was left alone.
LEMMA ClockPromise ==
  /\ ClockInv => Stamps!ClockRight
  /\ ClockInv /\ [Stamps!Next]_Stamps!vars => [Stamps!NeverBack]_stampsVars
<1>1. ASSUME ClockInv PROVE Stamps!ClockRight
  <2>1. PICK rl, sl, rn, sn \in Nat : Looped(rl, sl, rn, sn)
    BY <1>1 DEF ClockInv
  <2>2. StampTypes
    BY <1>1 DEF ClockInv
  <2>3. sl * (Limit - 1) \in Nat /\ stamps_sets * (Limit - 1) \in Nat
           /\ sl * (Limit - 1) <= stamps_sets * (Limit - 1)
    <3>1. Limit - 1 \in Nat /\ stamps_sets \in Nat /\ sl <= stamps_sets
      BY <2>1, <2>2, PollerAssumption DEF Looped, StampTypes
    <3> QED
      BY <3>1, Factor
  <2>4. Stamps!Bounded
    BY <1>1, <2>1, <2>2, <2>3 DEF ClockInv, Looped, StampTypes, Stamps!Bounded
  <2>5. stamps_sets = 0 => stamps_stamps.micro <= stamps_real
    <3> SUFFICES ASSUME stamps_sets = 0 PROVE stamps_stamps.micro <= stamps_real
      OBVIOUS
    <3>1. stamps_sets * (Limit - 1) = 0
      BY PollerAssumption
    <3> QED
      BY <2>2, <2>4, <3>1 DEF StampTypes, Stamps!Bounded
  <2>6. Stamps!Honest
    BY <1>1, <2>5 DEF ClockInv, Stamps!Honest
  <2>7. stamps_stamps.milli * Milli <= stamps_stamps.micro
    <3>1. PICK q \in Nat : q = stamps_microsecond \div Milli /\ q * Milli <= stamps_microsecond
      BY <2>2, Quotient, PollerAssumption DEF StampTypes
    <3>2. /\ stamps_stamps.milli \in Nat /\ stamps_stamps.milli <= q /\ Milli \in Nat
          /\ stamps_stamps.micro = stamps_microsecond /\ stamps_microsecond \in Nat
      BY <1>1, <2>2, <3>1, PollerAssumption DEF ClockInv, StampTypes
    <3>3. stamps_stamps.milli * Milli <= q * Milli /\ stamps_stamps.milli * Milli \in Nat
      BY <3>1, <3>2, Factor
    <3> QED
      BY ONLY <3>1, <3>2, <3>3
  <2>8. Stamps!Counted
    BY <1>1, <2>2, <2>7 DEF ClockInv, StampTypes, Stamps!Counted
  <2> QED
    BY <2>4, <2>6, <2>8 DEF Stamps!ClockRight
<1>2. ASSUME ClockInv, [Stamps!Next]_Stamps!vars PROVE [Stamps!NeverBack]_stampsVars
  <2>1. StampTypes
    BY <1>2 DEF ClockInv
  <2>2. CASE UNCHANGED stamps_seen
    BY <2>1, <2>2 DEF StampTypes, Stamps!NeverBack
  <2>3. ASSUME NEW r \in Reader,
               Stamps!GetCurrentMicrosecond(r) \/ Stamps!GetCurrentMillisecond(r)
        PROVE  Stamps!NeverBack
    BY <1>2, <2>1, <2>3
       DEF ClockInv, StampTypes, Stamps!NeverBack, Stamps!GetCurrentMicrosecond,
           Stamps!GetCurrentMillisecond
  <2>4. CASE UNCHANGED Stamps!vars
    BY <2>2, <2>4 DEF Stamps!vars
  <2>5. CASE Stamps!Next
    BY <2>2, <2>3, <2>5
       DEF Stamps!Next, Stamps!Read, Stamps!StoreMicroSystem, Stamps!StoreMilliSystem,
           Stamps!Judge, Stamps!StoreMilli, Stamps!Tick, Stamps!SetClock
  <2> QED
    BY <1>2, <2>4, <2>5
<1> QED
  BY <1>1, <1>2

(* What a poller keeps, in any behaviour of MCPeers, for any number of descriptors, watchers,
   timers and readers, and however often the clock is set: kernel and map agree until a number
   is used again too early, a timer is due no sooner than its period says, and the stamps never
   go back (addEvent and delEvent, flushDelayTask, and the stamp thread of util.cpp). *)
THEOREM PollerSafe == PeersSpec => PollerRight
<1>1. PeersInit => EventsInv /\ TimerInv /\ ClockInv
  BY EventsStart, TimerStart, ClockStart DEF PeersInit
<1>2. [PeersNext]_peersVars => [Events!Next]_Events!vars
  BY DEF PeersNext, peersVars, eventsVars, Events!vars, Events!mapVars
<1>3. [PeersNext]_peersVars => [Timers!Next]_Timers!vars
  BY DEF PeersNext, peersVars, timersVars, Timers!vars
<1>4. [PeersNext]_peersVars => [Stamps!Next]_Stamps!vars
  BY DEF PeersNext, peersVars, stampsVars, Stamps!vars
<1>5. PeersSpec => []EventsInv
  BY <1>1, <1>2, EventsStep, PTL DEF PeersSpec
<1>6. PeersSpec => []TimerInv
  BY <1>1, <1>3, TimerStep, PTL DEF PeersSpec
<1>7. PeersSpec => []ClockInv
  BY <1>1, <1>4, ClockStep, PTL DEF PeersSpec
<1>8. PeersSpec => [](Events!PollerEventsRight /\ Timers!TimerRight /\ Stamps!ClockRight)
  BY <1>5, <1>6, <1>7, EventsPromise, TimerPromise, ClockPromise, PTL
<1>9. PeersSpec => Events!NoneAfterDel
  BY <1>2, <1>5, EventsPromise, PTL DEF PeersSpec, Events!NoneAfterDel
<1>10. PeersSpec => [][Stamps!NeverBack]_stampsVars
  BY <1>4, <1>7, ClockPromise, PTL DEF PeersSpec
<1> QED
  BY <1>8, <1>9, <1>10 DEF PollerRight
=============================================================================
