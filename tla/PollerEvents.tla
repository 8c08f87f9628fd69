---------------------------- MODULE PollerEvents ----------------------------
(***************************************************************************)
(* The descriptors an EventPoller watches: addEvent, delEvent and the part *)
(* of runLoop that calls back, with epoll or with select.  A watcher is    *)
(* what holds a descriptor (a Pipe, a SockFD): it is made and ended on the *)
(* loop's thread or on another one, whose calls arrive as closures.  The   *)
(* closure and its pipe are the subject of EventPoller.                    *)
(***************************************************************************)
EXTENDS Integers, Sequences, SequencesExt

CONSTANTS
  Fd,          \* descriptor numbers
  MaxWatcher   \* bound: watchers made

None == 0

VARIABLES
  build,       \* "epoll" or "select"; "" before the poller is made
  made,        \* watchers made
  fd_of,       \* descriptor of each watcher, None when it is closed
  epoll,       \* what the kernel watches: by descriptor, the watcher
  event_map,   \* _event_map: by descriptor, the watcher whose function it holds
  signal,      \* watchers something has happened to
  batch,       \* what is left of events, or of callback_list: <<descriptor, watcher>>
  tasks,       \* closures from other threads: <<"add" or "del", watcher, descriptor>>
  calling,     \* <<watcher that is called, watcher the event was of>>
  reused       \* a descriptor was closed and watched again within one batch, or
               \* before the closure that adds it had run

Watcher == 1 .. MaxWatcher
Nobody == <<None, None>>
mapVars == <<epoll, event_map>>
vars == <<build, made, fd_of, mapVars, signal, batch, tasks, calling, reused>>

Init ==
  /\ build = "" /\ made = 0 /\ reused = FALSE
  /\ fd_of = [w \in Watcher |-> None]
  /\ epoll = [f \in Fd |-> None] /\ event_map = [f \in Fd |-> None]
  /\ signal = {} /\ batch = <<>> /\ tasks = <<>> /\ calling = Nobody

Held(f) == \E w \in Watcher : fd_of[w] = f

InBatch(f) == \E i \in 1 .. Len(batch) : batch[i][1] = f

-----------------------------------------------------------------------------
(* The end of a watcher that is not watched yet overtakes its addEvent. *)
Overtakes(w) == \E i \in 1 .. Len(tasks) : tasks[i] = <<"add", w, fd_of[w]>>

Holder(f) == IF Held(f) THEN CHOOSE v \in Watcher : fd_of[v] = f ELSE None

(* What addEvent does on the loop's thread: emplace keeps what is there; epoll
   refuses a descriptor it watches, and one that is closed; select takes any. *)
AddHere(w, f) ==
  IF build = "select" \/ (Held(f) /\ epoll[f] = None)
  THEN /\ epoll' = [epoll EXCEPT ![f] = Holder(f)]
       /\ event_map' = IF event_map[f] = None THEN [event_map EXCEPT ![f] = w] ELSE event_map
       /\ reused' = (reused \/ InBatch(f))
  ELSE UNCHANGED <<epoll, event_map, reused>>

(* Mutant: the function stays in the map. *)
DelHereKept(f) == epoll' = [epoll EXCEPT ![f] = None] /\ UNCHANGED event_map

(* What delEvent does there, and then the last use of the descriptor goes with the
   function that delEvent was given. *)
DelHere(f) ==
  IF build = "select" \/ epoll[f] # None
  THEN epoll' = [epoll EXCEPT ![f] = None] /\ event_map' = [event_map EXCEPT ![f] = None]
  ELSE UNCHANGED mapVars

Build ==
  /\ build = "" /\ build' \in {"epoll", "select"}
  /\ UNCHANGED <<made, fd_of, mapVars, signal, batch, tasks, calling, reused>>

OnLoop == calling # Nobody

(* A function that is called makes a watcher: the kernel gives a free number. *)
OpenHere(f) ==
  /\ OnLoop /\ made < MaxWatcher /\ ~Held(f)
  /\ made' = made + 1 /\ fd_of' = [fd_of EXCEPT ![made + 1] = f]
  /\ epoll' = [epoll EXCEPT ![f] = made + 1]
  /\ event_map' = IF event_map[f] = None THEN [event_map EXCEPT ![f] = made + 1] ELSE event_map
  /\ reused' = (reused \/ InBatch(f))
  /\ UNCHANGED <<build, signal, batch, tasks, calling>>

(* Another thread does. *)
Open(f) ==
  /\ build # "" /\ made < MaxWatcher /\ ~Held(f)
  /\ made' = made + 1 /\ fd_of' = [fd_of EXCEPT ![made + 1] = f]
  /\ tasks' = Append(tasks, <<"add", made + 1, f>>)
  /\ UNCHANGED <<build, mapVars, signal, batch, calling, reused>>

CloseHere(w) ==
  /\ OnLoop /\ fd_of[w] # None
  /\ DelHere(fd_of[w])
  /\ fd_of' = [fd_of EXCEPT ![w] = None] /\ signal' = signal \ {w}
  /\ reused' = (reused \/ Overtakes(w))
  /\ UNCHANGED <<build, made, batch, tasks, calling>>

Close(w) ==
  /\ fd_of[w] # None
  /\ \A i \in 1 .. Len(tasks) : tasks[i] # <<"del", w, fd_of[w]>>
  /\ tasks' = Append(tasks, <<"del", w, fd_of[w]>>)
  /\ UNCHANGED <<build, made, fd_of, mapVars, signal, batch, calling, reused>>

(* External: something happens to a descriptor. *)
Signal(w) ==
  /\ fd_of[w] # None /\ w \notin signal
  /\ signal' = signal \cup {w}
  /\ UNCHANGED <<build, made, fd_of, mapVars, batch, tasks, calling, reused>>

-----------------------------------------------------------------------------
(* A closure runs when the pipe's own event is called. *)
RunTask ==
  /\ calling = Nobody /\ tasks # <<>>
  /\ tasks' = Tail(tasks)
  /\ LET t == Head(tasks) IN
       \/ /\ t[1] = "add"
          /\ AddHere(t[2], t[3])
          /\ UNCHANGED <<fd_of, signal>>
       \/ /\ t[1] = "del"
          /\ IF fd_of[t[2]] = t[3]
             THEN /\ DelHere(t[3])
                  /\ fd_of' = [fd_of EXCEPT ![t[2]] = None] /\ signal' = signal \ {t[2]}
             ELSE UNCHANGED <<mapVars, fd_of, signal>>   \* closed on the loop in the meantime
          /\ UNCHANGED reused
  /\ UNCHANGED <<build, made, batch, calling>>

Watched == {f \in Fd : epoll[f] # None /\ epoll[f] \in signal}

(* epoll_wait, or select and the list made from it, in the order of the map.  With
   a closed descriptor in the map select fails every time. *)
Wait ==
  /\ calling = Nobody /\ batch = <<>> /\ Watched # {}
  /\ build = "select" => \A f \in Fd : event_map[f] # None => Held(f)
  /\ batch' = [i \in 1 .. Len(SetToSeq(Watched)) |->
                 LET f == SetToSeq(Watched)[i] IN
                   <<f, IF build = "epoll" THEN epoll[f] ELSE event_map[f]>>]
  /\ signal' = signal \ {epoll[f] : f \in Watched}
  /\ UNCHANGED <<build, made, fd_of, mapVars, tasks, calling, reused>>

(* With epoll the function is looked up by the number; an event nobody has a
   function for makes the loop forget the descriptor. *)
CallBack ==
  /\ build = "epoll" /\ calling = Nobody /\ batch # <<>>
  /\ batch' = Tail(batch)
  /\ LET f == Head(batch)[1] IN
       IF event_map[f] = None
       THEN /\ epoll' = [epoll EXCEPT ![f] = None]
            /\ UNCHANGED <<event_map, calling>>
       ELSE /\ calling' = <<event_map[f], Head(batch)[2]>>
            /\ UNCHANGED mapVars
  /\ UNCHANGED <<build, made, fd_of, signal, tasks, reused>>

(* With select the list holds the records themselves, watched still or not. *)
CallRecord ==
  /\ build = "select" /\ calling = Nobody /\ batch # <<>>
  /\ batch' = Tail(batch)
  /\ calling' = <<Head(batch)[2], Head(batch)[2]>>
  /\ UNCHANGED <<build, made, fd_of, mapVars, signal, tasks, reused>>

Return ==
  /\ OnLoop /\ calling' = Nobody
  /\ UNCHANGED <<build, made, fd_of, mapVars, signal, batch, tasks, reused>>

Next ==
  \/ Build \/ RunTask \/ Wait \/ CallBack \/ CallRecord \/ Return
  \/ \E f \in Fd : OpenHere(f) \/ Open(f)
  \/ \E w \in Watcher : CloseHere(w) \/ Close(w) \/ Signal(w)

(* The loop runs; functions return. *)
Fairness ==
  WF_vars(RunTask) /\ WF_vars(Wait) /\ WF_vars(CallBack) /\ WF_vars(CallRecord) /\ WF_vars(Return)

Spec == Init /\ [][Next]_vars /\ Fairness

-----------------------------------------------------------------------------
TypeOK ==
  /\ build \in {"", "epoll", "select"} /\ made \in 0 .. MaxWatcher /\ reused \in BOOLEAN
  /\ fd_of \in [Watcher -> Fd \cup {None}] /\ signal \subseteq Watcher
  /\ {epoll, event_map} \subseteq [Fd -> Watcher \cup {None}]
  /\ \A i \in 1 .. Len(batch) : batch[i] \in Fd \X Watcher

(* The kernel and the map watch the same descriptors, for the same watcher, and one
   that still holds it: no number is given away while a function is kept for it. *)
SameWatched ==
  ~reused => \A f \in Fd : /\ event_map[f] = epoll[f]
                           /\ epoll[f] # None => fd_of[epoll[f]] = f

(* The function that is called is that of the watcher the event was of, unless
   the number has been used again within the batch. *)
RightWatcher == ~reused => calling[1] = calling[2]

(* With epoll nothing is called whose delEvent has been made. *)
NoneAfterDel ==
  [][(build = "epoll" /\ calling' # Nobody /\ calling = Nobody /\ ~reused)
       => fd_of[calling'[1]] # None]_vars

(* What happens to a watcher that is watched is taken up by the loop, unless the
   watcher is closed first or the map was left with a descriptor that is. *)
EventsReach ==
  \A f \in Fd, w \in Watcher : (epoll[f] = w /\ w \in signal) ~> (w \notin signal \/ reused)

PollerEventsRight == TypeOK /\ SameWatched /\ RightWatcher
=============================================================================
