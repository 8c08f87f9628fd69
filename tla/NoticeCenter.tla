---------------------------- MODULE NoticeCenter ----------------------------
(***************************************************************************)
(* src/Util/NoticeCenter.h: threads that add, remove and call the          *)
(* listeners of an event.  The center's map of dispatchers and the         *)
(* listeners of a dispatcher have a lock each, and an operation takes them *)
(* one after the other: what is between can be another thread's.           *)
(***************************************************************************)
EXTENDS Sequences, FiniteSets, Integers

CONSTANTS Thread, Tag,
          MaxDispatcher   \* bound: dispatchers ever made

VARIABLES
  center,   \* NoticeCenter::_mapListener at one event: its dispatcher, 0 if none
  disp,     \* EventDispatcher::_mapListener, of each dispatcher made
  pc,       \* what a thread does next with the dispatcher that it holds
  holds,
  tag,      \* the argument of its call
  todo,     \* emitEvent's copy: the listeners still to call
  on,       \* listeners that were added and not removed since
  raced,    \* listeners that were added to a dispatcher on its way out
  seen      \* listeners that were on at some time of the thread's emitEvent

vars == <<center, disp, pc, holds, tag, todo, on, raced, seen>>
callVars == <<pc, holds, tag, todo, seen>>

AnyTag == CHOOSE x \in Tag : TRUE

Init ==
  /\ center = 0 /\ disp = <<>>
  /\ pc = [t \in Thread |-> "idle"] /\ holds = [t \in Thread |-> 0]
  /\ tag = [t \in Thread |-> AnyTag]
  /\ todo = [t \in Thread |-> {}] /\ on = {} /\ raced = {}
  /\ seen = [t \in Thread |-> {}]

-----------------------------------------------------------------------------
Start(t, next, d, x) ==
  /\ pc' = [pc EXCEPT ![t] = next]
  /\ holds' = [holds EXCEPT ![t] = d] /\ tag' = [tag EXCEPT ![t] = x]
Return(t) == Start(t, "idle", 0, AnyTag)
Stay == UNCHANGED <<pc, holds, tag>>

\* getDispatcher, for addListener (which makes one), delListener and emitEvent.
GetDispatcher(t, next, x) ==
  /\ pc[t] = "idle"
  /\ IF center = 0 /\ next = "add"
     THEN /\ Len(disp) < MaxDispatcher
          /\ disp' = Append(disp, {}) /\ center' = Len(disp) + 1
     ELSE UNCHANGED <<disp, center>>
  /\ IF center' = 0 THEN Stay ELSE Start(t, next, center', x)
  /\ seen' = [seen EXCEPT ![t] = IF next = "emit" THEN on ELSE {}]
  /\ UNCHANGED <<todo, on, raced>>

\* EventDispatcher::addListener.
AddListener(t) ==
  /\ pc[t] = "add" /\ Return(t)
  /\ disp' = [disp EXCEPT ![holds[t]] = @ \cup {tag[t]}]
  /\ on' = on \cup {tag[t]}
  /\ seen' = [s \in Thread |-> IF pc[s] = "emit" THEN seen[s] \cup {tag[t]} ELSE seen[s]]
  /\ raced' = IF center # holds[t] \/ \E s \in Thread : pc[s] = "drop" /\ holds[s] = holds[t]
              THEN raced \cup {tag[t]}
              ELSE raced \ {tag[t]}
  /\ UNCHANGED <<center, todo>>

\* EventDispatcher::delListener; what it leaves in a dispatcher the event has got since was
\* added after it.
DelListener(t) ==
  /\ pc[t] = "del"
  /\ disp' = [disp EXCEPT ![holds[t]] = @ \ {tag[t]}]
  /\ IF disp'[holds[t]] = {} THEN Start(t, "drop", holds[t], tag[t]) ELSE Return(t)
  /\ on' = IF holds[t] = center THEN on \ {tag[t]} ELSE on
  /\ UNCHANGED <<center, todo, raced, seen>>

\* Mutant: the event's dispatcher goes, whichever it is by now.
DelDispatcherAny(t) ==
  /\ pc[t] = "drop" /\ Return(t)
  /\ center' = 0
  /\ UNCHANGED <<disp, todo, on, raced, seen>>

\* delDispatcher: the dispatcher that was found empty, if the event still has it.
DelDispatcher(t) ==
  /\ pc[t] = "drop" /\ Return(t)
  /\ center' = IF center = holds[t] THEN 0 ELSE center
  /\ UNCHANGED <<disp, todo, on, raced, seen>>

\* delListener(tag) of every event, and clearAll, with the center's lock held throughout.
DelListenerAll(t, x) ==
  /\ pc[t] = "idle"
  /\ IF center = 0 THEN UNCHANGED <<center, disp>>
     ELSE /\ disp' = [disp EXCEPT ![center] = @ \ {x}]
          /\ center' = IF disp'[center] = {} THEN 0 ELSE center
  /\ on' = on \ {x}
  /\ UNCHANGED <<raced, callVars>>

ClearAll(t) ==
  /\ pc[t] = "idle"
  /\ center' = 0 /\ on' = {}
  /\ UNCHANGED <<disp, raced, callVars>>

\* EventDispatcher::emitEvent copies the listeners and calls them without a lock; a listener
\* may throw InterruptException, which ends it.
Copy(t) ==
  /\ pc[t] = "emit" /\ pc' = [pc EXCEPT ![t] = "call"]
  /\ todo' = [todo EXCEPT ![t] = disp[holds[t]]]
  /\ UNCHANGED <<center, disp, holds, tag, on, raced, seen>>

Call(t) ==
  /\ pc[t] = "call"
  /\ \/ /\ todo[t] = {} /\ Return(t) /\ seen' = [seen EXCEPT ![t] = {}]
        /\ UNCHANGED todo
     \/ /\ \E x \in todo[t] : \E left \in {todo[t] \ {x}, {}} :
             todo' = [todo EXCEPT ![t] = left]
        /\ Stay /\ UNCHANGED seen
  /\ UNCHANGED <<center, disp, on, raced>>

Next == \E t \in Thread :
  \/ \E x \in Tag : GetDispatcher(t, "add", x) \/ GetDispatcher(t, "del", x) \/ DelListenerAll(t, x)
  \/ GetDispatcher(t, "emit", AnyTag)
  \/ AddListener(t) \/ DelListener(t) \/ DelDispatcher(t) \/ ClearAll(t) \/ Copy(t) \/ Call(t)

Spec == Init /\ [][Next]_vars

-----------------------------------------------------------------------------
\* A listener that was added is called by the next emitEvent, unless it was added to a
\* dispatcher that another thread had emptied or cleared out of the map in between.
Kept == \A x \in on \ raced : center # 0 /\ x \in disp[center]

\* emitEvent calls nobody who was removed before it began.
NotAfter == \A t \in Thread : pc[t] = "call" => todo[t] \subseteq seen[t]

NoticeCenterRight == Kept /\ NotAfter
=============================================================================
