------------------------------- MODULE Timer -------------------------------
(***************************************************************************)
(* Timer of src/Poller/Timer.cpp: init(), begin() and end() by whoever     *)
(* holds the object, and the delay tasks that begin() leaves with the      *)
(* poller, which calls them back in rounds (EventPoller::flushDelayTask).  *)
(* A period is in milliseconds; 0 stands for one below a millisecond.      *)
(***************************************************************************)
EXTENDS FiniteSets, Integers

CONSTANTS Period,   \* periods that init() is called with; one that is not positive is -1
          MaxBegin, \* bound: calls of begin()
          MaxNow    \* bound: the clock

VARIABLES
  now,       \* the clock
  period,    \* timer_period_, below 0 before init(); the callback is left out
  tag,       \* the delay task _tag stands for, 0 for none
  begun,     \* delay tasks so far: [period, at]
  due,       \* _delay_task_map: when, for those that are in it
  cancelled, \* those whose _strongTask is gone
  round,     \* where the poller stands: now_time, those still to call, the one it calls
  calls,     \* how often each was called
  refused,   \* those that returned false
  live,      \* the one begun last, if end() was not called since
  stray      \* those that another begin() followed with no end() in between

vars == <<now, period, tag, begun, due, cancelled, round, calls, refused, live, stray>>

Id == 1 .. MaxBegin
NoRound == [time |-> 0, todo |-> {}, in |-> 0]

Init ==
  /\ now = 0 /\ period = -1 /\ tag = 0
  /\ begun = [i \in {} |-> 0] /\ due = [i \in {} |-> 0] /\ cancelled = {} /\ round = NoRound
  /\ calls = [i \in Id |-> 0] /\ refused = {} /\ live = {} /\ stray = {}

-----------------------------------------------------------------------------
(* The holder of the timer.                                                *)

\* Mutant: the delay task is forgotten, not cancelled.
EndForgets == tag' = 0 /\ live' = {} /\ UNCHANGED cancelled

\* end(): the weak pointer may still be that of a task that is over.
End == cancelled' = cancelled \cup (IF tag = 0 THEN {} ELSE {tag}) /\ live' = {} /\ UNCHANGED tag

InitTimer(p) ==
  /\ End
  /\ period' = IF p < 0 THEN period ELSE p
  /\ UNCHANGED <<now, begun, due, round, calls, refused, stray>>

\* begin() makes a delay task whatever there is already.
Begin ==
  LET i == Cardinality(DOMAIN begun) + 1 IN
  /\ period >= 0 /\ i <= MaxBegin
  /\ begun' = [j \in DOMAIN begun \cup {i} |->
                IF j = i THEN [period |-> period, at |-> now] ELSE begun[j]]
  /\ due' = [j \in DOMAIN due \cup {i} |-> IF j = i THEN now + period ELSE due[j]]
  /\ tag' = i /\ live' = {i} /\ stray' = stray \cup live
  /\ UNCHANGED <<now, period, cancelled, round, calls, refused>>

\* end(), which the destructor calls too.
EndCall ==
  /\ End
  /\ UNCHANGED <<now, period, begun, due, round, calls, refused, stray>>

-----------------------------------------------------------------------------
(* The poller.                                                             *)

\* flushDelayTask takes out all that are due; one that begin() only posted may not be in the
\* map yet.
Flush ==
  /\ round.in = 0 /\ round.todo = {}
  /\ \E over \in SUBSET {i \in DOMAIN due : due[i] <= now} :
     /\ over # {}
     /\ round' = [time |-> now, todo |-> over, in |-> 0]
     /\ due' = [i \in DOMAIN due \ over |-> due[i]]
  /\ UNCHANGED <<now, period, tag, begun, cancelled, calls, refused, live, stray>>

\* One that was cancelled does nothing.
Skip(i) ==
  /\ round.in = 0 /\ i \in round.todo /\ i \in cancelled
  /\ round' = [round EXCEPT !.todo = @ \ {i}]
  /\ UNCHANGED <<now, period, tag, begun, due, cancelled, calls, refused, live, stray>>

TimeOut(i) ==
  /\ round.in = 0 /\ i \in round.todo \ cancelled
  /\ round' = [round EXCEPT !.todo = @ \ {i}, !.in = i]
  /\ calls' = [calls EXCEPT ![i] = @ + 1]
  /\ UNCHANGED <<now, period, tag, begun, due, cancelled, refused, live, stray>>

\* The callback asks for more, or throws, which is taken for that: a period from the time at
\* which the round began.  A period of 0 is taken for the end.
Again(i) ==
  /\ round.in = i /\ i # 0
  /\ round' = [round EXCEPT !.in = 0]
  /\ due' = IF begun[i].period = 0 THEN due
            ELSE [j \in DOMAIN due \cup {i} |-> IF j = i THEN round.time + begun[i].period ELSE due[j]]
  /\ UNCHANGED <<now, period, tag, begun, cancelled, calls, refused, live, stray>>

NoMore(i) ==
  /\ round.in = i /\ i # 0
  /\ round' = [round EXCEPT !.in = 0]
  /\ refused' = refused \cup {i}
  /\ UNCHANGED <<now, period, tag, begun, due, cancelled, calls, live, stray>>

Tick ==
  /\ now < MaxNow /\ now' = now + 1
  /\ UNCHANGED <<period, tag, begun, due, cancelled, round, calls, refused, live, stray>>

Next ==
  \/ Tick \/ Begin \/ EndCall \/ Flush
  \/ \E p \in Period \cup {-1} : InitTimer(p)
  \/ \E i \in Id : Skip(i) \/ TimeOut(i) \/ Again(i) \/ NoMore(i)

Spec == Init /\ [][Next]_vars

-----------------------------------------------------------------------------
Pending == DOMAIN due \cup round.todo

\* end() stops the timer: what can still call back is the delay task that was begun last, if
\* it was not ended, or one that a second begin() made the object forget.
EndStops == Pending \ cancelled \subseteq live \cup stray

\* The n-th call comes n periods after begin() or later, however the rounds fall.
NeverFast == \A i \in DOMAIN begun : calls[i] > 0 => begun[i].at + calls[i] * begun[i].period <= now

\* A timer goes on until its callback wants no more or it is cancelled.
GoesOn ==
  \A i \in DOMAIN begun :
    i \in Pending \/ round.in = i \/ i \in refused \cup cancelled \/ (begun[i].period = 0 /\ calls[i] = 1)

TimerRight == EndStops /\ NeverFast /\ GoesOn
=============================================================================
