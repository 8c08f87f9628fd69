---------------------------- MODULE TaskExecutor ----------------------------
(***************************************************************************)
(* What a task executor promises to the threads that hand it closures      *)
(* (TaskExecutorInterface in src/Thread/TaskExecutor.h): one queue, taken  *)
(* from the front, in which async() appends, async_first() may overtake, a *)
(* closure is taken once, and is executed when it is taken unless its tag  *)
(* was cancelled.  EventPoller, with one thread, and ThreadPool, with any  *)
(* number of them, are shown to implement it.                              *)
(***************************************************************************)
EXTENDS Functions, Sequences, Integers

CONSTANTS Task,       \* closures handed to async, async_first, sync and sync_first
          Internal,   \* closures the executor queues for itself
          Urgent      \* those of both that are handed over with async_first

VARIABLES queue,      \* closures accepted and not yet taken, next one first
          cancelled,  \* closures whose strong reference was dropped by cancel()
          runs        \* runs[t]: how many times the body of t was started

vars == <<queue, cancelled, runs>>

Init == /\ queue = <<>>
        /\ cancelled = {}
        /\ runs = [t \in Task |-> 0]

\* Never accepted before: closures are not handed over twice.
Fresh(x) == x \notin Range(queue) /\ (x \in Task => runs[x] = 0)

\* async(): behind everything that was accepted before.
Enqueue(x) == /\ Fresh(x) /\ x \notin Urgent
              /\ queue' = Append(queue, x)
              /\ UNCHANGED <<cancelled, runs>>

\* async_first(): in front of some tail of the queue, nothing else moves.
Overtake(x) == /\ Fresh(x) /\ x \in Urgent
               /\ \E i \in 0 .. Len(queue) :
                     queue' = SubSeq(queue, 1, i) \o <<x>> \o SubSeq(queue, i + 1, Len(queue))
               /\ UNCHANGED <<cancelled, runs>>

Cancel(x) == /\ cancelled' = cancelled \cup {x}
             /\ UNCHANGED <<queue, runs>>

\* A thread of the executor takes the front closure.
Take == /\ queue # <<>>
        /\ queue' = Tail(queue)
        /\ runs' = IF Head(queue) \in Task \ cancelled
                   THEN [runs EXCEPT ![Head(queue)] = @ + 1]
                   ELSE runs
        /\ UNCHANGED cancelled

\* async() on the executor's own thread with may_sync: executed on the spot.
Inline(t) == /\ Fresh(t)
             /\ runs' = [runs EXCEPT ![t] = @ + 1]
             /\ UNCHANGED <<queue, cancelled>>

Next == \/ \E x \in Task \cup Internal : Enqueue(x) \/ Overtake(x) \/ Cancel(x)
        \/ \E t \in Task : Inline(t)
        \/ Take

Spec == Init /\ [][Next]_vars
=============================================================================
