------------------------------- MODULE Speed -------------------------------
(***************************************************************************)
(* src/Util/SpeedStatistic.h: the BytesSpeed of a Socket.  The poller's    *)
(* thread adds what was read or sent, any thread asks for the speed, and   *)
(* either may compute it: without a lock, so that each load and store of   *)
(* the counter is a step of its own.                                       *)
(***************************************************************************)
EXTENDS Integers

CONSTANTS Adder, Asker,  \* threads that add (the poller) and that ask
          Amount,        \* bytes of one read or one buffer
          Second,        \* 1000 ms
          MaxBytes,      \* 1024 * 1024
          MaxInt,        \* the largest int
          MaxNow, MaxAdd \* bounds: of the clock, and of what is added

Thread == Adder \cup Asker

VARIABLES
  now,
  bytes, speed, begin,  \* _bytes, _speed and the _begin of _ticker
  pc,                   \* where each thread stands
  local,                \* what it has loaded: bytes, or the time elapsed
  adds, total,          \* how often and how much was added
  closed,               \* the times it was computed for: [from, to, bytes]
  counted,              \* bytes in all of them
  met                   \* two threads were in it at once

vars == <<now, bytes, speed, begin, pc, local, adds, total, closed, counted, met>>

Init ==
  /\ now = 1 /\ bytes = 0 /\ speed = 0 /\ begin = 1
  /\ pc = [t \in Thread |-> "out"] /\ local = [t \in Thread |-> 0]
  /\ adds = 0 /\ total = 0 /\ closed = {} /\ counted = 0 /\ met = FALSE

-----------------------------------------------------------------------------
Goes(t, where) == pc' = [pc EXCEPT ![t] = where]

Enter(t) == pc[t] = "out" /\ met' = (met \/ \E u \in Thread \ {t} : pc[u] # "out")

\* operator+=: the counter is loaded, ...
Add(t, n) ==
  /\ t \in Adder /\ adds < MaxAdd /\ Enter(t)
  /\ local' = [local EXCEPT ![t] = bytes + n] /\ Goes(t, "store")
  /\ adds' = adds + 1 /\ total' = total + n
  /\ UNCHANGED <<now, bytes, speed, begin, closed, counted>>

\* ... stored, and the speed computed when it is large.
Store(t) ==
  /\ pc[t] = "store" /\ bytes' = local[t]
  /\ Goes(t, IF local[t] > MaxBytes THEN "compute" ELSE "out")
  /\ UNCHANGED <<now, speed, begin, local, adds, total, closed, counted, met>>

\* getSpeed: within a second what was computed last, else computeSpeed.
GetSpeed(t) ==
  /\ t \in Asker /\ Enter(t)
  /\ now - begin >= Second /\ Goes(t, "compute")
  /\ UNCHANGED <<now, bytes, speed, begin, local, adds, total, closed, counted>>

\* computeSpeed: nothing within one tick, where it would divide by zero; ...
Elapsed(t) ==
  /\ pc[t] = "compute"
  /\ local' = [local EXCEPT ![t] = now - begin]
  /\ Goes(t, IF now = begin THEN "out" ELSE "divide")
  /\ UNCHANGED <<now, bytes, speed, begin, adds, total, closed, counted, met>>

\* ... the quotient, which need not fit into the int; ...
Divide(t) ==
  LET quotient == (bytes * Second) \div local[t] IN
  /\ pc[t] = "divide" /\ Goes(t, "reset")
  /\ speed' \in IF quotient <= MaxInt THEN {quotient} ELSE {-MaxInt - 1, MaxInt}
  /\ closed' = closed \cup {[from |-> begin, to |-> begin + local[t], bytes |-> bytes]}
  /\ counted' = counted + bytes
  /\ UNCHANGED <<now, bytes, begin, local, adds, total, met>>

\* ... the ticker, which reads the clock again; ...
Reset(t) ==
  /\ pc[t] = "reset" /\ begin' = now /\ Goes(t, "clear")
  /\ UNCHANGED <<now, bytes, speed, local, adds, total, closed, counted, met>>

\* Mutant: what was counted stays.
ClearNothing(t) ==
  /\ pc[t] = "clear" /\ Goes(t, "out")
  /\ UNCHANGED <<now, bytes, speed, begin, local, adds, total, closed, counted, met>>

\* ... and the counter.
Clear(t) ==
  /\ pc[t] = "clear" /\ bytes' = 0 /\ Goes(t, "out")
  /\ UNCHANGED <<now, speed, begin, local, adds, total, closed, counted, met>>

Tick ==
  /\ now < MaxNow /\ now' = now + 1
  /\ UNCHANGED <<bytes, speed, begin, pc, local, adds, total, closed, counted, met>>

Next ==
  \/ \E t \in Thread :
       \/ Store(t) \/ GetSpeed(t) \/ Elapsed(t) \/ Divide(t) \/ Reset(t) \/ Clear(t)
       \/ \E n \in Amount : Add(t, n)
  \/ Tick

Spec == Init /\ [][Next]_vars

-----------------------------------------------------------------------------
\* As long as no two threads meet in it, every byte is in one speed or still counted, whoever
\* computed it and however little time had passed.
EachOnce ==
  (~met /\ \A t \in Thread : pc[t] = "out") => total = counted + bytes

\* No time is in two speeds, and none is left out but the ticks between the quotient and the
\* reset; also when threads meet, nothing is divided by zero.
Apart ==
  /\ \A i \in closed : i.from < i.to
  /\ ~met => \A i, j \in closed : i = j \/ i.to <= j.from \/ j.to <= i.from

\* What is shown is a speed there was, or one that did not fit: never one that mixes the bytes
\* of one time with the length of another.
Shown ==
  ~met => \/ speed = 0
          \/ \E i \in closed : \/ speed = (i.bytes * Second) \div (i.to - i.from)
                               \/ i.bytes * Second > MaxInt * (i.to - i.from)

SpeedRight == EachOnce /\ Apart /\ Shown
=============================================================================
