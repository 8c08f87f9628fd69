------------------------------- MODULE Clock -------------------------------
(***************************************************************************)
(* getCurrentMillisecond and getCurrentMicrosecond of src/Util/util.cpp:   *)
(* the stamp thread that reads the clock of the system again and again,    *)
(* the four stamps it stores, and threads that read them; every delay of   *)
(* a poller is counted with them.  Milli of the clock are a millisecond.   *)
(***************************************************************************)
EXTENDS Integers

CONSTANTS Reader,
          Milli,   \* units of the clock in a millisecond
          Limit,   \* units in a second
          MaxNow,  \* bound: time that passes
          MaxStep, \* bound: how far the clock of the system is set, ahead or back
          MaxSets  \* bound: how often

VARIABLES
  real,     \* time that passed
  offset,   \* what the clock of the system was set by; it started at MaxStep * MaxSets
  sets,
  at,       \* where the thread is: "read", "system", "system2", "judge", "milli"
  now, last, microsecond,   \* its locals
  stamps,   \* the four atomics: [micro, milli, microSystem, milliSystem]
  seen,     \* what each reader read last: of micro and of milli
  missed    \* time that the thread did not count: it passed in a loop that it judged abnormal

vars == <<real, offset, sets, at, now, last, microsecond, stamps, seen, missed>>

Start == MaxStep * MaxSets
System == Start + real + offset

\* s_thread starts with the clock of the system in `last`.
Init ==
  /\ real = 0 /\ offset = 0 /\ sets = 0
  /\ at = "read" /\ now = Start /\ last = Start /\ microsecond = 0
  /\ stamps = [micro |-> 0, milli |-> 0, microSystem |-> Start, milliSystem |-> Start \div Milli]
  /\ seen = [r \in Reader |-> [micro |-> 0, milli |-> 0]] /\ missed = 0

-----------------------------------------------------------------------------
Read ==
  /\ at = "read" /\ at' = "system" /\ now' = System
  /\ UNCHANGED <<real, offset, sets, last, microsecond, stamps, seen, missed>>

StoreMicroSystem ==
  /\ at = "system" /\ at' = "system2" /\ stamps' = [stamps EXCEPT !.microSystem = now]
  /\ UNCHANGED <<real, offset, sets, now, last, microsecond, seen, missed>>

StoreMilliSystem ==
  /\ at = "system2" /\ at' = "judge" /\ stamps' = [stamps EXCEPT !.milliSystem = now \div Milli]
  /\ UNCHANGED <<real, offset, sets, now, last, microsecond, seen, missed>>

\* Mutant: only a clock that was set ahead is abnormal.
SoundAhead(expired) == expired < Limit
Sound(expired) == expired > 0 /\ expired < Limit

\* The time since the last loop is counted, unless the clock must have been set, or the thread
\* slept too long.
Judge ==
  LET expired == now - last IN
  /\ at = "judge" /\ last' = now
  /\ IF Sound(expired)
     THEN /\ microsecond' = microsecond + expired
          /\ stamps' = [stamps EXCEPT !.micro = microsecond + expired]
          /\ at' = "milli" /\ UNCHANGED missed
     ELSE at' = "read" /\ missed' = missed + expired /\ UNCHANGED <<microsecond, stamps>>
  /\ UNCHANGED <<real, offset, sets, now, seen>>

StoreMilli ==
  /\ at = "milli" /\ at' = "read" /\ stamps' = [stamps EXCEPT !.milli = microsecond \div Milli]
  /\ UNCHANGED <<real, offset, sets, now, last, microsecond, seen, missed>>

-----------------------------------------------------------------------------
GetCurrentMicrosecond(r) ==
  /\ seen' = [seen EXCEPT ![r].micro = stamps.micro]
  /\ UNCHANGED <<real, offset, sets, at, now, last, microsecond, stamps, missed>>

GetCurrentMillisecond(r) ==
  /\ seen' = [seen EXCEPT ![r].milli = stamps.milli]
  /\ UNCHANGED <<real, offset, sets, at, now, last, microsecond, stamps, missed>>

Tick ==
  /\ real < MaxNow /\ real' = real + 1
  /\ UNCHANGED <<offset, sets, at, now, last, microsecond, stamps, seen, missed>>

\* Somebody sets the clock of the system.
SetClock(by) ==
  /\ sets < MaxSets /\ sets' = sets + 1 /\ offset' = offset + by
  /\ UNCHANGED <<real, at, now, last, microsecond, stamps, seen, missed>>

Next ==
  \/ Read \/ StoreMicroSystem \/ StoreMilliSystem \/ Judge \/ StoreMilli \/ Tick
  \/ \E r \in Reader : GetCurrentMicrosecond(r) \/ GetCurrentMillisecond(r)
  \/ \E by \in (-MaxStep .. MaxStep) \ {0} : SetClock(by)

Spec == Init /\ [][Next]_vars

-----------------------------------------------------------------------------
\* However the clock is set, time never goes back for anybody who reads it.
NeverBack == \A r \in Reader : seen'[r].micro >= seen[r].micro /\ seen'[r].milli >= seen[r].milli

\* What was counted and what was missed is the time of the system's clock; the milliseconds are
\* those of the microseconds, at most one loop late.
Counted ==
  /\ microsecond + missed = last - Start
  /\ stamps.micro <= microsecond
  /\ stamps.milli * Milli <= stamps.micro
  /\ at # "milli" => stamps.milli = microsecond \div Milli

\* As long as nobody sets the clock, no time is counted that did not pass, and time is missed
\* a second at once or not at all.
Honest == sets = 0 => stamps.micro <= real /\ (missed = 0 \/ missed >= Limit)

\* Setting the clock ahead counts as time that passed, by less than a second each time.
Bounded == stamps.micro <= real + sets * (Limit - 1)

ClockRight == Counted /\ Honest /\ Bounded
=============================================================================
