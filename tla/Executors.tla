------------------------------ MODULE Executors ------------------------------
(***************************************************************************)
(* How work is spread over poller threads: ThreadLoadCounter keeps records *)
(* of how long a thread slept and ran, TaskExecutorGetterImp::getExecutor  *)
(* takes a thread of the least load (src/Thread/TaskExecutor.cpp).         *)
(* Threads are numbered from 0, as in _threads; time goes in ticks.        *)
(***************************************************************************)
EXTENDS Integers, Sequences, SequencesExt

CONSTANTS
  Size,       \* threads of the pool
  MaxRecord,  \* _max_size
  MaxSpan,    \* _max_usec, in ticks
  MaxTime     \* bound: ticks

Thread == 0 .. Size - 1

VARIABLES
  started,    \* the pool is made
  now,
  ran,        \* what every thread did in each tick so far: TRUE if it ran
  sleeping,   \* _sleeping
  since,      \* _last_sleep_time or _last_wake_time, the later one
  list,       \* _time_list: [time, sleep]
  thread_pos  \* _thread_pos

counterVars == <<sleeping, since, list>>
vars == <<started, now, ran, counterVars, thread_pos>>

Init ==
  /\ started = FALSE /\ now = 0 /\ ran = [t \in Thread |-> <<>>]
  /\ sleeping = [t \in Thread |-> FALSE] /\ since = [t \in Thread |-> 0]
  /\ list = [t \in Thread |-> <<>>]
  /\ thread_pos = 0

Time(records, kinds) ==
  FoldSeq(LAMBDA r, sum : IF r.sleep \in kinds THEN sum + r.time ELSE sum, 0, records)

(* addPoller: each thread has called startSleep by the time it is used. *)
AddPoller ==
  /\ ~started /\ started' = TRUE
  /\ sleeping' = [t \in Thread |-> TRUE]
  /\ list' = [t \in Thread |-> <<[time |-> 0, sleep |-> FALSE]>>]
  /\ UNCHANGED <<now, ran, since, thread_pos>>

Tick ==
  /\ started /\ now < MaxTime
  /\ now' = now + 1
  /\ ran' = [t \in Thread |-> Append(ran[t], ~sleeping[t])]
  /\ UNCHANGED <<started, counterVars, thread_pos>>

Recorded(records, r) ==
  LET new == Append(records, r) IN IF Len(new) > MaxRecord THEN Tail(new) ELSE new

(* Mutant: the time is counted from the start of the record before. *)
SwitchLate(t) ==
  /\ started
  /\ sleeping' = [sleeping EXCEPT ![t] = ~@]
  /\ list' = [list EXCEPT ![t] = Recorded(@, [time |-> now - since[t], sleep |-> sleeping[t]])]
  /\ UNCHANGED <<since, started, now, ran, thread_pos>>

(* startSleep and sleepWakeUp. *)
Switch(t) ==
  /\ started
  /\ sleeping' = [sleeping EXCEPT ![t] = ~@] /\ since' = [since EXCEPT ![t] = now]
  /\ list' = [list EXCEPT ![t] = Recorded(@, [time |-> now - since[t], sleep |-> sleeping[t]])]
  /\ UNCHANGED <<started, now, ran, thread_pos>>

-----------------------------------------------------------------------------
(* load() drops records from the front until the rest and the time that runs now
   are within the span. *)
Kept(t) ==
  LET fits == {n \in 0 .. Len(list[t]) :
                 \/ n = Len(list[t])
                 \/ Time(SubSeq(list[t], n + 1, Len(list[t])), BOOLEAN) + now - since[t] <= MaxSpan}
      drop == CHOOSE n \in fits : \A m \in fits : n <= m
  IN SubSeq(list[t], drop + 1, Len(list[t]))

Load(t) ==
  LET current == now - since[t]
      run == Time(Kept(t), {FALSE}) + (IF sleeping[t] THEN 0 ELSE current)
      total == Time(Kept(t), BOOLEAN) + current
  IN IF total = 0 THEN 0 ELSE (run * 100) \div total

(* getExecutor: from thread_pos on, once around, up to the first that is idle. *)
Scan(start, load) ==
  FoldLeft(LAMBDA acc, i :
             IF acc.done THEN acc
             ELSE LET t == (start + i - 1) % Size
                      best == IF load[t] < load[acc.thread] THEN t ELSE acc.thread
                  IN [thread |-> best, pos |-> IF load[best] = 0 THEN t ELSE (t + 1) % Size,
                      done |-> load[best] = 0],
           [thread |-> start, pos |-> start, done |-> FALSE],
           [i \in 1 .. Size |-> i])

Result(t) == Scan(t, [u \in Thread |-> Load(u)])

GetExecutor ==
  /\ started
  /\ thread_pos' = Result(thread_pos).pos
  /\ list' = [t \in Thread |-> Kept(t)]
  /\ UNCHANGED <<started, now, ran, sleeping, since>>

Next ==
  \/ AddPoller \/ Tick \/ GetExecutor
  \/ \E t \in Thread : Switch(t)

Spec == Init /\ [][Next]_vars

-----------------------------------------------------------------------------
TypeOK ==
  /\ started \in BOOLEAN /\ now \in 0 .. MaxTime /\ thread_pos \in Thread
  /\ \A t \in Thread : Len(list[t]) <= MaxRecord /\ since[t] <= now

(* The load of a thread is the share of the last ticks in which it did run, as many
   as the records it kept and the present one are long; no tick counts twice. *)
LoadIsShare ==
  \A t \in Thread :
    LET span == Time(Kept(t), BOOLEAN) + now - since[t]
        runs == Cardinality({i \in now - span + 1 .. now : ran[t][i]})
    IN started => /\ span <= now
                  /\ Load(t) = IF span = 0 THEN 0 ELSE (runs * 100) \div span

(* Whoever asks gets a thread of the least load; not in turn: while the thread at
   thread_pos is idle everybody gets that one. *)
LeastLoad == \A t \in Thread : Load(Result(thread_pos).thread) <= Load(t)
=============================================================================
