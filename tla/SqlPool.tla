------------------------------ MODULE SqlPool ------------------------------
(***************************************************************************)
(* src/Util/SqlPool.h over src/Util/ResourcePool.h: connections to a data  *)
(* base that are lent to whoever queries it.  A flag that is tried and     *)
(* never waited for guards the list of idle connections: a thread that     *)
(* finds it set makes a connection of its own, or closes the one it gives  *)
(* back.  An asynchronous query runs on one worker thread; one that fails  *)
(* waits for the next tick of the timer and is posted again.               *)
(***************************************************************************)
EXTENDS SequencesExt, FiniteSets, Integers, SequenceTheorems, FiniteSetTheorems, TLAPS

CONSTANTS User,       \* threads that call syncQuery
          Worker,     \* the thread of _threadPool
          NoThread,
          PoolSize,   \* _pool_size
          MaxConn,    \* bound: connections made
          MaxQuery    \* bound: asynchronous queries

VARIABLES
  objs,      \* _objs, the idle connections
  busy,      \* the thread that set _busy
  made,      \* connections made so far
  failed,    \* those on which a query failed
  pc,        \* where each thread stands in syncQuery
  conn,      \* the connection it holds
  tasks,     \* asynchronous queries posted to the worker
  running,   \* the one the worker runs
  errors,    \* _error_query
  done,      \* queries that succeeded
  asked      \* asynchronous queries so far

vars == <<objs, busy, made, failed, pc, conn, tasks, running, errors, done, asked>>
poolVars == <<objs, busy, made, failed, pc, conn>>
queryVars == <<tasks, running, errors, done, asked>>

Thread == User \cup {Worker}

Init ==
  /\ objs = <<>> /\ busy = NoThread /\ made = 0 /\ failed = {}
  /\ pc = [t \in Thread |-> "idle"] /\ conn = [t \in Thread |-> 0]
  /\ tasks = <<>> /\ running = 0 /\ errors = <<>> /\ done = {} /\ asked = 0

-----------------------------------------------------------------------------
Goes(t, place, c) == pc' = [pc EXCEPT ![t] = place] /\ conn' = [conn EXCEPT ![t] = c]

\* _pool->obtain(): tries the flag.
Obtain(t) ==
  /\ pc[t] = "get"
  /\ busy' = IF busy = NoThread THEN t ELSE busy
  /\ Goes(t, IF busy = NoThread THEN "take" ELSE "alloc", 0)
  /\ UNCHANGED <<objs, made, failed, queryVars>>

\* getPtr with the flag set: the last idle connection.
Take(t) ==
  /\ pc[t] = "take" /\ objs # <<>>
  /\ Goes(t, "query", Last(objs)) /\ objs' = Front(objs)
  /\ busy' = NoThread
  /\ UNCHANGED <<made, failed, queryVars>>

\* A new connection, because none is idle or without the flag.
Alloc(t) ==
  /\ pc[t] = "alloc" \/ (pc[t] = "take" /\ objs = <<>>)
  /\ made < MaxConn /\ made' = made + 1
  /\ Goes(t, "query", made')
  /\ busy' = IF pc[t] = "take" THEN NoThread ELSE busy
  /\ UNCHANGED <<objs, failed, queryVars>>

\* The server refuses: the constructor throws, and leaves the flag as it is.
AllocThrows(t) ==
  /\ pc[t] = "alloc" \/ (pc[t] = "take" /\ objs = <<>>)
  /\ Goes(t, "throw", 0)
  /\ UNCHANGED <<objs, busy, made, failed, queryVars>>

\* Mutant: a connection whose query failed is given back (no quit()).
QueryKept(t) ==
  /\ pc[t] = "query"
  /\ \/ Goes(t, "give", conn[t]) /\ UNCHANGED failed
     \/ Goes(t, "give", conn[t]) /\ failed' = failed \cup {conn[t]}
  /\ UNCHANGED <<objs, busy, made, queryVars>>

\* The query succeeds, or throws and takes its connection along: quit().
Query(t) ==
  /\ pc[t] = "query"
  /\ \/ Goes(t, "give", conn[t]) /\ UNCHANGED failed
     \/ Goes(t, "throw", 0) /\ failed' = failed \cup {conn[t]}
  /\ UNCHANGED <<objs, busy, made, queryVars>>

\* The deleter of the connection: recycle tries the flag, or closes it.
Recycle(t) ==
  /\ pc[t] = "give"
  /\ IF busy = NoThread THEN busy' = t /\ Goes(t, "put", conn[t])
     ELSE UNCHANGED busy /\ Goes(t, "return", 0)
  /\ UNCHANGED <<objs, made, failed, queryVars>>

Put(t) ==
  /\ pc[t] = "put"
  /\ objs' = IF Len(objs) >= PoolSize THEN objs ELSE Append(objs, conn[t])
  /\ busy' = NoThread
  /\ Goes(t, "return", 0)
  /\ UNCHANGED <<made, failed, queryVars>>

-----------------------------------------------------------------------------
SyncQuery(t) ==
  /\ pc[t] = "idle" /\ Goes(t, "get", 0)
  /\ UNCHANGED <<objs, busy, made, failed, queryVars>>

Returned(t) ==
  /\ pc[t] \in {"return", "throw"} /\ Goes(t, "idle", 0)
  /\ UNCHANGED <<objs, busy, made, failed, queryVars>>

AsyncQuery ==
  /\ asked < MaxQuery /\ asked' = asked + 1
  /\ tasks' = Append(tasks, asked')
  /\ UNCHANGED <<poolVars, running, errors, done>>

\* The worker takes a task; its lambda keeps a query that failed for the timer.  cnt is
\* always 2: flushError's asyncQuery(sql, tryCnt) takes tryCnt for an argument of the format.
RunTask ==
  /\ pc[Worker] = "idle" /\ tasks # <<>>
  /\ running' = Head(tasks) /\ tasks' = Tail(tasks)
  /\ Goes(Worker, "get", 0)
  /\ UNCHANGED <<objs, busy, made, failed, errors, done, asked>>

TaskDone ==
  /\ pc[Worker] \in {"return", "throw"} /\ Goes(Worker, "idle", 0)
  /\ running' = 0
  /\ IF pc[Worker] = "return" THEN done' = done \cup {running} /\ UNCHANGED errors
     ELSE errors' = Append(errors, running) /\ UNCHANGED done
  /\ UNCHANGED <<objs, busy, made, failed, tasks, asked>>

\* The timer, on its poller's thread.
FlushError ==
  /\ errors # <<>> /\ errors' = <<>>
  /\ tasks' = tasks \o errors
  /\ UNCHANGED <<poolVars, running, done, asked>>

Next ==
  \/ \E t \in Thread : Obtain(t) \/ Take(t) \/ Alloc(t) \/ AllocThrows(t) \/ Query(t) \/ Recycle(t) \/ Put(t)
  \/ \E t \in User : SyncQuery(t) \/ Returned(t)
  \/ AsyncQuery \/ RunTask \/ TaskDone \/ FlushError

Spec == Init /\ [][Next]_vars

-----------------------------------------------------------------------------
Lent == {conn[t] : t \in Thread} \ {0}

\* A connection is lent to one thread at a time and is not idle meanwhile, although nobody
\* waits for the flag; one thread is at the list at a time, and no more than PoolSize are idle.
Exclusive ==
  /\ \A t, s \in Thread : conn[t] # 0 /\ conn[t] = conn[s] => t = s
  /\ \A t, s \in Thread : {pc[t], pc[s]} \subseteq {"take", "put"} => t = s
  /\ Lent \cap ToSet(objs) = {} /\ Cardinality(ToSet(objs)) = Len(objs)
  /\ Len(objs) <= PoolSize

\* A connection on which a query failed is not used again.
NotReused == failed \cap (Lent \cup ToSet(objs)) = {}

\* An asynchronous query is waiting, running, waiting for the timer or done, and is in one
\* place only: a failure loses none and runs none twice at a time.
OnePlace ==
  LET where == tasks \o errors \o (IF running = 0 THEN <<>> ELSE <<running>>) IN
  /\ ToSet(where) \cup done = 1 .. asked
  /\ Len(where) + Cardinality(done) = asked

\* The pool lends, and the queries go on.
SqlPoolRight == Exclusive /\ NotReused /\ OnePlace

-----------------------------------------------------------------------------
(* Theorems, for any set of threads, any size of the pool and any bounds.  *)
(* A connection is counted as the element of a sequence without repetition,*)
(* a query by the lengths of the sequences it can be in.                   *)

\* The flag is held by the thread at the list, a connection by whoever has work for it.
PoolInv ==
  /\ made \in Nat /\ objs \in Seq(Nat \ {0}) /\ ToSet(objs) \cup failed \subseteq 1 .. made
  /\ pc \in [Thread -> {"idle", "get", "take", "alloc", "query", "give", "put", "return", "throw"}]
  /\ conn \in [Thread -> Nat] /\ \A t \in Thread : conn[t] <= made
  /\ \A t \in Thread : pc[t] \in {"query", "give", "put"} => conn[t] # 0
  /\ \A t \in Thread : pc[t] \in {"take", "put"} => busy = t
  /\ Exclusive /\ NotReused

Ids == Nat \ {0}

\* The worker runs a query while it is not idle.
QueryInv ==
  /\ asked \in Nat /\ running \in Nat
  /\ tasks \in Seq(Ids) /\ errors \in Seq(Ids) /\ done \subseteq Nat
  /\ running = 0 <=> pc[Worker] = "idle"
  /\ OnePlace

\* What the operators on sequences do to the elements.
LEMMA SeqElements ==
  ASSUME NEW S, NEW s \in Seq(S)
  PROVE  /\ IsFiniteSet(ToSet(s)) /\ Cardinality(ToSet(s)) <= Len(s) /\ Len(s) \in Nat
         /\ ToSet(s) \subseteq S
         /\ Cardinality(ToSet(s)) = Len(s)
              <=> \A i, j \in 1 .. Len(s) : s[i] = s[j] => i = j
<1>1. Len(s) \in Nat /\ DOMAIN s = 1 .. Len(s) /\ s \in [1 .. Len(s) -> S]
  BY LenProperties
<1>2. ToSet(s) = {s[i] : i \in 1 .. Len(s)}
  BY <1>1 DEF ToSet
<1>3. s \in Surjection(1 .. Len(s), ToSet(s))
  BY <1>1, <1>2 DEF Surjection
<1>4. IsFiniteSet(1 .. Len(s)) /\ Cardinality(1 .. Len(s)) = Len(s)
  BY <1>1, FS_Interval
<1>5. /\ IsFiniteSet(ToSet(s)) /\ Cardinality(ToSet(s)) <= Len(s)
      /\ Cardinality(ToSet(s)) = Len(s) <=> s \in Injection(1 .. Len(s), ToSet(s))
  BY <1>3, <1>4, FS_Surjection
<1>6. s \in Injection(1 .. Len(s), ToSet(s)) <=> \A i, j \in 1 .. Len(s) : s[i] = s[j] => i = j
  BY <1>1, <1>3 DEF Injection, Surjection, IsInjective
<1>7. ToSet(s) \subseteq S
  BY <1>1, <1>2
<1> QED
  BY <1>1, <1>5, <1>6, <1>7

\* An element is added at the end.
LEMMA AppendElements ==
  ASSUME NEW S, NEW s \in Seq(S), NEW x \in S
  PROVE  /\ Append(s, x) \in Seq(S) /\ ToSet(Append(s, x)) = ToSet(s) \cup {x}
         /\ Len(Append(s, x)) = Len(s) + 1
<1>1. /\ Append(s, x) \in Seq(S) /\ Len(Append(s, x)) = Len(s) + 1 /\ Len(s) \in Nat
      /\ \A i \in 1 .. Len(s) : Append(s, x)[i] = s[i]
      /\ Append(s, x)[Len(s) + 1] = x
  BY AppendProperties, LenProperties
<1>2. DOMAIN s = 1 .. Len(s) /\ DOMAIN Append(s, x) = 1 .. Len(s) + 1
  BY <1>1, LenProperties
<1>3. 1 .. Len(s) + 1 = (1 .. Len(s)) \cup {Len(s) + 1}
  BY <1>1
<1> QED
  BY <1>1, <1>2, <1>3 DEF ToSet

\* The last element is taken away, of a sequence without repetition.
LEMMA FrontElements ==
  ASSUME NEW S, NEW s \in Seq(S), s # <<>>, Cardinality(ToSet(s)) = Len(s)
  PROVE  /\ Front(s) \in Seq(S) /\ Last(s) \in ToSet(s) /\ ToSet(Front(s)) = ToSet(s) \ {Last(s)}
         /\ Len(Front(s)) = Len(s) - 1
<1>1. Len(s) \in Nat /\ Len(s) > 0 /\ DOMAIN s = 1 .. Len(s)
  BY EmptySeq, LenProperties
<1>2. \A i, j \in 1 .. Len(s) : s[i] = s[j] => i = j
  BY SeqElements
<1>3. \A i \in 1 .. Len(s) : s[i] \in S
  BY <1>1, ElementOfSeq
<1>4. 1 \in 1 .. Len(s) + 1 /\ Len(s) - 1 \in 0 .. Len(s) /\ Len(s) - 1 \in Int
  BY <1>1
<1>5. /\ Front(s) \in Seq(S) /\ Len(Front(s)) = Len(s) - 1
      /\ \A i \in 1 .. Len(s) - 1 : Front(s)[i] = s[i]
  BY <1>1, <1>3, <1>4, SubSeqProperties DEF Front
<1>6. DOMAIN Front(s) = 1 .. Len(s) - 1
  BY <1>5, LenProperties
<1>7. Len(s) \in 1 .. Len(s) /\ 1 .. Len(s) - 1 = (1 .. Len(s)) \ {Len(s)}
  BY <1>1
<1>8. Last(s) = s[Len(s)] /\ Last(s) \in ToSet(s)
  BY <1>1, <1>7 DEF ToSet, Last
<1>9. ToSet(s) = {s[i] : i \in 1 .. Len(s)}
  BY <1>1 DEF ToSet
<1>10. ToSet(Front(s)) = {s[i] : i \in 1 .. Len(s) - 1}
  BY <1>5, <1>6 DEF ToSet
<1>11. ToSet(Front(s)) = ToSet(s) \ {s[Len(s)]}
  <2> HIDE DEF Front
  <2>1. \A i \in 1 .. Len(s) - 1 : i \in 1 .. Len(s) /\ i # Len(s)
    BY <1>1
  <2>2. ASSUME NEW x \in ToSet(Front(s)) PROVE x \in ToSet(s) /\ x # s[Len(s)]
    BY <1>2, <1>7, <1>9, <1>10, <2>1, <2>2
  <2>3. ASSUME NEW x \in ToSet(s), x # s[Len(s)] PROVE x \in ToSet(Front(s))
    BY <1>7, <1>9, <1>10, <2>3
  <2> QED
    BY <2>2, <2>3
<1> QED
  BY <1>5, <1>8, <1>11

\* The first element is taken away.
LEMMA TailElements ==
  ASSUME NEW S, NEW s \in Seq(S), s # <<>>
  PROVE  /\ Tail(s) \in Seq(S) /\ Head(s) \in S /\ ToSet(s) = ToSet(Tail(s)) \cup {Head(s)}
         /\ Len(Tail(s)) = Len(s) - 1
<1>1. Len(s) \in Nat /\ Len(s) > 0 /\ DOMAIN s = 1 .. Len(s)
  BY EmptySeq, LenProperties
<1>2. /\ Head(s) \in S /\ Tail(s) \in Seq(S) /\ Len(Tail(s)) = Len(s) - 1 /\ Head(s) = s[1]
      /\ \A i \in 1 .. Len(Tail(s)) : Tail(s)[i] = s[i + 1]
  BY HeadTailProperties
<1>3. DOMAIN Tail(s) = 1 .. Len(s) - 1
  BY <1>2, LenProperties
<1>4. ASSUME NEW x \in ToSet(s) PROVE x \in ToSet(Tail(s)) \cup {Head(s)}
  <2>1. PICK i \in 1 .. Len(s) : x = s[i]
    BY <1>1 DEF ToSet
  <2>2. CASE i = 1
    BY <1>2, <2>1, <2>2
  <2>3. CASE i # 1
    <3>1. i - 1 \in 1 .. Len(s) - 1 /\ (i - 1) + 1 = i
      BY <1>1, <2>3
    <3> QED
      BY <1>2, <1>3, <2>1, <3>1 DEF ToSet
  <2> QED
    BY <2>2, <2>3
<1>5. ASSUME NEW x \in ToSet(Tail(s)) PROVE x \in ToSet(s)
  <2>1. PICK i \in 1 .. Len(s) - 1 : x = Tail(s)[i]
    BY <1>3 DEF ToSet
  <2>2. i + 1 \in 1 .. Len(s)
    BY <1>1
  <2> QED
    BY <1>1, <1>2, <2>1, <2>2 DEF ToSet
<1>6. Head(s) \in ToSet(s)
  BY <1>1, <1>2 DEF ToSet
<1> QED
  BY <1>2, <1>4, <1>5, <1>6

\* Two sequences are joined.
LEMMA ConcatElements ==
  ASSUME NEW S, NEW s \in Seq(S), NEW q \in Seq(S)
  PROVE  /\ s \o q \in Seq(S) /\ ToSet(s \o q) = ToSet(s) \cup ToSet(q)
         /\ Len(s \o q) = Len(s) + Len(q)
<1>1. Len(s) \in Nat /\ Len(q) \in Nat /\ DOMAIN s = 1 .. Len(s) /\ DOMAIN q = 1 .. Len(q)
  BY LenProperties
<1>2. /\ s \o q \in Seq(S) /\ Len(s \o q) = Len(s) + Len(q)
      /\ \A i \in 1 .. Len(s) + Len(q) :
           (s \o q)[i] = IF i <= Len(s) THEN s[i] ELSE q[i - Len(s)]
  BY ConcatProperties
<1>3. DOMAIN (s \o q) = 1 .. Len(s) + Len(q)
  BY <1>2, LenProperties
<1>4. ASSUME NEW x \in ToSet(s \o q) PROVE x \in ToSet(s) \cup ToSet(q)
  <2>1. PICK i \in 1 .. Len(s) + Len(q) : x = (s \o q)[i]
    BY <1>3 DEF ToSet
  <2>2. i <= Len(s) => i \in 1 .. Len(s)
    BY <1>1
  <2>3. ~(i <= Len(s)) => i - Len(s) \in 1 .. Len(q)
    BY <1>1
  <2> QED
    BY <1>1, <1>2, <2>1, <2>2, <2>3 DEF ToSet
<1>5. ASSUME NEW x \in ToSet(s) PROVE x \in ToSet(s \o q)
  <2>1. PICK i \in 1 .. Len(s) : x = s[i]
    BY <1>1 DEF ToSet
  <2>2. i \in 1 .. Len(s) + Len(q) /\ i <= Len(s)
    BY <1>1
  <2> QED
    BY <1>2, <1>3, <2>1, <2>2 DEF ToSet
<1>6. ASSUME NEW x \in ToSet(q) PROVE x \in ToSet(s \o q)
  <2>1. PICK i \in 1 .. Len(q) : x = q[i]
    BY <1>1 DEF ToSet
  <2>2. i + Len(s) \in 1 .. Len(s) + Len(q) /\ ~(i + Len(s) <= Len(s)) /\ (i + Len(s)) - Len(s) = i
    BY <1>1
  <2> QED
    BY <1>2, <1>3, <2>1, <2>2 DEF ToSet
<1> QED
  BY <1>2, <1>4, <1>5, <1>6

\* Nothing is lent and nothing was asked at first.
LEMMA PoolInit == ASSUME PoolSize \in Nat PROVE Init => PoolInv /\ QueryInv
<1> SUFFICES ASSUME Init PROVE PoolInv /\ QueryInv
  OBVIOUS
<1>1. /\ <<>> \in Seq(Nat \ {0}) /\ Len(<<>>) = 0 /\ ToSet(<<>>) = {} /\ <<>> \o <<>> = <<>>
      /\ <<>> \o <<>> \o <<>> = <<>>
  <2>1. <<>> \in Seq(Nat \ {0}) /\ Len(<<>>) = 0
    BY EmptySeq
  <2>2. DOMAIN <<>> = {}
    BY <2>1, LenProperties
  <2>3. <<>> \o <<>> = <<>>
    BY <2>1, ConcatEmptySeq
  <2> QED
    BY <2>1, <2>2, <2>3 DEF ToSet
<1>2. Cardinality({}) = 0 /\ 1 .. 0 = {}
  BY FS_EmptySet
<1>3. Lent = {}
  BY DEF Init, Lent
<1>4. Exclusive /\ NotReused
  <2>1. \A t \in Thread : conn[t] = 0 /\ pc[t] = "idle"
    BY DEF Init
  <2>2. ToSet(objs) = {} /\ Len(objs) = 0 /\ 0 <= PoolSize
    BY <1>1 DEF Init
  <2>3. failed = {}
    BY DEF Init
  <2> QED
    BY <1>2, <1>3, <2>1, <2>2, <2>3 DEF Exclusive, NotReused
<1>5. PoolInv
  BY <1>1, <1>4 DEF Init, PoolInv
<1>6. OnePlace
  BY <1>1, <1>2 DEF Init, OnePlace
<1>7. QueryInv
  BY <1>1, <1>6 DEF Init, QueryInv, Thread, Ids
<1> QED
  BY <1>5, <1>7

-----------------------------------------------------------------------------
(* The pool.                                                               *)

\* What a thread does in the pool, the rest of its way there and back included.
PoolStep(t) ==
  \/ Obtain(t) \/ Take(t) \/ Alloc(t) \/ AllocThrows(t) \/ Query(t) \/ Recycle(t) \/ Put(t)
  \/ /\ pc[t] \in {"idle", "return", "throw"} /\ UNCHANGED <<objs, busy, made, failed>>
     /\ \E place \in {"idle", "get"} : Goes(t, place, 0)

\* The places of a thread.
Place == {"idle", "get", "take", "alloc", "query", "give", "put", "return", "throw"}

\* A step of a thread keeps the pool in order: the flag is given up by who has it, and a
\* connection changes hands with one that nobody else holds.
LEMMA PoolKept ==
  ASSUME PoolSize \in Nat, NoThread \notin Thread, PoolInv, NEW t \in Thread, PoolStep(t)
  PROVE  PoolInv'
<1>1. /\ made \in Nat /\ objs \in Seq(Nat \ {0}) /\ ToSet(objs) \cup failed \subseteq 1 .. made
      /\ pc \in [Thread -> Place] /\ conn \in [Thread -> Nat]
      /\ \A s \in Thread : conn[s] <= made
      /\ \A s \in Thread : pc[s] \in {"query", "give", "put"} => conn[s] # 0
      /\ \A s \in Thread : pc[s] \in {"take", "put"} => busy = s
  BY DEF PoolInv, Place
<1>2. /\ \A r, s \in Thread : conn[r] # 0 /\ conn[r] = conn[s] => r = s
      /\ \A s \in Thread : conn[s] # 0 => conn[s] \notin ToSet(objs) \cup failed
      /\ failed \cap ToSet(objs) = {}
      /\ Cardinality(ToSet(objs)) = Len(objs) /\ Len(objs) <= PoolSize
  BY DEF PoolInv, Exclusive, NotReused, Lent
<1>3. \A s \in Thread \ {t} :
        pc[t] \in {"take", "put"} \/ busy = NoThread => pc[s] \notin {"take", "put"}
  BY <1>1
<1>4. ASSUME NEW place \in Place, NEW c \in Nat, Goes(t, place, c),
             made' \in Nat, made <= made', c <= made', objs' \in Seq(Nat \ {0}),
             ToSet(objs') \cup failed' \subseteq 1 .. made',
             place \in {"query", "give", "put"} => c # 0,
             place \in {"take", "put"} => busy' = t,
             \A s \in Thread \ {t} : pc[s] \in {"take", "put"} => busy' = s,
             c # 0 => c \notin ToSet(objs') \cup failed' /\ \A s \in Thread \ {t} : conn[s] # c,
             \A s \in Thread \ {t} : conn[s] # 0 => conn[s] \notin ToSet(objs') \cup failed',
             failed' \cap ToSet(objs') = {},
             Cardinality(ToSet(objs')) = Len(objs'), Len(objs') <= PoolSize
      PROVE  PoolInv'
  <2>1. /\ pc' \in [Thread -> Place] /\ conn' \in [Thread -> Nat]
        /\ pc'[t] = place /\ conn'[t] = c
        /\ \A s \in Thread \ {t} : pc'[s] = pc[s] /\ conn'[s] = conn[s]
    BY <1>1, <1>4 DEF Goes
  <2>2. \A s \in Thread : pc'[s] \in {"take", "put"} => busy' = s
    BY <1>4, <2>1
  <2>3. \A s \in Thread : conn'[s] <= made'
    <3>1. \A s \in Thread \ {t} : conn'[s] \in Nat /\ conn'[s] <= made
      BY <1>1, <2>1
    <3> QED
      BY <1>1, <1>4, <2>1, <3>1
  <2>4. \A s \in Thread : pc'[s] \in {"query", "give", "put"} => conn'[s] # 0
    BY <1>1, <1>4, <2>1
  <2>5. \A s \in Thread : conn'[s] # 0 => conn'[s] \notin ToSet(objs') \cup failed'
    BY <1>4, <2>1
  <2>6. \A r, s \in Thread : conn'[r] # 0 /\ conn'[r] = conn'[s] => r = s
    BY <1>2, <1>4, <2>1
  <2>7. \A r, s \in Thread : {pc'[r], pc'[s]} \subseteq {"take", "put"} => r = s
    BY <2>2
  <2>8. Exclusive' /\ NotReused'
    BY <1>4, <2>5, <2>6, <2>7 DEF Exclusive, NotReused, Lent
  <2> QED
    BY <1>4, <2>1, <2>2, <2>3, <2>4, <2>8 DEF PoolInv, Place
<1>5. ASSUME NEW place \in Place \ {"query", "give", "put"}, Goes(t, place, 0),
             UNCHANGED <<objs, made, failed>>, place = "take" => busy' = t,
             busy' = busy \/ busy = NoThread \/ pc[t] \in {"take", "put"}
      PROVE  PoolInv'
  BY <1>1, <1>2, <1>3, <1>4, <1>5
<1>6. CASE Obtain(t)
  BY <1>5, <1>6 DEF Obtain, Place
<1>7. CASE Take(t)
  <2>1. /\ Front(objs) \in Seq(Nat \ {0}) /\ Last(objs) \in ToSet(objs)
        /\ ToSet(Front(objs)) = ToSet(objs) \ {Last(objs)} /\ Len(Front(objs)) = Len(objs) - 1
    BY <1>1, <1>2, <1>7, FrontElements DEF Take
  <2>2. IsFiniteSet(ToSet(objs)) /\ Len(objs) \in Nat
    BY <1>1, SeqElements
  <2>3. Cardinality(ToSet(Front(objs))) = Len(objs) - 1
    BY <1>2, <2>1, <2>2, FS_RemoveElement
  <2>4. PICK c \in Nat \ {0} : c = Last(objs)
    BY <1>1, <2>1
  <2>5. c \in ToSet(objs) /\ c \notin failed /\ c <= made /\ \A s \in Thread : conn[s] # c
    BY <1>1, <1>2, <2>1, <2>4
  <2>6. /\ Goes(t, "query", c) /\ objs' = Front(objs) /\ busy' = NoThread /\ pc[t] = "take"
        /\ UNCHANGED <<made, failed>> /\ "query" \in Place
    BY <1>7, <2>4 DEF Take, Place
  <2>7. Len(objs') <= PoolSize
    BY <1>2, <2>1, <2>2, <2>6
  <2>a. made' \in Nat /\ made <= made' /\ c <= made'
    BY <1>1, <2>5, <2>6
  <2>b. objs' \in Seq(Nat \ {0}) /\ ToSet(objs') = ToSet(objs) \ {c}
    BY <2>1, <2>4, <2>6
  <2>c. Cardinality(ToSet(objs')) = Len(objs')
    BY <2>1, <2>3, <2>6
  <2>8. /\ made' \in Nat /\ made <= made' /\ c <= made' /\ objs' \in Seq(Nat \ {0})
        /\ ToSet(objs') = ToSet(objs) \ {c}
        /\ Cardinality(ToSet(objs')) = Len(objs')
    BY <2>a, <2>b, <2>c
  <2>9. /\ ToSet(objs') \cup failed' \subseteq 1 .. made' /\ failed' \cap ToSet(objs') = {}
        /\ c \notin ToSet(objs') \cup failed' /\ \A s \in Thread \ {t} : conn[s] # c
        /\ \A s \in Thread \ {t} : conn[s] # 0 => conn[s] \notin ToSet(objs') \cup failed'
    BY <1>1, <1>2, <2>5, <2>6, <2>8
  <2>10. \A s \in Thread \ {t} : pc[s] \in {"take", "put"} => busy' = s
    BY <1>3, <2>6
  <2> QED
    BY <1>4, <2>6, <2>7, <2>8, <2>9, <2>10
<1>8. CASE Alloc(t)
  <2>1. PICK c \in Nat \ {0} : c = made + 1
    BY <1>1
  <2>2. /\ made' = c /\ Goes(t, "query", c) /\ UNCHANGED <<objs, failed>> /\ "query" \in Place
        /\ busy' = busy \/ pc[t] \in {"take", "put"}
    BY <1>8, <2>1 DEF Alloc, Place
  <2>3. c \notin ToSet(objs) \cup failed /\ made <= c /\ c <= c /\ 1 .. made \subseteq 1 .. c
        /\ \A s \in Thread : conn[s] # c
    BY <1>1, <2>1
  <2> QED
    BY <1>1, <1>2, <1>3, <1>4, <2>2, <2>3
<1>9. CASE AllocThrows(t)
  BY <1>5, <1>9 DEF AllocThrows, Place
<1>10. CASE Query(t)
  <2>1. pc[t] = "query" /\ conn[t] \in Nat \ {0} /\ UNCHANGED <<objs, busy, made>>
    BY <1>1, <1>10 DEF Query
  <2>2. CASE Goes(t, "give", conn[t]) /\ UNCHANGED failed
    BY <1>1, <1>2, <1>4, <2>1, <2>2 DEF Place
  <2>3. CASE Goes(t, "throw", 0) /\ failed' = failed \cup {conn[t]}
    <3>1. conn[t] \in 1 .. made /\ conn[t] \notin ToSet(objs)
      BY <1>1, <1>2, <2>1
    <3>2. \A s \in Thread \ {t} : conn[s] # conn[t]
      BY <1>2, <2>1
    <3> QED
      BY <1>1, <1>2, <1>4, <2>1, <2>3, <3>1, <3>2 DEF Place
  <2> QED
    BY <1>10, <2>2, <2>3 DEF Query
<1>11. CASE Recycle(t)
  <2>1. pc[t] = "give" /\ conn[t] \in Nat \ {0} /\ UNCHANGED <<objs, made, failed>>
    BY <1>1, <1>11 DEF Recycle
  <2>2. CASE busy = NoThread
    <3>1. busy' = t /\ Goes(t, "put", conn[t])
      BY <1>11, <2>2 DEF Recycle
    <3> QED
      BY <1>1, <1>2, <1>3, <1>4, <2>1, <2>2, <3>1 DEF Place
  <2>3. CASE busy # NoThread
    BY <1>5, <1>11, <2>1, <2>3 DEF Recycle, Place
  <2> QED
    BY <2>2, <2>3
<1>12. CASE Put(t)
  <2>1. /\ pc[t] = "put" /\ conn[t] \in Nat \ {0} /\ UNCHANGED <<made, failed>> /\ busy' = NoThread
        /\ Goes(t, "return", 0) /\ "return" \in Place
    BY <1>1, <1>12 DEF Put, Place
  <2>2. CASE Len(objs) >= PoolSize
    BY <1>5, <1>12, <2>1, <2>2 DEF Put, Place
  <2>3. CASE ~(Len(objs) >= PoolSize)
    <3>1. PICK c \in Nat \ {0} : c = conn[t]
      BY <2>1
    <3>2. objs' = Append(objs, c)
      BY <1>12, <2>3, <3>1 DEF Put
    <3>3. /\ objs' \in Seq(Nat \ {0}) /\ ToSet(objs') = ToSet(objs) \cup {c}
          /\ Len(objs') = Len(objs) + 1
      <4>1. /\ Append(objs, c) \in Seq(Nat \ {0})
            /\ ToSet(Append(objs, c)) = ToSet(objs) \cup {c}
            /\ Len(Append(objs, c)) = Len(objs) + 1
        BY <1>1, AppendElements
      <4> QED
        BY <3>2, <4>1
    <3>4. c \notin ToSet(objs) \cup failed /\ c \in 1 .. made /\ \A s \in Thread \ {t} : conn[s] # c
      BY <1>1, <1>2, <3>1
    <3>5. IsFiniteSet(ToSet(objs)) /\ Len(objs) \in Nat
      BY <1>1, SeqElements
    <3>6. Cardinality(ToSet(objs')) = Len(objs')
      <4>1. Cardinality(ToSet(objs) \cup {c}) = Cardinality(ToSet(objs)) + 1
        BY <3>4, <3>5, FS_AddElement
      <4> QED
        BY <1>2, <3>3, <4>1
    <3>7. Len(objs') <= PoolSize
      BY <2>3, <3>3, <3>5
    <3>8. /\ made' \in Nat /\ made <= made' /\ 0 <= made'
          /\ ToSet(objs') \cup failed' \subseteq 1 .. made'
          /\ failed' \cap ToSet(objs') = {}
      BY <1>1, <1>2, <2>1, <3>3, <3>4
    <3>9. \A s \in Thread \ {t} : conn[s] # 0 => conn[s] \notin ToSet(objs') \cup failed'
      BY <1>2, <2>1, <3>3, <3>4
    <3>10. \A s \in Thread \ {t} : pc[s] \in {"take", "put"} => busy' = s
      BY <1>3, <2>1
    <3> HIDE DEF PoolInv
    <3> QED
      BY <1>4, <2>1, <3>3, <3>6, <3>7, <3>8, <3>9, <3>10
  <2> QED
    BY <2>2, <2>3
<1>13. CASE /\ pc[t] \in {"idle", "return", "throw"} /\ UNCHANGED <<objs, busy, made, failed>>
            /\ \E place \in {"idle", "get"} : Goes(t, place, 0)
  BY <1>5, <1>13 DEF Place
<1> QED
  BY <1>6, <1>7, <1>8, <1>9, <1>10, <1>11, <1>12, <1>13 DEF PoolStep

-----------------------------------------------------------------------------
(* Queries.                                                                *)

\* Where the queries are, as a set, and how many places they take.
Queries == ToSet(tasks) \cup ToSet(errors) \cup ({running} \ {0})
Places == Len(tasks) + Len(errors) + (IF running = 0 THEN 0 ELSE 1)

\* One place each, said with them.
Counted ==
  /\ Queries \cup done = 1 .. asked
  /\ Places + Cardinality(done) = asked

\* The elements and the length of the joined sequences of OnePlace.
LEMMA Joined ==
  ASSUME NEW s \in Seq(Ids), NEW e \in Seq(Ids), NEW n \in Nat
  PROVE  /\ ToSet(s \o e \o (IF n = 0 THEN <<>> ELSE <<n>>))
              = ToSet(s) \cup ToSet(e) \cup ({n} \ {0})
         /\ Len(s \o e \o (IF n = 0 THEN <<>> ELSE <<n>>))
              = Len(s) + Len(e) + (IF n = 0 THEN 0 ELSE 1)
<1> DEFINE q == IF n = 0 THEN <<>> ELSE <<n>>
<1>1. /\ q \in Seq(Ids) /\ ToSet(q) = {n} \ {0}
      /\ Len(q) = IF n = 0 THEN 0 ELSE 1
  <2>1. CASE n = 0
    <3>1. <<>> \in Seq(Ids) /\ Len(<<>>) = 0
      BY EmptySeq
    <3>2. ToSet(<<>>) = {}
      BY <3>1, LenProperties DEF ToSet
    <3> QED
      BY <2>1, <3>1, <3>2
  <2>2. CASE n # 0
    <3>1. <<n>> \in Seq(Ids) /\ Len(<<n>>) = 1 /\ <<n>>[1] = n
      BY <2>2 DEF Ids
    <3>2. DOMAIN <<n>> = {1}
      BY <3>1, LenProperties
    <3>3. ToSet(<<n>>) = {n}
      BY <3>1, <3>2 DEF ToSet
    <3> QED
      BY <2>2, <3>1, <3>3
  <2> QED
    BY <2>1, <2>2
<1> HIDE DEF q
<1>2. /\ s \o e \in Seq(Ids)
      /\ ToSet(s \o e) = ToSet(s) \cup ToSet(e)
      /\ Len(s \o e) = Len(s) + Len(e)
  BY ConcatElements
<1>3. /\ ToSet((s \o e) \o q) = ToSet(s \o e) \cup ToSet(q)
      /\ Len((s \o e) \o q) = Len(s \o e) + Len(q)
  <2>1. PICK j \in Seq(Ids) : j = s \o e
    BY <1>2
  <2>2. PICK r \in Seq(Ids) : r = q
    BY <1>1
  <2>3. /\ j \o r \in Seq(Ids) /\ ToSet(j \o r) = ToSet(j) \cup ToSet(r)
        /\ Len(j \o r) = Len(j) + Len(r)
    BY ConcatElements
  <2> QED
    BY <2>1, <2>2, <2>3
<1>4. /\ ToSet(s \o e \o q) = ToSet(s) \cup ToSet(e) \cup ({n} \ {0})
      /\ Len(s \o e \o q) = Len(s) + Len(e) + (IF n = 0 THEN 0 ELSE 1)
  BY <1>1, <1>2, <1>3
<1> QED
  BY <1>4 DEF q

\* OnePlace, said with them.
LEMMA OnePlaceCounted ==
  ASSUME tasks \in Seq(Ids), errors \in Seq(Ids), running \in Nat
  PROVE  OnePlace <=> Counted
BY Joined DEF OnePlace, Counted, Queries, Places

\* A query that runs is not done: there are as many places as there are queries.
LEMMA RunsOnce ==
  ASSUME QueryInv, running # 0
  PROVE  running \notin done /\ IsFiniteSet(done)
<1>1. /\ tasks \in Seq(Ids) /\ errors \in Seq(Ids) /\ running \in Nat /\ asked \in Nat
      /\ Counted
  BY OnePlaceCounted DEF QueryInv
<1>2. IsFiniteSet(1 .. asked) /\ Cardinality(1 .. asked) = asked
  BY <1>1, FS_Interval
<1>3. IsFiniteSet(done) /\ Cardinality(done) \in Nat
  BY <1>1, <1>2, FS_Subset, FS_CardinalityType DEF Counted
<1>4. /\ IsFiniteSet(ToSet(tasks)) /\ Cardinality(ToSet(tasks)) <= Len(tasks) /\ Len(tasks) \in Nat
      /\ IsFiniteSet(ToSet(errors)) /\ Cardinality(ToSet(errors)) <= Len(errors)
      /\ Len(errors) \in Nat
  BY <1>1, SeqElements
<1>5. ASSUME running \in done PROVE FALSE
  <2> DEFINE both == ToSet(tasks) \cup ToSet(errors)
  <2>1. IsFiniteSet(both) /\ Cardinality(both) <= Len(tasks) + Len(errors)
    <3>1. /\ IsFiniteSet(both)
          /\ Cardinality(both) = Cardinality(ToSet(tasks)) + Cardinality(ToSet(errors))
                                   - Cardinality(ToSet(tasks) \cap ToSet(errors))
      BY <1>4, FS_Union
    <3>2. Cardinality(ToSet(tasks) \cap ToSet(errors)) \in Nat
      BY <1>4, FS_Intersection, FS_CardinalityType
    <3>3. Cardinality(ToSet(tasks)) \in Nat /\ Cardinality(ToSet(errors)) \in Nat
      BY <1>4, FS_CardinalityType
    <3> QED
      BY <1>4, <3>1, <3>2, <3>3
  <2>2. both \cup done = 1 .. asked
    BY <1>1, <1>5 DEF Counted, Queries
  <2> HIDE DEF both
  <2>3. Cardinality(both \cup done)
          = Cardinality(both) + Cardinality(done) - Cardinality(both \cap done)
    BY <1>3, <2>1, FS_Union
  <2>4. Cardinality(both \cap done) \in Nat /\ Cardinality(both) \in Nat
    BY <1>3, <2>1, FS_Intersection, FS_CardinalityType
  <2>5. Len(tasks) + Len(errors) + 1 + Cardinality(done) = asked
    BY <1>1 DEF Counted, Places
  <2>6. Cardinality(both \cup done) = asked
    BY <1>2, <2>2
  <2> QED
    BY <1>1, <1>3, <1>4, <2>1, <2>3, <2>4, <2>5, <2>6
<1> QED
  BY <1>3, <1>5

\* A step that moves a query moves it whole; the pool's steps leave the queries alone.
LEMMA QueriesKept ==
  ASSUME Worker \notin User, QueryInv, pc \in [Thread -> Place], Next
  PROVE  QueryInv'
<1>1. /\ tasks \in Seq(Ids) /\ errors \in Seq(Ids) /\ running \in Nat /\ asked \in Nat
      /\ done \subseteq Nat /\ (running = 0 <=> pc[Worker] = "idle")
      /\ Queries \cup done = 1 .. asked /\ Places + Cardinality(done) = asked
  BY OnePlaceCounted DEF QueryInv, Counted
<1>2. Len(tasks) \in Nat /\ Len(errors) \in Nat /\ Worker \in Thread
  BY <1>1, LenProperties DEF Thread
<1>3. IsFiniteSet(done) /\ Cardinality(done) \in Nat
  <2>1. IsFiniteSet(1 .. asked) /\ done \subseteq 1 .. asked
    BY <1>1, FS_Interval
  <2> QED
    BY <2>1, FS_Subset, FS_CardinalityType
<1>4. ASSUME tasks' \in Seq(Ids), errors' \in Seq(Ids), running' \in Nat, asked' \in Nat,
             running' = 0 <=> pc'[Worker] = "idle",
             Queries' \cup done' = 1 .. asked', Places' + Cardinality(done') = asked'
      PROVE  QueryInv'
  <2>1. OnePlace'
    <3>1. PICK s \in Seq(Ids), e \in Seq(Ids), n \in Nat :
                 s = tasks' /\ e = errors' /\ n = running'
      BY <1>4
    <3>2. /\ ToSet(s \o e \o (IF n = 0 THEN <<>> ELSE <<n>>)) = Queries'
          /\ Len(s \o e \o (IF n = 0 THEN <<>> ELSE <<n>>)) = Places'
      BY <3>1, Joined DEF Queries, Places
    <3> QED
      BY <1>4, <3>1, <3>2 DEF OnePlace
  <2>2. done' \subseteq Nat
    <3>1. done' \subseteq 1 .. asked'
      BY <1>4
    <3> QED
      BY <1>4, <3>1
  <2> QED
    BY <1>4, <2>1, <2>2 DEF QueryInv
<1>5. ASSUME UNCHANGED queryVars, pc'[Worker] = "idle" <=> pc[Worker] = "idle"
      PROVE  QueryInv'
  <2>1. UNCHANGED <<tasks, running, errors, done, asked, Queries, Places>>
    BY <1>5 DEF queryVars, Queries, Places
  <2> QED
    BY <1>1, <1>4, <1>5, <2>1
<1>6. CASE \E t \in Thread : \/ Obtain(t) \/ Take(t) \/ Alloc(t) \/ AllocThrows(t)
                             \/ Query(t) \/ Recycle(t) \/ Put(t)
  <2>1. PICK t \in Thread : \/ Obtain(t) \/ Take(t) \/ Alloc(t) \/ AllocThrows(t)
                            \/ Query(t) \/ Recycle(t) \/ Put(t)
    BY <1>6
  <2>2. pc[t] # "idle" /\ UNCHANGED queryVars
    BY <2>1 DEF Obtain, Take, Alloc, AllocThrows, Query, Recycle, Put
  <2>3. PICK place \in Place \ {"idle"} : pc' = [pc EXCEPT ![t] = place]
    BY <2>1 DEF Obtain, Take, Alloc, AllocThrows, Query, Recycle, Put, Goes, Place
  <2> QED
    BY <1>2, <1>5, <2>2, <2>3
<1>7. CASE \E t \in User : SyncQuery(t) \/ Returned(t)
  <2>1. PICK t \in User : SyncQuery(t) \/ Returned(t)
    BY <1>7
  <2>2. t # Worker /\ UNCHANGED queryVars /\ \E place \in Place : pc' = [pc EXCEPT ![t] = place]
    BY <2>1 DEF SyncQuery, Returned, Goes, Place
  <2> QED
    BY <1>2, <1>5, <2>2
<1>8. CASE AsyncQuery
  <2>1. PICK n \in Ids : n = asked + 1
    BY <1>1 DEF Ids
  <2>2. /\ asked' = n /\ tasks' = Append(tasks, n)
        /\ UNCHANGED <<pc, running, errors, done>>
    BY <1>8, <2>1 DEF AsyncQuery, poolVars
  <2>3. /\ Append(tasks, n) \in Seq(Ids) /\ ToSet(Append(tasks, n)) = ToSet(tasks) \cup {n}
        /\ Len(Append(tasks, n)) = Len(tasks) + 1
    BY <1>1, AppendElements
  <2>4. Queries' = Queries \cup {n} /\ Places' = Places + 1
    BY <1>2, <2>2, <2>3 DEF Queries, Places
  <2>5. 1 .. n = (1 .. asked) \cup {n}
    BY <1>1, <2>1
  <2>6. Queries' \cup done' = 1 .. asked'
    BY <1>1, <2>2, <2>4, <2>5
  <2>7. Places' + Cardinality(done') = asked'
    <3>1. Places \in Nat
      BY <1>2 DEF Places
    <3> QED
      <4>1. Cardinality(done') = Cardinality(done)
        BY <2>2
      <4>2. Places + Cardinality(done) = asked /\ asked' = asked + 1 /\ asked \in Nat
        BY <1>1, <2>1, <2>2
      <4> QED
        BY ONLY <1>3, <2>4, <3>1, <4>1, <4>2
  <2> QED
    BY <1>1, <1>4, <2>2, <2>3, <2>6, <2>7 DEF Ids
<1>9. CASE RunTask
  <2>1. /\ tasks # <<>> /\ pc[Worker] = "idle" /\ running = 0
        /\ running' = Head(tasks) /\ tasks' = Tail(tasks)
        /\ pc' = [pc EXCEPT ![Worker] = "get"] /\ UNCHANGED <<errors, done, asked>>
    BY <1>1, <1>9 DEF RunTask, Goes
  <2>2. /\ Tail(tasks) \in Seq(Ids) /\ Head(tasks) \in Ids
        /\ ToSet(tasks) = ToSet(Tail(tasks)) \cup {Head(tasks)} /\ Len(Tail(tasks)) = Len(tasks) - 1
    BY <1>1, <2>1, TailElements
  <2>3. Queries' = Queries /\ Places' = Places
    <3>1. Queries' = Queries
      BY <2>1, <2>2 DEF Queries, Ids
    <3>2. Places' = Places
      BY <1>2, <2>1, <2>2 DEF Places, Ids
    <3> QED
      BY <3>1, <3>2
  <2>4. pc'[Worker] = "get"
    BY <1>2, <2>1
  <2>5. tasks' \in Seq(Ids) /\ running' \in Nat /\ running' # 0
    BY <2>1, <2>2 DEF Ids
  <2> QED
    BY <1>1, <1>4, <2>1, <2>3, <2>4, <2>5
<1>10. CASE TaskDone
  <2>1. /\ pc[Worker] \in {"return", "throw"} /\ running' = 0 /\ UNCHANGED <<tasks, asked>>
        /\ pc' = [pc EXCEPT ![Worker] = "idle"]
    BY <1>10 DEF TaskDone, Goes
  <2>2. running # 0 /\ pc'[Worker] = "idle"
    BY <1>1, <1>2, <2>1
  <2>3. CASE pc[Worker] = "return"
    <3>1. done' = done \cup {running} /\ UNCHANGED errors
      BY <1>10, <2>3 DEF TaskDone
    <3>2. Cardinality(done \cup {running}) = Cardinality(done) + 1
      BY <2>2, RunsOnce, FS_AddElement
    <3>3. Queries' \cup done' = Queries \cup done
      BY <2>1, <2>2, <3>1 DEF Queries
    <3>4. Places' + Cardinality(done') = Places + Cardinality(done)
      BY <1>2, <1>3, <2>1, <2>2, <3>1, <3>2 DEF Places
    <3> QED
      BY <1>1, <1>4, <2>1, <2>2, <3>1, <3>3, <3>4
  <2>4. CASE pc[Worker] = "throw"
    <3>1. errors' = Append(errors, running) /\ UNCHANGED done
      BY <1>10, <2>4 DEF TaskDone
    <3>2. /\ Append(errors, running) \in Seq(Ids)
          /\ ToSet(Append(errors, running)) = ToSet(errors) \cup {running}
          /\ Len(Append(errors, running)) = Len(errors) + 1
      <4>1. running \in Ids
        BY <1>1, <2>2 DEF Ids
      <4> QED
        BY <1>1, <4>1, AppendElements
    <3>3. Queries' = Queries
      BY <2>1, <2>2, <3>1, <3>2 DEF Queries
    <3>4. Places' = Places
      BY <1>2, <2>1, <2>2, <3>1, <3>2 DEF Places
    <3> QED
      BY <1>1, <1>4, <2>1, <2>2, <3>1, <3>2, <3>3, <3>4
  <2> QED
    BY <2>1, <2>3, <2>4
<1>11. CASE FlushError
  <2>1. errors' = <<>> /\ tasks' = tasks \o errors /\ UNCHANGED <<pc, running, done, asked>>
    BY <1>11 DEF FlushError, poolVars
  <2>2. /\ tasks \o errors \in Seq(Ids)
        /\ ToSet(tasks \o errors) = ToSet(tasks) \cup ToSet(errors)
        /\ Len(tasks \o errors) = Len(tasks) + Len(errors)
    BY <1>1, ConcatElements
  <2>3. <<>> \in Seq(Ids) /\ Len(<<>>) = 0 /\ ToSet(<<>>) = {}
    <3>1. <<>> \in Seq(Ids) /\ Len(<<>>) = 0
      BY EmptySeq
    <3> QED
      BY <3>1, LenProperties DEF ToSet
  <2>4. Queries' = Queries
    BY <2>1, <2>2, <2>3 DEF Queries
  <2>5. Places' = Places
    BY <1>2, <2>1, <2>2, <2>3 DEF Places
  <2> QED
    BY <1>1, <1>4, <2>1, <2>2, <2>3, <2>4, <2>5
<1> QED
  BY <1>6, <1>7, <1>8, <1>9, <1>10, <1>11 DEF Next

\* A connection is with one thread or idle, is not used after a failure, and every asynchronous
\* query is in one place: for any threads but the worker, any size of the pool and any bounds.
THEOREM PoolSafe ==
  ASSUME PoolSize \in Nat, NoThread \notin Thread, Worker \notin User
  PROVE  Spec => []SqlPoolRight
<1>1. Init => PoolInv /\ QueryInv
  BY PoolInit
<1>2. PoolInv /\ Next => PoolInv'
  <2> SUFFICES ASSUME PoolInv, Next PROVE PoolInv'
    OBVIOUS
  <2>1. CASE \E t \in Thread : \/ Obtain(t) \/ Take(t) \/ Alloc(t) \/ AllocThrows(t)
                               \/ Query(t) \/ Recycle(t) \/ Put(t)
    BY <2>1, PoolKept DEF PoolStep
  <2>2. CASE \E t \in User : SyncQuery(t) \/ Returned(t)
    BY <2>2, PoolKept DEF PoolStep, SyncQuery, Returned, Thread
  <2>3. CASE RunTask \/ TaskDone
    <3>1. PoolStep(Worker)
      BY <2>3 DEF RunTask, TaskDone, PoolStep
    <3> QED
      BY <3>1, PoolKept DEF Thread
  <2>4. CASE AsyncQuery \/ FlushError
    BY <2>4 DEF AsyncQuery, FlushError, poolVars, PoolInv, Exclusive, NotReused, Lent
  <2> QED
    BY <2>1, <2>2, <2>3, <2>4 DEF Next
<1>3. PoolInv /\ QueryInv /\ Next => QueryInv'
  BY QueriesKept DEF PoolInv, Place
<1>4. PoolInv /\ QueryInv /\ UNCHANGED vars => (PoolInv /\ QueryInv)'
  <2> SUFFICES ASSUME PoolInv, QueryInv, UNCHANGED vars PROVE (PoolInv /\ QueryInv)'
    OBVIOUS
  <2>1. UNCHANGED <<Exclusive, NotReused, OnePlace>>
    BY DEF vars, Exclusive, NotReused, Lent, OnePlace
  <2>2. PoolInv'
    BY <2>1 DEF vars, PoolInv
  <2>3. QueryInv'
    BY <2>1 DEF vars, QueryInv
  <2> QED
    BY <2>2, <2>3
<1>5. PoolInv /\ QueryInv => SqlPoolRight
  BY DEF PoolInv, QueryInv, SqlPoolRight
<1> QED
  BY <1>1, <1>2, <1>3, <1>4, <1>5, PTL DEF Spec
=============================================================================
