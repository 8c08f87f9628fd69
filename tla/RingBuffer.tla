----------------------------- MODULE RingBuffer -----------------------------
(***************************************************************************)
(* src/Util/RingBuffer.h: a stream of items that readers follow from the   *)
(* threads of their pollers.  The ring keeps the last groups (a key item   *)
(* and what depends on it) in a storage of its own; each poller with a     *)
(* reader has a dispatcher, which starts with a copy of the storage and is *)
(* brought up to date by a task for every item.  A reader gets the storage *)
(* of its dispatcher first and each item afterwards.                       *)
(*                                                                         *)
(* Items are numbered.  The size callback, which two pollers may call in   *)
(* either order, the delegate and getInfoList are left out.                *)
(***************************************************************************)
EXTENDS SequencesExt, FiniteSets, Integers

CONSTANTS Poller,
          MaxItem,     \* bound: items written
          MaxReader,   \* bound: readers attached
          UseCache,    \* values of use_cache
          MaxTask,     \* bound: tasks waiting when another is posted from outside
          MaxClear,    \* bound: calls of clearCache
          MaxSize,     \* _max_size (at least 32 in the code)
          MaxGop       \* _max_gop_size

VARIABLES
  key,        \* is_key of each item written
  main,       \* _storage of the ring
  disp,       \* the dispatchers made so far: their _storage and their _reader_map
  map,        \* _dispatcher_map: the dispatcher of each poller, 0 if it has none
  total,      \* _total_count
  tasks,      \* what async() has put on the list of each poller
  reader,     \* the readers made so far
  alive,      \* the ring itself
  clears

vars == <<key, main, disp, map, total, tasks, reader, alive, clears>>

EmptyStorage == [cache |-> <<<<>>>>, size |-> 0, idr |-> FALSE, started |-> FALSE]

Init ==
  /\ key = <<>> /\ main = EmptyStorage /\ disp = <<>>
  /\ map = [p \in Poller |-> 0] /\ total = 0
  /\ tasks = [p \in Poller |-> <<>>]
  /\ reader = <<>> /\ alive = TRUE /\ clears = 0

-----------------------------------------------------------------------------
(* _RingStorage                                                            *)

ClearCache(st) == [st EXCEPT !.size = 0, !.idr = FALSE, !.cache = <<<<>>>>]

PopFrontGop(st) ==
  [st EXCEPT !.size = @ - Len(st.cache[1]),
             !.cache = IF Len(@) = 1 THEN <<<<>>>> ELSE Tail(@)]

\* A key item opens a group, and the oldest leaves if that is one too many.
Opened(st) ==
  LET more == IF Last(st.cache) = <<>> THEN st.cache ELSE Append(st.cache, <<>>)
      new == [st EXCEPT !.idr = TRUE, !.started = TRUE, !.cache = more] IN
  IF Len(more) > MaxGop THEN PopFrontGop(new) ELSE new

\* Too many items: all groups but the last leave, one after the other, then that one too.
Shrunk(st) ==
  LET last == [st EXCEPT !.size = @ - Len(FlattenSeq(Front(st.cache))),
                         !.cache = <<Last(@)>>] IN
  IF st.size <= MaxSize THEN st
  ELSE IF last.size <= MaxSize THEN last ELSE ClearCache(last)

Stored(st, n, is_key) ==
  LET open == IF is_key THEN Opened(st) ELSE st IN
  IF ~open.idr /\ open.started THEN open
  ELSE Shrunk([open EXCEPT !.cache[Len(open.cache)] = Append(@, n), !.size = @ + 1])

-----------------------------------------------------------------------------
(* The tasks of a poller                                                   *)

Task(kind, id, n) == [kind |-> kind, id |-> id, n |-> n]
Room == \A p \in Poller : Len(tasks[p]) < MaxTask

ToAll(kind, n) ==
  [p \in Poller |-> IF map[p] = 0 THEN tasks[p] ELSE Append(tasks[p], Task(kind, map[p], n))]

\* RingBuffer::write, by any thread, with _mtx_map held throughout.
Write(is_key) ==
  LET n == Len(key) + 1 IN
  /\ alive /\ n <= MaxItem /\ Room
  /\ key' = Append(key, is_key)
  /\ tasks' = ToAll("write", n)
  /\ main' = Stored(main, n, is_key)
  /\ UNCHANGED <<disp, map, total, reader, alive, clears>>

\* RingBuffer::clearCache.
Clear ==
  /\ alive /\ clears < MaxClear /\ clears' = clears + 1 /\ Room
  /\ main' = ClearCache(main)
  /\ tasks' = ToAll("clear", 0)
  /\ UNCHANGED <<key, disp, map, total, reader, alive>>

\* attach(), on the poller's thread: the first reader of a poller makes its dispatcher.
Attach(p, use_cache) ==
  LET r == Len(reader) + 1
      d == IF map[p] = 0 THEN Len(disp) + 1 ELSE map[p] IN
  /\ alive /\ r <= MaxReader
  /\ disp' = IF map[p] = 0 THEN Append(disp, [st |-> main, readers |-> {r}])
             ELSE [disp EXCEPT ![d].readers = @ \cup {r}]
  /\ map' = [map EXCEPT ![p] = d]
  /\ reader' = Append(reader, [poller |-> p, disp |-> d, cache |-> use_cache, state |-> "held",
                               reads |-> FALSE, got |-> <<>>, detached |-> 0])
  /\ total' = total + 1
  /\ UNCHANGED <<key, main, tasks, alive, clears>>

\* setReadCB, on the poller's thread: flushGop gives the reader what is stored.
SetReadCB(r) ==
  /\ reader[r].state = "held" /\ ~reader[r].reads
  /\ reader' = [reader EXCEPT ![r].reads = TRUE,
                  ![r].got = IF reader[r].cache THEN FlattenSeq(disp[reader[r].disp].st.cache)
                             ELSE <<>>]
  /\ UNCHANGED <<key, main, disp, map, total, tasks, alive, clears>>

\* The dispatcher and the count after its readers `rs` left; onSizeChanged drops the
\* dispatcher that has no reader.
Leave(p, d, rs) ==
  LET left == disp[d].readers \ rs IN
  /\ disp' = [disp EXCEPT ![d].readers = left]
  /\ total' = IF alive THEN total - Cardinality(rs) ELSE total
  /\ map' = IF alive /\ rs # {} /\ left = {} THEN [map EXCEPT ![p] = 0] ELSE map

\* Mutant: the reader is counted off although write() has already removed it.
DeallocAgain(p, r) ==
  /\ reader' = [reader EXCEPT ![r].state = "deleted"]
  /\ Leave(p, reader[r].disp, {r})

\* What on_dealloc posts: the reader leaves unless the dispatcher is gone or write() has
\* already removed it.
Dealloc(p, r) ==
  LET d == reader[r].disp IN
  /\ reader' = [reader EXCEPT ![r].state = "deleted"]
  /\ Leave(p, d, {r} \cap disp[d].readers)

\* The last pointer to a reader goes on its poller's thread, or on another.
DropHere(r) ==
  /\ reader[r].state = "held"
  /\ Dealloc(reader[r].poller, r)
  /\ UNCHANGED <<key, main, tasks, alive, clears>>

Drop(r) ==
  /\ reader[r].state = "held" /\ Room
  /\ reader' = [reader EXCEPT ![r].state = "released"]
  /\ tasks' = [tasks EXCEPT ![reader[r].poller] = Append(@, Task("dealloc", reader[r].disp, r))]
  /\ UNCHANGED <<key, main, disp, map, total, alive, clears>>

Held(d) == {r \in disp[d].readers : reader[r].state = "held"}

\* ~_RingReaderDispatcher, when the ring is gone and no task holds the dispatcher any more.
\* A task of a reader that was released holds it only weakly.
Refs(q, d) == \E i \in 1 .. Len(q) : q[i].id = d /\ q[i].kind # "dealloc"
Detached(d) ==
  [r \in 1 .. Len(reader) |-> IF r \in Held(d) THEN [reader[r] EXCEPT !.detached = @ + 1] ELSE reader[r]]

\* _RingReaderDispatcher::write: the readers first, then the storage; those that were
\* released are removed.
RunWrite(p, d, n) ==
  /\ disp' = [disp EXCEPT ![d] = [st |-> Stored(@.st, n, key[n]), readers |-> Held(d)]]
  /\ LET rs == disp[d].readers \ Held(d)
         fed == [r \in 1 .. Len(reader) |->
                   IF r \in Held(d) /\ reader[r].reads
                   THEN [reader[r] EXCEPT !.got = Append(@, n)] ELSE reader[r]] IN
     /\ total' = IF alive THEN total - Cardinality(rs) ELSE total
     /\ map' = IF alive /\ rs # {} /\ Held(d) = {} THEN [map EXCEPT ![p] = 0] ELSE map
     /\ reader' = IF ~alive /\ ~Refs(Tail(tasks[p]), d)
                  THEN [r \in 1 .. Len(reader) |->
                          IF r \in Held(d) THEN [fed[r] EXCEPT !.detached = @ + 1] ELSE fed[r]]
                  ELSE fed

\* clearCache of a dispatcher: not while it has readers.
RunClear(p, d) ==
  /\ disp' = IF disp[d].readers = {} THEN [disp EXCEPT ![d].st = ClearCache(@)] ELSE disp
  /\ reader' = IF ~alive /\ ~Refs(Tail(tasks[p]), d) THEN Detached(d) ELSE reader
  /\ UNCHANGED <<map, total>>

RunTask(p) ==
  /\ tasks[p] # <<>>
  /\ tasks' = [tasks EXCEPT ![p] = Tail(@)]
  /\ LET t == Head(tasks[p]) IN
     \/ t.kind = "write" /\ RunWrite(p, t.id, t.n)
     \/ t.kind = "clear" /\ RunClear(p, t.id)
     \/ t.kind = "dealloc" /\ Dealloc(p, t.n)
     \/ t.kind = "delete" /\ reader' = Detached(t.id) /\ UNCHANGED <<disp, map, total>>
  /\ UNCHANGED <<key, main, alive, clears>>

\* The ring is released: a dispatcher that no task holds is deleted by a task.
Destroy ==
  /\ alive /\ alive' = FALSE
  /\ map' = [p \in Poller |-> 0]
  /\ tasks' = [p \in Poller |-> IF map[p] = 0 \/ Refs(tasks[p], map[p]) THEN tasks[p]
                                ELSE Append(tasks[p], Task("delete", map[p], 0))]
  /\ UNCHANGED <<key, main, disp, total, reader, clears>>

Next ==
  \/ \E k \in BOOLEAN : Write(k)
  \/ Clear \/ Destroy
  \/ \E p \in Poller : RunTask(p) \/ \E c \in UseCache : Attach(p, c)
  \/ \E r \in 1 .. Len(reader) : SetReadCB(r) \/ DropHere(r) \/ Drop(r)

Spec == Init /\ [][Next]_vars

-----------------------------------------------------------------------------
Storages == {main} \cup {disp[d].st : d \in 1 .. Len(disp)}

\* What is stored is counted right and within the limit, a key item is the first of its group,
\* and nothing is missing inside.
StorageRight ==
  \A st \in Storages :
    LET flat == FlattenSeq(st.cache) IN
    /\ st.size = Len(flat) /\ st.size <= MaxSize
    /\ \A i \in 1 .. Len(flat) - 1 : flat[i + 1] = flat[i] + 1
    /\ \A i \in 1 .. Len(st.cache) : \A j \in 1 .. Len(st.cache[i]) :
         key[st.cache[i][j]] => j = 1

\* A reader is given the items one after the other, from the storage and afterwards, whichever
\* thread writes while it attaches; none twice, none left out.
NoGap ==
  \A r \in 1 .. Len(reader) :
    \A i \in 1 .. Len(reader[r].got) - 1 : reader[r].got[i + 1] = reader[r].got[i] + 1

\* A reader that was given an item has all of them once its poller has run its tasks.
UpToDate ==
  \A r \in 1 .. Len(reader) : \A p \in Poller :
    LET x == reader[r] IN
    x.state = "held" /\ x.got # <<>> /\ x.poller = p /\ tasks[p] = <<>> /\ alive
      => Last(x.got) = Len(key)

\* readerCount() counts each reader once, however it left; a poller without readers has no
\* dispatcher.
CountRight ==
  alive =>
    /\ total = Cardinality(UNION {disp[d].readers : d \in 1 .. Len(disp)})
    /\ \A p \in Poller : tasks[p] = <<>> =>
         (map[p] # 0 <=> \E r \in 1 .. Len(reader) : reader[r].state = "held" /\ reader[r].poller = p)

\* When the ring is gone each reader still held is told so, once.
DetachedOnce ==
  \A r \in 1 .. Len(reader) :
    /\ reader[r].detached <= 1
    /\ ~alive /\ tasks[reader[r].poller] = <<>> /\ reader[r].state = "held" => reader[r].detached = 1

RingBufferRight == StorageRight /\ NoGap /\ UpToDate /\ CountRight /\ DetachedOnce
=============================================================================
