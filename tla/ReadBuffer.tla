----------------------------- MODULE ReadBuffer -----------------------------
(***************************************************************************)
(* The buffers that are read into and sent from: one BufferRaw for all the *)
(* sockets of a poller (EventPoller::getSharedBuffer, Socket::onRead), the *)
(* copies that are made before data leaves the callback, into a            *)
(* FixedBuffer (the facades) or a string (UdpServer), and those that       *)
(* Socket::send fills.                                                     *)
(***************************************************************************)
EXTENDS SequencesExt, FiniteSetsExt, Integers

CONSTANTS Facade,  \* sockets of a facade, which copies into a FixedBuffer
          Drifted, \* sockets of a UdpServer whose session is another poller's
          Size,    \* SOCKET_DEFAULT_BUF_SIZE, and the size of a FixedBuffer
          Small,   \* capacity below which setCapacity never allocates again
          Length,  \* bytes that are read or sent at once
          MaxObject, MaxRead, MaxSend  \* bounds: buffers, reads, sends

Sock == Facade \cup Drifted
Object == 1 .. MaxObject
NoObject == 0
Nothing == <<0, 0>>  \* no data, no bytes
Created == [cap |-> 0, data |-> 0, size |-> 0]

VARIABLES
  objs,      \* every BufferRaw: [cap, data, size]; the data is a number
  free,      \* those that do not exist
  shared,    \* _shared_buffer, a weak pointer
  reads,     \* _read_buffer of each socket
  reading,   \* the sockets whose callback runs: one at most
  tasks,     \* what was posted to the other poller: [sock, copy, of]
  sends,     \* buffers on their way out: [id, data, size]
  given,     \* what was read from each socket: data and size
  delivered, \* what its application was called with
  made       \* data so far

vars == <<objs, free, shared, reads, reading, tasks, sends, given, delivered, made>>

Init ==
  /\ objs = [o \in Object |-> Created] /\ free = Object
  /\ shared = NoObject /\ reads = [s \in Sock |-> NoObject] /\ reading = {}
  /\ tasks = <<>> /\ sends = {}
  /\ given = [s \in Sock |-> <<>>] /\ delivered = [s \in Sock |-> <<>>] /\ made = 0

-----------------------------------------------------------------------------
\* setCapacity: what there is is used again if it is large enough, and small or half needed.
SetCapacity(buffer, capacity) ==
  IF capacity <= buffer.cap /\ (buffer.cap < Small \/ 2 * capacity > buffer.cap) THEN buffer
  ELSE [buffer EXCEPT !.cap = capacity, !.data = 0]

Assign(buffer, data, size) == [SetCapacity(buffer, size + 1) EXCEPT !.data = data, !.size = size]

\* A weak pointer is locked while any socket has the buffer.
Alive == shared # NoObject /\ \E s \in Sock : reads[s] = shared

\* attachEvent: the buffer of the poller, or another with a place for the end mark.
Attach(s) ==
  /\ reads[s] = NoObject
  /\ IF Alive THEN reads' = [reads EXCEPT ![s] = shared] /\ UNCHANGED <<objs, free, shared>>
     ELSE \E o \in free :
            /\ objs' = [objs EXCEPT ![o] = SetCapacity(@, 1 + Size)]
            /\ free' = free \ {o} /\ shared' = o /\ reads' = [reads EXCEPT ![s] = o]
  /\ UNCHANGED <<reading, tasks, sends, given, delivered, made>>

Delete(o) == free' = free \cup {o} /\ objs' = [objs EXCEPT ![o] = Created]

\* The socket goes, and the buffer with the last of them.
Detach(s) ==
  /\ reads[s] # NoObject /\ s \notin reading
  /\ reads' = [reads EXCEPT ![s] = NoObject]
  /\ IF \E t \in Sock \ {s} : reads[t] = reads[s] THEN UNCHANGED <<objs, free>>
     ELSE Delete(reads[s])
  /\ UNCHANGED <<shared, reading, tasks, sends, given, delivered, made>>

\* recvfrom takes what fits before the end mark, and the callback begins.
Read(s, n) ==
  /\ reads[s] # NoObject /\ reading = {} /\ made < MaxRead + MaxSend
  /\ Len(given[s]) < MaxRead
  /\ n <= objs[reads[s]].cap - 1
  /\ objs' = [objs EXCEPT ![reads[s]].data = made + 1, ![reads[s]].size = n]
  /\ given' = [given EXCEPT ![s] = Append(@, <<made + 1, n>>)] /\ made' = made + 1
  /\ reading' = {s}
  /\ UNCHANGED <<free, shared, reads, tasks, sends, delivered>>

\* FixedBuffer::append: what does not fit with a byte to spare is left out as a whole.
Appended(buffer) == IF Size > buffer.size THEN <<buffer.data, buffer.size>> ELSE Nothing

\* The callback of a facade; a receiver thread gets a copy of the copy.
OnRecv(s) ==
  /\ s \in reading \cap Facade
  /\ delivered' = [delivered EXCEPT ![s] = Append(@, Appended(objs[reads[s]]))]
  /\ reading' = {}
  /\ UNCHANGED <<objs, free, shared, reads, tasks, sends, given, made>>

\* UdpServer: the session runs on another poller and gets a copy.
OnDrift(s) ==
  LET buffer == objs[reads[s]] IN
  /\ s \in reading \cap Drifted
  /\ tasks' = Append(tasks, [sock |-> s, copy |-> <<buffer.data, buffer.size>>, of |-> reads[s]])
  /\ reading' = {}
  /\ UNCHANGED <<objs, free, shared, reads, sends, given, delivered, made>>

\* Mutant: the task keeps the buffer itself.
CacheableShared(task) == <<objs[task.of].data, objs[task.of].size>>
Cacheable(task) == task.copy

RunTask ==
  /\ tasks # <<>> /\ tasks' = Tail(tasks)
  /\ delivered' = [delivered EXCEPT ![Head(tasks).sock] = Append(@, Cacheable(Head(tasks)))]
  /\ UNCHANGED <<objs, free, shared, reads, reading, sends, given, made>>

-----------------------------------------------------------------------------
\* Socket::send of raw bytes, by any thread, and the end of the packet.
Send(n) ==
  /\ made < MaxRead + MaxSend
  /\ \E o \in free :
       /\ objs' = [objs EXCEPT ![o] = Assign(@, made + 1, n)]
       /\ free' = free \ {o} /\ sends' = sends \cup {[id |-> o, data |-> made + 1, size |-> n]}
  /\ made' = made + 1
  /\ UNCHANGED <<shared, reads, reading, tasks, given, delivered>>

Sent(p) ==
  /\ p \in sends /\ sends' = sends \ {p} /\ Delete(p.id)
  /\ UNCHANGED <<shared, reads, reading, tasks, given, delivered, made>>

Next ==
  \/ \E s \in Sock :
       \/ Attach(s) \/ Detach(s) \/ OnRecv(s) \/ OnDrift(s)
       \/ \E n \in Length : Read(s, n)
  \/ \E n \in Length : Send(n)
  \/ \E p \in sends : Sent(p)
  \/ RunTask

Spec == Init /\ [][Next]_vars

-----------------------------------------------------------------------------
\* An application gets what was read from its socket, in order, whatever was read into the
\* same buffer since; a read that filled the whole buffer is lost to a facade, and nothing else.
Delivered ==
  /\ \A s \in Facade :
       /\ Len(delivered[s]) = Len(given[s]) - Cardinality(reading \cap {s})
       /\ \A i \in DOMAIN delivered[s] :
            delivered[s][i] = IF given[s][i][2] < Size THEN given[s][i] ELSE Nothing
  /\ \A s \in Drifted : IsPrefix(delivered[s], given[s])

\* What is on its way out is as it was given, in a buffer of its own.
Untouched ==
  \A p \in sends :
    /\ objs[p.id].data = p.data /\ objs[p.id].size = p.size
    /\ \A s \in Sock : reads[s] # p.id
    /\ \A q \in sends \ {p} : q.id # p.id

\* A buffer that is used has room for its bytes and the end mark, and the sockets of a poller
\* have one and the same.
Fits ==
  /\ \A s \in Sock : reads[s] # NoObject => reads[s] = shared /\ objs[shared].cap > Size
  /\ \A p \in sends : objs[p.id].cap > p.size

ReadBufferRight == Delivered /\ Untouched /\ Fits
=============================================================================
