------------------------------ MODULE Packets ------------------------------
(***************************************************************************)
(* src/Network/BufferSock.cpp: the packets that Socket hands to the kernel *)
(* in one go.  BufferList::create picks the class: BufferSendMsg (sendmsg  *)
(* on a stream), BufferSendMMsg (sendmmsg, datagrams) or BufferSendTo (one *)
(* call for each packet).  The kernel takes what it likes, so an offset is *)
(* kept in bytes (SendMsg, SendTo) and in entries (all three).             *)
(***************************************************************************)
EXTENDS SequencesExt, Integers

CONSTANTS MaxPacket,   \* bound: packets of a list
          MaxLen,      \* bound: bytes of a packet; Socket::send_l refuses empty ones
          IOV_MAX      \* entries that one sendmsg takes

VARIABLES
  class,     \* the class that create() made
  udp,       \* is_udp
  len,       \* size of each packet
  first,     \* first packet of _pkt_list
  iov,       \* of each entry, the bytes left (iov_len)
  iovOff,    \* _iovec_off; the entries erased from _hdrvec
  remain,    \* _remain_size
  offset,    \* BufferSendTo::_offset
  pc,        \* send() is running, or not, or the list was destroyed
  sent,      \* send()'s local: sent of SendTo, remain_size of the others
  returned,  \* sum of what send() returned, -1 counted as nothing
  wire,      \* what the kernel took: a packet and a byte of it
  told       \* calls of _cb: a packet and the flag

vars == <<class, udp, len, first, iov, iovOff, remain, offset, pc, sent, returned, wire,
          told>>

Packet == 1 .. Len(len)
Total == FoldSeq(+, 0, len)

\* Socket has not made the list yet.
Init ==
  /\ pc = "new" /\ udp = FALSE /\ class = "SendTo" /\ len = <<>>
  /\ first = 1 /\ iov = <<>> /\ iovOff = 0 /\ remain = 0 /\ offset = 0
  /\ sent = 0 /\ returned = 0 /\ wire = <<>> /\ told = <<>>

\* BufferList::create on Windows, Linux and elsewhere, and the constructors.
Create ==
  /\ pc = "new" /\ pc' = "idle"
  /\ udp' \in BOOLEAN
  /\ class' \in {"SendTo", IF udp' THEN "SendMMsg" ELSE "SendMsg"}
  /\ len' \in UNION {[1 .. k -> 1 .. MaxLen] : k \in 1 .. MaxPacket}
  /\ iov' = len' /\ remain' = FoldSeq(+, 0, len')
  /\ UNCHANGED <<first, iovOff, offset, sent, returned, wire, told>>

-----------------------------------------------------------------------------
\* The calls of sendFrontSuccess or sendCompleted for packets a .. b.
Tell(a, b, flag) == told \o [i \in 1 .. b - a + 1 |-> <<a + i - 1, flag>>]

\* The bytes of all packets one after the other.
AllBytes == FlattenSeq([p \in Packet |-> [b \in 1 .. len[p] |-> <<p, b>>]])

\* n bytes from byte `from` of packet `p` on, over as many packets as it takes.
Bytes(p, from, n) ==
  LET at == FoldSeq(+, from, SubSeq(len, 1, p - 1)) IN SubSeq(AllBytes, at, at + n - 1)

\* Where reOffset stops: entry i is the one that holds byte n of those left.
Before(i) == FoldSeq(+, 0, SubSeq(iov, iovOff + 1, i - 1))

Holds(i, n) == Before(i) + iov[i] >= n /\ Before(i) < n

\* Mutant: an entry that ends where the kernel stopped stays the next one (no ++_iovec_off).
FinishedLess(i, rest) == i - 1

\* The last entry that is done when `rest` bytes of entry i are left.
Finished(i, rest) == IF rest = 0 THEN i ELSE i - 1

\* BufferSendMsg::reOffset: whole packets are told and skipped, the one the kernel stopped
\* in keeps the rest.
ReOffset(n) ==
  LET i == CHOOSE e \in iovOff + 1 .. Len(iov) : Holds(e, n)
      rest == Before(i) + iov[i] - n
      done == Finished(i, rest) IN
  /\ remain' = remain - n
  /\ iovOff' = done
  /\ iov' = IF rest = 0 THEN iov ELSE [iov EXCEPT ![i] = rest]
  /\ told' = Tell(first, done, TRUE) /\ first' = done + 1

\* send() of a list that is not empty().
Send ==
  /\ pc = "idle" /\ first <= Len(len)
  /\ pc' = "send" /\ sent' = IF class = "SendTo" THEN 0 ELSE remain
  /\ UNCHANGED <<class, udp, len, first, iov, iovOff, remain, offset, returned, wire, told>>

\* sendmsg takes n bytes of at most IOV_MAX entries.
SendMsg ==
  /\ pc = "send" /\ class = "SendMsg" /\ remain > 0
  /\ LET last == IF Len(iov) - iovOff > IOV_MAX THEN iovOff + IOV_MAX ELSE Len(iov)
         at == iovOff + 1 IN
     \E n \in 1 .. FoldSeq(+, 0, SubSeq(iov, at, last)) :
       /\ wire' = wire \o Bytes(at, len[at] - iov[at] + 1, n)
       /\ IF n >= remain
          THEN /\ remain' = 0
               /\ told' = Tell(first, Len(len), TRUE) /\ first' = Len(len) + 1
               /\ UNCHANGED <<iov, iovOff>>
          ELSE ReOffset(n)
  /\ UNCHANGED <<class, udp, len, offset, pc, sent, returned>>

\* sendmmsg takes the first k datagrams, each as a whole; reOffset erases them.
SendMMsg ==
  /\ pc = "send" /\ class = "SendMMsg" /\ remain > 0
  /\ \E k \in 1 .. Len(iov) - iovOff :
       LET n == FoldSeq(+, 0, SubSeq(iov, iovOff + 1, iovOff + k)) IN
       /\ wire' = wire \o Bytes(first, 1, n)
       /\ remain' = remain - n
       /\ iovOff' = iovOff + k
       /\ told' = Tell(first, first + k - 1, TRUE) /\ first' = first + k
  /\ UNCHANGED <<class, udp, len, iov, offset, pc, sent, returned>>

\* sendto takes the whole datagram, send a part of the packet.
SendTo ==
  /\ pc = "send" /\ class = "SendTo" /\ first <= Len(len)
  /\ \E n \in 1 .. len[first] - offset :
       /\ udp => n = len[first]
       /\ wire' = wire \o Bytes(first, offset + 1, n)
       /\ sent' = sent + n
       /\ IF offset + n = len[first]
          THEN offset' = 0 /\ told' = Tell(first, first, TRUE) /\ first' = first + 1
          ELSE offset' = offset + n /\ UNCHANGED <<told, first>>
  /\ UNCHANGED <<class, udp, len, iov, iovOff, remain, pc, returned>>

\* The kernel takes no more, or all is sent: send() returns what it handed over, -1 for
\* nothing.
Return ==
  /\ pc = "send" /\ pc' = "idle"
  /\ returned' = returned + (IF class = "SendTo" THEN sent ELSE sent - remain)
  /\ UNCHANGED <<class, udp, len, first, iov, iovOff, remain, offset, sent, wire, told>>

\* The socket is closed: what is left is told as not sent.
Destroy ==
  /\ pc = "idle" /\ pc' = "gone"
  /\ told' = Tell(first, Len(len), FALSE) /\ first' = Len(len) + 1
  /\ UNCHANGED <<class, udp, len, iov, iovOff, remain, offset, sent, returned, wire>>

Next == Create \/ Send \/ SendMsg \/ SendMMsg \/ SendTo \/ Return \/ Destroy

Spec == Init /\ [][Next]_vars

-----------------------------------------------------------------------------
\* The bytes of packet p that are on the wire, and whether that is all of them.
OnWire(p) == SelectSeq(wire, LAMBDA b : b[1] = p)
Whole(p) == Len(OnWire(p)) = len[p]

\* The kernel gets the bytes of the list in order, none left out at the seam of two calls
\* and none twice, wherever it stops.
NoGap == wire = Bytes(1, 1, Len(wire))

\* send() counts every byte it handed over, also when it stopped in the middle of a packet.
Counted == pc # "send" => returned = Len(wire)

\* Each packet is told once and in order, as sent exactly when its last byte is; the list is
\* empty() when all of them are.
ToldOnce ==
  /\ \A i \in 1 .. Len(told) : told[i][1] = i /\ (told[i][2] <=> Whole(i))
  /\ \A p \in Packet : Whole(p) => p <= Len(told)
  /\ pc = "gone" => Len(told) = Len(len)
  /\ class # "SendTo" /\ pc # "gone" => (remain = 0 <=> first > Len(len)) /\ remain = Total - Len(wire)

PacketsRight == NoGap /\ Counted /\ ToldOnce
=============================================================================
