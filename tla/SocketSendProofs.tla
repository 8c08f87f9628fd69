-------------------------- MODULE SocketSendProofs --------------------------
(***************************************************************************)
(* Theorems about SocketSend, for any number of buffers, any capacity of   *)
(* the socket and, where it says so, any number of threads.                *)
(*                                                                         *)
(* The poller thread alone: SingleInv says where every accepted buffer is, *)
(* by its number (Placed), and gives OrderKept and ErrorOnce; StallInv     *)
(* adds who will come back to the socket and gives NoStall. Any threads:   *)
(* KeptInv says that the lists share no buffer and lose none, and gives    *)
(* Conservation.                                                           *)
(***************************************************************************)
EXTENDS SocketSend, SequenceTheorems, FiniteSetTheorems, TLAPS

-----------------------------------------------------------------------------
(* Types. *)

\* The poller thread is one of the threads that send; "no owner" of a mutex is not.
LEMMA PollerIsThread == Poller \in Thread /\ None \notin Thread
BY ConstantsAssumption DEF Thread

\* The socket begins with empty levels and idle threads.
LEMMA TypeInit == Init => TypeOK
<1> SUFFICES ASSUME Init PROVE TypeOK
  OBVIOUS
<1> USE ConstantsAssumption DEF Init
<1>1. waiting \in Seq(Buffer) /\ sending \in Seq(Buffer) /\ wire \in Seq(Buffer)
  OBVIOUS
<1>2. tmp \in [Thread -> Seq(Buffer)] /\ pc \in [Thread -> Place]
  BY DEF Place
<1>3. kernel \in 0 .. KCap /\ next \in 1 .. MaxBuf + 1 /\ asked \in 0 .. MaxBuf
  OBVIOUS
<1> QED
  BY <1>1, <1>2, <1>3 DEF TypeOK

\* What sendmsg takes of a local list and what it leaves.
Fits(th) == IF Len(tmp[th]) < KCap - kernel THEN Len(tmp[th]) ELSE KCap - kernel

\* flushData writes what fits and keeps the rest in the local list.
LEMMA WriteParts ==
  ASSUME TypeOK, NEW th \in Thread, Write(th)
  PROVE  /\ Fits(th) \in 0 .. Len(tmp[th]) /\ kernel + Fits(th) <= KCap
         /\ Fits(th) < Len(tmp[th]) => kernel + Fits(th) = KCap
         /\ wire' = wire \o SubSeq(tmp[th], 1, Fits(th))
         /\ kernel' = kernel + Fits(th)
         /\ tmp' = [tmp EXCEPT ![th] = SubSeq(tmp[th], Fits(th) + 1, Len(tmp[th]))]
<1>1. kernel \in 0 .. KCap /\ KCap \in Nat /\ Len(tmp[th]) \in Nat
  BY ConstantsAssumption DEF TypeOK
<1> QED
  BY <1>1 DEF Write, Fits

\* Both parts of a list cut by a write are lists of buffers.
LEMMA SubSeqType ==
  ASSUME NEW s \in Seq(Buffer), NEW n \in 0 .. Len(s)
  PROVE  SubSeq(s, 1, n) \in Seq(Buffer) /\ SubSeq(s, n + 1, Len(s)) \in Seq(Buffer)
BY SubSeqProperties

\* One case per statement of send(), flushAll(), flushData(), onWriteAble() and emitErr().
LEMMA TypeStep == TypeOK /\ [Next]_vars => TypeOK'
<1> SUFFICES ASSUME TypeOK, [Next]_vars PROVE TypeOK'
  OBVIOUS
<1> USE ConstantsAssumption, PollerIsThread
    DEF TypeOK, GoTo, Return, Place, bufVars, sockVars, pollVars, lockVars, restVars, ghostVars
<1>1. ASSUME NEW th \in Thread, NEW try_flush \in TryFlush, Send(th, try_flush) PROVE TypeOK'
  <2>1. waiting' \in Seq(Buffer)
    BY <1>1 DEF Send, Buffer
  <2> QED
    BY <1>1, <2>1 DEF Send
<1>2. ASSUME NEW th \in Thread, SendTimeout(th) PROVE TypeOK'
  BY <1>2 DEF SendTimeout
<1>3. ASSUME NEW th \in Thread, FlushAll(th) PROVE TypeOK'
  BY <1>3 DEF FlushAll
<1>4. ASSUME NEW th \in Thread, SwapSending(th) PROVE TypeOK'
  BY <1>4 DEF SwapSending
<1>5. ASSUME NEW th \in Thread, LockWaiting(th) PROVE TypeOK'
  BY <1>5 DEF LockWaiting
<1>6. ASSUME NEW th \in Thread, TakeWaiting(th) PROVE TypeOK'
  BY <1>6 DEF TakeWaiting
<1>7. ASSUME NEW th \in Thread, Write(th) PROVE TypeOK'
  <2> DEFINE n == Fits(th)
  <2>1. tmp[th] \in Seq(Buffer) /\ n \in 0 .. Len(tmp[th])
    BY <1>7, WriteParts
  <2>2. SubSeq(tmp[th], 1, n) \in Seq(Buffer) /\ SubSeq(tmp[th], n + 1, Len(tmp[th])) \in Seq(Buffer)
    BY <2>1, SubSeqType
  <2>3. kernel' \in 0 .. KCap
    BY <1>7, WriteParts
  <2>4. wire' \in Seq(Buffer)
    <3> HIDE DEF n
    <3>1. wire' = wire \o SubSeq(tmp[th], 1, n)
      BY <1>7, WriteParts DEF n
    <3> QED
      BY <2>2, <3>1, ConcatProperties
  <2>5. tmp' \in [Thread -> Seq(Buffer)]
    BY <1>7, <2>2, WriteParts, ZenonT(60)
  <2> QED
    BY <1>7, <2>3, <2>4, <2>5, ZenonT(60) DEF Write
<1>8. ASSUME NEW th \in Thread, WriteFails(th) PROVE TypeOK'
  BY <1>8 DEF WriteFails
<1>9. ASSUME NEW th \in Thread, ClearSendable(th) PROVE TypeOK'
  BY <1>9 DEF ClearSendable
<1>10. ASSUME NEW th \in Thread, ListenWritable(th) PROVE TypeOK'
  BY <1>10 DEF ListenWritable, ModifyEvent
<1>11. ASSUME NEW th \in Thread, Rollback(th) PROVE TypeOK'
  <2>1. sending' \in Seq(Buffer) /\ tmp' \in [Thread -> Seq(Buffer)]
    BY <1>11, ConcatProperties DEF Rollback
  <2> QED
    BY <1>11, <2>1 DEF Rollback
<1>12. ASSUME NEW th \in Thread, CheckOpen(th) PROVE TypeOK'
  <2>1. pc' \in [Thread -> Place] /\ mtx_sock' \in Thread \cup {None}
    BY <1>12 DEF CheckOpen
  <2>2. tmp' \in [Thread -> Seq(Buffer)]
    <3>1. <<>> \in Seq(Buffer)
      BY EmptySeq
    <3>2. tmp' = tmp \/ tmp' = [tmp EXCEPT ![th] = <<>>]
      BY <1>12 DEF CheckOpen
    <3> QED
      BY <3>1, <3>2
  <2> QED
    BY <1>12, <2>1, <2>2 DEF CheckOpen
<1>13. ASSUME NEW th \in Thread, CloseSock(th) PROVE TypeOK'
  <2>1. pc' \in [Thread -> Place] /\ mtx_sock' \in Thread \cup {None}
    BY <1>13 DEF CloseSock
  <2>2. tmp' \in [Thread -> Seq(Buffer)]
    <3>1. <<>> \in Seq(Buffer)
      BY EmptySeq
    <3>2. tmp' = [tmp EXCEPT ![th] = <<>>]
      BY <1>13 DEF CloseSock
    <3> QED
      BY <3>1, <3>2
  <2>4. errors' \in Nat /\ open' \in BOOLEAN
    <3>1. errors' = errors + 1 /\ open' = FALSE
      BY <1>13 DEF CloseSock
    <3>2. errors \in Nat
      OBVIOUS
    <3>3. errors' \in Nat
      BY ONLY <3>1, <3>2
    <3>4. open' \in BOOLEAN
      BY ONLY <3>1
    <3> QED
      BY <3>3, <3>4
  <2>3. UNCHANGED <<waiting, sending, wire, kernel, sendable, reset, exclusive, pollVars,
                    mtx_waiting, mtx_event, empty_waiting, ghostVars>>
    BY <1>13 DEF CloseSock
  <2> QED
    BY <2>1, <2>2, <2>3, <2>4
<1>14. ASSUME ReadEvent \/ WriteEvent \/ ErrorEvent PROVE TypeOK'
  <2>1. ASSUME ReadEvent PROVE TypeOK'
    BY <2>1 DEF ReadEvent
  <2>2. ASSUME WriteEvent PROVE TypeOK'
    BY <2>2 DEF WriteEvent
  <2>3. ASSUME ErrorEvent PROVE TypeOK'
    BY <2>3 DEF ErrorEvent
  <2> QED
    BY <1>14, <2>1, <2>2, <2>3
<1>15. ASSUME PeekWaiting \/ PeekSending \/ SetSendable PROVE TypeOK'
  <2>1. ASSUME PeekWaiting PROVE TypeOK'
    BY <2>1 DEF PeekWaiting
  <2>2. ASSUME PeekSending PROVE TypeOK'
    BY <2>2 DEF PeekSending
  <2>3. ASSUME SetSendable PROVE TypeOK'
    BY <2>3 DEF SetSendable
  <2> QED
    BY <1>15, <2>1, <2>2, <2>3
<1>16. ASSUME UnlistenWritable PROVE TypeOK'
  BY <1>16 DEF UnlistenWritable, ModifyEvent
<1>17. ASSUME OnFlushed \/ CallbackEnd PROVE TypeOK'
  BY <1>17 DEF OnFlushed, CallbackEnd
<1>18. ASSUME EnableRecv \/ EnableRecvModify PROVE TypeOK'
  BY <1>18, ZenonT(60) DEF EnableRecv, EnableRecvModify, ModifyEvent
<1>19. ASSUME EpollReport PROVE TypeOK'
  BY <1>19 DEF EpollReport
<1>20. ASSUME PeerTakes \/ PeerResets PROVE TypeOK'
  <2>1. kernel' \in 0 .. KCap /\ edge' \in BOOLEAN
    BY <1>20 DEF PeerTakes, PeerResets
  <2> QED
    BY <1>20, <2>1 DEF PeerTakes, PeerResets
<1>21. CASE UNCHANGED vars
  BY <1>21 DEF vars
<1> QED
  BY <1>1, <1>2, <1>3, <1>4, <1>5, <1>6, <1>7, <1>8, <1>9, <1>10, <1>11, <1>12, <1>13, <1>14,
     <1>15, <1>16, <1>17, <1>18, <1>19, <1>20, <1>21 DEF Next, FlushStep, PollerStep, Thread

\* TypeOK: each variable keeps its type, whatever the threads, the poller and the peer do.
THEOREM SendTypeCorrect == Spec => []TypeOK
BY TypeInit, TypeStep, PTL DEF Spec

-----------------------------------------------------------------------------
(* The order of the buffers and the one error, on the poller thread. *)

\* The statement the poller thread is at.
AtPoller == pc[Poller]

\* What send() has accepted is, in this order, on the wire, in the poller's local list, in
\* the second level and in the first.
Placed ==
  LET local == tmp[Poller] IN
  ~reset =>
    /\ next = Len(wire) + Len(local) + Len(sending) + Len(waiting) + 1
    /\ \A i \in 1 .. Len(local) : local[i] = Len(wire) + i
    /\ \A i \in 1 .. Len(sending) : sending[i] = Len(wire) + Len(local) + i
    /\ \A i \in 1 .. Len(waiting) : waiting[i] = Len(wire) + Len(local) + Len(sending) + i

\* The local list is in use from TakeWaiting or SwapSending to the end of flushData; the
\* second level was empty when the first is looked at.
LocalList ==
  /\ tmp[Poller] # <<>> =>
       AtPoller \in {"write", "start", "listen", "rollback", "err", "close"}
  /\ AtPoller \in {"take", "event"} => sending = <<>>

\* An error comes from a reset or from a timeout, and is reported by who closes the socket.
Failing ==
  /\ AtPoller = "err" => reset
  /\ AtPoller = "close" => open /\ (reset \/ tmp[Poller] = <<>>)
  /\ "error" \in report => reset
  /\ open => errors = 0
  /\ errors <= 1

\* The peer has been sent the buffers 1, 2, 3, ... in the order of their send().
WireInOrder == \A i \in 1 .. Len(wire) : wire[i] = i

\* The inductive invariant of a socket used on its poller thread only.
SingleInv == TypeOK /\ WireInOrder /\ Placed /\ LocalList /\ Failing

\* A write moves a prefix of the poller's local list to the end of the wire.
LEMMA WrittenInOrder ==
  ASSUME NEW w \in Seq(Buffer), NEW s \in Seq(Buffer), NEW n \in 0 .. Len(s),
         \A i \in 1 .. Len(w) : w[i] = i, \A i \in 1 .. Len(s) : s[i] = Len(w) + i
  PROVE  LET a == w \o SubSeq(s, 1, n)
             b == SubSeq(s, n + 1, Len(s)) IN
         /\ Len(a) = Len(w) + n /\ Len(b) = Len(s) - n
         /\ \A i \in 1 .. Len(a) : a[i] = i
         /\ \A i \in 1 .. Len(b) : b[i] = Len(a) + i
<1> DEFINE h == SubSeq(s, 1, n)
           b == SubSeq(s, n + 1, Len(s))
           a == w \o h
<1>1. h \in Seq(Buffer) /\ Len(h) = n /\ \A i \in 1 .. n : h[i] = s[i]
  BY SubSeqProperties
<1>2. Len(b) = Len(s) - n /\ b \in Seq(Buffer) /\ \A i \in 1 .. Len(s) - n : b[i] = s[n + i]
  BY SubSeqProperties
<1>0. Len(w) \in Nat /\ Len(s) \in Nat
  BY LenProperties
<1> HIDE DEF h, b
<1>3. /\ Len(a) = Len(w) + n /\ a \in Seq(Buffer)
      /\ \A i \in 1 .. Len(w) + n : a[i] = IF i <= Len(w) THEN w[i] ELSE h[i - Len(w)]
  BY <1>1, ConcatProperties
<1> HIDE DEF a
<1>4. ASSUME NEW i \in 1 .. Len(a) PROVE a[i] = i
  <2>1. CASE i <= Len(w)
    BY <1>0, <1>3, <2>1
  <2>2. CASE i > Len(w)
    <3>1. i - Len(w) \in 1 .. n
      BY <1>0, <1>3, <2>2
    <3>2. s[i - Len(w)] = Len(w) + (i - Len(w))
      BY <1>0, <3>1
    <3> QED
      BY <1>0, <1>1, <1>3, <2>2, <3>1, <3>2
  <2> QED
    BY <1>0, <2>1, <2>2
<1>5. ASSUME NEW i \in 1 .. Len(b) PROVE b[i] = Len(a) + i
  <2>1. n + i \in 1 .. Len(s) /\ b[i] = s[n + i]
    BY <1>0, <1>2
  <2> QED
    BY <1>0, <1>3, <2>1
<1> QED
  BY <1>2, <1>3, <1>4, <1>5 DEF a, b, h

\* The rollback of flushData puts the local list back in front of the second level.
LEMMA PutInFront ==
  ASSUME NEW s \in Seq(Buffer), NEW t \in Seq(Buffer), NEW k \in Nat,
         \A i \in 1 .. Len(s) : s[i] = k + i, \A i \in 1 .. Len(t) : t[i] = k + Len(s) + i
  PROVE  /\ Len(s \o t) = Len(s) + Len(t)
         /\ \A i \in 1 .. Len(s \o t) : (s \o t)[i] = k + i
<1>0. Len(s) \in Nat /\ Len(t) \in Nat
  BY LenProperties
<1>1. /\ s \o t \in Seq(Buffer) /\ Len(s \o t) = Len(s) + Len(t)
      /\ \A i \in 1 .. Len(s) + Len(t) : (s \o t)[i] = IF i <= Len(s) THEN s[i] ELSE t[i - Len(s)]
  BY ConcatProperties
<1>2. ASSUME NEW i \in 1 .. Len(s \o t), i > Len(s) PROVE (s \o t)[i] = k + i
  <2>1. i - Len(s) \in 1 .. Len(t)
    BY <1>0, <1>1, <1>2
  <2>2. t[i - Len(s)] = k + Len(s) + (i - Len(s))
    BY <2>1
  <2> QED
    BY <1>0, <1>1, <1>2, <2>2
<1> QED
  BY <1>0, <1>1, <1>2

\* Nothing is sent, listed or reported at first.
LEMMA SingleInit == Init => SingleInv
<1> SUFFICES ASSUME Init PROVE SingleInv
  OBVIOUS
<1>1. TypeOK /\ tmp[Poller] = <<>> /\ AtPoller = "idle"
  BY TypeInit, PollerIsThread DEF Init, AtPoller
<1> QED
  BY <1>1 DEF Init, SingleInv, WireInOrder, Placed, LocalList, Failing

\* A step that moves no buffer.
LEMMA SingleQuiet ==
  ASSUME SingleInv, TypeOK', UNCHANGED <<waiting, sending, tmp, wire, next>>, reset => reset',
         LocalList', Failing'
  PROVE  SingleInv'
BY DEF SingleInv, WireInOrder, Placed

\* One case per statement; with no other thread every statement is the poller's.
LEMMA SingleStep == ASSUME User = {} PROVE SingleInv /\ [Next]_vars => SingleInv'
<1> SUFFICES ASSUME SingleInv, [Next]_vars PROVE SingleInv'
  OBVIOUS
<1>0. TypeOK /\ TypeOK' /\ (\A th \in Thread : th = Poller) /\ LocalList /\ Failing
  BY TypeStep DEF SingleInv, Thread
<1> DEFINE local == tmp[Poller]
<1> USE ConstantsAssumption, PollerIsThread
    DEF AtPoller, GoTo, Return, bufVars, sockVars, pollVars, lockVars, restVars, ghostVars
<1>a. /\ pc \in [Thread -> Place] /\ tmp \in [Thread -> Seq(Buffer)] /\ local \in Seq(Buffer)
      /\ waiting \in Seq(Buffer) /\ sending \in Seq(Buffer) /\ wire \in Seq(Buffer)
      /\ next \in Nat /\ errors \in Nat
      /\ sendable \in BOOLEAN /\ open \in BOOLEAN /\ reset \in BOOLEAN
  BY <1>0 DEF TypeOK
<1>b. Len(local) \in Nat /\ Len(waiting) \in Nat /\ Len(sending) \in Nat /\ Len(wire) \in Nat
  BY <1>a, LenProperties
<1>1. ASSUME NEW try_flush \in TryFlush, Send(Poller, try_flush) PROVE SingleInv'
  <2>0. /\ waiting' = Append(waiting, next) /\ next' = next + 1 /\ pc[Poller] = "idle"
        /\ UNCHANGED <<sending, tmp, wire, sendable, open, reset, report, errors>>
        /\ pc'[Poller] \in {"idle", "flush"}
    BY <1>a, <1>1 DEF Send, Free
  <2>1. Len(waiting') = Len(waiting) + 1 /\ \A i \in 1 .. Len(waiting') :
           waiting'[i] = IF i <= Len(waiting) THEN waiting[i] ELSE next
    BY <1>a, <1>b, <2>0, AppendProperties
  <2>2. ASSUME ~reset
        PROVE  /\ next' = Len(wire) + Len(local) + Len(sending) + Len(waiting') + 1
               /\ \A i \in 1 .. Len(waiting') :
                    waiting'[i] = Len(wire) + Len(local) + Len(sending) + i
    <3>1. /\ next = Len(wire) + Len(local) + Len(sending) + Len(waiting) + 1
          /\ \A i \in 1 .. Len(waiting) :
               waiting[i] = Len(wire) + Len(local) + Len(sending) + i
      BY <2>2 DEF Placed, SingleInv
    <3> HIDE DEF local
    <3>2. next' = Len(wire) + Len(local) + Len(sending) + Len(waiting') + 1
      BY ONLY <1>b, <2>0, <2>1, <3>1
    <3>3. ASSUME NEW i \in 1 .. Len(waiting')
          PROVE  waiting'[i] = Len(wire) + Len(local) + Len(sending) + i
      <4>1. CASE i <= Len(waiting)
        BY ONLY <1>b, <2>1, <3>1, <3>3, <4>1
      <4>2. CASE i > Len(waiting)
        BY ONLY <1>b, <2>1, <3>1, <3>3, <4>2
      <4> QED
        BY ONLY <1>b, <3>3, <4>1, <4>2
    <3> QED
      BY <3>2, <3>3
  <2>3. Placed'
    BY <2>0, <2>2 DEF Placed, SingleInv
  <2> QED
    BY <1>0, <2>0, <2>3 DEF WireInOrder, LocalList, Failing, SingleInv
<1>2. ASSUME SendTimeout(Poller) \/ FlushAll(Poller) PROVE SingleInv'
  <2>1. UNCHANGED <<waiting, sending, tmp, wire, next, reset>>
    BY <1>2 DEF SendTimeout, FlushAll
  <2>2. LocalList' /\ Failing'
    BY <1>0, <1>a, <1>2 DEF SendTimeout, FlushAll, LocalList, Failing
  <2> QED
    BY <1>0, <2>1, <2>2, SingleQuiet
<1>3. ASSUME SwapSending(Poller) PROVE SingleInv'
  <2>0. local = <<>> /\ tmp'[Poller] = sending /\ sending' = <<>>
        /\ UNCHANGED <<waiting, wire, sendable, open, reset, report, errors, next>>
        /\ pc[Poller] = "swap" /\ pc'[Poller] = IF sending = <<>> THEN "take" ELSE "write"
    BY <1>0, <1>a, <1>3 DEF SwapSending, LocalList
  <2>1. Placed'
    BY <1>a, <1>b, <2>0 DEF Placed, SingleInv
  <2> QED
    BY <1>0, <2>0, <2>1 DEF WireInOrder, LocalList, Failing, SingleInv
<1>4. ASSUME LockWaiting(Poller) PROVE SingleInv'
  <2>1. UNCHANGED <<waiting, sending, tmp, wire, next, reset>>
    BY <1>4 DEF LockWaiting
  <2>2. LocalList' /\ Failing'
    BY <1>0, <1>a, <1>4 DEF LockWaiting, LocalList, Failing
  <2> QED
    BY <1>0, <2>1, <2>2, SingleQuiet
<1>5. ASSUME TakeWaiting(Poller) PROVE SingleInv'
  <2>0. local = <<>> /\ sending = <<>> /\ tmp'[Poller] = waiting /\ waiting' = <<>>
        /\ UNCHANGED <<sending, wire, sendable, open, reset, report, errors, next>>
        /\ pc[Poller] = "event" /\ pc'[Poller] = "write"
    BY <1>0, <1>a, <1>5 DEF TakeWaiting, LocalList
  <2>1. Placed'
    BY <1>a, <1>b, <2>0 DEF Placed, SingleInv
  <2> QED
    BY <1>0, <2>0, <2>1 DEF WireInOrder, LocalList, Failing, SingleInv
<1>6. ASSUME Write(Poller) PROVE SingleInv'
  <2> DEFINE n == Fits(Poller)
  <2>0. /\ n \in 0 .. Len(local)
        /\ wire' = wire \o SubSeq(local, 1, n)
        /\ tmp'[Poller] = SubSeq(local, n + 1, Len(local))
    BY <1>0, <1>a, <1>6, WriteParts
  <2>1. /\ ~reset /\ pc[Poller] = "write"
        /\ UNCHANGED <<waiting, sending, sendable, open, reset, report, errors, next>>
    BY <1>6 DEF Write
  <2>2. IF n = Len(local) THEN pc'[Poller] \in {"swap", "idle"}
                          ELSE pc'[Poller] \in {"rollback", "start"}
    BY <1>a, <1>b, <1>6 DEF Write, Fits
  <2> HIDE DEF n
  <2>3. /\ \A i \in 1 .. Len(wire) : wire[i] = i
        /\ \A i \in 1 .. Len(local) : local[i] = Len(wire) + i
    BY <2>1 DEF WireInOrder, Placed, SingleInv
  <2>4. /\ Len(wire') = Len(wire) + n /\ Len(tmp'[Poller]) = Len(local) - n
        /\ \A i \in 1 .. Len(wire') : wire'[i] = i
        /\ \A i \in 1 .. Len(tmp'[Poller]) : tmp'[Poller][i] = Len(wire') + i
    <3> HIDE DEF local
    <3> QED
      BY ONLY <1>a, <2>0, <2>3, WrittenInOrder
  <2>a. /\ next = Len(wire') + Len(tmp'[Poller]) + Len(sending) + Len(waiting) + 1
        /\ \A i \in 1 .. Len(sending) : sending[i] = Len(wire') + Len(tmp'[Poller]) + i
        /\ \A i \in 1 .. Len(waiting) :
             waiting[i] = Len(wire') + Len(tmp'[Poller]) + Len(sending) + i
    <3>1. Len(wire') + Len(tmp'[Poller]) = Len(wire) + Len(local)
      <4>1. n \in Int /\ Len(wire') = Len(wire) + n /\ Len(tmp'[Poller]) = Len(local) - n
        BY <1>b, <2>0, <2>4
      <4> HIDE DEF local
      <4> QED
        BY ONLY <1>b, <4>1
    <3> QED
      BY <2>1, <3>1 DEF Placed, SingleInv
  <2>5. Placed' /\ WireInOrder'
    BY <2>1, <2>4, <2>a DEF Placed, WireInOrder
  <2>6. tmp'[Poller] # <<>> => n # Len(local)
    BY <1>a, <1>b, <2>0
  <2> QED
    BY <1>0, <2>1, <2>2, <2>5, <2>6 DEF LocalList, Failing, SingleInv
<1>7. ASSUME WriteFails(Poller) \/ ClearSendable(Poller) \/ ListenWritable(Poller) PROVE SingleInv'
  <2>1. UNCHANGED <<waiting, sending, tmp, wire, next, reset>>
    BY <1>7 DEF WriteFails, ClearSendable, ListenWritable
  <2>2. LocalList' /\ Failing'
    BY <1>0, <1>a, <1>7
    DEF WriteFails, ClearSendable, ListenWritable, ModifyEvent, LocalList, Failing
  <2> QED
    BY <1>0, <2>1, <2>2, SingleQuiet
<1>8. ASSUME Rollback(Poller) PROVE SingleInv'
  <2>0. sending' = local \o sending /\ tmp'[Poller] = <<>> /\ pc'[Poller] = "idle"
        /\ UNCHANGED <<waiting, wire, sendable, open, reset, report, errors, next>>
    BY <1>a, <1>8 DEF Rollback
  <2>1. ASSUME ~reset
        PROVE  /\ Len(sending') = Len(local) + Len(sending)
               /\ \A i \in 1 .. Len(sending') : sending'[i] = Len(wire) + i
    <3>1. /\ \A i \in 1 .. Len(local) : local[i] = Len(wire) + i
          /\ \A i \in 1 .. Len(sending) : sending[i] = Len(wire) + Len(local) + i
      BY <2>1 DEF Placed, SingleInv
    <3>2. sending' = local \o sending
      BY <2>0
    <3> HIDE DEF local
    <3> QED
      BY ONLY <1>a, <1>b, <3>1, <3>2, PutInFront
  <2>2. Placed'
    BY <1>a, <1>b, <2>0, <2>1 DEF Placed, SingleInv
  <2> QED
    BY <1>0, <2>0, <2>2 DEF WireInOrder, LocalList, Failing, SingleInv
<1>9. ASSUME CheckOpen(Poller) PROVE SingleInv'
  <2>0. /\ pc[Poller] = "err" /\ reset' = reset
        /\ UNCHANGED <<waiting, sending, wire, sendable, open, report, errors, next>>
        /\ \/ open /\ pc'[Poller] = "close" /\ tmp' = tmp
           \/ ~open /\ pc'[Poller] = "idle" /\ tmp'[Poller] = <<>>
    BY <1>a, <1>9 DEF CheckOpen
  <2> QED
    BY <1>0, <2>0 DEF WireInOrder, Placed, LocalList, Failing, SingleInv
<1>10. ASSUME CloseSock(Poller) PROVE SingleInv'
  <2>0. /\ pc[Poller] = "close" /\ open' = FALSE /\ errors' = errors + 1
        /\ tmp'[Poller] = <<>> /\ pc'[Poller] = "idle"
        /\ UNCHANGED <<waiting, sending, wire, sendable, reset, report, next>>
    BY <1>a, <1>10 DEF CloseSock
  <2>1. Placed'
    <3>1. reset \/ local = <<>>
      BY <1>0, <2>0 DEF Failing
    <3>2. CASE reset
      BY <2>0, <3>2 DEF Placed
    <3>3. CASE local = <<>>
      BY <2>0, <3>3 DEF Placed, SingleInv
    <3> QED
      BY <3>1, <3>2, <3>3
  <2> QED
    BY <1>0, <1>a, <2>0, <2>1 DEF WireInOrder, LocalList, Failing, SingleInv
<1>11. ASSUME ReadEvent \/ WriteEvent \/ ErrorEvent PROVE SingleInv'
  <2>1. UNCHANGED <<waiting, sending, tmp, wire, next, reset>>
    BY <1>11 DEF ReadEvent, WriteEvent, ErrorEvent
  <2>2. LocalList' /\ Failing'
    BY <1>0, <1>a, <1>11 DEF ReadEvent, WriteEvent, ErrorEvent, PollerIdle, LocalList, Failing
  <2> QED
    BY <1>0, <2>1, <2>2, SingleQuiet
<1>12. ASSUME PeekWaiting \/ PeekSending \/ SetSendable \/ UnlistenWritable PROVE SingleInv'
  <2>1. UNCHANGED <<waiting, sending, tmp, wire, next, reset>>
    BY <1>12 DEF PeekWaiting, PeekSending, SetSendable, UnlistenWritable
  <2>2. LocalList' /\ Failing'
    BY <1>0, <1>a, <1>12
    DEF PeekWaiting, PeekSending, SetSendable, UnlistenWritable, ModifyEvent, LocalList, Failing
  <2> QED
    BY <1>0, <2>1, <2>2, SingleQuiet
<1>13. ASSUME OnFlushed \/ CallbackEnd \/ EnableRecv \/ EnableRecvModify PROVE SingleInv'
  <2>1. UNCHANGED <<waiting, sending, tmp, wire, next, reset>>
    BY <1>13 DEF OnFlushed, CallbackEnd, EnableRecv, EnableRecvModify
  <2>2. LocalList' /\ Failing'
    BY <1>0, <1>a, <1>13
    DEF OnFlushed, CallbackEnd, EnableRecv, EnableRecvModify, Free, ModifyEvent, LocalList, Failing
  <2> QED
    BY <1>0, <2>1, <2>2, SingleQuiet
<1>14. ASSUME EpollReport PROVE SingleInv'
  <2>1. UNCHANGED <<waiting, sending, tmp, wire, next, reset>>
    BY <1>14 DEF EpollReport
  <2>2. LocalList' /\ Failing'
    BY <1>0, <1>a, <1>14 DEF EpollReport, PollerIdle, LocalList, Failing
  <2> QED
    BY <1>0, <2>1, <2>2, SingleQuiet
<1>15. ASSUME PeerTakes \/ PeerResets PROVE SingleInv'
  <2>1. UNCHANGED <<waiting, sending, tmp, wire, next>> /\ (reset => reset')
    BY <1>15 DEF PeerTakes, PeerResets
  <2>2. LocalList' /\ Failing'
    BY <1>0, <1>a, <1>15 DEF PeerTakes, PeerResets, LocalList, Failing
  <2> QED
    BY <1>0, <2>1, <2>2, SingleQuiet
<1>16. CASE UNCHANGED vars
  BY <1>0, <1>16, SingleQuiet DEF vars, LocalList, Failing
<1> QED
  BY <1>0, <1>1, <1>2, <1>3, <1>4, <1>5, <1>6, <1>7, <1>8, <1>9, <1>10, <1>11, <1>12, <1>13,
     <1>14, <1>15, <1>16 DEF Next, FlushStep, PollerStep

\* OrderKept: whatever the sizes, the flags of send() and the readiness of the socket, what
\* is sent from the poller thread reaches the kernel in the order of the calls.
THEOREM SendInOrder == ASSUME User = {} PROVE Spec => []OrderKept
<1>1. Init => SingleInv
  BY SingleInit
<1>2. SingleInv /\ [Next]_vars => SingleInv'
  BY SingleStep
<1>3. SingleInv => OrderKept
  BY LenProperties DEF SingleInv, WireInOrder, TypeOK, OrderKept
<1> QED
  BY <1>1, <1>2, <1>3, PTL DEF Spec

\* ErrorOnce: a reset that the write and the event loop both notice, or a timeout on top of
\* it, calls the error callback of emitErr once.
THEOREM SendErrorOnce == ASSUME User = {} PROVE Spec => []ErrorOnce
<1>1. Init => SingleInv
  BY SingleInit
<1>2. SingleInv /\ [Next]_vars => SingleInv'
  BY SingleStep
<1>3. SingleInv => ErrorOnce
  BY DEF SingleInv, Failing, TypeOK, ErrorOnce
<1> QED
  BY <1>1, <1>2, <1>3, PTL DEF Spec

-----------------------------------------------------------------------------
(* The writable event is not missed, on the poller thread. *)

\* flushData called by onWriteAble.
FromEvent == AtPoller \in {"swap", "take", "event", "write"} /\ mtx_sock # Poller

\* epoll has the writable event or will have it, or onWriteAble is at work.
Coming ==
  \/ edge \/ kernel = KCap \/ "write" \in report
  \/ AtPoller \in {"peek", "peek2", "stop", "unlisten"} \/ FromEvent

\* Only a caller's flush sends what is handed over now: no event is asked for, or the next
\* enableRecv() gives it up, or the event was used up and cannot be asked for again.
Calm ==
  IF exclusive THEN ~Coming
               ELSE ~armed \/ (Toggles /\ sendable)

\* The paths through onWriteAble, flushAll and enableRecv, each with its locks and flags.
Modes ==
  /\ asked < next /\ (Toggles /\ ~exclusive => asked = next - 1)
  /\ mtx_sock = Poller =>
       AtPoller \in {"swap", "take", "event", "write", "start", "listen", "rollback", "err",
                     "close"}
  /\ AtPoller \in {"start", "listen"} => mtx_sock = Poller
  /\ AtPoller \in {"listen", "recv_on"} => ~sendable
  /\ AtPoller \in {"recv_off", "unlisten"} => sendable
  /\ AtPoller \in {"recv_on", "recv_off"} => Toggles
  /\ FromEvent \/ AtPoller \in {"peek", "peek2", "stop", "unlisten"} => "write" \notin report
  /\ AtPoller = "peek2" => (empty_waiting <=> waiting = <<>>)
  /\ AtPoller \in {"stop", "unlisten"} => waiting = <<>> /\ sending = <<>>
  /\ exclusive => armed

\* Where modifyEvent makes a new edge, somebody will come back to the socket while the event
\* is asked for.
Watched == (open /\ ~reset /\ armed /\ ~exclusive) => Coming

\* Without enableRecv() the event is asked for until the poller finds nothing to send.
Arming ==
  (/\ ~Toggles /\ open /\ ~reset
   /\ \/ "write" \in report \/ FromEvent
      \/ AtPoller \in {"peek", "peek2", "stop", "unlisten", "rollback"})
    => armed

\* While only callers flush, every buffer that was asked for is sent before the call ends.
Unwatched ==
  (open /\ ~reset /\ Calm) =>
    /\ sendable \/ AtPoller = "listen"
    /\ AtPoller \notin {"rollback", "err", "close"} /\ ~FromEvent
    /\ exclusive => AtPoller \notin {"start", "listen"}
    /\ AtPoller \in {"idle", "peek", "peek2", "recv_off", "flushed"} => asked <= Len(wire)
    /\ AtPoller \in {"idle", "peek", "peek2", "recv_off", "flushed", "flush", "swap", "write",
                     "start", "listen"} => sending = <<>>
    /\ AtPoller \in {"write", "start", "listen"} => waiting = <<>>

\* The inductive invariant of NoStall.
StallInv == SingleInv /\ Modes /\ Watched /\ Arming /\ Unwatched

\* Nothing is left in the lists exactly if everything is on the wire.
LEMMA AllSent ==
  ASSUME SingleInv, ~reset
  PROVE  /\ (tmp[Poller] = <<>> /\ sending = <<>> /\ waiting = <<>>) => Len(wire) = next - 1
         /\ Len(wire) = next - 1 => sending = <<>> /\ waiting = <<>>
         /\ Len(wire) <= next - 1
<1>1. /\ tmp[Poller] \in Seq(Buffer) /\ sending \in Seq(Buffer) /\ waiting \in Seq(Buffer)
      /\ wire \in Seq(Buffer)
  BY PollerIsThread DEF SingleInv, TypeOK
<1>2. next = Len(wire) + Len(tmp[Poller]) + Len(sending) + Len(waiting) + 1
  BY DEF SingleInv, Placed
<1> DEFINE local == tmp[Poller]
<1>3. Len(local) \in Nat /\ Len(sending) \in Nat /\ Len(waiting) \in Nat /\ Len(wire) \in Nat
  BY <1>1, LenProperties
<1>4. (sending = <<>> <=> Len(sending) = 0) /\ (waiting = <<>> <=> Len(waiting) = 0)
      /\ (local = <<>> => Len(local) = 0)
  BY <1>1, EmptySeq
<1> HIDE DEF local
<1> QED
  BY <1>2, <1>3, <1>4 DEF local

\* Nothing is asked for at first.
LEMMA StallInit == Init => StallInv
<1> SUFFICES ASSUME Init PROVE StallInv
  OBVIOUS
<1>1. SingleInv /\ AtPoller = "idle" /\ mtx_sock # Poller
  BY SingleInit, PollerIsThread DEF Init, AtPoller
<1> QED
  BY <1>1 DEF Init, StallInv, Modes, Watched, Arming, Unwatched, FromEvent, Coming, Calm

\* One case per statement; the hypothesis on Toggles is used by enableRecv with an effect.
LEMMA StallStep ==
  ASSUME User = {}, ~Toggles \/ TryFlush \subseteq {TRUE} \/ Exclusive \subseteq {TRUE}
  PROVE  StallInv /\ [Next]_vars => StallInv'
<1> SUFFICES ASSUME StallInv, [Next]_vars PROVE StallInv'
  OBVIOUS
<1>0. /\ SingleInv /\ SingleInv' /\ TypeOK /\ TypeOK' /\ Modes /\ Watched /\ Arming /\ Unwatched
      /\ \A th \in Thread : th = Poller
      /\ LocalList /\ Failing
  BY SingleStep DEF StallInv, Thread, SingleInv
<1> USE ConstantsAssumption, PollerIsThread
    DEF AtPoller, GoTo, Return, bufVars, sockVars, pollVars, lockVars, restVars, ghostVars,
        PollerThread, FromEvent, Coming, Calm
<1>a. /\ pc \in [Thread -> Place] /\ tmp \in [Thread -> Seq(Buffer)]
      /\ waiting \in Seq(Buffer) /\ sending \in Seq(Buffer) /\ wire \in Seq(Buffer)
      /\ next \in Nat /\ asked \in Nat /\ kernel \in Nat
      /\ sendable \in BOOLEAN /\ open \in BOOLEAN /\ reset \in BOOLEAN /\ armed \in BOOLEAN
      /\ edge \in BOOLEAN /\ empty_waiting \in BOOLEAN
      /\ mtx_sock \in {Poller, None} /\ Poller # None
      /\ Toggles \in BOOLEAN /\ exclusive \in BOOLEAN /\ exclusive \in Exclusive
  BY <1>0 DEF TypeOK, Thread
<1> HIDE ConstantsAssumption
<1>b. ~reset => Len(wire) \in Nat /\ Len(wire) <= next - 1
  BY <1>0, <1>a, AllSent, LenProperties
<1>1. ASSUME NEW try_flush \in TryFlush, Send(Poller, try_flush) PROVE StallInv'
  <2>0. /\ pc[Poller] = "idle" /\ next' = next + 1
        /\ UNCHANGED <<sending, wire, sendable, open, reset, exclusive, armed, report, edge, kernel,
                       mtx_sock>>
        /\ asked' = (IF try_flush THEN next ELSE asked)
        /\ pc'[Poller] = IF try_flush THEN "flush" ELSE "idle"
        /\ Toggles /\ ~exclusive => try_flush
    BY <1>a, <1>1 DEF Send, Free
  <2>1. Modes'
    BY <1>0, <1>a, <2>0 DEF Modes
  <2>2. Watched' /\ Arming'
    BY <1>0, <1>a, <2>0 DEF Watched, Arming
  <2>3. Unwatched'
    BY <1>0, <1>a, <2>0 DEF Unwatched
  <2> QED
    BY <1>0, <2>1, <2>2, <2>3 DEF StallInv
<1>2. ASSUME SendTimeout(Poller) \/ FlushAll(Poller) PROVE StallInv'
  <2>1. Modes'
    BY <1>0, <1>a, <1>2 DEF Modes, SendTimeout, FlushAll
  <2>2. Watched' /\ Arming'
    BY <1>0, <1>a, <1>2 DEF Watched, Arming, SendTimeout, FlushAll
  <2>3. Unwatched'
    <3>1. /\ pc[Poller] = "flush"
          /\ UNCHANGED <<waiting, sending, wire, kernel, sendable, open, reset, exclusive, armed,
                         edge, report, asked>>
          /\ \/ ~sendable /\ pc'[Poller] = "close" /\ mtx_sock' = Poller
             \/ sendable /\ pc'[Poller] = "swap" /\ mtx_sock' = Poller
             \/ ~(open /\ sendable) /\ pc'[Poller] = "idle"
      BY <1>a, <1>2 DEF SendTimeout, FlushAll
    <3>2. Calm' => Calm
      BY <1>a, <3>1
    <3> QED
      BY <1>0, <1>a, <3>1, <3>2 DEF Unwatched
  <2> QED
    BY <1>0, <2>1, <2>2, <2>3 DEF StallInv
<1>3. ASSUME SwapSending(Poller) PROVE StallInv'
  <2>1. Modes'
    BY <1>0, <1>a, <1>3 DEF Modes, SwapSending
  <2>2. Watched' /\ Arming'
    BY <1>0, <1>a, <1>3 DEF Watched, Arming, SwapSending
  <2>3. Unwatched'
    BY <1>0, <1>a, <1>3 DEF Unwatched, SwapSending
  <2> QED
    BY <1>0, <2>1, <2>2, <2>3 DEF StallInv
<1>4. ASSUME LockWaiting(Poller) PROVE StallInv'
  <2>1. Modes'
    BY <1>0, <1>a, <1>4 DEF Modes, LockWaiting, LocalList
  <2>2. Watched' /\ Arming'
    BY <1>0, <1>a, <1>4 DEF Watched, Arming, LockWaiting
  <2>3. Unwatched'
    BY <1>0, <1>a, <1>b, <1>4, AllSent DEF Unwatched, LockWaiting, LocalList, Modes
  <2> QED
    BY <1>0, <2>1, <2>2, <2>3 DEF StallInv
<1>5. ASSUME TakeWaiting(Poller) PROVE StallInv'
  <2>1. Modes'
    BY <1>0, <1>a, <1>5 DEF Modes, TakeWaiting
  <2>2. Watched' /\ Arming'
    BY <1>0, <1>a, <1>5 DEF Watched, Arming, TakeWaiting
  <2>3. Unwatched'
    BY <1>0, <1>a, <1>5 DEF Unwatched, TakeWaiting, LocalList
  <2> QED
    BY <1>0, <2>1, <2>2, <2>3 DEF StallInv
<1>6. ASSUME Write(Poller) PROVE StallInv'
  <2>0. /\ pc[Poller] = "write" /\ ~reset
        /\ UNCHANGED <<waiting, sending, sendable, open, reset, exclusive, armed, report, edge, next,
                       asked, empty_waiting>>
        /\ \/ /\ mtx_sock # Poller /\ pc'[Poller] = "swap" /\ mtx_sock' = mtx_sock
              /\ tmp'[Poller] = <<>>
           \/ /\ mtx_sock = Poller /\ pc'[Poller] = "idle" /\ mtx_sock' = None
              /\ tmp'[Poller] = <<>>
           \/ /\ mtx_sock # Poller /\ pc'[Poller] = "rollback" /\ mtx_sock' = mtx_sock
              /\ kernel' = KCap
           \/ /\ mtx_sock = Poller /\ pc'[Poller] = "start" /\ mtx_sock' = mtx_sock
              /\ kernel' = KCap
    <3> DEFINE n == Fits(Poller)
    <3>1. /\ n \in 0 .. Len(tmp[Poller]) /\ (n < Len(tmp[Poller]) => kernel' = KCap)
          /\ tmp'[Poller] = SubSeq(tmp[Poller], n + 1, Len(tmp[Poller]))
      BY <1>0, <1>a, <1>6, WriteParts
    <3>2. n = Len(tmp[Poller]) => tmp'[Poller] = <<>>
      BY <1>a, <3>1, SubSeqEmpty, LenProperties
    <3>3. \/ /\ n = Len(tmp[Poller]) /\ mtx_sock # Poller /\ pc'[Poller] = "swap"
             /\ mtx_sock' = mtx_sock
          \/ n = Len(tmp[Poller]) /\ mtx_sock = Poller /\ pc'[Poller] = "idle" /\ mtx_sock' = None
          \/ /\ n < Len(tmp[Poller]) /\ mtx_sock # Poller /\ pc'[Poller] = "rollback"
             /\ mtx_sock' = mtx_sock
          \/ n < Len(tmp[Poller]) /\ mtx_sock = Poller /\ pc'[Poller] = "start"
             /\ mtx_sock' = mtx_sock
      BY <1>a, <1>6 DEF Write, Fits
    <3>4. /\ pc[Poller] = "write" /\ ~reset
          /\ UNCHANGED <<waiting, sending, sendable, open, reset, exclusive, armed, report, edge, next,
                         asked, empty_waiting>>
      BY <1>6 DEF Write
    <3> QED
      BY <3>1, <3>2, <3>3, <3>4
  <2>1. Modes'
    BY <1>0, <1>a, <2>0 DEF Modes
  <2>2. Arming'
    BY <1>0, <1>a, <2>0 DEF Arming
  <2>b. kernel = KCap => kernel' = KCap
    BY <1>0, <1>6, WriteParts, ConstantsAssumption DEF TypeOK
  <2>3. Watched'
    BY <1>0, <1>a, <2>0, <2>b DEF Watched
  <2>4. Unwatched'
    <3>1. (~reset' /\ tmp'[Poller] = <<>> /\ sending' = <<>> /\ waiting' = <<>>) =>
             Len(wire') = next' - 1
      <4>1. /\ wire' \in Seq(Buffer)
            /\ ~reset' => next' = Len(wire') + Len(tmp'[Poller]) + Len(sending') + Len(waiting') + 1
        BY <1>0 DEF SingleInv, Placed, TypeOK
      <4> QED
        BY ONLY <4>1, LenProperties, EmptySeq
    <3>2. Calm' => Calm
      BY <1>a, <2>0, <2>b
    <3> QED
      BY <1>0, <1>a, <2>0, <3>1, <3>2 DEF Unwatched, Modes
  <2> QED
    BY <1>0, <2>1, <2>2, <2>3, <2>4 DEF StallInv
<1>7. ASSUME WriteFails(Poller) PROVE StallInv'
  BY <1>0, <1>a, <1>7 DEF WriteFails, StallInv, Modes, Watched, Arming, Unwatched
<1>10. ASSUME ClearSendable(Poller) PROVE StallInv'
  <2>0. /\ pc[Poller] = "start" /\ pc'[Poller] = "listen" /\ sendable' = FALSE
        /\ UNCHANGED <<waiting, sending, wire, kernel, open, reset, exclusive, armed, edge, report,
                       mtx_sock, empty_waiting, next, asked>>
    BY <1>a, <1>10 DEF ClearSendable
  <2> QED
    BY <1>0, <2>0 DEF StallInv, Modes, Watched, Arming, Unwatched
<1>22. ASSUME ListenWritable(Poller) PROVE StallInv'
  <2>0. /\ pc[Poller] = "listen" /\ pc'[Poller] = "rollback"
        /\ UNCHANGED <<waiting, sending, wire, kernel, sendable, open, reset, exclusive, report,
                       mtx_sock, empty_waiting, next, asked>>
        /\ \/ exclusive /\ armed' = armed /\ edge' = edge
           \/ ~exclusive /\ armed' = TRUE /\ edge' = (kernel < KCap)
    BY <1>a, <1>22 DEF ListenWritable, ModifyEvent
  <2>1. kernel < KCap \/ kernel = KCap
    BY <1>0, ConstantsAssumption DEF TypeOK
  <2>2. Modes' /\ Watched' /\ Arming'
    BY <1>0, <1>a, <2>0, <2>1 DEF Modes, Watched, Arming
  <2>3. CASE exclusive
    <3>1. Calm' => Calm
      BY <1>a, <2>0, <2>3
    <3>2. Calm => ~(open /\ ~reset)
      BY <1>0, <2>0, <2>3 DEF Unwatched, Modes
    <3> QED
      BY <1>0, <2>0, <2>2, <3>1, <3>2 DEF StallInv, Unwatched
  <2>4. CASE ~exclusive
    BY <1>0, <1>a, <2>0, <2>2, <2>4 DEF StallInv, Unwatched, Modes
  <2> QED
    BY <2>3, <2>4
<1>8. ASSUME Rollback(Poller) PROVE StallInv'
  <2>1. Modes'
    BY <1>0, <1>a, <1>8 DEF Modes, Rollback
  <2>2. Watched' /\ Arming'
    BY <1>0, <1>a, <1>8 DEF Watched, Arming, Rollback
  <2>3. Unwatched'
    BY <1>0, <1>a, <1>8 DEF Unwatched, Rollback
  <2> QED
    BY <1>0, <2>1, <2>2, <2>3 DEF StallInv
<1>9. ASSUME CheckOpen(Poller) \/ CloseSock(Poller) PROVE StallInv'
  <2>1. Modes'
    BY <1>0, <1>a, <1>9 DEF Modes, CheckOpen, CloseSock
  <2>2. Watched' /\ Arming' /\ Unwatched'
    BY <1>0, <1>a, <1>9 DEF Watched, Arming, Unwatched, CheckOpen, CloseSock, Failing
  <2> QED
    BY <1>0, <2>1, <2>2 DEF StallInv
<1>11. ASSUME ReadEvent \/ WriteEvent \/ ErrorEvent PROVE StallInv'
  <2>1. Modes'
    BY <1>0, <1>a, <1>11 DEF Modes, ReadEvent, WriteEvent, ErrorEvent, PollerIdle
  <2>2. Watched' /\ Arming'
    BY <1>0, <1>a, <1>11 DEF Watched, Arming, ReadEvent, WriteEvent, ErrorEvent, PollerIdle
  <2>3. Unwatched'
    <3>1. /\ pc[Poller] = "idle"
          /\ UNCHANGED <<waiting, sending, wire, kernel, sendable, open, reset, exclusive, armed,
                         edge, mtx_sock, asked>>
          /\ \/ pc'[Poller] = "idle" /\ ("write" \in report => "write" \in report')
             \/ pc'[Poller] = "err" /\ reset
             \/ pc'[Poller] = "peek"
      BY <1>0, <1>a, <1>11 DEF ReadEvent, WriteEvent, ErrorEvent, PollerIdle, Failing
    <3>2. Calm' => reset \/ Calm
      BY <1>a, <3>1
    <3> QED
      BY <1>0, <1>a, <3>1, <3>2 DEF Unwatched
  <2> QED
    BY <1>0, <2>1, <2>2, <2>3 DEF StallInv
<1>12. ASSUME PeekWaiting PROVE StallInv'
  BY <1>0, <1>a, <1>12 DEF PeekWaiting, StallInv, Modes, Watched, Arming, Unwatched
<1>13. ASSUME PeekSending PROVE StallInv'
  <2>0. /\ pc[Poller] = "peek2"
        /\ UNCHANGED <<waiting, sending, wire, kernel, sendable, open, reset, exclusive, armed,
                       edge, report, mtx_sock, next, asked>>
        /\ \/ waiting = <<>> /\ sending = <<>> /\ pc'[Poller] = "stop"
           \/ ~(waiting = <<>> /\ sending = <<>>) /\ pc'[Poller] = "swap"
    BY <1>0, <1>a, <1>13 DEF PeekSending, Modes
  <2>1. Modes' /\ Watched' /\ Arming'
    BY <1>0, <2>0 DEF Modes, Watched, Arming
  <2>2. (open /\ ~reset /\ Calm) => pc'[Poller] = "stop"
    <3> SUFFICES ASSUME open, ~reset, Calm PROVE pc'[Poller] = "stop"
      OBVIOUS
    <3>1. Toggles /\ ~exclusive
      BY <1>0, <2>0 DEF Arming
    <3>2. asked = next - 1 /\ asked <= Len(wire)
      BY <1>0, <2>0, <3>1 DEF Modes, Unwatched
    <3>3. Len(wire) = next - 1
      BY <1>a, <1>b, <3>2
    <3>4. waiting = <<>> /\ sending = <<>>
      BY <1>0, <3>3, AllSent
    <3> QED
      BY <2>0, <3>4
  <2>3. Unwatched'
    <3>1. Calm' => Calm
      BY <1>0, <1>a, <2>0 DEF Modes
    <3> QED
      BY <1>0, <2>0, <2>2, <3>1 DEF Unwatched
  <2> QED
    BY <1>0, <2>1, <2>3 DEF StallInv
<1>14. ASSUME SetSendable PROVE StallInv'
  BY <1>0, <1>a, <1>14 DEF SetSendable, StallInv, Modes, Watched, Arming, Unwatched
<1>15. ASSUME UnlistenWritable PROVE StallInv'
  <2>0. /\ pc[Poller] = "unlisten" /\ pc'[Poller] \in {"idle", "flushed"}
        /\ armed' = (exclusive /\ armed)
        /\ UNCHANGED <<waiting, sending, tmp, wire, kernel, sendable, open, reset, exclusive,
                       report, mtx_sock, next, asked>>
    BY <1>a, <1>15 DEF UnlistenWritable, ModifyEvent
  <2>1. waiting = <<>> /\ sending = <<>> /\ tmp[Poller] = <<>>
    BY <1>0, <2>0 DEF Modes, LocalList
  <2>2. ~reset => asked <= Len(wire)
    BY <1>0, <1>a, <2>1, AllSent DEF Modes
  <2>3. sendable
    BY <1>0, <2>0 DEF Modes
  <2>4. Modes' /\ Watched' /\ Arming'
    BY <1>0, <1>a, <2>0, <2>1 DEF Modes, Watched, Arming
  <2>5. Unwatched'
    BY <1>a, <2>0, <2>1, <2>2, <2>3 DEF Unwatched
  <2> QED
    BY <1>0, <2>4, <2>5 DEF StallInv
<1>16. ASSUME OnFlushed \/ CallbackEnd PROVE StallInv'
  <2>0. /\ pc[Poller] \in {"idle", "flushed"} /\ pc'[Poller] = "idle"
        /\ UNCHANGED <<waiting, sending, wire, kernel, sendable, open, reset, exclusive, armed,
                       edge, report, mtx_sock, empty_waiting, next, asked>>
    BY <1>a, <1>16 DEF OnFlushed, CallbackEnd
  <2>1. Modes' /\ Watched' /\ Arming'
    BY <1>0, <2>0 DEF Modes, Watched, Arming
  <2>2. Unwatched'
    BY <1>0, <2>0 DEF Unwatched
  <2> QED
    BY <1>0, <2>1, <2>2 DEF StallInv
<1>17. ASSUME EnableRecv PROVE StallInv'
  BY <1>0, <1>a, <1>17 DEF EnableRecv, Free, StallInv, Modes, Watched, Arming, Unwatched
<1>18. ASSUME EnableRecvModify PROVE StallInv'
  <2>1. Modes' /\ Arming'
    BY <1>0, <1>a, <1>18 DEF Modes, Arming, EnableRecvModify, ModifyEvent
  <2>2. Watched'
    <3>1. kernel < KCap \/ kernel = KCap
      BY <1>0, ConstantsAssumption DEF TypeOK
    <3>2. \/ open' = open /\ reset' = reset /\ kernel' = kernel /\ armed' = TRUE
             /\ edge' = (kernel < KCap)
          \/ armed' = FALSE \/ ~open' \/ exclusive'
      <4>1. CASE pc[Poller] = "recv_on"
        BY <1>18, <4>1 DEF EnableRecvModify, ModifyEvent
      <4>2. CASE pc[Poller] # "recv_on"
        BY <1>18, <4>2 DEF EnableRecvModify, ModifyEvent
      <4> QED
        BY <4>1, <4>2
    <3> QED
      BY <1>a, <3>1, <3>2 DEF Watched
  <2>3. Unwatched'
    BY <1>0, <1>a, <1>18 DEF Unwatched, EnableRecvModify, ModifyEvent, Modes
  <2> QED
    BY <1>0, <2>1, <2>2, <2>3 DEF StallInv
<1>19. ASSUME EpollReport PROVE StallInv'
  <2>1. Modes'
    BY <1>0, <1>a, <1>19 DEF Modes, EpollReport, PollerIdle
  <2>2. Watched' /\ Arming'
    BY <1>0, <1>a, <1>19, ConstantsAssumption DEF Watched, Arming, EpollReport, PollerIdle, TypeOK
  <2>3. Unwatched'
    <3>1. /\ pc[Poller] = "idle" /\ pc'[Poller] = "idle"
          /\ UNCHANGED <<waiting, sending, wire, kernel, sendable, open, reset, exclusive, armed,
                         mtx_sock, asked>>
          /\ armed /\ (kernel < KCap \/ reset) => "write" \in report'
      BY <1>a, <1>19 DEF EpollReport, PollerIdle
    <3>2. kernel < KCap \/ kernel = KCap
      BY <1>0, ConstantsAssumption DEF TypeOK
    <3>3. Calm' => Calm
      BY <1>0, <1>a, <3>1, <3>2 DEF Modes
    <3> QED
      BY <1>0, <3>1, <3>3 DEF Unwatched
  <2> QED
    BY <1>0, <2>1, <2>2, <2>3 DEF StallInv
<1>20. ASSUME PeerTakes \/ PeerResets PROVE StallInv'
  <2>0. /\ UNCHANGED <<waiting, sending, wire, pc, mtx_sock, sendable, open, exclusive, armed,
                       report, empty_waiting, next, asked>>
        /\ reset => reset'
        /\ edge => edge'
        /\ kernel = KCap /\ armed => kernel' = KCap \/ edge'
    <3>1. CASE PeerTakes
      BY <1>a, <3>1 DEF PeerTakes
    <3>2. CASE PeerResets
      BY <3>2 DEF PeerResets
    <3> QED
      BY <1>20, <3>1, <3>2
  <2>1. Modes' /\ Arming'
    BY <1>0, <1>a, <2>0 DEF Modes, Arming
  <2>2. Watched'
    BY <1>0, <1>a, <1>20 DEF Watched, PeerTakes, PeerResets
  <2>3. Calm' => Calm
    BY <1>0, <1>a, <2>0 DEF Modes
  <2>4. Unwatched'
    BY <1>0, <2>0, <2>3 DEF Unwatched
  <2> QED
    BY <1>0, <2>1, <2>2, <2>4 DEF StallInv
<1>21. CASE UNCHANGED vars
  BY <1>0, <1>21 DEF vars, StallInv, Modes, Watched, Arming, Unwatched
<1> QED
  BY <1>0, <1>1, <1>2, <1>3, <1>4, <1>5, <1>6, <1>7, <1>8, <1>9, <1>10, <1>22, <1>11, <1>12, <1>13,
     <1>14, <1>15, <1>16, <1>17, <1>18, <1>19, <1>20, <1>21 DEF Next, FlushStep, PollerStep

\* NoStall: between two calls, a socket that owes its peer a buffer sent with try_flush is
\* watched for the writable event, and epoll has that event or will have it: the edge is not
\* used up, also where modifyEvent cannot make a new one. Where it can, the theorem needs
\* that nobody calls enableRecv(), or that every send() flushes.
THEOREM SendNeverStalls ==
  ASSUME User = {}, ~Toggles \/ TryFlush \subseteq {TRUE} \/ Exclusive \subseteq {TRUE}
  PROVE  Spec => []NoStall
<1>1. Init => StallInv
  BY StallInit
<1>2. StallInv /\ [Next]_vars => StallInv'
  BY StallStep
<1>3. StallInv => NoStall
  <2> SUFFICES ASSUME StallInv, open, ~reset, report = {}, AtPoller = "idle", Len(wire) < asked
               PROVE  armed /\ (edge \/ kernel = KCap)
    BY PollerIsThread DEF NoStall, AtPoller
  <2>1. ~Calm /\ armed
    BY LenProperties DEF StallInv, SingleInv, TypeOK, Modes, Unwatched, Calm
  <2> QED
    BY <2>1 DEF StallInv, Watched, Calm, Coming, FromEvent
<1> QED
  BY <1>1, <1>2, <1>3, PTL DEF Spec

-----------------------------------------------------------------------------
(* No buffer is lost, on any threads. *)

\* No buffer is twice in a list; two lists have no buffer in common.
Once(s) == \A i, j \in 1 .. Len(s) : s[i] = s[j] => i = j
Apart(s, t) == ToSet(s) \cap ToSet(t) = {}

\* While there was no error: every accepted buffer is in one list, once.
EachOnce ==
  /\ Once(wire) /\ Once(sending) /\ Once(waiting)
  /\ \A th \in Thread : Once(tmp[th])

\* No buffer is in two lists.
NoneTwice ==
  /\ Apart(wire, sending) /\ Apart(wire, waiting) /\ Apart(sending, waiting)
  /\ \A th \in Thread : Apart(tmp[th], wire) /\ Apart(tmp[th], sending) /\ Apart(tmp[th], waiting)
  /\ \A th, other \in Thread : th # other => Apart(tmp[th], tmp[other])

\* What send() accepted is in one of them.
NoneLost ==
  \A b :
    b \in 1 .. next - 1 <=> \/ b \in ToSet(wire) \/ b \in ToSet(sending) \/ b \in ToSet(waiting)
                           \/ \E th \in Thread : b \in ToSet(tmp[th])

\* A thread has a local list only inside flushData.
LocalLists ==
  \A th \in Thread :
    tmp[th] # <<>> => pc[th] \in {"write", "start", "listen", "rollback", "err", "close"}

\* The inductive invariant of Conservation, for any number of threads.
KeptInv ==
  /\ TypeOK /\ LocalLists /\ (errors = 0 => open)
  /\ errors = 0 => EachOnce /\ NoneTwice /\ NoneLost

\* The buffers of a list, by position.
LEMMA ToSetOf ==
  ASSUME NEW s \in Seq(Buffer)
  PROVE  /\ ToSet(s) = {s[i] : i \in 1 .. Len(s)}
         /\ Len(s) \in Nat
BY LenProperties DEF ToSet

\* An empty list has none.
LEMMA NoBuffer == ToSet(<<>>) = {} /\ Once(<<>>)
BY DEF ToSet, Once

\* Two lists without a common buffer may be joined.
LEMMA ConcatOnce ==
  ASSUME NEW s \in Seq(Buffer), NEW t \in Seq(Buffer)
  PROVE  /\ ToSet(s \o t) = ToSet(s) \cup ToSet(t)
         /\ Once(s) /\ Once(t) /\ Apart(s, t) => Once(s \o t)
<1>1. /\ s \o t \in Seq(Buffer) /\ Len(s \o t) = Len(s) + Len(t)
      /\ \A i \in 1 .. Len(s) + Len(t) : (s \o t)[i] = IF i <= Len(s) THEN s[i] ELSE t[i - Len(s)]
      /\ Len(s) \in Nat /\ Len(t) \in Nat
  BY ConcatProperties, LenProperties
<1> DEFINE u == s \o t
<1> HIDE DEF u
<1>2. \A i \in 1 .. Len(s) : i \in 1 .. Len(u) /\ u[i] = s[i]
  BY <1>1 DEF u
<1>3. ASSUME NEW j \in 1 .. Len(t) PROVE Len(s) + j \in 1 .. Len(u) /\ u[Len(s) + j] = t[j]
  <2>1. Len(s) + j \in 1 .. Len(u) /\ ~(Len(s) + j <= Len(s)) /\ (Len(s) + j) - Len(s) = j
    BY <1>1 DEF u
  <2> QED
    BY <1>1, <2>1 DEF u
<1>4. ASSUME NEW i \in 1 .. Len(u)
      PROVE  \/ i \in 1 .. Len(s) /\ u[i] = s[i]
             \/ \E j \in 1 .. Len(t) : i = Len(s) + j /\ u[i] = t[j]
  <2>1. CASE i <= Len(s)
    BY <1>1, <2>1 DEF u
  <2>2. CASE i > Len(s)
    <3>1. i - Len(s) \in 1 .. Len(t) /\ i = Len(s) + (i - Len(s))
      BY <1>1, <2>2 DEF u
    <3> QED
      BY <1>1, <2>2, <3>1 DEF u
  <2> QED
    BY <1>1, <2>1, <2>2 DEF u
<1>5. ToSet(u) = {u[i] : i \in 1 .. Len(u)} /\ ToSet(s) = {s[i] : i \in 1 .. Len(s)}
      /\ ToSet(t) = {t[i] : i \in 1 .. Len(t)}
  BY <1>1, ToSetOf DEF u
<1>6. ToSet(u) = ToSet(s) \cup ToSet(t)
  BY <1>2, <1>3, <1>4, <1>5
<1>7. ASSUME Once(s), Once(t), Apart(s, t) PROVE Once(u)
  <2> SUFFICES ASSUME NEW i \in 1 .. Len(u), NEW k \in 1 .. Len(u), u[i] = u[k] PROVE i = k
    BY DEF Once
  <2>1. CASE i \in 1 .. Len(s) /\ u[i] = s[i] /\ k \in 1 .. Len(s) /\ u[k] = s[k]
    BY <1>7, <2>1 DEF Once
  <2>2. CASE /\ \E j \in 1 .. Len(t) : i = Len(s) + j /\ u[i] = t[j]
             /\ \E j \in 1 .. Len(t) : k = Len(s) + j /\ u[k] = t[j]
    BY <1>7, <2>2 DEF Once
  <2>3. ASSUME NEW a \in 1 .. Len(s), NEW j \in 1 .. Len(t) PROVE s[a] # t[j]
    BY <1>5, <1>7 DEF Apart
  <2> QED
    BY <1>4, <2>1, <2>2, <2>3
<1> QED
  BY <1>6, <1>7 DEF u

\* A list cut in two gives two lists without a common buffer.
LEMMA SplitOnce ==
  ASSUME NEW s \in Seq(Buffer), NEW n \in 0 .. Len(s)
  PROVE  LET h == SubSeq(s, 1, n)
             b == SubSeq(s, n + 1, Len(s)) IN
         /\ ToSet(s) = ToSet(h) \cup ToSet(b)
         /\ Once(s) => Once(h) /\ Once(b) /\ Apart(h, b)
<1> DEFINE h == SubSeq(s, 1, n)
           b == SubSeq(s, n + 1, Len(s))
<1>1. h \in Seq(Buffer) /\ Len(h) = n /\ \A i \in 1 .. n : h[i] = s[i]
  BY SubSeqProperties
<1>2. Len(b) = Len(s) - n /\ b \in Seq(Buffer) /\ \A i \in 1 .. Len(s) - n : b[i] = s[n + i]
  BY SubSeqProperties
<1>3. Len(s) \in Nat
  BY LenProperties
<1> HIDE DEF h, b
<1>4. ToSet(s) = {s[i] : i \in 1 .. Len(s)} /\ ToSet(h) = {h[i] : i \in 1 .. Len(h)}
      /\ ToSet(b) = {b[i] : i \in 1 .. Len(b)}
  BY <1>1, <1>2, ToSetOf
<1>5. \A i \in 1 .. Len(h) : i \in 1 .. Len(s) /\ h[i] = s[i]
  BY <1>1, <1>3
<1>6. \A i \in 1 .. Len(b) : n + i \in 1 .. Len(s) /\ b[i] = s[n + i]
  BY <1>2, <1>3
<1>7. ASSUME NEW i \in 1 .. Len(s)
      PROVE  \/ i \in 1 .. Len(h) /\ h[i] = s[i]
             \/ \E j \in 1 .. Len(b) : b[j] = s[i]
  <2>1. CASE i <= n
    BY <1>1, <2>1
  <2>2. CASE i > n
    <3>1. i - n \in 1 .. Len(b) /\ n + (i - n) = i
      BY <1>2, <1>3, <2>2
    <3> QED
      BY <1>6, <3>1
  <2> QED
    BY <1>3, <2>1, <2>2
<1>8. ToSet(s) = ToSet(h) \cup ToSet(b)
  BY <1>4, <1>5, <1>6, <1>7, ZenonT(60)
<1>9. ASSUME Once(s) PROVE Once(h) /\ Once(b) /\ Apart(h, b)
  <2>1. Once(h)
    BY <1>5, <1>9 DEF Once
  <2>2. Once(b)
    <3> SUFFICES ASSUME NEW i \in 1 .. Len(b), NEW j \in 1 .. Len(b), b[i] = b[j] PROVE i = j
      BY DEF Once
    <3>1. n + i = n + j
      BY <1>6, <1>9 DEF Once
    <3> QED
      BY <3>1
  <2>3. ASSUME NEW i \in 1 .. Len(h), NEW j \in 1 .. Len(b) PROVE h[i] # b[j]
    <3>1. i # n + j
      BY <1>1
    <3> QED
      BY <1>5, <1>6, <1>9, <3>1 DEF Once
  <2>4. Apart(h, b)
    BY <1>4, <2>3 DEF Apart
  <2> QED
    BY <2>1, <2>2, <2>4
<1> QED
  BY <1>8, <1>9 DEF h, b

\* A new buffer may be appended.
LEMMA AppendOnce ==
  ASSUME NEW s \in Seq(Buffer), NEW b \in Buffer
  PROVE  /\ ToSet(Append(s, b)) = ToSet(s) \cup {b}
         /\ Once(s) /\ b \notin ToSet(s) => Once(Append(s, b))
<1>1. <<b>> \in Seq(Buffer) /\ Append(s, b) = s \o <<b>> /\ Len(<<b>>) = 1 /\ <<b>>[1] = b
  BY AppendIsConcat
<1> DEFINE t == <<b>>
<1>2. ToSet(t) = {b} /\ Once(t)
  BY <1>1, ToSetOf DEF Once
<1>3. t \in Seq(Buffer) /\ Append(s, b) = s \o t
  BY <1>1
<1> HIDE DEF t
<1>4. b \notin ToSet(s) => Apart(s, t)
  BY <1>2 DEF Apart
<1> QED
  BY <1>2, <1>3, <1>4, ConcatOnce

\* No buffer has been accepted at first.
LEMMA KeptInit == Init => KeptInv
<1> SUFFICES ASSUME Init PROVE KeptInv
  OBVIOUS
<1>1. TypeOK /\ \A th \in Thread : tmp[th] = <<>>
  BY TypeInit DEF Init
<1>2. ~ \E b : b \in 1 .. next - 1
  BY DEF Init
<1> QED
  BY <1>1, <1>2, NoBuffer DEF Init, KeptInv, LocalLists, EachOnce, NoneTwice, NoneLost, Apart

\* A step that moves no buffer.
LEMMA KeptQuiet ==
  ASSUME KeptInv, TypeOK', UNCHANGED <<waiting, sending, tmp, wire, next>>, LocalLists',
         errors' = errors, open' = open
  PROVE  KeptInv'
BY DEF KeptInv, EachOnce, NoneTwice, NoneLost, Apart, Once

\* One case per statement, of any thread.
LEMMA KeptStep == KeptInv /\ [Next]_vars => KeptInv'
<1> SUFFICES ASSUME KeptInv, [Next]_vars PROVE KeptInv'
  OBVIOUS
<1>0. TypeOK /\ TypeOK' /\ LocalLists /\ (errors = 0 => open)
  BY TypeStep DEF KeptInv
<1>a. /\ pc \in [Thread -> Place] /\ tmp \in [Thread -> Seq(Buffer)]
      /\ waiting \in Seq(Buffer) /\ sending \in Seq(Buffer) /\ wire \in Seq(Buffer)
      /\ next \in Nat /\ errors \in Nat
  BY <1>0, ConstantsAssumption DEF TypeOK
<1> USE PollerIsThread, NoBuffer
    DEF GoTo, Return, bufVars, sockVars, pollVars, lockVars, restVars, ghostVars
<1>1. ASSUME NEW th \in Thread, NEW try_flush \in TryFlush, Send(th, try_flush) PROVE KeptInv'
  <2>0. /\ waiting' = Append(waiting, next) /\ next' = next + 1 /\ next \in Buffer
        /\ UNCHANGED <<sending, tmp, wire, open, errors>>
    BY <1>0, <1>1, ConstantsAssumption DEF Send, TypeOK, Buffer
  <2>1. LocalLists'
    BY <1>0, <1>a, <1>1 DEF LocalLists, Send, Free
  <2>2. ASSUME errors = 0 PROVE EachOnce' /\ NoneTwice' /\ NoneLost'
    <3>0. EachOnce /\ NoneTwice /\ NoneLost
      BY <2>2 DEF KeptInv
    <3>1. /\ next \notin 1 .. next - 1 /\ \A b : b \in 1 .. next' - 1 <=> b \in 1 .. next - 1 \/ b = next
      BY <1>0, <2>0, ConstantsAssumption DEF TypeOK
    <3>2. /\ next \notin ToSet(wire) /\ next \notin ToSet(sending) /\ next \notin ToSet(waiting)
          /\ \A o \in Thread : next \notin ToSet(tmp[o])
      BY <3>0, <3>1 DEF NoneLost
    <3>3. ToSet(waiting') = ToSet(waiting) \cup {next} /\ Once(waiting')
      BY <1>a, <2>0, <3>0, <3>2, AppendOnce DEF EachOnce
    <3>4. EachOnce'
      BY <2>0, <3>0, <3>3 DEF EachOnce, Once
    <3>5. NoneTwice'
      BY <2>0, <3>0, <3>2, <3>3 DEF NoneTwice, Apart
    <3>6. NoneLost'
      BY <2>0, <3>0, <3>1, <3>3 DEF NoneLost
    <3> QED
      BY <3>4, <3>5, <3>6
  <2> QED
    BY <1>0, <2>0, <2>1, <2>2 DEF KeptInv
<1>2. ASSUME NEW th \in Thread, SendTimeout(th) \/ FlushAll(th) PROVE KeptInv'
  <2>1. LocalLists' /\ UNCHANGED <<waiting, sending, tmp, wire, next, errors, open>>
    BY <1>0, <1>a, <1>2 DEF LocalLists, SendTimeout, FlushAll
  <2> QED
    BY <1>0, <2>1, KeptQuiet
<1>3. ASSUME NEW th \in Thread, SwapSending(th) PROVE KeptInv'
  <2>0. /\ tmp[th] = <<>> /\ tmp' = [tmp EXCEPT ![th] = sending] /\ sending' = <<>>
        /\ UNCHANGED <<waiting, wire, open, errors, next>>
    BY <1>0, <1>a, <1>3 DEF SwapSending, LocalLists
  <2>1. LocalLists'
    BY <1>0, <1>a, <1>3 DEF LocalLists, SwapSending
  <2>2. ASSUME errors = 0 PROVE EachOnce' /\ NoneTwice' /\ NoneLost'
    <3>0. EachOnce /\ NoneTwice /\ NoneLost
      BY <2>2 DEF KeptInv
    <3>1. tmp'[th] = sending /\ \A o \in Thread : o # th => tmp'[o] = tmp[o]
      BY <1>a, <2>0
    <3>2. EachOnce'
      BY <2>0, <3>0, <3>1 DEF EachOnce, Once
    <3>3. NoneTwice'
      BY <2>0, <3>0, <3>1 DEF NoneTwice, Apart
    <3>4. NoneLost'
      BY <2>0, <3>0, <3>1 DEF NoneLost
    <3> QED
      BY <3>2, <3>3, <3>4
  <2> QED
    BY <1>0, <2>0, <2>1, <2>2 DEF KeptInv
<1>4. ASSUME NEW th \in Thread, LockWaiting(th) PROVE KeptInv'
  <2>1. LocalLists' /\ UNCHANGED <<waiting, sending, tmp, wire, next, errors, open>>
    BY <1>0, <1>a, <1>4 DEF LocalLists, LockWaiting
  <2> QED
    BY <1>0, <2>1, KeptQuiet
<1>5. ASSUME NEW th \in Thread, TakeWaiting(th) PROVE KeptInv'
  <2>0. /\ tmp[th] = <<>> /\ tmp' = [tmp EXCEPT ![th] = waiting] /\ waiting' = <<>>
        /\ UNCHANGED <<sending, wire, open, errors, next>>
    BY <1>0, <1>a, <1>5 DEF TakeWaiting, LocalLists
  <2>1. LocalLists'
    BY <1>0, <1>a, <1>5 DEF LocalLists, TakeWaiting
  <2>2. ASSUME errors = 0 PROVE EachOnce' /\ NoneTwice' /\ NoneLost'
    <3>0. EachOnce /\ NoneTwice /\ NoneLost
      BY <2>2 DEF KeptInv
    <3>1. tmp'[th] = waiting /\ \A o \in Thread : o # th => tmp'[o] = tmp[o]
      BY <1>a, <2>0
    <3>2. EachOnce'
      BY <2>0, <3>0, <3>1 DEF EachOnce, Once
    <3>3. NoneTwice'
      BY <2>0, <3>0, <3>1 DEF NoneTwice, Apart
    <3>4. NoneLost'
      BY <2>0, <3>0, <3>1 DEF NoneLost
    <3> QED
      BY <3>2, <3>3, <3>4
  <2> QED
    BY <1>0, <2>0, <2>1, <2>2 DEF KeptInv
<1>6. ASSUME NEW th \in Thread, Write(th) PROVE KeptInv'
  <2> DEFINE n == Fits(th)
             h == SubSeq(tmp[th], 1, n)
             b == SubSeq(tmp[th], n + 1, Len(tmp[th]))
  <2>0. /\ n \in 0 .. Len(tmp[th]) /\ wire' = wire \o h /\ tmp' = [tmp EXCEPT ![th] = b]
    BY <1>0, <1>6, WriteParts
  <2>1. pc[th] = "write" /\ UNCHANGED <<waiting, sending, open, errors, next>>
    BY <1>6 DEF Write
  <2>2. LocalLists'
    <3>1. n = Len(tmp[th]) => b = <<>>
      BY <1>a, <2>0, SubSeqEmpty, LenProperties
    <3>2. n # Len(tmp[th]) => pc'[th] \in {"rollback", "start"}
      BY <1>a, <1>6, LenProperties DEF Write, Fits
    <3>3. \A o \in Thread : o # th => pc'[o] = pc[o]
      BY <1>a, <1>6 DEF Write
    <3> HIDE DEF n, h, b
    <3> QED
      BY <1>0, <1>a, <2>0, <3>1, <3>2, <3>3 DEF LocalLists
  <2>3. ASSUME errors = 0 PROVE EachOnce' /\ NoneTwice' /\ NoneLost'
    <3>0. EachOnce /\ NoneTwice /\ NoneLost
      BY <2>3 DEF KeptInv
    <3>a. h \in Seq(Buffer) /\ b \in Seq(Buffer)
      BY <1>a, <2>0, SubSeqType
    <3>b. /\ ToSet(tmp[th]) = ToSet(h) \cup ToSet(b)
          /\ Once(h) /\ Once(b) /\ Apart(h, b)
      BY <1>a, <2>0, <3>0, SplitOnce DEF EachOnce
    <3> HIDE DEF n, h, b
    <3>1. tmp'[th] = b /\ \A o \in Thread : o # th => tmp'[o] = tmp[o]
      BY <1>a, <2>0
    <3>2. Apart(wire, h)
      BY <3>0, <3>b DEF NoneTwice, Apart
    <3>3. ToSet(wire') = ToSet(wire) \cup ToSet(h) /\ Once(wire')
      BY <1>a, <2>0, <3>0, <3>a, <3>b, <3>2, ConcatOnce DEF EachOnce
    <3>4. EachOnce'
      BY <2>1, <3>0, <3>1, <3>3, <3>b DEF EachOnce, Once
    <3>5. NoneTwice'
      BY <2>1, <3>0, <3>1, <3>3, <3>b DEF NoneTwice, Apart
    <3>6. NoneLost'
      BY <2>1, <3>0, <3>1, <3>3, <3>b DEF NoneLost
    <3> QED
      BY <3>4, <3>5, <3>6
  <2> QED
    BY <1>0, <2>1, <2>2, <2>3 DEF KeptInv
<1>7. ASSUME NEW th \in Thread, WriteFails(th) \/ ClearSendable(th) \/ ListenWritable(th)
      PROVE  KeptInv'
  <2>1. LocalLists' /\ UNCHANGED <<waiting, sending, tmp, wire, next, errors, open>>
    BY <1>0, <1>a, <1>7 DEF LocalLists, WriteFails, ClearSendable, ListenWritable, ModifyEvent
  <2> QED
    BY <1>0, <2>1, KeptQuiet
<1>8. ASSUME NEW th \in Thread, Rollback(th) PROVE KeptInv'
  <2>0. /\ sending' = tmp[th] \o sending /\ tmp' = [tmp EXCEPT ![th] = <<>>]
        /\ UNCHANGED <<waiting, wire, open, errors, next>>
    BY <1>8 DEF Rollback
  <2>1. LocalLists'
    BY <1>0, <1>a, <1>8 DEF LocalLists, Rollback
  <2>2. ASSUME errors = 0 PROVE EachOnce' /\ NoneTwice' /\ NoneLost'
    <3>0. EachOnce /\ NoneTwice /\ NoneLost
      BY <2>2 DEF KeptInv
    <3>1. tmp'[th] = <<>> /\ \A o \in Thread : o # th => tmp'[o] = tmp[o]
      BY <1>a, <2>0
    <3>2. ToSet(sending') = ToSet(tmp[th]) \cup ToSet(sending) /\ Once(sending')
      BY <1>a, <2>0, <3>0, ConcatOnce DEF EachOnce, NoneTwice
    <3>3. EachOnce'
      BY <2>0, <3>0, <3>1, <3>2 DEF EachOnce, Once
    <3>4. NoneTwice'
      BY <2>0, <3>0, <3>1, <3>2, ZenonT(60) DEF NoneTwice, Apart
    <3>5. NoneLost'
      BY <2>0, <3>0, <3>1, <3>2 DEF NoneLost
    <3> QED
      BY <3>3, <3>4, <3>5
  <2> QED
    BY <1>0, <2>0, <2>1, <2>2 DEF KeptInv
<1>9. ASSUME NEW th \in Thread, CheckOpen(th) PROVE KeptInv'
  <2>1. LocalLists' /\ errors' = errors /\ open' = open
    BY <1>0, <1>a, <1>9 DEF LocalLists, CheckOpen
  <2>2. CASE open
    <3>1. UNCHANGED <<waiting, sending, tmp, wire, next>>
      BY <1>9, <2>2 DEF CheckOpen
    <3> QED
      BY <1>0, <2>1, <3>1, KeptQuiet
  <2> QED
    BY <1>0, <2>1, <2>2 DEF KeptInv
<1>10. ASSUME NEW th \in Thread, CloseSock(th) PROVE KeptInv'
  <2>1. LocalLists' /\ errors' = errors + 1
    BY <1>0, <1>a, <1>10 DEF LocalLists, CloseSock
  <2>2. errors' # 0
    BY <1>a, <2>1
  <2> QED
    BY <1>0, <2>1, <2>2 DEF KeptInv
<1>11. ASSUME ReadEvent \/ WriteEvent \/ ErrorEvent PROVE KeptInv'
  <2>1. LocalLists' /\ UNCHANGED <<waiting, sending, tmp, wire, next, errors, open>>
    BY <1>0, <1>a, <1>11 DEF LocalLists, ReadEvent, WriteEvent, ErrorEvent, PollerIdle
  <2> QED
    BY <1>0, <2>1, KeptQuiet
<1>12. ASSUME PeekWaiting \/ PeekSending \/ SetSendable \/ UnlistenWritable PROVE KeptInv'
  <2>1. LocalLists' /\ UNCHANGED <<waiting, sending, tmp, wire, next, errors, open>>
    BY <1>0, <1>a, <1>12
    DEF LocalLists, PeekWaiting, PeekSending, SetSendable, UnlistenWritable, ModifyEvent
  <2> QED
    BY <1>0, <2>1, KeptQuiet
<1>13. ASSUME OnFlushed \/ CallbackEnd \/ EnableRecv \/ EnableRecvModify PROVE KeptInv'
  <2>1. LocalLists' /\ UNCHANGED <<waiting, sending, tmp, wire, next, errors, open>>
    BY <1>0, <1>a, <1>13
    DEF LocalLists, OnFlushed, CallbackEnd, EnableRecv, EnableRecvModify, Free, ModifyEvent
  <2> QED
    BY <1>0, <2>1, KeptQuiet
<1>14. ASSUME EpollReport \/ PeerTakes \/ PeerResets PROVE KeptInv'
  <2>1. LocalLists' /\ UNCHANGED <<waiting, sending, tmp, wire, next, errors, open>>
    BY <1>0, <1>a, <1>14 DEF LocalLists, EpollReport, PeerTakes, PeerResets
  <2> QED
    BY <1>0, <2>1, KeptQuiet
<1>15. CASE UNCHANGED vars
  <2>1. LocalLists' /\ UNCHANGED <<waiting, sending, tmp, wire, next, errors, open>>
    BY <1>0, <1>15 DEF LocalLists, vars
  <2> QED
    BY <1>0, <2>1, KeptQuiet
<1> QED
  BY <1>1, <1>2, <1>3, <1>4, <1>5, <1>6, <1>7, <1>8, <1>9, <1>10, <1>11, <1>12, <1>13,
     <1>14, <1>15 DEF Next, FlushStep, PollerStep, Thread

\* How often a buffer is in a list that holds none twice.
LEMMA OnceCount ==
  ASSUME NEW s \in Seq(Buffer), Once(s), NEW b
  PROVE  Cardinality({i \in DOMAIN s : s[i] = b}) = IF b \in ToSet(s) THEN 1 ELSE 0
<1>1. DOMAIN s = 1 .. Len(s)
  BY LenProperties
<1>2. CASE b \in ToSet(s)
  <2>1. PICK k \in 1 .. Len(s) : s[k] = b
    BY <1>1, <1>2 DEF ToSet
  <2>2. {i \in DOMAIN s : s[i] = b} = {k}
    BY <1>1, <2>1 DEF Once
  <2> QED
    BY <1>2, <2>2, FS_Singleton
<1>3. CASE b \notin ToSet(s)
  <2>1. {i \in DOMAIN s : s[i] = b} = {}
    BY <1>3 DEF ToSet
  <2> QED
    BY <1>3, <2>1, FS_EmptySet
<1> QED
  BY <1>2, <1>3

\* One list holds the buffer, at one place: the four counts add up to one.
LEMMA KeptConserves == KeptInv => Conservation
<1> SUFFICES ASSUME KeptInv, errors = 0, NEW b \in 1 .. next - 1
             PROVE  Cardinality({i \in DOMAIN wire : wire[i] = b})
                      + Cardinality({i \in DOMAIN sending : sending[i] = b})
                      + Cardinality({i \in DOMAIN waiting : waiting[i] = b})
                      + Cardinality({th \in Thread : b \in ToSet(tmp[th])}) = 1
  BY DEF Conservation
<1>1. /\ EachOnce /\ NoneTwice /\ NoneLost
      /\ waiting \in Seq(Buffer) /\ sending \in Seq(Buffer) /\ wire \in Seq(Buffer)
  BY DEF KeptInv, TypeOK
<1>2. /\ Cardinality({i \in DOMAIN wire : wire[i] = b}) = IF b \in ToSet(wire) THEN 1 ELSE 0
      /\ Cardinality({i \in DOMAIN sending : sending[i] = b}) = IF b \in ToSet(sending) THEN 1 ELSE 0
      /\ Cardinality({i \in DOMAIN waiting : waiting[i] = b}) = IF b \in ToSet(waiting) THEN 1 ELSE 0
  BY <1>1, OnceCount DEF EachOnce
<1> DEFINE holders == {th \in Thread : b \in ToSet(tmp[th])}
<1>3. CASE holders = {}
  <2>1. Cardinality(holders) = 0
    BY <1>3, FS_EmptySet
  <2>2. b \in ToSet(wire) \/ b \in ToSet(sending) \/ b \in ToSet(waiting)
    BY <1>1, <1>3 DEF NoneLost
  <2>3. /\ ~(b \in ToSet(wire) /\ b \in ToSet(sending)) /\ ~(b \in ToSet(wire) /\ b \in ToSet(waiting))
        /\ ~(b \in ToSet(sending) /\ b \in ToSet(waiting))
    BY <1>1 DEF NoneTwice, Apart
  <2> QED
    BY <1>2, <2>1, <2>2, <2>3
<1>4. CASE holders # {}
  <2>1. PICK th \in holders : TRUE
    BY <1>4
  <2>2. holders = {th}
    BY <1>1, <2>1 DEF NoneTwice, Apart
  <2>3. Cardinality(holders) = 1
    BY <2>2, FS_Singleton
  <2>4. b \notin ToSet(wire) /\ b \notin ToSet(sending) /\ b \notin ToSet(waiting)
    BY <1>1, <2>1 DEF NoneTwice, Apart
  <2> QED
    BY <1>2, <2>3, <2>4
<1> QED
  BY <1>3, <1>4

\* Conservation: with any number of threads in send() and flushData, and the poller thread
\* in onWriteAble, no accepted buffer is lost or duplicated while there was no error.
THEOREM SendConserves == Spec => []Conservation
<1>1. KeptInv => Conservation
  BY KeptConserves
<1> QED
  BY <1>1, KeptInit, KeptStep, PTL DEF Spec
=============================================================================
