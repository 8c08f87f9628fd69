------------------------------ MODULE UdpCast ------------------------------
(***************************************************************************)
(* src/Communcation/UDPImp.cpp as a sender and as a member of a group:     *)
(* init() closes the socket of the init() before, makes another, asks the  *)
(* kernel for what the cast type needs and has the poller watch it; any of *)
(* these steps may fail.  Socket is one and the same all the time, with    *)
(* the datagrams the kernel has not taken yet, and goes on sending them.   *)
(* init(), send() and shutdown() hold m_send_mutex from end to end.        *)
(***************************************************************************)
EXTENDS Sequences, FiniteSets, Integers

CONSTANTS Host, Group,   \* places a datagram can be sent to; those that can be joined
          MaxInit,       \* bound: calls of init() and shutdown()
          MaxSend        \* bound: datagrams

\* An address is a family and a place; what cannot be parsed stands for any place.
AnyHost == "any"
Address == {4, 6} \X (Host \cup Group \cup {AnyHost})
Param == [cast : {"uni", "broad", "multi", "else"}, local : {4, 6}, target : Address]
NoParam == [cast |-> "uni", local |-> 4, target |-> <<4, AnyHost>>]
NoSock == [family |-> 0, broadcast |-> FALSE, ttl |-> FALSE, out |-> FALSE, loop |-> FALSE, joined |-> {},
           watched |-> FALSE]

VARIABLES
  calls,      \* calls of init() and shutdown() so far
  param,      \* m_udpIntParam
  step,       \* where init() stands
  sock,       \* _sock_fd of m_pUDP and what the kernel has for it
  inited,     \* m_hasInited
  sendAddr,   \* what m_pSendAddr points to
  given,      \* datagrams given to send()
  waiting,    \* _send_buf_waiting: [n, addr, meant]
  sending,    \* the one BufferList of _send_buf_sending
  wire        \* what the kernel took

vars == <<calls, param, step, sock, inited, sendAddr, given, waiting, sending, wire>>

initVars == <<calls, param, step, sock, inited, sendAddr>>
sendVars == <<given, waiting, sending, wire>>

Init ==
  /\ calls = 0 /\ param = NoParam /\ step = "idle" /\ sock = NoSock /\ inited = FALSE
  /\ sendAddr = NoParam.target
  /\ given = 0 /\ waiting = <<>> /\ sending = <<>> /\ wire = <<>>

-----------------------------------------------------------------------------
(* init() and shutdown().                                                  *)

\* Mutant: what the last init() reached is still taken for granted.
ShutdownKept == sock' = NoSock /\ UNCHANGED inited

Shutdown == sock' = NoSock /\ inited' = FALSE

ShutdownCall ==
  /\ step = "idle" /\ calls < MaxInit
  /\ calls' = calls + 1
  /\ Shutdown
  /\ UNCHANGED <<param, step, sendAddr, sendVars>>

\* init() up to toSockAddress, whose result nobody looks at.
InitCall(p) ==
  /\ step = "idle" /\ calls < MaxInit
  /\ calls' = calls + 1
  /\ param' = p /\ sendAddr' = p.target
  /\ Shutdown
  /\ step' = "bind"
  /\ UNCHANGED sendVars

Fails == step' = "idle"

\* The new socket has the family of the local address; the old one is closed by now.
NewUdpSockWithBinding == sock' = [NoSock EXCEPT !.family = param.local]

BindSock ==
  /\ step = "bind"
  /\ \/ NewUdpSockWithBinding /\ step' = "cast"
     \/ Fails /\ UNCHANGED sock
  /\ UNCHANGED <<calls, param, inited, sendAddr, sendVars>>

SetBroadcast == sock' = [sock EXCEPT !.broadcast = TRUE]

\* Options of IPv6 are for sockets of IPv6; anything else may be refused as well.  IPv6 asks for
\* its loop by the name of the IPv4 option, which Linux always refuses.
MayFail(s, t) ==
  {[ok |-> FALSE, sock |-> s]} \cup (IF param.target[1] = 4 \/ s.family = 6 THEN {[ok |-> TRUE, sock |-> t]} ELSE {})
SetMultiTTL(s) == MayFail(s, [s EXCEPT !.ttl = TRUE])
SetMultiIF(s) == MayFail(s, [s EXCEPT !.out = TRUE])
SetMultiLOOP(s) == MayFail(s, [s EXCEPT !.loop = TRUE])

\* That IP_MULTICAST_IF failed is not noticed; what was set before an error stays.
SetMultiProperties ==
  UNION {IF ttl.ok THEN UNION {SetMultiLOOP(out.sock) : out \in SetMultiIF(ttl.sock)} ELSE {ttl} :
           ttl \in SetMultiTTL(sock)}

\* Only a group can be joined.
JoinMultiAddr(s) ==
  IF param.target[2] \in Group THEN MayFail(s, [s EXCEPT !.joined = @ \cup {param.target}])
  ELSE {[ok |-> FALSE, sock |-> s]}

InitCast ==
  /\ step = "cast"
  /\ \/ param.cast = "uni" /\ step' = "attach" /\ UNCHANGED sock
     \/ param.cast = "broad" /\ step' = "attach" /\ SetBroadcast
     \/ /\ param.cast = "multi"
        /\ \E multi \in SetMultiProperties :
             IF multi.ok
             THEN \E joined \in JoinMultiAddr(multi.sock) :
                    sock' = joined.sock /\ step' = IF joined.ok THEN "attach" ELSE "idle"
             ELSE sock' = multi.sock /\ Fails
     \/ param.cast \in {"broad", "else"} /\ Fails /\ UNCHANGED sock
  /\ UNCHANGED <<calls, param, inited, sendAddr, sendVars>>

\* setAttach; that data is read, and how, is UdpReceive's.
SetAttach ==
  /\ step = "attach" /\ step' = "idle"
  /\ \/ sock' = [sock EXCEPT !.watched = TRUE] /\ inited' = TRUE
     \/ UNCHANGED <<sock, inited>>
  /\ UNCHANGED <<calls, param, sendAddr, sendVars>>

-----------------------------------------------------------------------------
(* send() and the poller.                                                  *)

\* An IPv4 socket cannot send to an IPv6 address.
Takes(d) == d.addr[1] = 4 \/ sock.family = 6

\* flushData: the kernel takes the first k datagrams of the batch; the rest is kept if it
\* was busy, and given up as a whole if it refused the next one.
Flush(batch, rest) ==
  \E k \in 0 .. Len(batch) :
    /\ \A i \in 1 .. k : Takes(batch[i])
    /\ wire' = wire \o SubSeq(batch, 1, k)
    /\ waiting' = rest
    /\ \/ /\ k < Len(batch) => Takes(batch[k + 1])
          /\ sending' = SubSeq(batch, k + 1, Len(batch))
       \/ k < Len(batch) /\ sending' = <<>>

FlushData(list) == IF sending # <<>> THEN Flush(sending, list) ELSE Flush(list, <<>>)

\* The address is copied into the packet (BufferSock); the socket may not be sendable.
Send ==
  /\ step = "idle" /\ inited /\ given < MaxSend
  /\ given' = given + 1
  /\ LET list == Append(waiting, [n |-> given + 1, addr |-> sendAddr, meant |-> param.target]) IN
     FlushData(list) \/ (waiting' = list /\ UNCHANGED <<sending, wire>>)
  /\ UNCHANGED initVars

\* The poller calls as soon as the socket can be written, the new one too.
OnWriteAble ==
  /\ sock.watched /\ (waiting # <<>> \/ sending # <<>>)
  /\ FlushData(waiting)
  /\ UNCHANGED <<initVars, given>>

Next ==
  \/ ShutdownCall \/ BindSock \/ InitCast \/ SetAttach \/ Send \/ OnWriteAble
  \/ \E p \in Param : InitCall(p)

Spec == Init /\ [][Next]_vars

-----------------------------------------------------------------------------
\* After an init() that succeeded, and only then, send() works: on a socket that is watched
\* and has what its cast type needs, and nothing of an earlier one.
Ready ==
  inited =>
    /\ step = "idle" /\ sock.watched /\ sock.family = param.local
    /\ sock.broadcast = (param.cast = "broad")
    /\ IF param.cast = "multi" THEN sock.joined = {param.target} /\ sock.ttl /\ sock.loop /\ (param.target[1] = 6 => sock.family = 6)
       ELSE sock.joined = {}

\* A datagram the kernel did not take at once goes to the target it was meant for, also
\* when init() has named another since, and none is overtaken by a later one.
ToTarget ==
  /\ \A i \in 1 .. Len(wire) : wire[i].addr = wire[i].meant
  /\ LET all == wire \o sending \o waiting IN
     \A i, j \in 1 .. Len(all) : i < j => all[i].n < all[j].n

UdpCastRight == Ready /\ ToTarget
=============================================================================
