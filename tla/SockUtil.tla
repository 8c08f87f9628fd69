------------------------------ MODULE SockUtil ------------------------------
(***************************************************************************)
(* SockUtil (src/Network/sockutil.cpp): connect, listen and bindUdpSock,   *)
(* which several threads call at once, with the cache of resolved names    *)
(* they share and the descriptors they open.  An address is 4 or 6, its    *)
(* family, or Any; one name is resolved, whose address changes in time.    *)
(***************************************************************************)
EXTENDS Integers, Sequences

CONSTANTS
  Thread,
  Fd,          \* descriptor numbers of the process
  Expire,      \* expire_sec
  MaxTime,     \* bound: ticks of the clock
  MaxCall      \* bound: calls

Any == 0
NoItem == [version |-> 0, create_time |-> 0, late |-> 0]   \* late: stored so long after the answer
Idle == [at |-> "idle", fd |-> 0, family |-> 0, async |-> FALSE, local |-> Any, host |-> "",
         item |-> NoItem]

VARIABLES
  now,
  since,        \* since when the name has had each of its addresses
  calls,        \* calls made
  thread,       \* what each thread is doing
  cache,        \* _dns_cache, for the one name
  ipv6,         \* the static flag of support_ipv6; "" before it is asked for
  open,         \* descriptors open
  held          \* what was returned to a caller: [fd, bound, local, call]

vars == <<now, since, calls, thread, cache, ipv6, open, held>>

Init ==
  /\ now = 0 /\ since = <<0>> /\ calls = 0
  /\ thread = [t \in Thread |-> Idle]
  /\ cache = NoItem /\ ipv6 = "" /\ open = {} /\ held = {}

Now(t, r) == thread' = [thread EXCEPT ![t] = r]

Tick ==
  /\ now < MaxTime /\ now' = now + 1
  /\ UNCHANGED <<since, calls, thread, cache, ipv6, open, held>>

(* External: the name gets another address. *)
Renamed ==
  /\ Len(since) < 2 /\ since' = Append(since, now)
  /\ UNCHANGED <<now, calls, thread, cache, ipv6, open, held>>

-----------------------------------------------------------------------------
Connect(t, host, async) ==   \* from a local IPv4 address
  /\ thread[t].at = "idle" /\ calls < MaxCall
  /\ calls' = calls + 1
  /\ Now(t, [Idle EXCEPT !.at = "resolve", !.host = host, !.async = async, !.local = 4])
  /\ UNCHANGED <<now, since, cache, ipv6, open, held>>

(* listen and bindUdpSock: whether there is IPv6 is found out once, with a socket
   that may fail for other reasons. *)
Listen(t, local) ==
  /\ thread[t].at = "idle" /\ calls < MaxCall
  /\ calls' = calls + 1
  /\ ipv6' \in IF ipv6 = "" THEN {"yes", "no"} ELSE {ipv6}
  /\ Now(t, [Idle EXCEPT !.at = "socket", !.local = local, !.host = "listen",
                         !.family = IF ipv6' = "yes" /\ local # 4 THEN 6 ELSE 4])
  /\ UNCHANGED <<now, since, cache, open, held>>

(* getPerferredAddress: the first one of IPv4, or else the first. *)
Preferred(answer) == IF 4 \in answer THEN 4 ELSE 6

(* Mutant: an item is used one second longer. *)
ValidLonger(item) == item # NoItem /\ item.create_time + Expire + 1 >= now

Valid(item) == item # NoItem /\ item.create_time + Expire >= now

(* getCacheDomainIP, under the lock; an item that is too old is erased. *)
GetCacheDomainIP(t) ==
  /\ thread[t].at = "resolve" /\ thread[t].host = "name"
  /\ IF Valid(cache)
     THEN /\ \E answer \in {{4}, {6}, {4, 6}} :
               Now(t, [thread[t] EXCEPT !.at = "socket", !.host = "", !.item = NoItem,
                                           !.family = Preferred(answer)])
          /\ UNCHANGED cache
     ELSE cache' = NoItem /\ Now(t, [thread[t] EXCEPT !.at = "system"])
  /\ UNCHANGED <<now, since, calls, ipv6, open, held>>

(* make_sockaddr: an address needs no resolver. *)
MakeSockaddr(t) ==
  /\ thread[t].at = "resolve" /\ thread[t].host = "6"
  /\ Now(t, [thread[t] EXCEPT !.at = "socket", !.host = "", !.family = 6])
  /\ UNCHANGED <<now, since, calls, cache, ipv6, open, held>>

(* getSystemDomainIP, without a lock: several threads may ask for the same name. *)
GetSystemDomainIP(t) ==
  /\ thread[t].at = "system"
  /\ \/ Now(t, Idle)
     \/ Now(t, [thread[t] EXCEPT !.at = "store",
                                 !.item = [NoItem EXCEPT !.version = Len(since), !.create_time = now]])
  /\ UNCHANGED <<now, since, calls, cache, ipv6, open, held>>

(* setCacheDomainIP: the last one wins, whoever asked first. *)
SetCacheDomainIP(t) ==
  /\ thread[t].at = "store"
  /\ cache' = [thread[t].item EXCEPT !.late = now - thread[t].item.create_time, !.create_time = now]
  /\ \E answer \in {{4}, {6}, {4, 6}} :
       Now(t, [thread[t] EXCEPT !.at = "socket", !.host = "", !.item = NoItem,
                                           !.family = Preferred(answer)])
  /\ UNCHANGED <<now, since, calls, ipv6, open, held>>

-----------------------------------------------------------------------------
Socket(t) ==
  /\ thread[t].at = "socket"
  /\ \/ Now(t, Idle) /\ UNCHANGED open
     \/ \E f \in Fd \ open : Now(t, [thread[t] EXCEPT !.at = "bind", !.fd = f]) /\ open' = open \cup {f}
  /\ UNCHANGED <<now, since, calls, cache, ipv6, held>>

(* bind_sock4 and bind_sock6: a local address that is not of the family of the
   socket stands for any. *)
Bound(r) == IF r.local = r.family THEN r.local ELSE Any

Returned(t) ==
  [fd |-> thread[t].fd, bound |-> Bound(thread[t]), local |-> thread[t].local,
   call |-> IF thread[t].host = "listen" THEN "listen" ELSE "connect"]

Bind(t) ==
  /\ thread[t].at = "bind"
  /\ \/ Now(t, [thread[t] EXCEPT !.at = "use"]) /\ UNCHANGED open
     \/ Now(t, Idle) /\ open' = open \ {thread[t].fd}
  /\ UNCHANGED <<now, since, calls, cache, ipv6, held>>

(* ::connect or ::listen.  A connection that is under way is good enough if the
   call is asynchronous. *)
Use(t) ==
  /\ thread[t].at = "use"
  /\ \E outcome \in {"done", "under way", "failed"} :
       IF outcome = "done" \/ (outcome = "under way" /\ thread[t].async)
       THEN held' = held \cup {Returned(t)} /\ UNCHANGED open
       ELSE open' = open \ {thread[t].fd} /\ UNCHANGED held
  /\ Now(t, Idle)
  /\ UNCHANGED <<now, since, calls, cache, ipv6>>

Close(h) ==
  /\ held' = held \ {h} /\ open' = open \ {h.fd}
  /\ UNCHANGED <<now, since, calls, thread, cache, ipv6>>

Next ==
  \/ Tick \/ Renamed
  \/ \E h \in held : Close(h)
  \/ \E t \in Thread :
       \/ \E host \in {"name", "6"}, async \in BOOLEAN : Connect(t, host, async)
       \/ \E local \in {Any, 4, 6} : Listen(t, local)
       \/ GetCacheDomainIP(t) \/ MakeSockaddr(t) \/ GetSystemDomainIP(t) \/ SetCacheDomainIP(t)
       \/ Socket(t) \/ Bind(t) \/ Use(t)

Spec == Init /\ [][Next]_vars

-----------------------------------------------------------------------------
TypeOK ==
  /\ now \in 0 .. MaxTime /\ calls \in 0 .. MaxCall /\ open \subseteq Fd
  /\ cache.version \in 0 .. 2 /\ ipv6 \in {"", "yes", "no"}
  /\ \A t \in Thread : thread[t].at \in {"idle", "resolve", "system", "store", "socket", "bind", "use"}

(* A descriptor is open as long as one caller or one call has it: none is lost
   where a step of a call fails, none is closed twice or given to two. *)
NoneLost ==
  /\ open = {h.fd : h \in held} \cup ({thread[t].fd : t \in Thread} \ {0})
  /\ \A g, h \in held : g.fd = h.fd => g = h
  /\ \A t \in Thread : thread[t].fd # 0 => /\ \A h \in held : h.fd # thread[t].fd
                                          /\ \A u \in Thread \ {t} : thread[u].fd # thread[t].fd

(* An address that the name no longer has is served from the cache for at most the
   time of expiry, and what passed between the answer and its storing: however
   often the item is used, and whichever thread's answer came last. *)
NotStale ==
  [][\A t \in Thread :
       (thread[t].at = "resolve" /\ thread[t].host = "name" /\ thread'[t].at = "socket"
          /\ cache.version < Len(since))
         => now <= since[cache.version + 1] + Expire + cache.late]_vars

(* Where there is IPv6, whoever listens does so on the address that was asked for;
   where it was not found, an IPv6 address becomes every IPv4 address. *)
ListensAsAsked ==
  \A h \in held : h.call = "listen" => (h.bound = h.local \/ (ipv6 = "no" /\ h.local = 6))

SockUtilRight == TypeOK /\ NoneLost /\ ListensAsAsked
=============================================================================
