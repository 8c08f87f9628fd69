----------------------------- MODULE NetAddress -----------------------------
(***************************************************************************)
(* What SockUtil (src/Network/sockutil.cpp) makes of addresses: the texts  *)
(* inet_pton4 and inet_pton6 read, and what it finds in the list of        *)
(* network adapters.  A text is a sequence of digits and signs; an address *)
(* has Octets bytes, or 2 * Groups, in place of four and sixteen.          *)
(***************************************************************************)
EXTENDS Integers, Sequences, SequencesExt

CONSTANTS
  Octets, Groups,
  Chars,         \* what a text is made of
  MaxText,       \* bound: length of a text
  MaxAdapter     \* bound: number of adapters

Dot == 16
Colon == 17
Other == 18
Failed == <<>>   \* UV_EINVAL

VARIABLES
  text,          \* the text read so far
  adapters       \* SIOCGIFCONF: [name, ip, size] of each adapter

vars == <<text, adapters>>

Init == text = <<>> /\ adapters = <<>>

-----------------------------------------------------------------------------
(* Mutant: 256 is let through. *)
Digit4Wide(s, d) ==
  LET nw == s.val * 10 + d IN
    IF (s.saw_digit /\ s.val = 0) \/ nw > 256 \/ (~s.saw_digit /\ s.octets = Octets)
    THEN [s EXCEPT !.ok = FALSE]
    ELSE [s EXCEPT !.val = nw, !.saw_digit = TRUE, !.octets = IF s.saw_digit THEN @ ELSE @ + 1]

Digit4(s, d) ==
  LET nw == s.val * 10 + d IN
    IF (s.saw_digit /\ s.val = 0) \/ nw > 255 \/ (~s.saw_digit /\ s.octets = Octets)
    THEN [s EXCEPT !.ok = FALSE]
    ELSE [s EXCEPT !.val = nw, !.saw_digit = TRUE, !.octets = IF s.saw_digit THEN @ ELSE @ + 1]

Dot4(s) ==
  IF s.octets = Octets THEN [s EXCEPT !.ok = FALSE]
  ELSE [s EXCEPT !.bytes = Append(@, s.val), !.val = 0, !.saw_digit = FALSE]

inet_pton4(src) ==
  LET end == FoldLeft(LAMBDA s, ch : IF ~s.ok THEN s
                                     ELSE IF ch \in 0 .. 9 THEN Digit4(s, ch)
                                     ELSE IF ch = Dot /\ s.saw_digit THEN Dot4(s)
                                     ELSE [s EXCEPT !.ok = FALSE],
                      [ok |-> TRUE, bytes |-> <<>>, val |-> 0, saw_digit |-> FALSE, octets |-> 0], src)
  IN IF end.ok /\ end.octets = Octets THEN Append(end.bytes, end.val) ELSE Failed

Word(val) == <<(val \div 256) % 256, val % 256>>

(* One character of inet_pton6; `rest` is the text from here on.  colonp is where
   the double colon stands, in bytes, or -1. *)
Char6(s, ch, rest) ==
  IF ch \in 0 .. 15
  THEN IF s.seen = 4 THEN [s EXCEPT !.ok = FALSE]
                     ELSE [s EXCEPT !.val = 16 * @ + ch, !.seen = @ + 1]
  ELSE IF ch = Colon
  THEN IF s.seen = 0
       THEN IF s.colonp # -1 THEN [s EXCEPT !.ok = FALSE]
            ELSE [s EXCEPT !.colonp = Len(s.bytes), !.curtok = Tail(rest)]
       ELSE IF Tail(rest) = <<>> \/ Len(s.bytes) + 2 > 2 * Groups THEN [s EXCEPT !.ok = FALSE]
            ELSE [s EXCEPT !.bytes = @ \o Word(s.val), !.seen = 0, !.val = 0, !.curtok = Tail(rest)]
  ELSE IF ch = Dot /\ Len(s.bytes) + Octets <= 2 * Groups /\ inet_pton4(s.curtok) # Failed
  THEN [s EXCEPT !.bytes = @ \o inet_pton4(s.curtok), !.seen = 0, !.done = TRUE]
  ELSE [s EXCEPT !.ok = FALSE]

inet_pton6(src) ==
  LET body == IF src # <<>> /\ Head(src) = Colon THEN Tail(src) ELSE src
      first == /\ src # <<>> /\ Head(src) = Colon => body # <<>> /\ Head(body) = Colon
      start == [ok |-> first, bytes |-> <<>>, val |-> 0, seen |-> 0, colonp |-> -1,
                curtok |-> body, done |-> FALSE]
      end == FoldLeft(LAMBDA s, i : IF ~s.ok \/ s.done THEN s
                                    ELSE Char6(s, body[i], SubSeq(body, i, Len(body))),
                      start, [i \in 1 .. Len(body) |-> i])
      fits == end.seen = 0 \/ Len(end.bytes) + 2 <= 2 * Groups
      bytes == IF end.seen # 0 THEN end.bytes \o Word(end.val) ELSE end.bytes
      gap == 2 * Groups - Len(bytes)
  IN IF ~end.ok \/ ~fits THEN Failed
     ELSE IF end.colonp = -1 THEN IF gap = 0 THEN bytes ELSE Failed
     ELSE IF gap = 0 THEN Failed
     ELSE SubSeq(bytes, 1, end.colonp) \o [i \in 1 .. gap |-> 0]
            \o SubSeq(bytes, end.colonp + 1, Len(bytes))

Type(c) ==
  /\ Len(text) < MaxText /\ adapters = <<>>
  /\ text' = Append(text, c)
  /\ UNCHANGED adapters

-----------------------------------------------------------------------------
(* Addresses of adapters are numbers; 0 and 1 are 0.0.0.0 and 127.0.0.1, and those
   of Private are of the ranges of classes B and C that are private. *)
Ip == 0 .. 7
Private == {4, 5}
Adapter == [name : {"en0", "eth", "docker"}, ip : Ip, size : {1, 2}]

AddAdapter(a) ==
  /\ Len(adapters) < MaxAdapter /\ text = <<>>
  /\ adapters' = Append(adapters, a)
  /\ UNCHANGED text

(* check_ip takes any address that is not local, and is content with a private one. *)
get_local_ip ==
  FoldLeft(LAMBDA s, a : IF s.found \/ a.name = "docker" \/ a.ip \in {0, 1} THEN s
                         ELSE [address |-> a.ip, found |-> a.ip \in Private],
           [address |-> 1, found |-> FALSE], adapters).address

Named(name) == SelectSeq(adapters, LAMBDA a : a.name = name)

get_ifr_name(ip) ==
  LET with == SelectSeq(adapters, LAMBDA a : a.ip = ip)
  IN IF with = <<>> THEN "en0" ELSE Head(with).name

(* The size of the network a mask stands for; without a mask inet_addr gives all
   ones, and each address is a network of its own. *)
get_ifr_mask(name) == IF Named(name) = <<>> THEN 1 ELSE Head(Named(name)).size

in_same_lan(myIp, dstIp) ==
  LET size == get_ifr_mask(get_ifr_name(myIp)) IN myIp \div size = dstIp \div size

Next ==
  \/ \E c \in Chars : Type(c)
  \/ \E a \in Adapter : AddAdapter(a)

Spec == Init /\ [][Next]_vars

-----------------------------------------------------------------------------
(* References: an address is read if it can be cut into the right number of parts,
   each of them a number without a leading zero. *)
Number(s, base, max) ==
  /\ s # <<>> /\ \A i \in 1 .. Len(s) : s[i] < base
  /\ FoldLeft(LAMBDA v, d : v * base + d, 0, s) <= max
Value(s, base) == FoldLeft(LAMBDA v, d : v * base + d, 0, s)

Cuts(s, sep) ==
  LET at == <<0>> \o SelectSeq([i \in 1 .. Len(s) |-> i], LAMBDA i : s[i] = sep) \o <<Len(s) + 1>>
  IN [k \in 1 .. Len(at) - 1 |-> SubSeq(s, at[k] + 1, at[k + 1] - 1)]

Is4(s) ==
  LET p == Cuts(s, Dot) IN
    /\ Len(p) = Octets
    /\ \A i \in 1 .. Octets : Number(p[i], 10, 255) /\ (Len(p[i]) > 1 => p[i][1] # 0)

(* Groups between single colons, the last one an IPv4 address perhaps; their bytes,
   or Failed. *)
Grouped(s, last) ==
  LET p == Cuts(s, Colon)
      Good(i) == \/ Len(p[i]) \in 1 .. 4 /\ Number(p[i], 16, 65535)
                 \/ last /\ i = Len(p) /\ Is4(p[i])
  IN IF s = <<>> THEN <<>>
     ELSE IF \E i \in 1 .. Len(p) : ~Good(i) THEN <<-1>>
     ELSE FlattenSeq([i \in 1 .. Len(p) |->
                        IF Len(p[i]) \in 1 .. 4 /\ Number(p[i], 16, 65535) THEN Word(Value(p[i], 16))
                        ELSE [k \in 1 .. Octets |-> Value(Cuts(p[i], Dot)[k], 10)]])

Reference6(s) ==
  LET doubles == {i \in 1 .. Len(s) - 1 : s[i] = Colon /\ s[i + 1] = Colon}
      at == CHOOSE i \in doubles : TRUE
      left == Grouped(SubSeq(s, 1, at - 1), FALSE)
      right == Grouped(SubSeq(s, at + 2, Len(s)), TRUE)
      gap == 2 * Groups - Len(left) - Len(right)
  IN IF doubles = {} THEN IF Len(Grouped(s, TRUE)) = 2 * Groups THEN Grouped(s, TRUE) ELSE Failed
     ELSE IF left = <<-1>> \/ right = <<-1>> \/ gap <= 0 THEN Failed
     ELSE left \o [i \in 1 .. gap |-> 0] \o right

(* The two hand-written parsers, character by character with one look ahead, read
   exactly what the references say, and read its value. *)
Parses ==
  /\ (inet_pton4(text) # Failed) = Is4(text)
  /\ inet_pton4(text) # Failed =>
       \A i \in 1 .. Octets : inet_pton4(text)[i] = Value(Cuts(text, Dot)[i], 10)
  /\ inet_pton6(text) = Reference6(text)

(* The address that is taken for the machine's own: the first private one of an
   adapter, then the last one that is not local; and who is in its network. *)
OwnAddress ==
  LET own == SelectSeq(adapters, LAMBDA a : a.name # "docker" /\ a.ip \notin {0, 1})
      private == SelectSeq(own, LAMBDA a : a.ip \in Private)
  IN /\ get_local_ip = IF private # <<>> THEN Head(private).ip
                       ELSE IF own # <<>> THEN Last(own).ip ELSE 1
     /\ \A i, j \in 1 .. Len(adapters) :
          (\A k \in 1 .. Len(adapters) : k # i => /\ adapters[k].name # adapters[i].name
                                                  /\ adapters[k].ip # adapters[i].ip)
            => in_same_lan(adapters[i].ip, adapters[j].ip) =
                 (adapters[i].ip \div adapters[i].size = adapters[j].ip \div adapters[i].size)

NetAddressRight == Parses /\ OwnAddress
=============================================================================
