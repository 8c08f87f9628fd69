------------------------------- MODULE SSLBox -------------------------------
(***************************************************************************)
(* src/Util/SSLBox.cpp: SSL_Box between an application and a socket, on    *)
(* both ends of a connection.  What comes from the network goes into one   *)
(* memory BIO and what OpenSSL wants to send comes out of another;         *)
(* flush() moves data through both, is called on every entry and does      *)
(* nothing when it is called from one of its own callbacks.                *)
(*                                                                         *)
(* OpenSSL is the peer's: four flights of handshake, then a record for     *)
(* each buffer, of two cells, which the network may deliver apart.         *)
(***************************************************************************)
EXTENDS SequencesExt, FiniteSets, Integers

CONSTANTS MaxSend,    \* bound: buffers of the client's application
          MaxOwn,     \* bound: buffers the server's application sends unasked
          BufSize     \* cells that a buffer of _buff_size holds

VARIABLES
  send,       \* _buffer_send
  wbio,       \* _write_bio
  rbio,       \* _read_bio
  phase,      \* flights this side has seen, its own among them
  begun,      \* _send_handshake of the client
  net,        \* what the peer's socket was given and has not delivered
  got,        \* what _on_dec gave to the application
  given       \* what the application gave to onSend

vars == <<send, wbio, rbio, phase, begun, net, got, given>>

Side == {"client", "server"}
Peer(s) == IF s = "client" THEN "server" ELSE "client"

\* A record, flight i of the handshake or buffer n, is on the wire as two cells.
Cells(kind, n) == <<<<kind, n, 1>>, <<kind, n, 2>>>>

Init ==
  /\ send = [s \in Side |-> <<>>] /\ wbio = send /\ rbio = send /\ net = send /\ got = send
  /\ given = send
  /\ phase = [s \in Side |-> 0] /\ begun = FALSE

-----------------------------------------------------------------------------
\* One box and what it has handed over: to the application and to the socket.
Box(s) == [side |-> s, send |-> send[s], wbio |-> wbio[s], rbio |-> rbio[s], phase |-> phase[s],
           net |-> net[Peer(s)], got |-> got[s], given |-> given[s]]

\* SSL_is_init_finished: the server has seen flight 3 (and made the last), the client all.
Finished(b) == b.phase = 4

\* SSL_do_handshake, or SSL_read on a flight: the next one is answered.
Handshake(b) ==
  LET own == b.phase + 1 IN
  IF own > 4 THEN b ELSE [b EXCEPT !.phase = own, !.wbio = @ \o Cells("flight", own)]

\* _on_dec: the server's application answers a buffer at once with another.  onSend only
\* puts it on the list: the flush() that is running does the rest.
OnDec(b, n) ==
  LET read == [b EXCEPT !.got = Append(@, n)] IN
  IF b.side = "server" THEN [read EXCEPT !.send = Append(@, -n), !.given = Append(@, -n)] ELSE read

\* SSL_read until it has no whole record: flushReadBio.
RECURSIVE FlushReadBio(_)
FlushReadBio(b) ==
  IF Len(b.rbio) < 2 THEN b
  ELSE LET rest == [b EXCEPT !.rbio = SubSeq(@, 3, Len(@))] IN
       FlushReadBio(IF b.rbio[1][1] = "flight" THEN Handshake([rest EXCEPT !.phase = @ + 1])
                    ELSE OnDec(rest, b.rbio[1][2]))

\* Mutant: what does not fit into one buffer stays for the next flush().
FlushWriteBioOnce(b) ==
  LET n == IF Len(b.wbio) < BufSize THEN Len(b.wbio) ELSE BufSize IN
  [b EXCEPT !.net = @ \o SubSeq(b.wbio, 1, n), !.wbio = SubSeq(@, n + 1, Len(@))]

\* flushWriteBio calls itself until _write_bio is empty: buffer after buffer to _on_enc.
FlushWriteBio(b) == [b EXCEPT !.net = @ \o b.wbio, !.wbio = <<>>]

\* SSL_write of each buffer of the list.
RECURSIVE Encrypt(_)
Encrypt(b) ==
  IF b.send = <<>> THEN b
  ELSE Encrypt(FlushWriteBio([b EXCEPT !.wbio = @ \o Cells("data", Head(b.send)), !.send = Tail(@)]))

Flush(b) ==
  LET read == FlushReadBio(b) IN
  IF ~Finished(read) \/ read.send = <<>> THEN FlushWriteBio(read) ELSE Encrypt(read)

Becomes(s, b) ==
  /\ send' = [send EXCEPT ![s] = b.send] /\ wbio' = [wbio EXCEPT ![s] = b.wbio]
  /\ rbio' = [rbio EXCEPT ![s] = b.rbio] /\ phase' = [phase EXCEPT ![s] = b.phase]
  /\ got' = [got EXCEPT ![s] = b.got] /\ given' = [given EXCEPT ![s] = b.given]

\* onSend; the client's first begins the handshake.
OnSend(s) ==
  LET n == IF s = "client" THEN Len(given[s]) + 1 ELSE 100 + Len(given[s])
      first == s = "client" /\ ~begun
      box == IF first THEN Handshake(Box(s)) ELSE Box(s)
      b == Flush([box EXCEPT !.send = Append(@, n), !.given = Append(@, n)]) IN
  /\ IF s = "client" THEN n <= MaxSend ELSE Cardinality({i \in 1 .. Len(given[s]) : given[s][i] > 0}) < MaxOwn
  /\ begun' = (begun \/ first)
  /\ Becomes(s, b)
  /\ net' = [net EXCEPT ![Peer(s)] = b.net]

\* The network delivers k cells to onRecv.
OnRecv(s) ==
  \E k \in 1 .. Len(net[s]) :
    LET b == Flush([Box(s) EXCEPT !.rbio = @ \o SubSeq(net[s], 1, k)]) IN
    /\ Becomes(s, b)
    /\ net' = [net EXCEPT ![s] = SubSeq(@, k + 1, Len(@)), ![Peer(s)] = b.net]
    /\ UNCHANGED begun

Next == \E s \in Side : OnSend(s) \/ OnRecv(s)

Spec == Init /\ [][Next]_vars

-----------------------------------------------------------------------------
\* The other application gets what was sent, in order, however the network cuts it up.
InOrder == \A s \in Side : got[s] = SubSeq(given[Peer(s)], 1, Len(got[s]))

\* When the network has nothing more and the handshake was begun, all is delivered: also what
\* was sent before the handshake ended, and from inside a callback.
NothingLeft ==
  (\A s \in Side : net[s] = <<>>) /\ begun
    => \A s \in Side : got[s] = given[Peer(s)] /\ send[s] = <<>> /\ wbio[s] = <<>>
=============================================================================
