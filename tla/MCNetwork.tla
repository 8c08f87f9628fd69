----------------------------- MODULE MCNetwork ------------------------------
(***************************************************************************)
(* Instances for TLC of what an application holds, a UDPImp (UdpReceive) or*)
(* an ITCP (TcpFacade), of sockets and of what they are made with, names,  *)
(* texts and packets, and of what is told to many.  UdpReceive and five of *)
(* the units come with their theorems, from NetworkProofs.  `unit` says    *)
(* which of them a behaviour is about; the others stay as they started.    *)
(***************************************************************************)
EXTENDS NetworkProofs

CONSTANTS
  MaxSet, MaxBuffer, QueueSize, Fd, Expire, MaxTime, MaxCall, Octets, Groups, Chars,
  MaxText, MaxAdapter, MaxPacket, MaxLen, IOV_MAX, Byte, FrameLen, TotalBufferLen,
  MaxStream, FRAME_HEAD_LEN, Nul, MaxLength, MaxEdit, Octet, Foreign, MaxOctets, Block, WordBits, MaxPiece,
  MaxMessage, Facade, Drifted, ReadSize, Small, ReadLength, MaxObject, MaxRead

VARIABLES
  unit,
  tcp_d_ptr, tcp_tcp_type, tcp_to_recv, tcp_detach, tcp_func, tcp_sets, tcp_poller,
  tcp_posting, tcp_queue, tcp_jobs, tcp_worker, tcp_taken, tcp_received, tcp_delivered,
  tcp_dropped, tcp_skipped,
  sock_now, sock_since, sock_calls, sock_thread, sock_cache, sock_ipv6, sock_open, sock_held,
  addr_text, addr_adapters,
  pack_class, pack_udp, pack_len, pack_first, pack_iov, pack_iovOff, pack_remain,
  pack_offset, pack_pc, pack_sent, pack_returned, pack_wire, pack_told,
  stream_head, stream_frameLen, stream_buffer, stream_start, stream_stream, stream_frames,
  stream_drained, stream_overrun,
  text_str, text_head, text_tail, text_text, text_departed, text_calls,
  base_at, base_given, base_next, base_bits, base_shift, base_text, base_foreign, base_out,
  hash_md5, hash_fed, hash_sha1, hash_given, hash_result,
  reads_objs, reads_free, reads_shared, reads_reads, reads_reading, reads_tasks,
  reads_sends, reads_given, reads_delivered, reads_made

tcpVars ==
  <<tcp_d_ptr, tcp_tcp_type, tcp_to_recv, tcp_detach, tcp_func, tcp_sets, tcp_poller,
    tcp_posting, tcp_queue, tcp_jobs, tcp_worker, tcp_taken, tcp_received, tcp_delivered,
    tcp_dropped, tcp_skipped>>
sockVars ==
  <<sock_now, sock_since, sock_calls, sock_thread, sock_cache, sock_ipv6, sock_open,
    sock_held>>
addrVars ==
  <<addr_text, addr_adapters>>
packVars ==
  <<pack_class, pack_udp, pack_len, pack_first, pack_iov, pack_iovOff, pack_remain,
    pack_offset, pack_pc, pack_sent, pack_returned, pack_wire, pack_told>>
streamVars ==
  <<stream_head, stream_frameLen, stream_buffer, stream_start, stream_stream,
    stream_frames, stream_drained, stream_overrun>>
textVars ==
  <<text_str, text_head, text_tail, text_text, text_departed, text_calls>>
baseVars ==
  <<base_at, base_given, base_next, base_bits, base_shift, base_text, base_foreign, base_out>>
hashVars ==
  <<hash_md5, hash_fed, hash_sha1, hash_given, hash_result>>
readsVars ==
  <<reads_objs, reads_free, reads_shared, reads_reads, reads_reading, reads_tasks,
    reads_sends, reads_given, reads_delivered, reads_made>>

Tcp == INSTANCE TcpFacade WITH
  MaxData <- MaxBuffer, d_ptr <- tcp_d_ptr, tcp_type <- tcp_tcp_type,
  to_recv <- tcp_to_recv, detach <- tcp_detach, func <- tcp_func, sets <- tcp_sets,
  poller <- tcp_poller, posting <- tcp_posting, queue <- tcp_queue, jobs <- tcp_jobs,
  worker <- tcp_worker, taken <- tcp_taken, received <- tcp_received,
  delivered <- tcp_delivered, dropped <- tcp_dropped, skipped <- tcp_skipped

Sock == INSTANCE SockUtil WITH
  Thread <- Threads, now <- sock_now, since <- sock_since, calls <- sock_calls,
  thread <- sock_thread, cache <- sock_cache, ipv6 <- sock_ipv6, open <- sock_open,
  held <- sock_held

Addr == INSTANCE NetAddress WITH
  text <- addr_text, adapters <- addr_adapters

Pack == INSTANCE Packets WITH
  class <- pack_class, udp <- pack_udp, len <- pack_len, first <- pack_first,
  iov <- pack_iov, iovOff <- pack_iovOff, remain <- pack_remain, offset <- pack_offset,
  pc <- pack_pc, sent <- pack_sent, returned <- pack_returned, wire <- pack_wire,
  told <- pack_told

Heads == {<<1>>, <<1, 2>>, <<1, 1>>, <<1, 1, 2>>}
Stream == INSTANCE StreamBuffer WITH
  Header <- Heads, head <- stream_head, frameLen <- stream_frameLen,
  buffer <- stream_buffer, start <- stream_start, stream <- stream_stream,
  frames <- stream_frames, drained <- stream_drained, overrun <- stream_overrun

Text == INSTANCE BufferText WITH
  MaxLen <- MaxLength, MaxCall <- MaxEdit, str <- text_str, head <- text_head,
  tail <- text_tail, text <- text_text, departed <- text_departed, calls <- text_calls

Base == INSTANCE Base64 WITH
  Byte <- Octet, Other <- Foreign, MaxLen <- MaxOctets, at <- base_at, given <- base_given,
  next <- base_next, bits <- base_bits, shift <- base_shift, text <- base_text,
  foreign <- base_foreign, out <- base_out

Hash == INSTANCE Digest WITH
  W <- WordBits, md5 <- hash_md5, fed <- hash_fed, sha1 <- hash_sha1, given <- hash_given,
  result <- hash_result

Reads == INSTANCE ReadBuffer WITH
  Size <- ReadSize, Length <- ReadLength, objs <- reads_objs, free <- reads_free,
  shared <- reads_shared, reads <- reads_reads, reading <- reads_reading,
  tasks <- reads_tasks, sends <- reads_sends, given <- reads_given,
  delivered <- reads_delivered, made <- reads_made

NetworkInit ==
  /\ unit \in {"udp", "tcp", "sock", "addr", "pack", "ring", "notice", "cast", "accept", "stream", "text",
                 "base", "hash", "reads", "rate"}
  /\ Init
  /\ Tcp!Init
  /\ Sock!Init
  /\ Addr!Init
  /\ Pack!Init
  /\ Ring!Init
  /\ Notice!Init
  /\ Cast!Init
  /\ Accept!Init
  /\ Stream!Init
  /\ Text!Init
  /\ Base!Init
  /\ Hash!Init
  /\ Reads!Init
  /\ Rate!Init

NetworkNext ==
  /\ UNCHANGED unit
  /\ IF unit = "udp" THEN Next ELSE UNCHANGED vars
  /\ IF unit = "tcp" THEN Tcp!Next ELSE UNCHANGED tcpVars
  /\ IF unit = "sock" THEN Sock!Next ELSE UNCHANGED sockVars
  /\ IF unit = "addr" THEN Addr!Next ELSE UNCHANGED addrVars
  /\ IF unit = "pack" THEN Pack!Next ELSE UNCHANGED packVars
  /\ IF unit = "ring" THEN Ring!Next ELSE UNCHANGED ringVars
  /\ IF unit = "notice" THEN Notice!Next ELSE UNCHANGED noticeVars
  /\ IF unit = "cast" THEN Cast!Next ELSE UNCHANGED castVars
  /\ IF unit = "accept" THEN Accept!Next ELSE UNCHANGED acceptVars
  /\ IF unit = "stream" THEN Stream!Next ELSE UNCHANGED streamVars
  /\ IF unit = "text" THEN Text!Next ELSE UNCHANGED textVars
  /\ IF unit = "base" THEN Base!Next ELSE UNCHANGED baseVars
  /\ IF unit = "hash" THEN Hash!Next ELSE UNCHANGED hashVars
  /\ IF unit = "reads" THEN Reads!Next ELSE UNCHANGED readsVars
  /\ IF unit = "rate" THEN Rate!Next ELSE UNCHANGED rateVars

networkVars == <<unit, vars, tcpVars, sockVars, addrVars, packVars, ringVars, noticeVars,
             castVars, acceptVars, streamVars, textVars, baseVars, hashVars, readsVars,
             rateVars>>

NetworkSpec ==
  /\ NetworkInit /\ [][NetworkNext]_networkVars
  /\ Tcp!Fairness

(* What TcpFacade promises of the functions and the data of a TCP object. *)
TcpFacadeRight ==
  /\ [](Tcp!TypeOK /\ Tcp!NotReplaced /\ Tcp!BuffersInOrder)
  /\ Tcp!Delivered

(* Names that are resolved and kept, texts that are addresses, and the adapters of the host. *)
AddressRight == [](Sock!SockUtilRight /\ Addr!NetAddressRight) /\ Sock!NotStale

(* Packets that the kernel takes in pieces, frames that arrive in pieces, a string that is
   erased at both ends, bytes written as characters, messages that are digested in pieces,
   and the buffer that all the sockets of a poller read into. *)
BuffersRight ==
  /\ Pack!PacketsRight /\ Stream!StreamBufferRight /\ Text!BufferTextRight
  /\ Base!Base64Right /\ Hash!DigestRight /\ Reads!ReadBufferRight
=============================================================================
