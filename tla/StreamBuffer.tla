---------------------------- MODULE StreamBuffer ----------------------------
(***************************************************************************)
(* src/Util/StreamBuffer.cpp: a stream of bytes that arrives in pieces of  *)
(* any size is cut into frames of one length that begin with a header.     *)
(* What is unread is moved to the front of the buffer when a piece does    *)
(* not fit behind it.  The application reads between two pieces, all there *)
(* is or less.  append() does not look whether what is unread and the new  *)
(* piece fit together: if they do not, it copies past the end of the array *)
(* and over the object's other members, and what the object is from then   *)
(* on, nobody knows.                                                       *)
(***************************************************************************)
EXTENDS SequencesExt, Integers

CONSTANTS Byte,
          Header,           \* headers that init() is called with
          FrameLen,         \* frame lengths that init() is called with
          FRAME_HEAD_LEN,   \* bytes that m_head has room for
          TotalBufferLen,   \* m_totalBufferLen
          MaxStream         \* bound: bytes of a stream

VARIABLES
  head,     \* m_head, as far as m_headValidLen
  frameLen, \* m_frameLen; 0 before init() and after release()
  buffer,   \* m_dataBuffer up to m_endPos
  start,    \* m_startPos
  stream,   \* all that arrived since init() or clearBuffer()
  frames,   \* all that getNextFrame returned of it
  drained,  \* the last getNextFrame returned false
  overrun   \* append() has written past the end of m_dataBuffer

vars == <<head, frameLen, buffer, start, stream, frames, drained, overrun>>

Init ==
  /\ head = <<>> /\ frameLen = 0 /\ buffer = <<>> /\ start = 0
  /\ stream = <<>> /\ frames = <<>> /\ drained = FALSE
  /\ overrun = FALSE

-----------------------------------------------------------------------------
Emptied == buffer' = <<>> /\ start' = 0 /\ stream' = <<>> /\ frames' = <<>> /\ drained' = FALSE

\* Too long a header is refused, but the answer is 1, that is true, and the object stays
\* what it was.
InitStream(h, n) ==
  /\ n > 0 /\ ~overrun
  /\ IF Len(h) > FRAME_HEAD_LEN THEN UNCHANGED vars
     ELSE head' = h /\ frameLen' = n /\ Emptied /\ UNCHANGED overrun

Release ==
  /\ ~overrun
  /\ head' = <<>> /\ frameLen' = 0
  /\ Emptied /\ UNCHANGED overrun

ClearBuffer == ~overrun /\ Emptied /\ UNCHANGED <<head, frameLen, overrun>>

Unread == SubSeq(buffer, start + 1, Len(buffer))

\* Too long a piece is ignored.  The array ends behind TotalBufferLen bytes, and m_startPos,
\* m_endPos and m_totalBufferLen lie behind it.
AppendData(data) ==
  /\ ~overrun /\ Len(stream) + Len(data) <= MaxStream
  /\ IF Len(data) >= TotalBufferLen THEN UNCHANGED <<buffer, start, stream, overrun>>
     ELSE /\ stream' = stream \o data
          /\ IF Len(buffer) + Len(data) <= TotalBufferLen
             THEN buffer' = buffer \o data /\ UNCHANGED start
             ELSE buffer' = Unread \o data /\ start' = 0
          /\ overrun' = (Len(buffer') > TotalBufferLen)
  /\ drained' = FALSE
  /\ UNCHANGED <<head, frameLen, frames>>

IsHead(pos) == pos + Len(head) <= Len(buffer) /\ SubSeq(buffer, pos + 1, pos + Len(head)) = head

\* Mutant: the search gives up the bytes in which a header may have begun.
FindOrDrop ==
  LET at == {p \in start .. Len(buffer) - Len(head) : IsHead(p)} IN
  IF at # {} THEN CHOOSE p \in at : \A q \in at : p <= q ELSE Len(buffer)

\* findStartFrameHeaderPos: the first header from m_startPos on; if there is none, the place
\* where one may have begun.
FindStartFrameHeaderPos ==
  LET at == {p \in start .. Len(buffer) - Len(head) : IsHead(p)} IN
  IF at # {} THEN CHOOSE p \in at : \A q \in at : p <= q
  ELSE IF Len(Unread) < Len(head) THEN start ELSE Len(buffer) - Len(head) + 1

\* Before init() and after release() the frames are of no bytes, and there is no end of them;
\* they are not recorded.
GetNextFrame ==
  /\ ~overrun
  /\ LET pos == IF Len(Unread) < frameLen \/ head = <<>> THEN start ELSE FindStartFrameHeaderPos
         whole == Len(Unread) >= frameLen /\ IsHead(pos) /\ Len(buffer) - pos >= frameLen IN
     IF whole
     THEN /\ frames' = IF frameLen = 0 THEN frames
                      ELSE Append(frames, SubSeq(buffer, pos + 1, pos + frameLen))
          /\ start' = pos + frameLen /\ drained' = FALSE
     ELSE start' = pos /\ drained' = TRUE /\ UNCHANGED frames
  /\ UNCHANGED <<head, frameLen, buffer, stream, overrun>>

Piece == UNION {[1 .. n -> Byte] : n \in 1 .. TotalBufferLen}

Next ==
  \/ Release \/ ClearBuffer \/ GetNextFrame
  \/ \E h \in Header, n \in FrameLen : InitStream(h, n)
  \/ \E data \in Piece : AppendData(data)

Spec == Init /\ [][Next]_vars

-----------------------------------------------------------------------------
\* The frames of a whole stream, however it was cut: from `pos` on, each header with the
\* bytes that follow it, and after it the next.
HeaderAt(pos) ==
  {p \in pos .. Len(stream) - frameLen :
     p + Len(head) <= Len(stream) /\ SubSeq(stream, p + 1, p + Len(head)) = head}

Frames[pos \in 0 .. Len(stream)] ==
  IF HeaderAt(pos) = {} THEN <<>>
  ELSE LET p == CHOOSE q \in HeaderAt(pos) : \A r \in HeaderAt(pos) : q <= r IN
       <<SubSeq(stream, p + 1, p + frameLen)>> \o Frames[p + frameLen]

\* The application gets the frames of the stream in order, and when there is no next one all
\* of them: none is missed or cut in two where two pieces meet or the buffer was moved.  It is
\* so until append() is given more than there is room for beside what is unread.
StreamBufferRight ==
  frameLen > 0 /\ ~overrun =>
    /\ IsPrefix(frames, Frames[0])
    /\ drained => frames = Frames[0]
=============================================================================
