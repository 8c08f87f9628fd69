----------------------------- MODULE BufferText -----------------------------
(***************************************************************************)
(* BufferLikeString of src/Network/Buffer.h: a string whose head and tail  *)
(* are erased by moving two offsets, so that erased bytes stay in _str and *)
(* an end mark is written over the first of them.  Next to it runs the     *)
(* text that a std::string would hold after the same calls.  Three calls   *)
(* work on _str and not on the content, and do something else when bytes   *)
(* of it are erased: resize(), insert() behind the content, and assign()   *)
(* of a part of _str that is not all content.  `departed` says that one of *)
(* them did; assign() of other bytes, erase() of all and clear() end it.   *)
(***************************************************************************)
EXTENDS SequencesExt, Integers

CONSTANTS Byte,
          Nul,      \* '\0'
          MaxLen,   \* bound: length of _str
          MaxCall   \* bound: calls

VARIABLES
  str,      \* _str
  head,     \* _erase_head
  tail,     \* _erase_tail
  text,     \* what a std::string would hold
  departed, \* the content is no more what a std::string would hold
  calls

vars == <<str, head, tail, text, departed, calls>>

Init ==
  str = <<>> /\ head = 0 /\ tail = 0 /\ text = <<>> /\ departed = FALSE /\ calls = 0

-----------------------------------------------------------------------------
Size == Len(str) - head - tail
Content == SubSeq(str, head + 1, head + Size)

Erased(t, from, n) == SubSeq(t, 1, from) \o SubSeq(t, from + n + 1, Len(t))

\* data()[size] = '\0', where size is what is left; one past the end is the string's own mark.
Marked(s, at) == IF at < Len(s) THEN [s EXCEPT ![at + 1] = Nul] ELSE s

Called == calls < MaxCall /\ calls' = calls + 1

\* After an assign() that threw, the offsets may overlap and size() wraps around.  Only the
\* calls that set the offsets anew are made then; what the others do is not modelled.
Sound == head + tail <= Len(str)

\* The std::string makes the same call; when the content has departed, it is of no use.
Likewise(t) == text' = (IF departed THEN text ELSE t) /\ UNCHANGED departed

\* erase(0, n), erase(0) and erase(pos, n) up to the end; beyond it they throw.
EraseHead(n) ==
  /\ Called /\ Sound /\ n <= Size
  /\ head' = head + n /\ str' = Marked(str, head + Size)
  /\ Likewise(Erased(text, 0, n))
  /\ UNCHANGED tail

EraseAll ==
  /\ Called
  /\ head' = 0 /\ tail' = Len(str) /\ str' = Marked(str, 0)
  /\ text' = <<>> /\ departed' = FALSE

\* Mutant: all that was erased before is forgotten.
EraseTailOnly(pos) ==
  /\ Called /\ Sound /\ pos \in 1 .. Size - 1
  /\ tail' = Size - pos /\ str' = Marked(str, head + pos)
  /\ Likewise(SubSeq(text, 1, pos))
  /\ UNCHANGED head

EraseTail(pos) ==
  /\ Called /\ Sound /\ pos \in 1 .. Size - 1
  /\ tail' = tail + Size - pos /\ str' = Marked(str, head + pos)
  /\ Likewise(SubSeq(text, 1, pos))
  /\ UNCHANGED head

EraseMiddle(pos, n) ==
  /\ Called /\ Sound /\ pos > 0 /\ pos + n < Size
  /\ str' = Erased(str, head + pos, n)
  /\ Likewise(Erased(text, pos, n))
  /\ UNCHANGED <<head, tail>>

\* append() of bytes that are not its own: first the head is given up if it is more than
\* half of the capacity, which is the length or more.
AppendText(data) ==
  /\ Called /\ Sound /\ Len(str) + Len(data) <= MaxLen /\ data # <<>>
  /\ \E move \in {FALSE, head > Len(str) \div 2} :
       LET s == IF move THEN SubSeq(str, head + 1, Len(str)) ELSE str
           h == IF move THEN 0 ELSE head IN
       /\ head' = h
       /\ str' = IF tail = 0 THEN s \o data
                 ELSE SubSeq(s, 1, h + Size) \o data \o SubSeq(s, h + Size + 1, Len(s))
  /\ Likewise(text \o data)
  /\ UNCHANGED tail

\* push_back over the first byte of the tail.
PushBack(c) ==
  /\ Called /\ Sound /\ Len(str) < MaxLen
  /\ IF tail = 0 THEN str' = Append(str, c) /\ UNCHANGED tail
     ELSE /\ tail' = tail - 1
          /\ str' = Marked([str EXCEPT ![head + Size + 1] = c], head + Size + 1)
  /\ Likewise(Append(text, c))
  /\ UNCHANGED head

Spliced(t, pos, data) == SubSeq(t, 1, pos) \o data \o SubSeq(t, pos + 1, Len(t))

\* The position is not compared with size(): behind the content the bytes go into the erased
\* tail, and the content grows over it.  Behind _str the call throws, as a std::string's does
\* behind its own end, and nothing has changed.
Insert(pos, data) ==
  /\ Called /\ Sound /\ Len(str) + Len(data) <= MaxLen
  /\ str' = IF head + pos <= Len(str) THEN Spliced(str, head + pos, data) ELSE str
  /\ IF pos <= Size THEN Likewise(Spliced(text, pos, data))
     ELSE departed' = (departed \/ head + pos <= Len(str)) /\ UNCHANGED text
  /\ UNCHANGED <<head, tail>>

\* assign() of other bytes.
Assign(data) ==
  /\ Called /\ data # <<>>
  /\ str' = data /\ head' = 0 /\ tail' = 0 /\ text' = data /\ departed' = FALSE

\* assign() of n bytes of _str, those behind the first `at`: only the offsets move.  They may
\* reach into what was erased; if they reach behind _str, the call throws when it has moved
\* the head.  To a std::string such bytes are none of its own.
AssignOwn(at, n) ==
  /\ Called /\ n > 0 /\ at < Len(str)
  /\ head' = at
  /\ tail' = IF at + n <= Len(str) THEN Len(str) - at - n ELSE tail
  /\ IF head <= at /\ at + n <= head + Size
     THEN Likewise(SubSeq(text, at - head + 1, at - head + n))
     ELSE departed' = TRUE /\ UNCHANGED text
  /\ UNCHANGED str

Clear ==
  Called /\ str' = <<>> /\ head' = 0 /\ tail' = 0 /\ text' = <<>> /\ departed' = FALSE

Resized(t, n) == [i \in 1 .. n |-> IF i <= Len(t) THEN t[i] ELSE Nul]

\* resize() works on _str: what was erased is there again.
Resize(n) ==
  /\ Called /\ n <= MaxLen
  /\ str' = Resized(str, n) /\ head' = 0 /\ tail' = 0
  /\ text' = Resized(text, n)
  /\ departed' = (departed \/ head + tail > 0)

\* substr(), which throws beyond the end.
Substr(pos, n) == SubSeq(str, head + pos + 1, head + pos + n)

Data == UNION {[1 .. n -> Byte] : n \in 1 .. 2}

Next ==
  \/ EraseAll \/ Clear
  \/ \E n \in 0 .. MaxLen : EraseHead(n) \/ Resize(n)
  \/ \E pos \in 1 .. MaxLen : EraseTail(pos) \/ \E n \in 1 .. MaxLen : EraseMiddle(pos, n)
  \/ \E at \in 0 .. MaxLen, n \in 1 .. MaxLen : AssignOwn(at, n)
  \/ \E data \in Data : AppendText(data) \/ Assign(data) \/ \E pos \in 0 .. MaxLen : Insert(pos, data)
  \/ \E c \in Byte : PushBack(c)

Spec == Init /\ [][Next]_vars

-----------------------------------------------------------------------------
\* Whatever was erased, and although end marks are written over bytes of _str, the content
\* is that of a std::string, and substr() finds it where it is: until one of the three calls
\* departs from it, and again from the next call that makes the text anew.
BufferTextRight ==
  ~departed =>
  /\ Sound /\ Content = text
  /\ \A pos \in 0 .. Size : \A n \in 0 .. Size - pos : Substr(pos, n) = SubSeq(text, pos + 1, pos + n)
=============================================================================
