------------------------------- MODULE Digest -------------------------------
(***************************************************************************)
(* What MD5 (src/Util/MD5.cpp) and SHA1 (src/Util/SHA1.cpp) do with a      *)
(* message that comes in pieces: the buffer of a block, the counters, the  *)
(* padding.  What a block does to the digest is left out: a digest is the  *)
(* sequence of the blocks it was made of.  Byte k of a message is k.  The  *)
(* sizes are scaled down: a block of 64 bytes is Block, the 8 bytes of the *)
(* length are 2, and a word of 32 bits is 2^W.                             *)
(***************************************************************************)
EXTENDS SequencesExt, Integers

CONSTANTS Block, W,  \* 8 * Block divides 2^W as 512 divides 2^32
          MaxPiece,  \* bound: bytes of a piece
          MaxMessage \* bound: bytes of a message

VARIABLES
  md5,   \* MD5: [count, buffer, state, finalized, digest]
  fed,   \* bytes that MD5 was given
  sha1,  \* SHA1: [digest, buffer, transforms]
  given, \* bytes that SHA1 was given since its last final()
  result \* of the last final(): [bytes, digest]

vars == <<md5, fed, sha1, given, result>>

Eighty == -1                            \* 0x80
Zeros(n) == [i \in 1 .. n |-> 0]
Length(word) == 1000 + word             \* a word of the length, in place of its four bytes
Bytes(from, n) == [i \in 1 .. n |-> from + i]

Init ==
  /\ md5 = [count |-> <<0, 0>>, buffer |-> Zeros(Block), state |-> <<>>,
            finalized |-> FALSE, digest |-> <<>>]
  /\ sha1 = [digest |-> <<>>, buffer |-> <<>>, transforms |-> 0]
  /\ fed = 0 /\ given = 0 /\ result = [bytes |-> 0, digest |-> <<>>]

-----------------------------------------------------------------------------
\* The two digests share nothing: a behaviour is about one of them.
OnlyMd5 == given = 0 /\ result.digest = <<>>
OnlySha1 == fed = 0 /\ ~md5.finalized

\* Mutant: the bits that leave the lower word are not carried.
CountLost(count, length) == <<(count[1] + 8 * length) % (2 ^ W), count[2] + (length \div (2 ^ (W - 3)))>>
\* Two words of bits: a carry is seen by the sum being less than what was added.
Count(count, length) ==
  LET bits == (8 * length) % (2 ^ W)
      low == (count[1] + bits) % (2 ^ W)
      carry == IF low < bits THEN 1 ELSE 0 IN
  <<low, (count[2] + carry + (length \div (2 ^ (W - 3)))) % (2 ^ W)>>

Index(m) == (m.count[1] \div 8) % Block
CopyTo(buffer, index, input) ==
  [i \in 1 .. Block |-> IF i \in index + 1 .. index + Len(input) THEN input[i - index] ELSE buffer[i]]

\* MD5::update: the buffer is filled first, then blocks are taken from the input itself.
Update(m, input) ==
  LET length == Len(input)
      firstpart == Block - Index(m)
      filled == CopyTo(m.buffer, Index(m), SubSeq(input, 1, firstpart))
      more == (length - firstpart) \div Block
      blocks == [k \in 1 .. more |-> SubSeq(input, firstpart + (k - 1) * Block + 1, firstpart + k * Block)]
      rest == SubSeq(input, firstpart + more * Block + 1, length)
      counted == [m EXCEPT !.count = Count(@, length)] IN
  IF length >= firstpart
  THEN [counted EXCEPT !.state = @ \o <<filled>> \o blocks, !.buffer = CopyTo(filled, 0, rest)]
  ELSE [counted EXCEPT !.buffer = CopyTo(@, Index(m), input)]

UpdateMd5(n) ==
  /\ OnlyMd5 /\ ~md5.finalized /\ fed + n <= MaxMessage
  /\ md5' = Update(md5, Bytes(fed, n)) /\ fed' = fed + n
  /\ UNCHANGED <<sha1, given, result>>

\* MD5::finalize, which does nothing the second time.
Finalize ==
  LET padLen == IF Index(md5) < Block - 2 THEN Block - 2 - Index(md5) ELSE 2 * Block - 2 - Index(md5)
      padded == Update(md5, <<Eighty>> \o Zeros(padLen - 1))
      ended == Update(padded, <<Length(md5.count[1]), Length(md5.count[2])>>) IN
  /\ OnlyMd5
  /\ md5' = IF md5.finalized THEN md5
            ELSE [ended EXCEPT !.digest = ended.state, !.buffer = Zeros(Block), !.count = <<0, 0>>,
                               !.finalized = TRUE]
  /\ UNCHANGED <<fed, sha1, given, result>>

-----------------------------------------------------------------------------
\* SHA1::update: what the buffer lacks is read, again and again, until less comes.
UpdateSha1(n) ==
  LET all == sha1.buffer \o Bytes(given, n)
      blocks == Len(all) \div Block IN
  /\ OnlySha1 /\ given + n <= MaxMessage
  /\ sha1' = [digest |-> sha1.digest \o [k \in 1 .. blocks |-> SubSeq(all, (k - 1) * Block + 1, k * Block)],
              buffer |-> SubSeq(all, blocks * Block + 1, Len(all)),
              transforms |-> sha1.transforms + blocks]
  /\ given' = given + n
  /\ UNCHANGED <<md5, fed, result>>

\* SHA1::final_bin: the length does not fit behind 0x80, or it does; then all starts again.
Final ==
  LET total_bits == (sha1.transforms * Block + Len(sha1.buffer)) * 8
      orig_size == Len(sha1.buffer) + 1
      block == sha1.buffer \o <<Eighty>> \o Zeros(Block - orig_size)
      ends(b) == SubSeq(b, 1, Block - 2) \o <<Length((total_bits \div (2 ^ W)) % (2 ^ W)), Length(total_bits % (2 ^ W))>> IN
  /\ OnlySha1
  /\ result' = [bytes |-> given,
                digest |-> sha1.digest \o IF orig_size > Block - 2 THEN <<block, ends(Zeros(Block))>>
                                          ELSE <<ends(block)>>]
  /\ sha1' = [digest |-> <<>>, buffer |-> <<>>, transforms |-> 0] /\ given' = 0
  /\ UNCHANGED <<md5, fed>>

Next ==
  \/ \E n \in 0 .. MaxPiece : UpdateMd5(n) \/ UpdateSha1(n)
  \/ Finalize \/ Final

Spec == Init /\ [][Next]_vars

-----------------------------------------------------------------------------
\* A message of n bytes with its padding, up to the length, is whole blocks but for 2 bytes.
Padding(n) == CHOOSE p \in 1 .. Block : (n + p + 2) % Block = 0
Padded(n, length) == Bytes(0, n) \o <<Eighty>> \o Zeros(Padding(n) - 1) \o length

\* However a message was cut into pieces, what was digested of it so far and what is in the
\* buffer is the message.
Kept ==
  /\ ~md5.finalized => FlattenSeq(md5.state) \o SubSeq(md5.buffer, 1, Index(md5)) = Bytes(0, fed)
  /\ FlattenSeq(sha1.digest) \o sha1.buffer = Bytes(0, given)

\* The digests are those of the whole message, padded, with all the bits of its length.
Digested ==
  /\ md5.finalized =>
       FlattenSeq(md5.digest) = Padded(fed, <<Length((8 * fed) % (2 ^ W)), Length((8 * fed) \div (2 ^ W))>>)
  /\ LET n == result.bytes IN
     result.digest # <<>> =>
       FlattenSeq(result.digest) = Padded(n, <<Length((8 * n) \div (2 ^ W)), Length((8 * n) % (2 ^ W))>>)

DigestRight == Kept /\ Digested
=============================================================================
