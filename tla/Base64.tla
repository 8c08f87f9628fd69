------------------------------- MODULE Base64 -------------------------------
(***************************************************************************)
(* src/Util/base64.cpp: av_base64_encode_l, one step of it for each        *)
(* character it writes, and av_base64_decode, one step for each it reads.  *)
(* A character is its code.                                                *)
(***************************************************************************)
EXTENDS SequencesExt, Integers

CONSTANTS Byte,   \* bytes that are encoded
          Other,  \* characters that may follow, or that get into the text
          MaxLen  \* bound: bytes

\* b64: the character of a value of six bits.
B64(v) == IF v < 26 THEN 65 + v ELSE IF v < 52 THEN 71 + v ELSE IF v < 62 THEN v - 4
          ELSE IF v = 62 THEN 43 ELSE 47
Pad == 61

\* map2, from '+' on; 255 for what is no character of base64.
Map2(c) ==
  IF c \in 65 .. 90 THEN c - 65 ELSE IF c \in 97 .. 122 THEN c - 71 ELSE IF c \in 48 .. 57 THEN c + 4
  ELSE IF c = 43 THEN 62 ELSE IF c = 47 THEN 63 ELSE 255

VARIABLES
  at,      \* "idle", "encode", "pad", "ready", "decode", "done" or "bad"
  given,   \* the bytes that are encoded
  next,    \* bytes or characters that were read
  bits,    \* i_bits, as far back as two bytes; v of the decoder, as far back as one
  shift,   \* i_shift
  text,    \* what the encoder wrote, then what the decoder reads
  foreign, \* where that has a character the encoder did not write: "no", "behind", "inside"
  out      \* what the decoder wrote

vars == <<at, given, next, bits, shift, text, foreign, out>>

Init ==
  /\ at = "idle" /\ given = <<>> /\ next = 0 /\ bits = 0 /\ shift = 0 /\ text = <<>>
  /\ foreign = "no" /\ out = <<>>

-----------------------------------------------------------------------------
\* encodeBase64; an empty text is left alone.
Encode(data) ==
  /\ at = "idle" /\ data # <<>>
  /\ given' = data /\ at' = "encode"
  /\ UNCHANGED <<next, bits, shift, text, foreign, out>>

\* Mutant: what is left of the last byte is given up.
MoreWholeOnly(s, left) == s > 6
\* Goes on without a new byte: more than one character is there, or the rest of the last.
More(s, left) == s > 6 \/ (left = 0 /\ s > 0)

\* The next byte is taken in; 14 bits of it and those before it can be needed.
TakeByte ==
  /\ at = "encode" /\ next < Len(given) /\ (next = 0 \/ ~More(shift, Len(given) - next))
  /\ next' = next + 1 /\ shift' = shift + 8
  /\ bits' = (bits * 256 + given[next + 1]) % 65536
  /\ UNCHANGED <<at, given, text, foreign, out>>

\* (i_bits << 6 >> i_shift) & 0x3f, where i_shift may exceed what is there by up to 4.
WriteChar ==
  /\ at = "encode" /\ next > 0
  /\ More(shift, Len(given) - next)
  /\ text' = Append(text, B64(((bits * 64) \div (2 ^ shift)) % 64))
  /\ shift' = shift - 6
  /\ at' = IF ~More(shift - 6, Len(given) - next) /\ next = Len(given) THEN "pad" ELSE at
  /\ UNCHANGED <<given, next, bits, foreign, out>>

WritePad ==
  /\ at = "pad"
  /\ IF Len(text) % 4 # 0 THEN text' = Append(text, Pad) /\ UNCHANGED at
     ELSE at' = "ready" /\ UNCHANGED text
  /\ UNCHANGED <<given, next, bits, shift, foreign, out>>

\* decodeBase64 of the text, or of one that another character got into.
Decode ==
  /\ at = "ready" /\ at' = "decode"
  /\ next' = 0 /\ bits' = 0
  /\ \/ UNCHANGED <<text, foreign>>
     \/ \E c \in Other : text' = Append(text, c) /\ foreign' = "behind"
     \/ \E c \in Other : text' = ReplaceAt(text, Len(text) - 2, c) /\ foreign' = "inside"
  /\ UNCHANGED <<given, shift, out>>

\* One character that is read; every fourth completes no byte.
ReadChar ==
  /\ at = "decode" /\ next < Len(text) /\ text[next + 1] # Pad /\ Map2(text[next + 1]) # 255
  /\ LET v == bits * 64 + Map2(text[next + 1]) IN
     /\ bits' = v % 64
     /\ out' = IF next % 4 = 0 THEN out ELSE Append(out, (v \div (2 ^ (6 - 2 * (next % 4)))) % 256)
  /\ next' = next + 1
  /\ UNCHANGED <<at, given, shift, text, foreign>>

\* The end, or '='; any other character makes the whole text bad.
ReadEnd ==
  LET rest == SubSeq(text, next + 1, Len(text)) IN
  /\ at = "decode"
  /\ \/ (IF rest = <<>> THEN TRUE ELSE Head(rest) = Pad) /\ at' = "done" /\ UNCHANGED out
     \/ rest # <<>> /\ Head(rest) # Pad /\ Map2(Head(rest)) = 255 /\ at' = "bad" /\ out' = <<>>
  /\ UNCHANGED <<given, next, bits, shift, text, foreign>>

Next ==
  \/ \E n \in 1 .. MaxLen : \E data \in [1 .. n -> Byte] : Encode(data)
  \/ TakeByte \/ WriteChar \/ WritePad \/ Decode \/ ReadChar \/ ReadEnd

Spec == Init /\ [][Next]_vars

-----------------------------------------------------------------------------
\* The text of RFC 4648, group by group of three bytes.
Sextets(data) ==
  LET b(i) == IF i <= Len(data) THEN data[i] ELSE 0
      bit(i) == (b((i \div 8) + 1) \div (2 ^ (7 - (i % 8)))) % 2
      six(k) == 32 * bit(6 * k) + 16 * bit(6 * k + 1) + 8 * bit(6 * k + 2) + 4 * bit(6 * k + 3)
                  + 2 * bit(6 * k + 4) + bit(6 * k + 5) IN
  [k \in 1 .. ((Len(data) * 8) + 5) \div 6 |-> B64(six(k - 1))]

\* What the encoder wrote is that text, filled up to a multiple of four characters.
Encoded ==
  at = "ready" =>
    /\ Len(text) = 4 * ((Len(given) + 2) \div 3)
    /\ \A k \in 1 .. Len(text) : text[k] = IF k <= Len(Sextets(given)) THEN Sextets(given)[k] ELSE Pad

\* What was encoded is decoded again, whatever follows a filled text; a character that is none
\* of base64 makes the text bad unless it follows a filled one.
Decoded ==
  /\ at = "done" /\ foreign # "inside" => out = given
  /\ at = "done" => Len(out) <= Len(given) /\ \A k \in 1 .. Len(out) : out[k] \in 0 .. 255
  /\ at = "bad" => foreign # "no" /\ (foreign = "behind" => Len(given) % 3 = 0)

Base64Right == Encoded /\ Decoded
=============================================================================
