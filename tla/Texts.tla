------------------------------- MODULE Texts -------------------------------
(***************************************************************************)
(* src/Util/util.cpp: a text is searched, split, dumped in hexadecimal and *)
(* replaced in.  replace() calls itself until nothing is left to replace;  *)
(* one call is one step.                                                   *)
(***************************************************************************)
EXTENDS SequencesExt, FiniteSetsExt, Integers

CONSTANTS Letter,    \* characters
          Unsafe,    \* those of them that hexdump shows as a dot
          Pattern,   \* texts that are searched for, replaced or put in
          Wide,      \* bytes on a line of hexdump
          MaxGiven,  \* bound: characters given
          MaxLong    \* bound: length replace() is followed to

VARIABLES
  given,    \* the text
  str,      \* what replace() has made of it
  old, new, \* old_str and new_str
  pc,       \* "type", or where replace() stands: "call" or "done"
  calls     \* how often it replaced

vars == <<given, str, old, new, pc, calls>>

Init == given = <<>> /\ str = <<>> /\ old = <<>> /\ new = <<>> /\ pc = "type" /\ calls = 0

-----------------------------------------------------------------------------
\* std::string::find and rfind; 0 is npos.
Places(s, sub) == {i \in 1 .. Len(s) - Len(sub) + 1 : SubSeq(s, i, i + Len(sub) - 1) = sub}
Find(s, sub, from) ==
  LET after == {i \in Places(s, sub) : i >= from} IN IF after = {} THEN 0 ELSE Min(after)
RFind(s, sub) == IF Places(s, sub) = {} THEN 0 ELSE Max(Places(s, sub))

\* Mutant: the search goes on after one character of the delimiter.
AfterOne(index, delim) == index + 1
After(index, delim) == index + Len(delim)

RECURSIVE SplitFrom(_, _, _)
SplitFrom(s, delim, last) ==
  LET index == Find(s, delim, last) IN
  IF index # 0
  THEN (IF index > last THEN <<SubSeq(s, last, index - 1)>> ELSE <<>>)
         \o SplitFrom(s, delim, After(index, delim))
  ELSE IF s = <<>> \/ Len(s) >= last THEN <<SubSeq(s, last, Len(s))>> ELSE <<>>

split(s, delim) == SplitFrom(s, delim, 1)

start_with(s, sub) == Find(s, sub, 1) = 1
end_with(s, sub) == RFind(s, sub) # 0 /\ RFind(s, sub) = Len(s) - Len(sub) + 1

strToLower(s) == [i \in DOMAIN s |-> IF s[i] = "A" THEN "a" ELSE s[i]]
strcasestr(big, little) == Find(strToLower(big), strToLower(little), 1)

\* hexmem: two digits and a blank for a byte; here one cell.
hexmem(data) == [i \in DOMAIN data |-> <<"hex", data[i]>>]

\* hexdump: lines of two columns, the last one filled with blanks.
Line(data, i) ==
  [j \in 1 .. Wide |-> IF i + j <= Len(data) THEN <<"hex", data[i + j]>> ELSE <<"hex", " ">>]
    \o [j \in 1 .. Wide |-> IF i + j <= Len(data) THEN IF data[i + j] \in Unsafe THEN "." ELSE data[i + j]
                            ELSE " "]
    \o <<"\n">>
hexdump(data) ==
  FlattenSeq([n \in 1 .. (Len(data) + Wide - 1) \div Wide |-> Line(data, (n - 1) * Wide)])

-----------------------------------------------------------------------------
Type(c) ==
  /\ pc = "type" /\ Len(given) < MaxGiven
  /\ given' = Append(given, c) /\ UNCHANGED <<str, old, new, pc, calls>>

\* replace() as it is called, with the early return for what needs nothing.
ReplaceCall(o, n) ==
  /\ pc = "type" /\ str' = given /\ old' = o /\ new' = n
  /\ pc' = IF o = <<>> \/ o = n THEN "done" ELSE "call"
  /\ UNCHANGED <<given, calls>>

\* The first place, and the whole again.
Replace ==
  LET pos == Find(str, old, 1) IN
  /\ pc = "call" /\ Len(str) <= MaxLong
  /\ IF pos = 0 THEN pc' = "done" /\ UNCHANGED <<str, calls>>
     ELSE /\ str' = SubSeq(str, 1, pos - 1) \o new \o SubSeq(str, pos + Len(old), Len(str))
          /\ calls' = calls + 1 /\ UNCHANGED pc
  /\ UNCHANGED <<given, old, new>>

Next ==
  \/ \E c \in Letter : Type(c)
  \/ \E o, n \in Pattern : ReplaceCall(o, n)
  \/ Replace

Spec == Init /\ [][Next]_vars

-----------------------------------------------------------------------------
Joined(parts, delim) ==
  FlattenSeq([i \in DOMAIN parts |-> IF i = 1 THEN parts[i] ELSE delim \o parts[i]])

\* The parts of a text hold no delimiter and are not empty; put together again they are the
\* text, if it has no delimiter at its ends and none right after another.  The empty text is
\* one empty part.
SplitRight ==
  \A delim \in Pattern \ {<<>>} :
    LET parts == split(given, delim) IN
    /\ given = <<>> => parts = <<<<>>>>
    /\ given # <<>> => \A i \in DOMAIN parts : parts[i] # <<>> /\ Find(parts[i], delim, 1) = 0
    /\ (Len(given) - Len(FlattenSeq(parts))) % Len(delim) = 0
    /\ parts # <<>> => split(Joined(parts, delim), delim) = parts
    /\ given # <<>> /\ Find(given, delim \o delim, 1) = 0 /\ ~start_with(given, delim) /\ ~end_with(given, delim)
         => Joined(parts, delim) = given

\* A search that is compared with a place finds beginnings and ends, also of a text that is
\* shorter than what is searched for; and one that ignores case finds the first place.
SearchRight ==
  \A sub \in Pattern :
    /\ start_with(given, sub) <=> IsPrefix(sub, given)
    /\ end_with(given, sub) <=> IsSuffix(sub, given)
    /\ LET at == strcasestr(given, sub) IN
       IF at = 0 THEN Places(strToLower(given), strToLower(sub)) = {}
       ELSE /\ strToLower(SubSeq(given, at, at + Len(sub) - 1)) = strToLower(sub)
            /\ \A i \in Places(given, sub) : at <= i

\* Each line of a dump is as long as the others, and the bytes can be read back from it.
DumpRight ==
  LET dump == hexdump(given)
      Row == 2 * Wide + 1
      Cell(i) == dump[((i - 1) \div Wide) * Row + ((i - 1) % Wide) + 1]
      Shown(i) == dump[((i - 1) \div Wide) * Row + Wide + ((i - 1) % Wide) + 1]
  IN /\ Len(dump) % Row = 0 /\ Len(dump) <= 2 * Row * Len(given)
     /\ \A i \in DOMAIN given : Cell(i) = hexmem(given)[i]
                              /\ Shown(i) = IF given[i] \in Unsafe THEN "." ELSE given[i]

\* replace() leaves nothing to replace; what it puts in is replaced, too, where it makes the
\* pattern again.  It ends if it puts in no more than it takes out, and never if what it puts
\* in has the pattern in it and there is one place.
ReplaceRight ==
  /\ pc = "done" /\ old # <<>> /\ old # new => Places(str, old) = {}
  /\ pc # "type" => Len(str) = Len(given) + calls * (Len(new) - Len(old))
  /\ Len(new) <= Len(old) => calls <= Cardinality(Letter) ^ Len(given)
  /\ pc = "done" /\ old # <<>> /\ old # new /\ Places(new, old) # {} => calls = 0 /\ str = given

TextsRight == (pc = "type" => SplitRight /\ SearchRight /\ DumpRight) /\ ReplaceRight
=============================================================================
