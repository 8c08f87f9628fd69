------------------------------ MODULE IniFile ------------------------------
(***************************************************************************)
(* mINI of src/Util/mini.h, the map of an ini file: parse() of a text line *)
(* by line, dump() of the map key by key, and parse() of what was dumped   *)
(* into another map.  A text is the sequence of its lines and a line that  *)
(* of its characters; trim is that of src/Util/util.cpp.                   *)
(***************************************************************************)
EXTENDS SequencesExt, FiniteSetsExt, Integers

CONSTANTS Line,    \* lines of the file, none of them empty
          MaxLine  \* bound: lines of the file

VARIABLES
  at,      \* "fill", "parse", "dump", "again", "done"; "throws" or "wild" where it went wrong
  text,    \* the lines that are parsed, or were dumped
  next,    \* the next line
  tag,     \* the section it is in
  map,     \* what the file gave
  keys,    \* keys that are not dumped yet
  copy     \* what the dumped text gave

vars == <<at, text, next, tag, map, keys, copy>>

Init ==
  /\ at = "fill" /\ text = <<>> /\ next = 1 /\ tag = <<>> /\ keys = {}
  /\ map = [k \in {} |-> <<>>] /\ copy = [k \in {} |-> <<>>]

-----------------------------------------------------------------------------
Blank == {" ", "\t"}
Inked(s) == {i \in 1 .. Len(s) : s[i] \notin Blank}
Trim(s) == IF Inked(s) = {} THEN <<>> ELSE SubSeq(s, Min(Inked(s)), Max(Inked(s)))
\* The table of trim has no place for the character 255: it throws where its loops meet one.
Throws(s) == Inked(s) # {} /\ "0xff" \in {s[Min(Inked(s))], s[Max(Inked(s))]}

IsSection(line) == Len(line) >= 3 /\ line[1] = "[" /\ Last(line) = "]"
Inner(line) == SubSeq(line, 2, Len(line) - 1)
\* Mutant: what follows the last '=' is the value.
EqualLast(line) == IF Contains(line, "=") THEN Max({i \in 1 .. Len(line) : line[i] = "="}) ELSE Len(line) + 1
Equal(line) == IF Contains(line, "=") THEN Min({i \in 1 .. Len(line) : line[i] = "="}) ELSE Len(line) + 1
Symbol(section, line) == section \o <<".">> \o SubSeq(line, 1, Equal(line) - 1)
Value(line) == SubSeq(line, Equal(line) + 1, Len(line))
Put(m, k, v) == [x \in DOMAIN m \cup {k} |-> IF x = k THEN v ELSE m[x]]

\* What one line makes of a section and a map, and whether it throws; a map that threw is not
\* followed.
ParsedLine(section, m, raw) ==
  LET line == Trim(raw) IN
  IF Throws(raw) THEN [tag |-> section, map |-> m, throws |-> TRUE]
  ELSE IF line = <<>> \/ line[1] \in {";", "#"} THEN [tag |-> section, map |-> m, throws |-> FALSE]
  ELSE IF IsSection(line) THEN [tag |-> Trim(Inner(line)), map |-> m, throws |-> Throws(Inner(line))]
  ELSE [tag |-> section, map |-> Put(m, Trim(Symbol(section, line)), Trim(Value(line))),
        throws |-> Throws(Symbol(section, line)) \/ Throws(Value(line))]

\* tokenize(key, "."): what the dots part, without what is empty.
Tokens(key) ==
  LET start == {i \in 1 .. Len(key) : key[i] # "." /\ (i = 1 \/ key[Max({1, i - 1})] = ".")}
      end(i) == Min({j \in i .. Len(key) + 1 : j = Len(key) + 1 \/ key[Min({j, Len(key)})] = "."})
      order == SetToSortSeq(start, <) IN
  [n \in 1 .. Len(order) |-> SubSeq(key, order[n], end(order[n]) - 1)]

-----------------------------------------------------------------------------
Fill(line) ==
  /\ at = "fill" /\ Len(text) < MaxLine
  /\ text' = Append(text, line)
  /\ UNCHANGED <<at, next, tag, map, keys, copy>>

Parse == at = "fill" /\ at' = "parse" /\ UNCHANGED <<text, next, tag, map, keys, copy>>

ParseLine ==
  /\ at = "parse" /\ next <= Len(text)
  /\ LET p == ParsedLine(tag, map, text[next]) IN
     /\ map' = p.map /\ tag' = p.tag
     /\ at' = IF p.throws THEN "throws" ELSE at
  /\ next' = next + 1
  /\ UNCHANGED <<text, keys, copy>>

\* The header of the dump is a comment.
Dump ==
  /\ at = "parse" /\ next > Len(text)
  /\ at' = "dump" /\ keys' = DOMAIN map /\ tag' = <<>> /\ text' = << <<";">> >>
  /\ UNCHANGED <<next, map, copy>>

\* The keys come sorted; any order that keeps a section together is right, and so is any other.
\* A key with one token reads behind the end of them.
DumpKey(key) ==
  LET kv == Tokens(key) IN
  /\ at = "dump" /\ key \in keys
  /\ keys' = keys \ {key}
  /\ IF Len(kv) < 2 THEN at' = "wild" /\ UNCHANGED <<text, tag>>
     ELSE /\ text' = text \o (IF tag = kv[1] THEN <<>> ELSE << <<"[">> \o kv[1] \o <<"]">> >>)
                          \o << kv[2] \o <<"=">> \o map[key] >>
          /\ tag' = kv[1] /\ UNCHANGED at
  /\ UNCHANGED <<next, map, copy>>

Dumped ==
  /\ at = "dump" /\ keys = {}
  /\ at' = "again" /\ next' = 1 /\ tag' = <<>>
  /\ UNCHANGED <<text, map, keys, copy>>

ParseAgain ==
  /\ at = "again"
  /\ IF next > Len(text) THEN at' = "done" /\ UNCHANGED <<next, tag, copy>>
     ELSE LET p == ParsedLine(tag, copy, text[next]) IN
          /\ copy' = p.map /\ tag' = p.tag /\ next' = next + 1
          /\ at' = IF p.throws THEN "throws" ELSE at
  /\ UNCHANGED <<text, map, keys>>

Next ==
  \/ \E line \in Line : Fill(line)
  \/ Parse \/ ParseLine \/ Dump \/ Dumped \/ ParseAgain
  \/ \E key \in DOMAIN map : DumpKey(key)

Spec == Init /\ [][Next]_vars

-----------------------------------------------------------------------------
\* A key that a dump keeps: a section, a dot, and a name that starts no comment or section and
\* has neither dots nor blanks at its ends.
Plain(key) ==
  /\ Len(Tokens(key)) = 2 /\ key = Tokens(key)[1] \o <<".">> \o Tokens(key)[2]
  /\ \A i \in {1, 2} : Trim(Tokens(key)[i]) = Tokens(key)[i]
  /\ Tokens(key)[2][1] \notin {";", "#", "["}

\* What is dumped and parsed again is the same map, if its keys are plain; the lines of a key in
\* a section never throw or go astray.
SameAgain == (\A key \in DOMAIN map : Plain(key)) => (at = "done" => copy = map) /\ at # "wild"

\* No key or value keeps a blank at its ends, and no key a '='.
Clean ==
  \A key \in DOMAIN map :
    Trim(key) = key /\ Trim(map[key]) = map[key] /\ ~Contains(key, "=")

\* A text without the character 255 is parsed to its end, and every line with a '=' is found.
Parsed ==
  /\ at = "throws" => \E i \in 1 .. Len(text) : Contains(text[i], "0xff")
  /\ (at = "parse" /\ next > Len(text)) =>
       \A i \in 1 .. Len(text) :
         (Contains(text[i], "=") /\ Trim(text[i])[1] \notin {";", "#", "["}) =>
           \E key \in DOMAIN map : IsSuffix(Trim(SubSeq(text[i], 1, Equal(text[i]) - 1)), key)

IniFileRight == SameAgain /\ Clean /\ Parsed
=============================================================================
