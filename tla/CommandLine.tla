---------------------------- MODULE CommandLine ----------------------------
(***************************************************************************)
(* OptionParser of src/Util/CMD.h and CMD.cpp, and getopt_long as          *)
(* src/win32/getopt.c implements it: each call returns the next option,    *)
(* swaps what is not an option behind the options as it goes and leaves    *)
(* off in the middle of an argument if that holds several options.  An     *)
(* argument and a long name are sequences of characters.                   *)
(***************************************************************************)
EXTENDS SequencesExt, FiniteSets, Integers

CONSTANTS Option,    \* options: [short, long, type, default, must]
          Element,   \* what a command line is made of
          MaxOption, \* bound: options of a parser
          MaxArg     \* bound: arguments of a command line

ArgNone == 0
ArgRequired == 1
ArgOptional == 2
NoArg == <<>>
Bad == [index |-> 0, arg |-> NoArg]    \* BAD_OPTION
Eof == [index |-> -1, arg |-> NoArg]

VARIABLES
  options,   \* _map_options in the order of its keys, 0xFF and on; the first is the helper
  reused,    \* an option was added after one was deleted: its key may be another's
  posix,     \* POSIXLY_CORRECT is set
  given,     \* the command line as it was given
  g,         \* getopt: argv, optind, first_nonopt, last_nonopt and the rest of nextchar
  found,     \* what getopt_long returned so far
  args,      \* all_args: the long names that have a value, and the value
  at         \* "build", "scan", or how the call of the parser ended

vars == <<options, reused, posix, given, g, found, args, at>>

Helper == [short |-> "h", long |-> <<"h", "e">>, type |-> ArgNone, default |-> FALSE, must |-> FALSE]
Start(argv) == [argv |-> argv, optind |-> 1, first |-> 1, last |-> 1, next |-> <<>>]

Init ==
  /\ options = <<Helper>> /\ reused = FALSE /\ posix = FALSE /\ given = <<>> /\ g = Start(<<>>)
  /\ found = <<>> /\ args = {} /\ at = "build"

-----------------------------------------------------------------------------
(* getopt.c                                                                *)

\* Elements a .. b - 1 the other way round.
Reversed(s, a, b) == [i \in 1 .. Len(s) |-> IF a <= i /\ i < b THEN s[a + b - 1 - i] ELSE s[i]]

\* Mutant: the non-options are not put back in order.
ExchangeTwice(s) ==
  LET first == s.first + s.optind - s.last IN
  [s EXCEPT !.argv = Reversed(Reversed(@, s.first, s.optind), s.first, first),
            !.first = first, !.last = s.optind]

\* exchange(): all of it reversed, then the options and the non-options each for themselves.
Exchange(s) ==
  LET first == s.first + s.optind - s.last IN
  [s EXCEPT !.argv = Reversed(Reversed(Reversed(@, s.first, s.optind), s.first, first), first, s.optind),
            !.first = first, !.last = s.optind]

Ended(s) == s.optind > Len(s.argv)
IsOption(e) == Len(e) > 1 /\ e[1] = "-"

\* The first option from s.optind on, or the end.
NextOption(s) ==
  LET places == {i \in s.optind .. Len(s.argv) : IsOption(s.argv[i])} IN
  IF places = {} THEN Len(s.argv) + 1 ELSE CHOOSE i \in places : \A j \in places : i <= j

\* PERMUTE: options that followed non-options come before them, and more non-options are
\* skipped.
Permuted(s) ==
  LET t == IF s.first # s.last /\ s.last # s.optind THEN Exchange(s)
           ELSE IF s.last # s.optind THEN [s EXCEPT !.first = s.optind] ELSE s IN
  [t EXCEPT !.optind = NextOption(t), !.last = NextOption(t)]

\* "--" ends the options; it is moved like one.
AfterDashes(s) ==
  IF Ended(s) \/ s.argv[s.optind] # <<"-", "-">> THEN s
  ELSE LET t == [s EXCEPT !.optind = @ + 1]
           u == IF t.first # t.last /\ t.last # t.optind THEN Exchange(t)
                ELSE IF t.first = t.last THEN [t EXCEPT !.first = t.optind] ELSE t IN
       [u EXCEPT !.last = Len(s.argv) + 1, !.optind = Len(s.argv) + 1]

\* The options that a long name stands for: the one of that name, or all it begins.
Meant(name) ==
  LET exact == {i \in 1 .. Len(options) : options[i].long = name} IN
  IF exact # {} THEN {CHOOSE i \in exact : \A j \in exact : i <= j}
  ELSE {i \in 1 .. Len(options) : IsPrefix(name, options[i].long)}

Name(text) == LET eq == {i \in 1 .. Len(text) : text[i] = "="} IN
  IF eq = {} THEN text ELSE SubSeq(text, 1, (CHOOSE i \in eq : \A j \in eq : i <= j) - 1)

Onward(s, rest, taken) == [s EXCEPT !.optind = @ + taken, !.next = rest]

\* A long option, its value behind "=" or the next argument.
LongOption(s) ==
  LET name == Name(s.next)
      value == SubSeq(s.next, Len(name) + 2, Len(s.next))
      meant == Meant(name)
      i == CHOOSE j \in meant : TRUE
      type == options[i].type IN
  IF Cardinality(meant) # 1 \/ (name # s.next /\ type = ArgNone) THEN <<Onward(s, <<>>, 1), Bad>>
  ELSE IF name = s.next /\ type = ArgRequired
  THEN IF s.optind = Len(s.argv) THEN <<Onward(s, <<>>, 1), Bad>>
       ELSE <<Onward(s, <<>>, 2), [index |-> i, arg |-> s.argv[s.optind + 1]]>>
  ELSE <<Onward(s, <<>>, 1), [index |-> i, arg |-> value]>>

\* One character of an argument; the last one that is looked at moves optind on.
ShortOption(s) ==
  LET is == {i \in 1 .. Len(options) : options[i].short = Head(s.next)}
      i == CHOOSE j \in is : \A k \in is : j <= k
      rest == Tail(s.next)
      done == IF rest = <<>> THEN 1 ELSE 0 IN
  IF is = {} THEN <<Onward(s, rest, done), Bad>>
  ELSE IF options[i].type = ArgNone THEN <<Onward(s, rest, done), [index |-> i, arg |-> NoArg]>>
  ELSE IF rest # <<>> \/ options[i].type = ArgOptional
  THEN <<Onward(s, <<>>, 1), [index |-> i, arg |-> rest]>>
  ELSE IF s.optind = Len(s.argv) THEN <<Onward(s, <<>>, 1), Bad>>
  ELSE <<Onward(s, <<>>, 2), [index |-> i, arg |-> s.argv[s.optind + 1]]>>

\* _getopt_internal: what getopt keeps, and what it returns.
GetoptLong(s) ==
  IF s.next # <<>> THEN ShortOption(s)
  ELSE LET t == AfterDashes(IF posix THEN s ELSE Permuted(s)) IN
       IF Ended(t) THEN <<IF t.first # t.last THEN [t EXCEPT !.optind = t.first] ELSE t, Eof>>
       ELSE IF ~IsOption(t.argv[t.optind]) THEN <<t, Eof>>
       ELSE IF t.argv[t.optind][2] = "-"
       THEN LongOption([t EXCEPT !.next = SubSeq(t.argv[t.optind], 3, Len(t.argv[t.optind]))])
       ELSE ShortOption([t EXCEPT !.next = Tail(t.argv[t.optind])])

-----------------------------------------------------------------------------
(* OptionParser                                                            *)

\* operator<<: a key is 0xFF and the number of options, free as long as none was deleted.
Add(o) ==
  /\ at = "build" /\ Len(options) < MaxOption
  /\ ~reused
  /\ \A i \in 1 .. Len(options) : options[i].long # o.long /\ options[i].short # o.short
  /\ options' = Append(options, o)
  /\ UNCHANGED <<reused, posix, given, g, found, args, at>>

\* delOption; an option that is added after it is not modelled.
DelOption(name) ==
  /\ at = "build" /\ \E i \in 1 .. Len(options) : options[i].long = name
  /\ options' = SelectSeq(options, LAMBDA o : o.long # name)
  /\ reused' = TRUE
  /\ UNCHANGED <<posix, given, g, found, args, at>>

\* The parser is called.  The long names are in the order of the keys, the short ones too.
Call(argv, p) ==
  /\ at = "build"
  /\ at' = "scan" /\ posix' = p /\ given' = argv /\ g' = Start(argv)
  /\ UNCHANGED <<options, reused, found, args>>

Has(name) == \E a \in args : a[1] = name

\* An option: its first value counts.  The helper throws what it prints; another callback
\* may end the parsing.
Scan ==
  /\ at = "scan"
  /\ LET s == GetoptLong(g)[1]
         ret == GetoptLong(g)[2]
         o == options[ret.index] IN
     /\ ret.index > 0
     /\ g' = s /\ found' = Append(found, ret)
     /\ args' = IF Has(o.long) THEN args ELSE args \cup {<<o.long, ret.arg>>}
     /\ at' \in IF o = Helper THEN {"help"} ELSE {"scan", "stopped"}
  /\ UNCHANGED <<options, reused, posix, given>>

Unknown ==
  /\ at = "scan" /\ GetoptLong(g)[2] = Bad
  /\ g' = GetoptLong(g)[1] /\ at' = "thrown"
  /\ UNCHANGED <<options, reused, posix, given, found, args>>

\* The end: defaults, then what must be there.
Default == <<"default">>

Defaults == {<<options[i].long, Default>> : i \in {j \in 1 .. Len(options) : options[j].default /\ ~Has(options[j].long)}}

Complete ==
  /\ at = "scan" /\ GetoptLong(g)[2] = Eof
  /\ g' = GetoptLong(g)[1]
  /\ args' = args \cup Defaults
  /\ at' = IF \E i \in 1 .. Len(options) : options[i].must /\ ~options[i].default /\ ~Has(options[i].long)
           THEN "thrown" ELSE "done"
  /\ UNCHANGED <<options, reused, posix, given, found>>

Argv == UNION {[1 .. n -> Element] : n \in 0 .. MaxArg}

Next ==
  \/ \E o \in Option : Add(o) \/ DelOption(o.long)
  \/ \E argv \in Argv, p \in BOOLEAN : Call(argv, p)
  \/ Scan \/ Unknown \/ Complete

Spec == Init /\ [][Next]_vars

-----------------------------------------------------------------------------
\* The command line read from left to right without moving anything: the options with their
\* values, then the operands.
RECURSIVE Read(_)
RECURSIVE ReadShort(_, _)

\* The characters of argument i from `rest` on.
ReadShort(i, rest) ==
  LET is == {j \in 1 .. Len(options) : options[j].short = Head(rest)}
      j == CHOOSE k \in is : TRUE IN
  IF rest = <<>> THEN Read(i + 1)
  ELSE IF is = {} THEN <<Bad>>
  ELSE IF options[j].type = ArgNone THEN <<[index |-> j, arg |-> NoArg]>> \o ReadShort(i, Tail(rest))
  ELSE IF options[j].type = ArgOptional \/ Tail(rest) # <<>>
  THEN <<[index |-> j, arg |-> Tail(rest)]>> \o Read(i + 1)
  ELSE IF i = Len(given) THEN <<Bad>>
  ELSE <<[index |-> j, arg |-> given[i + 1]]>> \o Read(i + 2)

Read(i) ==
  IF i > Len(given) \/ given[i] = <<"-", "-">> THEN <<>>
  ELSE IF ~IsOption(given[i]) THEN IF posix THEN <<>> ELSE Read(i + 1)
  ELSE IF given[i][2] # "-" THEN ReadShort(i, Tail(given[i]))
  ELSE LET text == SubSeq(given[i], 3, Len(given[i]))
           name == Name(text)
           meant == Meant(name)
           j == CHOOSE k \in meant : TRUE IN
       IF Cardinality(meant) # 1 THEN <<Bad>>
       ELSE IF name # text
       THEN IF options[j].type = ArgNone THEN <<Bad>>
            ELSE <<[index |-> j, arg |-> SubSeq(text, Len(name) + 2, Len(text))]>> \o Read(i + 1)
       ELSE IF options[j].type # ArgRequired THEN <<[index |-> j, arg |-> NoArg]>> \o Read(i + 1)
       ELSE IF i = Len(given) THEN <<Bad>>
       ELSE <<[index |-> j, arg |-> given[i + 1]]>> \o Read(i + 2)

\* What is moved is moved only: no argument is lost or doubled, and those that are no option
\* and no value of one keep their order.
Operands == SubSeq(g.argv, g.optind, Len(g.argv))

Moved ==
  /\ \A e \in Element : Len(SelectSeq(g.argv, LAMBDA a : a = e)) = Len(SelectSeq(given, LAMBDA a : a = e))
  /\ at = "done" => \E keep \in SUBSET (1 .. Len(given)) :
       Operands = [n \in 1 .. Cardinality(keep) |->
                     given[CHOOSE i \in keep : Cardinality({j \in keep : j < i}) = n - 1]]

\* The options are found in the order they were given, each with its own value, wherever
\* other arguments stand in between; what is not found is what the references calls bad.
Found ==
  LET read == Read(1) IN
  /\ at \in {"scan", "help", "stopped"} => IsPrefix(found, read)
  /\ at = "done" => found = read
  /\ at = "thrown" => found = read \/ Append(found, Bad) = read

\* An option that must be there is there, and what has a default always has a value.
Values ==
  at = "done" =>
    \A i \in 1 .. Len(options) :
      /\ (options[i].must \/ options[i].default => Has(options[i].long))
      /\ \A a \in args : a[1] = options[i].long =>
           \/ a[2] = Default /\ options[i].default /\ \A n \in 1 .. Len(found) : found[n].index # i
           \/ \E n \in 1 .. Len(found) :
                found[n] = [index |-> i, arg |-> a[2]] /\ \A m \in 1 .. n - 1 : found[m].index # i

CommandLineRight == Moved /\ Found /\ Values
=============================================================================
