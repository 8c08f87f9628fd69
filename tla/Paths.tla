------------------------------- MODULE Paths -------------------------------
(***************************************************************************)
(* src/Util/File.cpp: absolutePath, which walks through the parts of a     *)
(* path, and create_file, create_path and delete_file by threads that may  *)
(* meet in the same directories.  A path from the root is the sequence of  *)
(* its names, the empty sequence the root.                                 *)
(***************************************************************************)
EXTENDS SequencesExt, FiniteSets, Integers

CONSTANTS Thread,
          Name,      \* names of directories and files
          Depth,     \* bound: parts of a path
          Base,      \* current_path, absolute
          MaxCall    \* bound: calls that change files

Up == ".."
Here == "."           \* "." or an empty part
NoPath == [names |-> <<>>, text |-> FALSE]   \* ""

VARIABLES
  want,    \* absolutePath: [parts, base, may, isDir]
  cur,     \* its currentPath: names, and whether there is any text at all
  walked,  \* parts it went through; Depth + 1 once it returned
  dirs,    \* directories there are
  files,   \* files there are
  op,      \* what each thread does
  calls,
  result   \* what each thread's last call returned

vars == <<want, cur, walked, dirs, files, op, calls, result>>
walkVars == <<want, cur, walked>>

Idle == [kind |-> "idle", path |-> <<>>, at |-> 0, missing |-> FALSE, todo |-> {}, met |-> FALSE]
Nothing == [parts |-> <<>>, base |-> <<>>, may |-> FALSE, isDir |-> FALSE]
Init ==
  /\ want = Nothing
  /\ cur = NoPath /\ walked = Depth + 1
  /\ dirs = {<<>>} /\ files = {} /\ op = [t \in Thread |-> Idle]
  /\ calls = 0 /\ result = [t \in Thread |-> "none"]

-----------------------------------------------------------------------------
(* absolutePath.                                                           *)

Resolve(parts, base, may, isDir) ==
  /\ walked = Depth + 1 /\ calls = 0
  /\ want' = [parts |-> parts, base |-> base, may |-> may, isDir |-> isDir]
  /\ cur' = [names |-> base, text |-> TRUE] /\ walked' = 0
  /\ UNCHANGED <<dirs, files, op, calls, result>>

\* parentDir of a path that ends in '/': the root has none, and what is left of it is "".
ParentDir(p) == IF p.names = <<>> THEN NoPath ELSE [p EXCEPT !.names = Front(@)]

\* The root of the call is as long as its base; the texts are compared by their length.
MayGoUp == want.may \/ Len(cur.names) > Len(want.base)

\* What is appended to "" is not absolute any more; absolutePath is not followed from there.
Part ==
  /\ walked < Len(want.parts)
  /\ LET part == want.parts[walked + 1] IN
     /\ cur.text \/ part = Here
     /\ IF part = Up /\ ~MayGoUp THEN cur' = NoPath /\ walked' = Depth + 1
        ELSE /\ walked' = walked + 1
             /\ cur' = IF part = Here THEN cur
                       ELSE IF part = Up THEN ParentDir(cur)
                       ELSE [cur EXCEPT !.names = Append(@, part)]
  /\ UNCHANGED <<want, dirs, files, op, calls, result>>

\* The end: the last '/' goes unless the path had one, and with it the root.
Resolved ==
  /\ walked = Len(want.parts)
  /\ cur' = IF cur.names = <<>> /\ ~want.isDir /\ want.parts # <<>> THEN NoPath ELSE cur
  /\ walked' = Depth + 1
  /\ UNCHANGED <<want, dirs, files, op, calls, result>>

-----------------------------------------------------------------------------
(* Directories and files.  The two families share nothing: a behaviour     *)
(* follows one of them.                                                    *)

\* `todo`: what delete_file has still to meet below its path; `met`: another call ran meanwhile.
Begin(t, kind, path) ==
  /\ op[t].kind = "idle" /\ want = Nothing /\ calls < MaxCall /\ path # <<>>
  /\ calls' = calls + 1
  /\ op' = [u \in Thread |->
       IF u = t
       THEN [kind |-> kind, path |-> path, at |-> 1, missing |-> FALSE,
             todo |-> IF kind = "delete" THEN {p \in dirs \cup files : IsStrictPrefix(path, p)} ELSE {},
             met |-> \E v \in Thread \ {t} : op[v].kind # "idle"]
       ELSE [op[u] EXCEPT !.met = @ \/ op[u].kind # "idle"]]
  /\ UNCHANGED <<walkVars, dirs, files, result>>

Return(t, r) == op' = [op EXCEPT ![t] = Idle] /\ result' = [result EXCEPT ![t] = r]

\* Mutant: the name of the file itself is made a directory, too.
MakingAll(t) == op[t].kind \in {"path", "file"} /\ op[t].at =< Len(op[t].path)
\* Each '/' in turn: create_path has one at the end.
Making(t) ==
  \/ op[t].kind = "path" /\ op[t].at =< Len(op[t].path)
  \/ op[t].kind = "file" /\ op[t].at < Len(op[t].path)

Prefix(t) == SubSeq(op[t].path, 1, op[t].at)

\* access(): the directory is there already.
Access(t) ==
  /\ Making(t) /\ ~op[t].missing /\ Prefix(t) \in dirs
  /\ op' = [op EXCEPT ![t].at = @ + 1]
  /\ UNCHANGED <<walkVars, dirs, files, calls, result>>

\* access(): it is not, or a file is in its place.
AccessNone(t) ==
  /\ Making(t) /\ ~op[t].missing /\ Prefix(t) \notin dirs
  /\ op' = [op EXCEPT ![t].missing = TRUE]
  /\ UNCHANGED <<walkVars, dirs, files, calls, result>>

\* mkdir() fails when anything of that name is there by now, or its parent is not.
Mkdir(t) ==
  /\ Making(t) /\ op[t].missing
  /\ IF Prefix(t) \notin dirs \cup files /\ Front(Prefix(t)) \in dirs
     THEN /\ dirs' = dirs \cup {Prefix(t)}
          /\ op' = [op EXCEPT ![t].at = @ + 1, ![t].missing = FALSE]
          /\ UNCHANGED result
     ELSE Return(t, "failed") /\ UNCHANGED dirs
  /\ UNCHANGED <<walkVars, files, calls>>

\* create_path is done; create_file opens the file.
Made(t) ==
  LET path == op[t].path IN
  /\ op[t].kind \in {"path", "file"} /\ ~Making(t)
  /\ IF op[t].kind = "path" THEN Return(t, "done") /\ UNCHANGED files
     ELSE IF Front(path) \in dirs /\ path \notin dirs
     THEN Return(t, "done") /\ files' = files \cup {path}
     ELSE Return(t, "failed") /\ UNCHANGED files
  /\ UNCHANGED <<walkVars, dirs, calls>>

Empty(p) == ~\E q \in dirs \cup files : IsStrictPrefix(p, q)

\* delete_file on its way down: one entry goes, a directory once it is empty.  What was made
\* since may be met or not.
DeleteEntry(t) ==
  /\ op[t].kind = "delete"
  /\ \E p \in dirs \cup files :
       /\ IsStrictPrefix(op[t].path, p) /\ Empty(p)
       /\ dirs' = dirs \ {p} /\ files' = files \ {p}
       /\ op' = [op EXCEPT ![t].todo = @ \ {p}]
  /\ UNCHANGED <<walkVars, calls, result>>

\* Another thread took away, or filled again, what this one still had to delete.
DeleteMissed(t) ==
  /\ op[t].kind = "delete"
  /\ \E p \in op[t].todo :
       /\ p \notin dirs \cup files \/ ~Empty(p)
       /\ ~\E q \in op[t].todo : IsStrictPrefix(p, q)
       /\ op' = [op EXCEPT ![t].todo = @ \ {p}]
  /\ UNCHANGED <<walkVars, dirs, files, calls, result>>

\* rmdir() of the path itself, or remove() of a file.
DeleteEnd(t) ==
  /\ op[t].kind = "delete" /\ op[t].todo = {}
  /\ IF op[t].path \in dirs \cup files /\ Empty(op[t].path)
     THEN dirs' = dirs \ {op[t].path} /\ files' = files \ {op[t].path} /\ Return(t, "done")
     ELSE Return(t, "failed") /\ UNCHANGED <<dirs, files>>
  /\ UNCHANGED <<walkVars, calls>>

Path(names) == UNION {[1 .. n -> names] : n \in 0 .. Depth}

Next ==
  \/ \E parts \in Path(Name \cup {Up, Here}), base \in Base, may, isDir \in BOOLEAN : Resolve(parts, base, may, isDir)
  \/ Part \/ Resolved
  \/ \E t \in Thread :
       \/ \E kind \in {"path", "file", "delete"}, path \in Path(Name) : Begin(t, kind, path)
       \/ Access(t) \/ AccessNone(t) \/ Mkdir(t) \/ Made(t)
       \/ DeleteEntry(t) \/ DeleteMissed(t) \/ DeleteEnd(t)

Spec == Init /\ [][Next]_vars

-----------------------------------------------------------------------------
Names(k) == Cardinality({i \in 1 .. k : want.parts[i] \in Name})
Ups(k) == Cardinality({i \in 1 .. k : want.parts[i] = Up})
Returned == walked = Depth + 1 /\ want # Nothing

\* A path that may not leave its directory is refused exactly when one of its beginnings has
\* more ".." than names, and is below the directory otherwise (absolutePath without
\* can_access_parent).
Inside ==
  (Returned /\ ~want.may) =>
    IF \E k \in 1 .. Len(want.parts) : Ups(k) > Names(k)
    THEN ~cur.text
    ELSE \/ cur.text /\ IsPrefix(want.base, cur.names) /\ Len(cur.names) = Len(want.base) + Names(Len(want.parts)) - Ups(Len(want.parts))
         \/ ~cur.text /\ want.base = <<>>

Ends(t) == op[t].kind # "idle" /\ op'[t].kind = "idle"

\* A creation that met no other call fails only for a file where a directory has to be, or a
\* directory where the file has to be; when it succeeds, everything up to its path is there.
Creates ==
  \A t \in Thread : (Ends(t) /\ op[t].kind \in {"path", "file"} /\ ~op[t].met) =>
    LET path == op[t].path  Above == {p \in dirs' \cup files' : IsStrictPrefix(p, path)} IN
    IF result'[t] = "done"
    THEN /\ Cardinality(Above) = Len(path) /\ Above \subseteq dirs'
         /\ path \in IF op[t].kind = "path" THEN dirs' ELSE files'
    ELSE \/ Above \cap files' # {}
         \/ path \in IF op[t].kind = "path" THEN files' ELSE dirs'

\* A deletion that met no other call leaves nothing of its path, and no call takes away what is
\* not below the path of a deletion.
Deletes ==
  /\ \A t \in Thread : (Ends(t) /\ op[t].kind = "delete" /\ ~op[t].met) =>
       ~\E p \in dirs' \cup files' : IsPrefix(op[t].path, p)
  /\ \A p \in (dirs \cup files) \ (dirs' \cup files') :
       \E t \in Thread : op[t].kind = "delete" /\ IsPrefix(op[t].path, p)

\* What absolutePath promises of a path.
PathsRight == Inside
=============================================================================
