------------------------------ MODULE LogFiles ------------------------------
(***************************************************************************)
(* FileChannel of src/Util/logger.cpp: a directory of log files, a new one *)
(* for each day, each start of the program and each time the last one got  *)
(* too long, and the removal of the oldest by age and by number.  A line   *)
(* carries the time at which it was logged, which with the asynchronous    *)
(* writer may be before the time of day at which it is written.            *)
(*                                                                         *)
(* A file's name is its time and its index, which is how names compare.    *)
(***************************************************************************)
EXTENDS FiniteSetsExt, Sequences, Integers

CONSTANTS Day,        \* ticks of a day
          MaxTime,    \* bound: of the clock
          Lag,        \* bound: ticks a line is written late
          MaxDay,     \* _log_max_day; 1 only if no line is late
          MaxCount,   \* _log_max_count
          CheckTime,  \* ticks between two looks at the size (60 s)
          MaxSize,    \* lines of a file above _log_max_size
          MaxStart    \* bound: starts of the program

VARIABLES
  now,
  starts,
  disk,       \* the .log files: how long each is, up to too long, and the days of its lines
  map,        \* _log_file_map
  path,       \* _path, <<>> before the first file
  open,       \* _fstream is open
  can_write,
  index, last_day, last_check

vars == <<now, starts, disk, map, path, open, can_write, index, last_day, last_check>>

DayOf(t) == t \div Day
\* The order of the names, which have a fixed width.
Before(f, g) == f[1] < g[1] \/ (f[1] = g[1] /\ f[2] < g[2])
Oldest(fs) == CHOOSE f \in fs : \A g \in fs \ {f} : Before(f, g)

\* The constructor, on the files it finds: continues with today's largest index.
Start(files) ==
  /\ map' = files
  /\ index' = Max({0} \cup {f[2] : f \in {g \in files : DayOf(g[1]) = DayOf(now)}})
  /\ path' = <<>> /\ open' = FALSE /\ can_write' = FALSE
  /\ last_day' = -1 /\ last_check' = 0

Init ==
  /\ now = 1 /\ starts = 1 /\ disk = [f \in {} |-> 0]
  /\ map = {} /\ path = <<>> /\ open = FALSE /\ can_write = FALSE
  /\ index = 0 /\ last_day = -1 /\ last_check = 0

-----------------------------------------------------------------------------
\* clean(): from the oldest on, those of MaxDay days ago.
Expired(files) == {f \in files : DayOf(f[1]) + MaxDay <= DayOf(now)}

\* Mutant: the file that was just opened may be the oldest and go too.
RECURSIVE FewerOf(_, _)
FewerOf(files, current) ==
  IF Cardinality(files) <= MaxCount THEN files
  ELSE FewerOf(files \ {Oldest(files)}, current)

\* Then the oldest while there are too many, up to the current one.
RECURSIVE Fewer(_, _)
Fewer(files, current) ==
  IF Cardinality(files) <= MaxCount \/ Oldest(files) = current THEN files
  ELSE Fewer(files \ {Oldest(files)}, current)

\* The file with one more line.
Longer(f, second) ==
  LET old == IF f \in DOMAIN disk THEN disk[f] ELSE [size |-> 0, days |-> {}] IN
  [size |-> Min({old.size + 1, MaxSize + 1}), days |-> old.days \cup {DayOf(second)}]

\* changeFile, in which the file can be opened or not, then a line at `second` if it can.
ChangeFile(second, ind, opened) ==
  LET file == <<second, ind>>
      all == map \cup {file}
      left == Fewer(all \ Expired(all), file)
      found == DOMAIN disk \cup (IF opened THEN {file} ELSE {}) IN
  /\ path' = file /\ index' = ind + 1
  /\ open' = opened /\ can_write' = opened
  /\ map' = left
  /\ disk' = [f \in found \ (all \ left) |->
                IF f = file /\ opened THEN Longer(f, second) ELSE disk[f]]

\* The line goes to the file that is open, if there is one.
PrintLine(second) ==
  /\ disk' = IF can_write /\ path \in DOMAIN disk
             THEN [disk EXCEPT ![path] = Longer(path, second)] ELSE disk
  /\ UNCHANGED <<map, path, open, can_write, index>>

\* checkSize: too long, or not open, which size() tells as the largest number.
TooLong == ~open \/ (path \in DOMAIN disk /\ disk[path].size > MaxSize)

\* FileChannel::write of a line logged at `second`.
Write(second, opened) ==
  /\ IF DayOf(second) # last_day
     THEN /\ ChangeFile(second, IF last_day = -1 THEN index ELSE 0, opened)
          /\ last_day' = DayOf(second) /\ UNCHANGED last_check
     ELSE IF second - last_check > CheckTime
     THEN /\ IF TooLong THEN ChangeFile(second, index, opened) ELSE opened /\ PrintLine(second)
          /\ last_check' = second /\ UNCHANGED last_day
     ELSE opened /\ PrintLine(second) /\ UNCHANGED <<last_day, last_check>>
  /\ UNCHANGED <<now, starts>>

Tick ==
  /\ now < MaxTime /\ now' = now + 1
  /\ UNCHANGED <<starts, disk, map, path, open, can_write, index, last_day, last_check>>

Restart ==
  /\ starts < MaxStart /\ starts' = starts + 1
  /\ Start(DOMAIN disk)
  /\ UNCHANGED <<now, disk>>

Next ==
  \/ \E second \in {s \in now - Lag .. now : s > 0}, opened \in BOOLEAN : Write(second, opened)
  \/ Tick \/ Restart

Spec == Init /\ [][Next]_vars

-----------------------------------------------------------------------------
Files == DOMAIN disk

\* The file that lines are written to is in the directory: neither its age nor the number of
\* files removes it, also when a line that comes late opens one that is not the newest.
CurrentKept == can_write => path \in Files

\* Every file is known and will be removed one day; there are at most MaxCount, unless the
\* current one is the oldest.
Bounded ==
  /\ Files \subseteq map
  /\ path # <<>> => Cardinality(map) <= MaxCount \/ Oldest(map) = path

\* A file holds the lines of one day, the day in its name.
OneDay == \A f \in Files : disk[f].days = {DayOf(f[1])}

\* What is removed is older than what is left, and is too old or one too many.
OldestFirst ==
  \A f \in Files \ DOMAIN disk' :
    /\ \A g \in DOMAIN disk' \ {path'} : Before(f, g)
    /\ f \in Expired(Files) \/ Cardinality(map) >= MaxCount

LogFilesRight == CurrentKept /\ Bounded /\ OneDay
=============================================================================
