------------------------------ MODULE AsyncLog ------------------------------
(***************************************************************************)
(* src/Util/logger.cpp: lines that threads log, on their way through the   *)
(* AsyncLogWriter's list and its thread to the channels.  writeChannels    *)
(* keeps back a line that repeats the last one, counts it, and prints the  *)
(* count when a different line comes or 500 ms have passed.                *)
(***************************************************************************)
EXTENDS SequencesExt, Integers

CONSTANTS Thread,     \* threads that log
          Text,       \* what a line says and where it was logged
          MaxLine,    \* bound: lines logged
          MaxTime     \* bound: of the clock; one unit is 500 ms

VARIABLES
  now,
  pc,         \* of each thread: between the list and the semaphore, or not
  pending,    \* _pending
  sem,        \* _sem
  exit,       \* _exit_flag
  run,        \* where the writer's thread stands
  tmp,        \* flushAll's local list
  last,       \* _last_log
  printed,    \* what the channels were given: a text and its _repeat
  logged      \* the texts in the order of the list

vars == <<now, pc, pending, sem, exit, run, tmp, last, printed, logged>>

Init ==
  /\ now = 0 /\ pc = [t \in Thread |-> "idle"]
  /\ pending = <<>> /\ sem = 0 /\ exit = FALSE /\ run = "loop" /\ tmp = <<>>
  /\ last = [text |-> {}, time |-> 0, repeat |-> 0]
  /\ printed = <<>> /\ logged = <<>>

-----------------------------------------------------------------------------
\* ~LogContextCapture hands the line to AsyncLogWriter::write, which posts afterwards.
Log(t, x) ==
  /\ pc[t] = "idle" /\ ~exit /\ Len(logged) < MaxLine
  /\ pending' = Append(pending, [text |-> {x}, time |-> now])
  /\ logged' = Append(logged, x)
  /\ pc' = [pc EXCEPT ![t] = "post"]
  /\ UNCHANGED <<now, sem, exit, run, tmp, last, printed>>

Post(t) ==
  /\ pc[t] = "post" /\ pc' = [pc EXCEPT ![t] = "idle"]
  /\ sem' = sem + 1
  /\ UNCHANGED <<now, pending, exit, run, tmp, last, printed, logged>>

\* run(): looks at the flag, waits, flushes.
Loop ==
  /\ run = "loop" /\ run' = IF exit THEN "ended" ELSE "wait"
  /\ UNCHANGED <<now, pc, pending, sem, exit, tmp, last, printed, logged>>

Wait ==
  /\ run = "wait" /\ sem > 0 /\ sem' = sem - 1
  /\ run' = "swap"
  /\ UNCHANGED <<now, pc, pending, exit, tmp, last, printed, logged>>

Swap ==
  /\ run = "swap" /\ run' = "flush"
  /\ tmp' = pending /\ pending' = <<>>
  /\ UNCHANGED <<now, pc, sem, exit, last, printed, logged>>

\* writeChannels_l.
Printed(ctx, repeat) == <<ctx.text, repeat>>
LastIs(ctx) == [text |-> ctx.text, time |-> ctx.time, repeat |-> 0]

\* Mutant: the line that ends the 500 ms is not counted itself.
RepeatedLess(ctx) ==
  IF ctx.time - last.time > 1
  THEN printed' = Append(printed, Printed(ctx, last.repeat)) /\ last' = LastIs(ctx)
  ELSE last' = [last EXCEPT !.repeat = @ + 1] /\ UNCHANGED printed

\* The same line again.
Repeated(ctx) ==
  IF ctx.time - last.time > 1
  THEN printed' = Append(printed, Printed(ctx, last.repeat + 1)) /\ last' = LastIs(ctx)
  ELSE last' = [last EXCEPT !.repeat = @ + 1] /\ UNCHANGED printed

\* writeChannels: another line, after the count of the last one if it was repeated.
WriteChannels(ctx) ==
  IF ctx.text = last.text THEN Repeated(ctx)
  ELSE /\ printed' = printed \o (IF last.repeat > 0 THEN <<Printed(last, last.repeat)>> ELSE <<>>)
                             \o <<Printed(ctx, 0)>>
       /\ last' = LastIs(ctx)

Flush ==
  /\ run \in {"flush", "last"}
  /\ IF tmp = <<>> THEN run' = (IF run = "flush" THEN "loop" ELSE "gone") /\ UNCHANGED <<tmp, last, printed>>
     ELSE WriteChannels(Head(tmp)) /\ tmp' = Tail(tmp) /\ UNCHANGED run
  /\ UNCHANGED <<now, pc, pending, sem, exit, logged>>

\* ~AsyncLogWriter, when no thread logs any more: the flag, a post, join, and the rest.
Destroy ==
  /\ ~exit /\ \A t \in Thread : pc[t] = "idle"
  /\ exit' = TRUE /\ sem' = sem + 1
  /\ UNCHANGED <<now, pc, pending, run, tmp, last, printed, logged>>

Joined ==
  /\ run = "ended" /\ run' = "last"
  /\ tmp' = pending /\ pending' = <<>>
  /\ UNCHANGED <<now, pc, sem, exit, last, printed, logged>>

Tick ==
  /\ now < MaxTime /\ now' = now + 1
  /\ UNCHANGED <<pc, pending, sem, exit, run, tmp, last, printed, logged>>

Next ==
  \/ \E t \in Thread : Post(t) \/ \E x \in Text : Log(t, x)
  \/ Loop \/ Wait \/ Swap \/ Flush \/ Destroy \/ Joined \/ Tick

Spec == Init /\ [][Next]_vars

-----------------------------------------------------------------------------
Texts(list) == [i \in 1 .. Len(list) |-> list[i].text]
Told(entry) == [i \in 1 .. (IF entry[2] = 0 THEN 1 ELSE entry[2]) |-> entry[1]]

\* What was printed, each entry as often as it says, then what is kept back, being written
\* and listed, is what was logged: in order, nothing lost and nothing counted twice.
Accounted ==
  FlattenSeq([i \in 1 .. Len(printed) |-> Told(printed[i])])
    \o [i \in 1 .. last.repeat |-> last.text] \o Texts(tmp) \o Texts(pending)
  = [i \in 1 .. Len(logged) |-> {logged[i]}]

\* The writer does not sleep on a line that was posted, and leaves none when it is destroyed.
NoStall ==
  /\ run = "wait" /\ sem = 0 /\ (\A t \in Thread : pc[t] = "idle") => pending = <<>> /\ ~exit
  /\ run = "gone" => pending = <<>> /\ tmp = <<>>

AsyncLogRight == Accounted /\ NoStall
=============================================================================
