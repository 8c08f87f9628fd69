---------------------------- MODULE MCComponents ----------------------------
(***************************************************************************)
(* Instances for TLC of components that share no state with each other:    *)
(* SqlPool, and those instantiated below.  `unit` says which of them a     *)
(* behaviour is about, the others stay as they started.  The variables of  *)
(* an instance begin with its name.                                        *)
(***************************************************************************)
EXTENDS SqlPool

CONSTANTS
  MaxMessage, MaxByte, MaxInit, NextLen, PoolThreads, MaxRecord, MaxSpan, MaxTime, Threads,
  Text, MaxLine, MaxHalf, LogDay, MaxTick, Lag, MaxDay, MaxCount, CheckTime, MaxLines,
  MaxStart, MaxSend, MaxOwn, BufSize, MaxOption, MaxArg, Days, Seconds, West, East, Summer,
  MaxLoad, PathName, Depth, MaxCall, MaxEntry, Letter, Unsafe, Wide, MaxGiven, MaxLong

VARIABLES
  unit,
  port_open, port_to_recv, port_running, port_thread, port_seen, port_latch, port_user,
  port_suspended, port_listen, port_cache, port_swap, port_sent, port_wire, port_arrived,
  port_taken, port_sp_buf, port_jobs, port_tmp, port_next_len, port_delivered, port_history,
  params_tty, params_fds, params_sp_fd, params_sp_init, params_result,
  win_handle, win_thread_of, win_to_recv, win_running, win_thread, win_wCount, win_user,
  win_mutex_fd, win_queue, win_arrived, win_next_len, win_delivered, win_events, win_inits,
  win_history,
  exec_started, exec_now, exec_ran, exec_sleeping, exec_since, exec_list, exec_thread_pos,
  log_now, log_pc, log_pending, log_sem, log_exit, log_run, log_tmp, log_last, log_printed,
  log_logged,
  files_now, files_starts, files_disk, files_map, files_path, files_open, files_can_write,
  files_index, files_last_day, files_last_check,
  box_send, box_wbio, box_rbio, box_phase, box_begun, box_net, box_got, box_given,
  cmd_options, cmd_reused, cmd_posix, cmd_given, cmd_g, cmd_found, cmd_args, cmd_at,
  date_t, date_days, date_tm, date_at,
  certs_loads, certs_empty, certs_ctxs, certs_wildcards, certs_default, certs_named,
  certs_ofServer, certs_isDefault, certs_answer,
  file_want, file_cur, file_walked, file_dirs, file_files, file_op, file_calls, file_result,
  ini_at, ini_text, ini_next, ini_tag, ini_map, ini_keys, ini_copy,
  str_given, str_str, str_old, str_new, str_pc, str_calls

portVars ==
  <<port_open, port_to_recv, port_running, port_thread, port_seen, port_latch, port_user,
    port_suspended, port_listen, port_cache, port_swap, port_sent, port_wire, port_arrived,
    port_taken, port_sp_buf, port_jobs, port_tmp, port_next_len, port_delivered,
    port_history>>
paramsVars ==
  <<params_tty, params_fds, params_sp_fd, params_sp_init, params_result>>
winVars ==
  <<win_handle, win_thread_of, win_to_recv, win_running, win_thread, win_wCount, win_user,
    win_mutex_fd, win_queue, win_arrived, win_next_len, win_delivered, win_events,
    win_inits, win_history>>
execVars ==
  <<exec_started, exec_now, exec_ran, exec_sleeping, exec_since, exec_list, exec_thread_pos>>
logVars ==
  <<log_now, log_pc, log_pending, log_sem, log_exit, log_run, log_tmp, log_last,
    log_printed, log_logged>>
filesVars ==
  <<files_now, files_starts, files_disk, files_map, files_path, files_open,
    files_can_write, files_index, files_last_day, files_last_check>>
boxVars ==
  <<box_send, box_wbio, box_rbio, box_phase, box_begun, box_net, box_got, box_given>>
cmdVars ==
  <<cmd_options, cmd_reused, cmd_posix, cmd_given, cmd_g, cmd_found, cmd_args, cmd_at>>
dateVars ==
  <<date_t, date_days, date_tm, date_at>>
certsVars ==
  <<certs_loads, certs_empty, certs_ctxs, certs_wildcards, certs_default, certs_named,
    certs_ofServer, certs_isDefault, certs_answer>>
fileVars ==
  <<file_want, file_cur, file_walked, file_dirs, file_files, file_op, file_calls,
    file_result>>
iniVars ==
  <<ini_at, ini_text, ini_next, ini_tag, ini_map, ini_keys, ini_copy>>
strVars ==
  <<str_given, str_str, str_old, str_new, str_pc, str_calls>>

Port == INSTANCE SerialPort WITH
  open <- port_open, to_recv <- port_to_recv, running <- port_running,
  thread <- port_thread, seen <- port_seen, latch <- port_latch, user <- port_user,
  suspended <- port_suspended, listen <- port_listen, cache <- port_cache,
  swap <- port_swap, sent <- port_sent, wire <- port_wire, arrived <- port_arrived,
  taken <- port_taken, sp_buf <- port_sp_buf, jobs <- port_jobs, tmp <- port_tmp,
  next_len <- port_next_len, delivered <- port_delivered, history <- port_history

Param(b, p, d, s, f) ==
  [baud |-> b, parity |-> p, data |-> d, stop |-> s, flow |-> f, named |-> TRUE]

AskedParams ==
  {[Param(0, "none", 8, "one", "none") EXCEPT !.named = FALSE],
   Param(9600, "none", 8, "one", "none"), Param(57600, "odd", 7, "two", "hardware"),
   Param(19200, "even", 7, "one", "software"), Param(250000, "mark", 8, "one", "none"),
   Param(250000, "space", 7, "two", "none"), Param(57600, "even", 8, "onehalf", "hardware"),
   Param(19200, "odd", 8, "one", "none")}
Params == INSTANCE SerialParams WITH
  Asked <- AskedParams, tty <- params_tty, fds <- params_fds, sp_fd <- params_sp_fd,
  sp_init <- params_sp_init, result <- params_result

Win == INSTANCE SerialWin WITH
  handle <- win_handle, thread_of <- win_thread_of, to_recv <- win_to_recv,
  running <- win_running, thread <- win_thread, wCount <- win_wCount, user <- win_user,
  mutex_fd <- win_mutex_fd, queue <- win_queue, arrived <- win_arrived,
  next_len <- win_next_len, delivered <- win_delivered, events <- win_events,
  inits <- win_inits, history <- win_history

Exec == INSTANCE Executors WITH
  Size <- PoolThreads, started <- exec_started, now <- exec_now, ran <- exec_ran,
  sleeping <- exec_sleeping, since <- exec_since, list <- exec_list,
  thread_pos <- exec_thread_pos

Log == INSTANCE AsyncLog WITH
  Thread <- Threads, MaxTime <- MaxHalf, now <- log_now, pc <- log_pc,
  pending <- log_pending, sem <- log_sem, exit <- log_exit, run <- log_run, tmp <- log_tmp,
  last <- log_last, printed <- log_printed, logged <- log_logged

Files == INSTANCE LogFiles WITH
  Day <- LogDay, MaxTime <- MaxTick, MaxSize <- MaxLines, now <- files_now,
  starts <- files_starts, disk <- files_disk, map <- files_map, path <- files_path,
  open <- files_open, can_write <- files_can_write, index <- files_index,
  last_day <- files_last_day, last_check <- files_last_check

Box == INSTANCE SSLBox WITH
  send <- box_send, wbio <- box_wbio, rbio <- box_rbio, phase <- box_phase,
  begun <- box_begun, net <- box_net, got <- box_got, given <- box_given

CmdOption(s, l, t, d, m) == [short |-> s, long |-> l, type |-> t, default |-> d, must |-> m]

Options ==
  {CmdOption("x", <<"x", "a">>, 0, FALSE, FALSE), CmdOption("y", <<"x", "b">>, 1, FALSE, TRUE),
   CmdOption("z", <<"z">>, 2, TRUE, FALSE)}

Elements ==
  {<<"v">>, <<"w">>, <<"-", "-">>, <<"-", "x", "y">>, <<"-", "-", "x">>, <<"-", "h">>,
   <<"-", "-", "x", "b">>, <<"-", "-", "z", "=", "v">>}
Cmd == INSTANCE CommandLine WITH
  Option <- Options, Element <- Elements, options <- cmd_options, reused <- cmd_reused,
  posix <- cmd_posix, given <- cmd_given, g <- cmd_g, found <- cmd_found, args <- cmd_args,
  at <- cmd_at

Date == INSTANCE LocalTime WITH
  t <- date_t, days <- date_days, tm <- date_tm, at <- date_at

CertNames == {<<>>, <<"x", ".", "a">>, <<"*", ".", "a">>, <<"*", ".", "x", ".", "a">>}
CertHosts == {<<>>, <<"x", ".", "a">>, <<"b", ".", "x", ".", "a">>, <<"b", ".", "a">>, <<"b", ".", "a", ".", "a">>, <<"b">>}
Certs == INSTANCE Certificates WITH
  Names <- CertNames, Hosts <- CertHosts, loads <- certs_loads, empty <- certs_empty,
  ctxs <- certs_ctxs, wildcards <- certs_wildcards, default <- certs_default,
  named <- certs_named, ofServer <- certs_ofServer, isDefault <- certs_isDefault,
  answer <- certs_answer

\* Directories that a path is taken from.
PathBase == {<<>>, <<"r">>}
File == INSTANCE Paths WITH
  Thread <- Threads, Name <- PathName, Base <- PathBase, want <- file_want,
  cur <- file_cur, walked <- file_walked, dirs <- file_dirs, files <- file_files,
  op <- file_op, calls <- file_calls, result <- file_result

IniLines ==
  {<<"[", "a", "]">>, <<"[", " ", "b", "]">>, <<"x", "=", "v">>, <<"x", " ", "=", "v", "=", "w">>,
   <<"y">>, <<";", "=">>, <<"b", ".", "x", "=">>, <<"=", "v">>, <<" ", "y", "=", "0xff">>, <<"[", "]", "=", "v">>}
Ini == INSTANCE IniFile WITH
  Line <- IniLines, MaxLine <- MaxEntry, at <- ini_at, text <- ini_text, next <- ini_next,
  tag <- ini_tag, map <- ini_map, keys <- ini_keys, copy <- ini_copy

Patterns ==
  {<<>>, <<"a">>, <<"0xff">>, <<"a", "a">>, <<"a", "0xff">>, <<"0xff", "a">>,
   <<"0xff", "0xff", "a">>}
Str == INSTANCE Texts WITH
  Pattern <- Patterns, given <- str_given, str <- str_str, old <- str_old, new <- str_new,
  pc <- str_pc, calls <- str_calls

ComponentsInit ==
  /\ unit \in {"sql", "port", "params", "win", "exec", "log", "files", "box", "cmd", "date", "certs",
                 "file", "ini", "str"}
  /\ Init
  /\ Port!Init
  /\ Params!Init
  /\ Win!Init
  /\ Exec!Init
  /\ Log!Init
  /\ Files!Init
  /\ Box!Init
  /\ Cmd!Init
  /\ Date!Init
  /\ Certs!Init
  /\ File!Init
  /\ Ini!Init
  /\ Str!Init

ComponentsNext ==
  /\ UNCHANGED unit
  /\ IF unit = "sql" THEN Next ELSE UNCHANGED vars
  /\ IF unit = "port" THEN Port!Next ELSE UNCHANGED portVars
  /\ IF unit = "params" THEN Params!Next ELSE UNCHANGED paramsVars
  /\ IF unit = "win" THEN Win!Next ELSE UNCHANGED winVars
  /\ IF unit = "exec" THEN Exec!Next ELSE UNCHANGED execVars
  /\ IF unit = "log" THEN Log!Next ELSE UNCHANGED logVars
  /\ IF unit = "files" THEN Files!Next ELSE UNCHANGED filesVars
  /\ IF unit = "box" THEN Box!Next ELSE UNCHANGED boxVars
  /\ IF unit = "cmd" THEN Cmd!Next ELSE UNCHANGED cmdVars
  /\ IF unit = "date" THEN Date!Next ELSE UNCHANGED dateVars
  /\ IF unit = "certs" THEN Certs!Next ELSE UNCHANGED certsVars
  /\ IF unit = "file" THEN File!Next ELSE UNCHANGED fileVars
  /\ IF unit = "ini" THEN Ini!Next ELSE UNCHANGED iniVars
  /\ IF unit = "str" THEN Str!Next ELSE UNCHANGED strVars

componentsVars == <<unit, vars, portVars, paramsVars, winVars, execVars, logVars,
             filesVars, boxVars, cmdVars, dateVars, certsVars, fileVars, iniVars, strVars>>

ComponentsSpec ==
  /\ ComponentsInit /\ [][ComponentsNext]_componentsVars
  /\ Port!Fairness
  /\ Win!Fairness

(* A serial port on Unix, on Windows, and the parameters of one. *)
SerialRight ==
  /\ [](Port!SerialPortRight /\ Params!SerialParamsRight /\ Win!SerialWinRight)
  /\ Port!Served /\ Port!Closes /\ Params!FailureKeeps /\ Win!Closes

(* The choice of an executor. *)
ExecutorsRight == Exec!TypeOK /\ Exec!LoadIsShare /\ Exec!LeastLoad

(* What a program was called with and configured by; its log, on the way to a file, the files
   and their dates; the paths it makes and deletes, and the texts it works on. *)
ProgramRight ==
  /\ []( /\ Cmd!CommandLineRight /\ Ini!IniFileRight
         /\ Log!AsyncLogRight /\ Files!LogFilesRight /\ Date!LocalTimeRight
         /\ File!PathsRight /\ Str!TextsRight)
  /\ [][Files!OldestFirst]_filesVars /\ [][File!Creates /\ File!Deletes]_fileVars

(* Data in a TLS box, and the certificate it answers with. *)
TlsRight == [](Box!InOrder /\ Box!NothingLeft) /\ Certs!CertificatesRight
=============================================================================
