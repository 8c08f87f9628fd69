---------------------------- MODULE SerialParams ----------------------------
(***************************************************************************)
(* The parameters of a serial port: SPParamHelper says which it accepts,   *)
(* SPUnix::initSPProperty turns them one by one, with SPUtil, into the     *)
(* flags of a termios, and gives that to the kernel, which keeps it from   *)
(* one opening of the port to the next.  Flags of the control mode are the *)
(* numbers of their bits: some the code sets there are flags of the input  *)
(* mode, whose bits mean something else in the control mode.               *)
(***************************************************************************)
EXTENDS Integers, FiniteSets

CONSTANT Asked     \* what the application asks for: records like NoInit

VARIABLES
  tty,        \* the kernel's termios: control mode, other modes, speed if BOTHER
  fds,        \* descriptors of the port this process holds
  sp_fd,      \* sp_fd_
  sp_init,    \* sp_init_
  result      \* what the last init returned; -2 before the first

vars == <<tty, fds, sp_fd, sp_init, result>>

NoInit == [baud |-> 0, parity |-> "none", data |-> 8, stop |-> "one", flow |-> "none", named |-> FALSE]

CSTOPB == 6
CREAD == 7
PARENB == 8
PARODD == 9
CLOCAL == 11
CRTSCTS == 31
INPCK == 4
ISTRIP == 5
IXON == 10
IXANY == 11
IXOFF == 12
CSIZE == {4, 5}
CBAUD == {0, 1, 2, 3, 12}
BOTHER == {12}

Size == [d \in 5 .. 8 |-> CASE d = 5 -> {} [] d = 6 -> {4} [] d = 7 -> {5} [] d = 8 -> {4, 5}]

(* Mutant: 57600 is written as the constant of 50, without its high bit. *)
rate2ConstantLow(b) ==
  CASE b = 9600 -> {0, 2, 3} [] b = 19200 -> {1, 2, 3} [] b = 57600 -> {0} [] OTHER -> {}

(* Three of the thirty rates that have a constant; any other is custom. *)
rate2Constant(b) ==
  CASE b = 9600 -> {0, 2, 3} [] b = 19200 -> {1, 2, 3} [] b = 57600 -> {0, 12} [] OTHER -> {}

Custom(b) == rate2Constant(b) = {}

(* setBaud writes a custom rate to the kernel at once and leaves the option as it was. *)
setBaud(o, b) == IF Custom(b) THEN o ELSE [o EXCEPT !.cflag = (@ \ CBAUD) \cup rate2Constant(b)]

setParity(o, p) ==
  [o EXCEPT !.cflag =
     CASE p = "none"  -> @ \ {PARENB, INPCK}
       [] p = "odd"   -> @ \cup {PARENB, PARODD, INPCK, ISTRIP}
       [] p = "even"  -> (@ \ {PARODD}) \cup {PARENB, INPCK, ISTRIP}
       [] p = "space" -> @ \ {PARENB, CSTOPB}]

setDataBit(o, d) == [o EXCEPT !.cflag = (@ \ CSIZE) \cup Size[d]]

(* Mutant: the flag of two stop bits is set and never cleared. *)
setStopbitSticky(o, s) == [o EXCEPT !.cflag = IF s = "two" THEN @ \cup {CSTOPB} ELSE @]

setStopbit(o, s) == [o EXCEPT !.cflag = IF s = "two" THEN @ \cup {CSTOPB} ELSE @ \ {CSTOPB}]

setFlowCtrl(o, f) ==
  [o EXCEPT !.cflag =
     CASE f = "none"     -> @ \ {CRTSCTS}
       [] f = "hardware" -> @ \cup {CRTSCTS}
       [] f = "software" -> @ \cup {IXON, IXOFF, IXANY}]

setModes(o) ==
  [o EXCEPT !.cflag = @ \cup {CLOCAL, CREAD},
            !.modes = @ \ {"OPOST", "BRKINT", "ICRNL", "INPCK", "ISTRIP", "IXON",
                           "ICANON", "ECHO", "ECHOE", "ISIG"}]

(* What paramIsOk lets through and the setters refuse. *)
paramIsOk(p) == p.named
Refused(p) == p.parity = "mark" \/ p.stop = "onehalf"

(* The setters in their order, up to the one that refuses. *)
Options(o, p) ==
  setModes(setFlowCtrl(setStopbit(setDataBit(setParity(setBaud(o, p.baud), p.parity), p.data),
                                  p.stop), p.flow))

Init ==
  /\ tty = [cflag |-> {0, 2, 3, 4, 5, CREAD, 10}, modes |-> {"OPOST", "ICRNL", "IXON", "ICANON", "ISIG"},
            speed |-> 0]
  /\ fds = {} /\ sp_fd = -1 /\ sp_init = NoInit /\ result = -2

-----------------------------------------------------------------------------
(* TCSETS2 with BOTHER; the rate counts from here on while BOTHER is set. *)
CustomRate(t, b) == [t EXCEPT !.cflag = (@ \ CBAUD) \cup BOTHER, !.speed = b]

(* initSPProperty: the option is what the kernel had before the custom rate. *)
initSPProperty(p) ==
  IF Refused(p)
  THEN /\ tty' = IF Custom(p.baud) THEN CustomRate(tty, p.baud) ELSE tty
       /\ result' = 1
  ELSE /\ tty' = [Options(tty, p) EXCEPT !.speed = IF Custom(p.baud) THEN p.baud ELSE @]
       /\ result' = 0

(* init of a port that is closed.  Descriptor 0, which the process gets when it
   has closed its standard input, counts as a failure and is not closed. *)
InitSP(p, fd) ==
  /\ sp_fd = -1 /\ fd \notin fds
  /\ IF ~paramIsOk(p)
     THEN result' = 1 /\ UNCHANGED <<tty, fds, sp_fd, sp_init>>
     ELSE /\ sp_init' = p
          /\ IF fd <= 0
             THEN /\ result' = 2 /\ fds' = fds \cup ({fd} \ {-1})
                  /\ UNCHANGED <<tty, sp_fd>>
             ELSE /\ initSPProperty(p)
                  /\ IF Refused(p) THEN UNCHANGED <<fds, sp_fd>>
                                   ELSE sp_fd' = fd /\ fds' = fds \cup {fd}

Shutdown ==
  /\ sp_fd # -1
  /\ sp_fd' = -1 /\ fds' = fds \ {sp_fd}
  /\ UNCHANGED <<tty, sp_init, result>>

Next == Shutdown \/ \E p \in Asked, fd \in {-1, 0, 3} : InitSP(p, fd)

Spec == Init /\ [][Next]_vars

-----------------------------------------------------------------------------
Parity(cflag) ==
  IF PARENB \notin cflag THEN "none" ELSE IF PARODD \in cflag THEN "odd" ELSE "even"

(* Whatever the port was used for before, an init that succeeds with one of the
   standard rates and without software flow control leaves the line exactly as it
   was asked for: no bit of one setting survives in another.  Space parity is
   none; a custom rate and software flow control are not what they say. *)
LineAsAsked ==
  (sp_fd # -1 /\ ~Custom(sp_init.baud) /\ sp_init.flow # "software") =>
    /\ tty.cflag \cap CBAUD = rate2Constant(sp_init.baud)
    /\ tty.cflag \cap CSIZE = Size[sp_init.data]
    /\ (CSTOPB \in tty.cflag) = (sp_init.stop = "two")
    /\ (CRTSCTS \in tty.cflag) = (sp_init.flow = "hardware")
    /\ Parity(tty.cflag) = IF sp_init.parity = "space" THEN "none" ELSE sp_init.parity

(* An init that fails changes nothing but the rate, and every descriptor but 0
   that was opened is held by the port. *)
NothingLeft ==
  /\ fds \ {0} = {sp_fd} \ {-1}
  /\ result \in {1, 2} => sp_fd = -1
FailureKeeps == [][result' # 0 => tty'.cflag \ CBAUD = tty.cflag \ CBAUD]_vars

SerialParamsRight == LineAsAsked /\ NothingLeft
=============================================================================
