-------------------------------- MODULE Board --------------------------------
(***************************************************************************)
(* The K210 board from reset to the scheduler: the order in which main.c   *)
(* initialises the kernel on hart 0 while hart 1 waits for `started',      *)
(* fpioa_pin_init() of fpioa.c, the chip select of gpiohs.c, and           *)
(* sdcard_init() of sdcard.c, which talks to a card that may lose a        *)
(* command or an answer.                                                   *)
(***************************************************************************)
EXTENDS FpioaTable, Sequences, FiniteSets

CONSTANTS
  Pins,       \* the pads of the model, among 0..FPIOA_NUM_IO - 1
  Reset,      \* functions a pad may have when the kernel starts
  MaxLost,    \* commands and answers that may be lost
  MaxWarm,    \* ACMD41 commands a card may need
  TRIES,      \* 0xff and 0xfff, the bounds of sdcard.c's loops
  ACMD_TRIES

ASSUME BoardAssumption == {26, 27, 28, 29, 32} \subseteq Pins /\ MaxWarm \in Nat

VARIABLES
  main,      \* how many steps of main() each hart has taken
  started,
  io,        \* fpioa->io
  dir, cs,   \* output_en and output_val of GPIOHS7
  step,      \* where sd_init() is
  phase,     \* of the command it is at: "send", "answer", "end"
  timeout, result, ocr,
  sd,        \* the card
  lost, is_standard_sd
sdVars == <<dir, cs, step, phase, timeout, result, ocr, sd, lost, is_standard_sd>>
boardVars == <<main, started, io, sdVars>>

-----------------------------------------------------------------------------
(* fpioa.c *)
fpioa_set_function_raw(s, number, function) ==
  [s EXCEPT ![number] = [ch_sel |-> function, pd |-> 0, cell |-> function_config[function]]]

fpioa_set_function_Adds(s, number, function) == fpioa_set_function_raw(s, number, function)
\* the function is taken away from every other pad
fpioa_set_function(s, number, function) ==
  LET taken == [n \in Pins |->
        IF s[n].ch_sel = function /\ n # number /\ function # FUNC_RESV0
        THEN [ch_sel |-> FUNC_RESV0, pd |-> 0, cell |-> function_config[FUNC_RESV0]]
        ELSE s[n]]
  IN fpioa_set_function_raw(taken, number, function)

fpioa_get_io_by_function(s, function) ==
  IF \E n \in Pins : s[n].ch_sel = function
  THEN CHOOSE n \in Pins : /\ s[n].ch_sel = function
                           /\ \A m \in Pins : s[m].ch_sel = function => n <= m
  ELSE -1

\* FPIOA_PULL_DOWN; an invalid number changes nothing
fpioa_set_io_pull(s, number) ==
  IF number \notin Pins THEN s
  ELSE [s EXCEPT ![number].pd = 1, ![number].cell.pu = 0]

fpioa_pin_init ==
  LET a == fpioa_set_function(io, 27, FUNC_SPI0_SCLK)
      b == fpioa_set_function(a, 28, FUNC_SPI0_D0)
      c == fpioa_set_function(b, 26, FUNC_SPI0_D1)
      d == fpioa_set_function(c, 32, FUNC_GPIOHS0 + 7)
  IN fpioa_set_function(d, 29, FUNC_SPI0_SS3)

-----------------------------------------------------------------------------
(* main.c *)
Main0 == <<"consoleinit", "printfinit", "kinit", "kvminit", "kvminithart", "timerinit",
           "trapinithart", "procinit", "plicinit", "plicinithart", "fpioa_pin_init",
           "dmac_init", "disk_init", "binit", "fileinit", "userinit", "started">>
Main1 == <<"wait", "kvminithart", "trapinithart", "plicinithart">>
Main(h) == IF h = 0 THEN Main0 ELSE Main1
AtMain(h, s) == main[h] < Len(Main(h)) /\ Main(h)[main[h] + 1] = s
Advance(h) == main' = [main EXCEPT ![h] = @ + 1]
Done(s) == \E k \in 1..main[0] : Main0[k] = s

\* what the code of a step, or of the scheduler, uses
Needs(s) ==
  CASE s = "kvminit" -> {"kinit"}
    [] s \in {"kvminithart", "plicinit", "fpioa_pin_init", "dmac_init"} -> {"kvminit"}
    [] s \in {"trapinithart", "plicinithart"} -> {"kvminit", "timerinit"}
    [] s = "disk_init" -> {"kinit", "kvminit", "fpioa_pin_init", "dmac_init"}
    [] s = "userinit" -> {"kinit", "kvminit", "procinit"}
    [] s = "scheduler" -> {"procinit", "userinit", "disk_init", "binit", "fileinit", "plicinit"}
    [] OTHER -> {}

\* a step of main() other than those below
InitStep(h) ==
  /\ main[h] < Len(Main(h))
  /\ Main(h)[main[h] + 1] \notin {"fpioa_pin_init", "disk_init", "started", "wait"}
  /\ Advance(h)
  /\ UNCHANGED <<started, io, sdVars>>

PinInit(h) ==
  /\ AtMain(h, "fpioa_pin_init") /\ Advance(h)
  /\ io' = fpioa_pin_init
  /\ UNCHANGED <<started, sdVars>>

SetStarted_Forgets(h) ==
  /\ AtMain(h, "started") /\ Advance(h)
  /\ UNCHANGED <<started, io, sdVars>>
SetStarted(h) ==
  /\ AtMain(h, "started") /\ Advance(h)
  /\ started' = TRUE
  /\ UNCHANGED <<io, sdVars>>

WaitStarted_Not(h) == TRUE
WaitStarted(h) == started
SeeStarted(h) ==
  /\ AtMain(h, "wait") /\ WaitStarted(h) /\ Advance(h)
  /\ UNCHANGED <<started, io, sdVars>>

-----------------------------------------------------------------------------
(* The card, as the driver uses it (external).  R1 is 1 while it is idle, 0 when it is
   ready; 255 stands for no answer. *)
NoAnswer == 255
R1(c) == IF c.state = "ready" THEN 0 ELSE 1
Cards == [state : {"off"}, high : BOOLEAN, warm : 0..MaxWarm, app : {FALSE}, blk : {FALSE}]
Receive(c, cmd) ==
  CASE cmd = "cmd0" -> [c EXCEPT !.state = "idle", !.app = FALSE]
    [] cmd = "cmd55" -> [c EXCEPT !.app = TRUE]
    [] cmd = "acmd41" /\ c.app /\ c.warm = 0 -> [c EXCEPT !.state = "ready", !.app = FALSE]
    [] cmd = "acmd41" /\ c.app /\ c.warm > 0 -> [c EXCEPT !.warm = @ - 1, !.app = FALSE]
    [] cmd = "cmd16" -> [c EXCEPT !.blk = TRUE, !.app = FALSE]
    [] OTHER -> [c EXCEPT !.app = FALSE]

-----------------------------------------------------------------------------
(* sdcard.c *)
\* gpiohs_set_drive_mode(7, GPIO_DM_OUTPUT) and the dummy clocks with the card selected
SdStart(h) ==
  /\ AtMain(h, "disk_init") /\ step = "start"
  /\ io' = fpioa_set_io_pull(io, fpioa_get_io_by_function(io, FUNC_GPIOHS0 + 7))
  /\ dir' = "out" /\ cs' = "low"
  /\ step' = "cmd0" /\ phase' = "send" /\ timeout' = TRIES - 1
  /\ UNCHANGED <<main, started, result, ocr, sd, lost, is_standard_sd>>

Cmds == {"cmd0", "cmd8", "cmd58", "cmd55", "acmd41", "ccs", "cmd16"}
\* sd_send_cmd(): the command reaches the card, or is lost
SendCmd(h) ==
  /\ AtMain(h, "disk_init") /\ step \in Cmds /\ phase = "send"
  /\ cs' = "low" /\ phase' = "answer"
  /\ \/ /\ sd' = IF sd.state = "off" /\ step # "cmd0" THEN sd ELSE Receive(sd, step)
        /\ result' = IF sd'.state = "off" THEN NoAnswer ELSE R1(sd')
        /\ UNCHANGED lost
     \/ lost < MaxLost /\ lost' = lost + 1 /\ result' = NoAnswer /\ UNCHANGED sd
  /\ UNCHANGED <<main, started, io, dir, step, timeout, ocr, is_standard_sd>>

\* sd_get_response_R1() and, where there is one, the rest of the response; an answer may
\* be lost, and what is then read instead of the rest is all ones
GetResponse(h) ==
  /\ AtMain(h, "disk_init") /\ step \in Cmds /\ phase = "answer"
  /\ phase' = "end"
  /\ \/ /\ UNCHANGED <<result, lost>>
        /\ ocr' = IF result = NoAnswer THEN TRUE ELSE sd.high /\ sd.state = "ready"
     \/ /\ lost < MaxLost /\ result # NoAnswer
        /\ lost' = lost + 1 /\ result' = NoAnswer /\ ocr' = TRUE
  /\ UNCHANGED <<main, started, io, dir, cs, step, timeout, sd, is_standard_sd>>

GoTo(s, t) == step' = s /\ timeout' = t
Retry(s) == IF timeout > 1 THEN GoTo(s, timeout - 1) ELSE GoTo("fail", 0)
\* CMD55 must find the card idle; ACMD41 is tried again from CMD55
AfterCmd55 == IF result = 1 THEN GoTo("acmd41", timeout) ELSE GoTo("fail", 0)
AfterAcmd41 == IF result = 0 THEN GoTo("ccs", TRIES) ELSE Retry("cmd55")
AfterCcs_NoCheck == IF ocr THEN GoTo("ok", 0) ELSE GoTo("cmd16", TRIES - 1)
AfterCcs ==
  IF result = 0 THEN IF ocr THEN GoTo("ok", 0) ELSE GoTo("cmd16", TRIES - 1)
  ELSE Retry("ccs")

\* sd_end_cmd(), and what the caller does with the response
EndCmd(h) ==
  /\ AtMain(h, "disk_init") /\ step \in Cmds /\ phase = "end"
  /\ cs' = "high" /\ phase' = "send"
  /\ CASE step = "cmd0" -> IF result = 1 THEN GoTo("cmd8", 0) ELSE Retry("cmd0")
       [] step = "cmd8" -> IF result = 1 THEN GoTo("cmd58", TRIES - 1) ELSE GoTo("fail", 0)
       [] step = "cmd58" -> IF result = 1 THEN GoTo("cmd55", ACMD_TRIES - 1) ELSE Retry("cmd58")
       [] step = "cmd55" -> AfterCmd55
       [] step = "acmd41" -> AfterAcmd41
       [] step = "ccs" -> AfterCcs
       [] step = "cmd16" -> IF result = 0 THEN GoTo("ok", 0) ELSE Retry("cmd16")
  /\ is_standard_sd' = IF step' = "ok" THEN step = "cmd16" ELSE is_standard_sd
  /\ UNCHANGED <<main, started, io, dir, result, ocr, sd, lost>>

\* sdcard_init() returns; a failure panics and the hart goes no further
SdDone(h) ==
  /\ AtMain(h, "disk_init") /\ step = "ok" /\ Advance(h)
  /\ UNCHANGED <<started, io, sdVars>>

-----------------------------------------------------------------------------
BoardInit ==
  /\ main = [h \in {0, 1} |-> 0] /\ started = FALSE
  /\ io \in [Pins -> {[ch_sel |-> f, pd |-> 0, cell |-> function_config[f]] : f \in Reset}]
  /\ dir = "in" /\ cs = "low" /\ step = "start" /\ phase = "send" /\ timeout = 0
  /\ result = NoAnswer /\ ocr = FALSE /\ sd \in Cards /\ lost = 0 /\ is_standard_sd = FALSE

HartStep(h) ==
  \/ InitStep(h) \/ PinInit(h) \/ SetStarted(h) \/ SeeStarted(h)
  \/ SdStart(h) \/ SendCmd(h) \/ GetResponse(h) \/ EndCmd(h) \/ SdDone(h)
BoardNext == \E h \in {0, 1} : HartStep(h)
BoardSpec == BoardInit /\ [][BoardNext]_boardVars

-----------------------------------------------------------------------------
(***************************************************************************)
(* Properties                                                              *)
(***************************************************************************)
\* No hart takes a step of main(), or enters the scheduler, before what the step uses
\* has been initialised by hart 0 (main.c:71 is all that keeps hart 1 back).
InitialisedFirst ==
  \A h \in {0, 1} :
    LET s == IF main[h] = Len(Main(h)) THEN "scheduler" ELSE Main(h)[main[h] + 1]
    IN s # "wait" => \A n \in Needs(s) : Done(n)

\* From the first dummy clock on, whatever the boot loader left in the pads, the clock,
\* the two data lines and the chip select are each on one pad, the one they are wired to,
\* and that pad can drive or read it.
PinsWired ==
  step # "start" =>
    /\ \A w \in {<<27, FUNC_SPI0_SCLK>>, <<28, FUNC_SPI0_D0>>, <<26, FUNC_SPI0_D1>>,
                 <<32, FUNC_GPIOHS0 + 7>>} :
         {n \in Pins : io[n].ch_sel = w[2]} = {w[1]}
    /\ \A n \in {27, 28, 32} : io[n].cell.oe_en = 1
    /\ io[26].cell.ie_en = 1
    /\ dir = "out" /\ \A n \in Pins : ~(io[n].cell.pu = 1 /\ io[n].pd = 1)

\* When sd_init() succeeds the card has left the idle state, is deselected, and sectors
\* will be addressed the way its type needs: in blocks for a high capacity card, in bytes
\* with the block length set for a standard one, whichever commands and answers were lost.
InitSound ==
  step = "ok" => /\ sd.state = "ready" /\ cs = "high"
                 /\ is_standard_sd = ~sd.high
                 /\ ~sd.high => sd.blk

-----------------------------------------------------------------------------
(***************************************************************************)
(* The inductive invariant.                                                *)
(***************************************************************************)
\* Hart 1 is behind `started', which hart 0 sets last.
Order ==
  /\ main \in [{0, 1} -> Nat] /\ started \in BOOLEAN
  /\ main[0] <= Len(Main0) /\ main[1] <= Len(Main1)
  /\ started <=> main[0] = Len(Main0)
  /\ main[1] > 0 => started

\* among the pads s, function f is on pad k and no other, with the setting of the table
On(s, f, k) ==
  /\ \A n \in Pins : s[n].ch_sel = f <=> n = k
  /\ s[k] = [ch_sel |-> f, pd |-> s[k].pd, cell |-> function_config[f]]

Wired(s) ==
  /\ On(s, FUNC_SPI0_SCLK, 27) /\ On(s, FUNC_SPI0_D0, 28)
  /\ On(s, FUNC_SPI0_D1, 26) /\ On(s, FUNC_GPIOHS0 + 7, 32)

Unpulled(s) == s = [n \in Pins |-> s[n]] /\ \A n \in Pins : s[n].pd = 0

\* The pads after fpioa_pin_init(), and after the pull-down of the chip select.
Pads ==
  /\ main[0] > 10 => Wired(io)
  /\ IF step = "start" THEN Unpulled(io)
     ELSE main[0] >= 12 /\ dir = "out" /\ \A n \in Pins \ {32} : io[n].pd = 0

\* What the driver may conclude from an answer, or from the lack of one.
Session ==
  /\ sd \in [state : {"off", "idle", "ready"}, high : BOOLEAN, warm : Int,
             app : BOOLEAN, blk : BOOLEAN]
  /\ result \in {0, 1, NoAnswer} /\ phase \in {"send", "answer", "end"}
  /\ phase = "answer" => result = R1(sd) \/ result = NoAnswer
  /\ step = "ccs" /\ phase = "end" /\ result = 0 => sd.state = "ready" /\ ocr = sd.high
  /\ step = "cmd16" =>
       /\ sd.state = "ready" /\ ~sd.high
       /\ phase # "send" /\ result = 0 => sd.blk
  /\ InitSound

BoardIndInv == Order /\ Pads /\ Session
=============================================================================
