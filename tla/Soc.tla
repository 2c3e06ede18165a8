-------------------------------- MODULE Soc ---------------------------------
(***************************************************************************)
(* Resetting the SoC without its reset (wtmi/soc.c): the firmware stops    *)
(* the application processor (AP), resets the peripherals, runs a helper   *)
(* on the AP (a53_helper/main.c) that tidies up what only the AP can       *)
(* reach, and replaces itself by the firmware in flash.  It does so at the *)
(* AP's request, for the debug console, or just before the watchdog fires. *)
(* The two sides share a word in AP RAM and the resets of the cores; the   *)
(* firmware waits for the helper with a timeout, and the user can end the  *)
(* waiting at any time.                                                    *)
(*                                                                         *)
(* Boot ROM, cores and operating system (OS) of the AP are external.       *)
(***************************************************************************)
EXTENDS ImageLoad

CONSTANTS
  OBMI, WTMI,     \* the identifiers of the images
  Flashes,        \* what may be in flash
  Row1,           \* the values row 1 may hold
  Polls, OddPoll, \* how often start_ap_workaround looks (4000), and 1000
  Timeout,        \* how often the firmware looks for the helper again (5000)
  Counters,       \* values of the watchdog's counter, of two words
  Drift,          \* how far it may count between the reads of its words
  Prescalers,
  Word,           \* 2^32
  LoLimit,        \* 2^24
  Limit           \* a second, in ticks (25000000)

ASSUME SocAssumption ==
  /\ Timeout \in Nat /\ Row1 \subseteq Nat
  /\ Polls \in Nat /\ OddPoll \in Nat
  /\ Word \in Nat \ {0} /\ LoLimit \in 1..Word /\ Limit \in Nat
  /\ Counters \subseteq Nat /\ Drift \in Nat /\ Prescalers \subseteq Nat

VARIABLES
  pc,             \* where the firmware is
  caller,         \* who wants the reset, or the helper
  workaround,     \* reset_workaround_enabled
  boot_state,     \* of the board
  wd,             \* the watchdog as mox_wdt_workaround has read it
  seen,           \* why the firmware stopped waiting for the helper
  timeout_ms,
  polls,          \* how often it has looked whether the AP runs
  core0, core1,   \* what the cores run; core 1 is "held" in reset
  start,          \* the message start_ap_at left for the boot ROM
  done,           \* A53_HELPER_DONE in AP RAM
  ap,             \* what the OS left behind
  gic_was_on,     \* history: the GIC was on before the helper was started
  fw              \* history: the flash the new firmware was loaded from

cores   == <<core0, core1, start, done>>
request == <<caller, workaround, boot_state, wd>>
wait    == <<seen, timeout_ms, polls>>
history == <<gic_was_on, fw>>
svars   == <<pc, request, wait, cores, ap, history>>

Leftovers == {"gic", "dvfs", "watchdog", "atf mailbox", "peripherals"}
None      == "none"

SocInit ==
  /\ pc \in {"loop", "start ap"} /\ caller = None
  /\ workaround \in BOOLEAN /\ boot_state \in {BootState(v) : v \in Row1}
  /\ wd = None /\ seen = None /\ timeout_ms = 0 /\ polls = 0
  /\ core0 = "rom" /\ core1 = "held" /\ start = None /\ done \in BOOLEAN
  /\ ap \in SUBSET {"atf mailbox"} /\ gic_was_on = FALSE /\ fw = None

Goto(l) == pc' = l

-----------------------------------------------------------------------------
(***************************************************************************)
(* start_ap_workaround, without the debug console: the AP is started, and  *)
(* the firmware looks for what the AP writes into its mailbox; what it     *)
(* does after OddPoll looks was meant for an AP that had not started.      *)
(***************************************************************************)
start_ap ==
  /\ pc = "start ap"
  /\ start' = "os" /\ polls' = 0
  /\ Goto("poll ap")
  /\ UNCHANGED <<request, seen, timeout_ms, core0, core1, done, ap, history>>

PollAp ==
  /\ pc = "poll ap"
  /\ IF polls < Polls /\ "atf mailbox" \notin ap
       THEN polls' = polls + 1 /\ UNCHANGED pc
       ELSE Goto(IF polls = OddPoll THEN "hold core1" ELSE "loop") /\ polls' = 0
  /\ UNCHANGED <<request, seen, timeout_ms, cores, ap, history>>

ResetCore0 ==
  /\ pc = "restart core0"
  /\ core0' = "rom"
  /\ Goto("loop")
  /\ UNCHANGED <<request, wait, core1, start, done, ap, history>>

-----------------------------------------------------------------------------
(***************************************************************************)
(* The AP (external).                                                      *)
(***************************************************************************)
BootRom ==
  /\ core0 = "rom" /\ start # None
  /\ core0' = IF start = "os" THEN "os" ELSE "hold"
  /\ start' = None
  /\ UNCHANGED <<core1, done, ap>>

\* Everything the OS does with what the helper will have to tidy up, and with
\* its RAM.  It takes messages like any answer.
OsRuns ==
  /\ core0 = "os"
  /\ \/ \E x \in Leftovers : ap' = ap \cup {x}
        /\ UNCHANGED <<core1, start, done>>
     \/ \E x \in {"gic", "watchdog"} : ap' = ap \ {x}
        /\ UNCHANGED <<core1, start, done>>
     \/ core1' = "os" /\ UNCHANGED <<start, done, ap>>
     \/ start' = None /\ UNCHANGED <<core1, done, ap>>
     \/ done' \in BOOLEAN /\ UNCHANGED <<core1, start, ap>>
  /\ UNCHANGED core0

\* a53_helper/main.c: core1_boot, do_reset, DONE.
HelperCore1 ==
  /\ \/ core0 = "hold" /\ core1' = "held" /\ core0' = "release"
     \/ core0 = "release" /\ core1' = "helper" /\ core0' = "gic"
  /\ UNCHANGED <<start, done, ap>>

\* Clearing the last bits of the GIC need not work.
reset_soc_irqs ==
  /\ core0 = "gic" /\ core0' = "dvfs"
  /\ ap' = ap \ {"gic"} \/ ap' = ap
  /\ UNCHANGED <<core1, start, done>>

reset_dvfs ==
  /\ core0 = "dvfs" /\ core0' = "counters"
  /\ ap' = ap \ {"dvfs"}
  /\ UNCHANGED <<core1, start, done>>

reset_wdt_and_counters ==
  /\ core0 = "counters" /\ core0' = "done"
  /\ ap' = ap \ {"watchdog"}
  /\ UNCHANGED <<core1, start, done>>

HelperDone ==
  /\ core0 = "done" /\ core0' = "spin"
  /\ done' = TRUE
  /\ UNCHANGED <<core1, start, ap>>

Ap == /\ \/ BootRom \/ OsRuns \/ HelperCore1 \/ reset_soc_irqs
         \/ reset_dvfs \/ reset_wdt_and_counters \/ HelperDone
      /\ UNCHANGED <<pc, request, wait, history>>

-----------------------------------------------------------------------------
(***************************************************************************)
(* The main loop: who wants a reset.                                       *)
(***************************************************************************)
\* The AP takes a message before the main loop gets to the next request.
Idle == pc = "loop" /\ start = None

\* For an AP that waits in its boot ROM: nobody else takes the message at once.
kick ==
  /\ Idle /\ core0 = "rom"
  /\ start' = "os"
  /\ UNCHANGED <<pc, request, wait, core0, core1, done, ap, history>>

Ask(who, l) ==
  /\ caller' = who /\ Goto(l)
  /\ UNCHANGED <<workaround, boot_state, wd, wait, cores, ap, history>>

cmd_reset_by_sw      == Idle /\ Ask("debug", "workaround")
cmd_run_a53_helper   == Idle /\ Ask("a53", "run")
cmd_reboot           == Idle /\ core0 = "os" /\ Ask("reset", "reset_soc")
reset                == Idle /\ Ask("reset", "reset_soc")

\* mox_wdt_workaround: the watchdog is active; its low word is read, then its
\* high word, while it counts down.
WdtReadLo ==
  /\ Idle /\ workaround /\ "watchdog" \in ap
  /\ \E c \in Counters, p \in Prescalers :
       wd' = [counter |-> c, prescaler |-> p, lo |-> c % Word, hi |-> 0]
  /\ Goto("wdt_hi")
  /\ UNCHANGED <<caller, workaround, boot_state, wait, cores, ap, history>>

WdtReadHi ==
  /\ pc = "wdt_hi"
  /\ \E d \in 0..Drift : d <= wd.counter /\
       wd' = [wd EXCEPT !.hi = (wd.counter - d) \div Word]
  /\ Goto("wdt_decide")
  /\ UNCHANGED <<caller, workaround, boot_state, wait, cores, ap, history>>

\* Mutant: the product is computed without looking whether it fits.
DueUnguarded == wd.hi = 0 /\ (wd.lo * wd.prescaler) % Word < Limit

Due == wd.hi = 0 /\ wd.lo < LoLimit /\ (wd.lo * wd.prescaler) % Word < Limit

WdtDecide ==
  /\ pc = "wdt_decide"
  /\ IF Due THEN Goto("reset_soc") /\ caller' = "reset"
            ELSE Goto("loop") /\ caller' = caller
  /\ wd' = None
  /\ UNCHANGED <<workaround, boot_state, wait, cores, ap, history>>

-----------------------------------------------------------------------------
(***************************************************************************)
(* reset_soc, reset_workaround, _run_a53_helper.                           *)
(***************************************************************************)
reset_soc ==
  /\ pc = "reset_soc"
  /\ Goto(IF workaround THEN "workaround" ELSE "warm reset")
  /\ UNCHANGED <<request, wait, cores, ap, history>>

DisableWatchdog ==
  /\ pc = "workaround"
  /\ ap' = ap \ {"watchdog"}
  /\ Goto("stop core1")
  /\ UNCHANGED <<request, wait, cores, history>>

StopCore1(l, next) ==
  /\ pc = l
  /\ core1' = "held"
  /\ Goto(next)
  /\ UNCHANGED <<request, wait, core0, start, done, ap, history>>

core0_reset_cycle == core0' = "rom"

StopCore0 ==
  /\ pc = "stop core0"
  /\ core0_reset_cycle
  /\ Goto("peripherals")
  /\ UNCHANGED <<request, wait, core1, start, done, ap, history>>

reset_peripherals ==
  /\ pc = "peripherals"
  /\ ap' = ap \ {"peripherals"}
  /\ gic_was_on' = ("gic" \in ap)
  /\ Goto("run")
  /\ UNCHANGED <<request, wait, cores, fw>>

\* Mutant: the word is not cleared.
KeepDone  == done' = done
ClearDone == done' = FALSE

\* The helper and its arguments are copied before.
RunHelper ==
  /\ pc = "run"
  /\ ClearDone
  /\ Goto("start")
  /\ UNCHANGED <<request, wait, core0, core1, start, ap, history>>

start_ap_at ==
  /\ pc = "start"
  /\ start' = "helper"
  /\ seen' = None /\ timeout_ms' = Timeout
  /\ Goto("wait")
  /\ UNCHANGED <<request, polls, core0, core1, done, ap, history>>

\* Mutant: the firmware looks for ever.
NoTimeout == timeout_ms' = timeout_ms
CountDown == timeout_ms' = timeout_ms - 1

Waited(why) ==
  /\ seen' = why /\ timeout_ms' = 0
  /\ Goto("stop core1 again")

WaitForHelper ==
  /\ pc = "wait"
  /\ \/ done /\ Waited("done")
     \/ ~done /\ timeout_ms = 0 /\ Waited("timeout")
     \/ ~done /\ timeout_ms > 0 /\ CountDown /\ UNCHANGED <<pc, seen>>
  /\ UNCHANGED <<request, polls, cores, ap, history>>

\* CTRL + C; nobody need type it.
Interrupted ==
  /\ pc = "wait" /\ ~done
  /\ Waited("key")
  /\ UNCHANGED <<request, polls, cores, ap, history>>

GicIsOff == "gic" \notin ap

Fallback == IF caller = "debug" THEN "loop" ELSE "warm reset"

\* The firmware reads the GIC at once, long before the boot ROM is ready again.
HelperEnded ==
  /\ pc = "stop core0 again"
  /\ core0_reset_cycle
  /\ Goto(IF caller = "a53" THEN "loop" ELSE IF GicIsOff THEN "registers" ELSE Fallback)
  /\ caller' = None
  /\ UNCHANGED <<workaround, boot_state, wd, wait, core1, start, done, ap, history>>

-----------------------------------------------------------------------------
(***************************************************************************)
(* Loading the new firmware.                                               *)
(***************************************************************************)
\* reset_a53_regs: core 1's reset and the mailbox of the AP's firmware.
ResetA53Regs ==
  /\ pc = "registers"
  /\ core1' = "held" /\ ap' = ap \ {"atf mailbox"}
  /\ Goto("obmi")
  /\ UNCHANGED <<request, wait, core0, start, done, history>>

\* The image of the AP may be missing.
LoadObmi ==
  /\ pc = "obmi"
  /\ \E f \in Flashes :
       Goto(IF load_image(f, OBMI, boot_state) = "hang" THEN "stuck" ELSE "wtmi")
  /\ UNCHANGED <<request, wait, cores, ap, history>>

reload_secure_firmware ==
  /\ pc = "wtmi"
  /\ \E f \in Flashes :
       IF load_image(f, WTMI, boot_state) = "ok"
         THEN Goto("reload") /\ fw' = f
         ELSE Goto("stuck") /\ fw' = fw
  /\ UNCHANGED <<request, wait, cores, ap, gic_was_on>>

\* A row of the fuses that is_board_trusted or board_read_otp_hash needs cannot be
\* read: die.
FusesFail ==
  /\ pc \in {"obmi", "wtmi"}
  /\ Goto("stuck")
  /\ UNCHANGED <<request, wait, cores, ap, history>>

Workaround ==
  \/ reset_soc \/ DisableWatchdog \/ StopCore1("stop core1", "stop core0")
  \/ StopCore0 \/ reset_peripherals \/ RunHelper \/ start_ap_at \/ WaitForHelper
  \/ StopCore1("stop core1 again", "stop core0 again") \/ HelperEnded
  \/ ResetA53Regs \/ LoadObmi \/ reload_secure_firmware

SocNext ==
  \/ kick \/ cmd_reset_by_sw \/ cmd_run_a53_helper \/ cmd_reboot \/ reset
  \/ WdtReadLo \/ WdtReadHi \/ WdtDecide
  \/ start_ap \/ PollAp \/ StopCore1("hold core1", "restart core0") \/ ResetCore0
  \/ Workaround \/ Interrupted \/ FusesFail \/ Ap

\* The firmware's core executes instructions.
SocSpec == SocInit /\ [][SocNext]_svars /\ WF_svars(Workaround)

-----------------------------------------------------------------------------
\* The new firmware finds the SoC as after a reset.  When the helper said so,
\* everything is tidy; when the firmware did not wait for it, it goes on only if
\* the GIC was reset, which proves that the helper had got past starting core 1,
\* so that both cores stay where they are (soc.c:209-217, 323-335,
\* a53_helper/main.c:82-87).
HandOverClean ==
  pc = "reload" =>
    /\ seen = "done" => ap = {}
    /\ seen = "done" \/ gic_was_on =>
         /\ core0 = "rom" /\ start = None /\ core1 = "held"
         /\ {"gic", "peripherals", "atf mailbox"} \cap ap = {}

\* The firmware that replaces the running one is in a header of the kind the
\* board demands and, on a trusted board, named by two headers which the owner
\* of the board signed, with data that have the hash given there, or with no
\* hash (tim.c:299-352, 372-382, 402-410).
RunsOwnersFirmware ==
  pc = "reload" =>
    /\ fw.timh.trusted = (boot_state = 2)
    /\ WTMI \in DOMAIN Listing(fw).images
    /\ Listing(fw).images[WTMI].hash \in {Zero, fw.data[WTMI]}
    /\ boot_state = 2 => /\ fw.timh.signer = OtpKey /\ fw.timh.pub = OtpKey
                         /\ fw.timn.signer = OtpKey /\ fw.timn.pub = OtpKey
                         /\ fw.timn.identifier = TIMN

\* The watchdog workaround resets the SoC exactly when less than a second is
\* left, although it multiplies in 32 bits and reads the two words one after
\* the other; unless the high word changes in between, and for the prescalers
\* with which a second is fewer than LoLimit ticks (soc.c:449-464).
Torn == wd.hi # wd.counter \div Word

WatchdogExact ==
  [][pc = "wdt_decide" /\ pc' # pc /\ ~Torn =>
       (pc' = "reset_soc" <=> wd.counter * wd.prescaler < Limit)]_svars

\* Whatever the AP does, a reset comes to an end: the new firmware runs, the SoC
\* is reset, or there is no image to run (soc.c:197-214, 283-288, 364-385).
ResetEnds == pc = "reset_soc" ~> pc \in {"warm reset", "reload", "stuck"}
=============================================================================
