------------------------------ MODULE SocProofs ------------------------------
(***************************************************************************)
(* Proofs about Soc for every flash contents, fuse value, timeout and      *)
(* watchdog: whatever the operating system of the AP left behind, and      *)
(* whenever the firmware stops waiting for the helper.                     *)
(***************************************************************************)
EXTENDS Soc, TLAPS

\* The way of a reset until the helper has ended, and what is behind it.
Stopping  == {"reset_soc", "workaround", "stop core1", "stop core0"}
Launching == {"run", "start"}
Waiting   == {"wait", "stop core1 again", "stop core0 again"}
Replacing == {"registers", "obmi", "wtmi", "reload"}

\* What core 0 runs from the helper's start to its end.
BeforeGic == {"rom", "hold", "release", "gic"}
AfterGic  == {"dvfs", "counters", "done", "spin"}

\* Nobody wrote a message since the last one was taken, and whoever wants a
\* reset does not only want the helper.
StoppingInv ==
  /\ pc \in {"wdt_hi", "wdt_decide"} \cup Stopping => start = None
  /\ pc \in Stopping \cup {"peripherals"} => caller # "a53"
  /\ pc = "peripherals" => core0 = "rom" /\ start = None

\* Before a reset starts the helper the AP is stopped.
LaunchingInv ==
  pc \in Launching /\ caller # "a53" =>
    /\ core0 = "rom" /\ start = None /\ "peripherals" \notin ap
    /\ gic_was_on <=> "gic" \in ap
    /\ pc = "start" => ~done

\* Where the helper is tells what it has tidied up.
HelperInv ==
  pc \in Waiting /\ caller # "a53" =>
    /\ core0 \in BeforeGic \cup AfterGic
    /\ start \in {None, "helper"} /\ (start = None <=> core0 # "rom")
    /\ "peripherals" \notin ap
    /\ core0 \in BeforeGic /\ gic_was_on => "gic" \in ap
    /\ core0 \in {"counters", "done", "spin"} => "dvfs" \notin ap
    /\ core0 \in {"done", "spin"} => "watchdog" \notin ap
    /\ done \/ seen = "done" => core0 = "spin"

\* Once the helper has proved that it ran, nothing happens on the AP any more.
ReplacingInv ==
  /\ pc \in Replacing /\ (seen = "done" \/ gic_was_on) =>
       /\ core0 = "rom" /\ start = None /\ {"gic", "peripherals"} \cap ap = {}
       /\ pc # "registers" => core1 = "held" /\ "atf mailbox" \notin ap
  /\ pc \in Replacing /\ seen = "done" => ap \subseteq {"atf mailbox"}

HandOverInv ==
  /\ ap \subseteq Leftovers /\ gic_was_on \in BOOLEAN
  /\ StoppingInv /\ LaunchingInv /\ HelperInv /\ ReplacingInv

\* The watchdog as read: the low word of what it was, and a high word not above.
WatchdogInv ==
  pc \in {"wdt_hi", "wdt_decide"} =>
    /\ wd.counter \in Nat /\ wd.prescaler \in Prescalers
    /\ wd.lo = wd.counter % Word /\ wd.hi \in Nat

\* The firmware that runs next was accepted by the loader.
LoadedInv == pc = "reload" => load_image(fw, WTMI, boot_state) = "ok"

-----------------------------------------------------------------------------
(***************************************************************************)
(* The hand-over.                                                          *)
(***************************************************************************)
\* What the AP does keeps the invariant: the operating system runs only while
\* nothing is claimed, and each step of the helper tidies up one thing more.
LEMMA HandOverAp ==
  ASSUME HandOverInv, Ap
  PROVE  HandOverInv'
<1> USE DEF HandOverInv, StoppingInv, LaunchingInv, HelperInv, ReplacingInv, Stopping,
            Launching, Waiting, Replacing, BeforeGic, AfterGic, request, wait, history
<1>1. UNCHANGED <<pc, caller, seen, gic_was_on>>
  BY DEF Ap
<1>2. CASE BootRom
  BY <1>1, <1>2 DEF BootRom, None
<1>3. CASE OsRuns
  <2>1. core0 = "os" /\ core0' = "os" /\ ap' \subseteq Leftovers
    BY <1>3 DEF OsRuns, Leftovers
  <2>2. start' \in {start, None}
    BY <1>3 DEF OsRuns
  <2> QED BY <1>1, <2>1, <2>2
<1>4. CASE HelperCore1
  <2>1. core0 \in {"hold", "release"} /\ core0' \in {"release", "gic"} /\ ap' = ap
    BY <1>4 DEF HelperCore1
  <2>2. start' = start /\ done' = done
    BY <1>4 DEF HelperCore1
  <2> QED BY <1>1, <2>1, <2>2
<1>5. CASE reset_soc_irqs
  BY <1>1, <1>5 DEF reset_soc_irqs
<1>6. CASE reset_dvfs
  BY <1>1, <1>6 DEF reset_dvfs
<1>7. CASE reset_wdt_and_counters
  BY <1>1, <1>7 DEF reset_wdt_and_counters
<1>8. CASE HelperDone
  BY <1>1, <1>8 DEF HelperDone
<1> QED BY <1>2, <1>3, <1>4, <1>5, <1>6, <1>7, <1>8 DEF Ap

\* The main loop enters a reset only when the AP took the last message.
LEMMA HandOverLoop ==
  ASSUME HandOverInv,
         \/ kick \/ cmd_reset_by_sw \/ cmd_run_a53_helper \/ cmd_reboot \/ reset
         \/ WdtReadLo \/ WdtReadHi \/ WdtDecide
         \/ start_ap \/ PollAp \/ StopCore1("hold core1", "restart core0") \/ ResetCore0
  PROVE  HandOverInv'
<1> USE DEF HandOverInv, StoppingInv, LaunchingInv, HelperInv, ReplacingInv, Stopping,
            Launching, Waiting, Replacing, request, wait, cores, history, Goto
<1>1. CASE kick \/ start_ap \/ PollAp \/ StopCore1("hold core1", "restart core0") \/ ResetCore0
  BY <1>1 DEF kick, start_ap, PollAp, StopCore1, ResetCore0, Idle
<1>2. CASE cmd_reset_by_sw \/ cmd_run_a53_helper
  <2>1. /\ pc = "loop" /\ start = None /\ UNCHANGED <<ap, gic_was_on, start, seen, core0, core1>>
        /\ \/ pc' = "workaround" /\ caller' = "debug"
           \/ pc' = "run" /\ caller' = "a53"
    BY <1>2 DEF cmd_reset_by_sw, cmd_run_a53_helper, Idle, Ask
  <2> QED BY <2>1
<1>3. CASE cmd_reboot \/ reset
  <2>1. /\ pc = "loop" /\ start = None /\ UNCHANGED <<ap, gic_was_on, start, seen, core0, core1>>
        /\ pc' = "reset_soc" /\ caller' = "reset"
    BY <1>3 DEF cmd_reboot, reset, Idle, Ask
  <2> QED BY <2>1
<1>4. CASE WdtReadLo \/ WdtReadHi \/ WdtDecide
  <2>1. /\ start = None /\ UNCHANGED <<ap, gic_was_on, start, seen, core0, core1>>
        /\ \/ pc' \in {"wdt_hi", "wdt_decide", "loop"}
           \/ pc' = "reset_soc" /\ caller' = "reset"
    BY <1>4 DEF WdtReadLo, WdtReadHi, WdtDecide, Idle
  <2> QED BY <2>1
<1> QED BY <1>1, <1>2, <1>3, <1>4

\* The way through the reset, label by label.
LEMMA HandOverReset ==
  ASSUME HandOverInv, Workaround \/ Interrupted \/ FusesFail
  PROVE  HandOverInv'
<1> USE DEF HandOverInv, StoppingInv, LaunchingInv, HelperInv, ReplacingInv, Stopping,
            Launching, Waiting, Replacing, request, wait, cores, history, Goto
<1>1. CASE reset_soc \/ DisableWatchdog \/ StopCore1("stop core1", "stop core0")
  BY <1>1 DEF reset_soc, DisableWatchdog, StopCore1
<1>2. CASE StopCore0 \/ reset_peripherals
  <2>1. CASE StopCore0
    BY <2>1 DEF StopCore0, core0_reset_cycle
  <2>2. CASE reset_peripherals
    <3>1. /\ pc = "peripherals" /\ pc' = "run" /\ ap' = ap \ {"peripherals"}
          /\ UNCHANGED <<caller, core0, core1, start, done, seen>>
      BY <2>2 DEF reset_peripherals
    <3>2. gic_was_on' <=> "gic" \in ap
      BY <2>2 DEF reset_peripherals
    <3>3. gic_was_on' \in BOOLEAN
      BY <2>2 DEF reset_peripherals
    <3> QED BY <3>1, <3>2, <3>3
  <2> QED BY <1>2, <2>1, <2>2
<1>3. CASE RunHelper
  BY <1>3 DEF RunHelper, ClearDone
<1>4. CASE start_ap_at
  BY <1>4 DEF start_ap_at, None, BeforeGic, AfterGic
<1>5. CASE WaitForHelper \/ Interrupted
  <2>1. /\ pc = "wait" /\ pc' \in {"wait", "stop core1 again"}
        /\ UNCHANGED <<caller, core0, core1, start, done, ap, gic_was_on>>
        /\ seen' \in {seen, "done", "timeout", "key"} /\ (seen' = "done" => seen = "done" \/ done)
    BY <1>5 DEF WaitForHelper, Interrupted, Waited
  <2> QED BY <2>1
<1>6. CASE StopCore1("stop core1 again", "stop core0 again")
  BY <1>6 DEF StopCore1
<1>7. CASE HelperEnded
  <2>1. /\ pc = "stop core0 again" /\ core0' = "rom" /\ caller' = None
        /\ UNCHANGED <<core1, start, done, ap, gic_was_on, seen>>
    BY <1>7 DEF HelperEnded, core0_reset_cycle
  <2>2. pc' \in {"loop", "registers", "warm reset"}
    BY <1>7 DEF HelperEnded, Fallback
  <2>3. CASE pc' = "registers"
    <3>1. caller # "a53" /\ "gic" \notin ap
      BY <1>7, <2>3 DEF HelperEnded, GicIsOff, Fallback
    <3>2. CASE seen = "done" \/ gic_was_on
      <4>1. core0 \in AfterGic /\ start = None /\ "peripherals" \notin ap
        BY <2>1, <3>1, <3>2 DEF BeforeGic, AfterGic
      <4>2. seen = "done" => ap \subseteq {"atf mailbox"}
        BY <2>1, <3>1, <4>1 DEF Leftovers
      <4> QED BY <2>1, <2>3, <3>1, <4>1, <4>2
    <3> QED BY <2>1, <2>3, <3>2
  <2> QED BY <2>1, <2>2, <2>3
<1>8. CASE ResetA53Regs \/ LoadObmi \/ reload_secure_firmware \/ FusesFail
  <2>1. CASE ResetA53Regs
    BY <2>1 DEF ResetA53Regs
  <2>2. CASE LoadObmi \/ reload_secure_firmware \/ FusesFail
    <3>1. /\ pc \in {"obmi", "wtmi"} /\ pc' \in {"wtmi", "reload", "stuck"}
          /\ UNCHANGED <<core0, core1, start, done, ap, gic_was_on, seen>>
      BY <2>2 DEF LoadObmi, reload_secure_firmware, FusesFail
    <3> QED BY <3>1
  <2> QED BY <1>8, <2>1, <2>2
<1> QED BY <1>1, <1>2, <1>3, <1>4, <1>5, <1>6, <1>7, <1>8 DEF Workaround

\* The invariant of the hand-over holds at the start and is kept.
THEOREM HandOverInvariance == SocSpec => []HandOverInv
<1>1. SocInit => HandOverInv
  BY DEF SocInit, HandOverInv, StoppingInv, LaunchingInv, HelperInv, ReplacingInv,
         Stopping, Launching, Waiting, Replacing, Leftovers
<1>2. HandOverInv /\ [SocNext]_svars => HandOverInv'
  <2> SUFFICES ASSUME HandOverInv, [SocNext]_svars PROVE HandOverInv'
    OBVIOUS
  <2>1. CASE UNCHANGED svars
    BY <2>1 DEF svars, request, wait, cores, history, HandOverInv, StoppingInv,
                LaunchingInv, HelperInv, ReplacingInv
  <2> QED BY <2>1, HandOverAp, HandOverLoop, HandOverReset DEF SocNext
<1> QED BY <1>1, <1>2, PTL DEF SocSpec

\* The new firmware finds the SoC as after a reset when the helper said so or
\* the GIC proves that it ran (soc.c:209-217, 323-335).
THEOREM HandOverAlwaysClean == SocSpec => []HandOverClean
<1>1. HandOverInv => HandOverClean
  BY DEF HandOverInv, ReplacingInv, Replacing, HandOverClean
<1> QED BY <1>1, HandOverInvariance, PTL

-----------------------------------------------------------------------------
(***************************************************************************)
(* What the loader accepts.                                                *)
(***************************************************************************)
\* Of up to seven tests that fail, one is the first.
LEMMA FirstOfFew ==
  ASSUME NEW T \in SUBSET 1..7, T # {}
  PROVE  \E i \in T : \A j \in T : i <= j
<1>1. CASE 1 \in T
  BY <1>1
<1>2. CASE 1 \notin T /\ 2 \in T
  BY <1>2
<1>3. CASE T \cap {1, 2} = {} /\ 3 \in T
  BY <1>3
<1>4. CASE T \cap {1, 2, 3} = {} /\ 4 \in T
  BY <1>4
<1>5. CASE T \cap {1, 2, 3, 4} = {} /\ 5 \in T
  BY <1>5
<1>6. CASE T \cap {1, 2, 3, 4, 5} = {} /\ 6 \in T
  BY <1>6
<1>7. CASE T \cap {1, 2, 3, 4, 5, 6} = {}
  <2>1. \A x \in 1..7 : x \notin {1, 2, 3, 4, 5, 6} => x = 7
    OBVIOUS
  <2>2. T = {7}
    BY <1>7, <2>1
  <2> QED BY <2>2
<1> QED BY <1>1, <1>2, <1>3, <1>4, <1>5, <1>6, <1>7

\* The verdict "ok" means that every test was passed, if no test gives it.
LEMMA VerdictOk ==
  ASSUME NEW tests, Len(tests) \in 0..7, Verdict(tests) = "ok",
         \A i \in 1..Len(tests) : ~tests[i][1] => tests[i][2] # "ok"
  PROVE  \A i \in 1..Len(tests) : tests[i][1]
<1> DEFINE failed == {i \in 1..Len(tests) : ~tests[i][1]}
<1>1. SUFFICES ASSUME failed # {} PROVE FALSE
  OBVIOUS
<1>2. \E i \in failed : \A j \in failed : i <= j
  <2>1. failed \in SUBSET 1..7
    OBVIOUS
  <2> QED BY <1>1, <2>1, FirstOfFew
<1>3. (CHOOSE i \in failed : \A j \in failed : i <= j) \in failed
  BY <1>2
<1> QED BY <1>1, <1>3 DEF Verdict

\* A header that is accepted is of the kind the board demands, and on a trusted
\* board signed by its owner.
LEMMA TimOk ==
  ASSUME NEW t, NEW id, NEW state, check_tim(t, id, state) = "ok"
  PROVE  /\ t.identifier = id
         /\ t.trusted = (state = 2)
         /\ t.trusted => SignedByOwner(t)
<1> DEFINE tests == << <<t.fits, "fail">>,
             <<t.aligned, "hang">>,
             <<t.identifier = id, "fail">>,
             <<t.spinor /\ t.self, "fail">>,
             <<state # 3, "hang">>,
             <<is_board_trusted(state) = t.trusted, "fail">>,
             <<t.trusted => SignedByOwner(t), "fail">> >>
<1>1. Verdict(tests) = "ok"
  BY DEF check_tim
<1>2. /\ Len(tests) = 7 /\ 1..Len(tests) = {1, 2, 3, 4, 5, 6, 7}
  OBVIOUS
<1>3. \A i \in 1..Len(tests) : tests[i][2] # "ok"
  BY <1>2
<1>4. \A i \in 1..Len(tests) : tests[i][1]
  <2>1. Len(tests) \in 0..7
    BY <1>2
  <2> HIDE DEF tests
  <2> QED BY <1>1, <1>3, <2>1, VerdictOk
<1>5. tests[3][1] /\ tests[6][1] /\ tests[7][1]
  BY <1>2, <1>4
<1>6. t.identifier = id
  BY <1>5
<1>7. is_board_trusted(state) = t.trusted
  BY <1>5
<1>8. t.trusted => SignedByOwner(t)
  BY <1>5
<1> QED BY <1>6, <1>7, <1>8 DEF is_board_trusted

\* Headers that are accepted: on a trusted board the second one is, too.
LEMMA LoadTimOk ==
  ASSUME NEW f, NEW state, load_tim(f, state) = "ok"
  PROVE  /\ check_tim(f.timh, TIMH, state) = "ok"
         /\ f.timh.trusted => check_tim(f.timn, TIMN, state) = "ok"
<1>1. CASE check_tim(f.timh, TIMH, state) # "ok"
  BY <1>1 DEF load_tim
<1>2. CASE check_tim(f.timh, TIMH, state) = "ok" /\ ~f.timh.trusted
  BY <1>2
<1>3. CASE check_tim(f.timh, TIMH, state) = "ok" /\ f.timh.trusted
  <2> DEFINE second == check_tim(f.timn, TIMN, state)
             tests == << <<find_timn_entry(f.timh) # "hang", "hang">>,
                         <<find_timn_entry(f.timh) = "timn", "fail">>,
                         <<second = "ok", second>> >>
  <2>1. Verdict(tests) = "ok"
    BY <1>3 DEF load_tim
  <2> HIDE DEF second
  <2>2. Len(tests) = 3 /\ 1..Len(tests) = {1, 2, 3}
    OBVIOUS
  <2>3. \A i \in 1..Len(tests) : ~tests[i][1] => tests[i][2] # "ok"
    <3>1. tests[1][2] # "ok" /\ tests[2][2] # "ok"
      OBVIOUS
    <3>2. tests[3][2] = second /\ (tests[3][1] <=> second = "ok")
      OBVIOUS
    <3> HIDE DEF tests
    <3> QED BY <2>2, <3>1, <3>2
  <2>4. \A i \in 1..Len(tests) : tests[i][1]
    <3>1. Len(tests) \in 0..7
      BY <2>2
    <3> HIDE DEF tests
    <3> QED BY <2>1, <2>3, <3>1, VerdictOk
  <2>5. tests[3][1]
    BY <2>2, <2>4
  <2>6. second = "ok"
    BY <2>5
  <2> QED BY <1>3, <2>6 DEF second
<1> QED BY <1>1, <1>2, <1>3

\* An image that is accepted is listed where the board demands it, with its hash.
LEMMA LoadImageOk ==
  ASSUME NEW f, NEW id, NEW state, load_image(f, id, state) = "ok"
  PROVE  /\ load_tim(f, state) = "ok"
         /\ id \in DOMAIN Listing(f).images
         /\ Listing(f).images[id].hash \in {Zero, f.data[id]}
<1>1. load_tim(f, state) = "ok"
  BY DEF load_image
<1>2. tim_find_image(Listing(f), id) /\ check_image_hash(Listing(f).images[id], f.data[id])
  BY <1>1 DEF load_image
<1> QED BY <1>1, <1>2 DEF tim_find_image, check_image_hash

\* The firmware in fw was accepted when the reload was decided, and neither it
\* nor the boot state changes afterwards.
LEMMA LoadedStep == LoadedInv /\ [SocNext]_svars => LoadedInv'
<1> SUFFICES ASSUME LoadedInv, [SocNext]_svars PROVE LoadedInv'
  OBVIOUS
<1>1. CASE reload_secure_firmware
  <2>1. PICK f \in Flashes :
          IF load_image(f, WTMI, boot_state) = "ok"
            THEN Goto("reload") /\ fw' = f
            ELSE Goto("stuck") /\ fw' = fw
    BY <1>1 DEF reload_secure_firmware
  <2>2. boot_state' = boot_state
    BY <1>1 DEF reload_secure_firmware, request
  <2> QED BY <2>1, <2>2 DEF LoadedInv, Goto
<1>2. CASE ~reload_secure_firmware
  <2>1. pc' = "reload" => pc = "reload"
    BY <1>2 DEF SocNext, Workaround, Ap, svars, kick, cmd_reset_by_sw, cmd_run_a53_helper,
       cmd_reboot, reset, Ask, WdtReadLo, WdtReadHi, WdtDecide, start_ap, PollAp,
       StopCore1, ResetCore0, Interrupted, FusesFail, reset_soc, DisableWatchdog,
       StopCore0, reset_peripherals, RunHelper, start_ap_at, WaitForHelper, Waited,
       HelperEnded, Fallback, ResetA53Regs, LoadObmi, Goto
  <2>2. pc = "reload" => UNCHANGED <<fw, boot_state>>
    BY DEF SocNext, Workaround, Ap, svars, kick, cmd_reset_by_sw, cmd_run_a53_helper,
       cmd_reboot, reset, Ask, Idle, WdtReadLo, WdtReadHi, WdtDecide, start_ap, PollAp,
       StopCore1, ResetCore0, Interrupted, FusesFail, reset_soc, DisableWatchdog,
       StopCore0, reset_peripherals, RunHelper, start_ap_at, WaitForHelper,
       HelperEnded, ResetA53Regs, LoadObmi, reload_secure_firmware, history, request
  <2> QED BY <2>1, <2>2 DEF LoadedInv
<1> QED BY <1>1, <1>2

\* Only firmware that the headers name and, on a trusted board, that its owner
\* signed replaces the running one, for every contents of the flash and every
\* value of the fuses (tim.c:299-410).
THEOREM AlwaysOwnersFirmware == SocSpec => []RunsOwnersFirmware
<1>1. SocInit => LoadedInv
  BY DEF SocInit, LoadedInv
<1>2. LoadedInv => RunsOwnersFirmware
  <2> SUFFICES ASSUME LoadedInv, pc = "reload" PROVE RunsOwnersFirmware
    BY DEF RunsOwnersFirmware
  <2>1. load_image(fw, WTMI, boot_state) = "ok"
    BY DEF LoadedInv
  <2>2. /\ load_tim(fw, boot_state) = "ok"
        /\ WTMI \in DOMAIN Listing(fw).images
        /\ Listing(fw).images[WTMI].hash \in {Zero, fw.data[WTMI]}
    BY <2>1, LoadImageOk
  <2>3. /\ check_tim(fw.timh, TIMH, boot_state) = "ok"
        /\ fw.timh.trusted => check_tim(fw.timn, TIMN, boot_state) = "ok"
    BY <2>2, LoadTimOk
  <2>4. /\ fw.timh.trusted = (boot_state = 2)
        /\ fw.timh.trusted => SignedByOwner(fw.timh)
    BY <2>3, TimOk
  <2>5. ASSUME boot_state = 2
        PROVE  /\ fw.timh.signer = OtpKey /\ fw.timh.pub = OtpKey
               /\ fw.timn.signer = OtpKey /\ fw.timn.pub = OtpKey
               /\ fw.timn.identifier = TIMN
    <3>1. fw.timh.trusted
      BY <2>4, <2>5
    <3>2. SignedByOwner(fw.timh) /\ check_tim(fw.timn, TIMN, boot_state) = "ok"
      BY <2>3, <2>4, <3>1
    <3>3. /\ fw.timn.identifier = TIMN
          /\ fw.timn.trusted = (boot_state = 2)
          /\ fw.timn.trusted => SignedByOwner(fw.timn)
      BY <3>2, TimOk
    <3>4. SignedByOwner(fw.timn)
      BY <2>5, <3>3
    <3> QED BY <3>2, <3>3, <3>4 DEF SignedByOwner
  <2> QED BY <2>2, <2>4, <2>5 DEF RunsOwnersFirmware
<1> QED BY <1>1, <1>2, LoadedStep, PTL DEF SocSpec

-----------------------------------------------------------------------------
(***************************************************************************)
(* The watchdog.                                                           *)
(***************************************************************************)
\* The product of the low word and the prescaler fits into a word, and a second
\* is fewer than LoLimit ticks: prescalers from 2 to 255 with the values of the
\* code.
PrescalersFit ==
  \A p \in Prescalers : Limit <= LoLimit * p /\ LoLimit * p <= Word

\* What was read is kept until the decision.
LEMMA WatchdogStep == WatchdogInv /\ [SocNext]_svars => WatchdogInv'
<1> SUFFICES ASSUME WatchdogInv, [SocNext]_svars PROVE WatchdogInv'
  OBVIOUS
<1>1. CASE WdtReadLo
  BY <1>1, SocAssumption DEF WdtReadLo, WatchdogInv, Goto
<1>2. CASE WdtReadHi
  <2>1. pc = "wdt_hi"
    BY <1>2 DEF WdtReadHi
  <2>2. PICK d \in 0..Drift : /\ d <= wd.counter
                              /\ wd' = [wd EXCEPT !.hi = (wd.counter - d) \div Word]
    BY <1>2 DEF WdtReadHi
  <2>3. (wd.counter - d) \div Word \in Nat
    <3>1. wd.counter - d \in Nat /\ Word \in Nat \ {0}
      BY <2>1, <2>2, SocAssumption DEF WatchdogInv
    <3> QED BY <3>1
  <2> QED BY <2>1, <2>2, <2>3 DEF WatchdogInv
<1>3. CASE ~WdtReadLo /\ ~WdtReadHi
  <2>1. pc' \in {"wdt_hi", "wdt_decide"} => pc' = pc /\ wd' = wd
    BY <1>3 DEF SocNext, Workaround, Ap, svars, kick, cmd_reset_by_sw, cmd_run_a53_helper,
       cmd_reboot, reset, Ask, WdtDecide, start_ap, PollAp,
       StopCore1, ResetCore0, Interrupted, FusesFail, reset_soc, DisableWatchdog,
       StopCore0, reset_peripherals, RunHelper, start_ap_at, WaitForHelper, Waited,
       HelperEnded, Fallback, ResetA53Regs, LoadObmi, reload_secure_firmware, Goto, request
  <2> QED BY <2>1 DEF WatchdogInv
<1> QED BY <1>1, <1>2, <1>3

\* The arithmetic of mox_wdt_workaround, when the two words belong together.
LEMMA DueIsExact ==
  ASSUME PrescalersFit, WatchdogInv, pc = "wdt_decide", ~Torn
  PROVE  Due <=> wd.counter * wd.prescaler < Limit
<1> DEFINE c == wd.counter
           p == wd.prescaler
<1>1. /\ c \in Nat /\ p \in Prescalers /\ p \in Nat /\ wd.lo = c % Word
      /\ wd.hi = c \div Word /\ Word \in Nat \ {0} /\ LoLimit \in 1..Word /\ Limit \in Nat
  BY SocAssumption DEF WatchdogInv, Torn
<1>2. Limit <= LoLimit * p /\ LoLimit * p <= Word
  BY <1>1 DEF PrescalersFit
<1>3. CASE c < LoLimit
  <2>1. c < Word
    BY <1>1, <1>3
  <2>2. wd.hi = 0 /\ wd.lo = c
    BY <1>1, <2>1
  <2>3. CASE p = 0
    BY <1>2, <1>1, <2>2, <2>3 DEF Due
  <2>4. CASE p # 0
    <3>1. c * p < LoLimit * p /\ c * p \in Nat
      BY <1>1, <1>3, <2>4
    <3>2. c * p < Word
      BY <1>1, <1>2, <3>1
    <3>3. (c * p) % Word = c * p
      <4>1. \A x, w \in Nat : x < w => x % w = x
        OBVIOUS
      <4> QED BY <1>1, <3>1, <3>2, <4>1
    <3> QED BY <1>3, <2>2, <3>3 DEF Due
  <2> QED BY <2>3, <2>4
<1>4. CASE c >= LoLimit
  <2>1. c * p >= LoLimit * p
    BY <1>1, <1>4
  <2>2. ~(c * p < Limit)
    BY <1>1, <1>2, <2>1
  <2>3. ~Due
    <3>1. c \div Word = 0 => c % Word = c
      BY <1>1
    <3> QED BY <1>1, <1>4, <3>1 DEF Due
  <2> QED BY <2>2, <2>3
<1> QED BY <1>1, <1>3, <1>4

\* The watchdog workaround resets the SoC exactly when less than a second is
\* left, for every word size, limit and prescaler that fit (soc.c:449-464).
THEOREM WatchdogAlwaysExact ==
  ASSUME PrescalersFit
  PROVE  SocSpec => WatchdogExact
<1>1. SocInit => WatchdogInv
  BY DEF SocInit, WatchdogInv
<1>2. WatchdogInv /\ [SocNext]_svars =>
        [pc = "wdt_decide" /\ pc' # pc /\ ~Torn =>
           (pc' = "reset_soc" <=> wd.counter * wd.prescaler < Limit)]_svars
  <2> SUFFICES ASSUME WatchdogInv, [SocNext]_svars, pc = "wdt_decide", pc' # pc, ~Torn
               PROVE  pc' = "reset_soc" <=> wd.counter * wd.prescaler < Limit
    OBVIOUS
  <2>1. WdtDecide
    BY DEF SocNext, Workaround, Ap, svars, kick, cmd_reset_by_sw, cmd_run_a53_helper,
       cmd_reboot, reset, Ask, Idle, WdtReadLo, WdtReadHi, start_ap, PollAp,
       StopCore1, ResetCore0, Interrupted, FusesFail, reset_soc, DisableWatchdog,
       StopCore0, reset_peripherals, RunHelper, start_ap_at, WaitForHelper,
       HelperEnded, ResetA53Regs, LoadObmi, reload_secure_firmware
  <2>2. pc' = "reset_soc" <=> Due
    BY <2>1 DEF WdtDecide, Goto
  <2> QED BY <2>2, DueIsExact
<1> QED BY <1>1, <1>2, WatchdogStep, PTL DEF SocSpec, WatchdogExact
=============================================================================
