------------------------------- MODULE Clock -------------------------------
(* The clock tree (clock.c) and the core's supply voltage (avs.c).          *)
(*                                                                          *)
(* Two PLLs, TBG-A and TBG-B, each with a single-ended (S) and a            *)
(* differential (P) output, feed the clock lines of both bridges through    *)
(* two dividers; a multiplexer lets a line run from the crystal instead.    *)
(* setup_clock_tree moves the lines to the crystal, programs both TBGs, the *)
(* dividers and the sources, and moves the lines back.  A register field is *)
(* a field of a record; the tables are kept as the preset they came from.   *)
(* The lock of a TBG is the hardware's.                                     *)
EXTENDS Integers, FiniteSets

VARIABLES
  xtal,           \* the crystal, as TEST_PIN_LATCH_N tells it
  fuse,           \* [rev, vdd] of the north bridge's OTP, for the speed
  preset,         \* clk_cfg, NoPreset while preset_flag is 0
  avs,            \* MVEBU_AVS_CONTROL0, and the speed it was chosen for
  tbg,            \* NB_TBG_CTRL0..8, per TBG
  lines,          \* the preset that NB/SB_TBG_SEL and NB/SB_DIV_SEL* hold
  clk_sel,        \* NB_CLK_SEL, SB_CLK_SEL: TRUE when lines run from TBGs
  cpc             \* where setup_clock_tree is, and its result when done

cvars == <<xtal, fuse, preset, avs, tbg, lines, clk_sel, cpc>>

TBGs == {"A", "B"}
NoPreset == 4
Kvco(mhz, se, diff) == [kvco |-> mhz, se |-> se, diff |-> diff]
From(src, prscl1, prscl2) == [src |-> src, div |-> prscl1 * prscl2]

CpuMHz == [p \in 0..3 |-> <<600, 800, 1000, 1200>>[p + 1]]
DdrMHz == [p \in 0..3 |-> <<600, 800, 800, 750>>[p + 1]]
TbgCfg ==
  LET entry(a, b) == [A |-> a, B |-> b] IN
  [p \in 0..3 |-> CASE p = 0 -> entry(Kvco(2400, 1, 1), Kvco(2000, 1, 1))
                    [] p = 3 -> entry(Kvco(1500, 0, 1), Kvco(2400, 1, 1))
                    [] OTHER -> entry(Kvco(1600, 0, 1), Kvco(2000, 1, 2))]

\* clk_cfg_all: source and dividers of every line with a selector, per preset.
LineCfg0 ==
  [mmc |-> From("AS", 3, 1), sata_host |-> From("BS", 5, 1),
   sec_at |-> From("BS", 5, 1), sec_dap |-> From("BS", 5, 2),
   tsecm |-> From("AP", 3, 2), setm_tmx |-> From("AP", 2, 1),
   sqf |-> From("AP", 3, 2), pwm |-> From("BS", 5, 4),
   ddr_fclk |-> From("BS", 4, 2), trace |-> From("AP", 2, 1),
   counter |-> From("BS", 6, 1), a53_cpu |-> From("AP", 2, 1),
   eip97 |-> From("BS", 2, 1), gbe_50 |-> From("BP", 4, 5), gbe_core |-> From("BS", 1, 4),
   gbe_125 |-> From("BS", 4, 2), sdio |-> From("AS", 3, 1),
   usb2_sys |-> From("BS", 5, 2), usb_ss_sys |-> From("BS", 4, 2),
   sb_axi |-> From("BS", 5, 1)]
LineCfg1 ==
  [mmc |-> From("AS", 4, 1), sata_host |-> From("AP", 4, 1),
   sec_at |-> From("BS", 5, 1), sec_dap |-> From("BS", 5, 2),
   tsecm |-> From("AP", 4, 1), setm_tmx |-> From("AP", 1, 1),
   sqf |-> From("AP", 4, 1), pwm |-> From("BS", 5, 4),
   ddr_fclk |-> From("BS", 4, 2), trace |-> From("AP", 1, 1),
   counter |-> From("AP", 5, 1), a53_cpu |-> From("AP", 1, 1),
   eip97 |-> From("BS", 1, 2), gbe_50 |-> From("BP", 2, 5), gbe_core |-> From("BS", 1, 4),
   gbe_125 |-> From("BS", 4, 2), sdio |-> From("AS", 4, 1),
   usb2_sys |-> From("BS", 5, 2), usb_ss_sys |-> From("BS", 4, 2),
   sb_axi |-> From("BS", 2, 2)]
LineCfg2 == [LineCfg1 EXCEPT !.setm_tmx.src = "BS", !.trace.src = "BS",
                             !.a53_cpu.src = "BS"]
LineCfg3 ==
  [mmc |-> From("BS", 3, 1), sata_host |-> From("BS", 6, 1),
   sec_at |-> From("BS", 6, 1), sec_dap |-> From("BS", 4, 3),
   tsecm |-> From("BS", 6, 1), setm_tmx |-> From("BS", 1, 1),
   sqf |-> From("BS", 6, 1), pwm |-> From("BS", 4, 6),
   ddr_fclk |-> From("AS", 4, 3), trace |-> From("BS", 1, 1),
   counter |-> From("AP", 5, 1), a53_cpu |-> From("BS", 1, 1),
   eip97 |-> From("AS", 3, 1), gbe_50 |-> From("BP", 6, 4), gbe_core |-> From("AS", 3, 2),
   gbe_125 |-> From("AS", 4, 3), sdio |-> From("BS", 3, 1),
   usb2_sys |-> From("AS", 5, 3), usb_ss_sys |-> From("AS", 4, 3),
   sb_axi |-> From("AS", 3, 2)]
LineCfg == [p \in 0..3 |-> CASE p = 0 -> LineCfg0 [] p = 1 -> LineCfg1
                             [] p = 2 -> LineCfg2 [] p = 3 -> LineCfg3]
ClockLines == DOMAIN LineCfg0
OnTbg(src) == IF src \in {"AP", "AS"} THEN "A" ELSE "B"

get_cpu_clock == IF preset = NoPreset THEN -1 ELSE CpuMHz[preset]
get_ddr_clock == IF preset = NoPreset THEN -1 ELSE DdrMHz[preset]

\* The phase interpolator's bias and the VCO's range, from KVCO.
VcoSel(mhz) ==
  LET tops == <<1350, 1500, 1750, 2000, 2200, 2400, 2600, 3000>>
      fits == {i \in 1..8 : mhz <= tops[i]}
  IN [range |-> IF fits = {} THEN 0
                ELSE 7 + (CHOOSE i \in fits : \A j \in fits : i <= j),
      intpi |-> IF mhz > 2500 THEN 8 ELSE IF mhz < 2000 THEN 5 ELSE 6]

\* Fref / M is kept near 10 MHz; N is rounded down.
RefDiv(ref) == IF ref = 40 THEN 4 ELSE 3
FbDiv(mhz, ref) == ((mhz * RefDiv(ref)) \div ref) \div 4
Programmed(cfg, ref) ==
  [m |-> RefDiv(ref), n |-> FbDiv(cfg.kvco, ref), se |-> cfg.se,
   diff |-> cfg.diff, vco |-> VcoSel(cfg.kvco)]

\* get_tbg_clk and, for any line, what get_cm3_clk computes for its own.
TbgClk(src) ==
  LET t == tbg[OnTbg(src)].cfg
      vcodiv == IF src \in {"AS", "BS"} THEN t.se ELSE t.diff
  IN IF vcodiv > 7 THEN 0 ELSE (t.n * xtal * 4) \div (t.m * 2 ^ vcodiv)
Freq(l) ==
  IF clk_sel THEN TbgClk(LineCfg[lines][l].src) \div LineCfg[lines][l].div
  ELSE xtal

\* Mutant: the speed alone decides.
SpreadOnEthernet(p) == TbgCfg[p].A.kvco >= 1500

\* SSC stays off on a TBG-A that feeds Ethernet; it needs 1500 MHz.
SpreadAllowed(p) ==
  /\ \A l \in {"gbe_125", "gbe_50", "gbe_core"} :
       OnTbg(LineCfg[p][l].src) # "A"
  /\ TbgCfg[p].A.kvco >= 1500

VddDefault == [s \in {600, 800, 1000, 1200} |->
                 CASE s = 1000 -> 35 [] s = 1200 -> 39 [] OTHER -> 31]
AVS_VDD_BASE == 13
\* The limit init_avs chooses: fused since revision 2, when it is in range.
Vdd(speed) ==
  IF fuse.rev >= 2 /\ fuse.vdd # 0 /\ fuse.vdd + AVS_VDD_BASE <= 63
  THEN fuse.vdd + AVS_VDD_BASE ELSE VddDefault[speed]

-----------------------------------------------------------------------------
\* The boot ROM left some preset's tree running, with or without the lines.
NoAvs == [speed |-> 0, high |-> 0, low |-> 0]
InitClock(ref, otp, rom) ==
  /\ xtal = ref /\ fuse = otp /\ lines = rom
  /\ preset = NoPreset /\ avs = NoAvs
  /\ tbg = [t \in TBGs |-> [cfg |-> Programmed(TbgCfg[lines][t], xtal),
                            reset |-> FALSE, lock |-> TRUE, ssc |-> FALSE]]
  /\ clk_sel \in BOOLEAN
  /\ cpc = "idle"

\* set_clock_preset, then init_avs with the speed it gives: an unknown
\* speed leaves the voltage as it was.
SetPreset(p) ==
  /\ cpc = "idle"
  /\ preset' = p
  /\ avs' = IF p = NoPreset THEN avs
            ELSE [speed |-> CpuMHz[p], high |-> Vdd(CpuMHz[p]),
                  low |-> Vdd(CpuMHz[p])]
  /\ UNCHANGED <<xtal, fuse, tbg, lines, clk_sel, cpc>>

\* setup_clock_tree, step by step.
NoTree ==
  /\ cpc = "start" /\ preset = NoPreset
  /\ cpc' = "failed"
  /\ UNCHANGED <<xtal, fuse, preset, avs, tbg, lines, clk_sel>>
SwitchToXtal ==
  /\ cpc = "start" /\ preset # NoPreset
  /\ clk_sel' = FALSE /\ cpc' = "resetA"
  /\ UNCHANGED <<xtal, fuse, preset, avs, tbg, lines>>

At(step, t) ==
  CASE step = "reset" -> IF t = "A" THEN "resetA" ELSE "resetB"
    [] step = "release" -> IF t = "A" THEN "releaseA" ELSE "releaseB"
    [] step = "lock" -> IF t = "A" THEN "lockA" ELSE "lockB"
\* set_tbg_clock, steps 1 to 8: held in reset while its dividers change.
ProgramTbg(t) ==
  /\ cpc = At("reset", t)
  /\ tbg' = [tbg EXCEPT ![t] =
                [@ EXCEPT !.cfg = Programmed(TbgCfg[preset][t], xtal),
                          !.reset = TRUE, !.lock = FALSE]]
  /\ cpc' = At("release", t)
  /\ UNCHANGED <<xtal, fuse, preset, avs, lines, clk_sel>>
ReleaseTbg(t) ==
  /\ cpc = At("release", t)
  /\ tbg' = [tbg EXCEPT ![t].reset = FALSE]
  /\ cpc' = At("lock", t)
  /\ UNCHANGED <<xtal, fuse, preset, avs, lines, clk_sel>>
Lock(t) ==
  /\ ~tbg[t].reset /\ ~tbg[t].lock
  /\ tbg' = [tbg EXCEPT ![t].lock = TRUE]
  /\ UNCHANGED <<xtal, fuse, preset, avs, lines, clk_sel, cpc>>
\* Step 11 waits for both locks, whichever TBG was set.
LockedA ==
  /\ cpc = "lockA" /\ \A t \in TBGs : tbg[t].lock
  /\ tbg' = [t \in TBGs |-> [tbg[t] EXCEPT !.ssc = t = "A" /\ SpreadAllowed(preset)]]
  /\ cpc' = "resetB"
  /\ UNCHANGED <<xtal, fuse, preset, avs, lines, clk_sel>>
SwitchedTooEarly ==    \* mutant: the lines move back before the dividers are set
  /\ cpc = "lockB" /\ \A t \in TBGs : tbg[t].lock
  /\ clk_sel' = TRUE /\ lines' = preset /\ cpc' = "switch"
  /\ UNCHANGED <<xtal, fuse, preset, avs, tbg>>
LockedB ==
  /\ cpc = "lockB" /\ \A t \in TBGs : tbg[t].lock
  /\ lines' = preset /\ cpc' = "switch"
  /\ UNCHANGED <<xtal, fuse, preset, avs, tbg, clk_sel>>
SwitchToTbg ==
  /\ cpc = "switch"
  /\ clk_sel' = TRUE /\ cpc' = "done"
  /\ UNCHANGED <<xtal, fuse, preset, avs, tbg, lines>>

\* After a reset the boot ROM has the TBGs running again.
ResetClock ==
  /\ tbg' = [t \in TBGs |-> [tbg[t] EXCEPT !.reset = FALSE, !.lock = TRUE,
                                           !.ssc = FALSE]]
  /\ clk_sel' = FALSE
  /\ preset' = NoPreset /\ avs' = NoAvs /\ cpc' = "idle"
  /\ UNCHANGED <<xtal, fuse, lines>>

setup_clock_tree ==
  \/ NoTree \/ SwitchToXtal \/ LockedA \/ LockedB \/ SwitchToTbg
  \/ \E t \in TBGs : ProgramTbg(t) \/ ReleaseTbg(t) \/ Lock(t)

-----------------------------------------------------------------------------
(* The frequencies in MHz of the table above clk_cfg_all (clock.c:85-292),  *)
(* for the lines that have a selector.                                      *)
TableMHz ==
  [p \in 0..3 |->
    [mmc |-> 400, sata_host |-> 200, sec_at |-> 200, sec_dap |-> 100,
     tsecm |-> 200, setm_tmx |-> CpuMHz[p], sqf |-> 200, pwm |-> 100,
     ddr_fclk |-> 125, trace |-> IF p = 3 THEN 800 ELSE CpuMHz[p],
     counter |-> IF p = 0 THEN 167 ELSE 160, a53_cpu |-> CpuMHz[p],
     eip97 |-> IF p \in {0, 2} THEN 500 ELSE 400, gbe_50 |-> 50,
     gbe_core |-> 250, gbe_125 |-> 125, sdio |-> 400, usb2_sys |-> 100,
     usb_ss_sys |-> 125, sb_axi |-> IF p = 0 THEN 200 ELSE 250]]
(* The lines for which entry and table do not agree: pwm runs at 50 MHz,    *)
(* eip97 at 500, trace at 1200 and counter at 150.                          *)
Departing == [p \in 0..3 |-> CASE p = 1 -> {"pwm", "eip97"}
                               [] p = 3 -> {"pwm", "eip97", "trace", "counter"}
                               [] OTHER -> {"pwm"}]
\* N is rounded down, so a frequency may be short of the table by 2 %.
Near(f, promise) == f <= promise /\ 100 * f >= 98 * promise

(* Once set up, a line runs at the frequency of its preset's table if and   *)
(* only if it is none of the departing ones; the core and the DRAM run at   *)
(* what get_cpu_clock and get_ddr_clock tell the rest of the firmware; and  *)
(* no Ethernet clock comes from a TBG with spread spectrum, which           *)
(* setup_clock_tree's comment forbids.                                      *)
ClockAsPromised ==
  cpc = "done" =>
    /\ {l \in ClockLines : ~Near(Freq(l), TableMHz[lines][l])} = Departing[lines]
    /\ Near(Freq("a53_cpu"), get_cpu_clock)
    /\ Near(TbgClk("AS") \div 2, get_ddr_clock)
    /\ \A l \in {"gbe_125", "gbe_50", "gbe_core"} :
         ~tbg[OnTbg(LineCfg[lines][l].src)].ssc
(* "TARGET ... FREQ": every line runs at the frequency the table gives it.  *)
ClockTableKept ==
  cpc = "done" => \A l \in ClockLines : Near(Freq(l), TableMHz[lines][l])

(* The lines run from the TBGs only while both are locked and the voltage   *)
(* was set for the core's speed.  A TBG is only reset, reprogrammed or      *)
(* relocked, and a line's divider or source only changed, while every line  *)
(* runs from the crystal, and not in the step that takes the lines off it.  *)
LinesOnLocked ==
  /\ clk_sel => \A t \in TBGs : tbg[t].lock /\ ~tbg[t].reset
  /\ clk_sel /\ cpc = "done" =>
       /\ avs.speed = CpuMHz[lines]
       /\ avs.high \in 14..63 /\ avs.low = avs.high
ClockChangesQuiet ==
  []LinesOnLocked /\ [][clk_sel' => UNCHANGED <<tbg, lines>>]_cvars
=============================================================================
