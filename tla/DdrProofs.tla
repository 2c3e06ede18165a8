----------------------------- MODULE DdrProofs ------------------------------
(* Theorems about Ddr for all machines, boards and numbers of boots.        *)
EXTENDS Ddr, TLAPS, WellFoundedInduction

-----------------------------------------------------------------------------
(* MemorySurvives.  A boot that finds the bit set runs through these places *)
(* only, and the clocks change when every DDR3 chip is in self-refresh.     *)
WarmPlaces == {"main", "no_chip", "enter", "clock", "exit", "restore", "done"}

Places == machine \in Machines /\ cs \in Chips /\ (pc = "main" => cs = 1)
WarmPlace == bit => pc \in WarmPlaces
AsleepBefore == pc = "enter" /\ machine.type = 3 => 1..(cs - 1) \subseteq asleep
AsleepAll == pc = "clock" /\ machine.type = 3 => Chips \subseteq asleep
MemInv == Places /\ WarmPlace /\ AsleepBefore /\ AsleepAll /\ MemorySurvives

\* A machine has one or two chips.
LEMMA ChipCount == ASSUME NEW m \in Machines PROVE m.cs_num \in 1..2
BY MachinesAssumption

\* The invariant holds before the first boot.
LEMMA MemInit == Init => MemInv
<1> SUFFICES ASSUME Init PROVE MemInv
  OBVIOUS
<1>1. machine \in Machines /\ cs = 1 /\ bit = FALSE /\ pc = "main"
  BY DEF Init
<1>2. 1 \in Chips
  BY <1>1, ChipCount DEF Chips
<1> QED BY <1>1, <1>2 DEF MemInv, Places, WarmPlace, AsleepBefore, AsleepAll, MemorySurvives

\* A step of a loop over the chips leaves cs a chip, moves on by one chip, or
\* ends after the last.
LEMMA NextChipStep ==
  ASSUME machine \in Machines, machine' = machine, cs \in Chips,
         NEW then, NextChip(then)
  PROVE /\ cs' \in Chips'
        /\ \/ cs < machine.cs_num /\ cs' = cs + 1 /\ pc' = pc
           \/ cs = machine.cs_num /\ cs' = 1 /\ pc' = then
<1>1. machine.cs_num \in 1..2
  BY ChipCount
<1>2. Chips' = Chips
  BY DEF Chips
<1> QED BY <1>1, <1>2 DEF Chips, NextChip

\* Every step keeps the invariant.
LEMMA MemStep == MemInv /\ [Next]_vars => MemInv'
<1> SUFFICES ASSUME MemInv, [Next]_vars PROVE MemInv'
  OBVIOUS
<1> USE DEF MemInv
<1> DEFINE Others == UNCHANGED <<machine, bit, kept>>
<1>0. machine.cs_num \in 1..2 /\ cs \in Chips
  BY ChipCount DEF Places
<1>1. CASE UNCHANGED vars
  BY <1>1 DEF vars, dvars, Places, WarmPlace, AsleepBefore, AsleepAll, MemorySurvives, Chips
<1>2. CASE NoChip
  BY <1>2 DEF NoChip, Places, WarmPlace, WarmPlaces, AsleepBefore, AsleepAll,
              MemorySurvives, Chips
<1>3. CASE ddr_main
  <2>1. cs = 1 /\ cs' = cs /\ Others /\ pc' = IF bit THEN "enter" ELSE "test"
    BY <1>3 DEF ddr_main, Places
  <2>2. 1..(cs - 1) = {}
    BY <2>1
  <2> QED BY <2>1, <2>2 DEF Places, WarmPlace, WarmPlaces, AsleepBefore, AsleepAll,
                            MemorySurvives, Chips
<1>4. CASE self_refresh_test
  <2>1. ~bit /\ bit' = bit /\ machine' = machine /\ pc \in {"test", "retest"}
    BY <1>4 DEF self_refresh_test, WarmPlace, WarmPlaces
  <2>2. PICK then \in {"enter", "store"} : NextChip(then)
    BY <1>4 DEF self_refresh_test
  <2>3. /\ cs' \in Chips'
        /\ \/ cs < machine.cs_num /\ cs' = cs + 1 /\ pc' = pc
           \/ cs = machine.cs_num /\ cs' = 1 /\ pc' = then
    BY <2>1, <2>2, <1>0, NextChipStep DEF Places
  <2>4. 1..(1 - 1) = {}
    OBVIOUS
  <2>5. Places' /\ pc' # "clock" /\ (pc' = "enter" => cs' = 1)
    BY <2>1, <2>2, <2>3 DEF Places
  <2> QED BY <2>1, <2>4, <2>5 DEF WarmPlace, AsleepBefore, AsleepAll, MemorySurvives
<1>5. CASE self_refresh_entry
  <2>1. pc = "enter" /\ Others /\ (machine.type = 3 => asleep' = asleep \cup {cs})
    BY <1>5, MachinesAssumption DEF self_refresh_entry, Places
  <2>2. /\ cs' \in Chips'
        /\ \/ cs < machine.cs_num /\ cs' = cs + 1 /\ pc' = pc
           \/ cs = machine.cs_num /\ cs' = 1 /\ pc' = "clock"
    BY <2>1, <1>0, <1>5, NextChipStep DEF self_refresh_entry, Places
  <2>3. Places' /\ WarmPlace' /\ MemorySurvives'
    BY <2>1, <2>2 DEF Places, WarmPlace, WarmPlaces, MemorySurvives, Chips
  <2>4. machine.type = 3 => 1..cs \subseteq asleep'
    <3> SUFFICES ASSUME machine.type = 3, NEW c \in 1..cs PROVE c \in asleep'
      OBVIOUS
    <3>1. c \in 1..(cs - 1) \/ c = cs
      BY <1>0 DEF Chips
    <3> QED BY <2>1, <3>1 DEF AsleepBefore
  <2>5. AsleepBefore'
    BY <2>1, <2>2, <2>4, <1>0 DEF AsleepBefore, Chips
  <2>6. AsleepAll'
    BY <2>1, <2>2, <2>4 DEF AsleepAll, Chips
  <2> QED BY <2>3, <2>5, <2>6
<1>6. CASE clock_init
  <2>1. /\ pc = "clock" /\ pc' = pc /\ cs' = cs /\ asleep' = asleep
        /\ machine' = machine /\ bit' = bit
        /\ kept' = kept \/ kept' = kept \cap asleep
    BY <1>6 DEF clock_init
  <2>2. MemorySurvives'
    BY <2>1 DEF MemorySurvives, AsleepAll, Chips
  <2> QED BY <2>1, <2>2 DEF Places, WarmPlace, AsleepBefore, AsleepAll, Chips
<1>7. CASE phyinit_sequence_sync2
  BY <1>7 DEF phyinit_sequence_sync2, Places, WarmPlace, WarmPlaces, AsleepBefore,
              AsleepAll, MemorySurvives, Chips
<1>8. CASE self_refresh_exit
  <2>1. pc = "exit" /\ Others
    BY <1>8 DEF self_refresh_exit
  <2>2. /\ cs' \in Chips'
        /\ \/ cs < machine.cs_num /\ cs' = cs + 1 /\ pc' = pc
           \/ cs = machine.cs_num /\ cs' = 1 /\ pc' = IF bit THEN "restore" ELSE "capture"
    BY <2>1, <1>0, <1>8, NextChipStep DEF self_refresh_exit, Places
  <2> QED BY <2>1, <2>2 DEF Places, WarmPlace, WarmPlaces, AsleepBefore, AsleepAll,
                            MemorySurvives, Chips
<1>9. CASE WarmBoot
  BY <1>9 DEF WarmBoot, Places, WarmPlace, WarmPlaces, AsleepBefore, AsleepAll,
              MemorySurvives, Chips
<1>10. CASE GateTraining
  <2>1. ~bit /\ pc = "gate" /\ Others
    BY <1>10 DEF GateTraining, WarmPlace, WarmPlaces
  <2>2. /\ cs' \in Chips'
        /\ \/ cs < machine.cs_num /\ cs' = cs + 1 /\ pc' = pc
           \/ cs = machine.cs_num /\ cs' = 1 /\ pc' = "vref_read"
    BY <2>1, <1>0, <1>10, NextChipStep DEF GateTraining, Places
  <2> QED BY <2>1, <2>2 DEF Places, WarmPlace, AsleepBefore, AsleepAll, MemorySurvives
<1>11. CASE Capture \/ ReadVrefTraining \/ WriteVrefTraining \/ DllTuning \/ Store
  <2>1. /\ ~bit /\ Others /\ cs' = cs
        /\ pc' \in {"gate", "vref_read", "vref_write", "dll", "retest", "done"}
    BY <1>11 DEF Capture, ReadVrefTraining, WriteVrefTraining, DllTuning, Store,
                 WarmPlace, WarmPlaces
  <2> QED BY <2>1 DEF Places, WarmPlace, AsleepBefore, AsleepAll, MemorySurvives, Chips
<1>12. CASE Suspend
  BY <1>12 DEF Suspend, Places, WarmPlace, WarmPlaces, AsleepBefore, AsleepAll,
               MemorySurvives, Chips
<1>13. CASE Reset \/ PowerCycle
  <2>1. /\ pc' = "main" /\ cs' = 1 /\ machine' = machine
        /\ ~bit' \/ (bit' = bit /\ kept' = kept)
    BY <1>13 DEF Reset, PowerCycle
  <2>2. 1 \in Chips'
    BY <2>1, <1>0 DEF Chips
  <2> QED BY <2>1, <2>2 DEF Places, WarmPlace, WarmPlaces, AsleepBefore, AsleepAll,
                            MemorySurvives, Chips
<1> QED BY <1>1, <1>2, <1>3, <1>4, <1>5, <1>6, <1>7, <1>8, <1>9, <1>10, <1>11,
           <1>12, <1>13 DEF Next

(* On every machine with DDR3 and across resets at any point, the memory    *)
(* keeps its contents from the AP's request for a warm boot on: ddr_main    *)
(* and init_ddr test and retrain cold boots only, and the clocks change     *)
(* when every chip is in self-refresh.                                      *)
THEOREM MemoryAlwaysSurvives == Spec => []MemorySurvives
<1>1. MemInv => MemorySurvives
  BY DEF MemInv
<1> QED BY <1>1, MemInit, MemStep, PTL DEF Spec

-----------------------------------------------------------------------------
(* ClockChangesQuiet.  What the places of setup_clock_tree know of the      *)
(* clocks, besides what holds at all times.                                 *)
Setting == {"resetA", "releaseA", "lockA", "resetB", "releaseB", "lockB", "switch"}
Fields == {"cfg", "reset", "lock", "ssc"}
LockedTbg(t) == tbg[t].lock /\ ~tbg[t].reset

Hardware == machine \in Machines /\ fuse = machine.fuse
TbgShape == DOMAIN tbg = TBGs /\ \A t \in TBGs : DOMAIN tbg[t] = Fields
LockOutOfReset == \A t \in TBGs : tbg[t].lock => ~tbg[t].reset
LinesOnTbgs == clk_sel => \A t \in TBGs : LockedTbg(t)
PresetKept == /\ preset \in 0..4
              /\ cpc \in Setting \cup {"done"} => preset # NoPreset
              /\ cpc \in {"switch", "done"} => lines = preset
CoreOnXtal == cpc \in Setting => ~clk_sel
LocksAwaited == cpc = "switch" => \A t \in TBGs : LockedTbg(t)
VoltageSet == preset # NoPreset => /\ avs.speed = CpuMHz[preset]
                                   /\ avs.high \in 14..63 /\ avs.low = avs.high
QuietInv == /\ Hardware /\ TbgShape /\ LockOutOfReset /\ LinesOnTbgs
            /\ PresetKept /\ CoreOnXtal /\ LocksAwaited /\ VoltageSet

\* The invariant implies the property.
LEMMA QuietImplies == QuietInv => LinesOnLocked
BY DEF QuietInv, LinesOnTbgs, LockedTbg, PresetKept, VoltageSet, LinesOnLocked

\* init_avs stays in the range of the regulator, whatever the fuses hold.
LEMMA VddInRange ==
  ASSUME Hardware, NEW p \in 0..3 PROVE Vdd(CpuMHz[p]) \in 14..63
<1>1. fuse.vdd \in 0..63
  BY MachinesAssumption DEF Hardware
<1>2. CpuMHz[p] \in {600, 800, 1000, 1200}
  BY DEF CpuMHz
<1>3. VddDefault[CpuMHz[p]] \in {31, 35, 39}
  BY <1>2 DEF VddDefault
<1> QED BY <1>1, <1>3 DEF Vdd, AVS_VDD_BASE

\* The boot ROM's clocks satisfy the invariant.
LEMMA QuietInit == Init => QuietInv
<1> SUFFICES ASSUME Init PROVE QuietInv
  OBVIOUS
<1>1. InitClock(machine.xtal, machine.fuse, machine.rom) /\ machine \in Machines
  BY DEF Init
<1>2. preset = 4 /\ cpc = "idle" /\ fuse = machine.fuse
  BY <1>1 DEF InitClock, NoPreset
<1>3. TbgShape /\ \A t \in TBGs : LockedTbg(t)
  BY <1>1 DEF InitClock, TbgShape, LockedTbg, Fields
<1> QED BY <1>1, <1>2, <1>3 DEF QuietInv, Hardware, LockOutOfReset, LinesOnTbgs, LockedTbg,
            PresetKept, NoPreset, CoreOnXtal, Setting, LocksAwaited, VoltageSet

\* A step that leaves the clocks alone, up to the place of setup_clock_tree
\* before its first step.
LEMMA QuietStutter ==
  ASSUME QuietInv, machine' = machine,
         UNCHANGED <<xtal, fuse, preset, avs, tbg, lines, clk_sel>>,
         cpc' = cpc \/ cpc' = "start"
  PROVE QuietInv'
BY DEF QuietInv, Hardware, TbgShape, LockOutOfReset, LinesOnTbgs, LockedTbg,
       PresetKept, NoPreset, CoreOnXtal, Setting, LocksAwaited, VoltageSet

\* set_clock_preset and init_avs.
LEMMA QuietPreset ==
  ASSUME QuietInv, machine' = machine, NEW p \in 0..4, SetPreset(p)
  PROVE QuietInv'
<1>1. /\ cpc = "idle" /\ cpc' = cpc /\ preset' = p
      /\ UNCHANGED <<fuse, tbg, lines, clk_sel>>
  BY DEF SetPreset
<1>2. VoltageSet'
  <2>1. CASE p = NoPreset
    BY <1>1, <2>1 DEF VoltageSet
  <2>2. CASE p # NoPreset
    <3>1. p \in 0..3
      BY <2>2 DEF NoPreset
    <3>2. Vdd(CpuMHz[p]) \in 14..63
      BY <3>1, VddInRange DEF QuietInv
    <3> QED BY <1>1, <2>2, <3>2 DEF SetPreset, VoltageSet
  <2> QED BY <2>1, <2>2
<1> QED BY <1>1, <1>2 DEF QuietInv, Hardware, TbgShape, LockOutOfReset, LinesOnTbgs,
            LockedTbg, PresetKept, CoreOnXtal, Setting, LocksAwaited

\* One TBG gets other values in its fields reset and lock, the other none.
LEMMA OneTbg ==
  ASSUME TbgShape, NEW t \in TBGs,
         NEW new, DOMAIN new = Fields, tbg' = [tbg EXCEPT ![t] = new]
  PROVE TbgShape' /\ tbg'[t] = new /\ \A u \in TBGs \ {t} : tbg'[u] = tbg[u]
BY DEF TbgShape

\* setup_clock_tree, step by step.
LEMMA QuietTree ==
  ASSUME QuietInv, machine' = machine, setup_clock_tree
  PROVE QuietInv'
<1> USE DEF QuietInv
<1> DEFINE Rest == /\ Hardware' /\ TbgShape' /\ LockOutOfReset' /\ LinesOnTbgs'
                   /\ VoltageSet'
<1>1. CASE NoTree
  BY <1>1 DEF NoTree, Hardware, TbgShape, LockOutOfReset, LinesOnTbgs, LockedTbg,
              PresetKept, CoreOnXtal, Setting, LocksAwaited, VoltageSet
<1>2. CASE SwitchToXtal
  BY <1>2 DEF SwitchToXtal, Hardware, TbgShape, LockOutOfReset, LinesOnTbgs, LockedTbg,
              PresetKept, CoreOnXtal, Setting, LocksAwaited, VoltageSet
<1>3. ASSUME NEW t \in TBGs, ProgramTbg(t) PROVE QuietInv'
  <2> DEFINE new == [tbg[t] EXCEPT !.cfg = Programmed(TbgCfg[preset][t], xtal),
                                   !.reset = TRUE, !.lock = FALSE]
  <2>1. /\ cpc \in {"resetA", "resetB"} /\ cpc' \in {"releaseA", "releaseB"}
        /\ tbg' = [tbg EXCEPT ![t] = new]
        /\ UNCHANGED <<fuse, preset, avs, lines, clk_sel>>
    BY <1>3 DEF ProgramTbg, At
  <2>2. DOMAIN new = Fields /\ new.reset = TRUE /\ new.lock = FALSE
    BY DEF TbgShape, Fields
  <2>3. TbgShape' /\ tbg'[t] = new /\ \A u \in TBGs \ {t} : tbg'[u] = tbg[u]
    BY <2>1, <2>2, OneTbg
  <2>4. ~clk_sel
    BY <2>1 DEF CoreOnXtal, Setting
  <2>5. LockOutOfReset'
    BY <2>2, <2>3 DEF LockOutOfReset
  <2> QED BY <2>1, <2>3, <2>4, <2>5 DEF Hardware, LinesOnTbgs, PresetKept, CoreOnXtal,
             Setting, LocksAwaited, VoltageSet
<1>4. ASSUME NEW t \in TBGs, ReleaseTbg(t) PROVE QuietInv'
  <2> DEFINE new == [tbg[t] EXCEPT !.reset = FALSE]
  <2>1. /\ cpc \in {"releaseA", "releaseB"} /\ cpc' \in {"lockA", "lockB"}
        /\ tbg' = [tbg EXCEPT ![t] = new]
        /\ UNCHANGED <<fuse, preset, avs, lines, clk_sel>>
    BY <1>4 DEF ReleaseTbg, At
  <2>2. DOMAIN new = Fields /\ new.reset = FALSE
    BY DEF TbgShape, Fields
  <2>3. TbgShape' /\ tbg'[t] = new /\ \A u \in TBGs \ {t} : tbg'[u] = tbg[u]
    BY <2>1, <2>2, OneTbg
  <2>4. ~clk_sel
    BY <2>1 DEF CoreOnXtal, Setting
  <2>5. LockOutOfReset'
    BY <2>2, <2>3 DEF LockOutOfReset
  <2> QED BY <2>1, <2>3, <2>4, <2>5 DEF Hardware, LinesOnTbgs, PresetKept, CoreOnXtal,
             Setting, LocksAwaited, VoltageSet
<1>5. ASSUME NEW t \in TBGs, Lock(t) PROVE QuietInv'
  <2> DEFINE new == [tbg[t] EXCEPT !.lock = TRUE]
  <2>1. /\ ~tbg[t].reset /\ tbg' = [tbg EXCEPT ![t] = new]
        /\ UNCHANGED <<fuse, preset, avs, lines, clk_sel, cpc>>
    BY <1>5 DEF Lock
  <2>2. DOMAIN new = Fields /\ new.lock = TRUE /\ ~new.reset
    BY <2>1 DEF TbgShape, Fields
  <2>3. TbgShape' /\ tbg'[t] = new /\ \A u \in TBGs \ {t} : tbg'[u] = tbg[u]
    BY <2>1, <2>2, OneTbg
  <2>4. LockOutOfReset' /\ \A u \in TBGs : LockedTbg(u) => LockedTbg(u)'
    BY <2>2, <2>3 DEF LockOutOfReset, LockedTbg
  <2> QED BY <2>1, <2>3, <2>4 DEF Hardware, LinesOnTbgs, PresetKept, CoreOnXtal,
             LocksAwaited, VoltageSet
<1>6. CASE LockedA
  <2>1. /\ cpc = "lockA" /\ cpc' = "resetB" /\ \A t \in TBGs : tbg[t].lock
        /\ tbg' = [t \in TBGs |-> [tbg[t] EXCEPT !.ssc = t = "A" /\ SpreadAllowed(preset)]]
        /\ UNCHANGED <<fuse, preset, avs, lines, clk_sel>>
    BY <1>6 DEF LockedA
  <2>2. ~clk_sel
    BY <2>1 DEF CoreOnXtal, Setting
  <2>3. TbgShape'
    BY <2>1 DEF TbgShape
  <2>4. LockOutOfReset'
    BY <2>1 DEF LockOutOfReset, TbgShape, Fields
  <2> QED BY <2>1, <2>2, <2>3, <2>4 DEF Hardware, LinesOnTbgs, PresetKept, CoreOnXtal,
             Setting, LocksAwaited, VoltageSet
<1>7. CASE LockedB
  BY <1>7 DEF LockedB, Hardware, TbgShape, LockOutOfReset, LinesOnTbgs, LockedTbg,
              PresetKept, CoreOnXtal, Setting, LocksAwaited, VoltageSet
<1>8. CASE SwitchToTbg
  BY <1>8 DEF SwitchToTbg, Hardware, TbgShape, LockOutOfReset, LinesOnTbgs, LockedTbg,
              PresetKept, CoreOnXtal, Setting, LocksAwaited, VoltageSet
<1> QED BY <1>1, <1>2, <1>3, <1>4, <1>5, <1>6, <1>7, <1>8 DEF setup_clock_tree

\* A reset at any point: the boot ROM's clocks run again.
LEMMA QuietReset ==
  ASSUME QuietInv, machine' = machine, ResetClock
  PROVE QuietInv'
<1>1. /\ preset' = NoPreset /\ cpc' = "idle" /\ clk_sel' = FALSE /\ fuse' = fuse
      /\ tbg' = [t \in TBGs |-> [tbg[t] EXCEPT !.reset = FALSE, !.lock = TRUE,
                                              !.ssc = FALSE]]
  BY DEF ResetClock
<1>2. TbgShape' /\ \A t \in TBGs : ~tbg'[t].reset
  BY <1>1 DEF QuietInv, TbgShape, Fields
<1>3. Hardware' /\ LockOutOfReset' /\ LinesOnTbgs'
  BY <1>1, <1>2 DEF QuietInv, Hardware, LockOutOfReset, LinesOnTbgs
<1>4. preset' = NoPreset /\ cpc' = "idle"
  BY <1>1
<1>5. PresetKept' /\ CoreOnXtal' /\ LocksAwaited'
  BY <1>4 DEF PresetKept, NoPreset, CoreOnXtal, Setting, LocksAwaited
<1>6. VoltageSet'
  BY <1>4 DEF VoltageSet
<1> QED BY <1>2, <1>3, <1>5, <1>6 DEF QuietInv

\* Every step keeps the invariant.
LEMMA QuietStep == QuietInv /\ [Next]_vars => QuietInv'
<1> SUFFICES ASSUME QuietInv, [Next]_vars PROVE QuietInv'
  OBVIOUS
<1>1. CASE ddr_main
  <2>1. machine.preset \in 0..4
    BY MachinesAssumption DEF QuietInv, Hardware
  <2> QED BY <1>1, <2>1, QuietPreset DEF ddr_main
<1>2. CASE self_refresh_entry
  BY <1>2, QuietStutter DEF self_refresh_entry
<1>3. CASE clock_init
  BY <1>3, QuietTree DEF clock_init
<1>4. CASE Reset \/ PowerCycle
  BY <1>4, QuietReset DEF Reset, PowerCycle
<1>5. CASE NoChip \/ self_refresh_test \/ phyinit_sequence_sync2 \/ self_refresh_exit
  BY <1>5, QuietStutter DEF NoChip, self_refresh_test, phyinit_sequence_sync2,
                            self_refresh_exit, cvars
<1>6. CASE WarmBoot \/ Capture \/ GateTraining \/ ReadVrefTraining
  BY <1>6, QuietStutter DEF WarmBoot, Capture, GateTraining, ReadVrefTraining, cvars
<1>7. CASE WriteVrefTraining \/ DllTuning \/ Store \/ Suspend \/ UNCHANGED vars
  BY <1>7, QuietStutter DEF WriteVrefTraining, DllTuning, Store, Suspend, cvars, vars, dvars
<1> QED BY <1>1, <1>2, <1>3, <1>4, <1>5, <1>6, <1>7 DEF Next

\* A step that touches a TBG, a divider or a source leaves the lines on, or
\* takes them to, the crystal.
LEMMA QuietMove ==
  QuietInv /\ [Next]_vars => [clk_sel' => UNCHANGED <<tbg, lines>>]_cvars
<1> SUFFICES ASSUME QuietInv, [Next]_vars, clk_sel', cvars' # cvars
             PROVE UNCHANGED <<tbg, lines>>
  OBVIOUS
<1>1. CASE ddr_main
  BY <1>1 DEF ddr_main, SetPreset
<1>2. CASE self_refresh_entry
  BY <1>2 DEF self_refresh_entry
<1>3. CASE clock_init
  <2>1. setup_clock_tree
    BY <1>3 DEF clock_init
  <2>2. CASE NoTree \/ SwitchToXtal \/ SwitchToTbg
    BY <2>2 DEF NoTree, SwitchToXtal, SwitchToTbg
  <2>3. CASE LockedA \/ LockedB
    <3>1. cpc \in Setting /\ clk_sel' = clk_sel
      BY <2>3 DEF LockedA, LockedB, Setting
    <3> QED BY <3>1 DEF QuietInv, CoreOnXtal
  <2>4. ASSUME NEW t \in TBGs, ProgramTbg(t) \/ ReleaseTbg(t) PROVE FALSE
    <3>1. cpc \in Setting /\ clk_sel' = clk_sel
      BY <2>4 DEF ProgramTbg, ReleaseTbg, At, Setting
    <3> QED BY <3>1 DEF QuietInv, CoreOnXtal
  <2>5. ASSUME NEW t \in TBGs, Lock(t) PROVE FALSE
    <3>1. ~tbg[t].lock /\ clk_sel
      BY <2>5 DEF Lock
    <3> QED BY <3>1 DEF QuietInv, LinesOnTbgs, LockedTbg
  <2> QED BY <2>1, <2>2, <2>3, <2>4, <2>5 DEF setup_clock_tree
<1>4. CASE Reset \/ PowerCycle
  BY <1>4 DEF Reset, PowerCycle, ResetClock
<1>5. CASE NoChip \/ self_refresh_test \/ phyinit_sequence_sync2 \/ self_refresh_exit
  BY <1>5 DEF NoChip, self_refresh_test, phyinit_sequence_sync2, self_refresh_exit
<1>6. CASE WarmBoot \/ Capture \/ GateTraining \/ ReadVrefTraining
  BY <1>6 DEF WarmBoot, Capture, GateTraining, ReadVrefTraining
<1>7. CASE WriteVrefTraining \/ DllTuning \/ Store \/ Suspend \/ UNCHANGED vars
  BY <1>7 DEF WriteVrefTraining, DllTuning, Store, Suspend, vars
<1> QED BY <1>1, <1>2, <1>3, <1>4, <1>5, <1>6, <1>7 DEF Next

(* For every preset, crystal and content of the fuses, and resets at any    *)
(* point: setup_clock_tree leaves no line on a TBG that is in reset or not  *)
(* locked, the core runs at the speed its voltage was set for, and TBGs,    *)
(* dividers and sources only change while every line is on the crystal and  *)
(* stays there.                                                             *)
THEOREM ClocksAlwaysChangeQuietly == Spec => ClockChangesQuiet
BY QuietInit, QuietStep, QuietImplies, QuietMove, PTL DEF Spec, ClockChangesQuiet

-----------------------------------------------------------------------------
(* ClockAsPromised.  A TBG that was set holds the values of the preset, and *)
(* TBG-A has spread spectrum only when Ethernet does not run from it.       *)
SetA == {"releaseA", "lockA", "resetB", "releaseB", "lockB", "switch", "done"}
SetB == {"releaseB", "lockB", "switch", "done"}
Holds(t) == tbg[t].cfg = Programmed(TbgCfg[preset][t], xtal)
TreeInv ==
  /\ xtal \in {25, 40}
  /\ cpc \in SetA => Holds("A")
  /\ cpc \in SetB => Holds("B")
  /\ ~tbg["B"].ssc
  /\ tbg["A"].ssc => cpc \in {"resetB", "releaseB", "lockB", "switch", "done"}
                     /\ SpreadAllowed(preset)
  /\ cpc = "done" => clk_sel
\* setup_clock_tree is called behind the self-refresh entry.
BeforeTree == pc \in {"main", "no_chip", "test", "enter"} => cpc = "idle"

\* It holds before the first boot.
LEMMA TreeInit == Init => TreeInv /\ BeforeTree
<1> SUFFICES ASSUME Init PROVE TreeInv /\ BeforeTree
  OBVIOUS
<1>1. InitClock(machine.xtal, machine.fuse, machine.rom) /\ machine \in Machines
  BY DEF Init
<1>2. xtal = machine.xtal /\ cpc = "idle" /\ \A t \in TBGs : ~tbg[t].ssc
  BY <1>1 DEF InitClock
<1>3. xtal \in {25, 40}
  BY <1>1, <1>2, MachinesAssumption
<1> QED BY <1>2, <1>3 DEF TreeInv, BeforeTree, SetA, SetB, TBGs

\* A step that leaves the clocks alone.
LEMMA TreeStutter ==
  ASSUME TreeInv, UNCHANGED <<xtal, preset, tbg, lines, clk_sel>>,
         cpc' = cpc \/ (cpc' = "start" /\ ~tbg["A"].ssc)
  PROVE TreeInv'
BY DEF TreeInv, SetA, SetB, Holds, SpreadAllowed

\* setup_clock_tree, step by step.
LEMMA TreeStep ==
  ASSUME QuietInv, TreeInv, setup_clock_tree PROVE TreeInv'
<1> USE DEF TreeInv
<1>0. TbgShape /\ xtal' = xtal /\ preset' = preset /\ "A" \in TBGs /\ "B" \in TBGs
  BY DEF QuietInv, setup_clock_tree, NoTree, SwitchToXtal, LockedA, LockedB, SwitchToTbg,
         ProgramTbg, ReleaseTbg, Lock, TBGs
<1>1. CASE NoTree \/ SwitchToXtal \/ LockedB \/ SwitchToTbg
  <2>1. tbg' = tbg /\ (cpc' = "done" => clk_sel')
    BY <1>1 DEF NoTree, SwitchToXtal, LockedB, SwitchToTbg
  <2>2. /\ cpc \in {"start", "lockB", "switch"}
        /\ cpc = "start" => cpc' \notin SetA
        /\ cpc \in {"lockB", "switch"} => cpc' \in {"switch", "done"}
    BY <1>1 DEF NoTree, SwitchToXtal, LockedB, SwitchToTbg, SetA
  <2> QED BY <1>0, <2>1, <2>2 DEF SetA, SetB, Holds, SpreadAllowed
<1>2. ASSUME NEW t \in TBGs, ProgramTbg(t) PROVE TreeInv'
  <2> DEFINE cfg == Programmed(TbgCfg[preset][t], xtal)
             new == [tbg[t] EXCEPT !.cfg = cfg, !.reset = TRUE, !.lock = FALSE]
  <2>1. /\ tbg' = [tbg EXCEPT ![t] = new]
        /\ \/ t = "A" /\ cpc = "resetA" /\ cpc' = "releaseA"
           \/ t = "B" /\ cpc = "resetB" /\ cpc' = "releaseB"
    BY <1>2 DEF ProgramTbg, At, TBGs
  <2> HIDE DEF cfg
  <2>2. /\ tbg'[t].cfg = cfg /\ tbg'[t].ssc = tbg[t].ssc
        /\ \A u \in TBGs \ {t} : tbg'[u] = tbg[u]
    BY <1>0, <2>1 DEF TbgShape, Fields
  <2>3. CASE t = "A"
    BY <1>0, <2>1, <2>2, <2>3 DEF SetA, SetB, Holds, SpreadAllowed, cfg
  <2>4. CASE t = "B"
    BY <1>0, <2>1, <2>2, <2>4 DEF SetA, SetB, Holds, SpreadAllowed, cfg
  <2> QED BY <2>3, <2>4 DEF TBGs
<1>3. ASSUME NEW t \in TBGs, ReleaseTbg(t) PROVE TreeInv'
  <2>1. /\ tbg' = [tbg EXCEPT ![t] = [tbg[t] EXCEPT !.reset = FALSE]]
        /\ \/ t = "A" /\ cpc = "releaseA" /\ cpc' = "lockA"
           \/ t = "B" /\ cpc = "releaseB" /\ cpc' = "lockB"
    BY <1>3 DEF ReleaseTbg, At, TBGs
  <2>2. \A u \in TBGs : tbg'[u].cfg = tbg[u].cfg /\ tbg'[u].ssc = tbg[u].ssc
    BY <1>0, <2>1 DEF TbgShape, Fields
  <2> QED BY <1>0, <2>1, <2>2 DEF SetA, SetB, Holds, SpreadAllowed
<1>4. ASSUME NEW t \in TBGs, Lock(t) PROVE TreeInv'
  <2>1. /\ tbg' = [tbg EXCEPT ![t] = [tbg[t] EXCEPT !.lock = TRUE]]
        /\ cpc' = cpc /\ clk_sel' = clk_sel
    BY <1>4 DEF Lock
  <2>2. \A u \in TBGs : tbg'[u].cfg = tbg[u].cfg /\ tbg'[u].ssc = tbg[u].ssc
    BY <1>0, <2>1 DEF TbgShape, Fields
  <2> QED BY <1>0, <2>1, <2>2 DEF SetA, SetB, Holds, SpreadAllowed
<1>5. CASE LockedA
  <2>1. /\ cpc = "lockA" /\ cpc' = "resetB"
        /\ tbg' = [t \in TBGs |-> [tbg[t] EXCEPT !.ssc = t = "A" /\ SpreadAllowed(preset)]]
    BY <1>5 DEF LockedA
  <2>2. tbg'["A"] = [tbg["A"] EXCEPT !.ssc = "A" = "A" /\ SpreadAllowed(preset)]
    BY <1>0, <2>1
  <2>3. tbg'["B"] = [tbg["B"] EXCEPT !.ssc = "B" = "A" /\ SpreadAllowed(preset)]
    BY <1>0, <2>1
  <2>4. tbg'["A"].cfg = tbg["A"].cfg /\ (tbg'["A"].ssc <=> SpreadAllowed(preset))
    BY <1>0, <2>2 DEF TbgShape, Fields
  <2>5. ~tbg'["B"].ssc
    BY <1>0, <2>3 DEF TbgShape, Fields
  <2> QED BY <1>0, <2>1, <2>4, <2>5 DEF SetA, SetB, Holds, SpreadAllowed
<1> QED BY <1>1, <1>2, <1>3, <1>4, <1>5 DEF setup_clock_tree

\* The two TBGs' outputs in MHz, S and P.  With the slower crystal TBG-A's
\* 1500 MHz are rounded down.
Speed(p, src) ==
  CASE p = 0 -> (IF src \in {"AS", "AP"} THEN 1200 ELSE 1000)
    [] p = 3 -> (CASE src = "AS" -> IF xtal = 25 THEN 1500 ELSE 1480
                   [] src = "AP" -> IF xtal = 25 THEN 750 ELSE 740
                   [] OTHER -> 1200)
    [] OTHER -> (CASE src = "AS" -> 1600 [] src = "AP" -> 800
                   [] src = "BS" -> 1000 [] OTHER -> 500)

\* The arithmetic of set_tbg_clock and get_tbg_clk for every preset.
LEMMA TbgSpeeds ==
  ASSUME xtal \in {25, 40}, preset \in 0..3, Holds("A"), Holds("B"),
         NEW src \in {"AS", "AP", "BS", "BP"}
  PROVE TbgClk(src) = Speed(preset, src)
<1> DEFINE a == TbgCfg[preset]["A"]
           b == TbgCfg[preset]["B"]
<1>1. 2 ^ 0 = 1 /\ 2 ^ 1 = 2 /\ 2 ^ 2 = 4
  OBVIOUS
<1>2. /\ tbg["A"].cfg.m = RefDiv(xtal) /\ tbg["A"].cfg.n = FbDiv(a.kvco, xtal)
      /\ tbg["A"].cfg.se = a.se /\ tbg["A"].cfg.diff = a.diff
  BY DEF Holds, Programmed
<1>3. /\ tbg["B"].cfg.m = RefDiv(xtal) /\ tbg["B"].cfg.n = FbDiv(b.kvco, xtal)
      /\ tbg["B"].cfg.se = b.se /\ tbg["B"].cfg.diff = b.diff
  BY DEF Holds, Programmed
<1>4. a = CASE preset = 0 -> Kvco(2400, 1, 1) [] preset = 3 -> Kvco(1500, 0, 1)
            [] OTHER -> Kvco(1600, 0, 1)
  BY DEF TbgCfg
<1>5. b = CASE preset = 0 -> Kvco(2000, 1, 1) [] preset = 3 -> Kvco(2400, 1, 1)
            [] OTHER -> Kvco(2000, 1, 2)
  BY DEF TbgCfg
<1> HIDE DEF a, b
<1>6. /\ FbDiv(2400, 25) = 72 /\ FbDiv(2000, 25) = 60 /\ FbDiv(1600, 25) = 48
      /\ FbDiv(1500, 25) = 45 /\ RefDiv(25) = 3
  BY DEF FbDiv, RefDiv
<1>7. /\ FbDiv(2400, 40) = 60 /\ FbDiv(2000, 40) = 50 /\ FbDiv(1600, 40) = 40
      /\ FbDiv(1500, 40) = 37 /\ RefDiv(40) = 4
  BY DEF FbDiv, RefDiv
<1>8. a.se \in 0..2 /\ a.diff \in 0..2 /\ b.se \in 0..2 /\ b.diff \in 0..2
  BY <1>4, <1>5 DEF Kvco
<1> DEFINE mhz(c, d) == (FbDiv(c.kvco, xtal) * xtal * 4) \div (RefDiv(xtal) * 2 ^ d)
<1>9. TbgClk(src) = CASE src = "AS" -> mhz(a, a.se) [] src = "AP" -> mhz(a, a.diff)
                      [] src = "BS" -> mhz(b, b.se) [] OTHER -> mhz(b, b.diff)
  BY <1>2, <1>3, <1>8 DEF TbgClk, OnTbg
<1>10. CASE preset = 0
  <2>1. a.kvco = 2400 /\ a.se = 1 /\ a.diff = 1 /\ b.kvco = 2000 /\ b.se = 1 /\ b.diff = 1
    BY <1>4, <1>5, <1>10 DEF Kvco
  <2> QED BY <1>1, <1>6, <1>7, <1>9, <1>10, <2>1 DEF Speed
<1>11. CASE preset = 3
  <2>1. a.kvco = 1500 /\ a.se = 0 /\ a.diff = 1 /\ b.kvco = 2400 /\ b.se = 1 /\ b.diff = 1
    BY <1>4, <1>5, <1>11 DEF Kvco
  <2> QED BY <1>1, <1>6, <1>7, <1>9, <1>11, <2>1 DEF Speed
<1>12. CASE preset \in {1, 2}
  <2>1. a.kvco = 1600 /\ a.se = 0 /\ a.diff = 1 /\ b.kvco = 2000 /\ b.se = 1 /\ b.diff = 2
    BY <1>4, <1>5, <1>12 DEF Kvco
  <2> QED BY <1>1, <1>6, <1>7, <1>9, <1>12, <2>1 DEF Speed
<1> QED BY <1>10, <1>11, <1>12

\* Source and divider of a line give what the table promises for it, but for
\* the lines that depart from it.
Fits(p, l) ==
  /\ LineCfg[p][l].src \in {"AS", "AP", "BS", "BP"}
  /\ l \in Departing[p] <=>
       ~Near(Speed(p, LineCfg[p][l].src) \div LineCfg[p][l].div, TableMHz[p][l])

\* Every line in every preset.
LEMMA LinesFit ==
  ASSUME xtal \in {25, 40}, NEW p \in 0..3, NEW l \in ClockLines
  PROVE Fits(p, l)
<1> USE DEF Fits, Speed, Near, ClockLines, From
<1>1. CASE p = 0
  <2>1. LineCfg[p] = LineCfg0 /\ Departing[p] = {"pwm"} /\ CpuMHz[p] = 600
    BY <1>1 DEF LineCfg, Departing, CpuMHz
  <2> QED BY <1>1, <2>1 DEF LineCfg0, TableMHz
<1>2. CASE p = 1
  <2>1. LineCfg[p] = LineCfg1 /\ Departing[p] = {"pwm", "eip97"} /\ CpuMHz[p] = 800
    BY <1>2 DEF LineCfg, Departing, CpuMHz
  <2>2. l \in DOMAIN LineCfg1
    BY DEF LineCfg0, LineCfg1
  <2> QED BY <1>2, <2>1, <2>2 DEF LineCfg1, TableMHz
<1>3. CASE p = 2
  <2>1. LineCfg[p] = LineCfg2 /\ Departing[p] = {"pwm"} /\ CpuMHz[p] = 1000
    BY <1>3 DEF LineCfg, Departing, CpuMHz
  <2>2. l \in DOMAIN LineCfg1
    BY DEF LineCfg0, LineCfg1
  <2>3. CASE l \in {"setm_tmx", "trace", "a53_cpu"}
    <3>1. LineCfg1[l] = From("AP", 1, 1)
      BY <2>3 DEF LineCfg1
    <3>2. LineCfg2[l] = From("BS", 1, 1)
      BY <2>3, <3>1 DEF LineCfg2, LineCfg1
    <3>3. TableMHz[p][l] = 1000
      BY <1>3, <2>1, <2>3 DEF TableMHz
    <3> QED BY <1>3, <2>1, <2>3, <3>2, <3>3
  <2>4. CASE l \notin {"setm_tmx", "trace", "a53_cpu"}
    <3>1. LineCfg2[l] = LineCfg1[l]
      BY <2>2, <2>4 DEF LineCfg2
    <3> QED BY <1>3, <2>1, <2>2, <2>4, <3>1 DEF LineCfg1, TableMHz
  <2> QED BY <2>3, <2>4
<1>4. CASE p = 3
  <2>1. /\ LineCfg[p] = LineCfg3 /\ CpuMHz[p] = 1200
        /\ Departing[p] = {"pwm", "eip97", "trace", "counter"}
    BY <1>4 DEF LineCfg, Departing, CpuMHz
  <2>2. l \in DOMAIN LineCfg3
    BY DEF LineCfg0, LineCfg3
  <2> QED BY <1>4, <2>1, <2>2 DEF LineCfg3, TableMHz
<1> QED BY <1>1, <1>2, <1>3, <1>4

\* The core's line.
LEMMA CoreFits ==
  ASSUME xtal \in {25, 40}, NEW p \in 0..3
  PROVE /\ LineCfg[p]["a53_cpu"].src \in {"AS", "AP", "BS", "BP"}
        /\ Near(Speed(p, LineCfg[p]["a53_cpu"].src) \div LineCfg[p]["a53_cpu"].div,
                CpuMHz[p])
<1> USE DEF Speed, Near, From, CpuMHz
<1>1. CASE p = 0
  <2>1. LineCfg[p]["a53_cpu"] = From("AP", 2, 1)
    BY <1>1 DEF LineCfg, LineCfg0
  <2> QED BY <1>1, <2>1
<1>2. CASE p = 1
  <2>1. LineCfg[p]["a53_cpu"] = From("AP", 1, 1)
    BY <1>2 DEF LineCfg, LineCfg1
  <2> QED BY <1>2, <2>1
<1>3. CASE p = 2
  <2>1. LineCfg[p]["a53_cpu"] = From("BS", 1, 1)
    <3>1. LineCfg1["a53_cpu"] = From("AP", 1, 1) /\ "a53_cpu" \in DOMAIN LineCfg1
      BY DEF LineCfg1
    <3>2. LineCfg2["a53_cpu"] = [LineCfg1["a53_cpu"] EXCEPT !.src = "BS"]
      BY <3>1 DEF LineCfg2
    <3>3. LineCfg2["a53_cpu"] = From("BS", 1, 1)
      BY <3>1, <3>2 DEF From
    <3> QED BY <1>3, <3>3 DEF LineCfg
  <2> QED BY <1>3, <2>1
<1>4. CASE p = 3
  <2>1. LineCfg[p]["a53_cpu"] = From("BS", 1, 1)
    BY <1>4 DEF LineCfg, LineCfg3
  <2> QED BY <1>4, <2>1
<1> QED BY <1>1, <1>2, <1>3, <1>4

\* What setup_clock_tree leaves keeps the promises.
LEMMA TreeImplies == QuietInv /\ TreeInv => ClockAsPromised
<1> SUFFICES ASSUME QuietInv, TreeInv, cpc = "done" PROVE ClockAsPromised
  BY DEF ClockAsPromised
<1>1. /\ xtal \in {25, 40} /\ preset \in 0..3 /\ lines = preset /\ clk_sel
      /\ Holds("A") /\ Holds("B")
  BY DEF QuietInv, PresetKept, NoPreset, TreeInv, SetA, SetB
<1>2. \A src \in {"AS", "AP", "BS", "BP"} : TbgClk(src) = Speed(preset, src)
  BY <1>1, TbgSpeeds
<1>3. \A l \in ClockLines : l \in Departing[lines] <=> ~Near(Freq(l), TableMHz[lines][l])
  <2> SUFFICES ASSUME NEW l \in ClockLines
               PROVE l \in Departing[lines] <=> ~Near(Freq(l), TableMHz[lines][l])
    OBVIOUS
  <2>1. Fits(preset, l)
    BY <1>1, LinesFit
  <2>2. Freq(l) = Speed(preset, LineCfg[preset][l].src) \div LineCfg[preset][l].div
    BY <1>1, <1>2, <2>1 DEF Freq, Fits
  <2> QED BY <1>1, <2>1, <2>2 DEF Fits
<1>7. {l \in ClockLines : ~Near(Freq(l), TableMHz[lines][l])} = Departing[lines]
  <2>1. Departing[lines] \subseteq ClockLines
    BY <1>1 DEF Departing, ClockLines, LineCfg0
  <2> QED BY <1>3, <2>1
<1>4. Near(Freq("a53_cpu"), get_cpu_clock)
  <2>1. get_cpu_clock = CpuMHz[preset]
    BY <1>1 DEF get_cpu_clock, NoPreset
  <2> QED BY <1>1, <1>2, <2>1, CoreFits DEF Freq
<1>5. Near(TbgClk("AS") \div 2, get_ddr_clock)
  <2>1. get_ddr_clock = DdrMHz[preset] /\ TbgClk("AS") = Speed(preset, "AS")
    BY <1>1, <1>2 DEF get_ddr_clock, NoPreset
  <2> QED BY <1>1, <2>1 DEF Speed, Near, DdrMHz
<1>6. ASSUME NEW l \in {"gbe_125", "gbe_50", "gbe_core"}
      PROVE ~tbg[OnTbg(LineCfg[lines][l].src)].ssc
  <2>1. ~tbg["B"].ssc /\ (tbg["A"].ssc => SpreadAllowed(preset))
    BY DEF TreeInv
  <2>2. OnTbg(LineCfg[lines][l].src) = "A" => ~SpreadAllowed(preset)
    BY <1>1, <1>6 DEF SpreadAllowed
  <2>3. OnTbg(LineCfg[lines][l].src) \in {"A", "B"}
    BY DEF OnTbg
  <2> QED BY <2>1, <2>2, <2>3
<1> QED BY <1>4, <1>5, <1>6, <1>7 DEF ClockAsPromised

\* Every step keeps the first part of the invariant.
LEMMA BeforeTreeNext == BeforeTree /\ [Next]_vars => BeforeTree'
<1> SUFFICES ASSUME BeforeTree, [Next]_vars PROVE BeforeTree'
  OBVIOUS
<1> USE DEF BeforeTree
<1>1. CASE NoChip \/ ddr_main
  BY <1>1 DEF NoChip, ddr_main, SetPreset, cvars
<1>2. CASE self_refresh_test \/ self_refresh_entry \/ self_refresh_exit
  BY <1>2 DEF self_refresh_test, self_refresh_entry, self_refresh_exit, NextChip, cvars
<1>3. CASE clock_init \/ phyinit_sequence_sync2 \/ WarmBoot \/ Capture
  BY <1>3 DEF clock_init, phyinit_sequence_sync2, WarmBoot, Capture
<1>4. CASE GateTraining \/ ReadVrefTraining \/ WriteVrefTraining \/ DllTuning
  BY <1>4 DEF GateTraining, ReadVrefTraining, WriteVrefTraining, DllTuning, NextChip
<1>5. CASE Store \/ Suspend \/ Reset \/ PowerCycle \/ UNCHANGED vars
  BY <1>5 DEF Store, Suspend, Reset, PowerCycle, ResetClock, vars, dvars, cvars
<1> QED BY <1>1, <1>2, <1>3, <1>4, <1>5 DEF Next

\* The other one: the tree is set up behind the self-refresh entry.
LEMMA TreeNext == QuietInv /\ TreeInv /\ BeforeTree /\ [Next]_vars => TreeInv'
<1> SUFFICES ASSUME QuietInv, TreeInv, BeforeTree, [Next]_vars PROVE TreeInv'
  OBVIOUS
<1>1. CASE ddr_main
  <2>1. cpc = "idle" /\ UNCHANGED <<xtal, tbg, clk_sel, cpc>>
    BY <1>1 DEF ddr_main, SetPreset
  <2> QED BY <2>1 DEF TreeInv, SetA, SetB
<1>2. CASE self_refresh_entry
  <2>1. ~tbg["A"].ssc
    BY <1>2 DEF self_refresh_entry, BeforeTree, TreeInv
  <2> QED BY <1>2, <2>1, TreeStutter DEF self_refresh_entry
<1>3. CASE clock_init
  BY <1>3, TreeStep DEF clock_init
<1>4. CASE Reset \/ PowerCycle
  <2>1. /\ cpc' = "idle" /\ xtal' = xtal
        /\ tbg' = [t \in TBGs |-> [tbg[t] EXCEPT !.reset = FALSE, !.lock = TRUE,
                                                !.ssc = FALSE]]
    BY <1>4 DEF Reset, PowerCycle, ResetClock
  <2>2. ~tbg'["A"].ssc /\ ~tbg'["B"].ssc
    BY <2>1 DEF QuietInv, TbgShape, Fields, TBGs
  <2> QED BY <2>1, <2>2 DEF TreeInv, SetA, SetB
<1>5. CASE NoChip \/ self_refresh_test \/ phyinit_sequence_sync2 \/ self_refresh_exit
  BY <1>5, TreeStutter DEF NoChip, self_refresh_test, phyinit_sequence_sync2,
                           self_refresh_exit, cvars
<1>6. CASE WarmBoot \/ Capture \/ GateTraining \/ ReadVrefTraining
  BY <1>6, TreeStutter DEF WarmBoot, Capture, GateTraining, ReadVrefTraining, cvars
<1>7. CASE WriteVrefTraining \/ DllTuning \/ Store \/ Suspend \/ UNCHANGED vars
  BY <1>7, TreeStutter DEF WriteVrefTraining, DllTuning, Store, Suspend, cvars, vars, dvars
<1> QED BY <1>1, <1>2, <1>3, <1>4, <1>5, <1>6, <1>7 DEF Next

(* With either crystal, for every preset and wherever a reset cut an        *)
(* earlier boot: once set up, the lines that do not run within 2 % of the   *)
(* frequency the table gives them are exactly those of Departing; the core  *)
(* and the DRAM run at the speed the firmware reports, and Ethernet gets no *)
(* clock with spread spectrum.                                              *)
THEOREM ClocksAlwaysAsPromised == Spec => []ClockAsPromised
BY QuietInit, QuietStep, TreeInit, BeforeTreeNext, TreeNext, TreeImplies, PTL DEF Spec

-----------------------------------------------------------------------------
(* TestsOwnChip.  The windows of a capacity cap, whatever it is.            *)

\* cs_reg_to_ram_size: the sizes of the codes.
LEMMA RamSizes ==
  ASSUME NEW code \in SizeCodes
  PROVE /\ RamSize(code) \in {0, 256, 512, 768, 1024, 1536, 2048}
        /\ RamSize(code) = 0 => code = -1
<1>1. RamSize(-1) = 0 /\ RamSize(1) = 768 /\ RamSize(2) = 1536
  BY DEF RamSize
<1>2. RamSize(12) = 256 /\ RamSize(13) = 512 /\ RamSize(14) = 1024 /\ RamSize(15) = 2048
  BY DEF RamSize
<1>3. code \in {-1, 1, 2, 12, 13, 14, 15}
  BY DEF SizeCodes
<1> QED BY <1>1, <1>2, <1>3

\* Behind the test of main's init_ddr a chip has one to eight units.
LEMMA CapacityRange ==
  ASSUME machine \in Machines, get_ram_size # 0 PROVE Capacity \in 1..8
<1> DEFINE first == RamSize(machine.codes[1])
           second == RamSize(machine.codes[2])
           sizes == {0, 256, 512, 768, 1024, 1536, 2048}
<1>1. machine.codes \in SizeCodes \X SizeCodes /\ machine.cs_num \in 1..2
  BY MachinesAssumption
<1>2. machine.codes[1] \in SizeCodes /\ machine.codes[2] \in SizeCodes
  BY <1>1
<1>3. first \in sizes /\ second \in sizes
  BY <1>2, RamSizes
<1>4. machine.cs_num = 2 /\ machine.codes[1] = -1 => machine.codes[2] = -1
  BY MachinesAssumption
<1>5. RamSize(-1) = 0
  BY DEF RamSize
<1>6. machine.cs_num = 2 => first # 0
  <2> SUFFICES ASSUME machine.cs_num = 2, first = 0 PROVE FALSE
    OBVIOUS
  <2>1. machine.codes[1] = -1
    BY <1>2, RamSizes
  <2>2. second = 0
    BY <1>4, <1>5, <2>1
  <2> QED BY <2>2 DEF get_ram_size
<1> HIDE DEF first, second
<1>7. get_ram_size = first + second
  BY DEF get_ram_size, first, second
<1>8. Capacity = (IF machine.cs_num = 1 THEN Smaller(get_ram_size, 1024) ELSE first) \div 256
  BY DEF Capacity, first
<1> QED BY <1>1, <1>3, <1>6, <1>7, <1>8 DEF Smaller

\* Each window leads to its own chip.
LEMMA WindowsLeadHome ==
  ASSUME machine \in Machines, get_ram_size # 0,
         machine.cs_num > 1 => remap = Remap, NEW c \in DOMAIN Windows
  PROVE /\ Windows[c].size > 0
        /\ \A u \in Windows[c].base..(Windows[c].base + Windows[c].size - 1) :
             u \in 6..11 /\ ChipAt(u) = c
<1> DEFINE cap == Capacity
           first == [base |-> 6, size |-> Smaller(cap, 4)]
           second == IF cap < 4
                     THEN [base |-> 6 + cap, size |-> Smaller(cap, 4 + 2 - cap)]
                     ELSE [base |-> 10, size |-> Smaller(cap, 2)]
<1>1. cap \in 1..8
  BY CapacityRange
<1>2. Windows = IF machine.cs_num > 1 THEN <<first, second>> ELSE <<first>>
  BY DEF Windows
<1>3. c = 1 \/ (c = 2 /\ machine.cs_num > 1)
  BY <1>2
<1> HIDE DEF cap
<1>4. Windows[c].size > 0
  BY <1>1, <1>2, <1>3 DEF Smaller
<1> SUFFICES ASSUME NEW u \in Windows[c].base..(Windows[c].base + Windows[c].size - 1)
             PROVE u \in 6..11 /\ ChipAt(u) = c
  BY <1>4
<1>5. CASE c = 1
  <2>1. Windows[c] = first
    BY <1>2, <1>5
  <2>2. u \in 6..9 /\ u - 6 < cap
    BY <1>1, <2>1 DEF Smaller
  <2>3. (u - 6) \div cap = 0
    BY <1>1, <2>2
  <2> QED BY <1>5, <2>2, <2>3 DEF ChipAt, cap
<1>6. CASE c = 2 /\ machine.cs_num > 1
  <2>1. Windows[c] = second
    BY <1>2, <1>6
  <2>2. remap = IF cap < 4 THEN 4 ELSE cap
    BY <1>6 DEF Remap, cap
  <2>3. CASE cap \in 1..3
    <3>1. u \in (6 + cap)..11 /\ u - 6 < 2 * cap
      BY <2>1, <2>3 DEF Smaller
    <3>2. (u - 6) \div cap = 1
      BY <2>3, <3>1
    <3>3. (IF u < 10 THEN u - 6 ELSE remap + u - 10) = u - 6
      BY <2>2, <2>3, <3>1
    <3> QED BY <1>6, <2>3, <3>1, <3>2, <3>3 DEF ChipAt, cap
  <2>4. CASE cap >= 4
    <3>1. u \in 10..11
      BY <1>1, <2>1, <2>4 DEF Smaller
    <3>2. (cap + u - 10) \div cap = 1
      BY <1>1, <2>4, <3>1
    <3>3. (IF u < 10 THEN u - 6 ELSE remap + u - 10) = cap + u - 10
      BY <1>1, <2>2, <2>4, <3>1
    <3> QED BY <1>6, <3>1, <3>2, <3>3 DEF ChipAt, cap
  <2> QED BY <1>1, <2>3, <2>4
<1> QED BY <1>3, <1>5, <1>6

\* cs_wins is set together with the remapping, when there is a chip, and only a
\* reset changes them.
WinInv == /\ machine \in Machines
          /\ \/ wins = <<>>
             \/ /\ get_ram_size # 0 /\ wins = Windows
                /\ machine.cs_num > 1 => remap = Remap

\* The invariant implies the property.
LEMMA WinImplies == WinInv => TestsOwnChip
<1> SUFFICES ASSUME WinInv, NEW c \in DOMAIN wins
             PROVE /\ wins[c].size > 0
                   /\ \A u \in wins[c].base..(wins[c].base + wins[c].size - 1) :
                        u \in 6..11 /\ ChipAt(u) = c
  BY DEF TestsOwnChip
<1>1. CASE wins = <<>>
  BY <1>1
<1>2. CASE /\ get_ram_size # 0 /\ wins = Windows
           /\ machine.cs_num > 1 => remap = Remap
  <2>1. c \in DOMAIN Windows
    BY <1>2
  <2>2. /\ Windows[c].size > 0
        /\ \A u \in Windows[c].base..(Windows[c].base + Windows[c].size - 1) :
             u \in 6..11 /\ ChipAt(u) = c
    BY <1>2, <2>1, WindowsLeadHome DEF WinInv
  <2> QED BY <1>2, <2>2
<1> QED BY <1>1, <1>2 DEF WinInv

\* A step that leaves the windows alone.
LEMMA WinStutter ==
  ASSUME WinInv, machine' = machine, wins' = wins, remap' = remap PROVE WinInv'
BY DEF WinInv, Windows, Remap, Capacity, get_ram_size

\* Every step keeps it.
LEMMA WinStep == WinInv /\ [Next]_vars => WinInv'
<1> SUFFICES ASSUME WinInv, [Next]_vars PROVE WinInv'
  OBVIOUS
<1>1. CASE ddr_main
  <2>1. /\ machine' = machine /\ get_ram_size # 0 /\ wins' = Windows
        /\ machine.cs_num > 1 => remap' = Remap
    BY <1>1 DEF ddr_main
  <2>2. Windows' = Windows /\ Remap' = Remap /\ get_ram_size' = get_ram_size
    BY <2>1 DEF Windows, Remap, Capacity, get_ram_size
  <2> QED BY <2>1, <2>2 DEF WinInv
<1>2. CASE Reset \/ PowerCycle
  BY <1>2 DEF Reset, PowerCycle, WinInv
<1>3. CASE NoChip \/ self_refresh_test \/ self_refresh_entry \/ clock_init
  BY <1>3, WinStutter DEF NoChip, self_refresh_test, self_refresh_entry, clock_init
<1>4. CASE phyinit_sequence_sync2 \/ self_refresh_exit \/ WarmBoot \/ Capture
  BY <1>4, WinStutter DEF phyinit_sequence_sync2, self_refresh_exit, WarmBoot, Capture
<1>5. CASE GateTraining \/ ReadVrefTraining \/ WriteVrefTraining \/ DllTuning
  BY <1>5, WinStutter DEF GateTraining, ReadVrefTraining, WriteVrefTraining, DllTuning
<1>6. CASE Store \/ Suspend \/ UNCHANGED vars
  BY <1>6, WinStutter DEF Store, Suspend, vars, dvars
<1> QED BY <1>1, <1>2, <1>3, <1>4, <1>5, <1>6 DEF Next

(* Whatever the chip-select registers say, one chip or two: what ddr_main   *)
(* gives to a chip select's tests lies on that chip and inside the windows. *)
THEOREM EveryChipTestsItself == Spec => []TestsOwnChip
<1>1. Init => WinInv
  BY DEF Init, WinInv
<1> QED BY <1>1, WinStep, WinImplies, PTL DEF Spec

-----------------------------------------------------------------------------
(* The training.  What it finds goes to the PHY at once and to the result,  *)
(* word by word, as long as nothing has failed.                             *)
Trainings == {"gate", "vref_read", "vref_write", "dll", "retest", "store"}
ColdEnd == pc = "done" /\ ~bit
Shapes == /\ DOMAIN reg = {"phy15", "cfg4", "wlrl", "rl", "dll"} /\ DOMAIN reg.rl = 1..4
          /\ DOMAIN sram = {"u", "dll"} /\ DOMAIN sram.u = 0..4
ResumePlaces == (pc = "restore" => bit) /\ (pc = "capture" => cs = 1)

\* What a warm boot restores of registers r out of the result s.
Agree(s, r) == /\ s.dll = r.dll
               /\ machine.type = 4 => s.u[0] = r.phy15 /\ s.u[1] = r.cfg4
               /\ machine.type = 3 => \A i \in 2..4 : s.u[i] = r.rl[i]

GatesKept == machine.type = 3 /\ ret = 0 /\ pc \in Trainings =>
               \A i \in 2..4 : sram.u[i] = reg.rl[i]
ReadKept == machine.type = 4 /\ ret = 0 /\ pc \in {"vref_write", "dll", "retest", "store"} =>
              sram.u[0] = reg.phy15
WriteKept == machine.type = 4 /\ ret = 0 /\ pc \in {"dll", "retest", "store"} =>
               sram.u[1] = reg.cfg4
LinesKept == ret = 0 /\ pc \in {"retest", "store"} => sram.dll = reg.dll
\* The result is in DRAM behind a cold boot, and while the AP counts on it as
\* long as its chip keeps it.
ResultKept == trained.ok /\ (ColdEnd \/ (bit /\ 1 \in kept)) => Agree(dram, trained.reg)
ColdResult == ColdEnd => trained = [reg |-> reg, ok |-> ret = 0]

\* The gates of the chips before cs are open, those of all behind the loop.
GatesOpen == machine.type = 3 /\ ret = 0 /\ (pc \in Trainings \/ ColdEnd) =>
               \A c \in Chips : (pc = "gate" => c < cs) =>
                 reg.rl[2 * c][2] \in machine.board.gate[c]
Centred == ret = 0 /\ (pc \in {"retest", "store"} \/ ColdEnd) =>
             /\ DllFound(machine.board, Vref("phy15"), Vref("cfg4"))
             /\ reg.dll = Medians(machine.board, Vref("phy15"), Vref("cfg4"))

\* The read voltage has the best range of all.
BestRead(board, wr, rd) ==
  rd \in 1..MaxVref /\ \A v \in 1..MaxVref : dll_tuning(board, v, wr) <= dll_tuning(board, rd, wr)

\* The places up to the write voltages' scan have the image's write voltage.
Elsewhere == {"main", "no_chip", "test", "enter", "clock", "exit"}
ImageVref == pc \in Elsewhere \cup {"capture", "gate", "vref_read", "vref_write"} =>
               Vref("cfg4") = TimVref
ReadChosen == machine.type = 4 /\ ret = 0
                /\ (pc \in {"vref_write", "dll", "retest", "store"} \/ ColdEnd) =>
                BestRead(machine.board, TimVref, Vref("phy15"))
WriteChosen == machine.type = 4 /\ ret = 0 /\ (pc \in {"dll", "retest", "store"} \/ ColdEnd) =>
                 LET usable == Usable(machine.board, Vref("phy15"))
                 IN Convex(usable) => Vref("cfg4") = Medium(usable, 2)
VrefsChosen == ImageVref /\ ReadChosen /\ WriteChosen

TrainInv == /\ Shapes /\ ResumePlaces /\ GatesKept /\ ReadKept /\ WriteKept /\ LinesKept
            /\ ResultKept /\ ColdResult /\ ResumeAsTrained /\ GatesOpen /\ Centred
            /\ VrefsChosen

\* A set of natural numbers has a least element.
LEMMA LeastIn ==
  ASSUME NEW S, S \subseteq Nat, S # {}
  PROVE Least(S) \in S /\ \A j \in S : Least(S) <= j
<1> DEFINE R == OpToRel(<, Nat)
<1>1. IsWellFoundedOn(R, Nat)
  BY NatLessThanWellFounded
<1>2. \A x, y \in Nat : x < y => <<x, y>> \in R
  BY DEF OpToRel
<1> HIDE DEF R
<1>3. PICK i \in S : \A y \in S : ~(<<y, i>> \in R)
  BY <1>1, WFMin
<1>4. \A j \in S : i <= j
  <2> SUFFICES ASSUME NEW j \in S PROVE i <= j
    OBVIOUS
  <2>1. i \in Nat /\ j \in Nat
    OBVIOUS
  <2>2. ~(j < i)
    BY <1>2, <1>3, <2>1
  <2> QED BY <2>1, <2>2
<1> QED BY <1>4 DEF Least

\* A bounded one has a greatest: n less it is the least of the differences.
LEMMA GreatestIn ==
  ASSUME NEW n \in Nat, NEW S, S \subseteq 0..n, S # {}
  PROVE Greatest(S) \in S /\ \A j \in S : Greatest(S) >= j
<1> DEFINE T == {n - j : j \in S}
<1>1. \A j \in S : j \in 0..n /\ n - j \in Nat
  OBVIOUS
<1>2. PICK s \in S : TRUE
  OBVIOUS
<1>3. T \subseteq Nat /\ n - s \in T
  BY <1>1
<1>4. Least(T) \in T /\ \A j \in T : Least(T) <= j
  BY <1>3, LeastIn
<1>5. PICK i \in S : Least(T) = n - i
  BY <1>4
<1>6. \A j \in S : i >= j
  <2> SUFFICES ASSUME NEW j \in S PROVE i >= j
    OBVIOUS
  <2>1. n - i <= n - j
    BY <1>4, <1>5
  <2>2. i \in 0..n /\ j \in 0..n
    OBVIOUS
  <2> QED BY <2>1, <2>2
<1> QED BY <1>6 DEF Greatest

\* short_dll_tune's middle of a window without holes lies in the window.
LEMMA MediumInWindow ==
  ASSUME NEW P, P \subseteq Phases, P # {}, Convex(P)
  PROVE Medium(P, 2) \in P
<1>1. PhaseEnd \in Nat /\ P \subseteq 0..PhaseEnd
  BY RangesAssumption DEF Phases
<1>2. Greatest(P) \in P /\ \A j \in P : Greatest(P) >= j
  BY <1>1, GreatestIn
<1>3. P \subseteq Nat
  BY <1>1
<1>4. Least(P) \in P /\ \A j \in P : Least(P) <= j
  BY <1>3, LeastIn
<1>5. Least(P) \in Nat /\ Greatest(P) \in Nat /\ Least(P) <= Greatest(P)
  BY <1>2, <1>3, <1>4
<1>6. Medium(P, 2) \in Least(P)..Greatest(P)
  BY <1>5 DEF Medium, Span
<1>7. P = Least(P)..Greatest(P)
  BY DEF Convex
<1> QED BY <1>6, <1>7

\* qs_gating stops at a delay at which the gate opens, if there is one: the
\* first tap of the first cycle.
LEMMA GatingOpens ==
  ASSUME NEW board, NEW c, board.gate[c] \subseteq Delays, board.gate[c] # {}
  PROVE qs_gating(board, c) \in board.gate[c]
<1> DEFINE open == board.gate[c]
           cycles == {d[1] : d \in open}
           first == Least(cycles)
           taps == {d[2] : d \in {e \in open : e[1] = first}}
<1>1. \A d \in open : d[1] \in Nat /\ d[2] \in Nat /\ d = <<d[1], d[2]>>
  BY RangesAssumption DEF Delays
<1>2. PICK d1 \in open : TRUE
  OBVIOUS
<1>3. cycles \subseteq Nat /\ d1[1] \in cycles
  BY <1>1
<1>4. first \in cycles /\ \A i \in cycles : first <= i
  BY <1>3, LeastIn
<1>5. PICK d2 \in open : d2[1] = first
  BY <1>4
<1>6. taps \subseteq Nat /\ d2[2] \in taps
  BY <1>1, <1>5
<1>7. Least(taps) \in taps /\ \A i \in taps : Least(taps) <= i
  BY <1>6, LeastIn
<1>8. PICK d \in open : d[1] = first /\ d[2] = Least(taps)
  BY <1>7
<1>9. \A e \in open \ {d} : Before(d, e)
  <2> SUFFICES ASSUME NEW e \in open, e # d PROVE Before(d, e)
    OBVIOUS
  <2>1. d[1] <= e[1] /\ d[1] \in Nat /\ e[1] \in Nat /\ d[2] \in Nat /\ e[2] \in Nat
    BY <1>1, <1>4, <1>8
  <2>2. e[1] = d[1] => e[2] \in taps
    BY <1>8
  <2>3. e[1] = d[1] => d[2] <= e[2] /\ e[2] # d[2]
    BY <1>1, <1>7, <1>8, <2>2
  <2> QED BY <2>1, <2>3 DEF Before
<1> HIDE DEF cycles, first, taps
<1> QED BY <1>9 DEF qs_gating

\* Where vref_write_training stands behind voltage v, when exactly those of
\* lo..hi work: before the window, in it, or behind it.
Window(lo, hi) == [min |-> lo, max |-> hi, size |-> hi - lo + 1, on |-> TRUE]
ScanAt(v, lo, hi) ==
  IF v < lo THEN [prev |-> NoWindow, win |-> NoWindow]
  ELSE IF v <= hi /\ ~(v = MaxVref /\ lo < hi) THEN [prev |-> NoWindow, win |-> Window(lo, v)]
  ELSE [prev |-> Window(lo, hi), win |-> NoWindow]
IsWindow(lo, hi) ==
  lo \in Nat /\ hi \in 0..MaxVref /\ (lo <= hi \/ lo = MaxVref + 1)

\* One turn of its loop.
LEMMA ScanStep ==
  ASSUME NEW lo, NEW hi, IsWindow(lo, hi), NEW v \in 0..MaxVref
  PROVE ScanAt(v, lo, hi) = WriteTurn(ScanAt(v - 1, lo, hi), v, v \in lo..hi)
<1> USE DEF IsWindow, ScanAt, WriteTurn
<1>0. MaxVref \in Nat \ {0}
  BY RangesAssumption
<1> DEFINE none == [prev |-> NoWindow, win |-> NoWindow]
<1>1. CASE v < lo
  <2>1. ScanAt(v - 1, lo, hi) = none /\ ScanAt(v, lo, hi) = none /\ v \notin lo..hi
    BY <1>0, <1>1
  <2>2. CloseWindow(none) = none
    BY DEF CloseWindow, NoWindow
  <2> QED BY <2>1, <2>2
<1>2. CASE v = lo /\ lo <= hi
  <2>2. ScanAt(v - 1, lo, hi) = none /\ v \in lo..hi
    BY <1>0, <1>2
  <2>3. ScanAt(v, lo, hi) = [prev |-> NoWindow, win |-> Window(lo, v)]
    BY <1>0, <1>2
  <2>4. none.win = NoWindow /\ NoWindow.min = 0 /\ NoWindow.on = FALSE
    BY DEF NoWindow
  <2>5. [none EXCEPT !.win = Widen(@, v)] = [prev |-> NoWindow, win |-> Widen(NoWindow, v)]
    OBVIOUS
  <2>1. Widen(NoWindow, v) = Window(lo, v)
    BY <1>2 DEF Widen, NoWindow, Window
  <2> QED BY <2>1, <2>2, <2>3, <2>4, <2>5
<1>3. CASE lo < v /\ v <= hi
  <2>1. Widen(Window(lo, v - 1), v) = Window(lo, v)
    BY <1>3 DEF Widen, Window
  <2>2. ScanAt(v - 1, lo, hi) = [prev |-> NoWindow, win |-> Window(lo, v - 1)]
    BY <1>0, <1>3
  <2>3. CloseWindow([prev |-> NoWindow, win |-> Window(lo, v)])
        = [prev |-> Window(lo, v), win |-> NoWindow]
    BY DEF CloseWindow, NoWindow
  <2>4. Window(lo, v - 1).on
    BY DEF Window
  <2> QED BY <1>0, <1>3, <2>1, <2>2, <2>3, <2>4
<1>4. CASE lo <= hi /\ v = hi + 1
  <2>1. ScanAt(v - 1, lo, hi) = [prev |-> NoWindow, win |-> Window(lo, hi)]
    BY <1>0, <1>4
  <2>2. CloseWindow([prev |-> NoWindow, win |-> Window(lo, hi)])
        = [prev |-> Window(lo, hi), win |-> NoWindow]
    BY DEF CloseWindow, NoWindow
  <2> QED BY <1>0, <1>4, <2>1, <2>2
<1>5. CASE lo <= hi /\ v > hi + 1
  <2>1. ScanAt(v - 1, lo, hi) = [prev |-> Window(lo, hi), win |-> NoWindow]
    BY <1>0, <1>5
  <2>2. CloseWindow([prev |-> Window(lo, hi), win |-> NoWindow])
        = [prev |-> Window(lo, hi), win |-> NoWindow]
    BY <1>5 DEF CloseWindow, NoWindow, Window
  <2> QED BY <1>0, <1>5, <2>1, <2>2
<1> QED BY <1>0, <1>1, <1>2, <1>3, <1>4, <1>5

\* All of them.
LEMMA ScanEnd ==
  ASSUME NEW board, NEW rd, NEW lo, NEW hi, IsWindow(lo, hi), Usable(board, rd) = lo..hi
  PROVE WriteScan(board, rd) = ScanAt(MaxVref, lo, hi).prev
<1> DEFINE turn(f) == [v \in -1..MaxVref |->
                         IF v = -1 THEN [prev |-> NoWindow, win |-> NoWindow]
                         ELSE WriteTurn(f[v - 1], v, v \in Usable(board, rd))]
           scan == CHOOSE f : f = turn(f)
           here == [v \in -1..MaxVref |-> ScanAt(v, lo, hi)]
<1>0. MaxVref \in Nat \ {0} /\ lo \in Nat
  BY RangesAssumption DEF IsWindow
<1>1. here = turn(here)
  <2>1. ASSUME NEW v \in -1..MaxVref PROVE here[v] = turn(here)[v]
    <3>1. CASE v = -1
      BY <1>0, <3>1 DEF ScanAt
    <3>2. CASE v # -1
      <4>1. v \in 0..MaxVref /\ v - 1 \in -1..MaxVref
        BY <1>0, <3>2
      <4> QED BY <3>2, <4>1, ScanStep
    <3> QED BY <3>1, <3>2
  <2> QED BY <2>1
<1>2. scan = turn(scan)
  BY <1>1
<1> HIDE DEF scan
<1> DEFINE apart == {v \in 0..MaxVref : scan[v] # ScanAt(v, lo, hi)}
<1>3. apart = {}
  <2> SUFFICES ASSUME apart # {} PROVE FALSE
    OBVIOUS
  <2>1. Least(apart) \in apart /\ \A j \in apart : Least(apart) <= j
    BY LeastIn
  <2> DEFINE v == Least(apart)
  <2> HIDE DEF v
  <2>2. v \in 0..MaxVref /\ v - 1 \in -1..MaxVref /\ v - 1 \notin apart
    BY <1>0, <2>1 DEF v
  <2>3. scan[v - 1] = ScanAt(v - 1, lo, hi)
    <3>1. CASE v = 0
      BY <1>0, <1>2, <2>2, <3>1 DEF ScanAt
    <3>2. CASE v # 0
      BY <2>2, <3>2
    <3> QED BY <3>1, <3>2
  <2>4. scan[v] = WriteTurn(scan[v - 1], v, v \in lo..hi)
    BY <1>2, <2>2
  <2>5. scan[v] = ScanAt(v, lo, hi)
    BY <2>2, <2>3, <2>4, ScanStep
  <2> QED BY <2>1, <2>5 DEF v
<1>4. scan[MaxVref] = ScanAt(MaxVref, lo, hi)
  BY <1>0, <1>3
<1>5. WriteScan(board, rd) = scan[MaxVref].prev
  BY DEF WriteScan, scan
<1> QED BY <1>4, <1>5

\* A write voltage that is found is in the middle of those that work, when
\* these are one window.
LEMMA WriteMiddle ==
  ASSUME NEW board, NEW rd, Convex(Usable(board, rd)), vref_write_training(board, rd) # 0
  PROVE vref_write_training(board, rd) = Medium(Usable(board, rd), 2)
<1> DEFINE U == Usable(board, rd)
<1>0. MaxVref \in Nat /\ U \subseteq 0..MaxVref
  BY RangesAssumption DEF Usable, Vrefs
<1> HIDE DEF U
<1>1. CASE U = {}
  <2>1. IsWindow(MaxVref + 1, MaxVref) /\ U = (MaxVref + 1)..MaxVref
    BY <1>0, <1>1 DEF IsWindow
  <2>2. WriteScan(board, rd) = NoWindow
    BY <1>0, <2>1, ScanEnd DEF U, ScanAt
  <2> QED BY <2>2 DEF vref_write_training, NoWindow
<1>2. CASE U # {}
  <2>1. Greatest(U) \in U /\ \A j \in U : Greatest(U) >= j
    BY <1>0, <1>2, GreatestIn
  <2>2. Least(U) \in U /\ \A j \in U : Least(U) <= j
    <3>1. U \subseteq Nat
      BY <1>0
    <3> QED BY <1>2, <3>1, LeastIn
  <2> DEFINE lo == Least(U)
             hi == Greatest(U)
  <2>3. U = lo..hi
    BY <1>2 DEF U, Convex
  <2>4. Medium(U, 2) = lo + (hi - lo) \div 2
    BY DEF Medium, Span
  <2> HIDE DEF lo, hi
  <2>5. lo \in 0..MaxVref /\ hi \in 0..MaxVref /\ lo <= hi
    BY <1>0, <2>1, <2>2 DEF lo, hi
  <2>6. WriteScan(board, rd) = ScanAt(MaxVref, lo, hi).prev
    BY <2>3, <2>5, ScanEnd DEF IsWindow, U
  <2>7. CASE lo < hi
    <3>1. WriteScan(board, rd) = Window(lo, hi)
      BY <1>0, <2>5, <2>6, <2>7 DEF ScanAt
    <3> QED BY <2>4, <2>5, <2>7, <3>1 DEF vref_write_training, Window, U
  <2>8. CASE lo = hi
    <3>1. WriteScan(board, rd).min = WriteScan(board, rd).max
      BY <1>0, <2>5, <2>6, <2>8 DEF ScanAt, Window, NoWindow
    <3> QED BY <3>1 DEF vref_write_training
  <2> QED BY <2>5, <2>7, <2>8
<1> QED BY <1>1, <1>2

\* A read voltage that is found is the best.
LEMMA ReadBest ==
  ASSUME NEW board, NEW wr, vref_read_training(board, wr) >= 0
  PROVE BestRead(board, wr, vref_read_training(board, wr))
<1> DEFINE best == {v \in 1..MaxVref :
                      /\ dll_tuning(board, v, wr) > 0
                      /\ \A u \in 1..MaxVref : dll_tuning(board, u, wr) <= dll_tuning(board, v, wr)}
<1>1. vref_read_training(board, wr) = IF best = {} THEN -1 ELSE Greatest(best)
  BY DEF vref_read_training
<1>2. best # {} /\ vref_read_training(board, wr) = Greatest(best)
  BY <1>1
<1>3. MaxVref \in Nat /\ best \subseteq 0..MaxVref
  BY RangesAssumption
<1>4. Greatest(best) \in best
  BY <1>2, <1>3, GreatestIn
<1> QED BY <1>2, <1>4 DEF BestRead

\* What MachinesAssumption says of a board.
LEMMA BoardShape ==
  ASSUME NEW m \in Machines
  PROVE /\ m.type \in {3, 4}
        /\ \A s \in Searches : m.board.eye[s] \subseteq Phases
        /\ \A c \in 1..m.cs_num : m.board.gate[c] \subseteq Delays
<1>1. m.type \in {3, 4} /\ m.cs_num \in 1..2
  BY MachinesAssumption
<1>2. /\ m.board.eye \in [Searches -> SUBSET Phases]
      /\ m.board.gate \in [1..2 -> SUBSET Delays]
  BY MachinesAssumption
<1> QED BY <1>1, <1>2

\* The invariant holds before the first boot.
LEMMA TrainInit == Init => TrainInv
<1> SUFFICES ASSUME Init PROVE TrainInv
  OBVIOUS
<1>1. /\ pc = "main" /\ bit = FALSE /\ reg = Tim /\ sram = NoResult
      /\ trained = Untrained
  BY DEF Init
<1>2. Shapes /\ ~trained.ok /\ Vref("cfg4") = TimVref
  BY <1>1 DEF Shapes, Tim, NoResult, Untrained, Vref
<1>3. VrefsChosen
  BY <1>1, <1>2 DEF VrefsChosen, ImageVref, ReadChosen, WriteChosen, ColdEnd
<1> QED BY <1>1, <1>2, <1>3 DEF TrainInv, ResumePlaces, GatesKept, ReadKept, WriteKept,
           LinesKept, Trainings, ResultKept, ColdResult, ColdEnd, ResumeAsTrained, GatesOpen,
           Centred

\* A step to a place outside the training and the two ends.
LEMMA TrainElsewhere ==
  ASSUME TrainInv, Shapes', pc' \in Elsewhere, UNCHANGED <<machine, trained, bit>>,
         (kept' = kept /\ dram' = dram) \/ (kept' \subseteq kept /\ 1 \notin kept')
           \/ (kept' \subseteq kept /\ dram' = dram),
         reg' = Tim \/ (pc \in Elsewhere /\ reg' = reg)
  PROVE TrainInv'
<1>1. ResultKept'
  BY DEF TrainInv, ResultKept, Agree, ColdEnd, Elsewhere
<1>2. Vref("cfg4")' = TimVref
  BY DEF TrainInv, VrefsChosen, ImageVref, Vref, Tim
<1>3. VrefsChosen'
  BY <1>2 DEF VrefsChosen, ImageVref, ReadChosen, WriteChosen, ColdEnd, Elsewhere
<1> QED BY <1>1, <1>3 DEF TrainInv, ResumePlaces, GatesKept, ReadKept, WriteKept, LinesKept,
           Trainings, ColdResult, ColdEnd, ResumeAsTrained, GatesOpen, Centred, Elsewhere

\* A step that only moves the boot, or does not.
LEMMA TrainMove ==
  ASSUME TrainInv, UNCHANGED <<machine, bit, reg, sram, dram, trained, ret>>,
         kept' = kept \/ (pc' # "done" /\ kept' \subseteq kept),
         \/ pc' = pc /\ pc \notin {"gate", "capture"}
         \/ pc' = pc /\ cs' = cs
         \/ pc = "retest" /\ pc' = "store"
         \/ pc = "exit" /\ pc' = "restore" /\ bit
         \/ pc = "exit" /\ pc' = "capture" /\ cs' = 1
  PROVE TrainInv'
<1>1. Shapes' /\ ResultKept' /\ ResumePlaces'
  BY DEF TrainInv, Shapes, ResultKept, Agree, ResumePlaces, ColdEnd
<1>2. GatesKept' /\ ReadKept' /\ WriteKept' /\ LinesKept'
  BY DEF TrainInv, GatesKept, ReadKept, WriteKept, LinesKept, Trainings
<1>3. ColdResult' /\ ResumeAsTrained'
  BY DEF TrainInv, ColdResult, ColdEnd, ResumeAsTrained
<1>4. GatesOpen'
  BY DEF TrainInv, GatesOpen, Trainings, ColdEnd, Chips
<1>5. Centred'
  BY DEF TrainInv, Centred, ColdEnd, Vref
<1>6. VrefsChosen'
  BY DEF TrainInv, VrefsChosen, ImageVref, ReadChosen, WriteChosen, ColdEnd, Vref, Elsewhere
<1> QED BY <1>1, <1>2, <1>3, <1>4, <1>5, <1>6 DEF TrainInv

\* The settings are captured.
LEMMA TrainCapture ==
  ASSUME TrainInv, Places, Capture PROVE TrainInv'
<1> USE DEF TrainInv
<1>1. /\ pc = "capture" /\ cs = 1 /\ cs' = cs
      /\ pc' = IF machine.type = 3 THEN "gate" ELSE "vref_read"
      /\ sram' = [sram EXCEPT !.u = Ddr3Words(reg, reg.wlrl)]
      /\ UNCHANGED <<machine, bit, ret, reg, dram, trained, kept>>
  BY DEF Capture, ResumePlaces
<1>2. Shapes' /\ \A i \in 2..4 : sram'.u[i] = reg'.rl[i]
  BY <1>1 DEF Shapes, Ddr3Words
<1>3. ResultKept' /\ GatesKept' /\ VrefsChosen'
  BY <1>1, <1>2 DEF ResultKept, Agree, GatesKept, ColdEnd, VrefsChosen, ImageVref, ReadChosen,
                    WriteChosen, Vref
<1>4. GatesOpen'
  <2>1. \A c \in Chips : ~(c < cs)
    BY <1>1 DEF Chips
  <2> QED BY <1>1, <2>1 DEF GatesOpen, Chips, Trainings, ColdEnd
<1> QED BY <1>1, <1>2, <1>3, <1>4 DEF ResumePlaces, ReadKept, WriteKept, LinesKept, ColdResult,
           ColdEnd, ResumeAsTrained, Centred

\* One chip's gate.
LEMMA TrainGate ==
  ASSUME TrainInv, Places, GateTraining PROVE TrainInv'
<1> USE DEF TrainInv
<1> DEFINE delay == <<"rl", qs_gating(machine.board, cs)>>
           rl == [i \in 1..4 |-> IF i \in {2 * cs - 1, 2 * cs} THEN delay ELSE reg.rl[i]]
           on == machine.board.gate[cs] # {}
<1>1. /\ pc = "gate" /\ NextChip("vref_read")
      /\ UNCHANGED <<machine, bit, dram, trained, kept>>
  BY DEF GateTraining
<1>2. reg' = [reg EXCEPT !.rl = rl, !.wlrl = <<"wlrl", "off">>]
  BY DEF GateTraining, Shapes
<1>3. IF on THEN /\ sram' = [sram EXCEPT !.u = Ddr3Words(reg', <<"wlrl", "on">>)]
                 /\ ret' = ret
            ELSE ret' = -3 /\ sram' = sram
  BY DEF GateTraining
<1>4. machine.cs_num \in 1..2 /\ cs \in Chips
  BY ChipCount DEF Places
<1>5. /\ cs' \in Chips'
      /\ \/ cs < machine.cs_num /\ cs' = cs + 1 /\ pc' = pc
         \/ cs = machine.cs_num /\ cs' = 1 /\ pc' = "vref_read"
  BY <1>1, <1>4, NextChipStep DEF Places
<1>6. reg'.rl = rl /\ DOMAIN reg' = DOMAIN reg
  BY <1>2 DEF Shapes
<1>7. Shapes'
  BY <1>2, <1>3, <1>6 DEF Shapes, Ddr3Words
<1>8. ret' = 0 => on /\ ret = 0 /\ \A i \in 2..4 : sram'.u[i] = reg'.rl[i]
  BY <1>3 DEF Shapes, Ddr3Words
<1>9. GatesKept' /\ ResultKept' /\ VrefsChosen'
  <2>1. Vref("cfg4")' = Vref("cfg4")
    BY <1>2 DEF Vref, Shapes
  <2> QED BY <1>1, <1>5, <1>8, <2>1 DEF GatesKept, ResultKept, Agree, ColdEnd, VrefsChosen,
             ImageVref, ReadChosen, WriteChosen
<1>10. GatesOpen'
  <2> SUFFICES ASSUME machine.type = 3, ret' = 0, NEW c \in Chips,
                      pc' = "gate" => c < cs'
               PROVE reg'.rl[2 * c][2] \in machine.board.gate[c]
    BY <1>1 DEF GatesOpen, Chips
  <2>1. c \in 1..2 /\ cs \in 1..2 /\ c <= cs
    BY <1>1, <1>4, <1>5 DEF Chips
  <2>2. CASE c = cs
    <3>1. rl[2 * c] = delay
      BY <2>1, <2>2
    <3>2. machine.board.gate[c] \subseteq Delays
      BY BoardShape DEF Places, Chips
    <3>3. delay[2] \in machine.board.gate[c]
      BY <1>8, <2>2, <3>2, GatingOpens
    <3> QED BY <1>6, <3>1, <3>3
  <2>3. CASE c # cs
    <3>1. c < cs /\ rl[2 * c] = reg.rl[2 * c]
      BY <2>1, <2>3
    <3>2. reg.rl[2 * c][2] \in machine.board.gate[c]
      BY <1>1, <1>8, <3>1 DEF GatesOpen, Trainings
    <3> QED BY <1>6, <3>1, <3>2
  <2> QED BY <2>2, <2>3
<1> QED BY <1>1, <1>5, <1>7, <1>9, <1>10 DEF ResumePlaces, ReadKept, WriteKept, LinesKept,
           ColdResult, ColdEnd, ResumeAsTrained, Centred

\* The two voltages.
LEMMA TrainVrefs ==
  ASSUME TrainInv, ReadVrefTraining \/ WriteVrefTraining PROVE TrainInv'
<1> USE DEF TrainInv
<1>1. /\ \/ pc = "vref_read" /\ pc' = "vref_write"
         \/ pc = "vref_write" /\ pc' = "dll"
      /\ UNCHANGED <<machine, bit, cs, dram, trained, kept>>
      /\ ret' = ret \/ ret' = -3
  BY DEF ReadVrefTraining, WriteVrefTraining
<1>2. Shapes' /\ reg'.rl = reg.rl /\ \A i \in 2..4 : sram'.u[i] = sram.u[i]
  BY DEF ReadVrefTraining, WriteVrefTraining, Shapes
<1>3. ResultKept' /\ GatesKept'
  BY <1>1, <1>2 DEF ResultKept, Agree, GatesKept, Trainings, ColdEnd
<1>4. GatesOpen'
  BY <1>1, <1>2 DEF GatesOpen, Chips, Trainings
<1>5. CASE ReadVrefTraining
  <2>1. pc' = "vref_write"
    BY <1>5 DEF ReadVrefTraining
  <2>2. machine.type = 4 /\ ret' = 0 => sram'.u[0] = reg'.phy15
    BY <1>5 DEF ReadVrefTraining, Shapes
  <2>3. ReadKept'
    BY <1>1, <2>2 DEF ReadKept
  <2>4. Vref("cfg4")' = TimVref
    BY <1>5 DEF ReadVrefTraining, VrefsChosen, ImageVref, Vref, Shapes
  <2>5. machine.type = 4 /\ ret' = 0 => BestRead(machine.board, TimVref, Vref("phy15")')
    <3> SUFFICES ASSUME machine.type = 4, ret' = 0
                 PROVE BestRead(machine.board, TimVref, Vref("phy15")')
      OBVIOUS
    <3> DEFINE best == vref_read_training(machine.board, Vref("cfg4"))
    <3>1. best >= 0 /\ Vref("phy15")' = best
      BY <1>5 DEF ReadVrefTraining, Vref, Shapes
    <3>2. Vref("cfg4") = TimVref
      BY <1>5 DEF ReadVrefTraining, VrefsChosen, ImageVref
    <3> QED BY <3>1, <3>2, ReadBest
  <2>6. VrefsChosen'
    BY <1>1, <2>1, <2>4, <2>5 DEF VrefsChosen, ImageVref, ReadChosen, WriteChosen, ColdEnd
  <2> QED BY <1>1, <1>2, <1>3, <1>4, <2>1, <2>3, <2>6 DEF ResumePlaces, WriteKept, LinesKept,
             ColdResult, ColdEnd, ResumeAsTrained, Centred
<1>6. CASE WriteVrefTraining
  <2>1. pc = "vref_write" /\ pc' = "dll"
    BY <1>6 DEF WriteVrefTraining
  <2>2. machine.type = 4 /\ ret' = 0 =>
          /\ ret = 0 /\ sram'.u[1] = reg'.cfg4
          /\ sram'.u[0] = sram.u[0] /\ reg'.phy15 = reg.phy15
    BY <1>6 DEF WriteVrefTraining, Shapes
  <2>3. ReadKept' /\ WriteKept'
    BY <1>1, <2>1, <2>2 DEF ReadKept, WriteKept
  <2>4. ASSUME machine.type = 4, ret' = 0, Convex(Usable(machine.board, Vref("phy15")))
        PROVE Vref("cfg4")' = Medium(Usable(machine.board, Vref("phy15")), 2)
    <3> DEFINE found == vref_write_training(machine.board, Vref("phy15"))
    <3>1. found # 0 /\ Vref("cfg4")' = found
      BY <1>6, <2>4 DEF WriteVrefTraining, Vref, Shapes
    <3> QED BY <2>4, <3>1, WriteMiddle
  <2>5. machine.type = 4 /\ ret' = 0 => ret = 0 /\ Vref("phy15")' = Vref("phy15")
    BY <2>2 DEF Vref
  <2>6. VrefsChosen'
    BY <1>1, <2>1, <2>4, <2>5 DEF VrefsChosen, ImageVref, ReadChosen, WriteChosen, ColdEnd,
                                  Elsewhere
  <2> QED BY <1>1, <1>2, <1>3, <1>4, <2>1, <2>3, <2>6 DEF ResumePlaces, LinesKept,
             ColdResult, ColdEnd, ResumeAsTrained, Centred
<1> QED BY <1>5, <1>6

\* The delay lines: the medians go to the PHY and, when they passed, to the result.
LEMMA TrainDll ==
  ASSUME TrainInv, DllTuning PROVE TrainInv'
<1> USE DEF TrainInv
<1> DEFINE rd == Vref("phy15")
           wr == Vref("cfg4")
           found == DllFound(machine.board, rd, wr)
           medians == IF found THEN Medians(machine.board, rd, wr) ELSE reg.dll
           passed == dll_tuning(machine.board, rd, wr) > 0
<1>1. /\ pc = "dll" /\ pc' = "retest"
      /\ reg' = [reg EXCEPT !.dll = medians]
      /\ sram' = [sram EXCEPT !.dll = IF passed THEN medians ELSE reg.dll]
      /\ ret' = IF passed THEN ret ELSE -3
      /\ UNCHANGED <<machine, bit, cs, dram, trained, kept>>
  BY DEF DllTuning
<1>2. passed => found
  <2> SUFFICES ASSUME ~found PROVE ~passed
    OBVIOUS
  <2>1. dll_tuning(machine.board, rd, wr) = 0
    BY DEF DllFound, dll_tuning
  <2> QED BY <2>1
<1>3. Vref("phy15")' = rd /\ Vref("cfg4")' = wr
  BY <1>1 DEF Vref, Shapes
<1> HIDE DEF rd, wr, found, medians, passed
<1>4. /\ Shapes' /\ sram'.u = sram.u /\ reg'.rl = reg.rl
      /\ reg'.phy15 = reg.phy15 /\ reg'.cfg4 = reg.cfg4 /\ reg'.dll = medians
  BY <1>1 DEF Shapes
<1>5. ret' = 0 => passed /\ ret = 0 /\ sram'.dll = medians
  BY <1>1 DEF Shapes
<1>6. ResultKept' /\ GatesKept' /\ ReadKept' /\ WriteKept' /\ LinesKept'
  BY <1>1, <1>4, <1>5 DEF ResultKept, Agree, GatesKept, ReadKept, WriteKept, LinesKept, Trainings,
                          ColdEnd
<1>7. GatesOpen'
  BY <1>1, <1>4, <1>5 DEF GatesOpen, Chips, Trainings
<1>8. Centred'
  BY <1>1, <1>2, <1>3, <1>4, <1>5 DEF Centred, found, medians, rd, wr
<1>9. VrefsChosen'
  <2>1. Vref("phy15")' = Vref("phy15") /\ Vref("cfg4")' = Vref("cfg4")
    BY <1>3 DEF rd, wr
  <2> QED BY <1>1, <1>5, <2>1 DEF VrefsChosen, ImageVref, ReadChosen, WriteChosen, ColdEnd,
             Elsewhere
<1> QED BY <1>1, <1>4, <1>6, <1>7, <1>8, <1>9 DEF ResumePlaces, ColdResult, ColdEnd, ResumeAsTrained

\* The end of a cold boot.
LEMMA TrainStore ==
  ASSUME TrainInv, Store PROVE TrainInv'
<1> USE DEF TrainInv
<1>1. /\ pc = "store" /\ pc' = "done"
      /\ dram' = sram /\ trained' = [reg |-> reg, ok |-> ret = 0]
      /\ UNCHANGED <<machine, bit, cs, ret, reg, sram>>
  BY DEF Store
<1>2. trained'.reg = reg' /\ (trained'.ok => ret = 0)
  BY <1>1
<1>3. ret = 0 => Agree(sram, reg)
  BY <1>1 DEF Agree, GatesKept, ReadKept, WriteKept, LinesKept, Trainings
<1>4. ResultKept'
  BY <1>1, <1>2, <1>3 DEF ResultKept, Agree
<1>5. ResumeAsTrained'
  BY <1>2 DEF ResumeAsTrained
<1>6. GatesOpen'
  BY <1>1 DEF GatesOpen, Chips, Trainings
<1>7. Centred'
  BY <1>1 DEF Centred, Vref
<1>8. VrefsChosen'
  BY <1>1 DEF VrefsChosen, ImageVref, ReadChosen, WriteChosen, Elsewhere, Vref
<1> QED BY <1>1, <1>4, <1>5, <1>6, <1>7, <1>8 DEF Shapes, ResumePlaces, GatesKept, ReadKept, WriteKept,
           LinesKept, Trainings, ColdResult, ColdEnd

\* The end of a warm one.
LEMMA TrainWarm ==
  ASSUME TrainInv, MemInv, WarmBoot PROVE TrainInv'
<1> USE DEF TrainInv
<1>1. /\ pc = "restore" /\ pc' = "done" /\ bit /\ reg' = Restored
      /\ UNCHANGED <<machine, bit, cs, ret, sram, dram, trained, kept>>
  BY DEF WarmBoot, ResumePlaces
<1>2. /\ Shapes' /\ reg'.dll = dram.dll
      /\ machine.type = 4 => reg'.phy15 = dram.u[0] /\ reg'.cfg4 = dram.u[1]
      /\ machine.type = 3 => \A i \in 2..4 : reg'.rl[i] = dram.u[i]
  BY <1>1 DEF Restored, Shapes
<1>3. machine.type = 3 => 1 \in kept
  BY <1>1, ChipCount DEF MemInv, Places, MemorySurvives, Chips
<1>4. ResumeAsTrained'
  BY <1>1, <1>2, <1>3 DEF ResumeAsTrained, ResultKept, Agree
<1>5. ResultKept' /\ VrefsChosen'
  BY <1>1 DEF ResultKept, Agree, ColdEnd, VrefsChosen, ImageVref, ReadChosen, WriteChosen, Elsewhere
<1> QED BY <1>1, <1>2, <1>4, <1>5 DEF ResumePlaces, GatesKept, ReadKept, WriteKept, LinesKept,
           Trainings, ColdResult, ColdEnd, GatesOpen, Centred

\* From here on the next boot is a warm one.
LEMMA TrainSuspend ==
  ASSUME TrainInv, Suspend PROVE TrainInv'
<1> USE DEF TrainInv
<1>1. /\ pc = "done" /\ pc' = pc /\ ~bit /\ bit'
      /\ UNCHANGED <<machine, cs, ret, reg, sram, dram, trained>>
  BY DEF Suspend
<1>2. trained = [reg |-> reg, ok |-> ret = 0]
  BY <1>1 DEF ColdResult, ColdEnd
<1>3. ResumeAsTrained'
  BY <1>1, <1>2 DEF ResumeAsTrained
<1>4. ResultKept' /\ Shapes' /\ VrefsChosen'
  BY <1>1 DEF ResultKept, Agree, Shapes, ColdEnd, VrefsChosen, ImageVref, ReadChosen,
              WriteChosen, Elsewhere
<1> QED BY <1>1, <1>3, <1>4 DEF ResumePlaces, GatesKept, ReadKept, WriteKept, LinesKept,
           Trainings, ColdResult, ColdEnd, GatesOpen, Centred

\* A reset or a power cycle.
LEMMA TrainReset ==
  ASSUME TrainInv, Reset \/ PowerCycle PROVE TrainInv'
<1>1. pc' = "main" /\ reg' = Tim /\ sram' = NoResult /\ machine' = machine
  BY DEF Reset, PowerCycle
<1>2. Shapes' /\ pc' \in Elsewhere
  BY <1>1 DEF Shapes, Tim, NoResult, Elsewhere
<1>3. CASE Reset
  BY <1>1, <1>2, <1>3, TrainElsewhere DEF Reset
<1>4. CASE PowerCycle
  <2>1. ~trained'.ok
    BY <1>4 DEF PowerCycle, Untrained
  <2>2. Vref("cfg4")' = TimVref
    BY <1>1 DEF Vref, Tim
  <2>3. VrefsChosen'
    BY <1>1, <2>2 DEF VrefsChosen, ImageVref, ReadChosen, WriteChosen, ColdEnd
  <2> QED BY <1>1, <1>2, <2>1, <2>3 DEF TrainInv, ResultKept, ResumePlaces, GatesKept, ReadKept,
             WriteKept, LinesKept, Trainings, ColdResult, ColdEnd, ResumeAsTrained, GatesOpen,
             Centred
<1> QED BY <1>3, <1>4

\* Every step keeps the invariant.
LEMMA TrainStep == MemInv /\ TrainInv /\ [Next]_vars => TrainInv'
<1> SUFFICES ASSUME MemInv, TrainInv, [Next]_vars PROVE TrainInv'
  OBVIOUS
<1>0. Places /\ machine.cs_num \in 1..2 /\ cs \in Chips /\ machine \in Machines
  BY ChipCount DEF MemInv, Places
<1> DEFINE Same == UNCHANGED <<machine, bit, reg, sram, trained, ret>>
<1>1. Same => Shapes'
  BY DEF TrainInv, Shapes
<1>2. CASE NoChip \/ ddr_main \/ phyinit_sequence_sync2
  <2>1. /\ Same /\ pc \in Elsewhere /\ pc' \in Elsewhere
        /\ UNCHANGED <<dram, kept>>
    BY <1>2 DEF NoChip, ddr_main, phyinit_sequence_sync2, Elsewhere
  <2> QED BY <1>1, <2>1, TrainElsewhere
<1>3. CASE self_refresh_test
  <2>1. /\ Same /\ pc \in {"test", "retest"} /\ NextChip(IF pc = "test" THEN "enter" ELSE "store")
        /\ dram' = dram /\ kept' \subseteq kept
    BY <1>3 DEF self_refresh_test
  <2>2. pc' = pc \/ pc' = IF pc = "test" THEN "enter" ELSE "store"
    BY <2>1 DEF NextChip
  <2>3. pc = "test" => pc \in Elsewhere /\ pc' \in Elsewhere
    BY <2>2 DEF Elsewhere
  <2>4. CASE pc = "test"
    BY <1>1, <2>1, <2>3, <2>4, TrainElsewhere
  <2>5. CASE pc = "retest"
    BY <2>1, <2>2, <2>5, TrainMove
  <2> QED BY <2>1, <2>4, <2>5
<1>4. CASE self_refresh_entry \/ clock_init
  <2>1. Same /\ pc \in Elsewhere /\ pc' \in Elsewhere
    BY <1>4 DEF self_refresh_entry, clock_init, NextChip, Elsewhere
  <2>2. \/ kept' = kept /\ dram' = dram
        \/ kept' \subseteq kept /\ (dram' = dram \/ 1 \notin kept')
    BY <1>4 DEF self_refresh_entry, clock_init
  <2> QED BY <1>1, <2>1, <2>2, TrainElsewhere
<1>5. CASE self_refresh_exit
  <2>1. /\ Same /\ pc = "exit" /\ NextChip(IF bit THEN "restore" ELSE "capture")
        /\ UNCHANGED <<dram, kept>>
    BY <1>5 DEF self_refresh_exit
  <2>2. \/ pc' = pc
        \/ cs' = 1 /\ pc' = IF bit THEN "restore" ELSE "capture"
    BY <2>1 DEF NextChip
  <2> QED BY <2>1, <2>2, TrainMove
<1>6. CASE WarmBoot \/ Capture \/ GateTraining \/ ReadVrefTraining
  BY <1>0, <1>6, TrainWarm, TrainCapture, TrainGate, TrainVrefs
<1>7. CASE WriteVrefTraining \/ DllTuning \/ Store \/ Suspend \/ Reset \/ PowerCycle
  BY <1>7, TrainVrefs, TrainDll, TrainStore, TrainSuspend, TrainReset
<1>8. CASE UNCHANGED vars
  BY <1>8, TrainMove DEF vars, dvars
<1> QED BY <1>2, <1>3, <1>4, <1>5, <1>6, <1>7, <1>8 DEF Next

(* What the training knows while it runs, and what a boot leaves behind,    *)
(* whatever the board's signals allow and wherever a reset cuts a boot.     *)
THEOREM TrainingInvariance == Spec => [](MemInv /\ TrainInv)
BY MemInit, MemStep, TrainInit, TrainStep, PTL DEF Spec

(* A warm boot behind a cold one that reported success leaves the voltages, *)
(* delay lines and gates that the cold one trained, for every board, with   *)
(* any number of boots that were cut in between: with DDR3 always, with     *)
(* DDR4 unless the chip that holds the result missed its self-refresh       *)
(* entry and lost it.                                                       *)
THEOREM AlwaysResumesAsTrained == Spec => []ResumeAsTrained
<1>1. TrainInv => ResumeAsTrained
  BY DEF TrainInv
<1> QED BY <1>1, TrainingInvariance, PTL

(* A cold boot that reports success leaves, on every board whose windows    *)
(* have no holes, phases at which the memory test passes; for DDR3 on every *)
(* board delays at which the gates open; for DDR4 on every board a read     *)
(* voltage with the best range of phases and, if those that work are one    *)
(* window, the write voltage in the middle of it.                           *)
THEOREM TrainingAlwaysWorks == Spec => []TrainedWorks
<1>1. MemInv /\ TrainInv => TrainedWorks
  <2> SUFFICES ASSUME MemInv, TrainInv, pc = "done", ~bit, ret = 0 PROVE TrainedWorks
    BY DEF TrainedWorks
  <2> DEFINE rd == Vref("phy15")
             wr == Vref("cfg4")
             pass(s) == Passing(machine.board, s, rd, wr)
  <2>1. /\ DllFound(machine.board, rd, wr)
        /\ reg.dll = Medians(machine.board, rd, wr)
    BY DEF TrainInv, Centred, ColdEnd
  <2>2. ASSUME NEW s \in Searches, Convex(pass(s)) PROVE reg.dll[s] \in pass(s)
    <3>1. pass(s) # {} /\ pass(s) \subseteq Phases
      BY <2>1, BoardShape DEF DllFound, Passing, MemInv, Places
    <3>2. Medium(pass(s), 2) \in pass(s)
      BY <2>2, <3>1, MediumInWindow
    <3>3. reg.dll[s] = Medium(pass(s), 2)
      BY <2>1 DEF Medians
    <3> QED BY <3>2, <3>3
  <2>3. machine.type = 3 => \A c \in Chips : reg.rl[2 * c][2] \in machine.board.gate[c]
    BY DEF TrainInv, GatesOpen, ColdEnd
  <2>4. machine.type = 4 => BestRead(machine.board, TimVref, rd)
    BY DEF TrainInv, VrefsChosen, ReadChosen, ColdEnd
  <2>5. machine.type = 4 =>
          LET usable == Usable(machine.board, rd) IN Convex(usable) => wr = Medium(usable, 2)
    BY DEF TrainInv, VrefsChosen, WriteChosen, ColdEnd
  <2> QED BY <2>2, <2>3, <2>4, <2>5 DEF TrainedWorks, BestRead
<1> QED BY <1>1, TrainingInvariance, PTL
=============================================================================
