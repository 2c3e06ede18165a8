-------------------------------- MODULE Ddr --------------------------------
(* The DRAM bring-up at boot: init_ddr of main.c, ddr_main of ddr.c and     *)
(* init_ddr with its helpers of ddr/.  A cold boot trains the interface and *)
(* keeps what it found in DRAM; a warm boot, announced by a bit the AP's    *)
(* firmware sets, must keep the DRAM's contents and restores the settings.  *)
(*                                                                          *)
(* A PHY register holds a tagged value: the tag names the register whose    *)
(* settings the value encodes.  Sizes are in units of 256 MiB.  The DRAM    *)
(* keeps its contents while its clock changes only if it is in              *)
(* self-refresh.  What is only printed (checksum and memory-test errors) is *)
(* left out.                                                                *)
EXTENDS Clock, DdrTraining, Sequences

CONSTANTS
  Machines,       \* what a build may run on, see MachinesAssumption
  TimVref,        \* the reference voltages the image header sets
  MaxBoots        \* bound on the boots of a behaviour

\* The codes of the chip sizes that are whole units, up to 2 GiB; -1 is none.
SizeCodes == {-1, 1, 2} \cup 12..15

\* The crystal, the fuses, the preset the boot ROM left, the one compiled in
\* (4 is none), the DRAM as its chip-select registers give it, the signals.
ASSUME MachinesAssumption ==
  /\ TimVref \in Vrefs
  /\ \A m \in Machines :
       /\ m.xtal \in {25, 40} /\ m.fuse \in [rev : 0..15, vdd : 0..63]
       /\ m.rom \in 0..3 /\ m.preset \in 0..4
       /\ m.type \in {3, 4} /\ m.codes \in SizeCodes \X SizeCodes /\ m.cs_num \in 1..2
       /\ m.cs_num = 2 /\ m.codes[1] = -1 => m.codes[2] = -1
       /\ m.board \in [eye : [Searches -> SUBSET Phases],
                       read : [Vrefs -> SUBSET Phases],
                       write : [Vrefs -> SUBSET Phases],
                       gate : [1..2 -> SUBSET Delays]]

VARIABLES
  machine,        \* what the boot runs on
  bit,            \* bit 0 of 0xC001404C: the next boot is a warm one
  pc, cs, ret,    \* where the boot is, its chip-select loop, its result
  wins, remap,    \* cs_wins, and CM3_WIN_REMAP_LOW of window 1
  reg,            \* the PHY's and the controller's trained registers
  sram, dram,     \* the result on the stack, the result at 0x64000432
  asleep,         \* the chips in self-refresh
  kept,           \* the chips whose contents are those of the last boot
  trained,        \* the registers the last cold boot left, and its result
  boots

dvars == <<machine, bit, pc, cs, ret, wins, remap, reg, sram, dram,
           asleep, kept, trained, boots>>
vars == <<cvars, dvars>>

Smaller(a, b) == IF a < b THEN a ELSE b
Chips == 1..machine.cs_num

\* cs_reg_to_ram_size in MiB (code -1: bit 0 clear), get_ram_size, and a
\* chip's capacity in units: main asks for one chip of at most 1 GiB, but
\* ddr_main takes two equal ones of more.
RamSize(code) == IF code < 0 THEN 0
                 ELSE IF code >= 7 THEN 2 ^ (code - 4) ELSE 384 * 2 ^ code
get_ram_size == RamSize(machine.codes[1]) + RamSize(machine.codes[2])
Capacity == (IF machine.cs_num = 1 THEN Smaller(get_ram_size, 1024)
             ELSE RamSize(machine.codes[1])) \div 256

\* CM3_DRAM_WIN0: 0x60000000, 1 GiB; CM3_DRAM_WIN1: 0xA0000000, 512 MiB.
Windows ==
  LET cap == Capacity
      first == [base |-> 6, size |-> Smaller(cap, 4)]
      second == IF cap < 4 THEN [base |-> 6 + cap, size |-> Smaller(cap, 4 + 2 - cap)]
                ELSE [base |-> 10, size |-> Smaller(cap, 2)]
  IN IF machine.cs_num > 1 THEN <<first, second>> ELSE <<first>>
RemapFixed == 4                    \* mutant: what main leaves there
Remap == IF Capacity < 4 THEN 4 ELSE Capacity
ChipAt(unit) ==
  LET offset == IF unit < 10 THEN unit - 6 ELSE remap + unit - 10
  IN offset \div Capacity + 1

Tim == [phy15 |-> <<"phy15", TimVref>>, cfg4 |-> <<"cfg4", TimVref>>,
        wlrl |-> <<"wlrl", "off">>, rl |-> [i \in 1..4 |-> <<"rl", <<0, 0>>>>],
        dll |-> [s \in Searches |-> 0]]
NoResult == [u |-> [i \in 0..4 |-> <<"none">>], dll |-> [s \in Searches |-> 0]]
\* What is read there once its chip, the first one, has lost its contents.
Lost == [u |-> [i \in 0..4 |-> <<"lost">>], dll |-> [s \in Searches |-> PhaseEnd + 1]]
Untrained == [reg |-> Tim, ok |-> FALSE]
\* struct ddr_init_result: a union whose first two words are ddr3.wl_rl_ctl
\* and cs0_b0 and also ddr4.vref_read and vref_write; then the other ddr3
\* words cs0_b1, cs1_b0, cs1_b1; then dll_tune.
Ddr3Words(r, wlrl) == [i \in 0..4 |-> IF i = 0 THEN wlrl ELSE r.rl[i]]

-----------------------------------------------------------------------------
Init ==
  /\ machine \in Machines
  /\ InitClock(machine.xtal, machine.fuse, machine.rom)
  /\ bit = FALSE /\ pc = "main" /\ cs = 1 /\ ret = 0
  /\ wins = <<>> /\ remap = 4
  /\ reg = Tim /\ sram = NoResult /\ dram = NoResult
  /\ asleep = {} /\ kept = {} /\ trained = Untrained /\ boots = 1

\* main's init_ddr: without a chip it waits for ever.
NoChip ==
  /\ pc = "main" /\ get_ram_size = 0
  /\ pc' = "no_chip"
  /\ UNCHANGED <<cvars, machine, bit, cs, ret, wins, remap, reg, sram,
                 dram, asleep, kept, trained, boots>>
\* Mutant: the memory is tested at every boot.
AlwaysTests ==
  /\ pc = "main" /\ get_ram_size # 0
  /\ SetPreset(machine.preset)
  /\ wins' = Windows /\ pc' = "test"
  /\ remap' = IF machine.cs_num > 1 THEN Remap ELSE remap
  /\ UNCHANGED <<machine, bit, cs, ret, reg, sram, dram, asleep, kept,
                 trained, boots>>
\* ddr_main up to init_ddr.
ddr_main ==
  /\ pc = "main" /\ get_ram_size # 0
  /\ SetPreset(machine.preset)
  /\ wins' = Windows
  /\ remap' = IF machine.cs_num > 1 THEN Remap ELSE remap
  /\ pc' = IF bit THEN "enter" ELSE "test"
  /\ UNCHANGED <<machine, bit, cs, ret, reg, sram, dram, asleep, kept,
                 trained, boots>>

\* A step of a loop over the chip selects; `then` follows the last.
NextChip(then) ==
  IF cs < machine.cs_num THEN cs' = cs + 1 /\ UNCHANGED pc ELSE cs' = 1 /\ pc' = then

\* self_refresh_test: overwrites the start of the chip the window leads to.
self_refresh_test ==
  /\ pc \in {"test", "retest"}
  /\ kept' = kept \ {ChipAt(wins[cs].base)}
  /\ NextChip(IF pc = "test" THEN "enter" ELSE "store")
  /\ UNCHANGED <<cvars, machine, bit, ret, wins, remap, reg, sram, dram,
                 asleep, trained, boots>>

\* After wait_for_mc_idle, whose time-out is not noticed.  A DDR4 chip may
\* miss the time-out of its entry, and the boot goes on.
self_refresh_entry ==
  /\ pc = "enter"
  /\ \/ asleep' = asleep \cup {cs}
     \/ machine.type = 4 /\ UNCHANGED asleep
  /\ NextChip("clock")
  /\ cpc' = IF pc' = "clock" THEN "start" ELSE cpc
  /\ UNCHANGED <<xtal, fuse, preset, avs, tbg, lines, clk_sel, machine,
                 bit, ret, wins, remap, reg, sram, dram, kept, trained, boots>>

\* clock_init: a chip that is awake does not survive a change of the clocks,
\* the result of the last training included.
clock_init ==
  /\ pc = "clock" /\ setup_clock_tree
  /\ IF UNCHANGED <<tbg, lines, clk_sel>> THEN UNCHANGED <<kept, dram>>
     ELSE /\ kept' = kept \cap asleep
          /\ dram' = IF 1 \in asleep THEN dram ELSE Lost
  /\ UNCHANGED <<machine, bit, pc, cs, ret, wins, remap, reg, sram,
                 asleep, trained, boots>>
\* Its result is not looked at; phyinit_sequence_sync2 and, for DDR3, the
\* termination follow.
phyinit_sequence_sync2 ==
  /\ pc = "clock" /\ cpc \in {"done", "failed"}
  /\ pc' = "exit"
  /\ UNCHANGED <<cvars, machine, bit, cs, ret, wins, remap, reg, sram,
                 dram, asleep, kept, trained, boots>>
\* The last exit is followed by send_mr_commands.
self_refresh_exit ==
  /\ pc = "exit"
  /\ asleep' = asleep \ {cs}
  /\ NextChip(IF bit THEN "restore" ELSE "capture")
  /\ UNCHANGED <<cvars, machine, bit, ret, wins, remap, reg, sram, dram,
                 kept, trained, boots>>

-----------------------------------------------------------------------------
\* Warm boot: the settings come from the DRAM, whatever the checksum said.
\* wl_rl_ctl is written again with the enable bits cleared.
Disabled(word) == IF word[1] = "wlrl" THEN <<"wlrl", "off">> ELSE word
\* Mutant: DDR4's words, whatever the type.
RestoredAsDdr4 ==
  [reg EXCEPT !.phy15 = dram.u[0], !.cfg4 = dram.u[1]]
Restored ==
  IF machine.type = 3
  THEN [reg EXCEPT !.wlrl = Disabled(dram.u[0]), !.dll = dram.dll,
                   !.rl = [i \in 1..4 |-> dram.u[i]]]
  ELSE [reg EXCEPT !.phy15 = dram.u[0], !.cfg4 = dram.u[1], !.dll = dram.dll]
WarmBoot ==
  /\ pc = "restore"
  /\ reg' = Restored /\ pc' = "done"
  /\ UNCHANGED <<cvars, machine, bit, cs, ret, wins, remap, sram, dram,
                 asleep, kept, trained, boots>>

-----------------------------------------------------------------------------
\* Cold boot.  "Capture settings from TIM, update only if training passes."
\* For DDR3 the gate of every chip is trained.
Capture ==
  /\ pc = "capture"
  /\ sram' = [sram EXCEPT !.u = Ddr3Words(reg, reg.wlrl)]
  /\ pc' = IF machine.type = 3 THEN "gate" ELSE "vref_read"
  /\ UNCHANGED <<cvars, machine, bit, cs, ret, wins, remap, reg, dram,
                 asleep, kept, trained, boots>>
\* qs_gating of one chip: both lanes get the delay; wl_rl_ctl is kept as it
\* was while read levelling was enabled.
GateTraining ==
  /\ pc = "gate"
  /\ LET delay == <<"rl", qs_gating(machine.board, cs)>>
         moved == [reg EXCEPT !.rl = [i \in 1..4 |-> IF i \in {2 * cs - 1, 2 * cs}
                                                     THEN delay ELSE @[i]],
                              !.wlrl = <<"wlrl", "off">>]
     IN /\ reg' = moved
        /\ IF machine.board.gate[cs] # {}
           THEN /\ sram' = [sram EXCEPT !.u = Ddr3Words(moved, <<"wlrl", "on">>)]
                /\ UNCHANGED ret
           ELSE ret' = -3 /\ UNCHANGED sram
  /\ NextChip("vref_read")
  /\ UNCHANGED <<cvars, machine, bit, wins, remap, dram, asleep, kept,
                 trained, boots>>

\* The captures of vref_read and vref_write are made for DDR3 too.
Vref(name) == reg[name][2]
ReadVrefTraining ==
  /\ pc = "vref_read"
  /\ LET found == vref_read_training(machine.board, Vref("cfg4"))
         final == <<"phy15", IF found >= 0 THEN found ELSE 1>>
     IN IF machine.type = 3
        THEN /\ sram' = [sram EXCEPT !.u[0] = reg.phy15]
             /\ UNCHANGED <<reg, ret>>
        ELSE /\ reg' = [reg EXCEPT !.phy15 = final]
             /\ sram' = [sram EXCEPT !.u[0] = IF found >= 0 THEN final ELSE reg.phy15]
             /\ ret' = IF found >= 0 THEN ret ELSE -3
  /\ pc' = "vref_write"
  /\ UNCHANGED <<cvars, machine, bit, cs, wins, remap, dram, asleep, kept,
                 trained, boots>>
WriteVrefTraining ==
  /\ pc = "vref_write"
  /\ LET found == vref_write_training(machine.board, Vref("phy15"))
         final == <<"cfg4", IF found # 0 THEN found ELSE MaxVref>>
     IN IF machine.type = 3
        THEN /\ sram' = [sram EXCEPT !.u[1] = reg.cfg4]
             /\ UNCHANGED <<reg, ret>>
        ELSE /\ reg' = [reg EXCEPT !.cfg4 = final]
             /\ sram' = [sram EXCEPT !.u[1] = IF found # 0 THEN final ELSE reg.cfg4]
             /\ ret' = IF found # 0 THEN ret ELSE -3
  /\ pc' = "dll"
  /\ UNCHANGED <<cvars, machine, bit, cs, wins, remap, dram, asleep, kept,
                 trained, boots>>
\* The PHY gets the medians when every search finds a phase; the result gets
\* them only when the smallest range is not 0.
DllTuning ==
  /\ pc = "dll"
  /\ LET rd == Vref("phy15")  wr == Vref("cfg4")
         medians == IF DllFound(machine.board, rd, wr) THEN Medians(machine.board, rd, wr)
                                                       ELSE reg.dll
         passed == dll_tuning(machine.board, rd, wr) > 0
     IN /\ reg' = [reg EXCEPT !.dll = medians]
        /\ sram' = [sram EXCEPT !.dll = IF passed THEN medians ELSE reg.dll]
        /\ ret' = IF passed THEN ret ELSE -3
  /\ pc' = "retest"
  /\ UNCHANGED <<cvars, machine, bit, cs, wins, remap, dram, asleep, kept,
                 trained, boots>>
\* ddr_main copies the result to the reserved memory; main goes on whatever
\* the result.
Store ==
  /\ pc = "store"
  /\ dram' = sram /\ trained' = [reg |-> reg, ok |-> ret = 0] /\ pc' = "done"
  /\ UNCHANGED <<cvars, machine, bit, cs, ret, wins, remap, reg, sram,
                 asleep, kept, boots>>

-----------------------------------------------------------------------------
\* The AP's firmware fills the memory and asks for a warm boot.
Suspend ==
  /\ pc = "done" /\ ~bit
  /\ bit' = TRUE /\ kept' = Chips
  /\ UNCHANGED <<cvars, machine, pc, cs, ret, wins, remap, reg, sram, dram,
                 asleep, trained, boots>>
\* A reset, at any point: the image header brings the interface back to its
\* own settings, and a chip in self-refresh keeps its contents.
Reset ==
  /\ pc # "main" /\ boots < MaxBoots
  /\ ResetClock
  /\ reg' = Tim /\ sram' = NoResult /\ asleep' = {} /\ remap' = 4
  /\ pc' = "main" /\ cs' = 1 /\ ret' = 0 /\ wins' = <<>> /\ boots' = boots + 1
  /\ UNCHANGED <<machine, bit, dram, kept, trained>>
PowerCycle ==
  /\ pc = "done" /\ bit /\ boots < MaxBoots
  /\ ResetClock
  /\ reg' = Tim /\ sram' = NoResult /\ asleep' = {} /\ remap' = 4
  /\ pc' = "main" /\ cs' = 1 /\ ret' = 0 /\ wins' = <<>> /\ boots' = boots + 1
  /\ bit' = FALSE /\ dram' = NoResult /\ kept' = {} /\ trained' = Untrained
  /\ UNCHANGED machine

Next ==
  \/ NoChip \/ ddr_main
  \/ self_refresh_test \/ self_refresh_entry \/ clock_init
  \/ phyinit_sequence_sync2 \/ self_refresh_exit \/ WarmBoot
  \/ Capture \/ GateTraining \/ ReadVrefTraining \/ WriteVrefTraining
  \/ DllTuning \/ Store \/ Suspend \/ Reset \/ PowerCycle
Spec == Init /\ [][Next]_vars

-----------------------------------------------------------------------------
(* While the AP counts on a warm boot, the memory keeps its contents at     *)
(* every step and across resets at any point.  Only a DDR4 chip may miss    *)
(* its self-refresh entry.                                                  *)
MemorySurvives == bit /\ machine.type = 3 => kept = Chips

(* When a cold boot reported success, a warm boot leaves the settings that  *)
(* it trained: for DDR4 the voltages, for both types the delay lines and,   *)
(* for DDR3, the gates that vref_read and vref_write do not overlay.  With  *)
(* DDR4 only if the first chip kept its contents: after a missed self-      *)
(* refresh entry it restores what it reads, checksum error or not.          *)
ResumeAsTrained ==
  pc = "done" /\ bit /\ trained.ok /\ (machine.type = 3 \/ 1 \in kept) =>
    LET r == trained.reg IN
    /\ reg.dll = r.dll
    /\ machine.type = 4 => reg.phy15 = r.phy15 /\ reg.cfg4 = r.cfg4
    /\ machine.type = 3 => \A i \in 2..4 : reg.rl[i] = r.rl[i]
(* "Use reserved settings if warm boot is found": all the gates, and read   *)
(* levelling as the cold boot left it.                                      *)
WarmBootRestoresGates ==
  pc = "done" /\ bit /\ trained.ok /\ machine.type = 3 =>
    reg.rl = trained.reg.rl /\ reg.wlrl = trained.reg.wlrl

(* A cold boot that reports success leaves settings at which every memory   *)
(* test passes and every gate opens, if the windows have no holes.  With    *)
(* DDR4 no other read voltage has a wider range of phases at the image's    *)
(* write voltage, and the write voltage is the middle of all those that     *)
(* work, if they are one window; so the delay lines were found there.       *)
TrainedWorks ==
  pc = "done" /\ ~bit /\ ret = 0 =>
    LET rd == Vref("phy15")
        wr == Vref("cfg4")
        pass(s) == Passing(machine.board, s, rd, wr)
        range(v) == dll_tuning(machine.board, v, TimVref)
    IN
    /\ (\A s \in Searches : Convex(pass(s))) =>
         \A s \in Searches : reg.dll[s] \in pass(s)
    /\ machine.type = 3 =>
         \A c \in Chips : reg.rl[2 * c][2] \in machine.board.gate[c]
    /\ machine.type = 4 =>
         /\ rd \in 1..MaxVref /\ \A v \in 1..MaxVref : range(v) <= range(rd)
         /\ LET usable == Usable(machine.board, rd)
            IN Convex(usable) => wr = Medium(usable, 2)

(* Every chip select gets memory to test, and all that ddr_main gives to it *)
(* lies on the chip of that select and inside the two windows.              *)
TestsOwnChip ==
  \A c \in DOMAIN wins :
    /\ wins[c].size > 0
    /\ \A u \in wins[c].base..(wins[c].base + wins[c].size - 1) :
         u \in 6..11 /\ ChipAt(u) = c
=============================================================================
