---------------------------- MODULE DdrTraining ----------------------------
(* The searches of the DRAM training: dll_tuning.c, vref_training.c and     *)
(* new_qs_gating.c, as functions of what the board's signals allow.         *)
(*                                                                          *)
(* A board is a record:                                                     *)
(*   eye   per search of dll_tuning (byte lane and clock edge), the phases  *)
(*         at which the memory test passes on every chip;                   *)
(*   read  per PHY reference voltage, the phases it leaves usable;          *)
(*   write per DRAM reference voltage, likewise;                            *)
(*   gate  per chip, the <<cycle, tap>> delays at which the gate opens.     *)
(* A test passes when its phase is in all three sets.  The ranges are those *)
(* of the code scaled down: phases 0..PhaseEnd for 0..0x3F, voltages        *)
(* 0..MaxVref for 0..0x3F, delays 0..Cycles-1 and 0..Taps-1 for 0..0xE and  *)
(* 0..0x7E.                                                                 *)
EXTENDS Integers, FiniteSets

CONSTANTS PhaseEnd, MaxVref, Cycles, Taps

ASSUME RangesAssumption ==
  /\ PhaseEnd \in Nat \ {0} /\ MaxVref \in Nat \ {0}
  /\ Cycles \in Nat \ {0} /\ Taps \in Nat \ {0}

Phases == 0..PhaseEnd
Vrefs == 0..MaxVref
Searches == {"m0", "n0", "m1", "n1"}     \* lane 0 and 1, master and negative

Least(S) == CHOOSE i \in S : \A j \in S : i <= j
Greatest(S) == CHOOSE i \in S : \A j \in S : i >= j

\* The phases at which search s passes with both voltages set.
Passing(board, s, rd, wr) == board.eye[s] \cap board.read[rd] \cap board.write[wr]

\* short_dll_tune: the outermost passing phases; phases between them that
\* fail are not noticed.
Span(P) == Greatest(P) - Least(P)
Medium(P, ratio) == Least(P) + Span(P) \div ratio

\* dll_tuning: the smallest of the four ranges, 0 when a search finds none,
\* and the phases it would save.
dll_tuning(board, rd, wr) ==
  IF \E s \in Searches : Passing(board, s, rd, wr) = {} THEN 0
  ELSE Least({PhaseEnd} \cup {Span(Passing(board, s, rd, wr)) : s \in Searches})
Medians(board, rd, wr) ==
  [s \in Searches |-> Medium(Passing(board, s, rd, wr), 2)]
DllFound(board, rd, wr) == \A s \in Searches : Passing(board, s, rd, wr) # {}

\* vref_read_training: from the highest down to 1, the first voltage with
\* the best range; -1 when no voltage has a range above 0.
vref_read_training(board, wr) ==
  LET range(v) == dll_tuning(board, v, wr)
      best == {v \in 1..MaxVref : /\ range(v) > 0
                                  /\ \A u \in 1..MaxVref : range(u) <= range(v)}
  IN IF best = {} THEN -1 ELSE Greatest(best)

\* The write voltages at which the delay lines can be tuned.
Usable(board, rd) == {v \in Vrefs : dll_tuning(board, rd, v) > 0}
\* vref_write_training: one turn of the loop over w, its local variables.
NoWindow == [min |-> 0, max |-> 0, size |-> 0, on |-> FALSE]
CloseWindow(w) ==
  IF w.win.size >= w.prev.size \/ w.prev.size = 0
  THEN [prev |-> w.win, win |-> NoWindow] ELSE w
Widen(win, v) ==
  [min |-> IF win.on THEN win.min ELSE v, max |-> v, size |-> win.size + 1, on |-> TRUE]
WriteTurn(w, v, passed) ==
  LET widened == [w EXCEPT !.win = Widen(@, v)]
      opening == w.win.min = 0 /\ ~w.win.on
  IN IF ~passed THEN CloseWindow(w)
     ELSE IF v = MaxVref /\ ~opening THEN CloseWindow(widened) ELSE widened
WriteScan(board, rd) ==
  LET scan[v \in -1..MaxVref] ==
        IF v = -1 THEN [prev |-> NoWindow, win |-> NoWindow]
        ELSE WriteTurn(scan[v - 1], v, v \in Usable(board, rd))
  IN scan[MaxVref].prev
\* Mutant: the middle is counted from 0.
HalfWindow(board, rd) ==
  LET prev == WriteScan(board, rd) IN (prev.max - prev.min) \div 2
vref_write_training(board, rd) ==
  LET prev == WriteScan(board, rd)
  IN IF prev.min # prev.max THEN prev.min + (prev.max - prev.min) \div 2 ELSE 0

\* qs_gating: the first delay, cycle by cycle, at which the gate opens; the
\* last delay tried when there is none.
Delays == (0..(Cycles - 1)) \X (0..(Taps - 1))
Before(d, e) == d[1] < e[1] \/ (d[1] = e[1] /\ d[2] < e[2])
qs_gating(board, cs) ==
  LET open == board.gate[cs]
  IN IF open = {} THEN <<Cycles - 1, Taps - 1>>
     ELSE CHOOSE d \in open : \A e \in open \ {d} : Before(d, e)

\* A window without holes, as the searches take all windows to be.
Convex(P) == P = {} \/ P = Least(P)..Greatest(P)
=============================================================================
