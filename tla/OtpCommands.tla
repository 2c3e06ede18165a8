---------------------------- MODULE OtpCommands -----------------------------
(***************************************************************************)
(* The mailbox commands that read and write fuses (wtmi/main.c) on top of  *)
(* Efuse: their argument checks, the shifting and masking, the three-fold  *)
(* bits of the first rows with their majority vote, and the commands for   *)
(* four rows, which fail half way or are cut by a power loss; and the      *)
(* debug console's "efuse write".  A command runs to its reply before the  *)
(* next one, as Mbox shows.                                                *)
(***************************************************************************)
EXTENDS Efuse, Sequences

CONSTANTS
  WordBits,       \* bits of a row (64)
  LastMajority,   \* rows up to this one hold three-fold bits (3)
  ArgRows,        \* the rows the AP names
  Offsets,        \* the offsets the AP names
  Widths,         \* N of cmd_otp_read_Nb and cmd_otp_write_Nb (8, 32)
  Values,         \* the values the AP writes
  Quads,          \* the values it writes to four rows
  MaxCommands     \* bound: how many commands the AP sends

ASSUME OtpAssumption == /\ DataBits = 0..WordBits-1 /\ Rows \subseteq Nat
                        /\ WordBits \in Nat
                        /\ LastMajority \in Nat /\ MaxCommands \in Nat
                        /\ ArgRows \subseteq Nat /\ Offsets \subseteq Nat
                        /\ Widths \subseteq Nat
                        /\ Values \subseteq SUBSET DataBits
                        /\ Quads \subseteq [1..4 -> SUBSET DataBits]

VARIABLES
  c,              \* the command in progress, or the last one with its reply
  commands,       \* how many there were
  asked,          \* history: row -> bits some command asked to blow
  confirmed       \* history: row -> bits whose write was reported successful

ovars == <<evars, c, commands, asked, confirmed>>

OInit ==
  /\ EInit
  /\ c = [pc |-> "idle"] /\ commands = 0
  /\ asked = [r \in Rows |-> {}] /\ confirmed = [r \in Rows |-> {}]

-----------------------------------------------------------------------------
(***************************************************************************)
(* Commands.                                                               *)
(***************************************************************************)
CmdIdle == c.pc \in {"idle", "reply"} /\ ~Busy /\ commands < MaxCommands

MajorityPlace(row, off) == row <= LastMajority /\ off < WordBits /\ off % 4 = 0

\* Mutant: a shift that rotates.
Rotated(v, off) == {(b + off) % WordBits : b \in v}

\* Bits shifted out of the word are lost.
Shifted(v, off) == {b + off : b \in v} \cap DataBits
Low(v, n)       == {b \in v : b < n}
Group(off)      == off..off + 2

\* What the AP means: the lower n bits of v in the bits from off on.
Meant(v, off, n) == {b \in DataBits : b - off \in v /\ b < off + n}

\* The lower n bits of vals[k] are to go to row + k - 1, from bit off on.
Command(ok, pc, op, row, off, n, vals, lock) ==
  /\ CmdIdle
  /\ commands' = commands + 1
  /\ c' = [pc |-> IF ok THEN pc ELSE "reply", sts |-> IF ok THEN "none" ELSE "EINVAL",
           op |-> op, row |-> row, off |-> off, n |-> n, lock |-> lock,
           k |-> 1, out |-> <<>>, old |-> fuse,
           vals  |-> [k \in 1..Len(vals) |-> Shifted(Low(vals[k], n), off)],
           meant |-> [k \in 1..Len(vals) |-> Meant(vals[k], off, n)]]
  /\ asked' = IF ~ok THEN asked
              ELSE [r \in Rows |-> asked[r] \cup
                      UNION {Meant(vals[k], off, n) : k \in {j \in 1..Len(vals) :
                                                               row + j - 1 = r}}]
  /\ UNCHANGED <<evars, confirmed>>

\* cmd_otp_write and cmd_otp_write_64b.
cmd_otp_write(r, v, l) ==
  Command(TRUE, "write", "write", r, 0, WordBits, <<v>>, l)
cmd_otp_write_1b(r, off, set) ==
  Command(MajorityPlace(r, off), "write", "write", r, off, 3,
          <<IF set THEN {0, 1, 2} ELSE {}>>, FALSE)
cmd_otp_write_Nb(r, off, v, n) ==
  Command(off < WordBits, "write", "write", r, off, n, <<v>>, FALSE)
cmd_otp_write_256b(r, vs) ==
  Command(TRUE, "write", "write", r, 0, WordBits, vs, FALSE)

\* The debug console's "efuse write": an open row, and a value that keeps what the
\* row reads as, although an ECC error does not matter.
OldValue(r) == IF r \in DataRows /\ EccRead(r) # {} THEN UNION EccRead(r) ELSE RawRead(r)

cmd_efuse_write(r, v) ==
  /\ r \in Rows
  /\ Command(r \notin locked /\ ~is_row_masked(r) /\ OldValue(r) \subseteq v,
             "write", "efuse", r, 0, WordBits, <<v>>, FALSE)

cmd_otp_read_1b(r, off) ==
  Command(MajorityPlace(r, off), "read", "read_1b", r, off, 3, <<{}>>, FALSE)
cmd_otp_read_Nb(r, off, n) ==
  Command(off < WordBits, "read", "read_Nb", r, off, n, <<{}>>, FALSE)
\* Whole rows; cmd_otp_read_64b is like cmd_otp_read.
ReadRows(r, rows) ==
  Command(TRUE, "read", "read", r, 0, WordBits, [k \in 1..rows |-> {}], FALSE)
cmd_otp_read(r)      == ReadRows(r, 1)
cmd_otp_read_256b(r) == ReadRows(r, 4)

Row   == c.row + c.k - 1
Reply(x) == c' = [c EXCEPT !.pc = "reply", !.sts = x]

-----------------------------------------------------------------------------
(***************************************************************************)
(* The loop over the rows of a command.                                    *)
(***************************************************************************)
WriteRow ==
  /\ c.pc = "write" /\ ~Busy
  /\ IF Row \notin Rows
       THEN Reply("EINVAL") /\ UNCHANGED evars
       ELSE /\ efuse_write_row_no_ecc(Row, c.vals[c.k], c.lock)
            /\ c' = [c EXCEPT !.pc = "wait"]
  /\ UNCHANGED <<commands, asked, confirmed>>

NextRow ==
  IF res # "OK" THEN Reply(res)
  ELSE IF c.k < Len(c.vals) THEN c' = [c EXCEPT !.pc = "write", !.k = @ + 1]
  ELSE Reply("OK")

WriteReturned ==
  /\ c.pc = "wait" /\ ~Busy
  /\ NextRow
  /\ confirmed' = IF res # "OK" THEN confirmed
                  ELSE [confirmed EXCEPT ![Row] = @ \cup c.meant[c.k]]
  /\ UNCHANGED <<evars, commands, asked>>

\* Mutant: one bit of three is enough.
AnyBit(v) == v # {}

\* val == 3 || val > 4
Vote(v) == Cardinality(v) >= 2

\* The three or N bits from the offset on.
Field(v) == {b - c.off : b \in {x \in v : x \in c.off..c.off + c.n - 1}}
Shape(v) == IF c.op = "read_1b" THEN IF Vote(Field(v)) THEN {0} ELSE {}
                                ELSE Field(v)

\* efuse_read_row_no_ecc: a masked row is refused, whatever reading it gives.
ReadRow ==
  /\ c.pc = "read"
  /\ \/ /\ Row \notin Rows \/ is_row_masked(Row)
        /\ Reply(IF Row \in Rows THEN "EACCES" ELSE "EINVAL")
        /\ UNCHANGED faults
     \/ Row \in Rows /\ ~is_row_masked(Row) /\ Reply("ETIMEDOUT") /\ Fault
     \/ /\ Row \in Rows /\ ~is_row_masked(Row)
        /\ c' = [c EXCEPT !.out = Append(@, Shape(fuse[Row])), !.k = @ + 1,
                          !.pc  = IF c.k < Len(c.vals) THEN "read" ELSE "reply",
                          !.sts = IF c.k < Len(c.vals) THEN @ ELSE "OK"]
        /\ UNCHANGED faults
  /\ UNCHANGED <<array, master, wf, ef, res, losses, commands, asked, confirmed>>

OtpPowerLoss ==
  /\ PowerLoss
  /\ c' = [pc |-> "idle"]
  /\ UNCHANGED <<commands, asked, confirmed>>

\* The write commands are not registered on a board that booted securely.
OtpCommand ==
  \E r \in ArgRows :
    \/ /\ ~SecureBoot
       /\ \/ \E v \in Values, l \in BOOLEAN : cmd_otp_write(r, v, l)
          \/ \E off \in Offsets, set \in BOOLEAN : cmd_otp_write_1b(r, off, set)
          \/ \E off \in Offsets, v \in Values, n \in Widths :
               cmd_otp_write_Nb(r, off, v, n)
          \/ \E vs \in Quads : cmd_otp_write_256b(r, vs)
    \/ \E v \in Values : cmd_efuse_write(r, v)
    \/ \E off \in Offsets : cmd_otp_read_1b(r, off)
    \/ \E off \in Offsets, n \in Widths : cmd_otp_read_Nb(r, off, n)
    \/ cmd_otp_read(r) \/ cmd_otp_read_256b(r)

ONext ==
  \/ OtpCommand \/ WriteRow \/ WriteReturned \/ ReadRow \/ OtpPowerLoss
  \/ EfuseStep /\ UNCHANGED <<c, commands, asked, confirmed>>

OSpec == OInit /\ [][ONext]_ovars

-----------------------------------------------------------------------------
Replied(op) == c.pc = "reply" /\ c.op = op

\* Whatever goes wrong in a command, no fuse is ever blown that the AP did not
\* name, neither in the row, where old bits are merged in, nor in another row,
\* nor by shifting (main.c:422-438, efuse.c:378-383).
OnlyAskedBits == \A r \in Rows : fuse[r] \subseteq asked[r]

\* A write command that succeeds has blown all bits in all its rows; one that
\* fails has finished the rows before the failing one and has not touched the
\* rows behind it, so that the AP can repeat it (main.c:466-481).
WritesAreAPrefix ==
  Replied("write") \/ Replied("efuse") =>
    \A k \in 1..Len(c.vals) :
      LET r == c.row + k - 1 IN
      r \in Rows =>
        /\ c.sts = "OK" \/ k < c.k => c.meant[k] \subseteq fuse[r]
        /\ c.sts # "OK" /\ k > c.k => fuse[r] = c.old[r]

\* Fuses are blown where they should be, and nowhere else: both of the above.
WritesWhatWasAsked == OnlyAskedBits /\ WritesAreAPrefix

\* Reading gives back what a successful write put there and shows nothing that
\* was not asked for, whichever command wrote it (main.c:299-349, 399-438); the
\* vote does so although one bit of the three may have been written alone.
VoteReadsBack ==
  Replied("read_1b") /\ c.sts = "OK" =>
    /\ Group(c.off) \subseteq confirmed[c.row] => c.out = <<{0}>>
    /\ Cardinality(Group(c.off) \cap asked[c.row]) < 2 => c.out = <<{}>>

FieldReadsBack ==
  Replied("read_Nb") /\ c.sts = "OK" =>
    \A b \in 0..c.n-1 : /\ b + c.off \in confirmed[c.row] => b \in c.out[1]
                        /\ b \in c.out[1] => b + c.off \in asked[c.row]

ReadsBack == VoteReadsBack /\ FieldReadsBack
=============================================================================
