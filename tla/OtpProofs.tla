----------------------------- MODULE OtpProofs -------------------------------
(***************************************************************************)
(* Proofs about the commands that write and read fuses, for all rows,      *)
(* offsets, widths, values and patterns of faults and power losses, and    *)
(* for a board that booted securely too.  What is known of a single write  *)
(* comes from EfuseProofs, of which the commands are a client.             *)
(***************************************************************************)
EXTENDS OtpCommands, EfuseProofs, FiniteSetTheorems, FunctionTheorems, SequenceTheorems

CmdFields == {"pc", "sts", "op", "row", "off", "n", "lock", "k", "out", "old", "vals",
              "meant"}
WriteOps == {"write", "efuse"}
ReadOps  == {"read", "read_1b", "read_Nb"}
\* The row of a command's j-th value, and whether there is one.
RowOf(j)  == c.row + j - 1
Within(j) == j \in 1..Len(c.vals) /\ RowOf(j) \in Rows

\* What a command is made of, and what was meant is what will be written.
CmdInv ==
  /\ c.pc \in {"idle", "write", "wait", "read", "reply"}
  /\ c.pc # "idle" =>
       /\ DOMAIN c = CmdFields
       /\ c.row \in Nat /\ c.off \in Nat /\ c.n \in Nat /\ c.lock \in BOOLEAN
       /\ c.vals \in Seq(SUBSET DataBits) /\ c.meant = c.vals
  /\ c.pc \in {"write", "wait", "read"} => c.k \in 1..Len(c.vals)
  /\ c.pc \in {"write", "wait"} =>
       c.op \in WriteOps /\ \A j : Within(j) => ~is_row_masked(RowOf(j))

\* Of the functions that write rows only the one without ECC is called, and only
\* while its command waits.
CallInv ==
  /\ ef.pc = "idle"
  /\ wf.pc # "idle" => c.pc = "wait" /\ wf.row = Row /\ wf.req = c.vals[c.k]
  /\ c.pc = "wait" => /\ Row \in Rows
                      /\ ~Busy /\ res = "OK" => c.vals[c.k] \subseteq fuse[Row]

\* Nothing is in the fuses, nor on the way there, that was not asked for; what was
\* confirmed is there.
AskedInv ==
  /\ asked \in [Rows -> SUBSET DataBits] /\ confirmed \in [Rows -> SUBSET DataBits]
  /\ OnlyAskedBits
  /\ wf.pc # "idle" => wf.val \subseteq asked[wf.row]
  /\ c.pc \in {"write", "wait"} =>
       \A j : Within(j) => c.vals[j] \subseteq asked[RowOf(j)]
  /\ \A r \in Rows : confirmed[r] \subseteq fuse[r]

\* How far a writing command is.
ProgressInv ==
  /\ c.pc \in {"write", "wait"} =>
       \A j : Within(j) => /\ j < c.k => c.vals[j] \subseteq fuse[RowOf(j)]
                           /\ j > c.k => fuse[RowOf(j)] = c.old[RowOf(j)]
  /\ WritesAreAPrefix

\* What a reading command has read, one row in all but "read".
ReadInv ==
  /\ c.pc = "read" => c.op \in ReadOps /\ (c.op # "read" => Len(c.vals) = 1 /\ c.out = <<>>)
  /\ c.pc # "idle" /\ c.op = "read_1b" => c.n = 3
  /\ Replied("read_1b") \/ Replied("read_Nb") =>
       (c.sts = "OK" => c.row \in Rows /\ c.out = <<Shape(fuse[c.row])>>)

OtpInv == EfuseInv /\ CmdInv /\ CallInv /\ AskedInv /\ ProgressInv /\ ReadInv

-----------------------------------------------------------------------------
(***************************************************************************)
(* The values of a command, and what its steps are to the fuses.           *)
(***************************************************************************)
\* Shifting the lower bits by the offset gives what the AP meant.
LEMMA ShiftedIsMeant ==
  ASSUME NEW v \in SUBSET Nat, NEW off \in Nat, NEW n \in Nat
  PROVE  /\ Shifted(Low(v, n), off) = Meant(v, off, n)
         /\ Meant(v, off, n) \subseteq DataBits
<1>1. DataBits \subseteq Nat
  BY OtpAssumption
<1>2. ASSUME NEW b \in Shifted(Low(v, n), off) PROVE b \in Meant(v, off, n)
  <2>1. PICK a \in v : a < n /\ b = a + off /\ b \in DataBits
    BY <1>2 DEF Shifted, Low
  <2>2. a \in Nat /\ b - off = a /\ b < off + n
    BY <2>1
  <2> QED BY <2>1, <2>2 DEF Meant
<1>3. ASSUME NEW b \in Meant(v, off, n) PROVE b \in Shifted(Low(v, n), off)
  <2>1. b \in DataBits /\ b \in Nat /\ b - off \in v /\ b < off + n
    BY <1>1, <1>3 DEF Meant
  <2>2. b - off < n /\ b = (b - off) + off
    BY <2>1
  <2> QED BY <2>1, <2>2 DEF Shifted, Low
<1> QED BY <1>2, <1>3 DEF Meant

\* A function on 1..n is a sequence of length n.
LEMMA OnIntervalIsSeq ==
  ASSUME NEW S, NEW n \in Nat, NEW f \in [1..n -> S]
  PROVE  f \in Seq(S) /\ Len(f) = n
<1>1. f \in Seq(S)
  BY SeqDef
<1>2. Len(f) \in Nat /\ 1..Len(f) = 1..n
  BY <1>1, LenProperties
<1>3. CASE Len(f) < n
  BY <1>2, <1>3
<1>4. CASE n < Len(f)
  BY <1>2, <1>4
<1> QED BY <1>1, <1>2, <1>3, <1>4

\* What every command passes on to its loop.  The write commands are only there on
\* a board that did not boot securely, which masks no row.
Sensible(ok, pc, op, row, off, n, vals, lock) ==
  /\ ok \in BOOLEAN /\ lock \in BOOLEAN
  /\ row \in Nat /\ off \in Nat /\ n \in Nat
  /\ vals \in Seq(SUBSET Nat) /\ Len(vals) \in Nat \ {0}
  /\ \/ /\ pc = "write" /\ op \in WriteOps
        /\ ok => \A r \in Rows : (\E j \in 1..Len(vals) : row + j - 1 = r) => ~is_row_masked(r)
     \/ pc = "read" /\ op \in ReadOps /\ (op # "read" => Len(vals) = 1)
  /\ op = "read_1b" => n = 3

\* Every command is an instance of Command with such arguments.
LEMMA CommandsAreSensible ==
  ASSUME OtpCommand
  PROVE  \E ok, pc, op, row, off, n, vals, lock :
           /\ Command(ok, pc, op, row, off, n, vals, lock)
           /\ Sensible(ok, pc, op, row, off, n, vals, lock)
<1> DEFINE Goal == \E ok, pc, op, row, off, n, vals, lock :
                     /\ Command(ok, pc, op, row, off, n, vals, lock)
                     /\ Sensible(ok, pc, op, row, off, n, vals, lock)
<1> SUFFICES Goal
  OBVIOUS
<1>1. PICK r \in ArgRows :
        \/ /\ ~SecureBoot
           /\ \/ \E v \in Values, l \in BOOLEAN : cmd_otp_write(r, v, l)
              \/ \E off \in Offsets, set \in BOOLEAN : cmd_otp_write_1b(r, off, set)
              \/ \E off \in Offsets, v \in Values, n \in Widths :
                   cmd_otp_write_Nb(r, off, v, n)
              \/ \E vs \in Quads : cmd_otp_write_256b(r, vs)
        \/ \E v \in Values : cmd_efuse_write(r, v)
        \/ \E off \in Offsets : cmd_otp_read_1b(r, off)
        \/ \E off \in Offsets, n \in Widths : cmd_otp_read_Nb(r, off, n)
        \/ cmd_otp_read(r) \/ cmd_otp_read_256b(r)
  BY DEF OtpCommand
<1>2. /\ r \in Nat /\ WordBits \in Nat /\ 0 \in Nat /\ 3 \in Nat
      /\ Offsets \subseteq Nat /\ Widths \subseteq Nat
      /\ \A v \in Values : v \in SUBSET Nat
      /\ DataBits \subseteq Nat
  BY OtpAssumption
<1>3. ASSUME NEW v \in SUBSET Nat PROVE <<v>> \in Seq(SUBSET Nat) /\ Len(<<v>>) = 1
  BY <1>3
<1>4. ASSUME NEW rows \in Nat, NEW v \in SUBSET Nat
      PROVE  LET vs == [j \in 1..rows |-> v] IN vs \in Seq(SUBSET Nat) /\ Len(vs) = rows
  <2> DEFINE vs == [j \in 1..rows |-> v]
  <2>1. vs \in [1..rows -> SUBSET Nat]
    OBVIOUS
  <2> QED BY <2>1, OnIntervalIsSeq
<1>5. ~SecureBoot => \A i \in Rows : ~is_row_masked(i)
  BY DEF is_row_masked
<1>6. ASSUME NEW v \in Values, NEW l \in BOOLEAN, ~SecureBoot, cmd_otp_write(r, v, l)
      PROVE  Goal
  <2>1. Command(TRUE, "write", "write", r, 0, WordBits, <<v>>, l)
    BY <1>6 DEF cmd_otp_write
  <2>2. Sensible(TRUE, "write", "write", r, 0, WordBits, <<v>>, l)
    BY <1>2, <1>3, <1>5, <1>6 DEF Sensible, WriteOps
  <2> QED BY <2>1, <2>2
<1>7. ASSUME NEW off \in Offsets, NEW set \in BOOLEAN, ~SecureBoot,
             cmd_otp_write_1b(r, off, set)
      PROVE  Goal
  <2> DEFINE v == IF set THEN {0, 1, 2} ELSE {}
  <2>1. Command(MajorityPlace(r, off), "write", "write", r, off, 3, <<v>>, FALSE)
    BY <1>7 DEF cmd_otp_write_1b
  <2>2. MajorityPlace(r, off) \in BOOLEAN /\ v \in SUBSET Nat
    BY DEF MajorityPlace
  <2> HIDE DEF v
  <2>3. Sensible(MajorityPlace(r, off), "write", "write", r, off, 3, <<v>>, FALSE)
    BY <1>2, <1>3, <1>5, <1>7, <2>2 DEF Sensible, WriteOps
  <2> QED BY <2>1, <2>3
<1>8. ASSUME NEW off \in Offsets, NEW v \in Values, NEW n \in Widths, ~SecureBoot,
             cmd_otp_write_Nb(r, off, v, n)
      PROVE  Goal
  <2>1. Command(off < WordBits, "write", "write", r, off, n, <<v>>, FALSE)
    BY <1>8 DEF cmd_otp_write_Nb
  <2>2. (off < WordBits) \in BOOLEAN
    OBVIOUS
  <2>3. Sensible(off < WordBits, "write", "write", r, off, n, <<v>>, FALSE)
    BY <1>2, <1>3, <1>5, <1>8, <2>2 DEF Sensible, WriteOps
  <2> QED BY <2>1, <2>3
<1>9. ASSUME NEW vs \in Quads, ~SecureBoot, cmd_otp_write_256b(r, vs) PROVE Goal
  <2>1. Command(TRUE, "write", "write", r, 0, WordBits, vs, FALSE)
    BY <1>9 DEF cmd_otp_write_256b
  <2>2. vs \in [1..4 -> SUBSET Nat]
    BY <1>2, OtpAssumption
  <2>3. vs \in Seq(SUBSET Nat) /\ Len(vs) = 4
    BY <2>2, OnIntervalIsSeq
  <2>4. Sensible(TRUE, "write", "write", r, 0, WordBits, vs, FALSE)
    BY <1>2, <1>5, <1>9, <2>3 DEF Sensible, WriteOps
  <2> QED BY <2>1, <2>4
<1>10. ASSUME NEW v \in Values, cmd_efuse_write(r, v) PROVE Goal
  <2> DEFINE ok == r \notin locked /\ ~is_row_masked(r) /\ OldValue(r) \subseteq v
  <2>1. Command(ok, "write", "efuse", r, 0, WordBits, <<v>>, FALSE)
    BY <1>10 DEF cmd_efuse_write
  <2>2. ok \in BOOLEAN /\ (ok => ~is_row_masked(r))
    OBVIOUS
  <2> HIDE DEF ok
  <2>3. \A j \in 1..1 : r + j - 1 = r
    BY <1>2
  <2>4. Sensible(ok, "write", "efuse", r, 0, WordBits, <<v>>, FALSE)
    BY <1>2, <1>3, <2>2, <2>3 DEF Sensible, WriteOps
  <2> QED BY <2>1, <2>4
<1>11. ASSUME NEW off \in Offsets, cmd_otp_read_1b(r, off) PROVE Goal
  <2>1. Command(MajorityPlace(r, off), "read", "read_1b", r, off, 3, <<{}>>, FALSE)
    BY <1>11 DEF cmd_otp_read_1b
  <2>2. MajorityPlace(r, off) \in BOOLEAN
    BY DEF MajorityPlace
  <2>3. Sensible(MajorityPlace(r, off), "read", "read_1b", r, off, 3, <<{}>>, FALSE)
    BY <1>2, <1>3, <2>2 DEF Sensible, ReadOps
  <2> QED BY <2>1, <2>3
<1>12. ASSUME NEW off \in Offsets, NEW n \in Widths, cmd_otp_read_Nb(r, off, n) PROVE Goal
  <2>1. Command(off < WordBits, "read", "read_Nb", r, off, n, <<{}>>, FALSE)
    BY <1>12 DEF cmd_otp_read_Nb
  <2>2. (off < WordBits) \in BOOLEAN
    OBVIOUS
  <2>3. Sensible(off < WordBits, "read", "read_Nb", r, off, n, <<{}>>, FALSE)
    BY <1>2, <1>3, <2>2 DEF Sensible, ReadOps
  <2> QED BY <2>1, <2>3
<1>13. ASSUME NEW rows \in {1, 4}, ReadRows(r, rows) PROVE Goal
  <2> DEFINE vs == [j \in 1..rows |-> {}]
  <2>1. Command(TRUE, "read", "read", r, 0, WordBits, vs, FALSE)
    BY <1>13 DEF ReadRows
  <2>2. vs \in Seq(SUBSET Nat) /\ Len(vs) = rows
    BY <1>4
  <2> HIDE DEF vs
  <2>3. Sensible(TRUE, "read", "read", r, 0, WordBits, vs, FALSE)
    BY <1>2, <2>2 DEF Sensible, ReadOps
  <2> QED BY <2>1, <2>3
<1> HIDE DEF Goal
<1> QED
  BY <1>1, <1>6, <1>7, <1>8, <1>9, <1>10, <1>11, <1>12, <1>13
     DEF cmd_otp_read, cmd_otp_read_256b

\* The steps of the commands are steps of a client of the fuses.
LEMMA OtpIsAny == CmdInv /\ [ONext]_ovars => AnyStep
<1> SUFFICES ASSUME CmdInv, [ONext]_ovars PROVE AnyStep
  OBVIOUS
<1>1. CASE OtpCommand \/ WriteReturned \/ UNCHANGED ovars
  <2>1. OtpCommand => UNCHANGED evars
    BY CommandsAreSensible DEF Command
  <2>2. UNCHANGED evars
    BY <1>1, <2>1 DEF WriteReturned, ovars
  <2> QED BY <2>2 DEF AnyStep
<1>2. CASE WriteRow
  <2>1. CASE Row \notin Rows
    BY <1>2, <2>1 DEF WriteRow, AnyStep
  <2>2. CASE Row \in Rows
    <3>1. efuse_write_row_no_ecc(Row, c.vals[c.k], c.lock) /\ c.pc = "write"
      BY <1>2, <2>2 DEF WriteRow
    <3>2. c.lock \in BOOLEAN /\ c.vals \in Seq(SUBSET DataBits) /\ c.k \in 1..Len(c.vals)
      BY <3>1 DEF CmdInv
    <3>3. c.vals[c.k] \in SUBSET RowBits
      BY <3>2 DEF RowBits
    <3> QED BY <2>2, <3>1, <3>2, <3>3 DEF AnyStep, Calling
  <2> QED BY <2>1, <2>2
<1>3. CASE ReadRow
  <2>1. UNCHANGED evars \/ ClientFault
    BY <1>3 DEF ReadRow, ClientFault, array, evars
  <2> QED BY <2>1 DEF AnyStep
<1>4. CASE OtpPowerLoss \/ EfuseStep
  BY <1>4 DEF OtpPowerLoss, AnyStep
<1> QED BY <1>1, <1>2, <1>3, <1>4 DEF ONext

\* Bits only come, and only those of a write in progress, to its row.
LEMMA FuseGrows ==
  ASSUME ETypeOK, AnyStep, NEW r \in Rows
  PROVE  /\ fuse[r] \subseteq fuse'[r]
         /\ \/ fuse'[r] = fuse[r]
            \/ wf.pc = "pulse" /\ wf.row = r /\ fuse'[r] \subseteq fuse[r] \cup wf.val
<1>1. ASSUME wf.pc = "pulse", NEW blown \in SUBSET wf.val, Pulsed(blown)
      PROVE  \/ fuse'[r] = fuse[r]
             \/ wf.row = r /\ fuse'[r] = fuse[r] \cup blown
  BY <1>1, InUse DEF Pulsed, ETypeOK, ArrayOK, WFrames
<1> QED BY <1>1, ArrayFrame

\* While no function runs, none goes on.
LEMMA NothingRuns == ~Busy => ~EfuseStep
BY DEF Busy, EfuseStep, NoEccStep, NoEccBody, WithEccStep, WTimeout, WRead,
       efuse_write_enable, efuse_raw_write, efuse_write_disable, WVerify, efuse_raw_lock,
       WLockVerify, WDone, ETimeout, EStart, EEcc, ERow, EEccRow, EVerify,
       EDone, WAt, EAt

\* A step of the function that writes a row: it goes on with the same call, with
\* at most the bits of the row added to its value, or it returns.
LEMMA WriteGoesOn ==
  ASSUME ETypeOK, EfuseStep, ef.pc = "idle"
  PROVE  /\ wf \in WFrames /\ wf.pc # "idle" /\ ef' = ef
         /\ \/ wf' = NoFrame /\ wf.pc = "done" /\ UNCHANGED <<fuse, res>>
            \/ /\ wf'.pc # "idle" /\ wf'.row = wf.row /\ wf'.req = wf.req
               /\ wf'.val \subseteq wf.val \cup RawRead(wf.row)
<1>1. CASE WDone
  BY <1>1, InUse DEF WDone, WAt
<1>2. CASE NoEccBody
  <2>1. wf \in WFrames /\ wf.pc # "idle" /\ ef' = ef
    BY <1>2, BodyInUse
  <2>2. wf'.row = wf.row /\ wf'.req = wf.req /\ wf'.pc # "idle"
    BY <1>2, <2>1, WStepSame, BodyReads
  <2>3. wf'.val \subseteq wf.val \cup RawRead(wf.row)
    BY <1>2, <2>1, BodyMoves DEF BodyMove, WFrames
  <2> QED BY <2>1, <2>2, <2>3
<1>3. ~WithEccStep
  BY DEF WithEccStep, ETimeout, EStart, EEcc, ERow, EEccRow, EVerify, EDone, EAt
<1> QED BY <1>1, <1>2, <1>3 DEF EfuseStep, NoEccStep

-----------------------------------------------------------------------------
(***************************************************************************)
(* The steps.                                                              *)
(***************************************************************************)
OwnInv == CmdInv /\ CallInv /\ AskedInv /\ ProgressInv /\ ReadInv

\* A command begins, or is refused.
LEMMA CommandStep ==
  ASSUME ETypeOK, OwnInv,
         NEW ok, NEW pc, NEW op, NEW row, NEW off, NEW n, NEW vals, NEW lock,
         Command(ok, pc, op, row, off, n, vals, lock),
         Sensible(ok, pc, op, row, off, n, vals, lock)
  PROVE  OwnInv'
<1>1. /\ c.pc \in {"idle", "reply"} /\ ~Busy /\ UNCHANGED <<evars, confirmed>>
      /\ row \in Nat /\ off \in Nat /\ n \in Nat /\ lock \in BOOLEAN /\ ok \in BOOLEAN
      /\ vals \in Seq(SUBSET Nat) /\ Len(vals) \in Nat \ {0}
      /\ op = "read_1b" => n = 3
  BY DEF Command, CmdIdle, Sensible
<1>2. UNCHANGED <<fuse, locked, wf, ef, res>>
  BY <1>1 DEF evars
<1> DEFINE shifted == [j \in 1..Len(vals) |-> Shifted(Low(vals[j], n), off)]
           meant   == [j \in 1..Len(vals) |-> Meant(vals[j], off, n)]
<1>3. \A j \in 1..Len(vals) : vals[j] \in SUBSET Nat
  BY <1>1
<1>4. /\ shifted = meant /\ meant \in Seq(SUBSET DataBits) /\ Len(meant) = Len(vals)
      /\ \A j \in 1..Len(vals) : meant[j] = Meant(vals[j], off, n)
  <2>1. \A j \in 1..Len(vals) : /\ Shifted(Low(vals[j], n), off) = Meant(vals[j], off, n)
                                /\ Meant(vals[j], off, n) \subseteq DataBits
    BY <1>1, <1>3, ShiftedIsMeant
  <2>2. meant \in [1..Len(vals) -> SUBSET DataBits]
    BY <2>1
  <2> QED BY <1>1, <2>1, <2>2, OnIntervalIsSeq
<1>5. /\ c' = [pc |-> IF ok THEN pc ELSE "reply", sts |-> IF ok THEN "none" ELSE "EINVAL",
               op |-> op, row |-> row, off |-> off, n |-> n, lock |-> lock,
               k |-> 1, out |-> <<>>, old |-> fuse, vals |-> shifted, meant |-> meant]
      /\ asked' = IF ~ok THEN asked
                  ELSE [r \in Rows |-> asked[r] \cup
                          UNION {Meant(vals[j], off, n) : j \in {i \in 1..Len(vals) :
                                                                   row + i - 1 = r}}]
  BY DEF Command
<1> HIDE DEF shifted, meant
<1>6. /\ DOMAIN c' = CmdFields
      /\ c'.pc = (IF ok THEN pc ELSE "reply") /\ c'.sts = (IF ok THEN "none" ELSE "EINVAL")
      /\ c'.op = op /\ c'.row = row /\ c'.off = off /\ c'.n = n /\ c'.lock = lock /\ c'.k = 1
      /\ c'.out = <<>> /\ c'.old = fuse /\ c'.vals = meant /\ c'.meant = meant
  BY <1>4, <1>5 DEF CmdFields
<1>7. /\ wf.pc = "idle" /\ ef.pc = "idle"
  BY <1>1 DEF Busy
<1>8. \/ pc = "write" /\ op \in WriteOps
      \/ pc = "read" /\ op \in ReadOps /\ (op # "read" => Len(vals) = 1)
  BY DEF Sensible
<1>9. \A j : Within(j)' <=> j \in 1..Len(vals) /\ row + j - 1 \in Rows
  BY <1>4, <1>6 DEF Within, RowOf
<1>10. c'.pc \in {"write", "wait"} => ok /\ pc = "write"
  BY <1>1, <1>6, <1>8
<1>11. CmdInv'
  <2>1. c'.pc \in {"idle", "write", "wait", "read", "reply"}
    BY <1>6, <1>8
  <2>2. 1 \in 1..Len(vals)
    BY <1>1
  <2>3. c'.pc \in {"write", "wait"} => \A j : Within(j)' => ~is_row_masked(RowOf(j)')
    <3>1. ASSUME ok, pc = "write", NEW j \in 1..Len(vals), row + j - 1 \in Rows
          PROVE  ~is_row_masked(row + j - 1)
      BY <3>1 DEF Sensible
    <3> QED BY <1>6, <1>9, <1>10, <3>1 DEF RowOf
  <2>4. c'.pc \in {"write", "wait"} => c'.op \in WriteOps
    BY <1>6, <1>8, <1>10
  <2>5. /\ c'.row \in Nat /\ c'.off \in Nat /\ c'.n \in Nat /\ c'.lock \in BOOLEAN
        /\ c'.vals \in Seq(SUBSET DataBits) /\ c'.meant = c'.vals
        /\ c'.k \in 1..Len(c'.vals)
    BY <1>1, <1>4, <1>6, <2>2
  <2> QED BY <1>6, <2>1, <2>3, <2>4, <2>5 DEF CmdInv, is_row_masked
<1>12. CallInv'
  <2>1. c'.pc # "wait"
    BY <1>6, <1>8
  <2> QED BY <1>2, <1>7, <2>1 DEF CallInv
<1>13. AskedInv'
  <2>1. asked \in [Rows -> SUBSET DataBits] /\ OnlyAskedBits
    BY DEF OwnInv, AskedInv
  <2>2. asked' \in [Rows -> SUBSET DataBits]
    <3>1. \A r \in Rows : UNION {Meant(vals[j], off, n) : j \in {i \in 1..Len(vals) :
                                   row + i - 1 = r}} \subseteq DataBits
      BY DEF Meant
    <3> QED BY <1>5, <2>1, <3>1
  <2>3. \A r \in Rows : asked[r] \subseteq asked'[r]
    BY <1>5, <2>1
  <2>4. OnlyAskedBits'
    BY <1>2, <2>1, <2>3 DEF OnlyAskedBits
  <2>5. ASSUME ok, NEW j \in 1..Len(vals), row + j - 1 \in Rows
        PROVE  meant[j] \subseteq asked'[row + j - 1]
    BY <1>4, <1>5, <2>5
  <2>6. c'.pc \in {"write", "wait"} =>
          \A j : Within(j)' => c'.vals[j] \subseteq asked'[RowOf(j)']
    BY <1>6, <1>9, <1>10, <2>5 DEF RowOf
  <2>7. /\ confirmed' \in [Rows -> SUBSET DataBits]
        /\ \A r \in Rows : confirmed'[r] \subseteq fuse'[r]
    BY <1>1, <1>2 DEF OwnInv, AskedInv
  <2> QED BY <1>2, <1>7, <2>2, <2>4, <2>6, <2>7 DEF AskedInv
<1>14. ProgressInv'
  <2>1. ASSUME NEW j \in 1..Len(vals)
        PROVE  ~(j < 1)
    OBVIOUS
  <2>2. \A j : Within(j)' => ~(j < c'.k) /\ fuse'[RowOf(j)'] = c'.old[RowOf(j)']
    BY <1>2, <1>6, <1>9, <2>1
  <2>3. c'.sts # "OK"
    BY <1>6
  <2>4. WritesAreAPrefix'
    BY <1>4, <1>6, <2>2, <2>3 DEF WritesAreAPrefix, Within, RowOf
  <2> QED BY <2>2, <2>4 DEF ProgressInv
<1>15. ReadInv'
  <2>1. c'.pc = "read" => pc = "read"
    BY <1>6
  <2>2. c'.pc = "read" =>
          c'.op \in ReadOps /\ (c'.op # "read" => Len(c'.vals) = 1 /\ c'.out = <<>>)
    BY <1>4, <1>6, <1>8, <2>1 DEF WriteOps
  <2> QED BY <1>1, <1>6, <2>2 DEF ReadInv
<1> QED BY <1>11, <1>12, <1>13, <1>14, <1>15 DEF OwnInv

\* While a row is written only that row changes, towards what was asked.
LEMMA WritingStep ==
  ASSUME EfuseInv, OwnInv, EfuseStep, UNCHANGED <<c, asked, confirmed>>
  PROVE  OwnInv'
<1>1. ETypeOK /\ PlainWriteVerified /\ AnyStep /\ ef.pc = "idle"
  BY DEF EfuseInv, WriteInv, AnyStep, OwnInv, CallInv
<1>2. /\ wf \in WFrames /\ wf.pc # "idle" /\ ef' = ef
      /\ \/ wf' = NoFrame /\ wf.pc = "done" /\ UNCHANGED <<fuse, res>>
         \/ /\ wf'.pc # "idle" /\ wf'.row = wf.row /\ wf'.req = wf.req
            /\ wf'.val \subseteq wf.val \cup RawRead(wf.row)
  BY <1>1, WriteGoesOn
<1>3. c.pc = "wait" /\ wf.row = Row /\ wf.req = c.vals[c.k] /\ Row \in Rows
  BY <1>2 DEF OwnInv, CallInv
<1>4. /\ c.row \in Nat /\ c.k \in 1..Len(c.vals) /\ c.vals \in Seq(SUBSET DataBits)
      /\ \A j : Within(j) => ~is_row_masked(RowOf(j))
  BY <1>3 DEF OwnInv, CmdInv
<1>5. Within(c.k) /\ RowOf(c.k) = Row
  BY <1>3, <1>4 DEF Within, RowOf, Row
<1>6. CmdInv'
  BY DEF OwnInv, CmdInv, Within, RowOf, is_row_masked
<1>7. /\ \A r \in Rows : fuse[r] \subseteq fuse'[r]
      /\ \A r \in Rows : r # Row => fuse'[r] = fuse[r]
      /\ fuse'[Row] \subseteq fuse[Row] \cup wf.val
  BY <1>1, <1>3, FuseGrows
<1>8. CallInv'
  <2>1. CASE wf'.pc # "idle" /\ wf'.row = wf.row /\ wf'.req = wf.req
    BY <1>1, <1>2, <1>3, <2>1 DEF CallInv, Row, Busy
  <2>2. CASE wf' = NoFrame /\ wf.pc = "done" /\ UNCHANGED <<fuse, res>>
    <3>1. ~is_row_masked(Row)
      BY <1>4, <1>5
    <3>2. res = "OK" => c.vals[c.k] \subseteq fuse[Row]
      BY <1>3, <2>2, <3>1, <1>1 DEF PlainWriteVerified
    <3>3. wf'.pc = "idle"
      BY <2>2 DEF NoFrame
    <3> QED BY <1>1, <1>2, <1>3, <2>2, <3>2, <3>3 DEF CallInv, Row
  <2> QED BY <1>2, <2>1, <2>2
<1>9. AskedInv'
  <2>1. /\ \A r \in Rows : fuse[r] \subseteq asked[r]
        /\ wf.val \subseteq asked[Row]
        /\ \A r \in Rows : confirmed[r] \subseteq fuse[r]
    BY <1>2, <1>3 DEF OwnInv, AskedInv, OnlyAskedBits
  <2>2. OnlyAskedBits'
    <3>1. ASSUME NEW r \in Rows PROVE fuse'[r] \subseteq asked[r]
      BY <1>3, <1>7, <2>1
    <3> QED BY <3>1 DEF OnlyAskedBits
  <2>3. wf'.pc # "idle" => wf'.val \subseteq asked'[wf'.row]
    <3>1. CASE wf' = NoFrame
      BY <3>1 DEF NoFrame
    <3>2. CASE wf'.row = wf.row /\ wf'.val \subseteq wf.val \cup RawRead(wf.row)
      <4>1. RawRead(Row) \subseteq fuse[Row]
        BY DEF RawRead
      <4> QED BY <1>3, <2>1, <3>2, <4>1
    <3> QED BY <1>2, <3>1, <3>2
  <2>4. \A r \in Rows : confirmed'[r] \subseteq fuse'[r]
    BY <1>7, <2>1
  <2> QED BY <2>2, <2>3, <2>4 DEF OwnInv, AskedInv, Within, RowOf
<1>10. ProgressInv'
  <2>1. ASSUME NEW j, Within(j)
        PROVE  /\ j < c.k => c.vals[j] \subseteq fuse'[RowOf(j)]
               /\ j > c.k => fuse'[RowOf(j)] = c.old[RowOf(j)]
    <3>1. /\ j < c.k => c.vals[j] \subseteq fuse[RowOf(j)]
          /\ j > c.k => fuse[RowOf(j)] = c.old[RowOf(j)]
      BY <1>3, <2>1 DEF OwnInv, ProgressInv
    <3>2. RowOf(j) \in Rows /\ (j > c.k => RowOf(j) # Row)
      BY <1>4, <2>1 DEF Within, RowOf, Row
    <3> QED BY <1>7, <3>1, <3>2
  <2>2. WritesAreAPrefix'
    BY <1>3 DEF WritesAreAPrefix, Replied
  <2> QED BY <2>1, <2>2 DEF ProgressInv, Within, RowOf
<1>11. ReadInv'
  BY <1>3 DEF OwnInv, ReadInv, Replied
<1> QED BY <1>6, <1>8, <1>9, <1>10, <1>11 DEF OwnInv

\* The loop of a command hands the next row on, or gives up.
LEMMA WriteRowStep ==
  ASSUME EfuseInv, OwnInv, WriteRow
  PROVE  OwnInv'
<1>1. c.pc = "write" /\ ~Busy /\ UNCHANGED <<asked, confirmed, fuse>>
  BY DEF WriteRow, evars, efuse_write_row_no_ecc
<1>2. /\ DOMAIN c = CmdFields /\ c.row \in Nat /\ c.off \in Nat /\ c.n \in Nat
      /\ c.lock \in BOOLEAN /\ c.vals \in Seq(SUBSET DataBits) /\ c.meant = c.vals
      /\ c.k \in 1..Len(c.vals) /\ c.op \in WriteOps
      /\ \A j : Within(j) => ~is_row_masked(RowOf(j))
  BY <1>1 DEF OwnInv, CmdInv
<1>3. \A x : LET d == [c EXCEPT !.pc = "reply", !.sts = x] IN
        /\ DOMAIN d = CmdFields /\ d.pc = "reply" /\ d.sts = x /\ d.op = c.op
        /\ d.row = c.row /\ d.off = c.off /\ d.n = c.n /\ d.lock = c.lock /\ d.k = c.k
        /\ d.out = c.out /\ d.old = c.old /\ d.vals = c.vals /\ d.meant = c.meant
  BY <1>2 DEF CmdFields
<1>4. CASE Row \notin Rows
  <2>1. Reply("EINVAL") /\ UNCHANGED evars
    BY <1>4 DEF WriteRow
  <2>2. /\ DOMAIN c' = CmdFields /\ c'.pc = "reply" /\ c'.sts = "EINVAL" /\ c'.op = c.op
        /\ c'.row = c.row /\ c'.off = c.off /\ c'.n = c.n /\ c'.lock = c.lock /\ c'.k = c.k
        /\ c'.out = c.out /\ c'.old = c.old /\ c'.vals = c.vals /\ c'.meant = c.meant
    BY <1>3, <2>1 DEF Reply
  <2>3. UNCHANGED <<wf, ef, fuse, res>>
    BY <2>1 DEF evars
  <2>4. CmdInv'
    BY <1>2, <2>2 DEF CmdInv
  <2>5. CallInv' /\ AskedInv'
    BY <1>1, <2>2, <2>3 DEF OwnInv, CallInv, AskedInv, OnlyAskedBits, Busy
  <2>6. ProgressInv'
    <3>1. \A j : Within(j) => /\ j < c.k => c.vals[j] \subseteq fuse[RowOf(j)]
                              /\ j > c.k => fuse[RowOf(j)] = c.old[RowOf(j)]
      BY <1>1 DEF OwnInv, ProgressInv
    <3>2. WritesAreAPrefix'
      BY <1>1, <1>2, <2>2, <3>1 DEF WritesAreAPrefix, Within, RowOf
    <3> QED BY <2>2, <3>2 DEF ProgressInv
  <2>7. ReadInv'
    BY <1>2, <2>2 DEF ReadInv, Replied, WriteOps
  <2> QED BY <2>4, <2>5, <2>6, <2>7 DEF OwnInv
<1>5. CASE Row \in Rows
  <2>1. /\ efuse_write_row_no_ecc(Row, c.vals[c.k], c.lock)
        /\ c' = [c EXCEPT !.pc = "wait"]
    BY <1>5 DEF WriteRow
  <2>2. /\ DOMAIN c' = CmdFields /\ c'.pc = "wait" /\ c'.op = c.op
        /\ c'.row = c.row /\ c'.off = c.off /\ c'.n = c.n /\ c'.lock = c.lock /\ c'.k = c.k
        /\ c'.old = c.old /\ c'.vals = c.vals /\ c'.meant = c.meant
    BY <1>2, <2>1 DEF CmdFields
  <2>3. /\ wf'.pc = "read" /\ wf'.row = Row /\ wf'.val = c.vals[c.k] /\ wf'.req = c.vals[c.k]
        /\ ef' = ef
    BY <2>1 DEF efuse_write_row_no_ecc, WFrame
  <2>4. Row' = Row /\ (\A j : RowOf(j)' = RowOf(j) /\ Within(j)' = Within(j))
    BY <2>2 DEF Row, RowOf, Within
  <2>5. Within(c.k) /\ RowOf(c.k) = Row
    BY <1>2, <1>5 DEF Within, RowOf, Row
  <2>6. CmdInv'
    BY <1>2, <2>2, <2>4 DEF CmdInv, is_row_masked
  <2>7. CallInv'
    BY <1>5, <2>2, <2>3, <2>4 DEF OwnInv, CallInv, Busy
  <2>8. AskedInv'
    <3>1. c.vals[c.k] \subseteq asked[Row]
      BY <1>1, <2>5 DEF OwnInv, AskedInv
    <3> QED BY <1>1, <2>2, <2>3, <2>4, <3>1 DEF OwnInv, AskedInv, OnlyAskedBits
  <2>9. ProgressInv'
    BY <1>1, <2>2, <2>4 DEF OwnInv, ProgressInv, WritesAreAPrefix, Replied
  <2>10. ReadInv'
    BY <1>2, <2>2 DEF ReadInv, Replied, WriteOps
  <2> QED BY <2>6, <2>7, <2>8, <2>9, <2>10 DEF OwnInv
<1> QED BY <1>4, <1>5

\* A row is written, or was not: the next one, or the reply.
LEMMA WriteReturnedStep ==
  ASSUME EfuseInv, OwnInv, WriteReturned
  PROVE  OwnInv'
<1>1. c.pc = "wait" /\ ~Busy /\ UNCHANGED <<asked, fuse, wf, ef, res>> /\ NextRow
  BY DEF WriteReturned, evars
<1>2. /\ DOMAIN c = CmdFields /\ c.row \in Nat /\ c.off \in Nat /\ c.n \in Nat
      /\ c.lock \in BOOLEAN /\ c.vals \in Seq(SUBSET DataBits) /\ c.meant = c.vals
      /\ c.k \in 1..Len(c.vals) /\ c.op \in WriteOps
      /\ \A j : Within(j) => ~is_row_masked(RowOf(j))
  BY <1>1 DEF OwnInv, CmdInv
<1>3. /\ Row \in Rows /\ (res = "OK" => c.vals[c.k] \subseteq fuse[Row])
      /\ wf.pc = "idle" /\ ef.pc = "idle"
  BY <1>1 DEF OwnInv, CallInv, Busy
<1>4. Within(c.k) /\ RowOf(c.k) = Row
  BY <1>2, <1>3 DEF Within, RowOf, Row
<1>5. \A j : Within(j) => /\ j < c.k => c.vals[j] \subseteq fuse[RowOf(j)]
                          /\ j > c.k => fuse[RowOf(j)] = c.old[RowOf(j)]
  BY <1>1 DEF OwnInv, ProgressInv
<1>6. /\ confirmed' \in [Rows -> SUBSET DataBits]
      /\ \A r \in Rows : confirmed'[r] \subseteq fuse[r]
  <2>1. /\ confirmed \in [Rows -> SUBSET DataBits]
        /\ \A r \in Rows : confirmed[r] \subseteq fuse[r]
    BY DEF OwnInv, AskedInv
  <2>2. CASE res # "OK"
    BY <2>1, <2>2 DEF WriteReturned
  <2>3. CASE res = "OK"
    <3>1. confirmed' = [confirmed EXCEPT ![Row] = @ \cup c.vals[c.k]]
      BY <1>2, <2>3 DEF WriteReturned
    <3>2. c.vals[c.k] \in SUBSET DataBits
      BY <1>2
    <3> QED BY <1>3, <2>1, <2>3, <3>1, <3>2
  <2> QED BY <2>2, <2>3
<1>7. ASSUME NEW x, c' = [c EXCEPT !.pc = "reply", !.sts = x],
             x = "OK" => res = "OK" /\ c.k = Len(c.vals)
      PROVE  OwnInv'
  <2>1. /\ DOMAIN c' = CmdFields /\ c'.pc = "reply" /\ c'.sts = x /\ c'.op = c.op
        /\ c'.row = c.row /\ c'.off = c.off /\ c'.n = c.n /\ c'.lock = c.lock /\ c'.k = c.k
        /\ c'.out = c.out /\ c'.old = c.old /\ c'.vals = c.vals /\ c'.meant = c.meant
    BY <1>2, <1>7 DEF CmdFields
  <2>2. CmdInv'
    BY <1>2, <2>1 DEF CmdInv
  <2>3. CallInv' /\ AskedInv'
    BY <1>1, <1>3, <1>6, <2>1 DEF OwnInv, CallInv, AskedInv, OnlyAskedBits
  <2>4. ProgressInv'
    <3>1. ASSUME x = "OK", NEW j, Within(j) PROVE c.vals[j] \subseteq fuse[RowOf(j)]
      <4>1. j < c.k \/ j = c.k
        BY <1>2, <1>7, <3>1 DEF Within
      <4> QED BY <1>3, <1>4, <1>5, <1>7, <3>1, <4>1
    <3>2. WritesAreAPrefix'
      BY <1>1, <1>2, <1>5, <2>1, <3>1 DEF WritesAreAPrefix, Within, RowOf
    <3> QED BY <2>1, <3>2 DEF ProgressInv
  <2>5. ReadInv'
    BY <1>2, <2>1 DEF ReadInv, Replied, WriteOps
  <2> QED BY <2>2, <2>3, <2>4, <2>5 DEF OwnInv
<1>8. ASSUME res = "OK", c.k < Len(c.vals), c' = [c EXCEPT !.pc = "write", !.k = c.k + 1]
      PROVE  OwnInv'
  <2>1. /\ DOMAIN c' = CmdFields /\ c'.pc = "write" /\ c'.op = c.op
        /\ c'.row = c.row /\ c'.off = c.off /\ c'.n = c.n /\ c'.lock = c.lock
        /\ c'.k = c.k + 1 /\ c'.old = c.old /\ c'.vals = c.vals /\ c'.meant = c.meant
    BY <1>2, <1>8 DEF CmdFields
  <2>2. \A j : RowOf(j)' = RowOf(j) /\ Within(j)' = Within(j)
    BY <2>1 DEF RowOf, Within
  <2>3. CmdInv'
    <3>1. c.k + 1 \in 1..Len(c.vals)
      BY <1>2, <1>8
    <3> QED BY <1>2, <2>1, <2>2, <3>1 DEF CmdInv, is_row_masked
  <2>4. CallInv' /\ AskedInv'
    BY <1>1, <1>3, <1>6, <2>1, <2>2 DEF OwnInv, CallInv, AskedInv, OnlyAskedBits
  <2>5. ProgressInv'
    <3>1. ASSUME NEW j, Within(j)
          PROVE  /\ j < c.k + 1 => c.vals[j] \subseteq fuse[RowOf(j)]
                 /\ j > c.k + 1 => fuse[RowOf(j)] = c.old[RowOf(j)]
      <4>1. /\ j < c.k + 1 => j < c.k \/ j = c.k
            /\ j > c.k + 1 => j > c.k
        BY <1>2, <3>1 DEF Within
      <4> QED BY <1>3, <1>4, <1>5, <1>8, <3>1, <4>1
    <3>2. WritesAreAPrefix'
      BY <2>1 DEF WritesAreAPrefix, Replied
    <3> QED BY <1>1, <2>1, <2>2, <3>1, <3>2 DEF ProgressInv
  <2>6. ReadInv'
    BY <1>2, <2>1 DEF ReadInv, Replied, WriteOps
  <2> QED BY <2>3, <2>4, <2>5, <2>6 DEF OwnInv
<1>9. CASE res # "OK"
  BY <1>1, <1>7, <1>9 DEF NextRow, Reply
<1>10. CASE res = "OK" /\ c.k < Len(c.vals)
  BY <1>1, <1>8, <1>10 DEF NextRow
<1>11. CASE res = "OK" /\ ~(c.k < Len(c.vals))
  <2>1. c.k = Len(c.vals)
    BY <1>2, <1>11
  <2> QED BY <1>1, <1>7, <1>11, <2>1 DEF NextRow, Reply
<1> QED BY <1>9, <1>10, <1>11

\* A row is read, or is refused, or the reading fails; the fuses stay.
LEMMA ReadRowStep ==
  ASSUME EfuseInv, OwnInv, ReadRow
  PROVE  OwnInv'
<1>1. c.pc = "read" /\ UNCHANGED <<asked, confirmed, fuse, wf, ef, res>>
  BY DEF ReadRow, array
<1>2. /\ DOMAIN c = CmdFields /\ c.row \in Nat /\ c.off \in Nat /\ c.n \in Nat
      /\ c.lock \in BOOLEAN /\ c.vals \in Seq(SUBSET DataBits) /\ c.meant = c.vals
      /\ c.k \in 1..Len(c.vals)
  BY <1>1 DEF OwnInv, CmdInv
<1>3. wf.pc = "idle" /\ ef.pc = "idle"
  BY <1>1 DEF OwnInv, CallInv
<1>4. /\ c.op \in ReadOps /\ (c.op # "read" => Len(c.vals) = 1 /\ c.out = <<>>)
      /\ c.op = "read_1b" => c.n = 3
  BY <1>1 DEF OwnInv, ReadInv
<1>5. ASSUME NEW pc \in {"read", "reply"}, NEW x, NEW out, NEW m,
             \/ c' = [c EXCEPT !.pc = pc, !.sts = x] /\ out = c.out /\ m = c.k
             \/ c' = [c EXCEPT !.out = out, !.k = m, !.pc = pc, !.sts = x],
             pc = "read" => m \in 1..Len(c.vals) /\ c.op = "read",
             x = "OK" /\ pc = "reply" /\ c.op # "read" =>
               c.row \in Rows /\ out = <<Shape(fuse[c.row])>>
      PROVE  OwnInv'
  <2>1. /\ DOMAIN c' = CmdFields /\ c'.pc = pc /\ c'.sts = x /\ c'.op = c.op
        /\ c'.row = c.row /\ c'.off = c.off /\ c'.n = c.n /\ c'.lock = c.lock /\ c'.k = m
        /\ c'.out = out /\ c'.old = c.old /\ c'.vals = c.vals /\ c'.meant = c.meant
    BY <1>2, <1>5 DEF CmdFields
  <2>2. CmdInv'
    BY <1>2, <1>5, <2>1 DEF CmdInv
  <2>3. CallInv' /\ AskedInv'
    BY <1>1, <1>3, <1>5, <2>1 DEF OwnInv, CallInv, AskedInv, OnlyAskedBits
  <2>4. ProgressInv'
    BY <1>4, <1>5, <2>1 DEF ProgressInv, WritesAreAPrefix, Replied, ReadOps
  <2>5. ReadInv'
    <3>1. \A v : Shape(v)' = Shape(v)
      BY <2>1 DEF Shape, Field
    <3> QED BY <1>1, <1>4, <1>5, <2>1, <3>1 DEF ReadInv, Replied, ReadOps
  <2> QED BY <2>2, <2>3, <2>4, <2>5 DEF OwnInv
<1>6. ASSUME NEW x, x # "OK", Reply(x) PROVE OwnInv'
  BY <1>5, <1>6 DEF Reply
<1>7. CASE /\ Row \in Rows
           /\ c' = [c EXCEPT !.out = Append(@, Shape(fuse[Row])), !.k = @ + 1,
                             !.pc  = IF c.k < Len(c.vals) THEN "read" ELSE "reply",
                             !.sts = IF c.k < Len(c.vals) THEN @ ELSE "OK"]
  <2> DEFINE pc  == IF c.k < Len(c.vals) THEN "read" ELSE "reply"
             sts == IF c.k < Len(c.vals) THEN c.sts ELSE "OK"
             out == Append(c.out, Shape(fuse[Row]))
  <2>0. Len(c.vals) \in Nat /\ c.k \in Nat /\ 1 <= c.k /\ c.k <= Len(c.vals)
    BY <1>2
  <2>1. c' = [c EXCEPT !.out = out, !.k = c.k + 1, !.pc = pc, !.sts = sts]
    BY <1>7
  <2>2. pc \in {"read", "reply"}
    OBVIOUS
  <2>3. pc = "read" => c.k + 1 \in 1..Len(c.vals) /\ c.op = "read"
    <3>1. pc = "read" => c.k < Len(c.vals)
      OBVIOUS
    <3>2. \A a, b \in Nat : 1 <= a /\ a < b => a + 1 \in 1..b /\ b # 1
      OBVIOUS
    <3>3. c.k < Len(c.vals) => c.k + 1 \in 1..Len(c.vals) /\ Len(c.vals) # 1
      BY <2>0, <3>2
    <3> QED BY <1>4, <3>1, <3>3
  <2>4. c.op # "read" => c.row \in Rows /\ out = <<Shape(fuse[c.row])>>
    <3> SUFFICES ASSUME c.op # "read" PROVE c.row \in Rows /\ out = <<Shape(fuse[c.row])>>
      OBVIOUS
    <3>1. Len(c.vals) = 1 /\ c.out = <<>>
      BY <1>4
    <3>2. c.k = 1
      BY <2>0, <3>1
    <3>3. Row = c.row
      BY <1>2, <3>2 DEF Row
    <3>4. Append(<<>>, Shape(fuse[Row])) = <<Shape(fuse[Row])>>
      OBVIOUS
    <3> QED BY <1>7, <3>1, <3>3, <3>4
  <2> HIDE DEF pc, sts, out
  <2> QED BY <1>5, <2>1, <2>2, <2>3, <2>4
<1> QED BY <1>6, <1>7 DEF ReadRow

\* After a power loss there is no command, and only more of what was asked for.
LEMMA OtpLossStep ==
  ASSUME EfuseInv, OwnInv, OtpPowerLoss
  PROVE  OwnInv'
<1>1. /\ PowerLoss /\ c' = [pc |-> "idle"] /\ UNCHANGED <<asked, confirmed>>
      /\ AnyStep /\ ETypeOK
  BY DEF OtpPowerLoss, AnyStep, EfuseInv
<1>2. c'.pc = "idle" /\ wf'.pc = "idle" /\ ef'.pc = "idle"
  BY <1>1 DEF PowerLoss, NoFrame
<1>3. \A r \in Rows : /\ fuse[r] \subseteq fuse'[r]
                      /\ fuse'[r] \subseteq asked[r]
  <2> SUFFICES ASSUME NEW r \in Rows
               PROVE  fuse[r] \subseteq fuse'[r] /\ fuse'[r] \subseteq asked[r]
    OBVIOUS
  <2>1. /\ fuse[r] \subseteq fuse'[r]
        /\ \/ fuse'[r] = fuse[r]
           \/ wf.pc = "pulse" /\ wf.row = r /\ fuse'[r] \subseteq fuse[r] \cup wf.val
    BY <1>1, FuseGrows
  <2> QED BY <2>1 DEF OwnInv, AskedInv, OnlyAskedBits
<1>4. CmdInv' /\ CallInv'
  BY <1>2 DEF CmdInv, CallInv
<1>5. AskedInv'
  <2>1. \A r \in Rows : confirmed'[r] \subseteq fuse'[r]
    BY <1>1, <1>3 DEF OwnInv, AskedInv
  <2> QED BY <1>1, <1>2, <1>3, <2>1 DEF OwnInv, AskedInv, OnlyAskedBits
<1>6. ProgressInv' /\ ReadInv'
  BY <1>2 DEF ProgressInv, WritesAreAPrefix, ReadInv, Replied
<1> QED BY <1>4, <1>5, <1>6 DEF OwnInv

\* The invariant holds at first.
LEMMA OtpInit == OInit => OtpInv
<1> SUFFICES ASSUME OInit PROVE OtpInv
  OBVIOUS
<1>1. EfuseInv
  BY EfuseInit DEF OInit
<1>2. /\ c.pc = "idle" /\ wf.pc = "idle" /\ ef.pc = "idle"
      /\ fuse = [r \in Rows |-> {}] /\ asked = [r \in Rows |-> {}]
      /\ confirmed = [r \in Rows |-> {}]
  BY DEF OInit, EInit, NoFrame
<1>3. AskedInv
  <2>1. asked \in [Rows -> SUBSET DataBits] /\ confirmed \in [Rows -> SUBSET DataBits]
    BY <1>2
  <2>2. \A r \in Rows : fuse[r] = {} /\ asked[r] = {} /\ confirmed[r] = {}
    BY <1>2
  <2> QED BY <1>2, <2>1, <2>2 DEF AskedInv, OnlyAskedBits
<1>4. CmdInv /\ CallInv /\ ProgressInv /\ ReadInv
  BY <1>2 DEF CmdInv, CallInv, ProgressInv, WritesAreAPrefix, ReadInv, Replied
<1> QED BY <1>1, <1>3, <1>4 DEF OtpInv

\* Every step keeps the invariant.
LEMMA OtpStep == OtpInv /\ [ONext]_ovars => OtpInv'
<1>1. OtpInv /\ [ONext]_ovars => EfuseInv'
  BY OtpIsAny, EfuseAnyStep DEF OtpInv
<1> SUFFICES ASSUME EfuseInv, OwnInv, [ONext]_ovars PROVE OwnInv'
  BY <1>1 DEF OtpInv, OwnInv
<1>2. CASE OtpCommand
  <2>1. PICK ok, pc, op, row, off, n, vals, lock :
          /\ Command(ok, pc, op, row, off, n, vals, lock)
          /\ Sensible(ok, pc, op, row, off, n, vals, lock)
    BY <1>2, CommandsAreSensible
  <2> QED BY <2>1, CommandStep DEF EfuseInv
<1>3. CASE WriteRow \/ WriteReturned \/ ReadRow \/ OtpPowerLoss
  BY <1>3, WriteRowStep, WriteReturnedStep, ReadRowStep, OtpLossStep
<1>4. CASE EfuseStep /\ UNCHANGED <<c, commands, asked, confirmed>>
  BY <1>4, WritingStep
<1>5. CASE UNCHANGED ovars
  <2>1. UNCHANGED <<fuse, wf, ef, res, c, asked, confirmed>>
    BY <1>5 DEF ovars, evars
  <2> QED BY <2>1 DEF OwnInv, CmdInv, CallInv, AskedInv, ProgressInv, ReadInv, Within, RowOf,
                      Row, Busy, OnlyAskedBits, WritesAreAPrefix, Replied, Shape, Field,
                      is_row_masked
<1> QED BY <1>2, <1>3, <1>4, <1>5 DEF ONext

-----------------------------------------------------------------------------
(***************************************************************************)
(* The vote.                                                               *)
(***************************************************************************)
\* Three bits that are all there are three votes.
LEMMA ThreeVotes ==
  ASSUME c.off \in Nat, c.n = 3, NEW v \in SUBSET Nat, Group(c.off) \subseteq v
  PROVE  Vote(Field(v))
<1>1. ASSUME NEW b \in 0..2 PROVE b \in Field(v)
  <2>1. b + c.off \in Group(c.off) /\ (b + c.off) - c.off = b
    BY DEF Group
  <2>2. b + c.off \in c.off..c.off + c.n - 1
    OBVIOUS
  <2> QED BY <2>1, <2>2 DEF Field
<1>2. ASSUME NEW b \in Field(v) PROVE b \in 0..2
  BY DEF Field
<1>3. Field(v) = 0..2
  BY <1>1, <1>2
<1>4. Cardinality(0..2) = 3
  <2>1. 0 \in Int /\ 2 \in Int
    OBVIOUS
  <2>2. Cardinality(0..2) = IF 0 > 2 THEN 0 ELSE 2 - 0 + 1
    BY <2>1, FS_Interval
  <2> QED BY <2>2
<1> QED BY <1>3, <1>4 DEF Vote

\* There are no more votes than bits that were asked for.
LEMMA VotesWereAsked ==
  ASSUME c.off \in Nat, c.n = 3, NEW v \in SUBSET Nat, NEW w \in SUBSET Nat, v \subseteq w,
         Cardinality(Group(c.off) \cap w) < 2
  PROVE  ~Vote(Field(v))
<1> DEFINE T == Group(c.off) \cap w
           f == [b \in Field(v) |-> b + c.off]
<1>1. IsFiniteSet(T)
  <2>1. IsFiniteSet(c.off..c.off + 2)
    BY FS_Interval
  <2> QED BY <2>1, FS_Subset DEF Group
<1>2. ASSUME NEW b \in Field(v) PROVE b \in Int /\ b + c.off \in T
  <2>1. PICK x \in v : x \in c.off..c.off + c.n - 1 /\ b = x - c.off
    BY DEF Field
  <2>2. x \in Nat /\ b + c.off = x
    BY <2>1
  <2> QED BY <2>1, <2>2 DEF Group
<1>3. f \in Injection(Field(v), T)
  <2>1. f \in [Field(v) -> T]
    BY <1>2
  <2>2. ASSUME NEW a \in Field(v), NEW b \in Field(v), f[a] = f[b] PROVE a = b
    BY <1>2, <2>2
  <2> QED BY <2>1, <2>2, Fun_IsInj
<1>4. IsFiniteSet(Field(v)) /\ Cardinality(Field(v)) <= Cardinality(T)
  BY <1>1, <1>3, FS_Injection
<1>5. Cardinality(Field(v)) \in Nat /\ Cardinality(T) \in Nat
  BY <1>1, <1>4, FS_CardinalityType
<1> QED BY <1>4, <1>5 DEF Vote

-----------------------------------------------------------------------------
(***************************************************************************)
(* The theorems.                                                           *)
(***************************************************************************)
\* OtpInv is an inductive invariant of the commands over the fuses.
THEOREM OtpInvariance == OSpec => []OtpInv
BY OtpInit, OtpStep, PTL DEF OSpec

\* Whatever goes wrong, no fuse is blown that no command named, a command that
\* succeeds has blown all it named, and one that fails has finished a prefix of
\* its rows (main.c:422-438, 466-481, efuse.c:378-383).
THEOREM AlwaysWritesWhatWasAsked == OSpec => []WritesWhatWasAsked
<1>1. OtpInv => WritesWhatWasAsked
  BY DEF OtpInv, AskedInv, ProgressInv, WritesWhatWasAsked
<1> QED BY <1>1, OtpInvariance, PTL

\* A read shows what successful writes confirmed and nothing that was not asked
\* for, through the vote of the three-fold bits too (main.c:299-349, 399-438).
THEOREM AlwaysReadsBack == OSpec => []ReadsBack
<1>1. OtpInv => ReadsBack
  <2> SUFFICES ASSUME OtpInv PROVE ReadsBack
    OBVIOUS
  <2>1. DataBits \subseteq Nat
    BY OtpAssumption
  <2>2. ASSUME NEW r \in Rows
        PROVE  /\ confirmed[r] \subseteq fuse[r] /\ fuse[r] \subseteq asked[r]
               /\ asked[r] \subseteq Nat
    BY <2>1 DEF OtpInv, AskedInv, OnlyAskedBits
  <2>3. VoteReadsBack
    <3> SUFFICES ASSUME Replied("read_1b"), c.sts = "OK"
                 PROVE  /\ Group(c.off) \subseteq confirmed[c.row] => c.out = <<{0}>>
                        /\ Cardinality(Group(c.off) \cap asked[c.row]) < 2 => c.out = <<{}>>
      BY DEF VoteReadsBack
    <3>1. /\ c.row \in Rows /\ c.out = <<Shape(fuse[c.row])>> /\ c.n = 3 /\ c.off \in Nat
          /\ c.op = "read_1b"
      BY DEF OtpInv, ReadInv, CmdInv, Replied
    <3>2. Shape(fuse[c.row]) = IF Vote(Field(fuse[c.row])) THEN {0} ELSE {}
      BY <3>1 DEF Shape
    <3>3. Group(c.off) \subseteq confirmed[c.row] => Vote(Field(fuse[c.row]))
      BY <2>2, <3>1, ThreeVotes
    <3>4. Cardinality(Group(c.off) \cap asked[c.row]) < 2 => ~Vote(Field(fuse[c.row]))
      BY <2>2, <3>1, VotesWereAsked
    <3> QED BY <3>1, <3>2, <3>3, <3>4
  <2>4. FieldReadsBack
    <3> SUFFICES ASSUME Replied("read_Nb"), c.sts = "OK", NEW b \in 0..c.n-1
                 PROVE  /\ b + c.off \in confirmed[c.row] => b \in c.out[1]
                        /\ b \in c.out[1] => b + c.off \in asked[c.row]
      BY DEF FieldReadsBack
    <3>1. /\ c.row \in Rows /\ c.out = <<Shape(fuse[c.row])>> /\ c.n \in Nat /\ c.off \in Nat
          /\ c.op = "read_Nb"
      BY DEF OtpInv, ReadInv, CmdInv, Replied
    <3>2. c.out[1] = Field(fuse[c.row])
      BY <3>1 DEF Shape
    <3>3. /\ (b + c.off) - c.off = b /\ b + c.off \in c.off..c.off + c.n - 1
      BY <3>1
    <3>4. b + c.off \in fuse[c.row] => b \in Field(fuse[c.row])
      BY <3>3 DEF Field
    <3>5. ASSUME b \in Field(fuse[c.row]) PROVE b + c.off \in fuse[c.row]
      <4>1. PICK x \in fuse[c.row] : x \in c.off..c.off + c.n - 1 /\ b = x - c.off
        BY <3>5 DEF Field
      <4>2. x = b + c.off
        BY <3>1, <4>1
      <4> QED BY <4>1, <4>2
    <3> QED BY <2>2, <3>1, <3>2, <3>4, <3>5
  <2> QED BY <2>3, <2>4 DEF ReadsBack
<1> QED BY <1>1, OtpInvariance, PTL
=============================================================================
