---------------------------- MODULE EfuseProofs -----------------------------
(***************************************************************************)
(* Proofs about the writing of fuses, for all rows, ECC codes, masks and   *)
(* numbers of attempts, of faults and of power losses.  The two writing    *)
(* functions have several clients; AnyStep is all that any of them does to *)
(* the fuses, so that the invariants proved for it are theirs too.         *)
(***************************************************************************)
EXTENDS Efuse, TLAPS

Calling ==
  \/ \E r \in Rows, v \in SUBSET RowBits, l \in BOOLEAN : efuse_write_row_no_ecc(r, v, l)
  \/ \E r \in Rows, v \in SUBSET RowBits : efuse_write_row_with_ecc_lock(r, v)

\* A client's own reading of a row fails.
ClientFault == Fault /\ UNCHANGED <<fuse, locked, master, wf, ef, res, losses>>

AnyStep == Calling \/ EfuseStep \/ PowerLoss \/ ClientFault \/ UNCHANGED evars

-----------------------------------------------------------------------------
WLabels == {"read", "write", "pulse", "disable", "verify", "lock", "lockpulse",
            "lockdisable", "lockverify", "done"}
Writing == {"write", "pulse", "disable", "verify"}
Locking == {"lock", "lockpulse", "lockdisable", "lockverify"}
ELabels == {"start", "ecc", "row", "eccrow", "verify", "done"}

WFrames == [pc : WLabels, row : Rows, val : SUBSET RowBits, lock : BOOLEAN, try : Nat,
            req : SUBSET RowBits, old : SUBSET RowBits]
EFrames == [pc : ELabels, row : DataRows, val : SUBSET RowBits, req : SUBSET RowBits,
            old : SUBSET RowBits]

\* Every variable has its type.
ArrayOK   == fuse \in [Rows -> SUBSET RowBits] /\ locked \subseteq Rows
CountersOK == master \in BOOLEAN /\ faults \in Nat /\ losses \in Nat
FramesOK  == wf \in WFrames \cup {NoFrame} /\ ef \in EFrames \cup {NoFrame}
ETypeOK   == ArrayOK /\ CountersOK /\ FramesOK

\* The two calls are nested, and programming is enabled where fuses are blown.
Nested ==
  /\ ef.pc \in {"start", "ecc", "verify", "done"} => wf.pc = "idle"
  /\ ef.pc \in {"row", "eccrow"} => wf.pc # "idle"
Enabled == wf.pc \in {"pulse", "disable", "lockpulse", "lockdisable"} => master
NestInv == Nested /\ Enabled

\* How far efuse_write_row_no_ecc is with its row.
Blown(f) == fuse[f.row] = f.req \cup f.old
WriteInv ==
  /\ wf.pc = "read" => wf.val = wf.req /\ fuse[wf.row] = wf.old
  /\ wf.pc \in Writing =>
       /\ wf.row \notin locked
       /\ IF is_row_masked(wf.row)
            THEN wf.val = wf.req
            ELSE wf.val = wf.req \cup wf.old /\ wf.old \subseteq fuse[wf.row]
                 /\ fuse[wf.row] \subseteq wf.val
  /\ wf.pc \in Locking =>
       wf.lock /\ (is_row_masked(wf.row) \/ Blown(wf))
  /\ PlainWriteVerified

\* How far efuse_write_row_with_ecc_lock is with its two rows.
InRow == fuse[ef.row] = ef.val /\ ef.row \in locked
NoByteIn(w) == \A e \in EccBits : <<ef.row, e>> \notin w
EccOpen == ~is_row_masked(EccRow[ef.row])
EccInv ==
  /\ ef.pc = "start" => ef.val = ef.req /\ fuse[ef.row] = ef.old
  /\ ef.pc \in {"ecc", "row", "eccrow", "verify"} =>
       ~is_row_masked(ef.row) /\ ef.val = ef.req \cup ef.old
  /\ ef.pc = "ecc" => ef.row \notin locked /\ fuse[ef.row] = ef.old
  /\ ef.pc = "row" =>
       /\ wf.row = ef.row /\ wf.req = ef.val /\ wf.old = ef.old /\ wf.lock
       /\ EccOpen => NoByteIn(fuse[EccRow[ef.row]])
  /\ ef.pc = "eccrow" =>
       /\ wf.row = EccRow[ef.row] /\ wf.req = EccWord(ef.row, ef.val) /\ ~wf.lock
       /\ InRow
       /\ EccOpen => NoByteIn(wf.old)
  /\ ef.pc = "verify" => InRow /\ (EccOpen => EccConsistent(ef.row))
  /\ EccWriteVerified

EfuseInv == ETypeOK /\ NestInv /\ WriteInv /\ EccInv
-----------------------------------------------------------------------------
(***************************************************************************)
(* Types and nesting.                                                      *)
(***************************************************************************)
\* The ECC byte of a row is bits of its ECC row.
LEMMA EccTyped ==
  ASSUME NEW r \in DataRows, NEW v
  PROVE  EccWord(r, v) \subseteq RowBits /\ EccRow[r] \in Rows \ DataRows
<1>1. secded_ecc(v) \subseteq EccBits
  BY DEF secded_ecc
<1> QED BY <1>1, RowsAssumption DEF EccWord, RowBits

\* A frame that is in use has all its fields.
LEMMA InUse ==
  ETypeOK => /\ wf.pc # "idle" => wf \in WFrames
             /\ ef.pc # "idle" => ef \in EFrames
BY DEF ETypeOK, FramesOK, NoFrame

\* Going on to another label, with or without a new value, keeps a frame one.
LEMMA WMoved ==
  ASSUME NEW l \in WLabels, NEW v \in SUBSET RowBits, NEW n \in Nat, wf \in WFrames
  PROVE  /\ [wf EXCEPT !.pc = l] \in WFrames
         /\ [wf EXCEPT !.pc = l, !.val = v] \in WFrames
         /\ [wf EXCEPT !.pc = l, !.try = n] \in WFrames
BY DEF WFrames

\* Nor does it change what the call was for.
SameCall(w) == w.row = wf.row /\ w.req = wf.req /\ w.old = wf.old /\ w.lock = wf.lock
\* A frame that goes on is one for the same call.
LEMMA WSame ==
  ASSUME NEW l, NEW v, NEW n, wf \in WFrames
  PROVE  /\ SameCall([wf EXCEPT !.pc = l])
         /\ SameCall([wf EXCEPT !.pc = l, !.val = v])
         /\ SameCall([wf EXCEPT !.pc = l, !.try = n])
BY DEF WFrames, SameCall

\* A frame at work has not returned, and the caller waits for it.
LEMMA BodyInUse ==
  ETypeOK /\ NoEccBody => /\ wf \in WFrames /\ wf.pc \notin {"idle", "done"}
                          /\ UNCHANGED <<ef, losses>>
<1>1. NoEccBody => wf.pc \notin {"idle", "done"} /\ UNCHANGED <<ef, losses>>
  BY DEF NoEccBody, WTimeout, WRead, efuse_write_enable, efuse_raw_write, efuse_raw_lock,
         efuse_write_disable, WVerify, WLockVerify, WAt
<1> QED BY <1>1, InUse

\* How it goes on.
BodyMove ==
  \/ \E l \in WLabels : wf' = [wf EXCEPT !.pc = l]
  \/ wf' = [wf EXCEPT !.pc = "write", !.val = wf.val \cup RawRead(wf.row)]
  \/ wf' = [wf EXCEPT !.pc = "write", !.try = wf.try + 1]
  \/ wf' = [wf EXCEPT !.pc = "lock", !.try = wf.try + 1]
  \/ wf' = [wf EXCEPT !.pc = "lock", !.try = 0]
LEMMA BodyMoves == NoEccBody => BodyMove
<1> SUFFICES ASSUME NoEccBody PROVE BodyMove
  OBVIOUS
<1>1. (\E x : WReturn(x)) \/ (\E l \in WLabels : WGoto(l)) \/ AfterWrite => BodyMove
  BY DEF WReturn, WGoto, AfterWrite, WLabels, BodyMove
<1>2. CASE WTimeout \/ WRead
  BY <1>1, <1>2 DEF WTimeout, WRead, BodyMove
<1>3. CASE efuse_write_enable \/ efuse_raw_write \/ efuse_raw_lock
  BY <1>1, <1>3 DEF efuse_write_enable, efuse_raw_write, efuse_raw_lock, WLabels
<1>4. CASE efuse_write_disable
  BY <1>1, <1>4 DEF efuse_write_disable, WLabels
<1>5. CASE WVerify \/ WLockVerify
  BY <1>1, <1>5 DEF WVerify, WLockVerify, BodyMove
<1> QED BY <1>2, <1>3, <1>4, <1>5 DEF NoEccBody

\* It does not begin again, nor return to its caller's caller.
LEMMA BodyReads ==
  wf \in WFrames /\ NoEccBody => wf'.pc # "read" /\ wf'.pc # "idle"
<1> SUFFICES ASSUME wf \in WFrames, NoEccBody PROVE wf'.pc # "read" /\ wf'.pc # "idle"
  OBVIOUS
<1>1. CASE WTimeout \/ WRead \/ WVerify \/ WLockVerify
  BY <1>1 DEF WTimeout, WRead, WVerify, WLockVerify, WReturn, AfterWrite, WFrames
<1>2. CASE efuse_write_enable \/ efuse_raw_write \/ efuse_raw_lock \/ efuse_write_disable
  BY <1>2 DEF efuse_write_enable, efuse_raw_write, efuse_raw_lock, efuse_write_disable,
              WReturn, WGoto, AfterWrite, WFrames
<1> QED BY <1>1, <1>2 DEF NoEccBody

\* The same for the frame of the function with ECC.
LEMMA EMoved ==
  ASSUME NEW l \in ELabels, NEW v \in SUBSET RowBits, ef \in EFrames
  PROVE  /\ [ef EXCEPT !.pc = l] \in EFrames
         /\ [ef EXCEPT !.pc = l, !.val = v] \in EFrames
BY DEF EFrames

\* At first everything has its type and nothing is called.
LEMMA ETypeInit == EInit => ETypeOK /\ NestInv
<1> SUFFICES ASSUME EInit PROVE ETypeOK /\ NestInv
  OBVIOUS
<1>1. fuse \in [Rows -> SUBSET RowBits] /\ wf = NoFrame /\ ef = NoFrame
  BY DEF EInit
<1>2. wf.pc = "idle" /\ ef.pc = "idle"
  BY <1>1 DEF NoFrame
<1> QED BY <1>1, <1>2 DEF EInit, ETypeOK, ArrayOK, CountersOK, FramesOK, NestInv, Nested, Enabled

\* The fuses change only by a pulse into the row of the frame, unless locked;
\* locks only come.
LEMMA ArrayFrame ==
  AnyStep => /\ locked \subseteq locked'
             /\ \/ fuse' = fuse
                \/ /\ efuse_raw_write \/ PowerLoss
                   /\ wf.pc = "pulse" /\ \E blown \in SUBSET wf.val : Pulsed(blown)
<1> USE DEF AnyStep, Calling, EfuseStep, NoEccStep, WithEccStep
<1>1. AnyStep => \/ efuse_raw_write \/ PowerLoss \/ fuse' = fuse
  BY DEF efuse_write_row_no_ecc, efuse_write_row_with_ecc_lock, NoEccBody, WTimeout, WRead, WVerify,
         efuse_write_enable, efuse_write_disable, efuse_raw_lock, WLockVerify, WDone, ETimeout, EStart, EEcc, ERow, EEccRow, EVerify,
         EDone, ClientFault, evars
<1>2. AnyStep => locked \subseteq locked'
  BY DEF efuse_write_row_no_ecc, efuse_write_row_with_ecc_lock, NoEccBody, WTimeout, WRead, WVerify,
         efuse_write_enable, efuse_write_disable, efuse_raw_write, efuse_raw_lock, WLockVerify, WDone, ETimeout, EStart, EEcc, ERow,
         EEccRow, EVerify, EDone, PowerLoss, ClientFault, evars
<1>3. efuse_raw_write => wf.pc = "pulse" /\ \E blown \in SUBSET wf.val : Pulsed(blown)
  BY DEF efuse_raw_write, WAt
<1>4. PowerLoss => \/ fuse' = fuse
                   \/ wf.pc = "pulse" /\ \E blown \in SUBSET wf.val : Pulsed(blown)
  BY DEF PowerLoss, WAt
<1> QED BY <1>1, <1>2, <1>3, <1>4

\* Steps keep the type of the array.
LEMMA ArrayStep == ETypeOK /\ AnyStep => ArrayOK'
<1> SUFFICES ASSUME ETypeOK, AnyStep PROVE ArrayOK'
  OBVIOUS
<1>1. locked' \subseteq Rows
  <2>1. \/ locked' = locked
        \/ wf.pc = "lockpulse" /\ locked' = locked \cup {wf.row}
    BY DEF AnyStep, Calling, EfuseStep, NoEccStep, WithEccStep, efuse_write_row_no_ecc,
           efuse_write_row_with_ecc_lock, NoEccBody, WTimeout, WRead, WVerify, efuse_write_enable, efuse_raw_write,
           efuse_write_disable, efuse_raw_lock, WLockVerify, WDone, ETimeout, EStart, EEcc, ERow, EEccRow,
           EVerify, EDone, PowerLoss, ClientFault, evars, WAt
  <2>2. wf.pc = "lockpulse" => wf.row \in Rows
    BY InUse DEF WFrames
  <2> QED BY <2>1, <2>2 DEF ETypeOK, ArrayOK
<1>2. fuse' \in [Rows -> SUBSET RowBits]
  <2>1. CASE fuse' = fuse
    BY <2>1 DEF ETypeOK, ArrayOK
  <2>2. ASSUME wf.pc = "pulse", NEW blown \in SUBSET wf.val, Pulsed(blown)
        PROVE  fuse' \in [Rows -> SUBSET RowBits]
    BY <2>2, InUse DEF Pulsed, ETypeOK, ArrayOK, WFrames
  <2> QED BY <2>1, <2>2, ArrayFrame
<1> QED BY <1>1, <1>2 DEF ArrayOK

\* Steps keep the counters' types.
LEMMA CountersStep == ETypeOK /\ AnyStep => CountersOK'
<1> SUFFICES ASSUME ETypeOK, AnyStep PROVE CountersOK'
  OBVIOUS
<1>1. /\ faults' = faults \/ faults' = faults + 1
      /\ losses' = losses \/ losses' = losses + 1
  BY DEF AnyStep, Calling, EfuseStep, NoEccStep, WithEccStep, efuse_write_row_no_ecc,
         efuse_write_row_with_ecc_lock, NoEccBody, WTimeout, WRead, efuse_write_enable,
         efuse_raw_write, efuse_raw_lock, efuse_write_disable, WVerify, WLockVerify, WDone,
         ETimeout, EStart, EEcc, ERow, EEccRow, EVerify, EDone, PowerLoss, ClientFault,
         evars, Fault
<1>2. master' \in {TRUE, FALSE, master} \/ master' = (master \/ wf.pc \in {"write", "lock"})
  BY DEF AnyStep, Calling, EfuseStep, NoEccStep, WithEccStep, efuse_write_row_no_ecc,
         efuse_write_row_with_ecc_lock, NoEccBody, WTimeout, WRead, efuse_write_enable,
         efuse_raw_write, efuse_raw_lock, efuse_write_disable, WVerify, WLockVerify, WDone,
         ETimeout, EStart, EEcc, ERow, EEccRow, EVerify, EDone, PowerLoss, ClientFault,
         evars
<1>3. master' \in BOOLEAN
  BY <1>2 DEF ETypeOK, CountersOK
<1> QED BY <1>1, <1>3 DEF ETypeOK, CountersOK

\* Steps keep the frames' types.
LEMMA FramesStep == ETypeOK /\ AnyStep => FramesOK'
<1> SUFFICES ASSUME ETypeOK, AnyStep PROVE FramesOK'
  OBVIOUS
<1>a. \A r \in Rows : fuse[r] \in SUBSET RowBits
  BY DEF ETypeOK, ArrayOK
<1>b. \A r \in Rows : RawRead(r) \in SUBSET RowBits
  BY <1>a DEF RawRead
<1>c. DataRows \subseteq Rows
  BY RowsAssumption
<1>d. wf \in WFrames \cup {NoFrame} /\ ef \in EFrames \cup {NoFrame}
  BY DEF ETypeOK, FramesOK
<1> USE <1>a, <1>b, <1>c, <1>d DEF FramesOK
<1>1. ASSUME NEW r \in Rows, NEW v \in SUBSET RowBits, NEW l \in BOOLEAN,
             efuse_write_row_no_ecc(r, v, l)
      PROVE  FramesOK'
  BY <1>1 DEF efuse_write_row_no_ecc, WFrame, WFrames, WLabels
<1>2. ASSUME NEW r \in Rows, NEW v \in SUBSET RowBits, efuse_write_row_with_ecc_lock(r, v)
      PROVE  FramesOK'
  BY <1>2 DEF efuse_write_row_with_ecc_lock, EFrame, EFrames, ELabels
<1>3. CASE NoEccBody
  <2>1. wf \in WFrames /\ ef' = ef
    BY <1>3, BodyInUse
  <2>2. wf.row \in Rows /\ wf.val \in SUBSET RowBits /\ wf.try \in Nat
    BY <2>1 DEF WFrames
  <2>3. wf.val \cup RawRead(wf.row) \in SUBSET RowBits /\ wf.try + 1 \in Nat /\ 0 \in Nat
    BY <2>2
  <2>4. "write" \in WLabels /\ "lock" \in WLabels
    BY DEF WLabels
  <2>5. wf' \in WFrames
    <3>1. /\ \A l \in WLabels : [wf EXCEPT !.pc = l] \in WFrames
          /\ [wf EXCEPT !.pc = "write", !.val = wf.val \cup RawRead(wf.row)] \in WFrames
          /\ [wf EXCEPT !.pc = "write", !.try = wf.try + 1] \in WFrames
          /\ [wf EXCEPT !.pc = "lock", !.try = wf.try + 1] \in WFrames
          /\ [wf EXCEPT !.pc = "lock", !.try = 0] \in WFrames
      BY <2>1, <2>3, <2>4, WMoved
    <3> QED BY <1>3, <3>1, BodyMoves DEF BodyMove
  <2> QED BY <2>1, <2>5
<1>4. CASE ETimeout \/ EStart \/ EVerify
  <2>1. ef \in EFrames /\ wf' = wf
    BY <1>4, InUse DEF ETimeout, EStart, EVerify, EAt
  <2>2. ef.row \in Rows /\ ef.val \in SUBSET RowBits
    BY <2>1 DEF EFrames
  <2>3. \/ \E x : EReturn(x)
        \/ ef' = [ef EXCEPT !.pc = "ecc", !.val = ef.val \cup RawRead(ef.row)]
    BY <1>4 DEF ETimeout, EStart, EVerify
  <2>4. ef' \in EFrames
    BY <2>1, <2>2, <2>3, EMoved, ZenonT(60) DEF EReturn, ELabels
  <2> QED BY <2>1, <2>4
<1>5. CASE EEcc \/ ERow \/ EEccRow
  <2>1. ef \in EFrames
    BY <1>5, InUse DEF EEcc, ERow, EEccRow, EAt
  <2>2. /\ ef.row \in DataRows /\ ef.row \in Rows /\ EccRow[ef.row] \in Rows
        /\ ef.val \in SUBSET RowBits /\ EccWord(ef.row, ef.val) \in SUBSET RowBits
    BY <2>1, EccTyped DEF EFrames
  <2>3. ef' \in EFrames
    BY <1>5, <2>1, EMoved DEF EEcc, ERow, EEccRow, EReturn, ELabels
  <2>4. \/ wf' = wf \/ wf' = NoFrame
        \/ wf' = WFrame(ef.row, ef.val, TRUE)
        \/ wf' = WFrame(EccRow[ef.row], EccWord(ef.row, ef.val), FALSE)
    BY <1>5 DEF EEcc, ERow, EEccRow, eccval
  <2>5. ASSUME NEW r \in Rows, NEW v \in SUBSET RowBits, NEW l \in BOOLEAN
        PROVE  WFrame(r, v, l) \in WFrames
    BY DEF WFrame, WFrames, WLabels
  <2>6. /\ WFrame(ef.row, ef.val, TRUE) \in WFrames
        /\ WFrame(EccRow[ef.row], EccWord(ef.row, ef.val), FALSE) \in WFrames
    BY <2>2, <2>5
  <2> QED BY <2>3, <2>4, <2>6
<1>6. CASE WDone \/ EDone \/ PowerLoss \/ ClientFault \/ UNCHANGED evars
  BY <1>6 DEF WDone, EDone, PowerLoss, ClientFault, evars
<1> QED
  BY <1>1, <1>2, <1>3, <1>4, <1>5, <1>6
     DEF AnyStep, Calling, EfuseStep, NoEccStep, WithEccStep

\* The three together.
LEMMA ETypeStep == ETypeOK /\ AnyStep => ETypeOK'
BY ArrayStep, CountersStep, FramesStep DEF ETypeOK

-----------------------------------------------------------------------------
(***************************************************************************)
(* efuse_write_row_no_ecc.                                                 *)
(***************************************************************************)
\* Programming is enabled before fuses are blown and disabled after that.
LEMMA EnabledStep == ETypeOK /\ NestInv /\ AnyStep => Enabled'
<1> SUFFICES ASSUME ETypeOK, NestInv, AnyStep PROVE Enabled'
  OBVIOUS
<1>a. NoFrame.pc = "idle" /\ Enabled
  BY DEF NoFrame, NestInv
<1> USE <1>a DEF Enabled
<1>1. CASE NoEccBody
  <2>1. wf \in WFrames
    BY <1>1, BodyInUse
  <2>2. CASE efuse_write_enable
    BY <2>1, <2>2 DEF efuse_write_enable, WGoto, WFrames
  <2>3. CASE efuse_raw_write \/ efuse_raw_lock
    BY <2>1, <2>3 DEF efuse_raw_write, efuse_raw_lock, WGoto, WAt, WFrames
  <2>4. CASE WTimeout \/ WRead \/ efuse_write_disable \/ WVerify \/ WLockVerify
    BY <2>1, <2>4 DEF WTimeout, WRead, efuse_write_disable, WVerify, WLockVerify, WReturn,
                      WGoto, AfterWrite, WFrames
  <2> QED BY <1>1, <2>2, <2>3, <2>4 DEF NoEccBody
<1>2. CASE \/ Calling \/ WDone \/ EEcc \/ ERow \/ EEccRow \/ PowerLoss
  BY <1>2 DEF Calling, efuse_write_row_no_ecc, efuse_write_row_with_ecc_lock, WDone, EEcc,
              ERow, EEccRow, PowerLoss, WFrame
<1>3. CASE \/ ETimeout \/ EStart \/ EVerify \/ EDone \/ ClientFault \/ UNCHANGED evars
  BY <1>3 DEF ETimeout, EStart, EVerify, EDone, ClientFault, evars
<1> QED BY <1>1, <1>2, <1>3 DEF AnyStep, EfuseStep, NoEccStep, WithEccStep

\* The function without ECC returns before its caller goes on.
LEMMA NestStep == ETypeOK /\ NestInv /\ AnyStep => NestInv'
<1> SUFFICES ASSUME ETypeOK, Nested, AnyStep PROVE Nested'
  BY EnabledStep DEF NestInv
<1>2. NoFrame.pc = "idle"
  BY DEF NoFrame
<1> USE <1>2 DEF Nested
<1>3. CASE Calling
  BY <1>3 DEF Calling, efuse_write_row_no_ecc, efuse_write_row_with_ecc_lock, WFrame,
              EFrame, Busy
<1>4. CASE NoEccBody
  <2>1. wf \in WFrames /\ wf.pc # "idle" /\ ef' = ef
    BY <1>4, BodyInUse
  <2>2. wf'.pc # "idle"
    BY <1>4, <2>1, BodyMoves DEF BodyMove, WFrames, WLabels
  <2> QED BY <2>1, <2>2
<1>5. CASE WithEccStep
  <2>1. ef \in EFrames
    BY <1>5, InUse DEF WithEccStep, ETimeout, EStart, EEcc, ERow, EEccRow, EVerify, EDone, EAt
  <2>2. CASE ETimeout \/ EStart \/ EVerify \/ EDone
    BY <2>1, <2>2 DEF ETimeout, EStart, EVerify, EDone, EAt, EReturn, EFrames
  <2>3. CASE EEcc
    BY <2>1, <2>3 DEF EEcc, EAt, EReturn, EFrames, WFrame
  <2>4. CASE ERow \/ EEccRow
    BY <2>1, <2>4 DEF ERow, EEccRow, EAt, EReturn, EFrames, WFrame
  <2> QED BY <1>5, <2>2, <2>3, <2>4 DEF WithEccStep
<1>6. CASE WDone \/ PowerLoss \/ ClientFault \/ UNCHANGED evars
  BY <1>6 DEF WDone, PowerLoss, ClientFault, evars
<1> QED BY <1>3, <1>4, <1>5, <1>6 DEF AnyStep, EfuseStep, NoEccStep

\* The value is compared before the lock and the lock before success, whatever
\* the pulses did.
LEMMA WriteStep == ETypeOK /\ NestInv /\ WriteInv /\ AnyStep => WriteInv'
<1> SUFFICES ASSUME ETypeOK, NestInv, WriteInv, AnyStep PROVE WriteInv'
  OBVIOUS
<1>a. NoFrame.pc = "idle"
  BY DEF NoFrame
<1> USE <1>a DEF WriteInv, PlainWriteVerified, Blown, Writing, Locking
<1>1. CASE wf'.pc = "idle"
  BY <1>1
<1>2. ASSUME NEW r \in Rows, NEW v, NEW l, wf' = WFrame(r, v, l), fuse' = fuse
      PROVE  WriteInv'
  BY <1>2 DEF WFrame
<1>3. CASE WTimeout
  BY <1>3, InUse DEF WTimeout, WReturn, WFrames
<1>4. CASE WRead
  <2>1. wf \in WFrames /\ UNCHANGED <<fuse, locked>>
    BY <1>4, InUse DEF WRead, WAt
  <2>2. wf.val = wf.req /\ fuse[wf.row] = wf.old
    BY <1>4 DEF WRead, WAt
  <2>3. CASE wf.row \in locked
    BY <1>4, <2>1, <2>2, <2>3 DEF WRead, WReturn, WFrames
  <2>4. CASE wf.row \notin locked /\ wf.val # {}
    <3>1. wf' = [wf EXCEPT !.pc = "write", !.val = wf.val \cup RawRead(wf.row)]
      BY <1>4, <2>4 DEF WRead
    <3>2. /\ wf'.pc = "write" /\ wf'.row = wf.row /\ wf'.req = wf.req /\ wf'.old = wf.old
          /\ wf'.val = wf.req \cup RawRead(wf.row)
      BY <2>1, <2>2, <3>1 DEF WFrames
    <3>3. IF is_row_masked(wf.row) THEN wf'.val = wf.req
                                   ELSE wf'.val = wf.req \cup fuse[wf.row]
      BY <3>2 DEF RawRead
    <3> QED BY <2>1, <2>2, <2>4, <3>2, <3>3 DEF is_row_masked
  <2>5. CASE wf.row \notin locked /\ wf.val = {}
    BY <1>4, <2>1, <2>2, <2>5, ZenonT(60) DEF WRead, AfterWrite, WReturn, WFrames
  <2> QED BY <2>3, <2>4, <2>5
<1>5. CASE efuse_raw_write
  <2>1. wf \in WFrames /\ wf.row \in Rows /\ wf.row \notin locked /\ locked' = locked
    BY <1>5, InUse DEF efuse_raw_write, WAt, WFrames
  <2>2. PICK blown \in SUBSET wf.val : Pulsed(blown)
    BY <1>5 DEF efuse_raw_write
  <2>3. fuse'[wf.row] = fuse[wf.row] \cup blown
    BY <2>1, <2>2 DEF Pulsed, ETypeOK, ArrayOK
  <2>4. wf' = [wf EXCEPT !.pc = "disable"]
    BY <1>5 DEF efuse_raw_write, WGoto
  <2>5. IF is_row_masked(wf.row)
          THEN wf.val = wf.req
          ELSE /\ wf.val = wf.req \cup wf.old /\ wf.old \subseteq fuse'[wf.row]
               /\ fuse'[wf.row] \subseteq wf.val
    BY <1>5, <2>3 DEF efuse_raw_write, WAt
  <2> QED BY <2>1, <2>4, <2>5 DEF WFrames, is_row_masked
<1>13. CASE efuse_write_enable
  BY <1>13, InUse DEF efuse_write_enable, WGoto, WFrames, is_row_masked
<1>14. CASE efuse_write_disable
  <2>1. wf \in WFrames /\ UNCHANGED <<fuse, locked>>
    BY <1>14, InUse DEF efuse_write_disable
  <2>2. CASE wf.pc = "lockdisable"
    BY <1>14, <2>1, <2>2 DEF efuse_write_disable, WGoto, WFrames, is_row_masked
  <2>3. CASE wf.pc = "disable" /\ is_row_masked(wf.row)
    BY <1>14, <2>1, <2>3, ZenonT(60) DEF efuse_write_disable, AfterWrite, WReturn, WFrames, is_row_masked
  <2>4. CASE wf.pc = "disable" /\ ~is_row_masked(wf.row)
    BY <1>14, <2>1, <2>4 DEF efuse_write_disable, WGoto, WFrames, is_row_masked
  <2> QED BY <1>14, <2>2, <2>3, <2>4 DEF efuse_write_disable
<1>6. CASE WVerify
  <2>1. wf \in WFrames /\ UNCHANGED <<fuse, locked>> /\ wf.row \notin locked
    BY <1>6, InUse DEF WVerify, WAt
  <2>2. CASE RawRead(wf.row) = wf.val
    <3>1. is_row_masked(wf.row) \/ Blown(wf)
      BY <1>6, <2>2 DEF WVerify, WAt, RawRead
    <3> QED BY <1>6, <2>1, <2>2, <3>1, ZenonT(60) DEF WVerify, AfterWrite, WReturn, WFrames, is_row_masked
  <2>3. CASE RawRead(wf.row) # wf.val
    BY <1>6, <2>1, <2>3, ZenonT(60) DEF WVerify, WAt, WReturn, WFrames, is_row_masked
  <2> QED BY <2>2, <2>3
<1>7. CASE efuse_raw_lock
  BY <1>7, InUse DEF efuse_raw_lock, WAt, WGoto, WFrames, is_row_masked
<1>8. CASE WLockVerify
  BY <1>8, InUse DEF WLockVerify, WAt, WReturn, WFrames, is_row_masked
<1>9. CASE UNCHANGED <<wf, fuse, locked>> /\ (wf.pc = "done" => res' = res)
  BY <1>9 DEF is_row_masked
<1>10. CASE Calling \/ WDone \/ PowerLoss \/ ClientFault \/ UNCHANGED evars
  BY <1>1, <1>2, <1>9, <1>10
     DEF Calling, efuse_write_row_no_ecc, efuse_write_row_with_ecc_lock, WDone, PowerLoss,
         ClientFault, evars, Busy
<1>11. CASE ETimeout \/ EStart \/ EVerify \/ EDone
  BY <1>9, <1>11 DEF ETimeout, EStart, EVerify, EDone, EAt, NestInv, Nested
<1>12. CASE EEcc \/ ERow \/ EEccRow
  <2>1. ef.row \in DataRows /\ ef.row \in Rows /\ EccRow[ef.row] \in Rows
    BY <1>12, InUse, RowsAssumption DEF EEcc, ERow, EEccRow, EAt, EFrames
  <2>2. UNCHANGED <<fuse, locked>>
    BY <1>12 DEF EEcc, ERow, EEccRow
  <2>3. \/ wf' = NoFrame
        \/ wf' = wf /\ wf.pc # "done"
        \/ wf' = WFrame(ef.row, ef.val, TRUE)
        \/ wf' = WFrame(EccRow[ef.row], EccWord(ef.row, ef.val), FALSE)
    BY <1>12 DEF EEcc, ERow, EEccRow, EAt, eccval, NestInv, Nested
  <2> QED BY <1>1, <1>2, <1>9, <2>1, <2>2, <2>3
<1> QED
  BY <1>3, <1>4, <1>5, <1>6, <1>7, <1>8, <1>10, <1>11, <1>12, <1>13, <1>14
     DEF AnyStep, EfuseStep, NoEccStep, NoEccBody, WithEccStep

-----------------------------------------------------------------------------
(***************************************************************************)
(* efuse_write_row_with_ecc_lock.                                          *)
(***************************************************************************)
\* When the bits of its code have joined a blank ECC byte, a row is consistent.
LEMMA ByteIsCode ==
  ASSUME NEW r \in DataRows, NEW old,
         \A e \in EccBits : <<r, e>> \notin old,
         fuse[EccRow[r]] = EccWord(r, fuse[r]) \cup old
  PROVE  EccConsistent(r)
<1>1. \A e \in EccBits : <<r, e>> \in EccWord(r, fuse[r]) <=> e \in secded_ecc(fuse[r])
  BY DEF EccWord
<1>2. secded_ecc(fuse[r]) \subseteq EccBits
  BY DEF secded_ecc
<1> QED BY <1>1, <1>2 DEF EccConsistent, EccByte

\* The two rows of a write differ, so that pulses into one leave the other.
LEMMA OtherRow ==
  ASSUME ETypeOK, AnyStep, NEW r \in Rows, r # wf.row \/ wf.pc # "pulse" \/ r \in locked
  PROVE  fuse'[r] = fuse[r]
<1>1. ASSUME wf.pc = "pulse", NEW blown \in SUBSET wf.val, Pulsed(blown)
      PROVE  fuse'[r] = fuse[r]
  BY <1>1, InUse DEF Pulsed, ETypeOK, ArrayOK, WFrames
<1> QED BY <1>1, ArrayFrame

\* No step of the frame changes what the call was for.
LEMMA WStepSame ==
  ASSUME wf \in WFrames, NoEccBody
  PROVE  wf'.row = wf.row /\ wf'.req = wf.req /\ wf'.old = wf.old /\ wf'.lock = wf.lock
<1>1. ASSUME NEW l, wf' = [wf EXCEPT !.pc = l] PROVE SameCall(wf')
  BY <1>1, WSame
<1>2. ASSUME NEW l, NEW n, wf' = [wf EXCEPT !.pc = l, !.try = n] PROVE SameCall(wf')
  BY <1>2, WSame
<1>3. ASSUME NEW l, NEW v, wf' = [wf EXCEPT !.pc = l, !.val = v] PROVE SameCall(wf')
  BY <1>3, WSame
<1>4. SameCall(wf')
  BY <1>1, <1>2, <1>3, BodyMoves DEF BodyMove
<1> QED BY <1>4 DEF SameCall

\* While ef does not move, only the frame below it works.
LEMMA EccWaits ==
  ASSUME ETypeOK, NestInv, WriteInv, EccInv, AnyStep, UNCHANGED ef,
         wf.pc # "idle" \/ UNCHANGED <<fuse, locked, res>>,
         wf.pc # "idle" => \/ /\ wf' \in WFrames /\ wf'.row = wf.row /\ wf'.req = wf.req
                              /\ wf'.old = wf.old /\ wf'.lock = wf.lock
                           \/ ef.pc = "idle"
  PROVE  EccInv'
<1> USE DEF EccInv, EccWriteVerified, InRow, NoByteIn, EccOpen, is_row_masked
<1>1. CASE ef.pc = "idle"
  BY <1>1
<1>2. CASE ef.pc # "idle"
  <2>1. /\ ef \in EFrames /\ ef.row \in DataRows /\ ef.row \in Rows
        /\ EccRow[ef.row] \in Rows /\ EccRow[ef.row] # ef.row
    BY <1>2, InUse, RowsAssumption DEF EFrames
  <2>2. locked \subseteq locked'
    BY ArrayFrame
  <2>3. CASE ef.pc \in {"start", "ecc", "verify", "done"}
    BY <2>1, <2>3 DEF NestInv, Nested, EccConsistent, EccByte
  <2>4. CASE ef.pc = "row"
    <3>1. fuse'[EccRow[ef.row]] = fuse[EccRow[ef.row]]
      BY <2>1, <2>4, OtherRow
    <3> QED BY <2>4, <3>1 DEF NestInv, Nested
  <2>5. CASE ef.pc = "eccrow"
    <3>1. fuse'[ef.row] = fuse[ef.row]
      BY <2>1, <2>5, OtherRow
    <3> QED BY <2>2, <2>5, <3>1 DEF NestInv, Nested
  <2> QED BY <2>1, <2>3, <2>4, <2>5 DEF EFrames, ELabels
<1> QED BY <1>1, <1>2

\* One step per action of efuse_write_row_with_ecc_lock; all others wait.
LEMMA EccStep == EfuseInv /\ AnyStep => EccInv'
<1> SUFFICES ASSUME EfuseInv, AnyStep PROVE EccInv'
  OBVIOUS
<1>a. ETypeOK /\ NestInv /\ WriteInv /\ EccInv /\ NoFrame.pc = "idle"
  BY DEF EfuseInv, NoFrame
<1>b. ASSUME ef.pc # "idle"
      PROVE  /\ ef \in EFrames /\ ef.row \in DataRows /\ ef.row \in Rows
             /\ EccRow[ef.row] \in Rows /\ EccRow[ef.row] # ef.row
  BY <1>a, <1>b, InUse, RowsAssumption DEF EFrames
<1> USE <1>a DEF EccInv, EccWriteVerified, InRow, NoByteIn, EccOpen, is_row_masked
<1>1. ASSUME NEW r \in Rows, NEW v, NEW l, efuse_write_row_no_ecc(r, v, l) PROVE EccInv'
  BY <1>1 DEF efuse_write_row_no_ecc, Busy
<1>2. ASSUME NEW r \in Rows, NEW v, efuse_write_row_with_ecc_lock(r, v) PROVE EccInv'
  <2>1. CASE r \in DataRows
    BY <1>2, <2>1 DEF efuse_write_row_with_ecc_lock, EFrame
  <2>2. CASE r \notin DataRows
    BY <1>2, <2>2 DEF efuse_write_row_with_ecc_lock, Busy
  <2> QED BY <2>1, <2>2
<1>3. CASE NoEccBody
  <2>1. wf \in WFrames /\ wf.pc # "idle" /\ ef' = ef
    BY <1>3, BodyInUse
  <2>4. SameCall(wf')
    BY <1>3, <2>1, WStepSame DEF SameCall
  <2>3. wf' \in WFrames
    <3>1. wf'.pc # "idle"
      BY <1>3, <2>1, BodyMoves DEF BodyMove, WFrames, WLabels
    <3> QED BY <3>1, ETypeStep DEF ETypeOK, FramesOK
  <2> QED BY <2>1, <2>3, <2>4, EccWaits DEF SameCall
<1>4. CASE WDone
  BY <1>4 DEF WDone
<1>5. CASE ETimeout
  BY <1>5, <1>b DEF ETimeout, Fault, EReturn, EFrames
<1>6. CASE EStart
  <2>1. /\ ef.pc = "start" /\ ef.val = ef.req /\ fuse[ef.row] = ef.old
        /\ UNCHANGED <<fuse, locked, wf>>
    BY <1>6 DEF EStart, EAt
  <2>2. CASE ef.row \in locked \/ is_row_masked(ef.row)
    BY <1>6, <1>b, <2>1, <2>2 DEF EStart, EReturn, EFrames
  <2>3. CASE ~(ef.row \in locked \/ is_row_masked(ef.row))
    <3>1. ef' = [ef EXCEPT !.pc = "ecc", !.val = ef.val \cup fuse[ef.row]]
      BY <1>6, <2>3 DEF EStart, RawRead
    <3> QED BY <1>b, <2>1, <2>3, <3>1 DEF EFrames
  <2> QED BY <2>2, <2>3
<1>7. CASE EEcc
  <2>1. /\ ef.pc = "ecc" /\ UNCHANGED <<fuse, locked>>
        /\ ~is_row_masked(ef.row) /\ ef.val = ef.req \cup ef.old
        /\ ef.row \notin locked /\ fuse[ef.row] = ef.old
    BY <1>7 DEF EEcc, EAt
  <2>2. CASE ef' = [ef EXCEPT !.pc = "done"] /\ res' = "EACCES"
    BY <1>b, <2>1, <2>2 DEF EFrames
  <2>3. CASE /\ ef' = [ef EXCEPT !.pc = "row"]
             /\ wf' = WFrame(ef.row, ef.val, TRUE)
             /\ EccOpen => EccByte(ef.row) = {}
    <3>1. /\ ef'.pc = "row" /\ ef'.row = ef.row /\ ef'.val = ef.val /\ ef'.req = ef.req
          /\ ef'.old = ef.old
      BY <1>b, <2>1, <2>3 DEF EFrames
    <3>2. wf'.row = ef.row /\ wf'.req = ef.val /\ wf'.old = ef.old /\ wf'.lock = TRUE
      BY <2>1, <2>3 DEF WFrame
    <3>3. EccOpen => \A e \in EccBits : <<ef.row, e>> \notin fuse[EccRow[ef.row]]
      BY <2>3 DEF EccByte
    <3> QED BY <2>1, <3>1, <3>2, <3>3
  <2> QED BY <1>7, <2>2, <2>3 DEF EEcc, EReturn
<1>8. CASE ERow
  <2>1. /\ ef.pc = "row" /\ wf.pc = "done" /\ UNCHANGED <<fuse, locked>>
        /\ wf.row = ef.row /\ wf.req = ef.val /\ wf.old = ef.old /\ wf.lock
        /\ ~is_row_masked(ef.row) /\ ef.val = ef.req \cup ef.old
    BY <1>8 DEF ERow, EAt, WAt
  <2>2. CASE res # "OK"
    BY <1>8, <1>b, <2>1, <2>2 DEF ERow, EReturn, EFrames
  <2>3. CASE res = "OK"
    <3>1. fuse[ef.row] = ef.val \cup ef.old /\ ef.row \in locked
      BY <2>1, <2>3 DEF WriteInv, PlainWriteVerified
    <3>2. InRow
      BY <2>1, <3>1
    <3>3. /\ ef' = [ef EXCEPT !.pc = "eccrow"]
          /\ wf' = WFrame(EccRow[ef.row], EccWord(ef.row, ef.val), FALSE)
      BY <1>8, <2>3 DEF ERow, eccval
    <3>4. /\ ef'.pc = "eccrow" /\ ef'.row = ef.row /\ ef'.val = ef.val /\ ef'.req = ef.req
          /\ ef'.old = ef.old
      BY <1>b, <2>1, <3>3 DEF EFrames
    <3>5. /\ wf'.row = EccRow[ef.row] /\ wf'.req = EccWord(ef.row, ef.val)
          /\ wf'.old = fuse[EccRow[ef.row]] /\ wf'.lock = FALSE
      BY <3>3 DEF WFrame
    <3>6. EccOpen => NoByteIn(fuse[EccRow[ef.row]])
      BY <2>1
    <3>7. ~is_row_masked(ef'.row) /\ ef'.val = ef'.req \cup ef'.old
      BY <2>1, <3>4
    <3>8. wf'.req = EccWord(ef'.row, ef'.val)
      BY <3>4, <3>5
    <3> QED BY <2>1, <3>2, <3>4, <3>5, <3>6, <3>7, <3>8
  <2> QED BY <2>2, <2>3
<1>9. CASE EEccRow
  <2>1. /\ ef.pc = "eccrow" /\ wf.pc = "done" /\ UNCHANGED <<fuse, locked>>
        /\ wf.row = EccRow[ef.row] /\ wf.req = EccWord(ef.row, ef.val)
        /\ InRow /\ (EccOpen => NoByteIn(wf.old))
        /\ ~is_row_masked(ef.row) /\ ef.val = ef.req \cup ef.old
    BY <1>9 DEF EEccRow, EAt, WAt
  <2>2. CASE res # "OK"
    BY <1>9, <1>b, <2>1, <2>2 DEF EEccRow, EReturn, EFrames
  <2>3. CASE res = "OK"
    <3>1. EccOpen => fuse[EccRow[ef.row]] = EccWord(ef.row, ef.val) \cup wf.old
      BY <2>1, <2>3 DEF WriteInv, PlainWriteVerified
    <3>2. EccOpen => EccConsistent(ef.row)
      BY <1>b, <2>1, <3>1, ByteIsCode
    <3>3. /\ ef'.pc = "verify" /\ ef'.row = ef.row /\ ef'.val = ef.val /\ ef'.req = ef.req
          /\ ef'.old = ef.old
      BY <1>9, <1>b, <2>1, <2>3 DEF EEccRow, EFrames
    <3> QED BY <2>1, <3>2, <3>3 DEF EccConsistent, EccByte
  <2> QED BY <2>2, <2>3
<1>10. CASE EVerify
  <2>1. /\ ef.pc = "verify" /\ UNCHANGED <<fuse, locked>>
        /\ InRow /\ (EccOpen => EccConsistent(ef.row)) /\ ef.val = ef.req \cup ef.old
    BY <1>10 DEF EVerify, EAt
  <2>2. /\ ef'.pc = "done" /\ ef'.row = ef.row /\ ef'.val = ef.val /\ ef'.req = ef.req
        /\ ef'.old = ef.old
    BY <1>10, <1>b, <2>1 DEF EVerify, EReturn, EFrames
  <2> QED BY <2>1, <2>2 DEF EccConsistent, EccByte
<1>11. CASE EDone \/ PowerLoss
  BY <1>11 DEF EDone, PowerLoss
<1>12. CASE ClientFault \/ UNCHANGED evars
  <2>1. UNCHANGED <<fuse, locked, wf, ef, res>>
    BY <1>12 DEF ClientFault, evars
  <2> QED BY <2>1 DEF EccConsistent, EccByte
<1> QED
  BY <1>1, <1>2, <1>3, <1>4, <1>5, <1>6, <1>7, <1>8, <1>9, <1>10, <1>11, <1>12
     DEF AnyStep, Calling, EfuseStep, NoEccStep, WithEccStep

-----------------------------------------------------------------------------
(***************************************************************************)
(* The theorems, for a client of which nothing but its calls is known.     *)
(***************************************************************************)
\* The invariant holds at first.
LEMMA EfuseInit == EInit => EfuseInv
<1> SUFFICES ASSUME EInit PROVE EfuseInv
  OBVIOUS
<1>1. wf.pc = "idle" /\ ef.pc = "idle"
  BY DEF EInit, NoFrame
<1>2. WriteInv /\ EccInv
  BY <1>1 DEF WriteInv, PlainWriteVerified, EccInv, EccWriteVerified, Writing, Locking
<1> QED BY <1>2, ETypeInit DEF EfuseInv

\* Whatever a client does, the invariant is kept.
LEMMA EfuseAnyStep == EfuseInv /\ AnyStep => EfuseInv'
BY ETypeStep, NestStep, WriteStep, EccStep DEF EfuseInv

\* The calls of the mailbox commands and the debug console are such calls.
LEMMA OwnStep == [ENext]_evars => AnyStep
<1>1. Call => Calling
  <2>1. ASSUME NEW c \in Calls,
               \/ c.fn = "no_ecc" /\ efuse_write_row_no_ecc(c.row, c.val, c.lock)
               \/ c.fn = "with_ecc" /\ efuse_write_row_with_ecc_lock(c.row, c.val)
        PROVE  Calling
    <3>1. c.row \in Rows /\ c.val \in SUBSET RowBits /\ c.lock \in BOOLEAN
      BY CallsAssumption
    <3> QED BY <2>1, <3>1 DEF Calling
  <2> QED BY <2>1 DEF Call
<1> QED BY <1>1 DEF ENext, AnyStep

\* EfuseInv is an inductive invariant of the fuses and their callers.
THEOREM EfuseInvariance == ESpec => []EfuseInv
<1>1. EfuseInv /\ [ENext]_evars => EfuseInv'
  BY OwnStep, EfuseAnyStep
<1> QED BY <1>1, EfuseInit, PTL DEF ESpec

\* For every code, mask, number of attempts and pattern of failures, a write
\* that reports success has put what was asked on top of what was there, with
\* its lock and with its ECC byte (efuse.c:365-407, 439-470).
THEOREM WritesAlwaysVerified == ESpec => []WriteVerified
<1>1. EfuseInv => WriteVerified
  BY DEF EfuseInv, WriteInv, EccInv, WriteVerified
<1> QED BY <1>1, EfuseInvariance, PTL

\* Who leaves programming enabled: the steps of one access to the array.
LEMMA ClosedStep ==
  EfuseInv /\ AnyStep =>
    /\ RawAccess /\ ~RawAccess' /\ master' => res' = "ETIMEDOUT"
    /\ ~master /\ master' => RawAccess
    /\ array' # array => RawAccess /\ master
<1> SUFFICES ASSUME EfuseInv, AnyStep
             PROVE  /\ RawAccess /\ ~RawAccess' /\ master' => res' = "ETIMEDOUT"
                    /\ ~master /\ master' => RawAccess
                    /\ array' # array => RawAccess /\ master
  OBVIOUS
<1>a. ETypeOK /\ Nested /\ Enabled /\ NoFrame.pc = "idle"
  BY DEF EfuseInv, NestInv, NoFrame
<1> USE <1>a DEF RawAccess, array, Enabled
<1>1. CASE NoEccBody
  <2>1. wf \in WFrames
    BY <1>1, BodyInUse
  <2>2. CASE WTimeout
    BY <2>2 DEF WTimeout, WReturn
  <2>3. CASE WRead \/ WVerify \/ WLockVerify
    BY <2>3 DEF WRead, WVerify, WLockVerify, WAt
  <2>4. CASE efuse_write_enable
    BY <2>1, <2>4 DEF efuse_write_enable, WGoto, WFrames
  <2>5. CASE efuse_raw_write \/ efuse_raw_lock
    BY <2>1, <2>5 DEF efuse_raw_write, efuse_raw_lock, WGoto, WAt, WFrames
  <2>6. CASE efuse_write_disable
    BY <2>6 DEF efuse_write_disable
  <2> QED BY <1>1, <2>2, <2>3, <2>4, <2>5, <2>6 DEF NoEccBody
<1>2. CASE Calling \/ ClientFault \/ UNCHANGED evars
  BY <1>2 DEF Calling, efuse_write_row_no_ecc, efuse_write_row_with_ecc_lock, Busy,
              ClientFault, evars
<1>3. CASE WDone \/ WithEccStep
  <2>1. WDone \/ ERow \/ EEccRow => wf.pc = "done"
    BY DEF WDone, ERow, EEccRow, WAt
  <2>2. ETimeout \/ EStart \/ EEcc \/ EVerify \/ EDone => wf.pc = "idle"
    BY DEF ETimeout, EStart, EEcc, EVerify, EDone, EAt, Nested
  <2>3. UNCHANGED <<fuse, locked, master>>
    BY <1>3 DEF WDone, WithEccStep, ETimeout, EStart, EEcc, ERow, EEccRow, EVerify, EDone
  <2> QED BY <1>3, <2>1, <2>2, <2>3 DEF WithEccStep
<1>4. CASE PowerLoss
  BY <1>4 DEF PowerLoss, WAt
<1> QED BY <1>1, <1>2, <1>3, <1>4 DEF AnyStep, EfuseStep, NoEccStep

\* For every code, mask, number of attempts and pattern of failures, a raw access
\* leaves programming enabled only when it times out itself, the next one that
\* gets to its end disables it, and nothing is blown or locked outside of an
\* access that has enabled it (efuse.c:283-290, 310, 320-327, 343).
THEOREM ProgrammingAlwaysClosed == ESpec => ProgrammingClosed
<1>1. EfuseInv /\ [ENext]_evars =>
        [/\ RawAccess /\ ~RawAccess' /\ master' => res' = "ETIMEDOUT"
         /\ ~master /\ master' => RawAccess
         /\ array' # array => RawAccess /\ master]_evars
  BY OwnStep, ClosedStep
<1> QED BY <1>1, EfuseInvariance, PTL DEF ESpec, ProgrammingClosed

-----------------------------------------------------------------------------
(***************************************************************************)
(* Rows that share an ECC row.  A raw write to an ECC row can do anything  *)
(* to the codes in it; without such calls only efuse_write_row_with_ecc_   *)
(* lock writes there, and then no code is spoilt.                          *)
(***************************************************************************)
\* No raw write to an ECC row.
RawCallsSpareEcc == \A call \in Calls : call.fn = "no_ecc" => call.row \in DataRows

SharedInv ==
  /\ wf.pc # "idle" /\ ef.pc # "eccrow" => wf.row \in DataRows
  /\ wf.pc \in Writing => wf.val \subseteq wf.req \cup fuse[wf.row]
  /\ wf.pc = "read" => wf.val = wf.req

\* What a step does to the rows whose codes are in place.
CodesKept == \A r \in DataRows : r \in locked /\ EccConsistent(r) => EccConsistent(r)'

\* The calls that clients make here.
SparingStep ==
  \/ \E r \in DataRows, v \in SUBSET RowBits, l \in BOOLEAN : efuse_write_row_no_ecc(r, v, l)
  \/ \E r \in Rows, v \in SUBSET RowBits : efuse_write_row_with_ecc_lock(r, v)
  \/ EfuseStep \/ PowerLoss \/ ClientFault \/ UNCHANGED evars

\* They are calls all the same.
LEMMA SparingIsAny == SparingStep => AnyStep
BY RowsAssumption DEF SparingStep, AnyStep, Calling

\* A pulse into an ECC row blows bits of the row being written, or none.
LEMMA CodesStep == EfuseInv /\ SharedInv /\ SparingStep => CodesKept
<1> SUFFICES ASSUME EfuseInv, SharedInv, SparingStep,
                    NEW r \in DataRows, r \in locked, EccConsistent(r)
             PROVE  EccConsistent(r)'
  BY DEF CodesKept
<1>0. AnyStep /\ r \in Rows /\ EccRow[r] \in Rows /\ ETypeOK /\ WriteInv /\ EccInv
  BY SparingIsAny, RowsAssumption DEF EfuseInv
<1>1. fuse'[r] = fuse[r]
  BY <1>0, OtherRow
<1>2. ASSUME NEW e \in EccBits
      PROVE  <<r, e>> \in fuse'[EccRow[r]] <=> <<r, e>> \in fuse[EccRow[r]]
  <2>1. CASE fuse' = fuse
    BY <2>1
  <2>2. ASSUME wf.pc = "pulse", NEW blown \in SUBSET wf.val, Pulsed(blown),
               wf.row = EccRow[r], wf.row \notin locked
        PROVE  <<r, e>> \in fuse'[EccRow[r]] <=> <<r, e>> \in fuse[EccRow[r]]
    <3>1. fuse'[EccRow[r]] = fuse[EccRow[r]] \cup blown
      BY <1>0, <2>2 DEF Pulsed, ETypeOK, ArrayOK
    <3>2. EccRow[r] \notin DataRows
      BY RowsAssumption
    <3>3. ef.pc = "eccrow"
      BY <2>2, <3>2 DEF SharedInv
    <3>4. wf.req = EccWord(ef.row, ef.val) /\ InRow
      BY <1>0, <3>3 DEF EccInv
    <3>5. wf.val \subseteq wf.req \cup fuse[EccRow[r]]
      BY <2>2 DEF SharedInv, Writing
    <3>6. <<r, e>> \in wf.req => <<r, e>> \in fuse[EccRow[r]]
      <4>1. <<r, e>> \in wf.req => ef.row = r /\ e \in secded_ecc(ef.val)
        BY <3>4 DEF EccWord
      <4>2. e \in secded_ecc(fuse[r]) => <<r, e>> \in fuse[EccRow[r]]
        BY DEF EccConsistent, EccByte
      <4> QED BY <3>4, <4>1, <4>2 DEF InRow
    <3> QED BY <2>2, <3>1, <3>5, <3>6
  <2>3. CASE fuse'[EccRow[r]] = fuse[EccRow[r]]
    BY <2>3
  <2>4. ASSUME wf.pc = "pulse", NEW blown \in SUBSET wf.val, Pulsed(blown),
               wf.row # EccRow[r] \/ wf.row \in locked
        PROVE  fuse'[EccRow[r]] = fuse[EccRow[r]]
    BY <1>0, <2>4, InUse DEF Pulsed, ETypeOK, ArrayOK, WFrames
  <2> QED BY <1>0, <2>1, <2>2, <2>3, <2>4, ArrayFrame
<1>3. EccByte(r)' = EccByte(r)
  BY <1>2 DEF EccByte
<1> QED BY <1>1, <1>3 DEF EccConsistent

\* What is written, beyond what the row held, stays what was asked for.
LEMMA SharedStep == EfuseInv /\ SharedInv /\ SparingStep => SharedInv'
<1> SUFFICES ASSUME EfuseInv, SharedInv, SparingStep PROVE SharedInv'
  OBVIOUS
<1>0. /\ AnyStep /\ ETypeOK /\ Nested /\ EccInv /\ ETypeOK'
      /\ NoFrame.pc = "idle" /\ DataRows \subseteq Rows
  BY SparingIsAny, EfuseAnyStep, RowsAssumption DEF EfuseInv, NestInv, NoFrame
<1> USE DEF SharedInv, Writing
<1>1. ASSUME NEW r \in DataRows, NEW v, NEW l, efuse_write_row_no_ecc(r, v, l)
      PROVE  SharedInv'
  BY <1>1 DEF efuse_write_row_no_ecc, WFrame
<1>2. ASSUME NEW r \in Rows, NEW v, efuse_write_row_with_ecc_lock(r, v) PROVE SharedInv'
  BY <1>0, <1>2 DEF efuse_write_row_with_ecc_lock, Busy
<1>3. CASE NoEccBody
  <2>1. wf \in WFrames /\ wf.pc # "idle" /\ ef' = ef
    BY <1>0, <1>3, BodyInUse
  <2>2. wf'.row = wf.row /\ wf'.req = wf.req
    BY <1>3, <2>1, WStepSame
  <2>3. CASE WRead
    <3>1. wf.pc = "read" /\ fuse' = fuse
      BY <2>3 DEF WRead, WAt
    <3>2. CASE wf' = [wf EXCEPT !.pc = "write", !.val = wf.val \cup RawRead(wf.row)]
      BY <2>1, <2>2, <3>1, <3>2 DEF WFrames, RawRead
    <3>3. CASE (\E x : WReturn(x)) \/ AfterWrite
      BY <2>1, <2>2, <3>1, <3>3 DEF WFrames, WReturn, AfterWrite
    <3> QED BY <2>3, <3>2, <3>3 DEF WRead
  <2>4. CASE efuse_write_enable \/ efuse_raw_write \/ efuse_write_disable \/ WVerify
    <3>1. fuse[wf.row] \subseteq fuse'[wf.row]
      BY <1>0, <2>1, <2>4 DEF efuse_write_enable, efuse_raw_write, efuse_write_disable,
                              Pulsed, WVerify, WAt, ETypeOK, ArrayOK, WFrames
    <3>2. wf'.val = wf.val /\ wf'.pc # "read" /\ (wf'.pc \in Writing => wf.pc \in Writing)
      BY <2>1, <2>4 DEF efuse_write_enable, efuse_raw_write, efuse_write_disable, WVerify,
                        WReturn, WGoto, AfterWrite, WFrames, WAt, Writing
    <3> QED BY <2>1, <2>2, <3>1, <3>2
  <2>5. CASE WTimeout \/ efuse_raw_lock \/ WLockVerify
    <3>1. wf'.pc # "read" /\ wf'.pc \notin Writing
      BY <2>1, <2>5 DEF WTimeout, efuse_raw_lock, WLockVerify, WReturn, WGoto, WFrames, Writing
    <3> QED BY <2>1, <2>2, <3>1
  <2> QED BY <1>3, <2>3, <2>4, <2>5 DEF NoEccBody
<1>4. CASE ETimeout \/ EStart \/ EVerify \/ EDone
  <2>1. wf' = wf /\ wf.pc = "idle"
    BY <1>0, <1>4 DEF ETimeout, EStart, EVerify, EDone, EAt, Nested
  <2> QED BY <2>1
<1>5. CASE EEcc
  BY <1>0, <1>5, InUse DEF EEcc, EAt, WFrame, Nested, EFrames
<1>6. CASE ERow \/ EEccRow
  <2>1. ef \in EFrames
    BY <1>0, <1>6, InUse DEF ERow, EEccRow, EAt
  <2>2. wf' = NoFrame \/ (wf' = WFrame(EccRow[ef.row], EccWord(ef.row, ef.val), FALSE)
                          /\ ef' = [ef EXCEPT !.pc = "eccrow"])
    BY <1>6 DEF ERow, EEccRow, eccval
  <2> QED BY <1>0, <2>1, <2>2 DEF WFrame, EFrames
<1>7. CASE WDone \/ PowerLoss
  BY <1>0, <1>7 DEF WDone, PowerLoss
<1>8. CASE ClientFault \/ UNCHANGED evars
  BY <1>8 DEF ClientFault, evars
<1> QED
  BY <1>1, <1>2, <1>3, <1>4, <1>5, <1>6, <1>7, <1>8
     DEF SparingStep, EfuseStep, NoEccStep, WithEccStep

\* At first nothing is being written.
LEMMA SharedInit == EInit => SharedInv
BY DEF EInit, SharedInv, NoFrame, Writing

\* Writing one row never spoils the ECC byte of another, for every code, mask and
\* pattern of faults and power losses (efuse.c:435-440, 459), unless somebody
\* writes raw to an ECC row.
THEOREM CodesNeverSpoilt == ASSUME RawCallsSpareEcc PROVE ESpec => FinishedRowsStayReadable
<1>1. [ENext]_evars => SparingStep
  <2>1. Call => SparingStep
    <3>1. ASSUME NEW c \in Calls,
                 \/ c.fn = "no_ecc" /\ efuse_write_row_no_ecc(c.row, c.val, c.lock)
                 \/ c.fn = "with_ecc" /\ efuse_write_row_with_ecc_lock(c.row, c.val)
          PROVE  SparingStep
      <4>1. c.row \in Rows /\ c.val \in SUBSET RowBits /\ c.lock \in BOOLEAN
        BY CallsAssumption
      <4> QED BY <3>1, <4>1 DEF SparingStep, RawCallsSpareEcc
    <3> QED BY <3>1 DEF Call
  <2> QED BY <2>1 DEF ENext, SparingStep
<1>2. EfuseInv /\ SharedInv /\ [ENext]_evars => SharedInv'
  BY <1>1, SharedStep
<1>3. EfuseInv /\ SharedInv /\ [ENext]_evars =>
        [\A r \in DataRows : r \in locked /\ EccConsistent(r) => EccConsistent(r)']_evars
  BY <1>1, CodesStep DEF CodesKept
<1> QED BY <1>2, <1>3, SharedInit, EfuseInvariance, PTL DEF ESpec, FinishedRowsStayReadable
=============================================================================
