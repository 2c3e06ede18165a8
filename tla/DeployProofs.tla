---------------------------- MODULE DeployProofs ----------------------------
(***************************************************************************)
(* Proofs about provisioning: what a board that reports success has in its *)
(* fuses, for all tables of rows, values, keys, ECC codes and bounds, and  *)
(* whenever an access or the power fails.                                  *)
(***************************************************************************)
EXTENDS Deploy, EfuseProofs

-----------------------------------------------------------------------------
(***************************************************************************)
(* deploy.c writes with ECC only.                                          *)
(***************************************************************************)
EccCalling == \E r \in DataRows, v \in SUBSET RowBits : efuse_write_row_with_ecc_lock(r, v)
EccCallStep == EccCalling \/ EfuseStep \/ PowerLoss \/ ClientFault \/ UNCHANGED evars

\* Then all plain writes belong to one with ECC, no ECC row is ever locked, and
\* a row has an ECC byte only once it is locked.
ByteLocked == \A r \in DataRows, e \in EccBits : <<r, e>> \in fuse[EccRow[r]] => r \in locked
EccOnlyInv ==
  /\ ef.pc = "idle" => wf.pc = "idle"
  /\ ef.pc = "row" /\ wf.pc = "read" => wf.row \notin locked
  /\ locked \subseteq DataRows
  /\ ByteLocked

\* As long as nothing failed, whatever has been written is verified and locked.
FaultlessInv ==
  faults = 0 =>
    /\ wf.pc \in {"disable", "verify"} => is_row_masked(wf.row) \/ fuse[wf.row] = wf.val
    /\ wf.pc = "verify" => ~is_row_masked(wf.row)
    /\ wf.pc \in {"lockdisable", "lockverify"} => wf.row \in locked
    /\ ef.pc = "row" /\ wf.pc = "done" => res = "OK"
    /\ ef.pc = "done" /\ ~is_row_masked(ef.row) => ef.row \in locked

\* Such steps are among those that EfuseInv and SharedInv survive.
LEMMA EccCallsAreCalls == EccCallStep => SparingStep /\ AnyStep
<1>1. EccCallStep => SparingStep
  BY RowsAssumption DEF EccCallStep, EccCalling, SparingStep
<1> QED BY <1>1, SparingIsAny

\* What holds of the fuses and the frames before every step.
LEMMA Shape ==
  ASSUME EfuseInv, SharedInv, EccOnlyInv
  PROVE  /\ ETypeOK /\ Nested /\ NoFrame.pc = "idle"
         /\ wf.pc # "idle" => wf \in WFrames /\ wf.row \in Rows /\ ef.pc \in {"row", "eccrow"}
         /\ ef.pc # "idle" => /\ ef \in EFrames /\ ef.row \in DataRows /\ ef.row \in Rows
                              /\ EccRow[ef.row] \in Rows \ DataRows
<1>1. ETypeOK /\ Nested
  BY DEF EfuseInv, NestInv
<1>2. wf.pc # "idle" => wf \in WFrames /\ wf.row \in Rows
  BY <1>1, InUse DEF WFrames
<1>3. ef.pc # "idle" => ef \in EFrames /\ ef.row \in DataRows /\ ef.pc \in ELabels
  BY <1>1, InUse DEF EFrames
<1>4. wf.pc # "idle" => ef.pc \in {"row", "eccrow"}
  BY <1>1, <1>3 DEF Nested, EccOnlyInv, ELabels
<1> QED BY <1>1, <1>2, <1>3, <1>4, RowsAssumption DEF NoFrame

\* Locks are only asked for on data rows.
LEMMA LockedData ==
  ASSUME EfuseInv, SharedInv, EccOnlyInv, EccCallStep
  PROVE  locked' \subseteq DataRows
<1>1. \/ locked' = locked
      \/ wf.pc = "lockpulse" /\ locked' = locked \cup {wf.row}
  BY DEF EccCallStep, EccCalling, EfuseStep, NoEccStep, WithEccStep,
         efuse_write_row_with_ecc_lock, NoEccBody, WTimeout, WRead, WVerify, efuse_write_enable,
         efuse_raw_write, efuse_write_disable, efuse_raw_lock, WLockVerify, WDone, ETimeout, EStart, EEcc, ERow, EEccRow,
         EVerify, EDone, PowerLoss, ClientFault, evars, WAt
<1>2. wf.pc = "lockpulse" => wf.lock
  BY DEF EfuseInv, WriteInv, Locking
<1>3. wf.pc = "lockpulse" => ef.pc # "eccrow"
  BY <1>2 DEF EfuseInv, EccInv
<1>4. wf.pc = "lockpulse" => wf.row \in DataRows
  BY <1>3 DEF SharedInv
<1> QED BY <1>1, <1>4 DEF EccOnlyInv

\* What a step does to the fuses of a data row: only the row of the frame
\* changes, by bits that were asked for, and it is locked only with all of them.
LEMMA RowStep ==
  ASSUME EfuseInv, SharedInv, EccOnlyInv, EccCallStep, NEW r \in DataRows
  PROVE  /\ r \in locked => fuse'[r] = fuse[r]
         /\ fuse'[r] # fuse[r] \/ (r \in locked' /\ r \notin locked) =>
              ef.pc = "row" /\ ef.row = r
         /\ fuse[r] \subseteq fuse'[r]
         /\ fuse'[r] # fuse[r] => fuse'[r] \subseteq fuse[r] \cup ef.req
         /\ r \in locked' /\ r \notin locked => ef.req \subseteq fuse'[r]
<1>0. /\ AnyStep /\ r \in Rows /\ WriteInv /\ EccInv
      /\ ETypeOK
  BY EccCallsAreCalls, RowsAssumption DEF EfuseInv
<1>1. \/ fuse' = fuse
      \/ wf.pc = "pulse" /\ \E blown \in SUBSET wf.val : Pulsed(blown)
  BY <1>0, ArrayFrame
<1>2. \/ locked' = locked
      \/ wf.pc = "lockpulse" /\ locked' = locked \cup {wf.row} /\ fuse' = fuse
  BY DEF EccCallStep, EccCalling, EfuseStep, NoEccStep, WithEccStep,
         efuse_write_row_with_ecc_lock, NoEccBody, WTimeout, WRead, WVerify, efuse_write_enable,
         efuse_raw_write, efuse_write_disable, efuse_raw_lock, WLockVerify, WDone, ETimeout, EStart, EEcc, ERow, EEccRow,
         EVerify, EDone, PowerLoss, ClientFault, evars, WAt
<1>3. ASSUME wf.pc \in {"pulse", "lockpulse"}, wf.row = r
      PROVE  /\ ef.pc = "row" /\ ef.row = r /\ wf.req = ef.req \cup ef.old
             /\ wf.old = ef.old /\ ~is_row_masked(r)
  <2>1. ef.pc = "row" \/ ef.pc = "eccrow"
    BY <1>3, Shape
  <2>2. ef.pc # "eccrow"
    BY <1>0, <1>3, <2>1, Shape DEF EccInv
  <2> QED BY <1>0, <1>3, <2>1, <2>2 DEF EccInv
<1>4. ASSUME wf.pc = "pulse", NEW blown \in SUBSET wf.val, Pulsed(blown)
      PROVE  /\ wf.row # r \/ r \in locked => fuse'[r] = fuse[r]
             /\ wf.row = r /\ r \notin locked => fuse'[r] = fuse[r] \cup blown
  BY <1>0, <1>4, InUse DEF Pulsed, ETypeOK, ArrayOK, WFrames
<1>5. wf.pc = "pulse" /\ wf.row = r => wf.val \subseteq ef.req \cup fuse[r]
  BY <1>0, <1>3 DEF WriteInv, Writing
<1>6. wf.pc = "lockpulse" /\ wf.row = r => ef.req \subseteq fuse[r]
  BY <1>0, <1>3 DEF WriteInv, Blown, Locking
<1> QED BY <1>1, <1>2, <1>3, <1>4, <1>5, <1>6

\* An ECC byte appears only for the row of the frame, which is locked by then.
LEMMA ByteStep ==
  ASSUME EfuseInv, SharedInv, EccOnlyInv, EccCallStep
  PROVE  ByteLocked'
<1> SUFFICES ASSUME NEW r \in DataRows, NEW e \in EccBits, <<r, e>> \in fuse'[EccRow[r]]
             PROVE  r \in locked'
  BY DEF ByteLocked
<1>0. /\ AnyStep /\ EccRow[r] \in Rows /\ EccRow[r] \notin DataRows /\ EccInv /\ ETypeOK
      /\ ByteLocked
  BY EccCallsAreCalls, RowsAssumption DEF EfuseInv, EccOnlyInv
<1>1. locked \subseteq locked'
  BY <1>0, ArrayFrame
<1>2. CASE <<r, e>> \in fuse[EccRow[r]]
  BY <1>0, <1>1, <1>2 DEF ByteLocked
<1>3. ASSUME <<r, e>> \notin fuse[EccRow[r]], wf.pc = "pulse", NEW blown \in SUBSET wf.val,
             Pulsed(blown)
      PROVE  r \in locked
  <2>1. wf.row = EccRow[r] /\ <<r, e>> \in blown
    BY <1>0, <1>3, InUse DEF Pulsed, ETypeOK, ArrayOK, WFrames
  <2>2. ef.pc = "eccrow"
    BY <1>0, <1>3, <2>1 DEF SharedInv
  <2>3. <<r, e>> \in wf.req /\ wf.req = EccWord(ef.row, ef.val) /\ ef.row \in locked
    BY <1>0, <1>3, <2>1, <2>2 DEF SharedInv, Writing, EccInv, InRow
  <2> QED BY <2>3 DEF EccWord
<1> QED BY <1>0, <1>1, <1>2, <1>3, ArrayFrame

\* The nesting, and that the row written is open when the writing begins.
LEMMA EccOnlyStep == EfuseInv /\ SharedInv /\ EccOnlyInv /\ EccCallStep => EccOnlyInv'
<1> SUFFICES ASSUME EfuseInv, SharedInv, EccOnlyInv, EccCallStep
             PROVE  /\ ef'.pc = "idle" => wf'.pc = "idle"
                    /\ ef'.pc = "row" /\ wf'.pc = "read" => wf'.row \notin locked'
  BY LockedData, ByteStep DEF EccOnlyInv
<1> DEFINE Goal == /\ ef'.pc = "idle" => wf'.pc = "idle"
                   /\ ef'.pc = "row" /\ wf'.pc = "read" => wf'.row \notin locked'
<1> USE Shape
<1>1. ASSUME NEW r \in DataRows, NEW v, efuse_write_row_with_ecc_lock(r, v) PROVE Goal
  BY <1>1 DEF efuse_write_row_with_ecc_lock, EFrame, Busy
<1>2. CASE NoEccStep
  <2>1. wf \in WFrames /\ wf.pc # "idle" /\ ef' = ef /\ ef.pc # "idle"
    BY <1>2, InUse, BodyInUse DEF NoEccStep, WDone, WAt
  <2>2. wf'.pc # "read"
    <3>1. CASE WDone
      BY <3>1 DEF WDone
    <3>2. CASE NoEccBody
      BY <2>1, <3>2, BodyReads
    <3> QED BY <1>2, <3>1, <3>2 DEF NoEccStep
  <2> QED BY <2>1, <2>2
<1>3. CASE ETimeout \/ EStart \/ EVerify \/ EDone
  <2>1. wf' = wf /\ wf.pc = "idle"
    BY <1>3 DEF ETimeout, EStart, EVerify, EDone, EAt, Nested
  <2> QED BY <2>1
<1>4. CASE EEcc
  <2>1. ef \in EFrames /\ ef.pc = "ecc" /\ wf.pc = "idle" /\ ef.row \notin locked
    BY <1>4 DEF EEcc, EAt, Nested, EfuseInv, EccInv
  <2> QED BY <1>4, <2>1 DEF EEcc, EReturn, EFrames, WFrame
<1>5. CASE ERow \/ EEccRow
  <2>1. ef \in EFrames
    BY <1>5 DEF ERow, EEccRow, EAt
  <2> QED BY <1>5, <2>1 DEF ERow, EEccRow, EReturn, EFrames
<1>6. CASE PowerLoss
  BY <1>6 DEF PowerLoss
<1>7. CASE ClientFault \/ UNCHANGED evars
  BY <1>7 DEF ClientFault, evars, EccOnlyInv
<1> QED
  BY <1>1, <1>2, <1>3, <1>4, <1>5, <1>6, <1>7
     DEF EccCallStep, EccCalling, EfuseStep, WithEccStep

\* Without a fault each pulse and each lock takes at once, and a refused row is
\* one that is locked already.
LEMMA FaultlessStep ==
  EfuseInv /\ SharedInv /\ EccOnlyInv /\ FaultlessInv /\ EccCallStep => FaultlessInv'
<1> SUFFICES ASSUME EfuseInv, SharedInv, EccOnlyInv, FaultlessInv, EccCallStep, faults' = 0
             PROVE  FaultlessInv'
  BY DEF FaultlessInv
<1>0. /\ ETypeOK /\ Nested /\ WriteInv /\ EccInv /\ faults \in Nat
      /\ NoFrame.pc = "idle"
  BY DEF EfuseInv, NestInv, ETypeOK, CountersOK, NoFrame
<1>a. ~Fault
  BY <1>0 DEF Fault
<1>b. faults = 0
  <2>1. faults' = faults
    BY <1>a DEF EccCallStep, EccCalling, EfuseStep, NoEccStep, WithEccStep,
         efuse_write_row_with_ecc_lock, NoEccBody, WTimeout, WRead, WVerify, efuse_write_enable,
         efuse_raw_write, efuse_write_disable, efuse_raw_lock, WLockVerify, WDone, ETimeout, EStart, EEcc, ERow, EEccRow, EVerify,
         EDone, PowerLoss, ClientFault, evars
  <2> QED BY <2>1
<1> USE <1>0, <1>a, <1>b, Shape DEF FaultlessInv, is_row_masked
<1>1. ASSUME NEW r \in DataRows, NEW v, efuse_write_row_with_ecc_lock(r, v)
      PROVE  FaultlessInv'
  BY <1>1 DEF efuse_write_row_with_ecc_lock, EFrame, Busy
<1>2. CASE WTimeout \/ ETimeout \/ ClientFault
  BY <1>2 DEF WTimeout, ETimeout, ClientFault
<1>3. CASE NoEccBody /\ ~WTimeout
  <2>1. /\ wf \in WFrames /\ ef' = ef /\ ef.pc \in {"row", "eccrow"} /\ wf.row \in Rows
        /\ wf.pc # "idle"
    BY <1>3, BodyInUse
  <2>2. wf'.row = wf.row
    BY <1>3, <2>1, WStepSame
  <2>3. CASE WRead
    <3>1. wf.pc = "read" /\ (ef.pc = "row" => wf.row \notin locked)
      BY <2>3 DEF WRead, WAt, EccOnlyInv
    <3> QED BY <2>1, <2>3, <3>1 DEF WRead, WReturn, AfterWrite, WFrames
  <2>4. CASE efuse_raw_write
    <3>1. /\ wf.row \notin locked /\ Pulsed(wf.val)
          /\ ~is_row_masked(wf.row) => fuse[wf.row] \subseteq wf.val
      BY <2>4 DEF efuse_raw_write, WAt, WriteInv, Writing
    <3>2. ~is_row_masked(wf.row) => fuse'[wf.row] = wf.val
      BY <2>1, <3>1 DEF Pulsed, ETypeOK, ArrayOK
    <3> QED BY <2>1, <2>2, <2>4, <3>2 DEF efuse_raw_write, WGoto, WFrames
  <2>8. CASE efuse_write_enable
    BY <2>1, <2>8 DEF efuse_write_enable, WGoto, WFrames
  <2>9. CASE efuse_write_disable
    <3>1. wf.pc \in {"disable", "lockdisable"} /\ UNCHANGED <<fuse, locked>>
      BY <2>9 DEF efuse_write_disable
    <3>2. CASE wf.pc = "disable" /\ is_row_masked(wf.row)
      BY <2>1, <2>2, <2>9, <3>2 DEF efuse_write_disable, AfterWrite, WReturn, WFrames
    <3>3. CASE wf.pc = "lockdisable" \/ ~is_row_masked(wf.row)
      BY <2>1, <2>2, <2>9, <3>1, <3>3 DEF efuse_write_disable, WGoto, WFrames
    <3> QED BY <3>1, <3>2, <3>3
  <2>5. CASE WVerify
    <3>1. AfterWrite
      BY <2>5 DEF WVerify, WAt, RawRead
    <3> QED BY <2>1, <2>5, <3>1 DEF WVerify, AfterWrite, WReturn, WFrames
  <2>6. CASE efuse_raw_lock
    BY <2>1, <2>2, <2>6 DEF efuse_raw_lock, WGoto, WFrames
  <2>7. CASE WLockVerify
    BY <2>1, <2>7 DEF WLockVerify, WAt, WReturn, WFrames
  <2> QED BY <1>3, <2>3, <2>4, <2>5, <2>6, <2>7, <2>8, <2>9 DEF NoEccBody
<1>4. CASE EStart \/ EEcc \/ ERow \/ EEccRow \/ EVerify
  <2>1. ef \in EFrames /\ ef.row \in DataRows /\ EccRow[ef.row] \notin DataRows
    BY <1>4 DEF EStart, EEcc, ERow, EEccRow, EVerify, EAt
  <2>2. locked' = locked /\ fuse' = fuse /\ ef'.row = ef.row
    BY <1>4, <2>1 DEF EStart, EEcc, ERow, EEccRow, EVerify, EReturn, EFrames
  <2>3. wf'.pc \in {"idle", "read"}
    BY <1>4, <2>1 DEF EStart, EEcc, ERow, EEccRow, EVerify, EAt, Nested, WFrame
  <2>4. ef'.pc = "done" /\ ~is_row_masked(ef.row) => ef.row \in locked
    <3>1. CASE EStart
      BY <2>1, <3>1 DEF EStart, EFrames
    <3>2. CASE EEcc
      BY <2>1, <3>2 DEF EEcc, EReturn, EFrames, EccOnlyInv, ByteLocked, EccByte
    <3>3. CASE ERow
      BY <2>1, <3>3 DEF ERow, EAt, WAt, EFrames
    <3>4. CASE EEccRow \/ EVerify
      BY <2>1, <3>4 DEF EEccRow, EVerify, EAt, EccInv, InRow
    <3> QED BY <1>4, <3>1, <3>2, <3>3, <3>4
  <2> QED BY <2>2, <2>3, <2>4
<1>5. CASE WDone \/ EDone \/ PowerLoss
  BY <1>5 DEF WDone, WAt, EDone, EAt, PowerLoss, Nested
<1>6. CASE UNCHANGED evars
  BY <1>6 DEF evars
<1> QED
  BY <1>1, <1>2, <1>3, <1>4, <1>5, <1>6
     DEF EccCallStep, EccCalling, EfuseStep, NoEccStep, NoEccBody, WithEccStep

-----------------------------------------------------------------------------
(***************************************************************************)
(* The invariants of do_deploy and do_deploy_trust_only.                   *)
(***************************************************************************)
Labels == {"boot", "info", "info_ret", "key", "keyrow", "keyrow_ret", "report", "trust", "end"}

DTypeOK ==
  /\ dpc \in Labels /\ i \in Nat \ {0} /\ attempt \in Nat
  /\ dpc = "info_ret" => i <= Len(InfoRows)
  /\ dpc = "keyrow_ret" => i <= Len(KeyRows)
  /\ dpc \in {"keyrow", "keyrow_ret"} => priv \in Keys \cap generated
  /\ status = "ok" => dpc \in {"end", "boot"}

\* The row being written, and what is to be in it.
Current(r, v) ==
  \/ dpc = "info_ret" /\ r = InfoRows[i] /\ v = Value[r]
  \/ dpc = "keyrow_ret" /\ r = KeyRows[i] /\ v = priv[r]
  \/ dpc = "trust" /\ i - 1 \in 1..Len(TrustRows) /\ r = TrustRows[i - 1] /\ v = Value[r]

\* A row that was reported as written.
Written(r, v) ==
  /\ r \in locked /\ v \subseteq fuse[r]
  /\ ~is_row_masked(EccRow[r]) => EccConsistent(r)

CallInv ==
  /\ ef.pc # "idle" => Current(ef.row, ef.req)
  /\ ef.pc = "idle" /\ dpc \in {"info_ret", "keyrow_ret"} /\ res = "OK" =>
       \A r \in DataRows, v \in SUBSET DataBits : Current(r, v) => Written(r, v)

\* The rows with a value of their own hold part of it until they are locked.
Fixed == RangeOf(InfoRows) \cup RangeOf(HashRows) \cup RangeOf(FlagRows)
FixedInv == \A r \in Fixed : /\ fuse[r] \subseteq Value[r]
                             /\ r \in locked => fuse[r] = Value[r]

\* The info rows that are done.
InfoInv ==
  /\ dpc \in {"info", "info_ret"} => \A n \in 1..Len(InfoRows) : n < i => InfoRows[n] \in locked
  /\ dpc \in {"key", "keyrow", "keyrow_ret", "report"} \/ status = "ok" =>
       \A n \in 1..Len(InfoRows) : InfoRows[n] \in locked

DInv == /\ EfuseInv /\ SharedInv /\ EccOnlyInv /\ FaultlessInv
        /\ DTypeOK /\ CallInv /\ FixedInv /\ InfoInv

\* The hash rows that are done, and when the flags are written.
HashInv ==
  faults = 0 =>
    /\ dpc = "trust" => \A n \in 1..Len(HashRows) :
         n < i => HashRows[n] \in locked \/ (ef.pc # "idle" /\ n = i - 1)
    /\ (\/ ef.pc # "idle" /\ ef.row \in RangeOf(FlagRows)
        \/ \E r \in RangeOf(FlagRows) : fuse[r] # {})
       => \A n \in 1..Len(HashRows) : HashRows[n] \in locked

\* The first start finds blank rows, and completes them one after the other.
Complete(r, v) == r \in locked /\ EccConsistent(r) /\ fuse[r] = v
KeyPart(k) == \A r \in RangeOf(KeyRows) : fuse[r] \subseteq k[r]
FirstInv ==
  /\ attempt = 0 => /\ dpc = "boot" /\ status # "ok" /\ locked = {}
                    /\ \A r \in Rows : fuse[r] = {}
  /\ attempt = 1 =>
       /\ dpc \in {"info", "info_ret", "key"} =>
            \A r \in RangeOf(KeyRows) : fuse[r] = {} /\ r \notin locked
       /\ dpc \in {"info", "info_ret", "key", "keyrow", "keyrow_ret", "report"} \/ status = "ok" =>
            \A r \in RangeOf(InfoRows) \cap locked :
              \/ EccConsistent(r)
              \/ dpc = "info_ret" /\ ef.pc # "idle" /\ ef.row = r
              \/ dpc = "info_ret" /\ res # "OK" /\ InfoRows[i] = r
       /\ dpc \in {"keyrow", "keyrow_ret"} =>
            /\ KeyPart(priv)
            /\ \A n \in 1..Len(KeyRows) : n < i => Complete(KeyRows[n], priv[KeyRows[n]])
       /\ dpc = "report" \/ status = "ok" =>
            \E k \in generated : \A n \in 1..Len(KeyRows) : Complete(KeyRows[n], k[KeyRows[n]])

-----------------------------------------------------------------------------
(***************************************************************************)
(* The rows, and the steps of deploy.c as steps of the fuses.              *)
(***************************************************************************)
\* The two info rows and the key rows.
LEMMA OpRows ==
  /\ \A n \in 1..Len(InfoRows) : /\ InfoRows[n] \in RangeOf(InfoRows) \cap Fixed \cap DataRows
                                 /\ Value[InfoRows[n]] \in SUBSET DataBits
  /\ \A n \in 1..Len(KeyRows) : KeyRows[n] \in RangeOf(KeyRows) \cap DataRows
  /\ \A n \in 1..Len(HashRows) : HashRows[n] \in RangeOf(HashRows) \cap Fixed \cap DataRows
  /\ \A n \in 1..Len(FlagRows) : FlagRows[n] \in RangeOf(FlagRows) \cap Fixed \cap DataRows
  /\ \A r \in Fixed : r \in DataRows /\ Value[r] \in SUBSET DataBits
  /\ RangeOf(KeyRows) \subseteq DataRows
  /\ Fixed \cap RangeOf(KeyRows) = {}
<1>1. /\ InfoRows \in Seq(DataRows) /\ KeyRows \in Seq(DataRows)
      /\ HashRows \in Seq(DataRows) /\ FlagRows \in Seq(DataRows)
  BY DeployAssumption
<1>2. /\ \A n \in 1..Len(InfoRows) : InfoRows[n] \in DataRows /\ InfoRows[n] \in RangeOf(InfoRows)
      /\ \A n \in 1..Len(KeyRows) : KeyRows[n] \in DataRows /\ KeyRows[n] \in RangeOf(KeyRows)
      /\ \A n \in 1..Len(HashRows) : HashRows[n] \in DataRows /\ HashRows[n] \in RangeOf(HashRows)
      /\ \A n \in 1..Len(FlagRows) : FlagRows[n] \in DataRows /\ FlagRows[n] \in RangeOf(FlagRows)
  BY <1>1 DEF RangeOf
<1>3. \A r \in Fixed : r \in DataRows
  BY <1>2 DEF RangeOf, Fixed
<1>4. RangeOf(KeyRows) \subseteq DataRows
  BY <1>2 DEF RangeOf
<1>5. \A r \in Fixed : Value[r] \in SUBSET DataBits
  BY DeployAssumption DEF Fixed
<1>6. Fixed \cap RangeOf(KeyRows) = {}
  BY DeployAssumption DEF Fixed
<1> QED BY <1>2, <1>3, <1>4, <1>5, <1>6 DEF Fixed

\* First the hash, then the flags.
LEMMA TrustOrder ==
  /\ Len(TrustRows) = Len(HashRows) + Len(FlagRows)
  /\ Len(HashRows) \in Nat /\ Len(FlagRows) \in Nat
  /\ \A n \in 1..Len(HashRows) : n \in 1..Len(TrustRows) /\ TrustRows[n] = HashRows[n]
  /\ \A n \in 1..Len(TrustRows) :
       /\ TrustRows[n] \in Fixed \cap DataRows
       /\ TrustRows[n] \in RangeOf(FlagRows) <=> n > Len(HashRows)
<1>1. HashRows \in Seq(DataRows) /\ FlagRows \in Seq(DataRows)
  BY DeployAssumption
<1>2. /\ Len(TrustRows) = Len(HashRows) + Len(FlagRows)
      /\ Len(HashRows) \in Nat /\ Len(FlagRows) \in Nat
      /\ \A n \in 1..Len(TrustRows) :
           TrustRows[n] = IF n <= Len(HashRows) THEN HashRows[n] ELSE FlagRows[n - Len(HashRows)]
  BY <1>1 DEF TrustRows
<1>3. \A n \in 1..Len(TrustRows) : n > Len(HashRows) => n - Len(HashRows) \in 1..Len(FlagRows)
  BY <1>2
<1>4. ASSUME NEW n \in 1..Len(TrustRows)
      PROVE  /\ TrustRows[n] \in Fixed \cap DataRows
             /\ TrustRows[n] \in RangeOf(FlagRows) <=> n > Len(HashRows)
  <2>1. CASE n > Len(HashRows)
    BY <1>2, <1>3, <2>1, OpRows
  <2>2. CASE ~(n > Len(HashRows))
    <3>1. n \in 1..Len(HashRows)
      BY <1>2, <2>2
    <3>2. TrustRows[n] = HashRows[n]
      BY <1>2, <2>2
    <3>3. TrustRows[n] \notin RangeOf(FlagRows)
      BY <3>1, <3>2, OpRows, DeployAssumption
    <3> QED BY <2>2, <3>1, <3>2, <3>3, OpRows
  <2> QED BY <2>1, <2>2
<1>5. \A n \in 1..Len(HashRows) : n \in 1..Len(TrustRows) /\ TrustRows[n] = HashRows[n]
  BY <1>2
<1> QED BY <1>2, <1>4, <1>5

\* Steps that leave the fuses and their frames alone.
Quiet == UNCHANGED <<fuse, locked, wf, ef, res>>

\* The calls of deploy.c.
Calls3 ==
  \/ /\ dpc = "info" /\ i <= Len(InfoRows) /\ Goto("info_ret", i)
     /\ efuse_write_row_with_ecc_lock(InfoRows[i], Value[InfoRows[i]])
     /\ UNCHANGED <<priv, status, attempt, generated>>
  \/ /\ dpc = "keyrow" /\ i <= Len(KeyRows) /\ Goto("keyrow_ret", i)
     /\ efuse_write_row_with_ecc_lock(KeyRows[i], priv[KeyRows[i]])
     /\ UNCHANGED <<priv, status, attempt, generated>>
  \/ /\ dpc = "trust" /\ i <= Len(TrustRows) /\ Goto("trust", i + 1) /\ ~NoHash
     /\ efuse_write_row_with_ecc_lock(TrustRows[i], Value[TrustRows[i]])
     /\ UNCHANGED <<priv, status, attempt, generated>>

\* Its other steps.
Progress ==
  \/ \E op \in Ops : Start(op)
  \/ UnknownRam \/ (Info /\ UNCHANGED evars) \/ InfoReturn \/ ReadLockFails
  \/ generate_and_write_ecdsa_key \/ (WriteKeyRow /\ UNCHANGED evars) \/ KeyRowReturn
  \/ Report \/ (Trust /\ UNCHANGED evars) \/ WarmReset

\* Every step of deploy.c is one of these.
LEMMA DeploySteps ==
  ASSUME DTypeOK, [DNext]_vars
  PROVE  \/ Calls3 \/ Progress \/ LosePower \/ (EfuseStep /\ UNCHANGED dvars)
         \/ UNCHANGED vars
<1>0. i \in Nat \ {0} /\ Len(InfoRows) \in Nat /\ Len(KeyRows) \in Nat
  BY DeployAssumption DEF DTypeOK
<1>1. Info => Calls3 \/ (Info /\ UNCHANGED evars)
  BY <1>0 DEF Info, Calls3
<1>2. WriteKeyRow => Calls3 \/ (WriteKeyRow /\ UNCHANGED evars)
  BY <1>0 DEF WriteKeyRow, KeyRowCount, Calls3
<1>3. Trust => Calls3 \/ (Trust /\ UNCHANGED evars)
  BY <1>0, TrustOrder DEF Trust, Calls3
<1> QED BY <1>1, <1>2, <1>3 DEF DNext, Progress, EfuseStep

\* The other steps of deploy leave the fuses alone; at most a reading fails.
LEMMA ProgressQuiet == Progress => Quiet /\ (ClientFault \/ UNCHANGED evars)
BY DEF Progress, Quiet, Start, UnknownRam, Info, InfoReturn, ReadLockFails, LockReadFails,
       generate_and_write_ecdsa_key, WriteKeyRow, KeyRowReturn, Report, Trust, WarmReset,
       ClientFault, array, evars, Goto, die

\* A call is for the current row.
LEMMA CallIsCurrent ==
  ASSUME DTypeOK, Calls3
  PROVE  \E r \in DataRows, v \in SUBSET RowBits :
           /\ efuse_write_row_with_ecc_lock(r, v) /\ Current(r, v)'
           /\ r \in Fixed => v = Value[r]
           /\ ef' = EFrame(r, v)
<1>0. i \in Nat \ {0} /\ DataBits \subseteq RowBits
  BY DEF DTypeOK, RowBits
<1>1. CASE dpc = "info"
  <2>1. i \in 1..Len(InfoRows)
    BY <1>0, <1>1, DeployAssumption DEF Calls3
  <2>2. InfoRows[i] \in DataRows /\ Value[InfoRows[i]] \in SUBSET RowBits
    BY <1>0, <2>1, OpRows
  <2> QED BY <1>1, <2>2 DEF Calls3, Current, Goto, efuse_write_row_with_ecc_lock
<1>2. CASE dpc = "keyrow"
  <2>1. i \in 1..Len(KeyRows)
    BY <1>0, <1>2, DeployAssumption DEF Calls3
  <2>2. /\ KeyRows[i] \in DataRows /\ KeyRows[i] \notin Fixed
        /\ priv[KeyRows[i]] \in SUBSET RowBits
    BY <1>0, <1>2, <2>1, OpRows, DeployAssumption DEF DTypeOK
  <2> QED BY <1>2, <2>2 DEF Calls3, Current, Goto, efuse_write_row_with_ecc_lock
<1>3. CASE dpc = "trust"
  <2>1. i \in 1..Len(TrustRows)
    BY <1>0, <1>3, TrustOrder DEF Calls3
  <2>2. TrustRows[i] \in DataRows /\ Value[TrustRows[i]] \in SUBSET RowBits
    BY <1>0, <2>1, OpRows, TrustOrder
  <2>3. dpc' = "trust" /\ i' - 1 = i
    BY <1>0, <1>3 DEF Calls3, Goto
  <2> QED BY <1>3, <2>1, <2>2, <2>3 DEF Calls3, Current, efuse_write_row_with_ecc_lock
<1> QED BY <1>1, <1>2, <1>3 DEF Calls3

\* To the fuses every step is one of a client that only writes with ECC.
LEMMA DeployCalls == DTypeOK /\ [DNext]_vars => EccCallStep
<1> SUFFICES ASSUME DTypeOK, [DNext]_vars PROVE EccCallStep
  OBVIOUS
<1>1. Calls3 => EccCallStep
  BY CallIsCurrent DEF EccCallStep, EccCalling
<1>2. Progress \/ LosePower \/ EfuseStep \/ UNCHANGED vars => EccCallStep
  BY ProgressQuiet DEF EccCallStep, LosePower, vars
<1> QED BY <1>1, <1>2, DeploySteps

-----------------------------------------------------------------------------
(***************************************************************************)
(* One step per conjunct of the invariant.                                 *)
(***************************************************************************)
\* Every step keeps the types.
LEMMA DTypeStep == DTypeOK /\ [DNext]_vars => DTypeOK'
<1> SUFFICES ASSUME DTypeOK, [DNext]_vars PROVE DTypeOK'
  OBVIOUS
<1> USE DEF DTypeOK, Labels
<1>1. CASE Calls3
  <2>1. i + 1 \in Nat \ {0}
    OBVIOUS
  <2> QED BY <1>1, <2>1 DEF Calls3, Goto
<1>2. CASE Progress
  <2>1. i + 1 \in Nat \ {0} /\ 1 \in Nat \ {0} /\ attempt + 1 \in Nat
    OBVIOUS
  <2>2. CASE \E op \in Ops : Start(op)
    BY <2>1, <2>2 DEF Start, Goto
  <2>3. CASE UnknownRam \/ ReadLockFails \/ Report \/ (Trust /\ UNCHANGED evars) \/ WarmReset
    <3>1. /\ dpc' \in {"end", "boot", "trust"} /\ attempt' = attempt
          /\ dpc' = "trust" => dpc = "trust" /\ status' = status
          /\ i' \in Nat \ {0}
      BY <2>1, <2>3 DEF UnknownRam, ReadLockFails, Report, Trust, WarmReset, Goto, die
    <3> QED BY <3>1
  <2>4. CASE (Info /\ UNCHANGED evars) \/ InfoReturn
    <3>1. CASE dpc' = "info_ret"
      BY <2>4, <3>1, DeployAssumption DEF Info, InfoReturn, Goto, die
    <3>2. CASE dpc' # "info_ret"
      BY <2>1, <2>4, <3>2 DEF Info, InfoReturn, Goto, die
    <3> QED BY <3>1, <3>2
  <2>5. CASE generate_and_write_ecdsa_key \/ KeyRowReturn
    BY <2>1, <2>5 DEF generate_and_write_ecdsa_key, KeyRowReturn, Goto, die
  <2>6. CASE WriteKeyRow /\ UNCHANGED evars
    <3>1. CASE dpc' = "keyrow_ret"
      BY <2>6, <3>1, DeployAssumption DEF WriteKeyRow, Goto, KeyRowCount
    <3>2. CASE dpc' # "keyrow_ret"
      BY <2>1, <2>6, <3>2 DEF WriteKeyRow, Goto
    <3> QED BY <3>1, <3>2
  <2> QED BY <1>2, <2>2, <2>3, <2>4, <2>5, <2>6 DEF Progress
<1>3. CASE LosePower
  BY <1>3 DEF LosePower, Goto
<1>4. CASE UNCHANGED dvars
  BY <1>4 DEF dvars
<1> QED BY <1>1, <1>2, <1>3, <1>4, DeploySteps DEF vars

\* deploy.c goes on only when the writing function has returned.
LEMMA ProgressIdle == CallInv /\ EccOnlyInv /\ Progress => ef.pc = "idle" /\ wf.pc = "idle"
<1>1. CallInv /\ Progress => ef.pc = "idle"
  BY DEF CallInv, Current, Progress, Busy, Start, UnknownRam, Info, InfoReturn, ReadLockFails,
         generate_and_write_ecdsa_key, WriteKeyRow, KeyRowReturn, Report, Trust, WarmReset
<1> QED BY <1>1 DEF EccOnlyInv

\* The writing function keeps its arguments, and ends in EDone.
LEMMA FrameKept ==
  ASSUME EfuseInv, SharedInv, EccOnlyInv, EfuseStep
  PROVE  /\ ef.pc # "idle"
         /\ ef'.pc # "idle" => ef'.row = ef.row /\ ef'.req = ef.req
         /\ ef'.pc = "idle" => EDone
<1> USE Shape
<1>1. CASE NoEccStep
  <2>1. wf.pc # "idle"
    BY <1>1, BodyInUse DEF NoEccStep, WDone, WAt
  <2>2. ef' = ef /\ ef.pc # "idle"
    BY <1>1, <2>1, BodyInUse DEF NoEccStep, WDone
  <2> QED BY <2>2
<1>2. CASE EDone
  BY <1>2 DEF EDone, EAt
<1>3. CASE ETimeout \/ EStart \/ EEcc \/ ERow \/ EEccRow \/ EVerify
  <2>1. ef \in EFrames /\ ef.pc # "idle"
    BY <1>3 DEF ETimeout, EStart, EEcc, ERow, EEccRow, EVerify, EAt
  <2>2. ef'.row = ef.row /\ ef'.req = ef.req /\ ef'.pc # "idle"
    BY <1>3, <2>1 DEF ETimeout, EStart, EEcc, ERow, EEccRow, EVerify, EReturn, EFrames
  <2> QED BY <2>1, <2>2
<1> QED BY <1>1, <1>2, <1>3 DEF EfuseStep, WithEccStep

\* There is one current row.
LEMMA CurrentUnique ==
  ASSUME NEW r1, NEW v1, NEW r2, NEW v2, Current(r1, v1), Current(r2, v2)
  PROVE  r1 = r2 /\ v1 = v2
BY DEF Current

\* When the writing function returns OK, the current row is written.
LEMMA CallStep ==
  EfuseInv /\ SharedInv /\ EccOnlyInv /\ DTypeOK /\ CallInv /\ [DNext]_vars => CallInv'
<1> SUFFICES ASSUME EfuseInv, SharedInv, EccOnlyInv, DTypeOK, CallInv, [DNext]_vars
             PROVE  CallInv'
  OBVIOUS
<1>1. CASE Calls3
  <2>1. PICK r \in DataRows, v \in SUBSET RowBits : Current(r, v)' /\ ef' = EFrame(r, v)
    BY <1>1, CallIsCurrent
  <2>2. ef'.pc = "start" /\ ef'.row = r /\ ef'.req = v
    BY <2>1 DEF EFrame
  <2>3. (Current(ef.row, ef.req))'
    BY <2>1, <2>2 DEF Current
  <2> QED BY <2>2, <2>3 DEF CallInv
<1>2. CASE Progress
  <2>1. ef'.pc = "idle"
    BY <1>2, ProgressIdle, ProgressQuiet DEF Quiet
  <2>2. dpc' \notin {"info_ret", "keyrow_ret"}
    <3>2. CASE Info /\ UNCHANGED evars
      <4>1. i <= Len(InfoRows) /\ InfoRows[i] \notin locked => FALSE
        <5>1. i <= Len(InfoRows) => i \in 1..Len(InfoRows)
          BY DeployAssumption DEF DTypeOK
        <5>2. i <= Len(InfoRows) => InfoRows[i] \in DataRows
          BY <5>1, OpRows
        <5>3. i <= Len(InfoRows) /\ InfoRows[i] \notin locked => ef'.pc = "start"
          BY <3>2, <5>2, <5>1 DEF Info, efuse_write_row_with_ecc_lock, EFrame, DTypeOK
        <5> QED BY <2>1, <5>3
      <4> QED BY <3>2, <4>1 DEF Info, Goto, DTypeOK
    <3>3. CASE WriteKeyRow /\ UNCHANGED evars
      <4>1. i <= Len(KeyRows) => FALSE
        <5>1. i <= Len(KeyRows) => i \in 1..Len(KeyRows)
          BY DeployAssumption DEF DTypeOK
        <5>2. i <= Len(KeyRows) => KeyRows[i] \in DataRows
          BY <5>1, OpRows
        <5>3. i <= Len(KeyRows) => ef'.pc = "start"
          BY <3>3, <5>2, <5>1 DEF WriteKeyRow, efuse_write_row_with_ecc_lock, EFrame, DTypeOK,
                                  KeyRowCount
        <5> QED BY <2>1, <5>3
      <4> QED BY <3>3, <4>1 DEF WriteKeyRow, Goto, DTypeOK, KeyRowCount
    <3>4. CASE \/ \E op \in Ops : Start(op)
               \/ UnknownRam \/ InfoReturn \/ ReadLockFails \/ generate_and_write_ecdsa_key
               \/ KeyRowReturn \/ Report \/ (Trust /\ UNCHANGED evars) \/ WarmReset
      BY <3>4 DEF Start, UnknownRam, InfoReturn, ReadLockFails,
                   generate_and_write_ecdsa_key, KeyRowReturn, Report, Trust, WarmReset, Goto, die
    <3> QED BY <1>2, <3>2, <3>3, <3>4 DEF Progress
  <2> QED BY <2>1, <2>2 DEF CallInv
<1>3. CASE LosePower
  <2>1. ef'.pc = "idle" /\ dpc' = "boot"
    BY <1>3 DEF LosePower, PowerLoss, NoFrame, Goto
  <2> QED BY <2>1 DEF CallInv
<1>4. CASE EfuseStep /\ UNCHANGED dvars
  <2>1. \A r, v : Current(r, v)' <=> Current(r, v)
    BY <1>4 DEF dvars, Current
  <2>2. CASE ef'.pc # "idle"
    <3>1. ef'.row = ef.row /\ ef'.req = ef.req /\ Current(ef.row, ef.req)
      BY <1>4, <2>2, FrameKept DEF CallInv
    <3>2. (Current(ef.row, ef.req))'
      BY <1>4, <3>1 DEF Current, dvars
    <3> QED BY <2>2, <3>2 DEF CallInv
  <2>3. CASE ef'.pc = "idle"
    <3>1. EDone /\ ef.pc = "done" /\ UNCHANGED <<fuse, locked, res>> /\ Current(ef.row, ef.req)
      BY <1>4, <2>3, FrameKept DEF EDone, EAt, CallInv
    <3>2. ASSUME res = "OK", NEW r \in DataRows, NEW v \in SUBSET DataBits, Current(r, v)
          PROVE  Written(r, v)'
      <4>1. r = ef.row /\ v = ef.req
        BY <3>1, <3>2, CurrentUnique
      <4>2. Written(r, v)
        BY <3>1, <3>2, <4>1 DEF EfuseInv, EccInv, EccWriteVerified, Written
      <4> QED BY <3>1, <4>2 DEF Written, EccConsistent, EccByte
    <3> QED BY <2>1, <2>3, <3>1, <3>2 DEF CallInv
  <2> QED BY <2>2, <2>3
<1>5. CASE UNCHANGED vars
  BY <1>5 DEF vars, evars, dvars, CallInv, Current, Written, EccConsistent, EccByte
<1> QED BY <1>1, <1>2, <1>3, <1>4, <1>5, DeploySteps

\* Rows with a value of their own: only bits of it, and a lock only on all of it.
LEMMA FixedStep ==
  EfuseInv /\ SharedInv /\ EccOnlyInv /\ DTypeOK /\ CallInv /\ FixedInv /\ EccCallStep
    => FixedInv'
<1> SUFFICES ASSUME EfuseInv, SharedInv, EccOnlyInv, DTypeOK, CallInv, FixedInv, EccCallStep,
                    NEW r \in Fixed
             PROVE  fuse'[r] \subseteq Value[r] /\ (r \in locked' => fuse'[r] = Value[r])
  BY DEF FixedInv
<1>1. r \in DataRows /\ fuse[r] \subseteq Value[r] /\ (r \in locked => fuse[r] = Value[r])
  BY OpRows DEF FixedInv
<1>2. ef.pc = "row" /\ ef.row = r => ef.req = Value[r]
  <2>1. ef.pc = "row" /\ ef.row = r => Current(r, ef.req)
    BY DEF CallInv
  <2>2. dpc = "keyrow_ret" /\ ef.pc = "row" /\ ef.row = r => FALSE
    <3>1. dpc = "keyrow_ret" => i \in 1..Len(KeyRows)
      BY DeployAssumption DEF DTypeOK
    <3> QED BY <2>1, <3>1, OpRows DEF Current
  <2> QED BY <2>1, <2>2 DEF Current
<1> QED BY <1>1, <1>2, RowStep

\* An info row counts as done only when it is locked.
LEMMA InfoStep ==
  EfuseInv /\ EccOnlyInv /\ DTypeOK /\ CallInv /\ InfoInv /\ [DNext]_vars => InfoInv'
<1> SUFFICES ASSUME EfuseInv, EccOnlyInv, DTypeOK, CallInv, InfoInv, [DNext]_vars PROVE InfoInv'
  OBVIOUS
<1>1. locked \subseteq locked'
  BY DeployCalls, EccCallsAreCalls, ArrayFrame
<1>2. i \in Nat \ {0} /\ Len(InfoRows) \in Nat
  BY DeployAssumption DEF DTypeOK
<1> USE DEF InfoInv
<1>3. CASE Calls3
  BY <1>1, <1>3 DEF Calls3, Goto, DTypeOK
<1>4. CASE Progress
  <2>1. locked' = locked /\ ef.pc = "idle"
    BY <1>4, ProgressQuiet, ProgressIdle DEF Quiet
  <2>2. CASE \E op \in Ops : Start(op)
    BY <1>2, <2>2 DEF Start, Goto
  <2>3. CASE Info /\ UNCHANGED evars
    <3>1. dpc = "info" /\ status' = status
      BY <2>3 DEF Info
    <3>2. CASE i > Len(InfoRows)
      BY <1>2, <2>1, <2>3, <3>1, <3>2 DEF Info, Goto, DTypeOK
    <3>3. CASE ~(i > Len(InfoRows))
      <4>1. CASE InfoRows[i] \in locked
        BY <1>2, <2>1, <2>3, <3>1, <3>3, <4>1 DEF Info, Goto, DTypeOK
      <4>2. CASE InfoRows[i] \notin locked
        BY <1>2, <2>1, <2>3, <3>1, <3>3, <4>2 DEF Info, Goto, DTypeOK
      <4> QED BY <4>1, <4>2
    <3> QED BY <3>2, <3>3
  <2>4. CASE InfoReturn
    <3>1. dpc = "info_ret"
      BY <2>4 DEF InfoReturn
    <3>2. CASE res = "OK"
      <4>1. i \in 1..Len(InfoRows)
        BY <1>2, <3>1 DEF DTypeOK
      <4>2. Current(InfoRows[i], Value[InfoRows[i]])
        BY <3>1 DEF Current
      <4>3. InfoRows[i] \in locked
        BY <2>1, <3>1, <3>2, <4>1, <4>2, OpRows DEF CallInv, Written
      <4> QED BY <1>2, <2>1, <2>4, <3>1, <3>2, <4>3 DEF InfoReturn, Goto, DTypeOK
    <3>3. CASE res # "OK"
      BY <2>4, <3>3 DEF InfoReturn, die
    <3> QED BY <3>2, <3>3
  <2>5. CASE \/ UnknownRam \/ ReadLockFails \/ generate_and_write_ecdsa_key
             \/ (WriteKeyRow /\ UNCHANGED evars) \/ KeyRowReturn \/ Report
             \/ (Trust /\ UNCHANGED evars) \/ WarmReset
    <3>1. /\ dpc' \in {"keyrow", "keyrow_ret", "report"} =>
               dpc \in {"key", "keyrow", "keyrow_ret", "report"}
          /\ dpc' \notin {"info", "info_ret", "key"}
          /\ status' = "ok" => status = "ok" \/ dpc = "report"
      BY <2>5 DEF UnknownRam, ReadLockFails, generate_and_write_ecdsa_key, WriteKeyRow,
                  KeyRowReturn, Report, Trust, WarmReset, Goto, die
    <3> QED BY <2>1, <3>1
  <2> QED BY <1>4, <2>2, <2>3, <2>4, <2>5 DEF Progress
<1>5. CASE LosePower
  BY <1>5 DEF LosePower, Goto
<1>6. CASE UNCHANGED dvars
  BY <1>1, <1>6 DEF dvars
<1> QED BY <1>3, <1>4, <1>5, <1>6, DeploySteps DEF vars

\* All parts of the invariant in the initial states.
LEMMA DInvInit == DInit => DInv
<1> SUFFICES ASSUME DInit PROVE DInv
  OBVIOUS
<1>1. EInit /\ ef.pc = "idle" /\ wf.pc = "idle" /\ res = "none" /\ locked = {}
  BY DEF DInit, EInit, NoFrame
<1>2. EfuseInv /\ SharedInv
  BY <1>1, EfuseInit, SharedInit
<1>3. \A r \in Rows : fuse[r] = {}
  BY <1>1 DEF EInit
<1>4. EccOnlyInv
  BY <1>1, <1>3, RowsAssumption DEF EccOnlyInv, ByteLocked
<1>5. FaultlessInv /\ CallInv
  BY <1>1 DEF FaultlessInv, CallInv
<1>6. DTypeOK /\ InfoInv
  BY DEF DInit, DTypeOK, Labels, InfoInv
<1>7. FixedInv
  BY <1>1, <1>3, OpRows, RowsAssumption DEF FixedInv
<1> QED BY <1>2, <1>4, <1>5, <1>6, <1>7 DEF DInv

\* And after every step.
LEMMA DInvStep == DInv /\ [DNext]_vars => DInv'
<1> SUFFICES ASSUME DInv, [DNext]_vars PROVE DInv'
  OBVIOUS
<1>1. /\ EfuseInv /\ SharedInv /\ EccOnlyInv /\ FaultlessInv
      /\ DTypeOK /\ CallInv /\ FixedInv /\ InfoInv
  BY DEF DInv
<1>2. EccCallStep /\ SparingStep /\ AnyStep
  BY <1>1, DeployCalls, EccCallsAreCalls
<1>3. EfuseInv' /\ SharedInv'
  BY <1>1, <1>2, EfuseAnyStep, SharedStep
<1>4. EccOnlyInv' /\ FaultlessInv'
  BY <1>1, <1>2, EccOnlyStep, FaultlessStep
<1>5. DTypeOK' /\ CallInv'
  BY <1>1, DTypeStep, CallStep
<1>6. FixedInv' /\ InfoInv'
  BY <1>1, <1>2, FixedStep, InfoStep
<1> QED BY <1>3, <1>4, <1>5, <1>6 DEF DInv

-----------------------------------------------------------------------------
\* DInv is an inductive invariant of both operations.
THEOREM DeployInvariance == DSpec => []DInv
BY DInvInit, DInvStep, PTL DEF DSpec

\* Whatever failed and however often the power was lost, success means that the
\* serial number and the board data are final and complete (deploy.c:85-97).
THEOREM InfoAlwaysFinal == DSpec => []DeployedInfoFinal
<1>1. DInv => DeployedInfoFinal
  <2> SUFFICES ASSUME DInv, status = "ok", NEW n \in 1..Len(InfoRows)
               PROVE  InfoRows[n] \in locked /\ fuse[InfoRows[n]] = Value[InfoRows[n]]
    BY DEF DeployedInfoFinal
  <2>1. InfoRows[n] \in locked /\ InfoRows[n] \in Fixed
    BY OpRows DEF DInv, InfoInv
  <2> QED BY <2>1 DEF DInv, FixedInv
<1> QED BY <1>1, DeployInvariance, PTL

-----------------------------------------------------------------------------
(***************************************************************************)
(* The hash of the boot key before the security flags.                     *)
(***************************************************************************)
\* The rows of the hash can be read back: a masked row is refused, the refusal
\* ignored, and the flags are written all the same.
HashRowsOpen == \A n \in 1..Len(HashRows) : ~is_row_masked(HashRows[n])

\* Faults are not forgotten.
LEMMA FaultsStay == ETypeOK /\ EccCallStep /\ faults' = 0 => faults = 0
<1> SUFFICES ASSUME ETypeOK, EccCallStep, faults' = 0 PROVE faults = 0
  OBVIOUS
<1>1. faults' = faults \/ faults' = faults + 1
  BY DEF EccCallStep, EccCalling, EfuseStep, NoEccStep, WithEccStep, Fault,
     efuse_write_row_with_ecc_lock, NoEccBody, WTimeout, WRead, WVerify, efuse_write_enable,
     efuse_raw_write, efuse_write_disable, efuse_raw_lock, WLockVerify, WDone, ETimeout, EStart, EEcc, ERow, EEccRow, EVerify,
     EDone, PowerLoss, ClientFault, evars
<1> QED BY <1>1 DEF ETypeOK, CountersOK

\* The first part of HashInv: the rows of the hash are done in turn.
HashDone == \A n \in 1..Len(HashRows) :
              n < i => HashRows[n] \in locked \/ (ef.pc # "idle" /\ n = i - 1)

\* Rows of the hash that were done stay done while the hash is written.
LEMMA HashDoneStep ==
  ASSUME HashRowsOpen, DInv, [DNext]_vars, faults = 0, dpc = "trust" => HashDone, dpc' = "trust"
  PROVE  HashDone'
<1> SUFFICES ASSUME NEW n \in 1..Len(HashRows), n < i'
             PROVE  HashRows[n] \in locked' \/ (ef'.pc # "idle" /\ n = i' - 1)
  BY DEF HashDone
<1>0. /\ EfuseInv /\ SharedInv /\ EccOnlyInv /\ FaultlessInv /\ DTypeOK /\ CallInv
      /\ i \in Nat \ {0}
  BY DEF DInv, DTypeOK
<1>1. locked \subseteq locked'
  BY <1>0, DeployCalls, EccCallsAreCalls, ArrayFrame
<1>2. CASE Calls3
  <2>1. dpc = "trust" /\ i' = i + 1 /\ ef.pc = "idle" /\ ef'.pc # "idle"
    <3>1. dpc = "trust" /\ i' = i + 1
      BY <1>2 DEF Calls3, Goto
    <3>2. ef.pc = "idle"
      BY <1>2 DEF Calls3, efuse_write_row_with_ecc_lock, Busy
    <3>3. ef'.pc # "idle"
      BY <1>0, <1>2, CallIsCurrent DEF EFrame
    <3> QED BY <3>1, <3>2, <3>3
  <2>2. CASE n < i
    BY <1>1, <2>1, <2>2 DEF HashDone
  <2>3. CASE ~(n < i)
    BY <1>0, <2>1, <2>3
  <2> QED BY <2>2, <2>3
<1>3. CASE Progress
  <2>1. i' = 1 \/ (dpc = "trust" /\ i' = i)
    <3>1. ASSUME Trust, UNCHANGED evars PROVE FALSE
      <4>1. /\ i \in 1..Len(TrustRows)
            /\ efuse_write_row_with_ecc_lock(TrustRows[i], Value[TrustRows[i]])
        BY <1>0, <3>1, TrustOrder DEF Trust
      <4>2. ef'.pc = "start"
        BY <4>1, TrustOrder DEF efuse_write_row_with_ecc_lock, EFrame
      <4>3. ef.pc = "idle"
        BY <4>1 DEF efuse_write_row_with_ecc_lock, Busy
      <4> QED BY <3>1, <4>2, <4>3 DEF evars
    <3> QED BY <1>3, <3>1 DEF Progress, Start, UnknownRam, Info, InfoReturn, ReadLockFails,
                generate_and_write_ecdsa_key, WriteKeyRow, KeyRowReturn, Report, WarmReset,
                Goto, die
  <2>2. ef' = ef
    BY <1>3, ProgressQuiet DEF Quiet
  <2> QED BY <1>1, <2>1, <2>2 DEF HashDone
<1>4. CASE LosePower
  BY <1>4 DEF LosePower, Goto
<1>5. CASE EfuseStep /\ UNCHANGED dvars
  <2>1. dpc = "trust" /\ i' = i /\ ef.pc # "idle"
    BY <1>0, <1>5, FrameKept DEF dvars
  <2>2. ASSUME n = i - 1, ef'.pc = "idle"
        PROVE  HashRows[n] \in locked
    <3>1. ef.pc = "done" /\ Current(ef.row, ef.req)
      BY <1>0, <1>5, <2>2, FrameKept DEF EDone, EAt, CallInv
    <3>2. ef.row = HashRows[n]
      BY <2>1, <2>2, <3>1, TrustOrder DEF Current
    <3> QED BY <1>0, <3>1, <3>2 DEF FaultlessInv, HashRowsOpen
  <2> QED BY <1>1, <2>1, <2>2 DEF HashDone
<1>6. CASE UNCHANGED vars
  BY <1>6 DEF vars, evars, dvars, HashDone
<1> QED BY <1>0, <1>2, <1>3, <1>4, <1>5, <1>6, DeploySteps

\* The second part: a flag is being written, or has been.
Flagging == \/ ef.pc # "idle" /\ ef.row \in RangeOf(FlagRows)
            \/ \E r \in RangeOf(FlagRows) : fuse[r] # {}
\* No flag is begun before the last row of the hash is done.
LEMMA FlaggingStep ==
  ASSUME DInv, [DNext]_vars, faults = 0, dpc = "trust" => HashDone,
         Flagging => \A n \in 1..Len(HashRows) : HashRows[n] \in locked, Flagging'
  PROVE  \A n \in 1..Len(HashRows) : HashRows[n] \in locked
<1>0. /\ EfuseInv /\ SharedInv /\ EccOnlyInv /\ DTypeOK /\ CallInv /\ i \in Nat \ {0}
      /\ EccCallStep
  BY DeployCalls DEF DInv, DTypeOK
<1>1. CASE \E r \in RangeOf(FlagRows) : fuse'[r] # {}
  <2>1. PICK r \in RangeOf(FlagRows) : fuse'[r] # {}
    BY <1>1
  <2>2. r \in DataRows
    BY OpRows DEF Fixed
  <2>3. fuse[r] # {} \/ (ef.pc = "row" /\ ef.row = r)
    BY <1>0, <2>1, <2>2, RowStep
  <2> QED BY <2>3 DEF Flagging
<1>2. CASE ef'.pc # "idle" /\ ef'.row \in RangeOf(FlagRows)
  <2>1. CASE Calls3
    <3>1. PICK r \in DataRows, v \in SUBSET RowBits : Current(r, v)' /\ ef' = EFrame(r, v)
      BY <1>0, <2>1, CallIsCurrent
    <3>2. r \in RangeOf(FlagRows)
      BY <1>2, <3>1 DEF EFrame
    <3>3. i' = i \/ i' = i + 1
      BY <2>1 DEF Calls3, Goto
    <3>4. dpc' = "trust" /\ i' = i + 1 /\ dpc = "trust" /\ i <= Len(TrustRows) /\ ef.pc = "idle"
      <4>1. dpc' # "info_ret"
        <5>1. ASSUME dpc' = "info_ret" PROVE i' \in 1..Len(InfoRows)
          BY <1>0, <2>1, <5>1, DeployAssumption DEF Calls3, Goto
        <5> QED BY <3>1, <3>2, <5>1, OpRows, DeployAssumption DEF Current
      <4>2. dpc' # "keyrow_ret"
        <5>1. ASSUME dpc' = "keyrow_ret" PROVE i' \in 1..Len(KeyRows)
          BY <1>0, <2>1, <5>1, DeployAssumption DEF Calls3, Goto
        <5> QED BY <3>1, <3>2, <5>1, OpRows, DeployAssumption DEF Current
      <4> QED BY <2>1, <4>1, <4>2 DEF Calls3, Goto, efuse_write_row_with_ecc_lock, Busy
    <3>5. i \in 1..Len(TrustRows) /\ r = TrustRows[i]
      BY <1>0, <3>1, <3>4, TrustOrder DEF Current
    <3>6. i > Len(HashRows)
      BY <3>2, <3>5, TrustOrder
    <3> QED BY <1>0, <3>4, <3>6, TrustOrder DEF HashDone
  <2>2. CASE Progress \/ UNCHANGED vars
    BY <1>2, <2>2, ProgressQuiet DEF Quiet, Flagging, vars, evars
  <2>3. CASE LosePower
    BY <1>2, <2>3 DEF LosePower, PowerLoss, NoFrame
  <2>4. CASE EfuseStep /\ UNCHANGED dvars
    BY <1>0, <1>2, <2>4, FrameKept DEF Flagging
  <2> QED BY <1>0, <2>1, <2>2, <2>3, <2>4, DeploySteps
<1> QED BY <1>1, <1>2 DEF Flagging

\* With or without power losses, the flags come after the whole hash, as long as
\* no access to the fuses fails (deploy.c:180-194).
THEOREM HashAlwaysBeforeFlags == ASSUME HashRowsOpen PROVE DSpec => []HashBeforeFlags
<1>0. HashInv <=> (faults = 0 =>
        /\ dpc = "trust" => HashDone
        /\ Flagging => \A n \in 1..Len(HashRows) : HashRows[n] \in locked)
  BY DEF HashInv, HashDone, Flagging
<1>1. DInit => HashInv
  BY DeployAssumption, OpRows, RowsAssumption DEF HashInv, DInit, EInit, NoFrame, Fixed
<1>2. DInv /\ HashInv /\ [DNext]_vars => HashInv'
  <2> SUFFICES ASSUME DInv, HashInv, [DNext]_vars, faults' = 0
               PROVE  /\ dpc' = "trust" => HashDone'
                      /\ Flagging' => \A n \in 1..Len(HashRows) : HashRows[n] \in locked'
    BY DEF HashInv, HashDone, Flagging
  <2>1. EccCallStep /\ faults = 0
    BY DeployCalls, FaultsStay DEF DInv, EfuseInv
  <2>2. locked \subseteq locked'
    BY <2>1, EccCallsAreCalls, ArrayFrame
  <2>3. /\ dpc = "trust" => HashDone
        /\ Flagging => \A n \in 1..Len(HashRows) : HashRows[n] \in locked
    BY <1>0, <2>1
  <2>4. dpc' = "trust" => HashDone'
    BY <2>1, <2>3, HashDoneStep
  <2>5. Flagging' => \A n \in 1..Len(HashRows) : HashRows[n] \in locked
    BY <2>1, <2>3, FlaggingStep
  <2> QED BY <2>2, <2>4, <2>5
<1>3. DInv /\ HashInv => HashBeforeFlags
  <2> SUFFICES ASSUME DInv, HashInv, faults = 0, NEW m \in 1..Len(FlagRows),
                      fuse[FlagRows[m]] # {}, NEW n \in 1..Len(HashRows)
               PROVE  HashRows[n] \in locked /\ fuse[HashRows[n]] = Value[HashRows[n]]
    BY DEF HashBeforeFlags
  <2>1. FlagRows[m] \in RangeOf(FlagRows) /\ HashRows[n] \in Fixed
    BY OpRows
  <2>2. HashRows[n] \in locked
    BY <2>1 DEF HashInv
  <2> QED BY <2>1, <2>2 DEF DInv, FixedInv
<1> QED BY <1>1, <1>2, <1>3, DeployInvariance, PTL DEF DSpec

-----------------------------------------------------------------------------
(***************************************************************************)
(* The first start on a blank board.                                       *)
(***************************************************************************)
\* The ECC rows can be read back: otherwise nobody verifies the ECC bytes.
EccRowsOpen ==
  \A r \in RangeOf(InfoRows) \cup RangeOf(KeyRows) : ~is_row_masked(EccRow[r])

\* The parts of FirstInv.
Fresh == \A r \in RangeOf(KeyRows) : fuse[r] = {} /\ r \notin locked
InfoCoded ==
  \A r \in RangeOf(InfoRows) \cap locked :
    \/ EccConsistent(r)
    \/ dpc = "info_ret" /\ ef.pc # "idle" /\ ef.row = r
    \/ dpc = "info_ret" /\ res # "OK" /\ InfoRows[i] = r
KeyUpTo == \A n \in 1..Len(KeyRows) : n < i => Complete(KeyRows[n], priv[KeyRows[n]])
KeyDone == \E k \in generated : \A n \in 1..Len(KeyRows) : Complete(KeyRows[n], k[KeyRows[n]])

Early == {"info", "info_ret", "key"}
Late  == {"keyrow", "keyrow_ret"}
\* FirstInv by the place deploy is at.
LEMMA FirstParts ==
  FirstInv <=>
    /\ attempt = 0 => /\ dpc = "boot" /\ status # "ok" /\ locked = {}
                      /\ \A r \in Rows : fuse[r] = {}
    /\ attempt = 1 =>
         /\ dpc \in Early => Fresh
         /\ dpc \in Early \cup Late \cup {"report"} \/ status = "ok" => InfoCoded
         /\ dpc \in Late => KeyPart(priv) /\ KeyUpTo
         /\ dpc = "report" \/ status = "ok" => KeyDone
BY DEF FirstInv, Early, Late, Fresh, InfoCoded, KeyUpTo, KeyDone

\* A complete row stays complete.
LEMMA CompleteKept ==
  ASSUME DInv, [DNext]_vars, NEW r \in DataRows
  PROVE  /\ r \in locked /\ EccConsistent(r) => EccConsistent(r)'
         /\ \A v : Complete(r, v) => Complete(r, v)'
<1>1. EfuseInv /\ SharedInv /\ EccOnlyInv /\ EccCallStep /\ SparingStep /\ AnyStep
  BY DeployCalls, EccCallsAreCalls DEF DInv
<1>2. r \in locked /\ EccConsistent(r) => EccConsistent(r)'
  BY <1>1, CodesStep DEF CodesKept
<1>3. locked \subseteq locked' /\ (r \in locked => fuse'[r] = fuse[r])
  BY <1>1, ArrayFrame, RowStep
<1> QED BY <1>2, <1>3 DEF Complete

\* While deploy.c waits for the writing function.
LEMMA FirstWaits ==
  ASSUME EccRowsOpen, DInv, FirstInv, [DNext]_vars, EfuseStep, UNCHANGED dvars
  PROVE  FirstInv'
<1>0. /\ EfuseInv /\ SharedInv /\ EccOnlyInv /\ DTypeOK /\ CallInv /\ EccCallStep /\ AnyStep
      /\ EccInv /\ ef.pc # "idle" /\ Current(ef.row, ef.req) /\ EfuseInv' /\ EccOnlyInv'
  BY DeployCalls, EccCallsAreCalls, FrameKept, DInvStep DEF DInv, EfuseInv, CallInv
<1>1. /\ dpc \in {"info_ret", "keyrow_ret", "trust"} /\ status # "ok"
      /\ UNCHANGED <<dpc, i, priv, status, attempt, generated>>
  BY <1>0 DEF Current, DTypeOK, dvars
<1>2. /\ dpc = "info_ret" => i \in 1..Len(InfoRows) /\ ef.row = InfoRows[i]
      /\ dpc = "keyrow_ret" => i \in 1..Len(KeyRows) /\ ef.row = KeyRows[i] /\ ef.req = priv[ef.row]
  BY <1>0, <1>1, DeployAssumption DEF Current, DTypeOK
<1>3. ASSUME attempt = 1, dpc = "info_ret" PROVE Fresh' /\ InfoCoded'
  <2>1. Fresh /\ InfoCoded
    BY <1>3, FirstParts DEF Early
  <2>2. ef.row \in RangeOf(InfoRows)
    BY <1>2, <1>3, OpRows
  <2>3. Fresh'
    <3>1. ASSUME NEW r \in RangeOf(KeyRows) PROVE r # ef.row /\ r \in DataRows
      BY <2>2, OpRows DEF Fixed
    <3> QED BY <1>0, <2>1, <3>1, RowStep DEF Fresh
  <2>4. ASSUME NEW r \in RangeOf(InfoRows), r \in locked'
        PROVE  \/ EccConsistent(r)'
               \/ dpc' = "info_ret" /\ ef'.pc # "idle" /\ ef'.row = r
               \/ dpc' = "info_ret" /\ res' # "OK" /\ InfoRows[i'] = r
    <3>1. r \in DataRows
      BY OpRows DEF Fixed
    <3>2. (r \in locked /\ EccConsistent(r)) \/ ef.row = r
      BY <1>0, <1>2, <1>3, <2>1, <2>4, <3>1, RowStep DEF InfoCoded
    <3>3. CASE r \in locked /\ EccConsistent(r)
      BY <3>1, <3>3, CompleteKept
    <3>4. CASE ef.row = r /\ ef'.pc # "idle"
      BY <1>0, <1>1, <1>3, <3>4, FrameKept
    <3>5. CASE ef.row = r /\ ef'.pc = "idle"
      <4>1. EDone /\ ef.pc = "done" /\ UNCHANGED <<fuse, locked, res>>
        BY <1>0, <3>5, FrameKept DEF EDone, EAt
      <4>2. CASE res = "OK"
        <5>1. r \in locked /\ EccConsistent(r)
          BY <1>0, <3>5, <4>1, <4>2 DEF EccInv, EccWriteVerified, EccRowsOpen
        <5> QED BY <3>1, <5>1, CompleteKept
      <4>3. CASE res # "OK"
        BY <1>1, <1>2, <1>3, <3>5, <4>1, <4>3
      <4> QED BY <4>2, <4>3
    <3> QED BY <3>2, <3>3, <3>4, <3>5
  <2> QED BY <2>3, <2>4 DEF InfoCoded
<1>4. ASSUME attempt = 1, dpc = "keyrow_ret" PROVE KeyPart(priv)' /\ KeyUpTo' /\ InfoCoded'
  <2>1. KeyPart(priv) /\ KeyUpTo /\ InfoCoded
    BY <1>4, FirstParts DEF Late
  <2>2. ef.row \in RangeOf(KeyRows)
    BY <1>2, <1>4, OpRows
  <2>3. ASSUME NEW r \in RangeOf(KeyRows) PROVE fuse'[r] \subseteq priv[r]
    <3>1. fuse[r] \subseteq priv[r] /\ r \in DataRows
      BY <2>1, OpRows DEF KeyPart
    <3>2. ef.row = r => ef.req = priv[r]
      BY <1>2, <1>4
    <3> QED BY <1>0, <3>1, <3>2, RowStep
  <2>4. KeyUpTo'
    BY <1>1, <2>1, CompleteKept, OpRows DEF KeyUpTo
  <2>5. ASSUME NEW r \in RangeOf(InfoRows), r \in locked' PROVE EccConsistent(r)'
    <3>1. r \in DataRows /\ r # ef.row
      BY <2>2, OpRows DEF Fixed
    <3>2. r \in locked
      BY <1>0, <2>5, <3>1, RowStep
    <3> QED BY <1>4, <2>1, <3>1, <3>2, CompleteKept DEF InfoCoded
  <2> QED BY <1>1, <2>3, <2>4, <2>5 DEF KeyPart, InfoCoded
<1>5. attempt # 0
  BY <1>1, FirstParts
<1>6. FirstInv'
  BY <1>1, <1>3, <1>4, <1>5 DEF FirstInv, Early, Late, Fresh, InfoCoded, KeyUpTo, KeyDone
<1> QED BY <1>6

\* What is in the fuses is the same before and after the other steps.
LEMMA ArraySame ==
  ASSUME UNCHANGED <<fuse, locked>>
  PROVE  /\ \A r : EccConsistent(r)' <=> EccConsistent(r)
         /\ \A r, v : Complete(r, v)' <=> Complete(r, v)
         /\ Fresh' <=> Fresh
BY DEF EccConsistent, EccByte, Complete, Fresh

\* deploy.c calls the writing function.
LEMMA FirstCalls == ASSUME DInv, FirstInv, [DNext]_vars, Calls3 PROVE FirstInv'
<1>1. UNCHANGED <<fuse, locked, priv, status, attempt, generated>>
  BY DEF Calls3, efuse_write_row_with_ecc_lock
<1>2. DTypeOK /\ attempt # 0
  BY FirstParts DEF DInv, Calls3
<1>3. CASE dpc = "trust"
  <2>1. dpc' = "trust" /\ status # "ok"
    BY <1>2, <1>3 DEF Calls3, Goto, DTypeOK
  <2> QED BY <1>1, <1>2, <2>1 DEF FirstInv
<1>4. CASE dpc = "info"
  <2>1. dpc' = "info_ret" /\ status # "ok"
    BY <1>2, <1>4 DEF Calls3, Goto, DTypeOK
  <2>2. attempt = 1 => Fresh /\ \A r \in RangeOf(InfoRows) \cap locked : EccConsistent(r)
    BY <1>4, FirstParts DEF Early, InfoCoded
  <2>3. attempt = 1 => Fresh' /\ \A r \in RangeOf(InfoRows) \cap locked' : EccConsistent(r)'
    BY <1>1, <2>2, ArraySame
  <2> QED BY <1>1, <1>2, <2>1, <2>3 DEF FirstInv, Fresh
<1>5. CASE dpc = "keyrow"
  <2>1. dpc' = "keyrow_ret" /\ status # "ok" /\ i' = i
    BY <1>2, <1>5 DEF Calls3, Goto, DTypeOK
  <2>2. attempt = 1 => /\ KeyPart(priv) /\ KeyUpTo
                       /\ \A r \in RangeOf(InfoRows) \cap locked : EccConsistent(r)
    BY <1>5, FirstParts DEF Late, InfoCoded
  <2>3. attempt = 1 => /\ KeyPart(priv)' /\ KeyUpTo'
                       /\ \A r \in RangeOf(InfoRows) \cap locked' : EccConsistent(r)'
    BY <1>1, <2>1, <2>2, ArraySame DEF KeyPart, KeyUpTo
  <2> QED BY <1>1, <1>2, <2>1, <2>3 DEF FirstInv, KeyPart, KeyUpTo
<1> QED BY <1>3, <1>4, <1>5 DEF Calls3

\* deploy.c goes on by itself.
LEMMA FirstProgress ==
  ASSUME EccRowsOpen, DInv, FirstInv, [DNext]_vars, Progress PROVE FirstInv'
<1>0. /\ DTypeOK /\ CallInv /\ InfoInv /\ DTypeOK' /\ ef.pc = "idle" /\ ef'.pc = "idle"
      /\ UNCHANGED <<fuse, locked>> /\ i \in Nat \ {0} /\ Len(KeyRows) \in Nat
  BY ProgressIdle, ProgressQuiet, DInvStep, DeployAssumption DEF DInv, Quiet, DTypeOK
<1>1. CASE \E op \in Ops : Start(op)
  <2>1. /\ status' = "none" /\ dpc' \in {"info", "trust"} /\ attempt' = attempt + 1
        /\ attempt \in Nat
    BY <1>0, <1>1 DEF Start, Goto, DTypeOK
  <2>2. attempt' = 1 => attempt = 0
    BY <2>1
  <2>3. attempt' = 1 => locked' = {} /\ Fresh'
    BY <1>0, <2>2, FirstParts, OpRows, RowsAssumption DEF Fresh
  <2> QED BY <2>1, <2>3 DEF FirstInv, Fresh
<1>2. CASE ~ \E op \in Ops : Start(op)
  <2>0. attempt' = attempt
    BY <1>2 DEF Progress, UnknownRam, Info, InfoReturn, ReadLockFails,
       generate_and_write_ecdsa_key, WriteKeyRow, KeyRowReturn, Report, Trust, WarmReset
  <2>1. attempt # 0
    <3>1. dpc # "boot"
      BY <1>2 DEF Progress, UnknownRam, Info, InfoReturn, ReadLockFails,
         generate_and_write_ecdsa_key, WriteKeyRow, KeyRowReturn, Report, Trust, WarmReset
    <3> QED BY <3>1, FirstParts
  <2>2. CASE attempt = 1
    <3>1. /\ dpc \in Early => Fresh'
          /\ dpc \in Late => KeyPart(priv) /\ KeyUpTo
          /\ dpc = "report" \/ status = "ok" => KeyDone
          /\ dpc \in Early \cup Late \cup {"report"} \/ status = "ok" => InfoCoded
      BY <1>0, <2>2, FirstParts, ArraySame
    <3>2. ASSUME dpc' \in Early \cup Late \cup {"report"} \/ status' = "ok"
          PROVE  \A r \in RangeOf(InfoRows) \cap locked' : EccConsistent(r)'
      <4>1. /\ dpc \in Early \cup Late \cup {"report"} \/ status = "ok"
            /\ dpc = "info_ret" => res = "OK"
        BY <1>0, <1>2, <3>2 DEF Progress, UnknownRam, Info, InfoReturn, ReadLockFails,
           generate_and_write_ecdsa_key, WriteKeyRow, KeyRowReturn, Report, Trust, WarmReset,
           Early, Late, Goto, die, DTypeOK
      <4>2. \A r \in RangeOf(InfoRows) \cap locked : EccConsistent(r)
        BY <1>0, <3>1, <4>1 DEF InfoCoded
      <4> QED BY <1>0, <4>2, ArraySame
    <3>3. ASSUME dpc' \in Early PROVE Fresh'
      <4>1. dpc \in Early
        BY <1>2, <3>3 DEF Progress, UnknownRam, Info, InfoReturn, ReadLockFails,
           generate_and_write_ecdsa_key, WriteKeyRow, KeyRowReturn, Report, Trust, WarmReset,
           Early, Goto, die
      <4> QED BY <3>1, <4>1
    <3>4. ASSUME dpc' \in Late PROVE KeyPart(priv)' /\ KeyUpTo'
      <4>1. generate_and_write_ecdsa_key \/ (WriteKeyRow /\ UNCHANGED evars) \/ KeyRowReturn
        BY <1>2, <3>4 DEF Progress, UnknownRam, Info, InfoReturn, ReadLockFails, Report, Trust,
           WarmReset, Late, Goto, die
      <4>2. CASE generate_and_write_ecdsa_key
        <5>1. dpc = "key" /\ i' = 1
          BY <3>4, <4>2 DEF generate_and_write_ecdsa_key, Goto, Late
        <5>2. \A r \in RangeOf(KeyRows) : fuse'[r] = {}
          BY <3>1, <5>1 DEF Early, Fresh
        <5> QED BY <5>1, <5>2 DEF KeyPart, KeyUpTo
      <4>3. CASE WriteKeyRow /\ UNCHANGED evars
        <5>1. i > Len(KeyRows)
          <6>1. ASSUME i \in 1..Len(KeyRows),
                       efuse_write_row_with_ecc_lock(KeyRows[i], priv[KeyRows[i]])
                PROVE  ef'.pc = "start"
            BY <6>1, OpRows DEF efuse_write_row_with_ecc_lock, EFrame
          <6> QED BY <1>0, <4>3, <6>1 DEF WriteKeyRow, KeyRowCount
        <5> QED BY <3>4, <4>3, <5>1 DEF WriteKeyRow, KeyRowCount, Goto, Late
      <4>4. CASE KeyRowReturn
        <5>1. /\ dpc = "keyrow_ret" /\ res = "OK" /\ i' = i + 1 /\ priv' = priv
              /\ KeyPart(priv) /\ KeyUpTo
          BY <3>1, <3>4, <4>4 DEF KeyRowReturn, Goto, die, Late
        <5>2. i \in 1..Len(KeyRows) /\ priv \in Keys
          BY <1>0, <5>1 DEF DTypeOK
        <5>3. KeyRows[i] \in DataRows /\ KeyRows[i] \in RangeOf(KeyRows)
              /\ priv[KeyRows[i]] \in SUBSET DataBits
          BY <5>2, OpRows, DeployAssumption
        <5>4. Written(KeyRows[i], priv[KeyRows[i]])
          BY <1>0, <5>1, <5>3 DEF CallInv, Current
        <5>5. Complete(KeyRows[i], priv[KeyRows[i]])
          BY <5>1, <5>3, <5>4 DEF Written, KeyPart, Complete, EccRowsOpen
        <5>6. \A n \in 1..Len(KeyRows) : n < i' => Complete(KeyRows[n], priv[KeyRows[n]])
          BY <1>0, <5>1, <5>5 DEF KeyUpTo
        <5> QED BY <1>0, <5>1, <5>6, ArraySame DEF KeyPart, KeyUpTo
      <4> QED BY <4>1, <4>2, <4>3, <4>4
    <3>5. ASSUME dpc' = "report" \/ status' = "ok" PROVE KeyDone'
      <4>1. CASE generate_and_write_ecdsa_key
        <5>1. CASE status' = "ok"
          BY <1>0, <4>1, <5>1 DEF generate_and_write_ecdsa_key, DTypeOK
        <5>2. CASE status' # "ok"
          <6>1. KeyRows[1] \in locked /\ dpc = "key"
            BY <3>5, <4>1, <5>2 DEF generate_and_write_ecdsa_key, Goto
          <6>2. KeyRows[1] \in RangeOf(KeyRows)
            <7>1. Len(KeyRows) # 0
              BY DeployAssumption
            <7> QED BY <1>0, <7>1, OpRows
          <6> QED BY <1>0, <3>1, <6>1, <6>2 DEF Early, Fresh
        <5> QED BY <5>1, <5>2
      <4>2. CASE WriteKeyRow
        <5>1. CASE status' = "ok"
          BY <1>0, <4>2, <5>1 DEF WriteKeyRow, DTypeOK
        <5>2. CASE status' # "ok"
          <6>1. dpc = "keyrow" /\ i > Len(KeyRows) /\ generated' = generated
            BY <1>0, <3>5, <4>2, <5>2 DEF WriteKeyRow, Goto, KeyRowCount
          <6>2. priv \in generated /\ KeyUpTo
            BY <1>0, <3>1, <6>1 DEF DTypeOK, Late
          <6>3. \A n \in 1..Len(KeyRows) : Complete(KeyRows[n], priv[KeyRows[n]])
            BY <1>0, <6>1, <6>2 DEF KeyUpTo
          <6>4. KeyDone
            BY <6>2, <6>3 DEF KeyDone
          <6> QED BY <1>0, <6>1, <6>4, ArraySame DEF KeyDone
        <5> QED BY <5>1, <5>2
      <4>3. CASE ~generate_and_write_ecdsa_key /\ ~WriteKeyRow
        <5>1. (dpc = "report" \/ status = "ok") /\ generated' = generated
          BY <1>2, <3>5, <4>3 DEF Progress, UnknownRam, Info, InfoReturn, ReadLockFails,
             KeyRowReturn, Report, Trust, WarmReset, Goto, die
        <5> QED BY <1>0, <3>1, <5>1, ArraySame DEF KeyDone
      <4> QED BY <4>1, <4>2, <4>3
    <3>6. FirstInv'
      BY <2>0, <2>2, <3>2, <3>3, <3>4, <3>5
         DEF FirstInv, Early, Late, Fresh, InfoCoded, KeyUpTo, KeyDone
    <3> QED BY <3>6
  <2> QED BY <2>0, <2>1, <2>2 DEF FirstInv
<1> QED BY <1>1, <1>2

\* A first start that reports success and lost no power has put every row in place
\* with its lock and its ECC byte (deploy.c:199-261, efuse.c:473-493).
THEOREM FirstDeployAlwaysComplete == ASSUME EccRowsOpen PROVE DSpec => []FirstDeployComplete
<1>1. DInit => FirstInv
  BY DEF DInit, EInit, FirstInv
<1>2. DInv /\ FirstInv /\ [DNext]_vars => FirstInv'
  <2> SUFFICES ASSUME DInv, FirstInv, [DNext]_vars PROVE FirstInv'
    OBVIOUS
  <2>1. CASE LosePower
    <3>1. dpc' = "boot" /\ status' = "none" /\ attempt' = attempt /\ locked' = locked
      BY <2>1 DEF LosePower, PowerLoss, Goto
    <3>2. ASSUME attempt = 0 PROVE fuse' = fuse
      <4>1. dpc = "boot"
        BY <3>2, FirstParts
      <4>2. wf.pc = "idle"
        BY <4>1 DEF DInv, CallInv, Current, EccOnlyInv
      <4> QED BY <2>1, <4>2 DEF LosePower, PowerLoss, WAt
    <3> QED BY <3>1, <3>2 DEF FirstInv
  <2>2. CASE UNCHANGED vars
    <3>1. FirstInv' <=> FirstInv
      BY <2>2 DEF vars, evars, dvars, FirstInv, KeyPart, Complete, EccConsistent, EccByte
    <3> QED BY <3>1
  <2> QED BY <2>1, <2>2, FirstWaits, FirstCalls, FirstProgress, DeploySteps DEF DInv
<1>3. DInv /\ FirstInv => FirstDeployComplete
  <2> SUFFICES ASSUME DInv, FirstInv, status = "ok", attempt = 1 PROVE FirstDeployComplete
    BY DEF FirstDeployComplete
  <2>1. ASSUME NEW n \in 1..Len(InfoRows) PROVE Holds(InfoRows[n], Value[InfoRows[n]])
    <3>1. InfoRows[n] \in locked /\ fuse[InfoRows[n]] = Value[InfoRows[n]]
      BY OpRows DEF DInv, InfoInv, FixedInv
    <3>2. dpc # "info_ret" /\ InfoCoded
      BY FirstParts DEF DInv, DTypeOK
    <3>3. EccConsistent(InfoRows[n])
      BY <3>1, <3>2, OpRows DEF InfoCoded
    <3> QED BY <3>1, <3>3 DEF Holds
  <2>2. KeyDone
    BY FirstParts
  <2> QED BY <2>1, <2>2 DEF FirstDeployComplete, KeyDone, Complete, Holds
<1> QED BY <1>1, <1>2, <1>3, DeployInvariance, PTL DEF DSpec
=============================================================================
