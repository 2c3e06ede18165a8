------------------------------- MODULE Efuse --------------------------------
(***************************************************************************)
(* Writing the one-time-programmable rows (wtmi/efuse.c).  A row is a set  *)
(* of blown bits that only grows, with a lock; the ECC bytes of several    *)
(* data rows share one ECC row.  The two writing functions are modelled    *)
(* call by call, each hardware access one step: a read or the enabling of  *)
(* programming may time out, a pulse may leave bits unblown, a lock may    *)
(* not take, and the power may fail between any two steps or in a pulse.   *)
(***************************************************************************)
EXTENDS Naturals, FiniteSets

CONSTANTS
  Rows,           \* the rows of the array
  EccRow,         \* data row -> the row of its ECC byte (table ecc[])
  DataBits,       \* the bits of a data row
  Column,         \* data bit -> the ECC bits it takes part in (secded_ecc)
  MaskedRows,     \* rows the mask registers hide, when booted securely
  SecureBoot,     \* is_secure_boot()
  Calls,          \* the calls the clients make: [fn, row, val, lock]
  MaxTries,       \* attempts at writing and at locking (5 in the code)
  MaxFaults,      \* bound: timeouts, weak pulses and failed locks
  MaxPowerLosses  \* bound: how often the power fails

DataRows == DOMAIN EccRow
EccBits  == UNION {Column[b] : b \in DataBits}

ASSUME RowsAssumption == /\ DataRows \subseteq Rows
                         /\ \A r \in DataRows : EccRow[r] \in Rows \ DataRows
ASSUME ColumnAssumption == Column \in [DataBits -> SUBSET EccBits]
ASSUME BoundsAssumption == /\ MaskedRows \subseteq Rows
                           /\ SecureBoot \in BOOLEAN
                           /\ MaxTries \in Nat \ {0}
                           /\ MaxFaults \in Nat /\ MaxPowerLosses \in Nat

\* A row number and a 64-bit value; what is raw in an ECC row is pairs.
RowBits == DataBits \cup (DataRows \X EccBits)
ASSUME CallsAssumption == \A call \in Calls : /\ call.row \in Rows
                                             /\ call.val \subseteq RowBits
                                             /\ call.lock \in BOOLEAN

VARIABLES
  fuse,           \* row -> blown bits; an ECC row holds pairs <<data row, bit>>
  locked,         \* the locked rows
  master,         \* EFUSE_MASTER_CTRL is 0x5a: programming enabled
  wf,             \* frame of efuse_write_row_no_ecc
  ef,             \* frame of efuse_write_row_with_ecc_lock
  res,            \* what the function that ended last returned
  faults,         \* faults so far
  losses          \* power losses so far

array == <<fuse, locked>>
evars == <<fuse, locked, master, wf, ef, res, faults, losses>>

-----------------------------------------------------------------------------
is_row_masked(r) == SecureBoot /\ r \in MaskedRows

\* secded_ecc is linear: the sum modulo 2 of the columns of the set bits.
secded_ecc(v) ==
  {e \in EccBits : Cardinality({b \in v : e \in Column[b]}) % 2 = 1}

EccWord(r, v) == {<<r, e>> : e \in secded_ecc(v)}
EccByte(r)    == {e \in EccBits : <<r, e>> \in fuse[EccRow[r]]}

\* A masked row reads as blank.
RawRead(r) == IF is_row_masked(r) THEN {} ELSE fuse[r]

\* The value of a row after correction, as a singleton, or {} for -EIO: the
\* correction is the hardware's, driven by the difference of the ECC bytes.
EccRead(r) ==
  LET v   == RawRead(r)
      w   == secded_ecc(v)
      syn == (w \ EccByte(r)) \cup (EccByte(r) \ w)
      bad == {b \in DataBits : Column[b] = syn}
  IN CASE syn = {} \/ Cardinality(syn) = 1 -> {v}
       [] bad # {} -> {(v \ bad) \cup (bad \ v)}
       [] OTHER    -> {}

EccConsistent(r) == EccByte(r) = secded_ecc(fuse[r])

-----------------------------------------------------------------------------
NoFrame == [pc |-> "idle"]
Busy    == wf.pc # "idle" \/ ef.pc # "idle"

EInit ==
  /\ fuse = [r \in Rows |-> {}]
  /\ locked = {}
  /\ master = FALSE
  /\ wf = NoFrame /\ ef = NoFrame
  /\ res = "none"
  /\ faults = 0 /\ losses = 0

\* Calls.  old and req are history: what the row held and what was asked for.
WFrame(r, v, l) == [pc |-> "read", row |-> r, val |-> v, lock |-> l, try |-> 0,
                    req |-> v, old |-> fuse[r]]
EFrame(r, v)    == [pc |-> "start", row |-> r, val |-> v, req |-> v,
                    old |-> fuse[r]]

efuse_write_row_no_ecc(r, v, l) ==
  /\ ~Busy
  /\ wf' = WFrame(r, v, l)
  /\ res' = "none"
  /\ UNCHANGED <<fuse, locked, master, ef, faults, losses>>

efuse_write_row_with_ecc_lock(r, v) ==
  /\ ~Busy
  /\ IF r \in DataRows
       THEN ef' = EFrame(r, v) /\ res' = "none"
       ELSE ef' = ef /\ res' = "EINVAL"
  /\ UNCHANGED <<fuse, locked, master, wf, faults, losses>>

-----------------------------------------------------------------------------
(***************************************************************************)
(* efuse_write_row_no_ecc.                                                 *)
(***************************************************************************)
WAt(l) == wf.pc = l
WGoto(l) == wf' = [wf EXCEPT !.pc = l]
WReturn(x) == wf' = [wf EXCEPT !.pc = "done"] /\ res' = x

Fault == faults < MaxFaults /\ faults' = faults + 1

\* Some wait of the frame times out.  EFUSE_MASTER_CTRL is written before the
\* wait in efuse_write_enable, and the early returns of the raw functions leave
\* it as it is.
WTimeout ==
  /\ wf.pc \in {"read", "write", "pulse", "verify", "lock", "lockpulse", "lockverify"}
  /\ Fault
  /\ master' = (master \/ wf.pc \in {"write", "lock"})
  /\ WReturn("ETIMEDOUT")
  /\ UNCHANGED <<fuse, locked, ef, losses>>

\* What follows once the value is in the row.
AfterWrite ==
  IF wf.lock THEN wf' = [wf EXCEPT !.pc = "lock", !.try = 0] /\ res' = res
             ELSE WReturn("OK")

\* A locked row is refused, unless there is nothing to write; the old bits of
\* an unmasked row are merged into the value.
WRead ==
  /\ WAt("read")
  /\ IF wf.row \in locked THEN WReturn(IF wf.val = {} THEN "OK" ELSE "EACCES")
     ELSE IF wf.val # {}
       THEN /\ wf' = [wf EXCEPT !.pc = "write", !.val = @ \cup RawRead(wf.row)]
            /\ res' = res
       ELSE AfterWrite
  /\ UNCHANGED <<fuse, locked, master, ef, faults, losses>>

\* A raw write and a raw lock both enable programming first,
efuse_write_enable ==
  /\ wf.pc \in {"write", "lock"}
  /\ master' = TRUE
  /\ WGoto(IF wf.pc = "write" THEN "pulse" ELSE "lockpulse")
  /\ UNCHANGED <<fuse, locked, ef, res, faults, losses>>

\* then efuse_raw_write reads the row once more and pulses the bits of val; a
\* weak pulse leaves some unblown.  Locked rows resist.
Pulsed(blown) ==
  fuse' = [fuse EXCEPT ![wf.row] = IF wf.row \in locked THEN @ ELSE @ \cup blown]

efuse_raw_write ==
  /\ WAt("pulse")
  /\ \/ Pulsed(wf.val) /\ UNCHANGED faults
     \/ \E blown \in SUBSET wf.val : blown # wf.val /\ Pulsed(blown) /\ Fault
  /\ WGoto("disable")
  /\ UNCHANGED <<locked, master, ef, res, losses>>

efuse_raw_lock ==
  /\ WAt("lockpulse")
  /\ \/ locked' = locked \cup {wf.row} /\ UNCHANGED faults
     \/ locked' = locked /\ Fault
  /\ WGoto("lockdisable")
  /\ UNCHANGED <<fuse, master, ef, res, losses>>

\* Mutant: a raw lock does not end with efuse_write_disable.
LockNotDisabled ==
  /\ wf.pc \in {"disable", "lockdisable"}
  /\ master' = (wf.pc = "lockdisable")
  /\ IF wf.pc = "disable" /\ is_row_masked(wf.row) THEN AfterWrite
     ELSE WGoto(IF wf.pc = "disable" THEN "verify" ELSE "lockverify") /\ res' = res
  /\ UNCHANGED <<fuse, locked, ef, faults, losses>>

\* and both disable it; what was written to a masked row is not compared.
efuse_write_disable ==
  /\ wf.pc \in {"disable", "lockdisable"}
  /\ master' = FALSE
  /\ IF wf.pc = "disable" /\ is_row_masked(wf.row) THEN AfterWrite
     ELSE WGoto(IF wf.pc = "disable" THEN "verify" ELSE "lockverify") /\ res' = res
  /\ UNCHANGED <<fuse, locked, ef, faults, losses>>

\* Mutant: the value is not compared again after the last attempt.
VerifyIgnoresLast ==
  /\ WAt("verify")
  /\ IF RawRead(wf.row) = wf.val \/ wf.try + 1 = MaxTries THEN AfterWrite
     ELSE wf' = [wf EXCEPT !.pc = "write", !.try = @ + 1] /\ res' = res
  /\ UNCHANGED <<fuse, locked, master, ef, faults, losses>>

WVerify ==
  /\ WAt("verify")
  /\ IF RawRead(wf.row) = wf.val THEN AfterWrite
     ELSE IF wf.try + 1 < MaxTries
       THEN wf' = [wf EXCEPT !.pc = "write", !.try = @ + 1] /\ res' = res
       ELSE WReturn("EIO")
  /\ UNCHANGED <<fuse, locked, master, ef, faults, losses>>

WLockVerify ==
  /\ WAt("lockverify")
  /\ IF wf.row \in locked THEN WReturn("OK")
     ELSE IF wf.try + 1 < MaxTries
       THEN wf' = [wf EXCEPT !.pc = "lock", !.try = @ + 1] /\ res' = res
       ELSE WReturn("EIO")
  /\ UNCHANGED <<fuse, locked, master, ef, faults, losses>>

\* Back in the caller of efuse_write_row_no_ecc, when it is not ef.
WDone ==
  /\ WAt("done") /\ ef.pc = "idle"
  /\ wf' = NoFrame
  /\ UNCHANGED <<fuse, locked, master, ef, res, faults, losses>>

\* What the function does between its call and its return.
NoEccBody == WTimeout \/ WRead \/ efuse_write_enable \/ efuse_raw_write
             \/ efuse_raw_lock \/ efuse_write_disable \/ WVerify \/ WLockVerify
NoEccStep == NoEccBody \/ WDone

-----------------------------------------------------------------------------
(***************************************************************************)
(* efuse_write_row_with_ecc_lock.                                          *)
(***************************************************************************)
EAt(l) == ef.pc = l
EReturn(x) == ef' = [ef EXCEPT !.pc = "done"] /\ res' = x

ETimeout ==
  /\ ef.pc \in {"start", "ecc", "verify"}
  /\ Fault
  /\ EReturn("ETIMEDOUT")
  /\ UNCHANGED <<fuse, locked, master, wf, losses>>

EStart ==
  /\ EAt("start")
  /\ IF ef.row \in locked \/ is_row_masked(ef.row)
       THEN EReturn("EACCES")
       ELSE ef' = [ef EXCEPT !.pc = "ecc", !.val = @ \cup RawRead(ef.row)]
            /\ res' = res
  /\ UNCHANGED <<fuse, locked, master, wf, faults, losses>>

\* The ECC row must be open and the row's byte blank.  The loop over the rows
\* that share it cannot make lock_ecc true (it compares with 45), so it only
\* adds reads.
EEcc ==
  LET e == EccRow[ef.row] IN
  /\ EAt("ecc")
  /\ IF e \in locked \/ (~is_row_masked(e) /\ EccByte(ef.row) # {})
       THEN EReturn("EACCES") /\ wf' = wf
       ELSE /\ ef' = [ef EXCEPT !.pc = "row"]
            /\ wf' = WFrame(ef.row, ef.val, TRUE)
            /\ res' = res
  /\ UNCHANGED <<fuse, locked, master, faults, losses>>

\* Mutant: the ECC byte goes to the place of every row that shares the ECC row.
EccOfNeighbour(r, v) ==
  UNION {EccWord(n, v) : n \in {m \in DataRows : EccRow[m] = EccRow[r]}}

eccval(r, v) == EccWord(r, v)

\* The data row is in and locked: now its ECC byte.
ERow ==
  /\ EAt("row") /\ WAt("done")
  /\ IF res # "OK" THEN EReturn(res) /\ wf' = NoFrame
     ELSE /\ ef' = [ef EXCEPT !.pc = "eccrow"]
          /\ wf' = WFrame(EccRow[ef.row], eccval(ef.row, ef.val), FALSE)
          /\ res' = res
  /\ UNCHANGED <<fuse, locked, master, faults, losses>>

EEccRow ==
  /\ EAt("eccrow") /\ WAt("done")
  /\ wf' = NoFrame
  /\ IF res # "OK" THEN EReturn(res)
                   ELSE ef' = [ef EXCEPT !.pc = "verify"] /\ res' = res
  /\ UNCHANGED <<fuse, locked, master, faults, losses>>

\* Read back with ECC.
EVerify ==
  /\ EAt("verify")
  /\ EReturn(IF EccRead(ef.row) = {ef.val} THEN "OK" ELSE "EIO")
  /\ UNCHANGED <<fuse, locked, master, wf, faults, losses>>

EDone ==
  /\ EAt("done")
  /\ ef' = NoFrame
  /\ UNCHANGED <<fuse, locked, master, wf, res, faults, losses>>

WithEccStep == ETimeout \/ EStart \/ EEcc \/ ERow \/ EEccRow \/ EVerify \/ EDone

EfuseStep == NoEccStep \/ WithEccStep

\* The power fails; a pulse in progress has blown some of its bits.
PowerLoss ==
  /\ losses < MaxPowerLosses /\ losses' = losses + 1
  /\ \/ fuse' = fuse
     \/ WAt("pulse") /\ \E blown \in SUBSET wf.val : Pulsed(blown)
  /\ wf' = NoFrame /\ ef' = NoFrame /\ res' = "none" /\ master' = FALSE
  /\ UNCHANGED <<locked, faults>>

(***************************************************************************)
(* On their own: the mailbox commands MBOX_CMD_OTP_WRITE* and the debug    *)
(* console's "efuse" call the two functions with what they were given.     *)
(***************************************************************************)
Call ==
  \E c \in Calls :
    \/ c.fn = "no_ecc" /\ efuse_write_row_no_ecc(c.row, c.val, c.lock)
    \/ c.fn = "with_ecc" /\ efuse_write_row_with_ecc_lock(c.row, c.val)

ENext == Call \/ EfuseStep \/ PowerLoss
ESpec == EInit /\ [][ENext]_evars

-----------------------------------------------------------------------------
\* A write without ECC that reports success has put exactly the requested bits
\* on top of the old ones, and the lock if it was asked for, however often the
\* pulses and the locks had to be repeated (efuse.c:365-407); masked rows
\* cannot be read back and are not verified.
PlainWriteVerified ==
  wf.pc = "done" /\ res = "OK" /\ ~is_row_masked(wf.row) =>
    /\ fuse[wf.row] = wf.req \cup wf.old
    /\ wf.lock => wf.row \in locked

\* A write with ECC that reports success leaves a locked row whose ECC byte is
\* the code of what it holds, so that it reads back with ECC, unless the ECC row
\* is masked and nobody can tell (efuse.c:439-470).
EccWriteVerified ==
  ef.pc = "done" /\ res = "OK" =>
    /\ fuse[ef.row] = ef.req \cup ef.old
    /\ ef.row \in locked
    /\ ~is_row_masked(EccRow[ef.row]) => EccConsistent(ef.row)

\* Both kinds of write report success only for what is in the fuses
\* (efuse.c:365-407, 439-470).
WriteVerified == PlainWriteVerified /\ EccWriteVerified

\* Writing one row never spoils the ECC byte of another row that shares its ECC
\* row, not even when the power fails in between (efuse.c:435-440, 459).
FinishedRowsStayReadable ==
  [][\A r \in DataRows : r \in locked /\ EccConsistent(r) => EccConsistent(r)']_evars

\* In efuse_raw_write or efuse_raw_lock.
RawAccess ==
  wf.pc \in {"write", "pulse", "disable", "lock", "lockpulse", "lockdisable"}

\* A raw access leaves programming enabled only when it times out, where its
\* early returns skip efuse_write_disable; what an earlier timeout left enabled,
\* the next access that gets to its end disables; nothing else enables it, and no
\* fuse is blown and no row locked outside of an access that has enabled it
\* (efuse.c:283-290, 310, 320-327, 343).
ProgrammingClosed ==
  [][/\ RawAccess /\ ~RawAccess' /\ master' => res' = "ETIMEDOUT"
     /\ ~master /\ master' => RawAccess
     /\ array' # array => RawAccess /\ master]_evars
=============================================================================
