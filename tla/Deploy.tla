------------------------------- MODULE Deploy -------------------------------
(***************************************************************************)
(* Provisioning a board (wtmi/deploy.c) on top of Efuse: mbd.op = 1 writes *)
(* serial number, RAM size, board version and MAC address, generates the   *)
(* ECDSA key and reads everything back; mbd.op = 2 writes the hash of the  *)
(* boot key and the security flags.  Every run ends in a warm reset, after *)
(* which, as after a power loss, the host starts an operation again.       *)
(***************************************************************************)
EXTENDS Efuse, Sequences

CONSTANTS
  Ops,            \* the values of mbd.op the host may give: 1, 2
  InfoRows,       \* sequence: serial number (43), RAM/version/MAC (42)
  KeyRows,        \* sequence: the rows of the private key (30..37, 40)
  HashRows,       \* sequence: the rows of the hash of the boot key (8..11)
  FlagRows,       \* sequence: the security flags (0..3)
  Value,          \* row -> what mbd or the code wants in it (not KeyRows)
  RamBits,        \* the bits of row 42 that hold the RAM size
  Keys,           \* the keys bn_random may deliver: functions on KeyRows
  MaxAttempts     \* bound: how often the host starts the operation

RangeOf(s) == {s[i] : i \in 1..Len(s)}

\* The rows have fixed numbers in the code, each with one purpose.
ASSUME DeployAssumption ==
  /\ Ops \subseteq {1, 2} /\ MaxAttempts \in Nat
  /\ {InfoRows, KeyRows, HashRows, FlagRows} \subseteq Seq(DataRows) /\ KeyRows # <<>>
  /\ \A r \in RangeOf(InfoRows) \cup RangeOf(HashRows) :
       r \notin RangeOf(KeyRows) \cup RangeOf(FlagRows)
  /\ RangeOf(KeyRows) \cap RangeOf(FlagRows) = {}
  /\ Keys \subseteq [RangeOf(KeyRows) -> SUBSET DataBits]
  /\ \A k \in Keys : \E r \in RangeOf(KeyRows) : k[r] # {}
  /\ Value \in [RangeOf(InfoRows) \cup RangeOf(HashRows) \cup RangeOf(FlagRows)
                -> SUBSET DataBits]

VARIABLES
  dpc,            \* where do_deploy or do_deploy_trust_only is
  i,              \* its loop counter, or which info row it is at
  priv,           \* the key in memory
  status,         \* what it printed: "none", "fail", "ok" (1), "trusted" (2)
  attempt,        \* how often the operation was started
  generated       \* history: the keys generated so far

dvars == <<dpc, i, priv, status, attempt, generated>>
vars  == <<evars, dvars>>

DInit ==
  /\ EInit
  /\ dpc = "boot" /\ i = 1 /\ priv = <<>> /\ status = "none"
  /\ attempt = 0 /\ generated = {}

Goto(l, n) == dpc' = l /\ i' = n
die == dpc' = "end" /\ status' = "fail" /\ i' = i

\* otp_hash is all zeros: the board is not to be secured.
NoHash == \A n \in 1..Len(HashRows) : Value[HashRows[n]] = {}

\* efuse_read_row_no_ecc, for the lock: times out, or is refused when masked.
LockReadFails(r) == IF is_row_masked(r) THEN faults' = faults ELSE Fault

Start(op) ==
  /\ dpc = "boot" /\ attempt < MaxAttempts
  /\ attempt' = attempt + 1
  /\ status' = "none"
  /\ Goto(IF op = 1 THEN "info" ELSE "trust", 1)
  /\ UNCHANGED <<evars, priv, generated>>

-----------------------------------------------------------------------------
(***************************************************************************)
(* do_deploy.                                                              *)
(***************************************************************************)
\* get_ram_size finds no size it knows.
UnknownRam ==
  /\ dpc = "info" /\ i = 1 /\ ~Busy
  /\ die
  /\ UNCHANGED <<evars, priv, attempt, generated>>

\* row_write_if_not_locked, for the info rows one after the other.
Info ==
  /\ dpc = "info" /\ ~Busy
  /\ IF i > Len(InfoRows) THEN Goto("key", 1) /\ UNCHANGED evars
     ELSE IF InfoRows[i] \in locked THEN Goto("info", i + 1) /\ UNCHANGED evars
     ELSE /\ efuse_write_row_with_ecc_lock(InfoRows[i], Value[InfoRows[i]])
          /\ Goto("info_ret", i)
  /\ UNCHANGED <<priv, status, attempt, generated>>

InfoReturn ==
  /\ dpc = "info_ret" /\ ~Busy
  /\ IF res = "OK" THEN Goto("info", i + 1) /\ status' = status ELSE die
  /\ UNCHANGED <<evars, priv, attempt, generated>>

\* The lock read before a write, or before the key, fails.
ReadLockFails ==
  /\ ~Busy
  /\ \/ dpc = "info" /\ i <= Len(InfoRows) /\ LockReadFails(InfoRows[i])
     \/ dpc = "key" /\ i = 1 /\ LockReadFails(KeyRows[1])
     \/ dpc = "trust" /\ i = 1 /\ ~NoHash /\ LockReadFails(FlagRows[1])
  /\ die
  /\ UNCHANGED <<array, master, wf, ef, res, losses, priv, attempt, generated>>

\* generate_and_write_ecdsa_key looks at the first key row only.
generate_and_write_ecdsa_key ==
  /\ dpc = "key" /\ i = 1 /\ ~Busy
  /\ IF KeyRows[1] \in locked
       THEN Goto("report", 1) /\ UNCHANGED <<priv, generated>>
       ELSE /\ priv' \in Keys
            /\ generated' = generated \cup {priv'}
            /\ Goto("keyrow", 1)
  /\ UNCHANGED <<evars, status, attempt>>

\* Mutant: the loop over the key rows ends one row early.
KeyRowsOffByOne == Len(KeyRows) - 1

KeyRowCount == Len(KeyRows)

\* efuse_write_secure_buffer.
WriteKeyRow ==
  /\ dpc = "keyrow" /\ ~Busy
  /\ IF i > KeyRowCount
       THEN Goto("report", 1) /\ priv' = <<>> /\ UNCHANGED evars
       ELSE /\ efuse_write_row_with_ecc_lock(KeyRows[i], priv[KeyRows[i]])
            /\ Goto("keyrow_ret", i) /\ priv' = priv
  /\ UNCHANGED <<status, attempt, generated>>

KeyRowReturn ==
  /\ dpc = "keyrow_ret" /\ ~Busy
  /\ IF res = "OK"
       THEN Goto("keyrow", i + 1) /\ UNCHANGED <<priv, status>>
       ELSE die /\ priv' = <<>>
  /\ UNCHANGED <<evars, attempt, generated>>

\* Everything is read back with ECC and printed: the rows must be readable, row
\* 42 must tell the RAM size that was measured, and the key must not be zero.
ReadsBack ==
  /\ \A n \in 1..Len(InfoRows) :
       ~is_row_masked(InfoRows[n]) /\ EccRead(InfoRows[n]) # {}
  /\ \A v \in EccRead(InfoRows[2]) : v \cap RamBits = Value[InfoRows[2]] \cap RamBits
  /\ \A n \in 1..Len(KeyRows) : EccRead(KeyRows[n]) # {}
  /\ \E n \in 1..Len(KeyRows) : EccRead(KeyRows[n]) # {{}}

Report ==
  /\ dpc = "report" /\ ~Busy
  /\ \/ /\ ReadsBack
        /\ dpc' = "end" /\ status' = "ok" /\ i' = i
        /\ UNCHANGED faults
     \/ ~ReadsBack /\ die /\ UNCHANGED faults
     \/ Fault /\ die
  /\ UNCHANGED <<array, master, wf, ef, res, losses, priv, attempt, generated>>

-----------------------------------------------------------------------------
(***************************************************************************)
(* do_deploy_trust_only: nothing to do without a hash or once the first    *)
(* flag row is locked; results of the writes are ignored.                  *)
(***************************************************************************)
\* Mutant: the flags are written before the hash they make the BootROM check.
FlagsFirst == FlagRows \o HashRows

TrustRows == HashRows \o FlagRows

Trust ==
  /\ dpc = "trust" /\ ~Busy
  /\ IF \/ i > Len(TrustRows)
        \/ i = 1 /\ FlagRows[1] \in locked
        \/ NoHash
       THEN dpc' = "end" /\ status' = "trusted" /\ i' = i /\ UNCHANGED evars
       ELSE /\ efuse_write_row_with_ecc_lock(TrustRows[i], Value[TrustRows[i]])
            /\ Goto("trust", i + 1) /\ status' = status
  /\ UNCHANGED <<priv, attempt, generated>>

-----------------------------------------------------------------------------
\* The warm reset behind deploy() (or, with bit 31 of mbd.op, a normal boot).
WarmReset ==
  /\ dpc = "end"
  /\ Goto("boot", 1)
  /\ UNCHANGED <<evars, priv, status, attempt, generated>>

LosePower ==
  /\ PowerLoss
  /\ Goto("boot", 1)
  /\ priv' = <<>> /\ status' = "none"
  /\ UNCHANGED <<attempt, generated>>

DNext ==
  \/ \E op \in Ops : Start(op)
  \/ UnknownRam \/ Info \/ InfoReturn \/ ReadLockFails
  \/ generate_and_write_ecdsa_key \/ WriteKeyRow \/ KeyRowReturn \/ Report
  \/ Trust \/ WarmReset \/ LosePower
  \/ WithEccStep /\ UNCHANGED dvars
  \/ NoEccStep /\ UNCHANGED dvars

DSpec == DInit /\ [][DNext]_vars

-----------------------------------------------------------------------------
Holds(r, v) == fuse[r] = v /\ r \in locked /\ EccConsistent(r)

\* An operation that reports success at its first start, without a power loss,
\* has put every row in place with its lock and its ECC byte, the key being
\* the one that was generated (deploy.c:199-261, efuse.c:473-493).
FirstDeployComplete ==
  status = "ok" /\ attempt = 1 =>
    /\ \A n \in 1..Len(InfoRows) : Holds(InfoRows[n], Value[InfoRows[n]])
    /\ \E k \in generated : \A n \in 1..Len(KeyRows) : Holds(KeyRows[n], k[KeyRows[n]])

\* Whatever failed and however often it was restarted, success means that the
\* serial number and the board data are final and complete (deploy.c:85-97).
DeployedInfoFinal ==
  status = "ok" =>
    \A n \in 1..Len(InfoRows) :
      InfoRows[n] \in locked /\ fuse[InfoRows[n]] = Value[InfoRows[n]]

\* A deployed board has the key that was generated for it: "generate ECDSA key
\* if not yet generated" (deploy.c:224).
DeployedKeyGenerated ==
  status = "ok" =>
    \E k \in generated : \A n \in 1..Len(KeyRows) : fuse[KeyRows[n]] = k[KeyRows[n]]

\* The security flags make the BootROM demand an image signed by the key of the
\* hash: no flag is blown before the whole hash is in place and locked, whenever
\* the power fails, as long as no access to the fuses fails: the results of the
\* writes are ignored ("if these fail, we are screwed anyway", deploy.c:180-194).
HashBeforeFlags ==
  faults = 0 /\ (\E n \in 1..Len(FlagRows) : fuse[FlagRows[n]] # {}) =>
    \A n \in 1..Len(HashRows) :
      HashRows[n] \in locked /\ fuse[HashRows[n]] = Value[HashRows[n]]
=============================================================================
