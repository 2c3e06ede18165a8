---------------------------- MODULE MboxProtocol ----------------------------
(***************************************************************************)
(* The commands and messages of the mailbox (wtmi/mbox.h, wtmi/mbox.c):    *)
(* what both the interrupt handler and the main loop know about a command  *)
(* from its number alone.                                                  *)
(***************************************************************************)
EXTENDS Naturals, Sequences

(***************************************************************************)
(* Commands.  A request carries, in place of its arguments, the id of the  *)
(* AP's call, so that an answer can be traced to the call.                 *)
(***************************************************************************)
COMPLETE    == "CMD_COMPLETE"
FULL_ACCESS == "CMD_QUEUE_FULL_ACCESS"

MBOX_CMD_REBOOT == 9

Masked(cmd) == cmd % 65536                       \* MBOX_CMD_MASK

is_marvell_read_cmd(cmd)  == cmd \in 257..261
is_marvell_write_cmd(cmd) == cmd \in 513..517
is_marvell_cmd(cmd) == is_marvell_read_cmd(cmd) \/ is_marvell_write_cmd(cmd)

\* The slots the three handler tables have between them.
HasSlot(cmd) == cmd < 16 \/ is_marvell_cmd(cmd)

\* What a handler's status looks like to the AP: the first table's handlers
\* return MBOX_STS(0, _, SUCCESS or FAIL) and get the command number or-ed in,
\* the Marvell ones return a small MBOX_STS_MARVELL code without it.
HandlerMsgs(req) ==
  IF req.cmd < 16
    THEN {[id |-> req.id, cmd |-> req.cmd, err |-> e] : e \in {"SUCCESS", "FAIL"}}
    ELSE {[id |-> req.id, cmd |-> 0, err |-> "MARVELL"]}

RejectMsg(req) ==
  IF Masked(req.cmd) >= 256
    THEN [id |-> req.id, cmd |-> 0, err |-> "ENOSYS"]
    ELSE [id |-> req.id, cmd |-> Masked(req.cmd), err |-> "BADCMD"]

StartMsg == [id |-> 0, cmd |-> 0, err |-> "START"]
NoMsg    == [id |-> 0, cmd |-> 0, err |-> "NONE"]
NoReq    == [id |-> 0, cmd |-> 0]

Errs     == {"SUCCESS", "FAIL", "MARVELL", "ENOSYS", "BADCMD", "START", "NONE"}
Requests == [id : Nat, cmd : Nat]
Messages == [id : Nat, cmd : Nat, err : Errs]
=============================================================================
