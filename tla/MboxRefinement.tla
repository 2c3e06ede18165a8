--------------------------- MODULE MboxRefinement ---------------------------
(***************************************************************************)
(* Mbox implements MboxService.  A command counts as taken when it is put  *)
(* into cmd_queue or when its rejection is shown to the AP, and a request  *)
(* as answered when CMD_COMPLETE is set for its answer, before PopFirst    *)
(* frees its slot.                                                         *)
(***************************************************************************)
EXTENDS Mbox

\* The command in the input registers is taken; this many answers were sent.
Taken == ~occupied \/ pc["irq"] \in {"clear", "clear2"}
Sent  == IF pc["main"] = "pop" THEN answered + 1 ELSE answered

commandBar == IF Taken THEN NoReq ELSE in_req
pendingBar == SubSeq(accepted, Sent + 1, Len(accepted))
outboxBar  == IF COMPLETE \in host_int THEN out ELSE NoMsg

Service == INSTANCE MboxService
  WITH Capacity <- CMD_QUEUE_SIZE,
       Ids <- 1..MaxCmds,
       Cmds <- ApCmds,
       Served <- {CmdTable[i] : i \in 1..Len(CmdTable)},
       Restarts <- DEBUG_UART,
       Running <- WTMI_APP,
       up <- ap_on,
       command <- commandBar,
       pending <- pendingBar,
       outbox <- outboxBar,
       delivered <- got

\* The registers, the ring and the interrupt handler of mbox.c give the AP the
\* service of MboxService: every step is one of its steps or invisible.
ImplementsService == Service!SSpec
=============================================================================
