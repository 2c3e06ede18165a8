-------------------------------- MODULE Mbox --------------------------------
(***************************************************************************)
(* The mailbox of the secure firmware (wtmi/mbox.c) as it is driven by     *)
(* main() (wtmi/main.c): the application processor (AP) writes one command *)
(* into the input registers, the interrupt handler mbox_irq_handler moves  *)
(* it into the ring cmd_queue, and the main loop runs the command handlers *)
(* and answers with mbox_send, which the interrupt handler calls too when  *)
(* it rejects a command.                                                   *)
(*                                                                         *)
(* Two contexts run on one core: "main", and "irq", which preempts main    *)
(* whenever PRIMASK is clear.  The AP is a third, truly concurrent actor.  *)
(* The read and the write of setbitsl(HOST_INT_SET, ...) are two steps,    *)
(* because the AP clears bits of that register at any time.                *)
(***************************************************************************)
EXTENDS MboxProtocol

CONSTANTS
  CMD_QUEUE_SIZE,     \* slots of cmd_queue (8 in the code)
  ApCmds,             \* the 32-bit values the AP writes into MBOX_IN_CMD
  MaxCmds,            \* bound: how many commands the AP issues in a behaviour
  CmdTable,           \* sequence of the commands main() registers, in order
  WTMI_APP,           \* values of the build flag: TRUE, the AP runs already at start
  BootMasked,         \* PRIMASK when main() starts
  WdtWorkaround,      \* reset_workaround_enabled: mox_wdt_workaround may reset
  DEBUG_UART,         \* build flag: debug console, "kick" and "a53" start the AP
  MaxKicks            \* bound: how often it does so to an AP that runs already

ASSUME QueueSizeAssumption == CMD_QUEUE_SIZE \in Nat \ {0}
ASSUME ApCmdsAssumption    == ApCmds \subseteq Nat
ASSUME MaxCmdsAssumption   == MaxCmds \in Nat
ASSUME MaxKicksAssumption  == MaxKicks \in Nat
ASSUME CmdTableAssumption  == CmdTable \in Seq(Nat)
ASSUME FlagsAssumption     == /\ WTMI_APP \subseteq BOOLEAN
                              /\ BootMasked \in BOOLEAN
                              /\ WdtWorkaround \in BOOLEAN
                              /\ DEBUG_UART \in BOOLEAN

VARIABLES
  pc,                 \* where main() and mbox_irq_handler are
  primask,            \* TRUE: interrupts disabled (cpsid i)
  cmd_handlers,       \* the commands that have a handler
  occupied,           \* SP_CONTROL, CMD_REG_OCCUPIED_BIT
  sp_int,             \* the interrupt cause SP_INT_RESET clears
  in_req,             \* MBOX_IN_CMD and MBOX_IN_ARG
  host_int,           \* the bits set in HOST_INT_SET
  out,                \* MBOX_OUT_STATUS and MBOX_OUT_ARG
  cmd_queue, cmd_queue_first, cmd_queue_fill,
  msg,                \* per context: the message mbox_send is sending
  hint,               \* per context: HOST_INT_SET as setbitsl read it
  ap_on,              \* the AP is running
  issued,             \* number of commands the AP has issued (ids 1..issued)
  accepted,           \* history: the requests put into cmd_queue
  answered,           \* history: how many requests left cmd_queue
  unread,             \* history: out holds a message the AP never read
  got,                \* history: the messages the AP received
  kicks,              \* how often the console started a running AP
  lost,               \* history: the calls whose message a kick overwrote
  overflow            \* history: some command met a full queue

regs  == <<occupied, sp_int, in_req>>
ring  == <<cmd_queue, cmd_queue_first, cmd_queue_fill, accepted, answered>>
send  == <<host_int, out, msg, hint, unread, lost>>
apst  == <<ap_on, issued, got, kicks>>
vars  == <<pc, primask, cmd_handlers, regs, ring, send, apst, overflow>>

-----------------------------------------------------------------------------
Ctx == {"main", "irq"}

\* Mutants: one request too many fits; any table slot counts as a handler.
QueueFullOffByOne   == cmd_queue_fill > CMD_QUEUE_SIZE
AnySlotIsHandler(c) == HasSlot(c)

Slot(k)       == (cmd_queue_first + k) % CMD_QUEUE_SIZE
QueueFull     == cmd_queue_fill = CMD_QUEUE_SIZE
HasHandler(c) == c \in cmd_handlers

\* Mutants: the critical section is not one; nothing but the mailbox wakes up.
NoMask    == UNCHANGED primask
NoSysTick == FALSE

disable_irq    == primask' = TRUE
enable_irq     == primask' = FALSE
enable_systick == TRUE              \* main() enables it for good, before mbox_init

-----------------------------------------------------------------------------
(***************************************************************************)
(* Start-up: main() unmasks the mailbox interrupt (mbox_init), registers   *)
(* the handlers one by one, enables interrupts and starts the AP unless it *)
(* runs already.                                                           *)
(***************************************************************************)
Init ==
  /\ pc = [c \in Ctx |-> IF c = "main" THEN "mbox_init" ELSE "idle"]
  /\ primask = BootMasked
  /\ cmd_handlers = {}
  /\ occupied = FALSE /\ sp_int = FALSE /\ in_req = NoReq
  /\ host_int = {} /\ out = NoMsg
  /\ cmd_queue = [i \in 0..CMD_QUEUE_SIZE-1 |-> NoReq]
  /\ cmd_queue_first = 0 /\ cmd_queue_fill = 0
  /\ msg = [c \in Ctx |-> NoMsg]
  /\ hint = [c \in Ctx |-> {}]
  /\ ap_on \in WTMI_APP
  /\ issued = 0 /\ accepted = <<>> /\ answered = 0
  /\ unread = FALSE /\ got = <<>> /\ overflow = FALSE
  /\ kicks = 0 /\ lost = {}

\* Context c is at label l; main runs only while the handler is not active.
At(c, l) == pc[c] = l /\ (c = "main" => pc["irq"] = "idle")
Goto(c, l) == pc' = [pc EXCEPT ![c] = l]

mbox_init ==
  /\ At("main", "mbox_init")
  /\ Goto("main", "register")
  /\ UNCHANGED <<primask, cmd_handlers, regs, ring, send, apst, overflow>>

\* mbox_register_cmd: only the three tables, and never over an earlier handler.
mbox_register_cmd(cmd) ==
  /\ At("main", "register")
  /\ cmd \notin cmd_handlers
  /\ HasSlot(cmd)
  /\ cmd_handlers' = cmd_handlers \cup {cmd}
  /\ UNCHANGED <<pc, primask, regs, ring, send, apst, overflow>>

\* The table is worked off in order; commands without a slot are dropped.
Registrable == {i \in 1..Len(CmdTable) : HasSlot(CmdTable[i])}
NextToRegister == {i \in Registrable : /\ CmdTable[i] \notin cmd_handlers
                                       /\ \A j \in Registrable :
                                            j < i => CmdTable[j] \in cmd_handlers}
Register == \E i \in NextToRegister : mbox_register_cmd(CmdTable[i])

\* enable_irq, then the AP is started at once unless there is a debug console
\* or the AP runs already.
EnableIrq ==
  /\ At("main", "register")
  /\ NextToRegister = {}
  /\ enable_irq
  /\ Goto("main", IF ap_on \/ DEBUG_UART THEN "top" ELSE "start_ap")
  /\ UNCHANGED <<cmd_handlers, regs, ring, send, apst, overflow>>

(***************************************************************************)
(* start_ap_at shows the start message without looking at CMD_COMPLETE and *)
(* without masking interrupts: at boot, and whenever the debug console's   *)
(* "kick" or "a53" calls it, whether the AP runs or not.  A message the AP *)
(* has not read is overwritten, and the handler may put a rejection in the *)
(* place of the start message before the bit is set.  (The message is one  *)
(* value here: an AP reading it in the middle of the overwriting gets a    *)
(* mixture of the two.)                                                    *)
(***************************************************************************)
StartWrite ==
  /\ \/ At("main", "start_ap") /\ UNCHANGED kicks
     \/ /\ At("main", "debug") /\ DEBUG_UART
        /\ ap_on => kicks < MaxKicks
        /\ kicks' = IF ap_on THEN kicks + 1 ELSE kicks
  /\ out' = StartMsg
  /\ unread' = (COMPLETE \in host_int)
  /\ lost' = IF COMPLETE \in host_int THEN lost \cup {out.id} ELSE lost
  /\ Goto("main", "start_read")
  /\ UNCHANGED <<primask, cmd_handlers, regs, ring, host_int, msg, hint, ap_on,
                 issued, got, overflow>>

StartRead ==
  /\ At("main", "start_read")
  /\ hint' = [hint EXCEPT !["main"] = host_int]
  /\ Goto("main", "start_set")
  /\ UNCHANGED <<primask, cmd_handlers, regs, ring, host_int, out, msg, unread,
                 lost, apst, overflow>>

StartSet ==
  /\ At("main", "start_set")
  /\ host_int' = hint["main"] \cup {COMPLETE}
  /\ unread' = TRUE
  /\ ap_on' = TRUE
  /\ Goto("main", "top")
  /\ UNCHANGED <<primask, cmd_handlers, regs, ring, out, msg, hint, lost, issued,
                 got, kicks, overflow>>

start_ap_at == StartWrite \/ StartRead \/ StartSet

-----------------------------------------------------------------------------
(***************************************************************************)
(* mbox_send, in either context.  The test of CMD_COMPLETE and the mask    *)
(* are one step: an unsuccessful turn of the loop changes nothing.  The    *)
(* writes of the message and the read of HOST_INT_SET by setbitsl are one  *)
(* step too, because the AP does not look at the message before the bit is *)
(* set; the write of HOST_INT_SET is another.                              *)
(***************************************************************************)
SendTest(c) ==
  /\ At(c, "test")
  /\ COMPLETE \notin host_int
  /\ disable_irq
  /\ Goto(c, "write")
  /\ UNCHANGED <<cmd_handlers, regs, ring, send, apst, overflow>>

SendWrite(c) ==
  /\ At(c, "write")
  /\ out' = msg[c]
  /\ unread' = TRUE
  /\ hint' = [hint EXCEPT ![c] = host_int]
  /\ Goto(c, "set")
  /\ UNCHANGED <<primask, cmd_handlers, regs, ring, host_int, msg, lost, apst,
                 overflow>>

SendSet(c) ==
  /\ At(c, "set")
  /\ host_int' = hint[c] \cup {COMPLETE}
  /\ enable_irq
  /\ Goto(c, IF c = "main" THEN "pop" ELSE "clear")
  /\ UNCHANGED <<cmd_handlers, regs, ring, out, msg, hint, unread, lost, apst,
                 overflow>>

mbox_send(c) == SendTest(c) \/ SendWrite(c) \/ SendSet(c)

-----------------------------------------------------------------------------
(***************************************************************************)
(* The main loop.                                                          *)
(***************************************************************************)
LoopTop ==
  /\ At("main", "top")
  /\ disable_irq
  /\ Goto("main", "check")
  /\ UNCHANGED <<cmd_handlers, regs, ring, send, apst, overflow>>

\* mbox_has_cmd looks at the OCCUPIED bit, not at the queue.
LoopCheck ==
  /\ At("main", "check")
  /\ Goto("main", IF occupied THEN "unmask" ELSE "wfi")
  /\ UNCHANGED <<primask, cmd_handlers, regs, ring, send, apst, overflow>>

\* wait_for_irq returns when an interrupt is pending, masked or not.
WakeByMbox ==
  /\ At("main", "wfi")
  /\ sp_int
  /\ Goto("main", "unmask")
  /\ UNCHANGED <<primask, cmd_handlers, regs, ring, send, apst, overflow>>

\* The system tick, enabled by enable_systick, every 10 ms.
WakeByTick ==
  /\ At("main", "wfi")
  /\ enable_systick
  /\ Goto("main", "unmask")
  /\ UNCHANGED <<primask, cmd_handlers, regs, ring, send, apst, overflow>>

LoopUnmask ==
  /\ At("main", "unmask")
  /\ enable_irq
  /\ Goto("main", "wdt")
  /\ UNCHANGED <<cmd_handlers, regs, ring, send, apst, overflow>>

\* reset_soc never returns: the warm reset takes the whole SoC down, the AP and
\* the interrupt controller included.
reset_soc ==
  /\ ap_on' = FALSE
  /\ Goto("main", "reset")
  /\ UNCHANGED <<primask, cmd_handlers, regs, ring, send, issued, got, kicks, overflow>>

mox_wdt_workaround ==
  /\ At("main", "wdt")
  /\ \/ WdtWorkaround /\ reset_soc
     \/ /\ Goto("main", "process")
        /\ UNCHANGED <<primask, cmd_handlers, regs, ring, send, apst, overflow>>

\* The while condition of mbox_process_commands.
ProcessTest ==
  /\ At("main", "process")
  /\ Goto("main", IF cmd_queue_fill > 0 THEN "handle" ELSE "debug")
  /\ UNCHANGED <<primask, cmd_handlers, regs, ring, send, apst, overflow>>

\* The handler of the first request; cmd_reboot does not come back when it is
\* given the magic argument, and fails otherwise.
HandleFirst ==
  LET req == cmd_queue[cmd_queue_first] IN
  /\ At("main", "handle")
  /\ \/ req.cmd = MBOX_CMD_REBOOT /\ reset_soc
     \/ \E m \in HandlerMsgs(req) :
          /\ req.cmd = MBOX_CMD_REBOOT => m.err = "FAIL"
          /\ msg' = [msg EXCEPT !["main"] = m]
          /\ Goto("main", "test")
          /\ UNCHANGED <<primask, cmd_handlers, regs, ring, host_int, out, hint,
                         unread, lost, apst, overflow>>

\* The request leaves the queue, with interrupts disabled, once it is answered.
PopFirst ==
  /\ At("main", "pop")
  /\ cmd_queue_first' = (cmd_queue_first + 1) % CMD_QUEUE_SIZE
  /\ cmd_queue_fill' = cmd_queue_fill - 1
  /\ answered' = answered + 1
  /\ enable_irq
  /\ Goto("main", "process")
  /\ UNCHANGED <<cmd_handlers, regs, cmd_queue, accepted, send, apst, overflow>>

\* debug_process (but for "kick" and "a53") and ebg_process leave the mailbox alone.
LoopRest ==
  /\ At("main", "debug")
  /\ Goto("main", "top")
  /\ UNCHANGED <<primask, cmd_handlers, regs, ring, send, apst, overflow>>

\* while (1) wait_for_irq() behind the warm reset.
ResetWait == At("main", "reset") /\ UNCHANGED vars

Main ==
  \/ mbox_init \/ Register \/ EnableIrq \/ start_ap_at
  \/ LoopTop \/ LoopCheck \/ LoopUnmask \/ mox_wdt_workaround
  \/ ProcessTest \/ HandleFirst \/ mbox_send("main") \/ PopFirst \/ LoopRest

-----------------------------------------------------------------------------
(***************************************************************************)
(* mbox_irq_handler.  It runs to its end before main goes on; priorities   *)
(* leave no way for it to preempt itself, whatever mbox_send does to       *)
(* PRIMASK in it.  It returns at once when there is no command.            *)
(***************************************************************************)
IrqEnter ==
  /\ pc["irq"] = "idle"
  /\ ~primask /\ sp_int
  /\ pc["main"] \notin {"mbox_init", "reset"}
  /\ Goto("irq", IF occupied THEN "entry" ELSE "idle")
  /\ UNCHANGED <<primask, cmd_handlers, regs, ring, send, apst, overflow>>

IrqFull ==
  /\ At("irq", "entry")
  /\ QueueFull
  /\ hint' = [hint EXCEPT !["irq"] = host_int]
  /\ overflow' = TRUE
  /\ Goto("irq", "full")
  /\ UNCHANGED <<primask, cmd_handlers, regs, ring, host_int, out, msg, unread,
                 lost, apst>>

IrqFullSet ==
  /\ At("irq", "full")
  /\ host_int' = hint["irq"] \cup {FULL_ACCESS}
  /\ Goto("irq", "clear")
  /\ UNCHANGED <<primask, cmd_handlers, regs, ring, out, msg, hint, unread, lost,
                 apst, overflow>>

IrqEnqueue ==
  LET req == [id |-> in_req.id, cmd |-> Masked(in_req.cmd)] IN
  /\ At("irq", "entry")
  /\ ~QueueFull
  /\ HasHandler(req.cmd)
  /\ cmd_queue' = [cmd_queue EXCEPT ![Slot(cmd_queue_fill)] = req]
  /\ cmd_queue_fill' = cmd_queue_fill + 1
  /\ accepted' = Append(accepted, req)
  /\ Goto("irq", "clear")
  /\ UNCHANGED <<primask, cmd_handlers, regs, cmd_queue_first, answered, send,
                 apst, overflow>>

IrqReject ==
  /\ At("irq", "entry")
  /\ ~QueueFull
  /\ ~HasHandler(Masked(in_req.cmd))
  /\ msg' = [msg EXCEPT !["irq"] = RejectMsg(in_req)]
  /\ Goto("irq", "test")
  /\ UNCHANGED <<primask, cmd_handlers, regs, ring, host_int, out, hint, unread,
                 lost, apst, overflow>>

\* Mutant: the interrupt cause is not cleared.
CauseNotCleared ==
  /\ At("irq", "clear")
  /\ Goto("irq", "clear2")
  /\ UNCHANGED <<primask, cmd_handlers, regs, ring, send, apst, overflow>>

\* SP_INT_RESET first, then the OCCUPIED bit.
IrqClearCause ==
  /\ At("irq", "clear")
  /\ sp_int' = FALSE
  /\ Goto("irq", "clear2")
  /\ UNCHANGED <<primask, cmd_handlers, occupied, in_req, ring, send, apst,
                 overflow>>

IrqClearOccupied ==
  /\ At("irq", "clear2")
  /\ occupied' = FALSE
  /\ Goto("irq", "idle")
  /\ UNCHANGED <<primask, cmd_handlers, sp_int, in_req, ring, send, apst,
                 overflow>>

IrqBody ==
  \/ IrqFull \/ IrqFullSet \/ IrqEnqueue \/ IrqReject \/ mbox_send("irq")
  \/ IrqClearCause \/ IrqClearOccupied

-----------------------------------------------------------------------------
(***************************************************************************)
(* The AP (external: TF-A, U-Boot and Linux; its side of the protocol is   *)
(* what the registers mean to mbox.c).                                     *)
(***************************************************************************)
\* The AP writes a command when the previous one was taken.
ApSend(cmd) ==
  /\ ap_on /\ ~occupied /\ issued < MaxCmds
  /\ in_req' = [id |-> issued + 1, cmd |-> cmd]
  /\ issued' = issued + 1
  /\ occupied' = TRUE /\ sp_int' = TRUE
  /\ UNCHANGED <<pc, primask, cmd_handlers, ring, send, ap_on, got, kicks,
                 overflow>>

\* It reads the message and clears CMD_COMPLETE.
ApRead ==
  /\ ap_on /\ COMPLETE \in host_int
  /\ host_int' = host_int \ {COMPLETE}
  /\ got' = Append(got, out)
  /\ unread' = FALSE
  /\ UNCHANGED <<pc, primask, cmd_handlers, regs, ring, out, msg, hint, lost, ap_on,
                 issued, kicks, overflow>>

ApAckFull ==
  /\ ap_on /\ FULL_ACCESS \in host_int
  /\ host_int' = host_int \ {FULL_ACCESS}
  /\ UNCHANGED <<pc, primask, cmd_handlers, regs, ring, out, msg, hint, unread, lost,
                 apst, overflow>>

Next ==
  \/ Main \/ WakeByMbox \/ WakeByTick \/ ResetWait
  \/ IrqEnter \/ IrqBody
  \/ (\E cmd \in ApCmds : ApSend(cmd)) \/ ApRead \/ ApAckFull

(***************************************************************************)
(* The core keeps executing (main as long as no handler is active), the    *)
(* tick keeps coming, a pending interrupt is taken although PRIMASK is set *)
(* and cleared in between, and the AP reads the answers it is given.  The  *)
(* AP is not obliged to issue commands.                                    *)
(***************************************************************************)
Fairness ==
  /\ WF_vars(Main) /\ WF_vars(WakeByMbox \/ WakeByTick)
  /\ WF_vars(IrqBody) /\ SF_vars(IrqEnter)
  /\ WF_vars(ApRead)

Spec == Init /\ [][Next]_vars /\ Fairness

-----------------------------------------------------------------------------
(***************************************************************************)
(* Properties.                                                             *)
(***************************************************************************)
MainLabels == {"mbox_init", "register", "start_ap", "start_read", "start_set",
               "top", "check", "wfi", "unmask", "wdt", "process", "handle",
               "test", "write", "set", "pop", "debug", "reset"}
IrqLabels == {"idle", "entry", "full", "test", "write", "set", "clear", "clear2"}
Sending(c) == pc[c] \in {"test", "write", "set"}

PcTypeOK   == /\ pc \in [Ctx -> MainLabels \cup IrqLabels]
              /\ pc["main"] \in MainLabels /\ pc["irq"] \in IrqLabels
              /\ primask \in BOOLEAN /\ overflow \in BOOLEAN
              /\ cmd_handlers \subseteq Nat
RegsTypeOK == /\ occupied \in BOOLEAN /\ sp_int \in BOOLEAN
              /\ in_req \in Requests
RingTypeOK == /\ cmd_queue \in [0..CMD_QUEUE_SIZE-1 -> Requests]
              /\ cmd_queue_first \in 0..CMD_QUEUE_SIZE-1
              /\ cmd_queue_fill \in 0..CMD_QUEUE_SIZE
              /\ accepted \in Seq(Requests) /\ answered \in Nat
SendTypeOK == /\ host_int \subseteq {COMPLETE, FULL_ACCESS}
              /\ out \in Messages /\ msg \in [Ctx -> Messages]
              /\ hint \in [Ctx -> SUBSET {COMPLETE, FULL_ACCESS}]
              /\ unread \in BOOLEAN /\ lost \subseteq Nat
ApTypeOK   == /\ ap_on \in BOOLEAN /\ issued \in Nat /\ kicks \in Nat
              /\ got \in Seq(Messages)

\* Every variable has its type.
TypeOK == PcTypeOK /\ RegsTypeOK /\ RingTypeOK /\ SendTypeOK /\ ApTypeOK

\* The ring holds the accepted requests that are not answered, oldest first.
RingHoldsPending ==
  /\ Len(accepted) = answered + cmd_queue_fill
  /\ \A k \in 0..CMD_QUEUE_SIZE-1 :
       k < cmd_queue_fill => cmd_queue[Slot(k)] = accepted[answered + k + 1]

\* The answer being sent belongs to the oldest request.
AnswerIsForFirst ==
  /\ pc["main"] \in {"handle", "test", "write", "set", "pop"} => cmd_queue_fill > 0
  /\ pc["main"] \in {"test", "write", "set", "pop"} =>
       msg["main"] \in HandlerMsgs(accepted[answered + 1])

\* cmd_queue holds, from cmd_queue_first on, exactly the accepted requests that
\* are not answered yet, oldest first, and the answer main() is sending is the
\* oldest one's: the interrupt handler never overwrites a request in use, and
\* none is skipped or taken twice when the indices wrap (mbox.c:73, 90-93, 122).
QueueFifo == RingHoldsPending /\ AnswerIsForFirst

\* mbox_process_commands calls the handlers without looking whether there is
\* one (mbox.c:76, 80): every queued request has one.
NoNullHandlerCall ==
  \A k \in 0..CMD_QUEUE_SIZE-1 :
    k < cmd_queue_fill => cmd_queue[Slot(k)].cmd \in cmd_handlers

\* The OCCUPIED bit and the interrupt cause agree whenever the handler is not
\* between the two writes that clear them: a command is never left without an
\* interrupt, and the handler is never entered without a command (mbox.c:107,
\* 135-138).
CommandHasInterrupt ==
  /\ sp_int => occupied
  /\ occupied => sp_int \/ pc["irq"] = "clear2"
  /\ pc["irq"] \notin {"idle", "clear2"} => sp_int

IsAnswer(m) == m.err \in {"SUCCESS", "FAIL", "MARVELL"}
Answers     == {j \in 1..Len(got) : IsAnswer(got[j])}
HasAnswer(req) == \E j \in Answers : got[j].id = req.id

\* The AP gets the answers to its accepted commands in the order in which they
\* were accepted, none lost but those a kick overwrote; a command that met a full
\* queue can make it see the current answer twice (setbitsl of HOST_INT_SET is not
\* atomic), and only then is any answer duplicated (mbox.c:110-114, 166-201).
AnswersInOrder ==
  /\ \A n \in 1..Len(accepted) : HasAnswer(accepted[n]) =>
       \A k \in 1..n : HasAnswer(accepted[k]) \/ accepted[k].id \in lost
  /\ \A j, k \in Answers : j < k =>
       IF overflow THEN got[j].id <= got[k].id ELSE got[j].id < got[k].id
  /\ \A j \in Answers : \E n \in 1..Len(accepted) : got[j] \in HandlerMsgs(accepted[n])

\* Nothing but the start of the AP overwrites a message that the AP has not read,
\* although both contexts call mbox_send ("the opreation of reading this state and
\* sending the message has to be atomic", mbox.c:166-171; mbox.c:195-201).
MsgWrittenOnlyWhenRead == [][unread => out' = out \/ StartWrite]_vars

Received(n) == \E j \in 1..Len(got) : got[j].id = n

\* Every accepted command is answered and the AP receives the answer, unless
\* the SoC is reset first.
CommandAnswered ==
  \A n \in 1..MaxCmds :
    (\E i \in 1..Len(accepted) : accepted[i].id = n)
      ~> (Received(n) \/ pc["main"] = "reset")

\* The input registers become free again after every command.
MailboxReleased == occupied ~> (~occupied \/ pc["main"] = "reset")
=============================================================================
