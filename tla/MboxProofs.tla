----------------------------- MODULE MboxProofs -----------------------------
(***************************************************************************)
(* Proofs about Mbox for every queue size, command table, set of AP        *)
(* commands and build flag.  None of the properties is inductive by        *)
(* itself; IInv adds what the code relies on without saying it: which      *)
(* labels of main() exclude the interrupt handler, that the AP only clears *)
(* bits of HOST_INT_SET, and that nothing was sent before the AP started.  *)
(***************************************************************************)
EXTENDS MboxRefinement, SequenceTheorems, TLAPS

\* Interrupts stay out of the second half of main's mbox_send.
MaskInv ==
  pc["main"] \in {"write", "set"} => primask /\ pc["irq"] = "idle"

\* A message is unread only until CMD_COMPLETE is cleared, or it is just being
\* shown; who is about to write found the previous one read.
OutboxInv ==
  /\ unread => COMPLETE \in host_int \/ pc["main"] = "set" \/ pc["irq"] = "set"
  /\ \A c \in Ctx : pc[c] = "write" => COMPLETE \notin host_int /\ ~unread
  /\ \A c \in Ctx : pc[c] = "set" => COMPLETE \notin host_int /\ out = msg[c]
  /\ pc["irq"] = "full" => host_int \subseteq hint["irq"]

\* Before the AP is started nothing came in and nothing went out.
OffInv ==
  ~ap_on /\ pc["main"] # "reset" =>
    /\ ~occupied /\ ~sp_int /\ pc["irq"] = "idle"
    /\ ~unread /\ host_int = {} /\ cmd_queue_fill = 0
    /\ pc["main"] \in {"start_read", "start_set"} => out = StartMsg

\* Only the console starts an AP that runs.
StartInv ==
  /\ OffInv
  /\ pc["main"] \in {"start_ap", "start_read", "start_set"} => ~ap_on \/ DEBUG_UART

\* CommandHasInterrupt, with the state between the two clearing writes.
InterruptInv ==
  /\ CommandHasInterrupt
  /\ pc["irq"] = "clear2" => occupied /\ ~sp_int

\* The inductive invariant: the properties to prove, and what main(), the
\* handler and the AP rely on when they take turns.
IInv ==
  /\ TypeOK /\ QueueFifo /\ NoNullHandlerCall
  /\ MaskInv /\ OutboxInv /\ StartInv /\ InterruptInv

-----------------------------------------------------------------------------
(***************************************************************************)
(* Arithmetic of the ring indices: (first + k) % n wraps at most once.     *)
(***************************************************************************)
\* Below 2n, the remainder is the number itself or n less.
LEMMA ModSmall ==
  ASSUME NEW n \in Nat \ {0}, NEW x \in 0..2*n-1
  PROVE  x % n = IF x < n THEN x ELSE x - n
<1>1. CASE x < n
  BY <1>1, SMT
<1>2. CASE x >= n
  BY <1>2, SMT
<1>3. QED BY <1>1, <1>2

\* A slot is an index of the ring.
LEMMA SlotRange ==
  ASSUME NEW n \in Nat \ {0}, NEW f \in 0..n-1, NEW k \in 0..n
  PROVE  (f + k) % n \in 0..n-1
<1>1. f + k \in 0..2*n-1
  OBVIOUS
<1>2. QED BY <1>1, ModSmall

\* Different offsets below n never meet in the same slot.
LEMMA SlotDistinct ==
  ASSUME NEW n \in Nat \ {0}, NEW f \in 0..n-1,
         NEW j \in 0..n-1, NEW k \in 0..n-1, j # k
  PROVE  (f + j) % n # (f + k) % n
<1>1. f + j \in 0..2*n-1 /\ f + k \in 0..2*n-1
  OBVIOUS
<1>2. QED BY <1>1, ModSmall

\* After first has moved on, offset k is where offset k + 1 was.
LEMMA SlotShift ==
  ASSUME NEW n \in Nat \ {0}, NEW f \in 0..n-1, NEW k \in 0..n-1, k + 1 < n
  PROVE  (((f + 1) % n) + k) % n = (f + (k + 1)) % n
<1>1. CASE f + 1 < n
  <2>1. (f + 1) % n = f + 1
    <3>1. f + 1 \in 0..2*n-1
      OBVIOUS
    <3> QED BY <3>1, <1>1, ModSmall
  <2>2. (f + 1) + k = f + (k + 1)
    OBVIOUS
  <2> QED BY <2>1, <2>2
<1>2. CASE f + 1 = n
  <2>1. (f + 1) % n = 0
    <3>1. n \in 0..2*n-1 /\ n - n = 0 /\ ~(n < n)
      OBVIOUS
    <3>2. n % n = n - n
      BY <3>1, ModSmall
    <3> QED BY <3>1, <3>2, <1>2
  <2>2. k % n = k
    <3>1. k \in 0..2*n-1 /\ k < n
      OBVIOUS
    <3> QED BY <3>1, ModSmall
  <2>3. (f + (k + 1)) % n = k
    <3>1. n + k \in 0..2*n-1 /\ ~(n + k < n) /\ (n + k) - n = k
      OBVIOUS
    <3>2. (n + k) % n = (n + k) - n
      BY <3>1, ModSmall
    <3>3. f + (k + 1) = n + k
      BY <1>2
    <3> QED BY <3>1, <3>2, <3>3
  <2>4. 0 + k = k
    OBVIOUS
  <2> QED BY <2>1, <2>2, <2>3, <2>4
<1>3. f + 1 < n \/ f + 1 = n
  OBVIOUS
<1>4. QED BY <1>1, <1>2, <1>3

-----------------------------------------------------------------------------
(***************************************************************************)
(* Frames: which actions touch which part of the state.                    *)
(***************************************************************************)
\* The input registers change only when the AP writes or the handler clears.
LEMMA RegsFrame ==
  [Next]_vars => \/ IrqClearCause \/ IrqClearOccupied
                 \/ \E cmd \in ApCmds : ApSend(cmd)
                 \/ UNCHANGED regs
BY DEF Next, Main, IrqBody, vars, mbox_init, Register, mbox_register_cmd, EnableIrq,
       start_ap_at, StartWrite, StartRead, StartSet, LoopTop, LoopCheck, LoopUnmask, mox_wdt_workaround, reset_soc,
       ProcessTest, HandleFirst, mbox_send, SendTest, SendWrite, SendSet,
       PopFirst, LoopRest, WakeByMbox, WakeByTick, ResetWait, IrqEnter,
       IrqFull, IrqFullSet, IrqEnqueue, IrqReject, ApRead, ApAckFull

\* The ring changes only when a request enters or leaves it.
LEMMA RingFrame ==
  [Next]_vars => PopFirst \/ IrqEnqueue \/ UNCHANGED ring
BY DEF Next, Main, IrqBody, vars, mbox_init, Register, mbox_register_cmd, EnableIrq,
       start_ap_at, StartWrite, StartRead, StartSet, LoopTop, LoopCheck, LoopUnmask, mox_wdt_workaround, reset_soc,
       ProcessTest, HandleFirst, mbox_send, SendTest, SendWrite, SendSet,
       LoopRest, WakeByMbox, WakeByTick, ResetWait, IrqEnter, IrqFull,
       IrqFullSet, IrqReject, IrqClearCause, IrqClearOccupied, ApSend, ApRead,
       ApAckFull

\* The actions that touch HOST_INT_SET, the output registers or a message.
LEMMA SendFrame ==
  [Next]_vars => \/ start_ap_at \/ HandleFirst \/ IrqFull \/ IrqFullSet \/ IrqReject
                 \/ ApRead \/ ApAckFull
                 \/ \E c \in Ctx : SendWrite(c) \/ SendSet(c)
                 \/ UNCHANGED send
BY DEF Next, Main, IrqBody, Ctx, vars, mbox_init, Register, mbox_register_cmd, EnableIrq,
       LoopTop, LoopCheck, LoopUnmask, mox_wdt_workaround, reset_soc,
       ProcessTest, mbox_send, SendTest, PopFirst, LoopRest, WakeByMbox,
       WakeByTick, ResetWait, IrqEnter, IrqEnqueue, IrqClearCause,
       IrqClearOccupied, ApSend

\* The actions that touch the AP's own state.
LEMMA ApFrame ==
  [Next]_vars => \/ start_ap_at \/ mox_wdt_workaround \/ HandleFirst \/ ApRead
                 \/ \E cmd \in ApCmds : ApSend(cmd)
                 \/ UNCHANGED apst
BY DEF Next, Main, IrqBody, vars, mbox_init, Register, mbox_register_cmd, EnableIrq,
       LoopTop, LoopCheck, LoopUnmask, ProcessTest, mbox_send, SendTest,
       SendWrite, SendSet, PopFirst, LoopRest, WakeByMbox, WakeByTick,
       ResetWait, IrqEnter, IrqFull, IrqFullSet, IrqEnqueue, IrqReject,
       IrqClearCause, IrqClearOccupied, ApAckFull

-----------------------------------------------------------------------------
(***************************************************************************)
(* Type correctness.                                                       *)
(***************************************************************************)
\* The commands of the table are numbers.
LEMMA TableIsNat ==
  ASSUME NEW i \in 1..Len(CmdTable)
  PROVE  CmdTable[i] \in Nat
BY CmdTableAssumption

\* What handlers, rejections and the start of the AP send are messages.
LEMMA MsgsTyped ==
  ASSUME NEW req \in Requests
  PROVE  /\ HandlerMsgs(req) \subseteq Messages
         /\ RejectMsg(req) \in Messages
<1>1. Masked(req.cmd) \in Nat
  BY DEF Requests, Masked
<1>2. HandlerMsgs(req) \subseteq Messages
  BY DEF HandlerMsgs, Requests, Messages, Errs
<1>3. RejectMsg(req) \in Messages
  BY <1>1 DEF RejectMsg, Requests, Messages, Errs
<1>4. QED BY <1>2, <1>3

\* Labels stay labels; one step per action that moves a program counter.
LEMMA PcTypeStep ==
  TypeOK /\ [Next]_vars => PcTypeOK'
<1> SUFFICES ASSUME TypeOK, [Next]_vars PROVE PcTypeOK'
  OBVIOUS
<1> USE DEF TypeOK, PcTypeOK, At, Goto, Ctx, MainLabels, IrqLabels
<1>1. CASE mbox_init \/ LoopTop \/ LoopCheck \/ LoopUnmask \/ ProcessTest
           \/ LoopRest \/ PopFirst
  BY <1>1 DEF mbox_init, LoopTop, LoopCheck, LoopUnmask, ProcessTest, LoopRest,
              PopFirst, disable_irq, enable_irq
<1>2. CASE Register
  <2>1. PICK i \in NextToRegister : mbox_register_cmd(CmdTable[i])
    BY <1>2 DEF Register
  <2>2. CmdTable[i] \in Nat
    BY <2>1, TableIsNat DEF NextToRegister, Registrable
  <2>3. QED BY <2>1, <2>2 DEF mbox_register_cmd
<1>3. CASE EnableIrq \/ start_ap_at
  BY <1>3 DEF EnableIrq, start_ap_at, StartWrite, StartRead, StartSet, enable_irq
<1>4. CASE mox_wdt_workaround \/ HandleFirst
  BY <1>4 DEF mox_wdt_workaround, HandleFirst, reset_soc
<1>5. ASSUME NEW c \in Ctx, mbox_send(c) PROVE PcTypeOK'
  <2>1. CASE SendTest(c)
    BY <1>5, <2>1 DEF SendTest, disable_irq
  <2>2. CASE SendWrite(c)
    BY <1>5, <2>2 DEF SendWrite
  <2>3. CASE SendSet(c)
    BY <1>5, <2>3 DEF SendSet, enable_irq
  <2>4. QED BY <1>5, <2>1, <2>2, <2>3 DEF mbox_send
<1>6. CASE WakeByMbox \/ WakeByTick \/ ResetWait \/ UNCHANGED vars
  BY <1>6 DEF WakeByMbox, WakeByTick, ResetWait, vars
<1>7. CASE IrqEnter \/ IrqBody
  <2>1. CASE IrqEnter \/ IrqFullSet
    BY <2>1 DEF IrqEnter, IrqFullSet
  <2>2. CASE IrqFull
    BY <2>2 DEF IrqFull
  <2>3. CASE IrqReject
    BY <2>3 DEF IrqReject
  <2>4. CASE IrqEnqueue
    BY <2>4 DEF IrqEnqueue
  <2>5. CASE IrqClearCause
    BY <2>5 DEF IrqClearCause
  <2>6. CASE IrqClearOccupied
    BY <2>6 DEF IrqClearOccupied
  <2>7. QED
    BY <1>5, <1>7, <2>1, <2>2, <2>3, <2>4, <2>5, <2>6 DEF IrqBody, Ctx
<1>8. CASE ApRead \/ ApAckFull \/ \E cmd \in ApCmds : ApSend(cmd)
  BY <1>8 DEF ApRead, ApAckFull, ApSend
<1>9. QED
  BY <1>1, <1>2, <1>3, <1>4, <1>5, <1>6, <1>7, <1>8 DEF Next, Main, IrqBody

\* The input registers keep their type.
LEMMA RegsTypeStep ==
  TypeOK /\ [Next]_vars => RegsTypeOK'
<1> SUFFICES ASSUME TypeOK, [Next]_vars PROVE RegsTypeOK'
  OBVIOUS
<1> USE DEF TypeOK, RegsTypeOK
<1>1. CASE IrqClearCause \/ IrqClearOccupied
  BY <1>1 DEF IrqClearCause, IrqClearOccupied
<1>2. ASSUME NEW cmd \in ApCmds, ApSend(cmd) PROVE RegsTypeOK'
  BY <1>2, ApCmdsAssumption DEF ApSend, ApTypeOK, Requests
<1>3. CASE UNCHANGED regs
  BY <1>3 DEF regs
<1>4. QED BY <1>1, <1>2, <1>3, RegsFrame

\* Indices stay in range: IrqEnqueue finds room, PopFirst finds a request.
LEMMA RingTypeStep ==
  IInv /\ [Next]_vars => RingTypeOK'
<1> SUFFICES ASSUME IInv, [Next]_vars PROVE RingTypeOK'
  OBVIOUS
<1> USE QueueSizeAssumption DEF IInv, TypeOK, RingTypeOK
<1>1. CASE PopFirst
  <2>1. cmd_queue_fill > 0
    BY <1>1 DEF QueueFifo, AnswerIsForFirst, PopFirst, At
  <2>2. cmd_queue_first' \in 0..CMD_QUEUE_SIZE-1
    BY <1>1, SlotRange DEF PopFirst
  <2>3. QED BY <1>1, <2>1, <2>2 DEF PopFirst
<1>2. CASE IrqEnqueue
  <2>1. [id |-> in_req.id, cmd |-> Masked(in_req.cmd)] \in Requests
    BY DEF RegsTypeOK, Requests, Masked
  <2>2. cmd_queue_fill' \in 0..CMD_QUEUE_SIZE
    BY <1>2 DEF IrqEnqueue, QueueFull
  <2>3. cmd_queue' \in [0..CMD_QUEUE_SIZE-1 -> Requests]
    BY <1>2, <2>1 DEF IrqEnqueue
  <2>4. accepted' \in Seq(Requests)
    BY <1>2, <2>1 DEF IrqEnqueue
  <2>5. QED BY <1>2, <2>2, <2>3, <2>4 DEF IrqEnqueue
<1>3. CASE UNCHANGED ring
  BY <1>3 DEF ring
<1>4. QED BY <1>1, <1>2, <1>3, RingFrame

\* Only CMD_COMPLETE and CMD_QUEUE_FULL_ACCESS are ever set.
LEMMA SendTypeStep ==
  TypeOK /\ [Next]_vars => SendTypeOK'
<1> SUFFICES ASSUME TypeOK, [Next]_vars PROVE SendTypeOK'
  OBVIOUS
<1> USE DEF TypeOK, SendTypeOK
<1>1. CASE start_ap_at
  <2>1. out.id \in Nat
    BY DEF Messages
  <2>2. CASE StartWrite
    <3>1. out' = StartMsg /\ lost' \subseteq Nat
          /\ UNCHANGED <<host_int, msg, hint>>
      BY <2>1, <2>2 DEF StartWrite
    <3>2. unread' \in BOOLEAN
      <4>1. (COMPLETE \in host_int) \in BOOLEAN
        OBVIOUS
      <4> QED BY <2>2, <4>1, Zenon DEF StartWrite
    <3> QED BY <3>1, <3>2 DEF StartMsg, Messages, Errs
  <2>3. CASE StartRead
    BY <2>3 DEF StartRead, Ctx
  <2>4. CASE StartSet
    BY <2>4 DEF StartSet, Ctx
  <2> QED BY <1>1, <2>2, <2>3, <2>4 DEF start_ap_at
<1>2. CASE HandleFirst
  <2>1. cmd_queue[cmd_queue_first] \in Requests
    BY DEF RingTypeOK
  <2>2. QED BY <1>2, <2>1, MsgsTyped DEF HandleFirst, reset_soc, send, Ctx
<1>3. CASE IrqFull \/ IrqFullSet
  BY <1>3 DEF IrqFull, IrqFullSet, Ctx
<1>4. CASE IrqReject
  BY <1>4, MsgsTyped DEF IrqReject, RegsTypeOK, Ctx
<1>5. CASE ApRead \/ ApAckFull
  BY <1>5 DEF ApRead, ApAckFull
<1>6. ASSUME NEW c \in Ctx, SendWrite(c) \/ SendSet(c) PROVE SendTypeOK'
  BY <1>6 DEF SendWrite, SendSet
<1>7. CASE UNCHANGED send
  BY <1>7 DEF send
<1>8. QED BY <1>1, <1>2, <1>3, <1>4, <1>5, <1>6, <1>7, SendFrame

\* The state of the AP keeps its type.
LEMMA ApTypeStep ==
  TypeOK /\ [Next]_vars => ApTypeOK'
<1> SUFFICES ASSUME TypeOK, [Next]_vars PROVE ApTypeOK'
  OBVIOUS
<1> USE DEF TypeOK, ApTypeOK
<1>1. CASE start_ap_at
  <2>1. CASE StartWrite
    <3>1. kicks' \in Nat
      BY <2>1 DEF StartWrite
    <3> QED BY <2>1, <3>1 DEF StartWrite
  <2>2. CASE StartRead \/ StartSet
    BY <2>2 DEF StartRead, StartSet, apst
  <2> QED BY <1>1, <2>1, <2>2 DEF start_ap_at
<1>2. CASE ApRead
  <2>1. out \in Messages
    BY DEF SendTypeOK
  <2>2. QED BY <1>2, <2>1 DEF ApRead
<1>3. CASE mox_wdt_workaround \/ HandleFirst
  BY <1>3 DEF mox_wdt_workaround, HandleFirst, reset_soc, apst
<1>4. ASSUME NEW cmd \in ApCmds, ApSend(cmd) PROVE ApTypeOK'
  BY <1>4 DEF ApSend
<1>5. CASE UNCHANGED apst
  BY <1>5 DEF apst
<1>6. QED BY <1>1, <1>2, <1>3, <1>4, <1>5, ApFrame

-----------------------------------------------------------------------------
(***************************************************************************)
(* The ring.                                                               *)
(***************************************************************************)
\* Popping: what offset k + 1 held is at offset k of the shorter queue.
\* Enqueueing: the new slot is none of those in use.
LEMMA RingStep ==
  IInv /\ [Next]_vars => RingHoldsPending'
<1> SUFFICES ASSUME IInv, [Next]_vars PROVE RingHoldsPending'
  OBVIOUS
<1> USE QueueSizeAssumption DEF IInv, TypeOK, RingTypeOK, QueueFifo
<1>1. CASE PopFirst
  <2>1. cmd_queue_fill > 0
    BY <1>1 DEF AnswerIsForFirst, PopFirst, At
  <2>2. Len(accepted') = answered' + cmd_queue_fill'
    BY <1>1, <2>1 DEF PopFirst, RingHoldsPending
  <2>3. ASSUME NEW k \in 0..CMD_QUEUE_SIZE-1, k < cmd_queue_fill'
        PROVE  cmd_queue'[Slot(k)'] = accepted'[answered' + k + 1]
    <3>1. k + 1 \in 0..CMD_QUEUE_SIZE-1 /\ k + 1 < cmd_queue_fill
      BY <1>1, <2>3 DEF PopFirst
    <3>2. Slot(k)' = Slot(k + 1)
      BY <1>1, <3>1, SlotShift DEF PopFirst, Slot
    <3>3. cmd_queue[Slot(k + 1)] = accepted[answered + (k + 1) + 1]
      BY <3>1 DEF RingHoldsPending
    <3>4. answered' + k + 1 = answered + (k + 1) + 1
      BY <1>1 DEF PopFirst
    <3>5. QED BY <1>1, <3>2, <3>3, <3>4 DEF PopFirst
  <2>4. QED BY <2>2, <2>3 DEF RingHoldsPending
<1>2. CASE IrqEnqueue
  <2> DEFINE req == [id |-> in_req.id, cmd |-> Masked(in_req.cmd)]
  <2>1. cmd_queue_fill \in 0..CMD_QUEUE_SIZE-1
    BY <1>2 DEF IrqEnqueue, QueueFull
  <2>2. /\ accepted' = Append(accepted, req)
        /\ cmd_queue' = [cmd_queue EXCEPT ![Slot(cmd_queue_fill)] = req]
        /\ answered' = answered
    BY <1>2 DEF IrqEnqueue
  <2>3. cmd_queue_first' = cmd_queue_first /\ cmd_queue_fill' = cmd_queue_fill + 1
    BY <1>2 DEF IrqEnqueue
  <2>4. req \in Requests
    BY DEF RegsTypeOK, Requests, Masked
  <2> HIDE DEF req
  <2>5. Len(accepted) = answered + cmd_queue_fill
    BY DEF RingHoldsPending
  <2>6. Len(accepted') = answered' + cmd_queue_fill'
    BY <2>3, <2>2, <2>4, <2>5
  <2>7. ASSUME NEW k \in 0..CMD_QUEUE_SIZE-1, k < cmd_queue_fill'
        PROVE  cmd_queue'[Slot(k)'] = accepted'[answered' + k + 1]
    <3>1. Slot(k)' = Slot(k) /\ Slot(k) \in 0..CMD_QUEUE_SIZE-1
      BY <2>3, SlotRange DEF Slot
    <3>2. CASE k = cmd_queue_fill
      BY <2>2, <2>4, <2>5, <3>1, <3>2
    <3>3. CASE k < cmd_queue_fill
      <4>1. Slot(k) # Slot(cmd_queue_fill)
        <5>1. k # cmd_queue_fill
          BY <3>3
        <5>2. QED BY <2>1, <5>1, SlotDistinct DEF Slot
      <4>2. cmd_queue[Slot(k)] = accepted[answered + k + 1]
        BY <3>3 DEF RingHoldsPending
      <4>3. answered + k + 1 \in 1..Len(accepted)
        BY <2>5, <3>3
      <4>4. accepted'[answered + k + 1] = accepted[answered + k + 1]
        BY <2>2, <2>4, <4>3
      <4>5. QED BY <2>2, <3>1, <4>1, <4>2, <4>4
    <3>4. k = cmd_queue_fill \/ k < cmd_queue_fill
      BY <2>3, <2>7
    <3>5. QED BY <3>2, <3>3, <3>4
  <2>8. QED BY <2>6, <2>7 DEF RingHoldsPending
<1>3. CASE UNCHANGED ring
  BY <1>3 DEF ring, RingHoldsPending, Slot
<1>4. QED BY <1>1, <1>2, <1>3, RingFrame

\* Requests only enter through HasHandler, and handlers are never removed.
LEMMA HandlersStep ==
  IInv /\ [Next]_vars => NoNullHandlerCall'
<1> SUFFICES ASSUME IInv, [Next]_vars PROVE NoNullHandlerCall'
  OBVIOUS
<1> USE QueueSizeAssumption DEF IInv, TypeOK, RingTypeOK
<1>1. CASE PopFirst
  <2>1. cmd_queue_fill > 0
    BY <1>1 DEF QueueFifo, AnswerIsForFirst, PopFirst, At
  <2>2. ASSUME NEW k \in 0..CMD_QUEUE_SIZE-1, k < cmd_queue_fill'
        PROVE  cmd_queue'[Slot(k)'].cmd \in cmd_handlers'
    <3>1. k + 1 \in 0..CMD_QUEUE_SIZE-1 /\ k + 1 < cmd_queue_fill
      BY <1>1, <2>2 DEF PopFirst
    <3>2. Slot(k)' = Slot(k + 1)
      BY <1>1, <3>1, SlotShift DEF PopFirst, Slot
    <3>3. QED BY <1>1, <3>1, <3>2 DEF PopFirst, NoNullHandlerCall
  <2>3. QED BY <2>2 DEF NoNullHandlerCall
<1>2. CASE IrqEnqueue
  <2> DEFINE req == [id |-> in_req.id, cmd |-> Masked(in_req.cmd)]
  <2>1. cmd_queue_first' = cmd_queue_first /\ cmd_queue_fill' = cmd_queue_fill + 1
    BY <1>2 DEF IrqEnqueue
  <2>2. /\ cmd_queue' = [cmd_queue EXCEPT ![Slot(cmd_queue_fill)] = req]
        /\ cmd_handlers' = cmd_handlers /\ req.cmd \in cmd_handlers
    BY <1>2 DEF IrqEnqueue, HasHandler
  <2> HIDE DEF req
  <2>3. ASSUME NEW k \in 0..CMD_QUEUE_SIZE-1, k < cmd_queue_fill'
        PROVE  cmd_queue'[Slot(k)'].cmd \in cmd_handlers'
    <3>1. Slot(k)' = Slot(k) /\ Slot(k) \in 0..CMD_QUEUE_SIZE-1
      BY <2>1, SlotRange DEF Slot
    <3>2. k = cmd_queue_fill \/ k < cmd_queue_fill
      BY <2>1, <2>3
    <3>3. CASE Slot(k) = Slot(cmd_queue_fill)
      BY <2>2, <3>1, <3>3
    <3>4. CASE Slot(k) # Slot(cmd_queue_fill)
      <4>1. k < cmd_queue_fill
        BY <3>2, <3>4
      <4>2. cmd_queue[Slot(k)].cmd \in cmd_handlers
        BY <4>1 DEF NoNullHandlerCall
      <4>3. QED BY <2>2, <3>1, <3>4, <4>2
    <3>5. QED BY <3>3, <3>4
  <2>4. QED BY <2>3 DEF NoNullHandlerCall
<1>3. CASE UNCHANGED ring
  <2>1. cmd_handlers \subseteq cmd_handlers'
    BY DEF Next, Main, IrqBody, vars, mbox_init, Register, mbox_register_cmd,
       EnableIrq, start_ap_at, StartWrite, StartRead, StartSet, LoopTop, LoopCheck, LoopUnmask, mox_wdt_workaround,
       reset_soc, ProcessTest, HandleFirst, mbox_send, SendTest, SendWrite,
       SendSet, PopFirst, LoopRest, WakeByMbox, WakeByTick, ResetWait, IrqEnter,
       IrqFull, IrqFullSet, IrqEnqueue, IrqReject, IrqClearCause,
       IrqClearOccupied, ApSend, ApRead, ApAckFull
  <2>2. QED BY <1>3, <2>1 DEF ring, NoNullHandlerCall, Slot
<1>4. QED BY <1>1, <1>2, <1>3, RingFrame

\* HandleFirst reads the oldest request's slot; nobody disturbs the answer
\* before PopFirst.
LEMMA AnswerStep ==
  IInv /\ [Next]_vars => AnswerIsForFirst'
<1> SUFFICES ASSUME IInv, [Next]_vars PROVE AnswerIsForFirst'
  OBVIOUS
<1> USE QueueSizeAssumption
        DEF IInv, TypeOK, PcTypeOK, RingTypeOK, QueueFifo, AnswerIsForFirst,
            At, Goto, Ctx
<1>1. CASE \/ mbox_init \/ Register \/ EnableIrq \/ start_ap_at \/ LoopTop
           \/ LoopCheck \/ LoopUnmask \/ mox_wdt_workaround \/ LoopRest
           \/ PopFirst \/ WakeByMbox \/ WakeByTick
  BY <1>1 DEF mbox_init, Register, mbox_register_cmd, EnableIrq, start_ap_at, StartWrite, StartRead, StartSet,
              LoopTop, LoopCheck, LoopUnmask, mox_wdt_workaround, reset_soc,
              LoopRest, PopFirst, WakeByMbox, WakeByTick
<1>2. CASE ProcessTest
  BY <1>2 DEF ProcessTest, ring
<1>3. CASE HandleFirst
  <2>1. Slot(0) = cmd_queue_first
    <3>1. /\ cmd_queue_first + 0 = cmd_queue_first
          /\ cmd_queue_first \in 0..2*CMD_QUEUE_SIZE-1
          /\ cmd_queue_first < CMD_QUEUE_SIZE
      OBVIOUS
    <3>2. cmd_queue_first % CMD_QUEUE_SIZE = cmd_queue_first
      BY <3>1, ModSmall
    <3>3. QED BY <3>1, <3>2 DEF Slot
  <2>2. cmd_queue_fill > 0 /\ UNCHANGED ring
    BY <1>3 DEF HandleFirst, reset_soc
  <2>3. cmd_queue[cmd_queue_first] = accepted[answered + 1]
    BY <2>1, <2>2 DEF RingHoldsPending
  <2>4. QED BY <1>3, <2>2, <2>3 DEF HandleFirst, reset_soc, ring, SendTypeOK
<1>4. CASE SendTest("main") \/ SendWrite("main") \/ SendSet("main")
  BY <1>4 DEF SendTest, SendWrite, SendSet, ring, send
<1>5. CASE IrqEnqueue
  <2>1. cmd_queue_fill > 0 => accepted'[answered + 1] = accepted[answered + 1]
    <3>1. Len(accepted) = answered + cmd_queue_fill
      BY DEF RingHoldsPending
    <3>2. [id |-> in_req.id, cmd |-> Masked(in_req.cmd)] \in Requests
      BY DEF RegsTypeOK, Requests, Masked
    <3>3. QED BY <1>5, <3>1, <3>2 DEF IrqEnqueue
  <2>2. /\ pc'["main"] = pc["main"] /\ msg' = msg /\ answered' = answered
        /\ cmd_queue_fill' = cmd_queue_fill + 1
    BY <1>5 DEF IrqEnqueue, send
  <2>3. QED BY <2>1, <2>2
<1>6. CASE IrqReject
  BY <1>6 DEF IrqReject, ring, SendTypeOK
<1>7. CASE \/ IrqEnter \/ IrqFull \/ IrqFullSet \/ SendTest("irq")
           \/ SendWrite("irq") \/ SendSet("irq") \/ IrqClearCause
           \/ IrqClearOccupied
  BY <1>7 DEF IrqEnter, IrqFull, IrqFullSet, SendTest, SendWrite, SendSet,
              IrqClearCause, IrqClearOccupied, ring, send
<1>8. CASE \/ ApRead \/ ApAckFull \/ (\E cmd \in ApCmds : ApSend(cmd))
           \/ ResetWait \/ UNCHANGED vars
  BY <1>8 DEF ApRead, ApAckFull, ApSend, ResetWait, vars, ring, send
<1>9. QED
  BY <1>1, <1>2, <1>3, <1>4, <1>5, <1>6, <1>7, <1>8
     DEF Next, Main, IrqBody, mbox_send

-----------------------------------------------------------------------------
(***************************************************************************)
(* Masking, the outbox, the start and the interrupt.                       *)
(***************************************************************************)
\* Once main has masked interrupts in mbox_send, the handler stays out.
LEMMA MaskStep ==
  IInv /\ [Next]_vars => MaskInv'
<1> SUFFICES ASSUME IInv, [Next]_vars PROVE MaskInv'
  OBVIOUS
<1> USE DEF IInv, TypeOK, PcTypeOK, MaskInv, At, Goto, Ctx
<1>1. CASE \/ mbox_init \/ Register \/ EnableIrq \/ start_ap_at \/ LoopTop
           \/ LoopCheck \/ LoopUnmask \/ mox_wdt_workaround \/ LoopRest
           \/ PopFirst \/ WakeByMbox \/ WakeByTick \/ ProcessTest \/ HandleFirst
  BY <1>1 DEF mbox_init, Register, mbox_register_cmd, EnableIrq, start_ap_at, StartWrite, StartRead, StartSet,
              LoopTop, LoopCheck, LoopUnmask, mox_wdt_workaround, reset_soc,
              LoopRest, PopFirst, WakeByMbox, WakeByTick, ProcessTest, HandleFirst
<1>2. CASE SendTest("main") \/ SendWrite("main") \/ SendSet("main")
  BY <1>2 DEF SendTest, SendWrite, SendSet, disable_irq
<1>3. CASE \/ IrqEnter \/ IrqFull \/ IrqFullSet \/ IrqEnqueue \/ IrqReject
           \/ SendTest("irq") \/ SendWrite("irq") \/ SendSet("irq")
           \/ IrqClearCause \/ IrqClearOccupied
  BY <1>3 DEF IrqEnter, IrqFull, IrqFullSet, IrqEnqueue, IrqReject, SendTest,
              SendWrite, SendSet, IrqClearCause, IrqClearOccupied
<1>4. CASE \/ ApRead \/ ApAckFull \/ (\E cmd \in ApCmds : ApSend(cmd))
           \/ ResetWait \/ UNCHANGED vars
  BY <1>4 DEF ApRead, ApAckFull, ApSend, ResetWait, vars
<1>5. QED
  BY <1>1, <1>2, <1>3, <1>4 DEF Next, Main, IrqBody, mbox_send

\* The AP sets OCCUPIED and the cause together; the handler clears both.
LEMMA InterruptStep ==
  IInv /\ [Next]_vars => InterruptInv'
<1> SUFFICES ASSUME IInv, [Next]_vars PROVE InterruptInv'
  OBVIOUS
<1> USE DEF IInv, TypeOK, PcTypeOK, InterruptInv, CommandHasInterrupt, At, Goto, Ctx
<1>1. CASE \/ mbox_init \/ Register \/ EnableIrq \/ start_ap_at \/ LoopTop
           \/ LoopCheck \/ LoopUnmask \/ mox_wdt_workaround \/ LoopRest
           \/ PopFirst \/ WakeByMbox \/ WakeByTick \/ ProcessTest \/ HandleFirst
  BY <1>1 DEF mbox_init, Register, mbox_register_cmd, EnableIrq, start_ap_at, StartWrite, StartRead, StartSet,
              LoopTop, LoopCheck, LoopUnmask, mox_wdt_workaround, reset_soc,
              LoopRest, PopFirst, WakeByMbox, WakeByTick, ProcessTest,
              HandleFirst, regs
<1>2. CASE SendTest("main") \/ SendWrite("main") \/ SendSet("main")
  BY <1>2 DEF SendTest, SendWrite, SendSet, regs
<1>3. CASE \/ IrqEnter \/ IrqFull \/ IrqFullSet \/ IrqEnqueue \/ IrqReject
           \/ SendTest("irq") \/ SendWrite("irq") \/ SendSet("irq")
  BY <1>3 DEF IrqEnter, IrqFull, IrqFullSet, IrqEnqueue, IrqReject, SendTest,
              SendWrite, SendSet, regs
<1>4. CASE IrqClearCause \/ IrqClearOccupied
  BY <1>4 DEF IrqClearCause, IrqClearOccupied
<1>5. CASE \E cmd \in ApCmds : ApSend(cmd)
  BY <1>5 DEF ApSend
<1>6. CASE ApRead \/ ApAckFull \/ ResetWait \/ UNCHANGED vars
  BY <1>6 DEF ApRead, ApAckFull, ResetWait, vars, regs
<1>7. QED
  BY <1>1, <1>2, <1>3, <1>4, <1>5, <1>6 DEF Next, Main, IrqBody, mbox_send

\* mbox_send finds CMD_COMPLETE clear and writes with interrupts masked, so
\* the other context cannot have put a message there in between.
LEMMA OutboxStep ==
  IInv /\ [Next]_vars => OutboxInv'
<1> SUFFICES ASSUME IInv, [Next]_vars PROVE OutboxInv'
  OBVIOUS
<1> USE DEF IInv, TypeOK, PcTypeOK, SendTypeOK, MaskInv, OutboxInv, At, Goto, Ctx
<1>1. CASE \/ mbox_init \/ Register \/ EnableIrq \/ LoopTop \/ LoopCheck
           \/ LoopUnmask \/ mox_wdt_workaround \/ LoopRest \/ PopFirst
           \/ WakeByMbox \/ WakeByTick \/ ProcessTest
  BY <1>1 DEF mbox_init, Register, mbox_register_cmd, EnableIrq, LoopTop,
              LoopCheck, LoopUnmask, mox_wdt_workaround, reset_soc, LoopRest,
              PopFirst, WakeByMbox, WakeByTick, ProcessTest, send
<1>2. CASE start_ap_at
  <2>1. CASE StartWrite
    <3>1. /\ pc["irq"] = "idle" /\ pc'["irq"] = "idle" /\ pc'["main"] = "start_read"
          /\ host_int' = host_int
      BY <2>1 DEF StartWrite
    <3>2. unread' => COMPLETE \in host_int
      BY <2>1, Zenon DEF StartWrite
    <3> QED BY <3>1, <3>2
  <2>2. CASE StartRead
    BY <2>2 DEF StartRead
  <2>3. CASE StartSet
    BY <2>3 DEF StartSet
  <2> QED BY <1>2, <2>1, <2>2, <2>3 DEF start_ap_at
<1>3. CASE HandleFirst
  BY <1>3 DEF HandleFirst, reset_soc, send
<1>4. ASSUME NEW c \in Ctx, SendTest(c) PROVE OutboxInv'
  BY <1>4 DEF SendTest, send
<1>5. ASSUME NEW c \in Ctx, SendWrite(c) PROVE OutboxInv'
  BY <1>5 DEF SendWrite
<1>6. ASSUME NEW c \in Ctx, SendSet(c) PROVE OutboxInv'
  BY <1>6 DEF SendSet
<1>7. CASE IrqEnter \/ IrqEnqueue \/ IrqClearCause \/ IrqClearOccupied
  BY <1>7 DEF IrqEnter, IrqEnqueue, IrqClearCause, IrqClearOccupied, send
<1>8. CASE IrqFull \/ IrqFullSet
  BY <1>8 DEF IrqFull, IrqFullSet, COMPLETE, FULL_ACCESS
<1>9. CASE IrqReject
  BY <1>9 DEF IrqReject
<1>10. CASE ApRead \/ ApAckFull
  <2>1. /\ host_int' \subseteq host_int /\ pc' = pc
        /\ UNCHANGED <<out, msg, hint>>
    BY <1>10 DEF ApRead, ApAckFull
  <2>2. unread' => unread /\ (COMPLETE \in host_int => COMPLETE \in host_int')
    BY <1>10 DEF ApRead, ApAckFull, COMPLETE, FULL_ACCESS
  <2>3. QED BY <2>1, <2>2
<1>11. CASE (\E cmd \in ApCmds : ApSend(cmd)) \/ ResetWait \/ UNCHANGED vars
  BY <1>11 DEF ApSend, ResetWait, vars, send
<1>12. QED
  BY <1>1, <1>2, <1>3, <1>4, <1>5, <1>6, <1>7, <1>8, <1>9, <1>10, <1>11
     DEF Next, Main, IrqBody, mbox_send

\* While the AP is off, nothing happens in the mailbox.
LEMMA StartStep ==
  IInv /\ [Next]_vars => StartInv'
<1> SUFFICES ASSUME IInv, [Next]_vars PROVE StartInv'
  OBVIOUS
<1> USE DEF IInv, TypeOK, PcTypeOK, StartInv, OffInv, At, Goto, Ctx
<1>1. CASE \/ mbox_init \/ Register \/ EnableIrq \/ LoopTop \/ LoopCheck
           \/ LoopUnmask \/ mox_wdt_workaround \/ LoopRest
           \/ WakeByMbox \/ WakeByTick \/ ProcessTest
  BY <1>1 DEF mbox_init, Register, mbox_register_cmd, EnableIrq, LoopTop,
              LoopCheck, LoopUnmask, mox_wdt_workaround, reset_soc, LoopRest,
              WakeByMbox, WakeByTick, ProcessTest, regs, ring, send, apst
<1>2. CASE start_ap_at
  <2>1. CASE StartWrite
    <3>1. /\ pc["irq"] = "idle" /\ pc'["irq"] = "idle" /\ pc'["main"] = "start_read"
          /\ pc["main"] \in {"start_ap", "debug"} /\ (pc["main"] = "debug" => DEBUG_UART)
          /\ UNCHANGED <<occupied, sp_int, host_int, cmd_queue_fill, ap_on>>
          /\ out' = StartMsg
      BY <2>1 DEF StartWrite, regs, ring
    <3>2. unread' => COMPLETE \in host_int
      BY <2>1, Zenon DEF StartWrite
    <3> QED BY <3>1, <3>2
  <2>2. CASE StartRead
    BY <2>2 DEF StartRead, regs, ring, apst
  <2>3. CASE StartSet
    BY <2>3 DEF StartSet
  <2> QED BY <1>2, <2>1, <2>2, <2>3 DEF start_ap_at
<1>3. CASE HandleFirst \/ PopFirst \/ mbox_send("main")
  <2>1. cmd_queue_fill > 0 /\ pc["main"] # "reset"
    BY <1>3 DEF HandleFirst, PopFirst, mbox_send, SendTest, SendWrite, SendSet,
                QueueFifo, AnswerIsForFirst
  <2>2. ap_on
    BY <2>1 DEF ApTypeOK
  <2>3. ap_on' \/ pc'["main"] = "reset"
    BY <1>3, <2>2 DEF HandleFirst, PopFirst, mbox_send, SendTest, SendWrite,
                      SendSet, reset_soc, apst
  <2>4. pc'["main"] \notin {"start_ap", "start_read", "start_set"}
    BY <1>3 DEF HandleFirst, PopFirst, mbox_send, SendTest, SendWrite, SendSet, reset_soc
  <2>5. QED BY <2>3, <2>4
<1>4. CASE IrqEnter
  BY <1>4 DEF IrqEnter, apst
<1>5. CASE IrqBody
  <2>1. pc["irq"] # "idle" /\ pc'["main"] = pc["main"] /\ ap_on' = ap_on
    BY <1>5 DEF IrqBody, IrqFull, IrqFullSet, IrqEnqueue, IrqReject, mbox_send,
                SendTest, SendWrite, SendSet, IrqClearCause, IrqClearOccupied, apst
  <2>2. QED BY <2>1
<1>6. CASE ApRead \/ ApAckFull \/ \E cmd \in ApCmds : ApSend(cmd)
  BY <1>6 DEF ApRead, ApAckFull, ApSend, apst
<1>7. CASE ResetWait \/ UNCHANGED vars
  BY <1>7 DEF ResetWait, vars, regs, ring, send, apst
<1>8. QED
  BY <1>1, <1>2, <1>3, <1>4, <1>5, <1>6, <1>7 DEF Next, Main

-----------------------------------------------------------------------------
(***************************************************************************)
(* The theorems.                                                           *)
(***************************************************************************)
\* The initial state satisfies the invariant.
LEMMA InitIInv == Init => IInv
<1> SUFFICES ASSUME Init PROVE IInv
  OBVIOUS
<1> USE QueueSizeAssumption, FlagsAssumption DEF Init, Ctx
<1>1. NoReq \in Requests /\ NoMsg \in Messages
  BY DEF NoReq, NoMsg, Requests, Messages, Errs
<1>2. PcTypeOK
  BY DEF PcTypeOK, MainLabels, IrqLabels
<1>3. RegsTypeOK /\ ApTypeOK
  <2>1. RegsTypeOK
    BY <1>1 DEF RegsTypeOK
  <2>2. got \in Seq(Messages) /\ issued \in Nat
    OBVIOUS
  <2>3. ap_on \in BOOLEAN
    BY Zenon
  <2>4. QED BY <2>1, <2>2, <2>3 DEF ApTypeOK
<1>4. RingTypeOK
  BY <1>1 DEF RingTypeOK
<1>5. SendTypeOK
  BY <1>1 DEF SendTypeOK
<1>6. RingHoldsPending /\ NoNullHandlerCall
  BY DEF RingHoldsPending, NoNullHandlerCall
<1>7. AnswerIsForFirst
  BY DEF AnswerIsForFirst
<1>8. MaskInv /\ OutboxInv /\ StartInv /\ InterruptInv
  BY DEF MaskInv, OutboxInv, StartInv, OffInv, InterruptInv, CommandHasInterrupt
<1>9. QED BY <1>2, <1>3, <1>4, <1>5, <1>6, <1>7, <1>8 DEF IInv, TypeOK, QueueFifo

\* IInv is an inductive invariant of the firmware and the AP together.
THEOREM Invariance == Spec => []IInv
<1>1. IInv /\ [Next]_vars => IInv'
  <2> SUFFICES ASSUME IInv, [Next]_vars PROVE IInv'
    OBVIOUS
  <2>1. TypeOK'
    BY PcTypeStep, RegsTypeStep, RingTypeStep, SendTypeStep, ApTypeStep
       DEF IInv, TypeOK
  <2>2. QueueFifo' /\ NoNullHandlerCall'
    BY RingStep, AnswerStep, HandlersStep DEF QueueFifo
  <2>3. MaskInv' /\ OutboxInv' /\ StartInv' /\ InterruptInv'
    BY MaskStep, OutboxStep, StartStep, InterruptStep
  <2>4. QED BY <2>1, <2>2, <2>3 DEF IInv
<1>2. QED BY <1>1, InitIInv, PTL DEF Spec

\* Every variable keeps its type, the ring indices included.
THEOREM TypeCorrect == Spec => []TypeOK
<1>1. IInv => TypeOK
  BY DEF IInv
<1>2. QED BY <1>1, Invariance, PTL

\* The ring is a FIFO of the accepted commands for every queue size, and the
\* answer being sent is the oldest one's (mbox.c:62-95, 116-128).
THEOREM QueueIsFifo == Spec => []QueueFifo
<1>1. IInv => QueueFifo
  BY DEF IInv
<1>2. QED BY <1>1, Invariance, PTL

\* mbox_process_commands never calls a handler that was not registered.
THEOREM HandlersRegistered == Spec => []NoNullHandlerCall
<1>1. IInv => NoNullHandlerCall
  BY DEF IInv
<1>2. QED BY <1>1, Invariance, PTL

\* A command in the input registers always has its interrupt, and the early
\* return of mbox_irq_handler is never taken (mbox.c:107, 135-138).
THEOREM InterruptMatchesCommand == Spec => []CommandHasInterrupt
<1>1. IInv => CommandHasInterrupt
  BY DEF IInv, InterruptInv
<1>2. QED BY <1>1, Invariance, PTL

\* Nothing but the start of the AP overwrites a message before the AP has read it
\* (mbox.c:166-201).
THEOREM NoMessageOverwritten == Spec => MsgWrittenOnlyWhenRead
<1>1. IInv /\ [Next]_vars => [unread => out' = out \/ StartWrite]_vars
  <2> SUFFICES ASSUME IInv, [Next]_vars, unread, ~StartWrite PROVE out' = out
    OBVIOUS
  <2>1. CASE start_ap_at
    BY <2>1 DEF start_ap_at, StartRead, StartSet
  <2>2. ASSUME NEW c \in Ctx, SendWrite(c) PROVE out' = out
    BY <2>2 DEF IInv, OutboxInv, SendWrite, At
  <2>3. ASSUME NEW c \in Ctx, SendSet(c) PROVE out' = out
    BY <2>3 DEF SendSet
  <2>4. CASE HandleFirst \/ IrqFull \/ IrqFullSet \/ IrqReject \/ ApRead \/ ApAckFull
    BY <2>4 DEF HandleFirst, reset_soc, send, IrqFull, IrqFullSet, IrqReject,
                ApRead, ApAckFull
  <2>5. CASE UNCHANGED send
    BY <2>5 DEF send
  <2>6. QED BY <2>1, <2>2, <2>3, <2>4, <2>5, SendFrame
<1>2. QED BY <1>1, Invariance, PTL DEF Spec, MsgWrittenOnlyWhenRead

-----------------------------------------------------------------------------
(***************************************************************************)
(* The order of the answers.                                               *)
(***************************************************************************)
\* The AP's calls are numbered, and taken in the order of the numbers.
IdInv ==
  /\ \A n \in 1..Len(accepted) : accepted[n].id <= issued
  /\ \A k, n \in 1..Len(accepted) : k < n => accepted[k].id < accepted[n].id
  /\ ~Taken => in_req.id = issued /\ \A n \in 1..Len(accepted) : accepted[n].id < in_req.id

\* What the AP is shown: messages of main(), of the handler, or the last one again.
ShownInv ==
  /\ COMPLETE \in host_int => out # NoMsg
  /\ \A j \in 1..Len(got) : got[j] # NoMsg
  /\ pc["irq"] \in {"test", "write", "set"} => msg["irq"] = RejectMsg(in_req)
  /\ pc["irq"] = "full" =>
       /\ QueueFull /\ overflow
       /\ COMPLETE \in hint["irq"] \ host_int => got # <<>> /\ out = got[Len(got)]
  /\ pc["main"] \in {"start_read", "start_set"} =>
       COMPLETE \in host_int \/ pc["irq"] = "set" \/ out = StartMsg
         \/ (got # <<>> /\ out = got[Len(got)])
  /\ pc["main"] \in {"start_read", "start_set"} => ~IsAnswer(out)
  /\ ~Taken => in_req.id # 0
  /\ cmd_handlers \subseteq {CmdTable[n] : n \in 1..Len(CmdTable)}

\* Of the answers that were sent, the last may wait for the AP to read it.
Waiting == COMPLETE \in host_int /\ IsAnswer(out)
Before(m, n) == IF overflow THEN m.id <= n.id ELSE m.id < n.id
OrderInv ==
  /\ \A j \in Answers : \E n \in 1..Sent : got[j] \in HandlerMsgs(accepted[n])
  /\ \A j, k \in Answers : j < k => Before(got[j], got[k])
  /\ Waiting => /\ \E n \in 1..Sent : out \in HandlerMsgs(accepted[n])
                /\ \A j \in Answers : Before(got[j], out)
  /\ \A n \in 1..Sent : \/ HasAnswer(accepted[n]) \/ accepted[n].id \in lost
                         \/ (Waiting /\ out.id = accepted[n].id)

\* A command that is not taken was just written, or was not taken before.
LEMMA TakenFrame ==
  ASSUME IInv, [Next]_vars, ~Taken'
  PROVE  \/ \E cmd \in ApCmds : ApSend(cmd)
         \/ ~Taken /\ UNCHANGED <<in_req, accepted, issued>>
<1> USE DEF IInv, TypeOK, PcTypeOK, At, Goto, Ctx, Taken
<1>1. CASE \/ mbox_init \/ Register \/ EnableIrq \/ start_ap_at \/ LoopTop
           \/ LoopCheck \/ LoopUnmask \/ mox_wdt_workaround \/ LoopRest
           \/ PopFirst \/ WakeByMbox \/ WakeByTick \/ ProcessTest \/ HandleFirst
  BY <1>1 DEF mbox_init, Register, mbox_register_cmd, EnableIrq, start_ap_at, StartWrite, StartRead, StartSet,
              LoopTop, LoopCheck, LoopUnmask, mox_wdt_workaround, reset_soc,
              LoopRest, PopFirst, WakeByMbox, WakeByTick, ProcessTest,
              HandleFirst, regs, ring, apst
<1>2. CASE SendTest("main") \/ SendWrite("main") \/ SendSet("main")
  BY <1>2 DEF SendTest, SendWrite, SendSet, regs, ring, apst
<1>3. CASE IrqEnter \/ IrqFull \/ IrqFullSet \/ IrqReject
           \/ SendTest("irq") \/ SendWrite("irq") \/ SendSet("irq")
  BY <1>3 DEF IrqEnter, IrqFull, IrqFullSet, IrqReject, SendTest,
              SendWrite, SendSet, regs, ring, apst
<1>4. CASE IrqEnqueue \/ IrqClearCause \/ IrqClearOccupied
  BY <1>4 DEF IrqEnqueue, IrqClearCause, IrqClearOccupied, regs, ring, apst
<1>5. CASE ApRead \/ ApAckFull \/ ResetWait \/ UNCHANGED vars
  BY <1>5 DEF ApRead, ApAckFull, ResetWait, vars, regs, ring, apst
<1>6. QED
  BY <1>1, <1>2, <1>3, <1>4, <1>5 DEF Next, Main, IrqBody, mbox_send

\* A command that is being handled is one that was not taken.
LEMMA EntryNotTaken ==
  ASSUME IInv, pc["irq"] \in {"entry", "full", "test", "write", "set"}
  PROVE  ~Taken
BY DEF IInv, InterruptInv, CommandHasInterrupt, Taken

\* Only the newest number can be accepted.
LEMMA IdStep == IInv /\ IdInv /\ [Next]_vars => IdInv'
<1> SUFFICES ASSUME IInv, IdInv, [Next]_vars PROVE IdInv'
  OBVIOUS
<1>0. issued \in Nat /\ accepted \in Seq(Requests) /\ in_req \in Requests
  BY DEF IInv, TypeOK, ApTypeOK, RingTypeOK, RegsTypeOK
<1>a. \A n \in 1..Len(accepted) : accepted[n].id \in Nat
  <2>1. \A n \in 1..Len(accepted) : accepted[n] \in Requests
    BY <1>0
  <2> QED BY <2>1 DEF Requests
<1>1. issued' = issued \/ \E cmd \in ApCmds : ApSend(cmd)
  BY ApFrame DEF start_ap_at, StartWrite, StartRead, StartSet,
                 mox_wdt_workaround, HandleFirst, reset_soc, ApRead, apst
<1>2. CASE IrqEnqueue
  <2>1. ~Taken /\ Taken'
    BY <1>2, EntryNotTaken DEF IrqEnqueue, At, Goto, Taken, IInv, TypeOK, PcTypeOK, Ctx
  <2>2. /\ accepted' = Append(accepted, [id |-> in_req.id, cmd |-> Masked(in_req.cmd)])
        /\ issued' = issued
    BY <1>2 DEF IrqEnqueue, apst
  <2>3. [id |-> in_req.id, cmd |-> Masked(in_req.cmd)] \in Requests
    BY <1>0 DEF Requests, Masked
  <2>4. /\ Len(accepted') = Len(accepted) + 1
        /\ \A n \in 1..Len(accepted) : accepted'[n] = accepted[n]
        /\ accepted'[Len(accepted) + 1].id = in_req.id
    BY <1>0, <2>2, <2>3
  <2>5. in_req.id = issued /\ \A n \in 1..Len(accepted) : accepted[n].id < in_req.id
    BY <2>1 DEF IdInv
  <2>6. \A n \in 1..Len(accepted') : n \in 1..Len(accepted) \/ n = Len(accepted) + 1
    BY <1>0, <2>4
  <2>7. \A n \in 1..Len(accepted') : accepted'[n].id <= issued'
    BY <1>0, <1>a, <2>2, <2>4, <2>5, <2>6
  <2>8. ASSUME NEW k \in 1..Len(accepted'), NEW n \in 1..Len(accepted'), k < n
        PROVE  accepted'[k].id < accepted'[n].id
    <3>1. k \in 1..Len(accepted)
      BY <1>0, <2>4, <2>8
    <3>2. CASE n \in 1..Len(accepted)
      BY <2>4, <2>8, <3>1, <3>2 DEF IdInv
    <3>3. CASE n = Len(accepted) + 1
      BY <2>4, <2>5, <3>1, <3>3
    <3> QED BY <2>6, <3>2, <3>3
  <2> QED BY <2>1, <2>7, <2>8 DEF IdInv
<1>3. ASSUME NEW cmd \in ApCmds, ApSend(cmd) PROVE IdInv'
  <2>1. in_req'.id = issued + 1 /\ issued' = issued + 1 /\ accepted' = accepted
    BY <1>3 DEF ApSend, ring
  <2>2. \A n \in 1..Len(accepted) : accepted[n].id < issued + 1 /\ accepted[n].id <= issued + 1
    BY <1>0, <1>a DEF IdInv
  <2> QED BY <2>1, <2>2 DEF IdInv
<1>4. CASE ~IrqEnqueue /\ ~ \E cmd \in ApCmds : ApSend(cmd)
  <2>1. accepted' = accepted
    BY <1>4, RingFrame DEF PopFirst, ring
  <2>2. ~Taken' => ~Taken /\ in_req' = in_req
    BY <1>4, TakenFrame
  <2> QED BY <1>1, <1>4, <2>1, <2>2 DEF IdInv
<1> QED BY <1>2, <1>3, <1>4

\* Registered commands are those of the table.
LEMMA TableStep ==
  ASSUME cmd_handlers \subseteq {CmdTable[n] : n \in 1..Len(CmdTable)}, [Next]_vars
  PROVE  cmd_handlers' \subseteq {CmdTable[n] : n \in 1..Len(CmdTable)}
<1>1. Register => \E n \in 1..Len(CmdTable) : cmd_handlers' = cmd_handlers \cup {CmdTable[n]}
  BY DEF Register, mbox_register_cmd, NextToRegister, Registrable
<1>2. Register \/ cmd_handlers' = cmd_handlers
  BY DEF Next, Main, IrqBody, vars, mbox_init, EnableIrq,
       start_ap_at, StartWrite, StartRead, StartSet, LoopTop, LoopCheck, LoopUnmask, mox_wdt_workaround, reset_soc,
       ProcessTest, HandleFirst, mbox_send, SendTest, SendWrite, SendSet,
       PopFirst, LoopRest, WakeByMbox, WakeByTick, ResetWait, IrqEnter,
       IrqFull, IrqFullSet, IrqEnqueue, IrqReject, IrqClearCause,
       IrqClearOccupied, ApSend, ApRead, ApAckFull
<1> QED BY <1>1, <1>2

\* Only StartWrite leads to the labels behind it.
LEMMA StartLabels ==
  ASSUME IInv, [Next]_vars, pc'["main"] \in {"start_read", "start_set"}, ~StartWrite
  PROVE  pc["main"] \in {"start_read", "start_set"}
<1> USE DEF IInv, TypeOK, PcTypeOK, At, Goto, Ctx
<1>1. CASE StartRead \/ StartSet
  BY <1>1 DEF StartRead, StartSet
<1>2. CASE \/ mbox_init \/ Register \/ EnableIrq \/ LoopTop \/ LoopCheck
           \/ LoopUnmask \/ mox_wdt_workaround \/ LoopRest
           \/ PopFirst \/ WakeByMbox \/ WakeByTick \/ ProcessTest \/ HandleFirst
           \/ SendTest("main") \/ SendWrite("main") \/ SendSet("main")
  BY <1>2 DEF mbox_init, Register, mbox_register_cmd, EnableIrq,
              LoopTop, LoopCheck, LoopUnmask, mox_wdt_workaround, reset_soc,
              LoopRest, PopFirst, WakeByMbox, WakeByTick, ProcessTest,
              HandleFirst, SendTest, SendWrite, SendSet
<1>3. CASE IrqEnter \/ IrqFull \/ IrqFullSet \/ IrqReject \/ IrqEnqueue
           \/ SendTest("irq") \/ SendWrite("irq") \/ SendSet("irq")
           \/ IrqClearCause \/ IrqClearOccupied
  BY <1>3 DEF IrqEnter, IrqFull, IrqFullSet, IrqReject, SendTest, IrqEnqueue,
              SendWrite, SendSet, IrqClearCause, IrqClearOccupied
<1>4. CASE ApRead \/ ApAckFull \/ ResetWait \/ UNCHANGED vars
           \/ \E cmd \in ApCmds : ApSend(cmd)
  BY <1>4 DEF ApRead, ApAckFull, ResetWait, ApSend, vars
<1>5. QED
  BY <1>1, <1>2, <1>3, <1>4 DEF Next, Main, IrqBody, mbox_send, start_ap_at

\* What is shown is a message, and while the handler is between its read and
\* its write of HOST_INT_SET only the AP can change anything.
LEMMA ShownStep == IInv /\ ShownInv /\ [Next]_vars => ShownInv'
<1> SUFFICES ASSUME IInv, ShownInv, [Next]_vars PROVE ShownInv'
  OBVIOUS
<1>0. /\ pc \in [Ctx -> MainLabels \cup IrqLabels] /\ msg \in [Ctx -> Messages]
      /\ hint \in [Ctx -> SUBSET {COMPLETE, FULL_ACCESS}] /\ got \in Seq(Messages)
      /\ out \in Messages /\ issued \in Nat /\ Ctx = {"main", "irq"}
      /\ in_req \in Requests
  BY DEF IInv, TypeOK, PcTypeOK, SendTypeOK, ApTypeOK, RegsTypeOK, Ctx
<1>a. cmd_handlers' \subseteq {CmdTable[n] : n \in 1..Len(CmdTable)}
  BY TableStep DEF ShownInv
<1>b. ~Taken' => in_req'.id # 0
  <2>1. ASSUME NEW cmd \in ApCmds, ApSend(cmd) PROVE in_req'.id # 0
    BY <1>0, <2>1 DEF ApSend
  <2> QED BY <2>1, TakenFrame DEF ShownInv
<1>c. COMPLETE \in host_int' => out' # NoMsg
  <2>1. CASE start_ap_at
    <3>1. StartMsg # NoMsg
      BY DEF StartMsg, NoMsg
    <3>2. CASE StartWrite \/ StartRead
      BY <3>1, <3>2 DEF StartWrite, StartRead, ShownInv
    <3>3. CASE StartSet
      <4>1. /\ pc["main"] = "start_set" /\ pc["irq"] = "idle" /\ out' = out
        BY <3>3 DEF StartSet, At
      <4>2. \A j \in 1..Len(got) : got[j] # NoMsg
        BY DEF ShownInv
      <4>3. got # <<>> => Len(got) \in 1..Len(got)
        BY <1>0
      <4> QED BY <3>1, <4>1, <4>2, <4>3 DEF ShownInv
    <3> QED BY <2>1, <3>2, <3>3 DEF start_ap_at
  <2>2. ASSUME NEW c \in Ctx, SendWrite(c) PROVE COMPLETE \notin host_int'
    BY <2>2 DEF SendWrite, At, IInv, OutboxInv
  <2>3. CASE SendSet("main")
    <3>1. out' = msg["main"] /\ msg["main"] \in HandlerMsgs(accepted[answered + 1])
      BY <2>3 DEF SendSet, At, IInv, OutboxInv, QueueFifo, AnswerIsForFirst, Ctx
    <3>2. msg["main"].err # "NONE"
      BY <3>1 DEF HandlerMsgs
    <3> QED BY <3>1, <3>2 DEF NoMsg
  <2>4. CASE SendSet("irq")
    <3>1. out' = RejectMsg(in_req)
      BY <2>4 DEF SendSet, At, IInv, OutboxInv, ShownInv, Ctx
    <3>2. RejectMsg(in_req).err # "NONE"
      BY DEF RejectMsg
    <3> QED BY <3>1, <3>2 DEF NoMsg
  <2>5. CASE IrqFullSet
    <3>1. pc["irq"] = "full" /\ out' = out /\ host_int' = hint["irq"] \cup {FULL_ACCESS}
      BY <2>5 DEF IrqFullSet, At
    <3>2. COMPLETE # FULL_ACCESS
      BY DEF COMPLETE, FULL_ACCESS
    <3>3. CASE COMPLETE \in host_int
      BY <3>1, <3>3 DEF ShownInv
    <3>4. CASE COMPLETE \in hint["irq"] \ host_int
      <4>1. got # <<>> /\ out = got[Len(got)]
        BY <3>1, <3>4 DEF ShownInv
      <4>2. \A j \in 1..Len(got) : got[j] # NoMsg
        BY DEF ShownInv
      <4>3. Len(got) \in 1..Len(got)
        BY <1>0, <4>1
      <4> QED BY <3>1, <4>1, <4>2, <4>3
    <3> QED BY <3>1, <3>2, <3>3, <3>4
  <2>6. CASE HandleFirst \/ IrqFull \/ IrqReject \/ ApRead \/ ApAckFull \/ UNCHANGED send
    <3>1. out' = out /\ host_int' \subseteq host_int
      BY <2>6 DEF HandleFirst, reset_soc, IrqFull, IrqReject, ApRead, ApAckFull, send
    <3> QED BY <3>1 DEF ShownInv
  <2> QED BY <1>0, <2>1, <2>2, <2>3, <2>4, <2>5, <2>6, SendFrame
<1>d. \A j \in 1..Len(got') : got'[j] # NoMsg
  <2>1. CASE ApRead
    <3>1. got' = Append(got, out) /\ out # NoMsg
      BY <2>1 DEF ApRead, ShownInv
    <3> QED BY <1>0, <3>1 DEF ShownInv
  <2>2. CASE ~ApRead
    <3>1. got' = got
      BY <2>2, ApFrame DEF start_ap_at, StartWrite, StartRead, StartSet,
                           mox_wdt_workaround, HandleFirst, reset_soc, ApSend, apst
    <3> QED BY <3>1 DEF ShownInv
  <2> QED BY <2>1, <2>2
<1>e. pc'["irq"] \in {"test", "write", "set"} => msg'["irq"] = RejectMsg(in_req')
  <2>1. CASE IrqReject
    BY <1>0, <2>1 DEF IrqReject, regs
  <2>2. CASE ~IrqReject
    <3>1. pc'["irq"] \in {"test", "write", "set"} =>
            pc["irq"] \in {"test", "write", "set"} /\ msg'["irq"] = msg["irq"]
      BY <1>0, <2>2 DEF Next, Main, IrqBody, vars, mbox_init, EnableIrq, Register,
         mbox_register_cmd, start_ap_at, StartWrite, StartRead, StartSet, LoopTop, LoopCheck, LoopUnmask, mox_wdt_workaround,
         reset_soc, ProcessTest, HandleFirst, mbox_send, SendTest, SendWrite, SendSet,
         PopFirst, LoopRest, WakeByMbox, WakeByTick, ResetWait, IrqEnter,
         IrqFull, IrqFullSet, IrqEnqueue, IrqClearCause, At, Goto, send,
         IrqClearOccupied, ApSend, ApRead, ApAckFull
    <3>2. ASSUME pc["irq"] \in {"test", "write", "set"} PROVE in_req' = in_req
      <4>1. occupied
        BY <3>2, EntryNotTaken DEF Taken
      <4> QED BY <4>1, RegsFrame DEF IrqClearCause, IrqClearOccupied, ApSend, regs
    <3> QED BY <3>1, <3>2 DEF ShownInv
  <2> QED BY <2>1, <2>2
<1>f. ASSUME pc'["irq"] = "full"
      PROVE  /\ QueueFull' /\ overflow'
             /\ COMPLETE \in hint'["irq"] \ host_int' => got' # <<>> /\ out' = got'[Len(got')]
  <2>1. CASE IrqFull
    <3>1. hint'["irq"] = host_int /\ host_int' = host_int
      BY <1>0, <2>1 DEF IrqFull
    <3> QED BY <2>1, <3>1 DEF IrqFull, QueueFull, ring
  <2>2. CASE ApRead
    <3>1. pc["irq"] = "full" /\ got' = Append(got, out) /\ out' = out
      BY <1>f, <2>2 DEF ApRead
    <3>2. got' # <<>> /\ out' = got'[Len(got')]
      BY <1>0, <3>1
    <3>3. QueueFull' /\ overflow'
      BY <2>2, <3>1 DEF ApRead, ring, QueueFull, ShownInv
    <3> QED BY <3>2, <3>3
  <2>3. CASE ApAckFull \/ ResetWait \/ UNCHANGED vars \/ \E cmd \in ApCmds : ApSend(cmd)
    <3>1. /\ pc["irq"] = "full" /\ UNCHANGED <<hint, out, got, overflow>>
          /\ UNCHANGED <<cmd_queue_fill>>
          /\ COMPLETE \in host_int => COMPLETE \in host_int'
      BY <1>f, <2>3 DEF ApAckFull, ApSend, ResetWait, vars, apst, ring, send, COMPLETE, FULL_ACCESS
    <3> QED BY <3>1 DEF ShownInv, QueueFull
  <2>4. CASE Main \/ WakeByMbox \/ WakeByTick
    <3>1. pc["irq"] = "idle" /\ pc'["irq"] = "idle"
      BY <1>0, <1>f, <2>4 DEF Main, mbox_init, EnableIrq, Register,
         mbox_register_cmd, start_ap_at, StartWrite, StartRead, StartSet, LoopTop, LoopCheck, LoopUnmask, mox_wdt_workaround,
         reset_soc, ProcessTest, HandleFirst, mbox_send, SendTest, SendWrite, SendSet,
         PopFirst, LoopRest, WakeByMbox, WakeByTick, At, Goto
    <3> QED BY <1>f, <3>1
  <2>5. CASE IrqEnter \/ (IrqBody /\ ~IrqFull)
    <3>1. pc'["irq"] # "full"
      BY <1>0, <2>5 DEF IrqEnter, IrqBody, IrqFullSet, IrqEnqueue, IrqReject, mbox_send,
         SendTest, SendWrite, SendSet, IrqClearCause, IrqClearOccupied, At, Goto
    <3> QED BY <1>f, <3>1
  <2> QED BY <2>1, <2>2, <2>3, <2>4, <2>5 DEF Next
<1>g. ASSUME pc'["main"] \in {"start_read", "start_set"}, COMPLETE \notin host_int',
             pc'["irq"] # "set"
      PROVE  out' = StartMsg \/ (got' # <<>> /\ out' = got'[Len(got')])
  <2>1. CASE StartWrite
    BY <2>1 DEF StartWrite
  <2>2. CASE ApRead
    BY <1>0, <2>2 DEF ApRead
  <2>3. CASE StartSet
    BY <1>0, <1>g, <2>3 DEF StartSet, Goto
  <2>4. ASSUME NEW c \in Ctx, SendWrite(c) PROVE FALSE
    BY <1>0, <1>g, <2>4 DEF SendWrite, At, Goto
  <2>5. ASSUME NEW c \in Ctx, SendSet(c) PROVE FALSE
    BY <1>g, <2>5 DEF SendSet
  <2>6. CASE ~StartWrite /\ ~StartSet /\ ~ApRead /\ \A c \in Ctx : ~SendWrite(c) /\ ~SendSet(c)
    <3>1. UNCHANGED <<got, out>> /\ (COMPLETE \in host_int => COMPLETE \in host_int')
      <4>1. out' = out
        BY <2>6, SendFrame
           DEF start_ap_at, StartRead, HandleFirst, reset_soc, IrqFull, IrqFullSet, IrqReject,
               ApAckFull, send
      <4>2. got' = got
        BY <2>6, ApFrame
           DEF start_ap_at, StartRead, mox_wdt_workaround, HandleFirst, reset_soc, ApSend, apst
      <4>3. COMPLETE \in host_int => COMPLETE \in host_int'
        <5>1. CASE IrqFullSet
          BY <5>1 DEF IrqFullSet, At, IInv, OutboxInv
        <5>2. CASE ~IrqFullSet
          BY <2>6, <5>2, SendFrame
             DEF start_ap_at, StartRead, HandleFirst, reset_soc, IrqFull, IrqReject, ApAckFull,
                 send, COMPLETE, FULL_ACCESS
        <5> QED BY <5>1, <5>2
      <4> QED BY <4>1, <4>2, <4>3
    <3>2. pc["main"] \in {"start_read", "start_set"} /\ pc["irq"] # "set"
      <4>1. CASE IrqEnter \/ IrqBody
        BY <1>0, <1>g, <2>6, <4>1
           DEF IrqEnter, IrqBody, IrqFull, IrqFullSet, IrqEnqueue, IrqReject, mbox_send,
               SendTest, IrqClearCause, IrqClearOccupied, At, Goto
      <4>2. CASE Main \/ WakeByMbox \/ WakeByTick
        <5>1. pc["irq"] = "idle"
          BY <4>2 DEF Main, mbox_init, EnableIrq, Register, mbox_register_cmd, start_ap_at,
                      StartWrite, StartRead, StartSet, LoopTop, LoopCheck, LoopUnmask,
                      mox_wdt_workaround, ProcessTest, HandleFirst, mbox_send, SendTest,
                      SendWrite, SendSet, PopFirst, LoopRest, WakeByMbox, WakeByTick, At
        <5> QED BY <1>g, <2>6, <5>1, StartLabels
      <4>3. CASE ~(IrqEnter \/ IrqBody \/ Main \/ WakeByMbox \/ WakeByTick)
        BY <1>g, <4>3 DEF Next, ApRead, ApAckFull, ApSend, ResetWait, vars
      <4> QED BY <1>g, <2>6, <4>1, <4>2, <4>3, StartLabels
    <3>3. COMPLETE \notin host_int
      BY <1>g, <3>1
    <3> QED BY <3>1, <3>2, <3>3 DEF ShownInv
  <2> QED BY <2>1, <2>2, <2>3, <2>4, <2>5, <2>6
<1>h. pc'["main"] \in {"start_read", "start_set"} => ~IsAnswer(out')
  <2>1. CASE StartWrite
    BY <2>1 DEF StartWrite, StartMsg, IsAnswer
  <2>2. CASE SendWrite("main")
    BY <1>0, <2>2 DEF SendWrite, Goto
  <2>3. CASE SendWrite("irq")
    <3>1. out' = RejectMsg(in_req)
      BY <2>3 DEF SendWrite, At, ShownInv
    <3> QED BY <3>1 DEF RejectMsg, IsAnswer
  <2>4. CASE ~StartWrite /\ ~SendWrite("main") /\ ~SendWrite("irq")
    <3>1. out' = out
      BY <1>0, <2>4, SendFrame
         DEF start_ap_at, StartRead, StartSet, HandleFirst, reset_soc, IrqFull, IrqFullSet,
             IrqReject, ApRead, ApAckFull, SendSet, send
    <3> QED BY <2>4, <3>1, StartLabels DEF ShownInv, IsAnswer
  <2> QED BY <2>1, <2>2, <2>3, <2>4
<1> QED BY <1>a, <1>b, <1>c, <1>d, <1>e, <1>f, <1>g, <1>h DEF ShownInv

\* What a handler answers carries the number of the request, and is an answer.
LEMMA HandlerMsgIs ==
  ASSUME NEW req, NEW m \in HandlerMsgs(req)
  PROVE  m.id = req.id /\ IsAnswer(m)
BY DEF HandlerMsgs, IsAnswer

\* Types that the proofs about the order use; Sent counts requests of accepted.
LEMMA OrderTypes ==
  ASSUME IInv
  PROVE  /\ accepted \in Seq(Requests) /\ answered \in Nat /\ cmd_queue_fill \in Nat
         /\ \A n \in 1..Len(accepted) : accepted[n].id \in Nat
         /\ got \in Seq(Messages) /\ out \in Messages /\ out.id \in Nat
         /\ \A j \in Answers : got[j].id \in Nat
         /\ overflow \in BOOLEAN
         /\ Sent \in 0..Len(accepted)
<1>1. /\ accepted \in Seq(Requests) /\ answered \in Nat /\ cmd_queue_fill \in Nat
      /\ got \in Seq(Messages) /\ out \in Messages /\ overflow \in BOOLEAN
  BY QueueSizeAssumption DEF IInv, TypeOK, RingTypeOK, ApTypeOK, SendTypeOK, PcTypeOK
<1>2. \A n \in 1..Len(accepted) : accepted[n].id \in Nat
  <2>1. \A n \in 1..Len(accepted) : accepted[n] \in Requests
    BY <1>1
  <2> QED BY <2>1 DEF Requests
<1>3. \A j \in Answers : got[j].id \in Nat
  <2>1. \A j \in 1..Len(got) : got[j] \in Messages
    BY <1>1
  <2> QED BY <2>1 DEF Messages, Answers
<1>4. out.id \in Nat
  BY <1>1 DEF Messages
<1>5. Sent \in 0..Len(accepted)
  <2>1. /\ Len(accepted) = answered + cmd_queue_fill
        /\ pc["main"] = "pop" => cmd_queue_fill > 0
    BY DEF IInv, QueueFifo, RingHoldsPending, AnswerIsForFirst
  <2> QED BY <1>1, <2>1 DEF Sent
<1> QED BY <1>1, <1>2, <1>3, <1>4, <1>5

\* Steps that neither send nor deliver keep the order; a full queue only
\* weakens what is said about it.
LEMMA OrderFrame ==
  ASSUME IInv, OrderInv, got' = got, Sent' = Sent, overflow => overflow',
         overflow' \in BOOLEAN,
         \A n \in 1..Sent : accepted'[n] = accepted[n],
         Waiting' <=> Waiting, Waiting => out' = out, lost' = lost
  PROVE  OrderInv'
<1>1. Answers' = Answers
  BY DEF Answers
<1>2. \A n \in 1..Sent : HasAnswer(accepted[n]) => HasAnswer(accepted[n])'
  BY <1>1 DEF HasAnswer
<1>3. ASSUME NEW m, NEW n, m.id \in Nat, n.id \in Nat, Before(m, n)
      PROVE  IF overflow' THEN m.id <= n.id ELSE m.id < n.id
  BY <1>3 DEF Before
<1>4. \A j \in Answers' : \E n \in 1..Sent' : got'[j] \in HandlerMsgs(accepted'[n])
  BY <1>1 DEF OrderInv
<1>5. \A j, k \in Answers' : j < k => Before(got[j], got[k])'
  BY <1>1, <1>3, OrderTypes DEF OrderInv, Before
<1>6. Waiting' => /\ \E n \in 1..Sent' : out' \in HandlerMsgs(accepted'[n])
                  /\ \A j \in Answers' : Before(got[j], out)'
  BY <1>1, <1>3, OrderTypes DEF OrderInv, Before
<1>7. \A n \in 1..Sent' : \/ HasAnswer(accepted[n])' \/ accepted'[n].id \in lost'
                          \/ (Waiting' /\ out'.id = accepted'[n].id)
  BY <1>2 DEF OrderInv
<1> QED BY <1>4, <1>5, <1>6, <1>7 DEF OrderInv

\* A new answer is sent only when the earlier ones were delivered, and its
\* number is above theirs.
LEMMA OrderSend ==
  ASSUME IInv, IdInv, OrderInv, SendSet("main")
  PROVE  OrderInv'
<1>0. Ctx = {"main", "irq"} /\ pc["main"] = "set" /\ answered + 1 \in 1..Len(accepted)
  <2>1. pc["main"] = "set"
    BY DEF SendSet, At
  <2>2. Len(accepted) = answered + cmd_queue_fill /\ cmd_queue_fill > 0
    BY <2>1 DEF IInv, QueueFifo, RingHoldsPending, AnswerIsForFirst
  <2> QED BY <2>1, <2>2, OrderTypes DEF Ctx
<1>1. /\ pc'["main"] = "pop" /\ answered' = answered /\ accepted' = accepted
      /\ got' = got /\ out' = out /\ overflow' = overflow /\ COMPLETE \in host_int'
      /\ lost' = lost
  <2>1. pc'["main"] = "pop"
    BY <1>0 DEF SendSet, Goto, IInv, TypeOK, PcTypeOK
  <2> QED BY <2>1 DEF SendSet, ring, apst
<1>2. Sent = answered /\ Sent' = answered + 1
  BY <1>0, <1>1 DEF Sent
<1>3. ~Waiting
  BY <1>0 DEF IInv, OutboxInv, Waiting
<1>4. out \in HandlerMsgs(accepted[answered + 1])
  BY <1>0 DEF IInv, OutboxInv, QueueFifo, AnswerIsForFirst
<1>5. out.id = accepted[answered + 1].id /\ IsAnswer(out)
  BY <1>4, HandlerMsgIs
<1>6. Answers' = Answers /\ Waiting'
  BY <1>1, <1>5 DEF Answers, Waiting
<1>7. \A n \in 1..Sent : n \in 1..Sent'
  BY <1>2, OrderTypes
<1>8. \A j \in Answers' : \E n \in 1..Sent' : got'[j] \in HandlerMsgs(accepted'[n])
  BY <1>1, <1>6, <1>7 DEF OrderInv
<1>9. \A j, k \in Answers' : j < k => Before(got[j], got[k])'
  BY <1>1, <1>6 DEF OrderInv, Before
<1>10. ASSUME NEW j \in Answers PROVE got[j].id < out.id
  <2>1. PICK n \in 1..Sent : got[j] \in HandlerMsgs(accepted[n])
    BY DEF OrderInv
  <2>2. got[j].id = accepted[n].id
    BY <2>1, HandlerMsgIs
  <2>3. n \in 1..Len(accepted) /\ n < answered + 1
    BY <1>0, <1>2, OrderTypes
  <2>4. accepted[n].id < accepted[answered + 1].id
    BY <1>0, <2>3 DEF IdInv
  <2> QED BY <1>5, <2>2, <2>4
<1>11. \A j \in Answers' : Before(got[j], out)'
  BY <1>1, <1>6, <1>10, OrderTypes DEF Before
<1>12. \E n \in 1..Sent' : out' \in HandlerMsgs(accepted'[n])
  <2>1. answered + 1 \in 1..Sent'
    BY <1>2, OrderTypes
  <2> QED BY <1>1, <1>4, <2>1
<1>13. ASSUME NEW n \in 1..Sent'
       PROVE  \/ HasAnswer(accepted[n])' \/ accepted'[n].id \in lost'
              \/ (Waiting' /\ out'.id = accepted'[n].id)
  <2>1. CASE n = answered + 1
    BY <1>1, <1>5, <1>6, <2>1
  <2>2. CASE n \in 1..Sent
    <3>1. HasAnswer(accepted[n]) \/ accepted[n].id \in lost
      BY <1>3, <2>2 DEF OrderInv
    <3> QED BY <1>1, <1>6, <3>1 DEF HasAnswer
  <2>3. n = answered + 1 \/ n \in 1..Sent
    BY <1>2, OrderTypes
  <2> QED BY <2>1, <2>2, <2>3
<1> QED BY <1>8, <1>9, <1>11, <1>12, <1>13 DEF OrderInv

\* The AP reads what is waiting: it becomes the newest message received.
LEMMA OrderRead ==
  ASSUME IInv, OrderInv, ApRead
  PROVE  OrderInv'
<1>1. /\ got' = Append(got, out) /\ UNCHANGED <<out, accepted, answered, lost, overflow>>
      /\ COMPLETE \in host_int /\ COMPLETE \notin host_int' /\ pc' = pc
  BY DEF ApRead, ring
<1>2. /\ Len(got') = Len(got) + 1 /\ got'[Len(got) + 1] = out /\ Len(got) \in Nat
      /\ \A j \in 1..Len(got) : got'[j] = got[j]
  BY <1>1, OrderTypes
<1>3. Sent' = Sent /\ ~Waiting'
  BY <1>1 DEF Sent, Waiting
<1>4. Waiting <=> IsAnswer(out)
  BY <1>1 DEF Waiting
<1>5. \A j \in Answers' : (j \in Answers /\ got'[j] = got[j])
                          \/ (Waiting /\ j = Len(got) + 1 /\ got'[j] = out)
  <2> SUFFICES ASSUME NEW j \in Answers'
               PROVE  (j \in Answers /\ got'[j] = got[j])
                      \/ (Waiting /\ j = Len(got) + 1 /\ got'[j] = out)
    OBVIOUS
  <2>1. j \in 1..Len(got) + 1 /\ IsAnswer(got'[j])
    BY <1>2 DEF Answers
  <2>2. j \in 1..Len(got) \/ j = Len(got) + 1
    BY <1>2, <2>1
  <2> QED BY <1>2, <1>4, <2>1, <2>2 DEF Answers
<1>6. \A j \in Answers : j \in Answers' /\ got'[j] = got[j]
  <2> SUFFICES ASSUME NEW j \in Answers PROVE j \in Answers' /\ got'[j] = got[j]
    OBVIOUS
  <2>1. j \in 1..Len(got) /\ IsAnswer(got[j])
    BY DEF Answers
  <2>2. j \in 1..Len(got') /\ got'[j] = got[j]
    BY <1>2, <2>1
  <2> QED BY <2>1, <2>2 DEF Answers
<1>7. \A j \in Answers' : \E n \in 1..Sent' : got'[j] \in HandlerMsgs(accepted'[n])
  BY <1>1, <1>3, <1>5 DEF OrderInv
<1>8. ASSUME NEW j \in Answers', NEW k \in Answers', j < k PROVE Before(got[j], got[k])'
  <2>1. j \in Answers /\ got'[j] = got[j]
    <3>1. CASE j = Len(got) + 1
      <4>1. k \in 1..Len(got) + 1
        BY <1>2 DEF Answers
      <4> QED BY <1>2, <1>8, <3>1, <4>1
    <3> QED BY <1>5, <3>1
  <2>2. Before(got[j], got'[k])
    BY <1>5, <1>8, <2>1 DEF OrderInv
  <2> QED BY <1>1, <2>1, <2>2 DEF Before
<1>9. ASSUME NEW n \in 1..Sent' PROVE HasAnswer(accepted[n])' \/ accepted'[n].id \in lost'
  <2>1. CASE HasAnswer(accepted[n])
    BY <1>1, <1>6, <2>1 DEF HasAnswer
  <2>2. CASE Waiting /\ out.id = accepted[n].id
    <3>1. Len(got) + 1 \in Answers'
      <4>1. Len(got) + 1 \in 1..Len(got')
        BY <1>2
      <4> QED BY <1>2, <1>4, <2>2, <4>1 DEF Answers
    <3> QED BY <1>1, <1>2, <2>2, <3>1 DEF HasAnswer
  <2> QED BY <1>1, <1>3, <2>1, <2>2 DEF OrderInv
<1> QED BY <1>3, <1>7, <1>8, <1>9 DEF OrderInv

\* Setting CMD_QUEUE_FULL_ACCESS from a stale HOST_INT_SET shows the message
\* received last once more.
LEMMA OrderShowAgain ==
  ASSUME IInv, ShownInv, OrderInv, IrqFullSet
  PROVE  OrderInv'
<1>1. /\ pc["irq"] = "full" /\ UNCHANGED <<out, accepted, answered, got, lost, overflow>>
      /\ host_int' = hint["irq"] \cup {FULL_ACCESS} /\ pc'["main"] = pc["main"]
  BY DEF IrqFullSet, At, Goto, ring, apst, IInv, TypeOK, PcTypeOK, Ctx
<1>2. Sent' = Sent /\ overflow /\ host_int \subseteq hint["irq"] /\ COMPLETE # FULL_ACCESS
  BY <1>1 DEF Sent, ShownInv, IInv, OutboxInv, COMPLETE, FULL_ACCESS
<1>3. CASE COMPLETE \in hint["irq"] \ host_int /\ IsAnswer(out)
  <2>1. got # <<>> /\ out = got[Len(got)]
    BY <1>1, <1>3 DEF ShownInv
  <2>2. Len(got) \in 1..Len(got)
    BY <2>1, OrderTypes
  <2>3. Len(got) \in Answers /\ Answers' = Answers
    BY <1>1, <1>3, <2>1, <2>2 DEF Answers
  <2>4. \A j \in Answers : Before(got[j], out)
    <3> SUFFICES ASSUME NEW j \in Answers PROVE Before(got[j], out)
      OBVIOUS
    <3>1. j \in 1..Len(got)
      BY DEF Answers
    <3>2. j < Len(got) \/ j = Len(got)
      BY <2>2, <3>1
    <3>3. CASE j = Len(got)
      BY <1>2, <2>1, <3>3, OrderTypes DEF Before
    <3> QED BY <2>1, <2>3, <3>2, <3>3 DEF OrderInv
  <2>5. \E n \in 1..Sent : out \in HandlerMsgs(accepted[n])
    BY <2>1, <2>3 DEF OrderInv
  <2>6. \A n \in 1..Sent : HasAnswer(accepted[n]) \/ accepted[n].id \in lost
    BY <1>3 DEF OrderInv, Waiting
  <2>7. \A n \in 1..Sent : HasAnswer(accepted[n])' \/ accepted[n].id \in lost
    BY <1>1, <2>3, <2>6 DEF HasAnswer
  <2>8. (\A j, k \in Answers : j < k => Before(got[j], got[k]))'
    BY <1>1, <2>3 DEF OrderInv, Before
  <2>9. (\A j \in Answers : Before(got[j], out))'
    BY <1>1, <2>3, <2>4 DEF Before
  <2> QED BY <1>1, <1>2, <2>3, <2>5, <2>7, <2>8, <2>9 DEF OrderInv
<1>4. CASE ~(COMPLETE \in hint["irq"] \ host_int /\ IsAnswer(out))
  <2>1. Waiting' <=> Waiting
    BY <1>1, <1>2, <1>4 DEF Waiting
  <2> QED BY <1>1, <1>2, <2>1, OrderFrame, OrderTypes
<1> QED BY <1>3, <1>4

\* A start message takes the place of an answer that waits, and loses it.
LEMMA OrderStart ==
  ASSUME IInv, OrderInv, StartWrite
  PROVE  OrderInv'
<1>1. /\ pc["main"] \in {"start_ap", "debug"} /\ pc'["main"] = "start_read"
      /\ out' = StartMsg /\ UNCHANGED <<got, overflow, accepted, answered, host_int>>
      /\ lost' = IF COMPLETE \in host_int THEN lost \cup {out.id} ELSE lost
  BY DEF StartWrite, At, Goto, ring, IInv, TypeOK, PcTypeOK, Ctx
<1>2. Sent' = Sent /\ ~Waiting' /\ Answers' = Answers
  BY <1>1 DEF Sent, Waiting, StartMsg, IsAnswer, Answers
<1>3. \A n \in 1..Sent' : HasAnswer(accepted[n])' \/ accepted'[n].id \in lost'
  <2> SUFFICES ASSUME NEW n \in 1..Sent
               PROVE  HasAnswer(accepted[n])' \/ accepted[n].id \in lost'
    BY <1>1, <1>2
  <2>1. HasAnswer(accepted[n])' <=> HasAnswer(accepted[n])
    BY <1>1, <1>2 DEF HasAnswer
  <2>2. lost \subseteq lost' /\ (Waiting => out.id \in lost')
    BY <1>1 DEF Waiting
  <2> QED BY <2>1, <2>2 DEF OrderInv
<1>4. \A j, k \in Answers' : j < k => Before(got[j], got[k])'
  BY <1>1, <1>2 DEF OrderInv, Before
<1>5. \A j \in Answers' : \E n \in 1..Sent' : got'[j] \in HandlerMsgs(accepted'[n])
  BY <1>1, <1>2 DEF OrderInv
<1> QED BY <1>2, <1>3, <1>4, <1>5 DEF OrderInv

\* Setting CMD_COMPLETE for a start shows the start message, or whatever the
\* handler put there and the AP has read: never an answer.
LEMMA OrderRestart ==
  ASSUME IInv, ShownInv, OrderInv, StartSet
  PROVE  OrderInv'
<1>1. /\ pc["main"] = "start_set" /\ pc["irq"] = "idle" /\ pc'["main"] = "top"
      /\ COMPLETE \in host_int'
      /\ UNCHANGED <<got, overflow, out, lost, accepted, answered>>
  BY DEF StartSet, At, Goto, ring, IInv, TypeOK, PcTypeOK, Ctx
<1>2. ~IsAnswer(out)
  BY <1>1 DEF ShownInv
<1>3. Sent' = Sent /\ ~Waiting /\ ~Waiting'
  BY <1>1, <1>2 DEF Sent, Waiting, IsAnswer
<1> QED BY <1>1, <1>3, OrderFrame, OrderTypes

\* Every other step neither sends nor delivers an answer.
LEMMA OrderStep == IInv /\ IdInv /\ ShownInv /\ OrderInv /\ [Next]_vars => OrderInv'
<1> SUFFICES ASSUME IInv, IdInv, ShownInv, OrderInv, [Next]_vars PROVE OrderInv'
  OBVIOUS
<1>0. pc \in [Ctx -> MainLabels \cup IrqLabels] /\ Ctx = {"main", "irq"}
  BY DEF IInv, TypeOK, PcTypeOK, Ctx
<1>1. CASE SendSet("main")
  BY <1>1, OrderSend
<1>2. CASE ApRead
  BY <1>2, OrderRead
<1>3. CASE IrqFullSet
  BY <1>3, OrderShowAgain
<1>4. CASE IrqEnqueue
  <2>1. /\ accepted' = Append(accepted, [id |-> in_req.id, cmd |-> Masked(in_req.cmd)])
        /\ UNCHANGED <<got, lost, overflow, host_int, out, answered>> /\ pc'["main"] = pc["main"]
    BY <1>0, <1>4 DEF IrqEnqueue, Goto, send, apst
  <2>2. \A n \in 1..Sent : accepted'[n] = accepted[n]
    <3>1. [id |-> in_req.id, cmd |-> Masked(in_req.cmd)] \in Requests
      BY DEF IInv, TypeOK, RegsTypeOK, Requests, Masked
    <3> QED BY <2>1, <3>1, OrderTypes
  <2>3. Sent' = Sent /\ (Waiting' <=> Waiting)
    BY <2>1 DEF Sent, Waiting
  <2> QED BY <2>1, <2>2, <2>3, OrderFrame, OrderTypes
<1>5. CASE PopFirst
  <2>1. /\ pc["main"] = "pop" /\ pc'["main"] = "process" /\ answered' = answered + 1
        /\ UNCHANGED <<got, lost, overflow, host_int, out, accepted>>
    BY <1>0, <1>5 DEF PopFirst, At, Goto, send, apst
  <2>2. Sent' = Sent /\ (Waiting' <=> Waiting)
    BY <2>1 DEF Sent, Waiting
  <2> QED BY <2>1, <2>2, OrderFrame, OrderTypes
<1>6. CASE SendSet("irq")
  <2>1. /\ pc["irq"] = "set" /\ pc'["main"] = pc["main"]
        /\ UNCHANGED <<got, lost, overflow, out, accepted, answered>>
    BY <1>0, <1>6 DEF SendSet, At, Goto, ring, apst
  <2>2. COMPLETE \notin host_int /\ out = RejectMsg(in_req)
    BY <1>0, <2>1 DEF IInv, OutboxInv, ShownInv
  <2>3. ~IsAnswer(out)
    BY <2>2 DEF RejectMsg, IsAnswer
  <2>4. Sent' = Sent /\ (Waiting' <=> Waiting)
    BY <2>1, <2>2, <2>3 DEF Sent, Waiting
  <2> QED BY <2>1, <2>4, OrderFrame, OrderTypes
<1>7. CASE start_ap_at
  <2>1. CASE StartWrite
    BY <2>1, OrderStart
  <2>2. CASE StartRead
    <3>1. /\ pc["main"] = "start_read" /\ pc'["main"] = "start_set"
          /\ UNCHANGED <<got, lost, overflow, out, host_int, accepted, answered>>
      BY <1>0, <2>2 DEF StartRead, At, Goto, ring, apst
    <3>2. Sent' = Sent /\ (Waiting' <=> Waiting)
      BY <3>1 DEF Sent, Waiting
    <3> QED BY <3>1, <3>2, OrderFrame, OrderTypes
  <2>3. CASE StartSet
    BY <2>3, OrderRestart
  <2> QED BY <1>7, <2>1, <2>2, <2>3 DEF start_ap_at
<1>8. ASSUME NEW c \in Ctx, SendWrite(c) PROVE OrderInv'
  <2>1. /\ pc[c] = "write" /\ UNCHANGED <<got, lost, overflow, accepted, answered, host_int>>
        /\ pc'["main"] = "pop" <=> pc["main"] = "pop"
    BY <1>0, <1>8 DEF SendWrite, At, Goto, ring, apst
  <2>2. COMPLETE \notin host_int
    BY <2>1 DEF IInv, OutboxInv
  <2>3. Sent' = Sent /\ ~Waiting /\ ~Waiting'
    BY <2>1, <2>2 DEF Sent, Waiting
  <2> QED BY <2>1, <2>3, OrderFrame, OrderTypes
<1>9. CASE \/ HandleFirst \/ IrqFull \/ IrqReject \/ ApAckFull \/ ResetWait \/ UNCHANGED vars
           \/ mbox_init \/ Register \/ EnableIrq \/ LoopTop \/ LoopCheck
           \/ LoopUnmask \/ mox_wdt_workaround \/ ProcessTest \/ LoopRest
           \/ SendTest("main") \/ SendTest("irq") \/ WakeByMbox \/ WakeByTick
           \/ IrqEnter \/ IrqClearCause \/ IrqClearOccupied
           \/ \E cmd \in ApCmds : ApSend(cmd)
  <2>1. /\ UNCHANGED <<got, out, lost, accepted, answered>> /\ (overflow => overflow')
        /\ overflow' \in BOOLEAN
    <3>1. UNCHANGED <<got, out, lost, accepted, answered>>
      BY <1>9 DEF HandleFirst, reset_soc, IrqFull, IrqReject, ApAckFull, ResetWait, vars,
         mbox_init, Register, mbox_register_cmd, EnableIrq, LoopTop, LoopCheck,
         LoopUnmask, mox_wdt_workaround, ProcessTest, LoopRest, SendTest,
         WakeByMbox, WakeByTick, IrqEnter, IrqClearCause, IrqClearOccupied,
         ApSend, send, ring, apst
    <3>2. overflow' = overflow \/ overflow' = TRUE
      BY <1>9 DEF HandleFirst, reset_soc, IrqFull, IrqReject, ApAckFull, ResetWait, vars,
         mbox_init, Register, mbox_register_cmd, EnableIrq, LoopTop, LoopCheck,
         LoopUnmask, mox_wdt_workaround, ProcessTest, LoopRest, SendTest,
         WakeByMbox, WakeByTick, IrqEnter, IrqClearCause, IrqClearOccupied, ApSend
    <3>3. overflow \in BOOLEAN
      BY OrderTypes
    <3>4. overflow' \in BOOLEAN
      BY <3>2, <3>3, Zenon
    <3>5. overflow => overflow'
      BY <3>2, Zenon
    <3> QED BY <3>1, <3>4, <3>5
  <2>2. COMPLETE \in host_int' <=> COMPLETE \in host_int
    BY <1>9 DEF HandleFirst, reset_soc, IrqFull, IrqReject, ApAckFull, ResetWait, vars,
       mbox_init, Register, mbox_register_cmd, EnableIrq, LoopTop, LoopCheck,
       LoopUnmask, mox_wdt_workaround, ProcessTest, LoopRest, SendTest,
       WakeByMbox, WakeByTick, IrqEnter, IrqClearCause, IrqClearOccupied,
       ApSend, send, COMPLETE, FULL_ACCESS
  <2>3. pc'["main"] = "pop" <=> pc["main"] = "pop"
    BY <1>0, <1>9 DEF HandleFirst, reset_soc, IrqFull, IrqReject, ApAckFull, ResetWait, vars,
       mbox_init, Register, mbox_register_cmd, EnableIrq, LoopTop, LoopCheck,
       LoopUnmask, mox_wdt_workaround, ProcessTest, LoopRest, SendTest, At, Goto,
       WakeByMbox, WakeByTick, IrqEnter, IrqClearCause, IrqClearOccupied, ApSend
  <2>4. Sent' = Sent /\ (Waiting' <=> Waiting)
    BY <2>1, <2>2, <2>3 DEF Sent, Waiting
  <2> QED BY <2>1, <2>4, OrderFrame
<1> QED
  BY <1>0, <1>1, <1>2, <1>3, <1>4, <1>5, <1>6, <1>7, <1>8, <1>9
     DEF Next, Main, IrqBody, mbox_send

\* Answers that arrived belong to the oldest accepted commands, and all of
\* those have arrived but perhaps the one that is waiting to be read.
LEMMA OrderIsAnswersInOrder == IInv /\ IdInv /\ OrderInv => AnswersInOrder
<1> SUFFICES ASSUME IInv, IdInv, OrderInv PROVE AnswersInOrder
  OBVIOUS
<1>1. ASSUME NEW n \in 1..Len(accepted), HasAnswer(accepted[n]), NEW k \in 1..n
      PROVE  HasAnswer(accepted[k]) \/ accepted[k].id \in lost
  <2>1. PICK j \in Answers : got[j].id = accepted[n].id
    BY <1>1 DEF HasAnswer
  <2>2. PICK m \in 1..Sent : got[j] \in HandlerMsgs(accepted[m])
    BY DEF OrderInv
  <2>3. accepted[m].id = accepted[n].id /\ m \in 1..Len(accepted)
    BY <2>1, <2>2, HandlerMsgIs, OrderTypes
  <2>4. m = n
    <3>1. accepted[m].id \in Nat /\ accepted[n].id \in Nat
      BY <2>3, OrderTypes
    <3>2. ~(m < n) /\ ~(n < m)
      BY <2>3, <3>1 DEF IdInv
    <3> QED BY <2>3, <3>2
  <2>5. k \in 1..Sent /\ k \in 1..Len(accepted)
    BY <2>2, <2>4, OrderTypes
  <2>6. CASE Waiting /\ out.id = accepted[k].id
    <3>1. Before(got[j], out)
      BY <2>6 DEF OrderInv
    <3>2. got[j].id <= out.id
      BY <3>1, OrderTypes DEF Before
    <3>3. ~(k < n)
      <4>1. k < n => accepted[k].id < accepted[n].id
        BY <2>5 DEF IdInv
      <4>2. accepted[k].id \in Nat /\ accepted[n].id \in Nat
        BY <2>5, OrderTypes
      <4> QED BY <2>1, <2>6, <3>2, <4>1, <4>2
    <3>4. k = n
      BY <3>3
    <3> QED BY <1>1, <3>4
  <2> QED BY <2>5, <2>6 DEF OrderInv
<1>2. \A j, k \in Answers : j < k =>
        IF overflow THEN got[j].id <= got[k].id ELSE got[j].id < got[k].id
  BY DEF OrderInv, Before
<1>3. \A j \in Answers : \E n \in 1..Len(accepted) : got[j] \in HandlerMsgs(accepted[n])
  <2>1. \A n \in 1..Sent : n \in 1..Len(accepted)
    BY OrderTypes
  <2> QED BY <2>1 DEF OrderInv
<1> QED BY <1>1, <1>2, <1>3 DEF AnswersInOrder

\* At the start nothing was accepted, shown or received.
LEMMA InitOrder == Init => IdInv /\ ShownInv /\ OrderInv
<1> SUFFICES ASSUME Init PROVE IdInv /\ ShownInv /\ OrderInv
  OBVIOUS
<1>1. /\ accepted = <<>> /\ got = <<>> /\ ~occupied /\ host_int = {} /\ answered = 0
      /\ pc["main"] = "mbox_init" /\ pc["irq"] = "idle" /\ cmd_handlers = {}
  BY DEF Init, Ctx
<1>2. IdInv
  BY <1>1 DEF IdInv, Taken
<1>3. ShownInv
  BY <1>1 DEF ShownInv, Taken
<1>4. Sent = 0 /\ ~Waiting /\ Answers = {}
  BY <1>1 DEF Sent, Waiting, Answers
<1> QED BY <1>2, <1>3, <1>4 DEF OrderInv

\* The numbering, the messages shown and their order hold together.
THEOREM OrderInvariance == Spec => [](IdInv /\ ShownInv /\ OrderInv)
<1>1. IInv /\ (IdInv /\ ShownInv /\ OrderInv) /\ [Next]_vars
        => (IdInv /\ ShownInv /\ OrderInv)'
  BY IdStep, ShownStep, OrderStep
<1>2. QED BY <1>1, InitOrder, Invariance, PTL DEF Spec

\* The AP receives the answers in the order in which the commands were
\* accepted, none lost but those that a start of the AP overwrote, and none twice
\* unless the queue was once full, for every queue size, number of commands and
\* number of starts (mbox.c:110-114, 166-201).
THEOREM AnswersAlwaysInOrder == Spec => []AnswersInOrder
<1>1. IInv /\ (IdInv /\ ShownInv /\ OrderInv) => AnswersInOrder
  BY OrderIsAnswersInOrder
<1>2. QED BY <1>1, Invariance, OrderInvariance, PTL

-----------------------------------------------------------------------------
(***************************************************************************)
(* The refinement of MboxService.                                          *)
(***************************************************************************)
\* Accepting a request appends it to those that are pending.
LEMMA PendingAppend ==
  ASSUME NEW R, NEW s \in Seq(R), NEW e \in R, NEW m \in 1..Len(s)+1
  PROVE  SubSeq(Append(s, e), m, Len(s) + 1) = Append(SubSeq(s, m, Len(s)), e)
<1> DEFINE t == Append(s, e)
           l == SubSeq(t, m, Len(s) + 1)
           q == SubSeq(s, m, Len(s))
<1>1. /\ t \in Seq(R) /\ Len(t) = Len(s) + 1 /\ t[Len(s) + 1] = e
      /\ \A i \in 1..Len(s) : t[i] = s[i]
  BY AppendProperties
<1>2. /\ l \in Seq(R) /\ Len(l) = Len(s) + 1 - m + 1
      /\ \A i \in 1..Len(s) + 1 - m + 1 : l[i] = t[m + i - 1]
  <2>1. Len(s) + 1 \in m-1..Len(t) /\ m \in 1..Len(t)+1
    BY <1>1
  <2> HIDE DEF t
  <2> QED BY <1>1, <2>1, SubSeqProperties
<1>3. /\ q \in Seq(R) /\ Len(q) = Len(s) - m + 1
      /\ \A i \in 1..Len(s) - m + 1 : q[i] = s[m + i - 1]
  <2>1. Len(s) \in m-1..Len(s)
    OBVIOUS
  <2> QED BY <2>1, SubSeqProperties
<1> HIDE DEF t, l, q
<1>4. /\ Append(q, e) \in Seq(R) /\ Len(Append(q, e)) = Len(q) + 1
      /\ Append(q, e)[Len(q) + 1] = e
      /\ \A i \in 1..Len(q) : Append(q, e)[i] = q[i]
  <2>1. q \in Seq(R)
    BY <1>3
  <2>2. ASSUME NEW u \in Seq(R)
        PROVE  /\ Append(u, e) \in Seq(R) /\ Len(Append(u, e)) = Len(u) + 1
               /\ Append(u, e)[Len(u) + 1] = e
               /\ \A i \in 1..Len(u) : Append(u, e)[i] = u[i]
    BY AppendProperties
  <2> QED BY <2>1, <2>2, Zenon
<1>5. Len(l) = Len(Append(q, e)) /\ Len(q) = Len(s) - m + 1 /\ Len(s) \in Nat
  BY <1>2, <1>3, <1>4
<1>6. ASSUME NEW i \in 1..Len(l) PROVE l[i] = Append(q, e)[i]
  <2>1. CASE i = Len(q) + 1
    <3>1. i \in 1..Len(s) + 1 - m + 1 /\ m + i - 1 = Len(s) + 1
      BY <1>5, <2>1
    <3> QED BY <1>1, <1>2, <1>4, <2>1, <3>1
  <2>2. CASE i \in 1..Len(q)
    <3>1. m + i - 1 \in 1..Len(s) /\ i \in 1..Len(s) + 1 - m + 1 /\ i \in 1..Len(s) - m + 1
      BY <1>5, <2>2
    <3> QED BY <1>1, <1>2, <1>3, <1>4, <2>2, <3>1
  <2>3. i = Len(q) + 1 \/ i \in 1..Len(q)
    BY <1>4, <1>5
  <2> QED BY <2>1, <2>2, <2>3
<1>7. l = Append(q, e)
  BY <1>2, <1>4, <1>5, <1>6, SeqEqual
<1> QED BY <1>7 DEF l, q, t

\* The oldest pending request is the next of those accepted.
LEMMA PendingTail ==
  ASSUME NEW R, NEW s \in Seq(R), NEW m \in 1..Len(s)
  PROVE  LET q == SubSeq(s, m, Len(s)) IN
         /\ q # <<>> /\ Head(q) = s[m]
         /\ Tail(q) = SubSeq(s, m + 1, Len(s))
<1> DEFINE q == SubSeq(s, m, Len(s))
           l == SubSeq(s, m + 1, Len(s))
<1>1. /\ q \in Seq(R) /\ Len(q) = Len(s) - m + 1
      /\ \A i \in 1..Len(s) - m + 1 : q[i] = s[m + i - 1]
  <2>1. Len(s) \in m-1..Len(s) /\ m \in 1..Len(s)+1
    OBVIOUS
  <2> QED BY <2>1, SubSeqProperties
<1>2. /\ l \in Seq(R) /\ Len(l) = Len(s) - (m + 1) + 1
      /\ \A i \in 1..Len(s) - (m + 1) + 1 : l[i] = s[(m + 1) + i - 1]
  <2>1. Len(s) \in (m+1)-1..Len(s) /\ m + 1 \in 1..Len(s)+1
    OBVIOUS
  <2> QED BY <2>1, SubSeqProperties
<1> HIDE DEF q, l
<1>3. q # <<>> /\ Len(q) \in Nat \ {0}
  BY <1>1
<1>4. Head(q) = q[1] /\ Tail(q) \in Seq(R) /\ Len(Tail(q)) = Len(q) - 1
      /\ \A i \in 1..Len(Tail(q)) : Tail(q)[i] = q[i + 1]
  BY <1>1, <1>3, HeadTailProperties
<1>5. Head(q) = s[m]
  BY <1>1, <1>3, <1>4
<1>6. ASSUME NEW i \in 1..Len(l) PROVE Tail(q)[i] = l[i]
  <2>1. /\ i + 1 \in 1..Len(s) - m + 1 /\ i \in 1..Len(s) - (m + 1) + 1
        /\ m + (i + 1) - 1 = (m + 1) + i - 1 /\ i \in 1..Len(Tail(q))
    BY <1>1, <1>2, <1>4
  <2> QED BY <1>1, <1>2, <1>4, <2>1
<1>7. Len(Tail(q)) = Len(l)
  <2>1. Len(s) - m + 1 - 1 = Len(s) - (m + 1) + 1
    OBVIOUS
  <2>2. Len(Tail(q)) = Len(s) - m + 1 - 1
    BY <1>1, <1>4
  <2> QED BY <1>2, <2>1, <2>2
<1>8. Tail(q) = l
  BY <1>2, <1>4, <1>6, <1>7, SeqEqual
<1> QED BY <1>3, <1>5, <1>8 DEF q, l

\* The pending requests are a sequence of requests.
LEMMA PendingIs ==
  ASSUME IInv
  PROVE  pendingBar \in Seq(Requests) /\ Len(pendingBar) = Len(accepted) - Sent
<1>1. accepted \in Seq(Requests) /\ Sent \in 0..Len(accepted) /\ Len(accepted) \in Nat
  BY OrderTypes
<1>2. \A i \in Sent + 1..Len(accepted) : accepted[i] \in Requests
  BY <1>1
<1>3. /\ SubSeq(accepted, Sent + 1, Len(accepted)) \in Seq(Requests)
      /\ Len(SubSeq(accepted, Sent + 1, Len(accepted))) =
           IF Sent + 1 <= Len(accepted) THEN Len(accepted) - (Sent + 1) + 1 ELSE 0
  BY <1>1, <1>2, SubSeqProperties
<1>4. (IF Sent + 1 <= Len(accepted) THEN Len(accepted) - (Sent + 1) + 1 ELSE 0)
        = Len(accepted) - Sent
  BY <1>1
<1> QED BY <1>3, <1>4 DEF pendingBar

\* The initial states are initial states of the service.
LEMMA RefinesInit == Init => Service!SInit
<1> SUFFICES ASSUME Init PROVE Service!SInit
  OBVIOUS
<1>1. /\ accepted = <<>> /\ got = <<>> /\ ~occupied /\ host_int = {} /\ answered = 0
      /\ pc["main"] = "mbox_init" /\ ap_on \in WTMI_APP
  BY DEF Init, Ctx
<1>2. pendingBar = <<>>
  <2>1. pendingBar = SubSeq(accepted, 1, 0)
    BY <1>1 DEF pendingBar, Sent
  <2> QED BY <2>1, SubSeqEmpty
<1>3. commandBar = NoReq /\ outboxBar = NoMsg
  BY <1>1 DEF commandBar, outboxBar, Taken
<1> QED BY <1>1, <1>2, <1>3 DEF Service!SInit, Service!NoReq, Service!NoMsg, NoReq, NoMsg

\* A step that leaves alone what the service shows is invisible.
LEMMA RefinesStutter ==
  ASSUME UNCHANGED <<ap_on, in_req, accepted, got>>, Sent' = Sent, Taken' <=> Taken,
         COMPLETE \in host_int' <=> COMPLETE \in host_int,
         COMPLETE \in host_int => out' = out
  PROVE  UNCHANGED Service!svars
<1>1. pendingBar' = pendingBar /\ commandBar' = commandBar /\ outboxBar' = outboxBar
  BY DEF pendingBar, commandBar, outboxBar
<1> QED BY <1>1 DEF Service!svars

\* The AP writes a command: Issue.
LEMMA RefinesIssue ==
  ASSUME IInv, NEW cmd \in ApCmds, ApSend(cmd)
  PROVE  \E id \in 1..MaxCmds, c \in ApCmds : Service!Issue(id, c)
<1>1. /\ ap_on /\ ~occupied /\ issued < MaxCmds /\ occupied'
      /\ in_req' = [id |-> issued + 1, cmd |-> cmd]
      /\ UNCHANGED <<pc, host_int, out, accepted, answered, ap_on, got>>
  BY DEF ApSend, ring, send
<1>2. pc["irq"] \notin {"clear", "clear2"}
  BY <1>1 DEF IInv, InterruptInv, CommandHasInterrupt
<1>3. commandBar = NoReq /\ commandBar' = [id |-> issued + 1, cmd |-> cmd]
  BY <1>1, <1>2 DEF commandBar, Taken
<1>4. UNCHANGED <<ap_on, pendingBar, outboxBar, got>>
  BY <1>1 DEF pendingBar, outboxBar, Sent
<1>5. issued + 1 \in 1..MaxCmds
  BY <1>1, MaxCmdsAssumption DEF IInv, TypeOK, ApTypeOK
<1> QED BY <1>1, <1>3, <1>4, <1>5 DEF Service!Issue, Service!NoReq, NoReq

\* The handler puts the command into the ring: Accept.
LEMMA RefinesAccept ==
  ASSUME IInv, ShownInv, IrqEnqueue
  PROVE  Service!Accept
<1> DEFINE req == [id |-> in_req.id, cmd |-> Masked(in_req.cmd)]
<1>1. /\ pc["irq"] = "entry" /\ ~QueueFull /\ Masked(in_req.cmd) \in cmd_handlers
      /\ accepted' = Append(accepted, req) /\ pc'["irq"] = "clear"
      /\ pc'["main"] = pc["main"]
      /\ UNCHANGED <<host_int, out, in_req, occupied, answered, ap_on, got>>
  BY DEF IrqEnqueue, HasHandler, At, Goto, send, regs, apst, IInv, TypeOK, PcTypeOK, Ctx
<1>2. ~Taken /\ Taken'
  BY <1>1, EntryNotTaken DEF Taken
<1>3. commandBar = in_req /\ commandBar' = NoReq /\ in_req # NoReq
  BY <1>2 DEF commandBar, ShownInv, NoReq
<1>4. Masked(in_req.cmd) \in {CmdTable[i] : i \in 1..Len(CmdTable)}
  BY <1>1 DEF ShownInv
<1>5. /\ accepted \in Seq(Requests) /\ Sent \in 0..Len(accepted) /\ Len(accepted) \in Nat
      /\ answered \in Nat /\ cmd_queue_fill \in Nat
  BY OrderTypes
<1>6. Sent' = Sent
  BY <1>1 DEF Sent
<1>7. req \in Requests
  BY DEF IInv, TypeOK, RegsTypeOK, Requests, Masked
<1>8. Len(pendingBar) < CMD_QUEUE_SIZE
  <2>1. Len(accepted) = answered + cmd_queue_fill /\ cmd_queue_fill < CMD_QUEUE_SIZE
    BY <1>1, QueueSizeAssumption
       DEF IInv, QueueFifo, RingHoldsPending, TypeOK, RingTypeOK, QueueFull
  <2>2. Sent >= answered
    BY <1>5 DEF Sent
  <2> QED BY <1>5, <2>1, <2>2, PendingIs, QueueSizeAssumption
<1> HIDE DEF req
<1>9. pendingBar' = Append(pendingBar, req)
  <2>1. Sent + 1 \in 1..Len(accepted)+1 /\ Len(accepted') = Len(accepted) + 1
    BY <1>1, <1>5, <1>7
  <2>2. SubSeq(accepted', Sent + 1, Len(accepted) + 1) = Append(pendingBar, req)
    BY <1>1, <1>5, <1>7, <2>1, PendingAppend DEF pendingBar
  <2> QED BY <1>6, <2>1, <2>2 DEF pendingBar
<1>10. UNCHANGED <<ap_on, outboxBar, got>>
  BY <1>1 DEF outboxBar
<1> QED
  BY <1>3, <1>4, <1>8, <1>9, <1>10
     DEF Service!Accept, Service!NoReq, NoReq, Service!Masked, Masked, req

\* The write of CMD_COMPLETE for a rejection is Reject.
LEMMA RefinesReject ==
  ASSUME IInv, ShownInv, SendSet("irq")
  PROVE  Service!Reject
<1>1. /\ pc["irq"] = "set" /\ pc'["irq"] = "clear" /\ pc'["main"] = pc["main"]
      /\ host_int' = hint["irq"] \cup {COMPLETE}
      /\ UNCHANGED <<out, accepted, answered, in_req, occupied, ap_on, got>>
  BY DEF SendSet, At, Goto, ring, regs, apst, IInv, TypeOK, PcTypeOK, Ctx
<1>2. ~Taken /\ Taken'
  BY <1>1, EntryNotTaken DEF Taken
<1>3. commandBar = in_req /\ commandBar' = NoReq /\ in_req # NoReq
  BY <1>2 DEF commandBar, ShownInv, NoReq
<1>4. COMPLETE \notin host_int /\ out = RejectMsg(in_req)
  BY <1>1 DEF IInv, OutboxInv, ShownInv, Ctx
<1>5. outboxBar = NoMsg /\ outboxBar' = RejectMsg(in_req)
  BY <1>1, <1>4 DEF outboxBar
<1>6. UNCHANGED <<ap_on, pendingBar, got>>
  BY <1>1 DEF pendingBar, Sent
<1> QED
  BY <1>3, <1>5, <1>6
     DEF Service!Reject, Service!NoReq, NoReq, Service!NoMsg, NoMsg,
         Service!RejectMsg, RejectMsg, Service!Masked, Masked

\* Setting CMD_QUEUE_FULL_ACCESS drops the command, and may show a message again.
LEMMA RefinesDrop ==
  ASSUME IInv, ShownInv, IrqFullSet
  PROVE  Service!Drop
<1>1. /\ pc["irq"] = "full" /\ pc'["irq"] = "clear" /\ pc'["main"] = pc["main"]
      /\ host_int' = hint["irq"] \cup {FULL_ACCESS} /\ COMPLETE # FULL_ACCESS
      /\ UNCHANGED <<out, accepted, answered, in_req, occupied, ap_on, got>>
  BY DEF IrqFullSet, At, Goto, ring, regs, apst, IInv, TypeOK, PcTypeOK, Ctx,
         COMPLETE, FULL_ACCESS
<1>2. ~Taken /\ Taken'
  BY <1>1, EntryNotTaken DEF Taken
<1>3. commandBar = in_req /\ commandBar' = NoReq /\ in_req # NoReq
  BY <1>2 DEF commandBar, ShownInv, NoReq
<1>4. Len(pendingBar) + 1 >= CMD_QUEUE_SIZE
  <2>1. Len(accepted) = answered + cmd_queue_fill /\ cmd_queue_fill = CMD_QUEUE_SIZE
    BY <1>1 DEF IInv, QueueFifo, RingHoldsPending, ShownInv, QueueFull
  <2>2. Sent <= answered + 1
    BY OrderTypes DEF Sent
  <2> QED BY <2>1, <2>2, PendingIs, OrderTypes, QueueSizeAssumption
<1>5. UNCHANGED <<ap_on, pendingBar, got>>
  BY <1>1 DEF pendingBar, Sent
<1>6. \/ UNCHANGED outboxBar
      \/ outboxBar = NoMsg /\ got # <<>> /\ outboxBar' = got[Len(got)]
  <2>1. CASE COMPLETE \in host_int
    <3>1. COMPLETE \in host_int'
      BY <1>1, <2>1 DEF IInv, OutboxInv
    <3> QED BY <1>1, <2>1, <3>1 DEF outboxBar
  <2>2. CASE COMPLETE \in hint["irq"] \ host_int
    <3>1. got # <<>> /\ out = got[Len(got)]
      BY <1>1, <2>2 DEF ShownInv
    <3> QED BY <1>1, <2>2, <3>1 DEF outboxBar
  <2>3. CASE COMPLETE \notin hint["irq"] /\ COMPLETE \notin host_int
    BY <1>1, <2>3 DEF outboxBar
  <2> QED BY <2>1, <2>2, <2>3
<1> QED
  BY <1>3, <1>4, <1>5, <1>6
     DEF Service!Drop, Service!NoReq, NoReq, Service!NoMsg, NoMsg

\* The write of CMD_COMPLETE for an answer takes the oldest pending request.
LEMMA RefinesAnswer ==
  ASSUME IInv, SendSet("main")
  PROVE  Service!Answer
<1>1. /\ pc["main"] = "set" /\ pc["irq"] = "idle" /\ pc'["main"] = "pop" /\ pc'["irq"] = "idle"
      /\ host_int' = hint["main"] \cup {COMPLETE}
      /\ UNCHANGED <<out, accepted, answered, in_req, occupied, ap_on, got>>
  BY DEF SendSet, At, Goto, ring, regs, apst, IInv, TypeOK, PcTypeOK, Ctx
<1>2. Sent = answered /\ Sent' = answered + 1
  BY <1>1 DEF Sent
<1>3. /\ accepted \in Seq(Requests) /\ Sent + 1 \in 1..Len(accepted)
  <2>1. Len(accepted) = answered + cmd_queue_fill /\ cmd_queue_fill > 0
    BY <1>1 DEF IInv, QueueFifo, RingHoldsPending, AnswerIsForFirst
  <2> QED BY <1>2, <2>1, OrderTypes
<1>4. /\ COMPLETE \notin host_int /\ out \in HandlerMsgs(accepted[Sent + 1])
  BY <1>1, <1>2 DEF IInv, OutboxInv, QueueFifo, AnswerIsForFirst, Ctx
<1>5. /\ pendingBar # <<>> /\ Head(pendingBar) = accepted[Sent + 1]
      /\ Tail(pendingBar) = SubSeq(accepted, Sent + 1 + 1, Len(accepted))
  BY <1>3, PendingTail DEF pendingBar
<1>6. pendingBar' = Tail(pendingBar)
  BY <1>1, <1>2, <1>5 DEF pendingBar
<1>7. outboxBar = NoMsg /\ outboxBar' \in HandlerMsgs(Head(pendingBar))
  BY <1>1, <1>4, <1>5 DEF outboxBar
<1>8. UNCHANGED <<ap_on, commandBar, got>>
  BY <1>1 DEF commandBar, Taken
<1> QED
  BY <1>5, <1>6, <1>7, <1>8
     DEF Service!Answer, Service!NoMsg, NoMsg, Service!HandlerMsgs, HandlerMsgs

\* The AP reads the message: Deliver.
LEMMA RefinesDeliver ==
  ASSUME ShownInv, ApRead
  PROVE  Service!Deliver
<1>1. /\ ap_on /\ COMPLETE \in host_int /\ COMPLETE \notin host_int'
      /\ got' = Append(got, out)
      /\ UNCHANGED <<pc, accepted, answered, in_req, occupied, ap_on>>
  BY DEF ApRead, ring, regs
<1>2. outboxBar = out /\ out # NoMsg /\ outboxBar' = NoMsg
  BY <1>1 DEF outboxBar, ShownInv
<1>3. UNCHANGED <<ap_on, commandBar, pendingBar>>
  BY <1>1 DEF commandBar, pendingBar, Taken, Sent
<1> QED BY <1>1, <1>2, <1>3 DEF Service!Deliver, Service!NoMsg, NoMsg

\* Whether the AP runs is TRUE or FALSE.
LEMMA OnTyped ==
  ASSUME IInv
  PROVE  ap_on = TRUE \/ ap_on = FALSE
BY DEF IInv, TypeOK, ApTypeOK

\* Writing the start message is Start when CMD_COMPLETE is set already, and
\* cannot be seen when it is not.
LEMMA RefinesStartWrite ==
  ASSUME IInv, StartWrite
  PROVE  [Service!SNext]_Service!svars
<1>1. /\ pc["main"] \in {"start_ap", "debug"} /\ pc'["main"] = "start_read"
      /\ pc["main"] = "debug" => DEBUG_UART
      /\ pc'["irq"] = pc["irq"] /\ out' = StartMsg
      /\ UNCHANGED <<accepted, answered, in_req, occupied, host_int, ap_on, got>>
  BY DEF StartWrite, At, Goto, ring, regs, IInv, TypeOK, PcTypeOK, Ctx
<1>2. UNCHANGED <<commandBar, pendingBar, got>>
  BY <1>1 DEF commandBar, pendingBar, Taken, Sent
<1>3. CASE COMPLETE \in host_int
  <2>1. ap_on
    BY <1>1, <1>3 DEF IInv, StartInv, OffInv
  <2>2. DEBUG_UART
    BY <1>1, <2>1 DEF IInv, StartInv
  <2>3. outboxBar' = StartMsg
    BY <1>1, <1>3 DEF outboxBar
  <2>4. Service!Start
    BY <1>1, <1>2, <2>1, <2>2, <2>3, OnTyped DEF Service!Start, Service!StartMsg, StartMsg
  <2> QED BY <2>4 DEF Service!SNext
<1>4. CASE COMPLETE \notin host_int
  BY <1>1, <1>2, <1>4 DEF outboxBar, Service!svars
<1> QED BY <1>3, <1>4

\* Setting CMD_COMPLETE for it is Start unless it is set already.
LEMMA RefinesStartSet ==
  ASSUME IInv, ShownInv, StartSet
  PROVE  [Service!SNext]_Service!svars
<1>1. /\ pc["main"] = "start_set" /\ pc'["main"] = "top" /\ pc["irq"] = "idle"
      /\ pc'["irq"] = pc["irq"] /\ COMPLETE \in host_int' /\ ap_on' = TRUE
      /\ UNCHANGED <<accepted, answered, in_req, occupied, out, got>>
  BY DEF StartSet, At, Goto, ring, regs, IInv, TypeOK, PcTypeOK, Ctx
<1>2. UNCHANGED <<commandBar, pendingBar, got>>
  BY <1>1 DEF commandBar, pendingBar, Taken, Sent
<1>3. outboxBar' = out
  BY <1>1 DEF outboxBar
<1>4. CASE COMPLETE \in host_int
  <2>1. ap_on
    BY <1>1, <1>4 DEF IInv, StartInv, OffInv
  <2>2. outboxBar = out
    BY <1>4 DEF outboxBar
  <2>3. ap_on' = ap_on
    BY <1>1, <2>1, OnTyped
  <2> QED BY <1>1, <1>2, <1>3, <2>2, <2>3 DEF Service!svars
<1>5. CASE COMPLETE \notin host_int
  <2>1. outboxBar = NoMsg
    BY <1>5 DEF outboxBar
  <2>2. ap_on => DEBUG_UART
    BY <1>1 DEF IInv, StartInv
  <2>3. out = StartMsg \/ (ap_on /\ got # <<>> /\ out = got[Len(got)])
    BY <1>1, <1>5 DEF IInv, StartInv, OffInv, ShownInv
  <2>4. Service!Start
    BY <1>1, <1>2, <1>3, <2>1, <2>2, <2>3
       DEF Service!Start, Service!StartMsg, StartMsg, Service!NoMsg, NoMsg
  <2> QED BY <2>4 DEF Service!SNext
<1> QED BY <1>4, <1>5

\* A warm reset takes the AP down.
LEMMA RefinesDown ==
  ASSUME IInv, reset_soc, pc["main"] \in {"wdt", "handle"}
  PROVE  Service!Down
<1>1. /\ ap_on' = FALSE /\ pc'["main"] = "reset" /\ pc'["irq"] = pc["irq"]
      /\ UNCHANGED <<host_int, out, accepted, answered, in_req, occupied, got>>
  BY DEF reset_soc, Goto, ring, regs, send, IInv, TypeOK, PcTypeOK, Ctx
<1>2. UNCHANGED <<commandBar, pendingBar, outboxBar, got>>
  BY <1>1 DEF commandBar, pendingBar, outboxBar, Taken, Sent
<1> QED BY <1>1, <1>2 DEF Service!Down

\* Each step of the registers, the ring and the handler is a step of the
\* service or invisible to it.
LEMMA RefinesStep ==
  ASSUME IInv, ShownInv, [Next]_vars
  PROVE  [Service!SNext]_Service!svars
<1>0. pc \in [Ctx -> MainLabels \cup IrqLabels] /\ Ctx = {"main", "irq"}
  BY DEF IInv, TypeOK, PcTypeOK, Ctx
<1>1. CASE \E cmd \in ApCmds : ApSend(cmd)
  BY <1>1, RefinesIssue DEF Service!SNext
<1>2. CASE IrqEnqueue \/ SendSet("irq") \/ IrqFullSet \/ SendSet("main") \/ ApRead
  BY <1>2, RefinesAccept, RefinesReject, RefinesDrop, RefinesAnswer, RefinesDeliver
     DEF Service!SNext
<1>3. ASSUME reset_soc, pc["main"] \in {"wdt", "handle"}
      PROVE  [Service!SNext]_Service!svars
  BY <1>3, RefinesDown DEF Service!SNext
<1>4. CASE PopFirst
  <2>1. /\ pc["main"] = "pop" /\ pc'["main"] = "process" /\ pc'["irq"] = pc["irq"]
        /\ answered' = answered + 1
        /\ UNCHANGED <<got, ap_on, host_int, out, accepted, in_req, occupied>>
    BY <1>0, <1>4 DEF PopFirst, At, Goto, send, apst, regs
  <2>2. Sent' = Sent /\ (Taken' <=> Taken)
    BY <2>1 DEF Sent, Taken
  <2> QED BY <2>1, <2>2, RefinesStutter
<1>5. ASSUME NEW c \in Ctx, SendWrite(c) PROVE [Service!SNext]_Service!svars
  <2>1. /\ pc[c] = "write" /\ pc' = [pc EXCEPT ![c] = "set"]
        /\ UNCHANGED <<got, ap_on, host_int, accepted, answered, in_req, occupied>>
    BY <1>5 DEF SendWrite, At, Goto, ring, apst, regs
  <2>2. COMPLETE \notin host_int
    BY <2>1 DEF IInv, OutboxInv
  <2>3. Sent' = Sent /\ (Taken' <=> Taken)
    BY <1>0, <2>1 DEF Sent, Taken
  <2> QED BY <2>1, <2>2, <2>3, RefinesStutter
<1>6. CASE IrqClearCause \/ IrqClearOccupied
  <2>1. /\ pc["irq"] \in {"clear", "clear2"} /\ pc'["main"] = pc["main"]
        /\ (pc'["irq"] = "clear2" \/ ~occupied')
        /\ UNCHANGED <<got, ap_on, host_int, out, accepted, answered, in_req>>
    BY <1>0, <1>6 DEF IrqClearCause, IrqClearOccupied, At, Goto, ring, apst, send
  <2>2. Sent' = Sent /\ Taken /\ Taken'
    BY <2>1 DEF Sent, Taken
  <2> QED BY <2>1, <2>2, RefinesStutter
<1>7. CASE \/ (HandleFirst /\ ~reset_soc) \/ IrqFull \/ IrqReject \/ ApAckFull \/ ResetWait
           \/ UNCHANGED vars
           \/ mbox_init \/ Register \/ EnableIrq \/ LoopTop \/ LoopCheck
           \/ LoopUnmask \/ (mox_wdt_workaround /\ ~reset_soc) \/ ProcessTest \/ LoopRest
           \/ SendTest("main") \/ SendTest("irq") \/ WakeByMbox \/ WakeByTick
           \/ IrqEnter
  <2>1. UNCHANGED <<got, ap_on, out, accepted, answered, in_req, occupied>>
    BY <1>7 DEF HandleFirst, IrqFull, IrqReject, ApAckFull, ResetWait, vars,
       mbox_init, Register, mbox_register_cmd, EnableIrq, LoopTop, LoopCheck,
       LoopUnmask, mox_wdt_workaround, ProcessTest, LoopRest, SendTest,
       WakeByMbox, WakeByTick, IrqEnter, send, ring, apst, regs
  <2>2. COMPLETE \in host_int' <=> COMPLETE \in host_int
    BY <1>7 DEF HandleFirst, IrqFull, IrqReject, ApAckFull, ResetWait, vars,
       mbox_init, Register, mbox_register_cmd, EnableIrq, LoopTop, LoopCheck,
       LoopUnmask, mox_wdt_workaround, ProcessTest, LoopRest, SendTest,
       WakeByMbox, WakeByTick, IrqEnter, send, COMPLETE, FULL_ACCESS
  <2>3. /\ pc'["main"] = "pop" <=> pc["main"] = "pop"
        /\ pc'["irq"] \in {"clear", "clear2"} <=> pc["irq"] \in {"clear", "clear2"}
    BY <1>0, <1>7 DEF HandleFirst, IrqFull, IrqReject, ApAckFull, ResetWait, vars,
       mbox_init, Register, mbox_register_cmd, EnableIrq, LoopTop, LoopCheck,
       LoopUnmask, mox_wdt_workaround, ProcessTest, LoopRest, SendTest, At, Goto,
       WakeByMbox, WakeByTick, IrqEnter
  <2>4. Sent' = Sent /\ (Taken' <=> Taken)
    BY <2>1, <2>3 DEF Sent, Taken
  <2> QED BY <2>1, <2>2, <2>4, RefinesStutter
<1>8. CASE StartRead
  <2>1. /\ pc["main"] = "start_read" /\ pc'["main"] = "start_set" /\ pc'["irq"] = pc["irq"]
        /\ UNCHANGED <<got, ap_on, host_int, out, accepted, answered, in_req, occupied>>
    BY <1>0, <1>8 DEF StartRead, At, Goto, ring, apst, regs
  <2>2. Sent' = Sent /\ (Taken' <=> Taken)
    BY <2>1 DEF Sent, Taken
  <2> QED BY <2>1, <2>2, RefinesStutter
<1> QED
  <2>1. CASE HandleFirst \/ mox_wdt_workaround
    BY <1>3, <1>7, <2>1 DEF HandleFirst, mox_wdt_workaround, At
  <2>2. ASSUME NEW c \in Ctx, mbox_send(c) PROVE [Service!SNext]_Service!svars
    <3>1. c = "main" \/ c = "irq"
      BY <1>0
    <3>2. CASE SendTest(c)
      BY <1>7, <3>1, <3>2
    <3>3. CASE SendSet(c)
      BY <1>2, <3>1, <3>3
    <3> QED BY <1>5, <2>2, <3>2, <3>3 DEF mbox_send
  <2>3. CASE Main
    <3>1. CASE \/ mbox_init \/ Register \/ EnableIrq \/ LoopTop \/ LoopCheck
               \/ LoopUnmask \/ ProcessTest \/ LoopRest
      BY <1>7, <3>1
    <3>2. CASE mbox_send("main") \/ PopFirst
      BY <1>0, <1>4, <2>2, <3>2
    <3>3. CASE start_ap_at
      BY <1>8, <3>3, RefinesStartWrite, RefinesStartSet DEF start_ap_at
    <3> QED BY <2>1, <2>3, <3>1, <3>2, <3>3 DEF Main
  <2>4. CASE IrqBody
    BY <1>0, <1>2, <1>6, <1>7, <2>2, <2>4 DEF IrqBody
  <2>5. CASE WakeByMbox \/ WakeByTick \/ ResetWait \/ IrqEnter \/ ApAckFull \/ UNCHANGED vars
    BY <1>7, <2>5
  <2>6. CASE ApRead \/ \E cmd \in ApCmds : ApSend(cmd)
    BY <1>1, <1>2, <2>6
  <2> QED
    BY <2>3, <2>4, <2>5, <2>6 DEF Next

\* The registers, the ring and the interrupt handler of mbox.c give the AP the
\* bounded FIFO service, for every queue size, command table and set of
\* commands: accepted in order, answered in order, and no message overwritten
\* but by a start of the AP, whose message it is then.
THEOREM Refinement == Spec => ImplementsService
<1>1. IInv /\ ShownInv /\ [Next]_vars => [Service!SNext]_Service!svars
  BY RefinesStep
<1>2. QED
  BY <1>1, RefinesInit, Invariance, OrderInvariance, PTL
     DEF Spec, ImplementsService, Service!SSpec
=============================================================================
