---------------------------- MODULE MboxService -----------------------------
(***************************************************************************)
(* What the mailbox promises to the AP, without interrupts, registers or a *)
(* ring: a command is accepted into a bounded FIFO, rejected with a        *)
(* message, or dropped when the FIFO is full; accepted commands are        *)
(* answered in order through a one-message outbox that is never written    *)
(* before the AP has read it, except when the AP is started over.          *)
(***************************************************************************)
EXTENDS MboxProtocol

CONSTANTS Capacity,   \* how many accepted commands may wait
          Ids,        \* what tells the calls of the AP apart
          Cmds,       \* the values the AP writes as a command
          Served,     \* the command numbers that can be accepted
          Restarts,   \* whether a running AP may be sent the start message again
          Running     \* whether the AP runs from the start: TRUE, FALSE or both

VARIABLES up,         \* the AP is running
          command,    \* the command not yet taken, or NoReq
          pending,    \* accepted commands that were not answered
          outbox,     \* the message the AP was not given yet, or NoMsg
          delivered   \* the messages the AP was given

svars == <<up, command, pending, outbox, delivered>>

SInit ==
  /\ up \in Running /\ command = NoReq /\ pending = <<>>
  /\ outbox = NoMsg /\ delivered = <<>>

\* A first start finds the outbox empty; a later one takes the place of what is
\* in it, or loses against a rejection that was just delivered and is shown again.
Start ==
  /\ (up => Restarts) /\ (~up => outbox = NoMsg)
  /\ up' = TRUE
  /\ \/ outbox' = StartMsg
     \/ /\ up /\ outbox = NoMsg /\ delivered # <<>>
        /\ outbox' = delivered[Len(delivered)]
  /\ UNCHANGED <<command, pending, delivered>>

Issue(id, cmd) ==
  /\ up /\ command = NoReq
  /\ command' = [id |-> id, cmd |-> cmd]
  /\ UNCHANGED <<up, pending, outbox, delivered>>

Accept ==
  /\ command # NoReq
  /\ Masked(command.cmd) \in Served
  /\ Len(pending) < Capacity
  /\ pending' = Append(pending, [id |-> command.id, cmd |-> Masked(command.cmd)])
  /\ command' = NoReq
  /\ UNCHANGED <<up, outbox, delivered>>

\* A rejection does not wait for the commands that are pending.
Reject ==
  /\ command # NoReq
  /\ outbox = NoMsg /\ outbox' = RejectMsg(command)
  /\ command' = NoReq
  /\ UNCHANGED <<up, pending, delivered>>

\* A dropped command gets no message; the message delivered last may be shown
\* once more.  The command that is being finished may still count as pending.
Drop ==
  /\ command # NoReq
  /\ Len(pending) + 1 >= Capacity
  /\ command' = NoReq
  /\ \/ UNCHANGED outbox
     \/ /\ outbox = NoMsg /\ delivered # <<>>
        /\ outbox' = delivered[Len(delivered)]
  /\ UNCHANGED <<up, pending, delivered>>

Answer ==
  /\ pending # <<>>
  /\ outbox = NoMsg /\ outbox' \in HandlerMsgs(Head(pending))
  /\ pending' = Tail(pending)
  /\ UNCHANGED <<up, command, delivered>>

Deliver ==
  /\ up /\ outbox # NoMsg
  /\ delivered' = Append(delivered, outbox)
  /\ outbox' = NoMsg
  /\ UNCHANGED <<up, command, pending>>

Down == up' = FALSE /\ UNCHANGED <<command, pending, outbox, delivered>>

SNext ==
  \/ Start \/ Accept \/ Reject \/ Drop \/ Answer \/ Deliver \/ Down
  \/ \E id \in Ids, cmd \in Cmds : Issue(id, cmd)

SSpec == SInit /\ [][SNext]_svars
=============================================================================
