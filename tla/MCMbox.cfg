\* Debug build, whose console starts the AP, and application build, in which the
\* AP runs while the handlers are registered.
CONSTANTS
  CMD_QUEUE_SIZE = 2
  MaxCmds = 4
  ApCmds <- SmallApCmds
  CmdTable <- SmallTable
  WTMI_APP = {FALSE, TRUE}
  BootMasked = FALSE
  WdtWorkaround = TRUE
  DEBUG_UART = TRUE
  MaxKicks = 1
SPECIFICATION Spec
INVARIANTS
  TypeOK
  QueueFifo
  NoNullHandlerCall
  CommandHasInterrupt
  AnswersInOrder
PROPERTIES
  MsgWrittenOnlyWhenRead
  ImplementsService
