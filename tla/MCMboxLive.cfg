\* Liveness: release build, no watchdog reset that would excuse an answer.
CONSTANTS
  CMD_QUEUE_SIZE = 2
  MaxCmds = 4
  ApCmds <- LiveApCmds
  CmdTable <- LiveTable
  WTMI_APP = {FALSE}
  BootMasked = FALSE
  WdtWorkaround = FALSE
  DEBUG_UART = FALSE
  MaxKicks = 0
SPECIFICATION Spec
PROPERTIES
  CommandAnswered
  MailboxReleased
