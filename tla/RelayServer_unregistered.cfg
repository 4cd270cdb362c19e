CONSTANTS
  c1 = c1
  c2 = c2
  None = None
  Clients <- MCClients
  Users <- MCUsers
  Registers = FALSE
SPECIFICATION Spec
CHECK_DEADLOCK FALSE
PROPERTY LinkedPacketsGoToHost
