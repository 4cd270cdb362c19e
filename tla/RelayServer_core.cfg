CONSTANTS
  c1 = c1
  c2 = c2
  None = None
  Clients <- MCClients
  Users <- MCUsers
  Registers = TRUE
SPECIFICATION Spec
CHECK_DEADLOCK FALSE
INVARIANTS
  TypeOK
  MapHoldsOpenClients
  NoSendToClosed
  SendersHaveWriters
  HandlerWaitsForReader
  ClientsWorkAsTold
PROPERTIES
  SendCompletes
  WriterEnds
  HandlerReturns
