SPECIFICATION GateSpec
CONSTANTS
  Threads = {a, b, c, d}
  MaxTickets = 7
INVARIANTS GateTypeOK OneHolder
PROPERTIES GateIsFifo EveryTicketServed
CHECK_DEADLOCK FALSE
