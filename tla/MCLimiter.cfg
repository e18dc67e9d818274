SPECIFICATION LiveSpec
CONSTANTS
  c1 = c1
  c2 = c2
  c3 = c3
  c4 = c4
  c5 = c5
  Callers <- MCCallers
  Limit = 2
INVARIANTS
  SlotsAreCalls
  NoIdleSlot
PROPERTIES
  WaiterIsServed
  KeepsLimit
