\* One stream of each kind over the same channel, every fault.
CONSTANTS
  s1 = s1
  s2 = s2
  Streams = {s1, s2}
  Kind <- Mixed
  Items = 2
  TickCost = 1
  Deposit = 3
  InitialCum = 1
  MinDelta = 0
  Notifies = TRUE
  Faults = {"store", "post", "drop", "close"}
SPECIFICATION Spec
INVARIANTS
  EveryItemPaidOnce
  NoItemSkipped
  ExposureBounded
  ReceiptAccounts
\* Every stream may have ended.
CHECK_DEADLOCK FALSE
