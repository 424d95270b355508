\* Two sse streams, lost vouchers, a channel that may be closed: nobody waits for
\* ever.
CONSTANTS
  s1 = s1
  s2 = s2
  Streams = {s1, s2}
  Kind <- AllSse
  Items = 2
  TickCost = 1
  Deposit = 4
  InitialCum = 2
  MinDelta = 1
  Notifies = TRUE
  Faults = {"post", "close"}
SPECIFICATION FairSpec
PROPERTIES
  StreamsEnd
\* Every stream may have ended.
CHECK_DEADLOCK FALSE
