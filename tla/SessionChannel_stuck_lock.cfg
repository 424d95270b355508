\* A provider error while the close transaction is submitted.
CONSTANTS
  Requests = {r1, r2}
  MaxAmount = 2
  MinDelta = 1
  TickCosts = {1}
  HasCloseSigner = TRUE
  Faults = {"rpc"}
  Signers = {"payer"}
  ChargeBound = 2
  NoChannel = NoChannel
SPECIFICATION Spec
INVARIANT LockedOnlyWhileSettling
