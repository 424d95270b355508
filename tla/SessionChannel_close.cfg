\* No faults, vouchers of two signers: a close that was locked is carried through.
CONSTANTS
  Requests = {r1, r2}
  MaxAmount = 1
  MinDelta = 1
  TickCosts = {1}
  HasCloseSigner = TRUE
  Faults = {}
  Signers = {"payer", "stranger"}
  ChargeBound = 1
  NoChannel = NoChannel
SPECIFICATION FairSpec
INVARIANTS
  VoucherBacked
PROPERTIES
  CloseCompletes
