\* Two credentials at a time, every fault, amounts up to 2.
CONSTANTS
  Requests = {r1, r2}
  MaxAmount = 2
  MinDelta = 1
  TickCosts = {1, 2}
  HasCloseSigner = TRUE
  Faults = {"rpc", "store", "cancel", "coldstart"}
  Signers = {"payer"}
  ChargeBound = 2
  NoChannel = NoChannel
SPECIFICATION Spec
SYMMETRY RequestSymmetry
INVARIANTS
  TypeOK
  ChargesCovered
  StoreBehindChain
  OneCloserAtATime
  LockHeldWhileSettling
  JobsWithinChain
PROPERTIES
  AccountingOnlyGrows
  ImplementsMeteredChannel
