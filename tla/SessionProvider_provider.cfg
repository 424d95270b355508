\* Two calls at a time, two servers, every trouble.
CONSTANTS
  p1 = p1
  p2 = p2
  Calls = {p1, p2}
  Keys = {1, 2}
  MaxPays = 3
  MaxOther = 2
  Amount = 1
  Suggestions <- OfferedDeposits
  MaxDeposit = 2
  DefaultDeposit = 1
  MaxPrecompile = 2
  Troubles = {"lost", "rpc", "restart"}
SPECIFICATION Spec
SYMMETRY CallSymmetry
INVARIANTS
  ExposureBounded
  RefusedForCause
  OneChannelPerKey
  RegistryCoversVouchers
\* The bounds on the calls may be used up.
CHECK_DEADLOCK FALSE
