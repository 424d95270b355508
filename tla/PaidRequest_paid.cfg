SPECIFICATION Spec
CONSTANTS
  c1 = c1
  c2 = c2
  Calls = {c1, c2}
  Routes <- mcRoutes
  GateOf <- mcGate
  OfferedBy <- mcOffered
  BasePrice <- mcPrice
  PinnedTo <- mcOpaque
  MemoOf <- mcMemo
  Description <- mcDescription
  Supports <- mcSupports
  Wishes <- mcWishes
  Life = 2
  MaxTime = 2
  ValidFor = 1
  Troubles = {"lost", "node", "inner"}
  Deployments <- mcDeployments
INVARIANTS UnservedForCause RefusedForCause
PROPERTY ImplementsPurchase
SYMMETRY mcSymmetry
