\* Every small request and transaction.
SPECIFICATION Spec
CONSTANTS
  MaxSplits = 2
  MaxSponsored = 3
  Requests <- mcRequests
  Wallets <- mcHolding
  CallLists <- mcCallLists
INVARIANTS MatchingIsExact ApprovedCallsPay ClientTransactionSettles
CHECK_DEADLOCK FALSE
