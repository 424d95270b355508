\* A client that swaps for what it does not hold.
SPECIFICATION Spec
CONSTANTS
  MaxSplits = 2
  MaxSponsored = 3
  Requests <- mcRequests
  Wallets <- mcSwapping
  CallLists <- mcCallLists
INVARIANT SwappedTransactionSettles
CHECK_DEADLOCK FALSE
