\* Stores of both kinds, deleting calls, every fault.
CONSTANTS
  Callers = {c1, c2}
  Locks = {l1, l2}
  NoLock = NoLock
  Nobody = Nobody
  Updaters = {"open", "deduct", "delete"}
  Credit = 3
  Stores = {"atomic", "file"}
  Faults = {"store", "cancel", "crash"}
SPECIFICATION FairSpec
INVARIANTS
  UpdatesSerialized
  NoDeductionLost
  TornOnlyWhileWriting
PROPERTIES
  ImplementsAtomicRecord
  EveryCallReturns
