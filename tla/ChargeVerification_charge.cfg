\* Every kind of credential and of store, every fault, fair.
CONSTANTS
  tx = tx
  envelope = envelope
  raw = raw
  padded = padded
  low = low
  high = high
  proof = proof
  mine = mine
  named = named
  other = other
  free = free
  Verifiers = {v1, v2}
  Txs = {tx}
  Submissions = {envelope, raw, padded}
  Encodings = {raw, padded}
  Signatures = {low, high}
  Fingerprints = {proof}
  Challenges = {mine, named, other, free}
  ZeroAmount = {free}
  FixedMemo = {named}
  FinalBytes <- MCFinalBytes
  Decoded <- MCDecoded
  Canonical <- MCCanonical
  Acceptable <- MCAcceptable
  Pays <- MCPays
  BoundTo <- MCBoundTo
  SignedFor <- MCSignedFor
  ByAccessKey = {high}
  Credentials <- MCCredentials
  NoCredential = NoCredential
  Faults = {"rpc", "store", "cancel", "crash"}
  MaxFaults = 1
  MaxSplits = 2
  MaxSponsored = 3
SPECIFICATION FairSpec
INVARIANTS
  PaysOnce
  ReceiptsEarned
  BroadcastOnce
  ClaimsAccounted
PROPERTIES
  PaidIsServed
