SPECIFICATION FairSpec
CONSTANTS
  Rpcs = 3
  Frames = 7
  Connects = 4
  Mishaps = {"send", "pong", "lost", "provider", "repeat", "junk"}
INVARIANTS CredentialFirst RetriesOnlyUnowed FatalHasCause RpcOrder
PROPERTY RpcsLeave
CHECK_DEADLOCK FALSE
