SPECIFICATION FairSpec
CONSTANTS
  Remotes = {r1}
  Locals = {l1}
INVARIANTS TypeOK MessagesChannelOpen
PROPERTIES WaitEndsAfterReaders CloseCompletes TracksWithdrawn BroadcastReturns
CHECK_DEADLOCK FALSE
