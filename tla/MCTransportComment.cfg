SPECIFICATION Spec
CONSTANTS
  Remotes = {r1}
  Locals = {l1}
INVARIANT ChannelsOpenForWriters
CHECK_DEADLOCK FALSE
