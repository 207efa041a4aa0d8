SPECIFICATION Spec
CONSTANTS
  Clients = {c1, c2, c3}
  Media = {video}
  Senders = {c1}
  MaxReady = 2
  Rejoiners = {c1}
SYMMETRY Symmetry
INVARIANTS RoomInv RoomConverges NoGhostTracks MetadataNamesOwner
CHECK_DEADLOCK FALSE
