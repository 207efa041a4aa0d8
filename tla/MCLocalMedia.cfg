SPECIFICATION Spec
CONSTANTS
  Peers = {p, q}
  Devices = {"front", "back"}
  Mirrored = {"front"}
  MaxRequests = 2
  MaxDials = 1
  MaxTracks = 3
INVARIANTS MediaInv PeersGetLocalTracks MenuIsTrue
SYMMETRY Symmetry
