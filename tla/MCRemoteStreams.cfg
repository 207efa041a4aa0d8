SPECIFICATION Spec
CONSTANTS
  Users = {u1, u2}
  UserId = me
  Server = server
  ME = ME
  Lines <- MCLines
  StreamIds = {s1, s2}
  MaxSent = 2
SYMMETRY Symmetry
INVARIANTS StoreInv PlayingIsShown
PROPERTY NoGhostAfterOffer
