SPECIFICATION Spec
CONSTANTS
  Passwords = {"a", "b"}
  Mids = {m1, m2}
  Users = {u1, u2}
  Senders = {s1}
  MaxMessages = 6
INVARIANTS ContextsInv DecryptSettled FramesAreProtected
CHECK_DEADLOCK FALSE
