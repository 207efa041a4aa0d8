SPECIFICATION FairSpec
CONSTANTS
  Networks = {"mesh", "sfu"}
  MaxDials = 2
  MaxStreams = 3
  MaxQueue = 1
INVARIANTS SessionInv ServerAgrees RecordingEnds HangUpWorks
PROPERTIES CallSurvivesTimers DialSettles
