SPECIFICATION FairSpec
CONSTANTS
  Tracks = {t1}
  Transceivers = {}
  Candidates = {c1}
  MaxRenegotiate = 0
  Endings = {"disconnect"}
  Faults = {}
PROPERTIES ChangeReachesClient HandleReadyReturns RoomIsReleased CloseEndsAll
