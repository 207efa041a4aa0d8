SPECIFICATION Spec
CONSTANTS
  Tracks = {t1}
  Transceivers = {v1}
  Candidates = {c1}
  MaxRenegotiate = 1
  Endings = {"hangUp", "ice"}
  Faults = {"offer", "answer"}
INVARIANTS TypeOK OneOfferInFlight NoLostChange NoSendOnClosedChannel ForwarderNotBlockedByNegotiator MetadataCoversOffer
