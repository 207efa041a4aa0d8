---------------------------- MODULE Signalling ----------------------------
(***************************************************************************)
(* The server's side of one WebRTC peer connection: the Negotiator, the    *)
(* Signaller, the goroutine that forwards local signals to the websocket   *)
(* (SocketHandler.processLocalSignals) and the lock of the room that the   *)
(* transport lives in (RoomPeersManager.mu).  The server is the initiator  *)
(* (sfu.go: serverIsInitiator), so it makes every offer.                   *)
(*                                                                         *)
(* Every goroutine that can call into the Signaller is a thread with a     *)
(* program counter, and every mutex that is held across a blocking call is *)
(* a variable.  A step runs from one blocking call to the next.            *)
(*                                                                         *)
(* pion's PeerConnection and the browser are external: pcState, local,     *)
(* offered and stablePending say what the server's code can observe of the *)
(* former, ClientReceive and ClientSend what the latter may send.          *)
(***************************************************************************)
EXTENDS Naturals, Sequences

CONSTANTS
  Tracks,         \* media tracks of the other peers of the room
  Transceivers,   \* transceivers that the client may request
  Candidates,     \* local ICE candidates that pion gathers
  MaxRenegotiate, \* bound: how many "renegotiate" signals the client sends
  Endings,        \* bound: how the call may end: "hangUp", "disconnect", "ice"
  Faults          \* which of the calls into pion may fail: "offer", "answer"

ASSUME ConstantsAssumption ==
  /\ MaxRenegotiate \in Nat
  /\ Endings \subseteq {"hangUp", "disconnect", "ice"}
  /\ Faults \subseteq {"offer", "answer"}

VARIABLES
  \* Negotiator
  negotiationDone,    \* the channel negotiationDone is not nil
  queuedNegotiation,
  queuedTransceivers, \* queuedTransceiverRequests
  nMu,                \* the thread that blocks while it holds Negotiator.mu
  \* Signaller
  closing,            \* "open", closeChannel closed: "closing", Close ran: "closed"
  descriptionSent,    \* the channel descriptionSent is closed
  sender,             \* the payload of the goroutine that holds signalMu
  candidate,          \* where the callback of each ICE candidate is
  \* the peer connection
  pcState,            \* signaling state
  local,              \* changes made to the local media
  offered,            \* the changes that the last local description includes
  stablePending,      \* callbacks "stable" that have not run yet
  \* the room and the goroutines of the SocketHandler
  roomMu,             \* the thread that holds RoomPeersManager.mu
  inRoom,             \* the transport is in RoomPeersManager.transports
  op,                 \* the change that the holder of roomMu is making
  localTracks,        \* WebRTCTransport.localTracks
  consumer,           \* where processLocalSignals is
  current,            \* the signal it is forwarding
  metadata,           \* the tracks of the metadata message it sent last
  pc,                 \* where the other threads are
  \* websocket and client
  toClient, toServer,
  remoteKnown,        \* the changes that the client has seen in an offer
  renegotiations      \* signals "renegotiate" that the client has sent

negotiatorVars == <<negotiationDone, queuedNegotiation, queuedTransceivers, nMu>>
signallerVars == <<closing, descriptionSent, sender, candidate>>
connectionVars == <<pcState, local, offered, stablePending>>
roomVars == <<roomMu, inRoom, op, localTracks>>
consumerVars == <<consumer, current, metadata>>
clientVars == <<toClient, toServer, remoteKnown, renegotiations>>
vars == <<negotiatorVars, signallerVars, connectionVars, roomVars, consumerVars,
          pc, clientVars>>

None == "none"

(***************************************************************************)
(* "socket" runs handleReady and then the loop over websocket messages,    *)
(* "track" the RoomPeersManager for the tracks of other peers, "stable"    *)
(* the signaling state callback, "ice" the ICE connection state callback.  *)
(***************************************************************************)
Threads == {"socket", "track", "stable", "ice"}

Initial == <<"initial", "audio+video">>
Change == {Initial} \cup ({"add", "remove"} \X Tracks) \cup ({"request"} \X Transceivers)
NoOp == <<None, None>>

Payload == [type : {"offer", "candidate"}, has : SUBSET Change]
NoPayload == [type |-> None, has |-> {}]
Offer(changes) == [type |-> "offer", has |-> changes]
CandidatePayload == [type |-> "candidate", has |-> {}]

ClientMessage == {"answer", "renegotiate", "hangUp", "disconnect"} \X {None}
                   \cup {"request"} \X Transceivers

Init ==
  /\ negotiationDone = FALSE
  /\ queuedNegotiation = FALSE
  /\ queuedTransceivers = {}
  /\ nMu = None
  /\ closing = "open"
  /\ descriptionSent = FALSE
  /\ sender = [payload |-> NoPayload, ch |-> "nil"]
  /\ candidate = [c \in Candidates |-> "none"]
  /\ pcState = "stable"
  /\ local = {Initial}
  /\ offered = {}
  /\ stablePending = 0
  /\ roomMu = None
  /\ inRoom = FALSE
  /\ op = NoOp
  /\ localTracks = {}
  /\ consumer = "off"
  /\ current = NoPayload
  /\ metadata = {}
  /\ pc = [t \in Threads |-> IF t = "socket" THEN "negotiate" ELSE "idle"]
  /\ toClient = <<>>
  /\ toServer = <<>>
  /\ remoteKnown = {}
  /\ renegotiations = 0

Goto(t, label) == pc' = [pc EXCEPT ![t] = label]

SignalMuFree == sender.payload = NoPayload

(***************************************************************************)
(* Negotiator.                                                             *)
(***************************************************************************)

\* Where a thread continues when Negotiate returns: a change of a track is
\* completed, NewSignaller is followed by TracksManager.Add, and a signal of
\* the client or a callback is done.
Return(t) ==
  IF roomMu = t THEN "finish"
  ELSE IF t = "socket" /\ consumer = "off" THEN "add"
  ELSE "idle"

\* negotiate() up to the point where handleLocalOffer calls onSignal, with
\* Negotiator.mu held.  An error of CreateOffer or SetLocalDescription is
\* logged, and the negotiation is left as it is.
negotiate(t) ==
  LET changes == local \cup ({"request"} \X queuedTransceivers) IN
  /\ queuedTransceivers' = {}
  /\ local' = IF pcState = "closed" THEN local ELSE changes
  /\ \/ /\ pcState = "closed" \/ "offer" \in Faults
        /\ Goto(t, Return(t))
        /\ UNCHANGED <<nMu, pcState, offered>>
     \/ /\ pcState # "closed"
        /\ pcState' = "have-local-offer"
        /\ offered' = changes
        /\ nMu' = t
        /\ Goto(t, "signal")

\* Mutant: does not look at negotiationDone.
NegotiateAlways(t) ==
  /\ pc[t] = "negotiate"
  /\ nMu = None
  /\ negotiationDone' = TRUE
  /\ negotiate(t)
  /\ UNCHANGED <<queuedNegotiation, signallerVars, stablePending, roomVars, consumerVars,
                 clientVars>>

Negotiate(t) ==
  /\ pc[t] = "negotiate"
  /\ nMu = None
  /\ \/ /\ negotiationDone
        /\ queuedNegotiation' = TRUE
        /\ Goto(t, Return(t))
        /\ UNCHANGED <<negotiationDone, queuedTransceivers, nMu, pcState, local, offered>>
     \/ /\ ~negotiationDone
        /\ negotiationDone' = TRUE
        /\ UNCHANGED queuedNegotiation
        /\ negotiate(t)
  /\ UNCHANGED <<signallerVars, stablePending, roomVars, consumerVars, clientVars>>

\* Mutant: ends the negotiation although another one is queued.
StableCallbackDropsQueue ==
  /\ pc["stable"] = "idle"
  /\ stablePending > 0
  /\ nMu = None
  /\ stablePending' = stablePending - 1
  /\ queuedNegotiation' = FALSE
  /\ negotiationDone' = FALSE
  /\ UNCHANGED <<queuedTransceivers, nMu, signallerVars, pcState, local, offered, roomVars,
                 consumerVars, pc, clientVars>>

\* Mutant: runs for a state change that did not happen.
StableCallbackUnasked ==
  /\ pc["stable"] = "idle"
  /\ nMu = None
  /\ stablePending' = stablePending - 1
  /\ negotiationDone' = FALSE
  /\ UNCHANGED <<queuedNegotiation, queuedTransceivers, nMu, signallerVars, pcState, local,
                 offered, roomVars, consumerVars, pc, clientVars>>

\* handleSignalingStateChange(stable)
StableCallback ==
  /\ pc["stable"] = "idle"
  /\ stablePending > 0
  /\ nMu = None
  /\ stablePending' = stablePending - 1
  /\ \/ /\ queuedNegotiation
        /\ queuedNegotiation' = FALSE
        /\ UNCHANGED negotiationDone
        /\ negotiate("stable")
     \/ /\ ~queuedNegotiation
        /\ negotiationDone' = FALSE
        /\ UNCHANGED <<queuedNegotiation, queuedTransceivers, nMu, pcState, local, offered, pc>>
  /\ UNCHANGED <<signallerVars, roomVars, consumerVars, clientVars>>

\* handleSignalingStateChange(closed): pion may report the closed state.
ClosedCallback ==
  /\ pcState = "closed"
  /\ nMu = None
  /\ negotiationDone
  /\ negotiationDone' = FALSE
  /\ UNCHANGED <<queuedNegotiation, queuedTransceivers, nMu, signallerVars, connectionVars,
                 roomVars, consumerVars, pc, clientVars>>

(***************************************************************************)
(* Signaller.                                                              *)
(***************************************************************************)

\* onSignal: signalMu is locked by the caller, the goroutine it starts holds
\* it until the payload is received or the signaller is closed.
onSignal(payload) ==
  /\ SignalMuFree
  /\ sender' = [payload |-> payload, ch |-> IF closing = "closed" THEN "nil" ELSE "open"]

\* handleLocalOffer from onSignal to its end; then negotiate() returns and
\* Negotiator.mu is released.
SignalOffer(t) ==
  /\ pc[t] = "signal"
  /\ onSignal(Offer(offered))
  /\ descriptionSent' = TRUE
  /\ nMu' = None
  /\ Goto(t, Return(t))
  /\ UNCHANGED <<negotiationDone, queuedNegotiation, queuedTransceivers, closing, candidate,
                 connectionVars, roomVars, consumerVars, clientVars>>

\* pion gathers candidates as soon as a local description is set.
GatherCandidate(c) ==
  /\ candidate[c] = "none"
  /\ offered # {}
  /\ pcState # "closed"
  /\ candidate' = [candidate EXCEPT ![c] = "waiting"]
  /\ UNCHANGED <<negotiatorVars, closing, descriptionSent, sender, connectionVars, roomVars,
                 consumerVars, pc, clientVars>>

\* Mutant: does not wait for descriptionSent.
handleICECandidateAtOnce(c) ==
  /\ candidate[c] = "waiting"
  /\ onSignal(CandidatePayload)
  /\ candidate' = [candidate EXCEPT ![c] = "done"]
  /\ UNCHANGED <<negotiatorVars, closing, descriptionSent, connectionVars, roomVars,
                 consumerVars, pc, clientVars>>

handleICECandidate(c) ==
  /\ candidate[c] = "waiting"
  /\ descriptionSent
  /\ onSignal(CandidatePayload)
  /\ candidate' = [candidate EXCEPT ![c] = "done"]
  /\ UNCHANGED <<negotiatorVars, closing, descriptionSent, connectionVars, roomVars,
                 consumerVars, pc, clientVars>>

\* The select of onSignal's goroutine, case ch <- payload: the receiver is
\* the range of processLocalSignals.
SenderDelivers ==
  /\ ~SignalMuFree
  /\ sender.ch = "open"
  /\ consumer = "range"
  /\ current' = sender.payload
  /\ consumer' = IF sender.payload.type = "offer" THEN "metadata" ELSE "emit"
  /\ sender' = [payload |-> NoPayload, ch |-> "nil"]
  /\ UNCHANGED <<negotiatorVars, closing, descriptionSent, candidate, connectionVars, roomVars,
                 metadata, pc, clientVars>>

\* Mutant: with a nil channel, the goroutine does not look at closeChannel.
SenderAbortsIfOpen ==
  /\ ~SignalMuFree
  /\ closing # "open"
  /\ sender.ch = "open"
  /\ sender' = [payload |-> NoPayload, ch |-> "nil"]
  /\ UNCHANGED <<negotiatorVars, closing, descriptionSent, candidate, connectionVars, roomVars,
                 consumerVars, pc, clientVars>>

\* The same select, case <-closeChannel.
SenderAborts ==
  /\ ~SignalMuFree
  /\ closing # "open"
  /\ sender' = [payload |-> NoPayload, ch |-> "nil"]
  /\ UNCHANGED <<negotiatorVars, closing, descriptionSent, candidate, connectionVars, roomVars,
                 consumerVars, pc, clientVars>>

\* Close, up to the lock of signalMu: only the first caller runs the function
\* of closeOnce, the others wait for it.
CloseBegin(t) ==
  /\ closing' = IF closing = "open" THEN "closing" ELSE closing
  /\ Goto(t, "close")

\* Mutant: closes signalChannel without signalMu.
CloseUnlocked ==
  /\ closing = "closing"
  /\ closing' = "closed"
  /\ pcState' = "closed"
  /\ UNCHANGED <<negotiatorVars, descriptionSent, sender, candidate, local, offered, stablePending,
                 roomVars, consumerVars, pc, clientVars>>

CloseLocked ==
  /\ closing = "closing"
  /\ SignalMuFree
  /\ closing' = "closed"
  /\ pcState' = "closed"
  /\ UNCHANGED <<negotiatorVars, descriptionSent, sender, candidate, local, offered, stablePending,
                 roomVars, consumerVars, pc, clientVars>>

CloseEnd(t) ==
  /\ pc[t] \in {"close", "cleanup"}
  /\ closing = "closed"
  /\ descriptionSent' = TRUE
  /\ Goto(t, IF t = "socket" /\ pc[t] = "close" THEN "idle" ELSE "ended")
  /\ UNCHANGED <<negotiatorVars, closing, sender, candidate, connectionVars, roomVars,
                 consumerVars, clientVars>>

\* handleICEConnectionStateChange(closed, disconnected or failed)
ICEConnectionLost ==
  /\ "ice" \in Endings
  /\ pc["ice"] = "idle"
  /\ offered # {}
  /\ CloseBegin("ice")
  /\ UNCHANGED <<negotiatorVars, descriptionSent, sender, candidate, connectionVars, roomVars,
                 consumerVars, clientVars>>

(***************************************************************************)
(* The room: RoomPeersManager.Add by the socket thread, addTrack and       *)
(* removeTrack by the goroutines of the other peers, all under roomMu.     *)
(***************************************************************************)

AddBegin ==
  /\ pc["socket"] = "add"
  /\ roomMu = None
  /\ roomMu' = "socket"
  /\ Goto("socket", "room")
  /\ UNCHANGED <<negotiatorVars, signallerVars, connectionVars, inRoom, op, localTracks,
                 consumerVars, clientVars>>

\* The loop of Add over the tracks of the other transports is over: the
\* transport joins the room and handleReady starts processLocalSignals.
AddEnd ==
  /\ pc["socket"] = "room"
  /\ roomMu' = None
  /\ inRoom' = TRUE
  /\ consumer' = "range"
  /\ Goto("socket", "idle")
  /\ UNCHANGED <<negotiatorVars, signallerVars, connectionVars, op, localTracks, current,
                 metadata, clientVars>>

\* A thread has the room to itself, or takes its lock.
EntersRoom(t) ==
  \/ t = "socket" /\ pc[t] = "room" /\ UNCHANGED roomMu
  \/ t = "track" /\ pc[t] = "idle" /\ roomMu = None /\ inRoom /\ roomMu' = t

\* WebRTCTransport.AddTrack and RemoveTrack up to the call of Negotiate: on a
\* closed peer connection pion returns an error and nothing changes.
ChangeTrack(t, change) ==
  /\ EntersRoom(t)
  /\ pcState # "closed"
  /\ change \notin local
  /\ change[1] = "remove" => t = "track" /\ change[2] \in localTracks
  /\ local' = local \cup {change}
  /\ op' = change
  /\ Goto(t, "negotiate")
  /\ UNCHANGED <<negotiatorVars, signallerVars, pcState, offered, stablePending, inRoom,
                 localTracks, consumerVars, clientVars>>

\* AddTrack and RemoveTrack from the return of Negotiate.
FinishTrack(t) ==
  /\ pc[t] = "finish"
  /\ localTracks' = IF op[1] = "add" THEN localTracks \cup {op[2]} ELSE localTracks \ {op[2]}
  /\ op' = NoOp
  /\ Goto(t, IF t = "socket" THEN "room" ELSE "idle")
  /\ roomMu' = IF t = "socket" THEN roomMu ELSE None
  /\ UNCHANGED <<negotiatorVars, signallerVars, connectionVars, inRoom, consumerVars, clientVars>>

\* The goroutine of MemoryTracksManager.Add that waits for closeChannel.
RemoveFromRoom ==
  /\ closing # "open"
  /\ inRoom
  /\ roomMu = None
  /\ inRoom' = FALSE
  /\ UNCHANGED <<negotiatorVars, signallerVars, connectionVars, roomMu, op, localTracks,
                 consumerVars, pc, clientVars>>

(***************************************************************************)
(* SocketHandler.                                                          *)
(***************************************************************************)

\* Mutant: reads the tracks without the lock of the room.
ForwardMetadataUnlocked ==
  /\ consumer = "metadata"
  /\ metadata' = IF inRoom THEN localTracks ELSE metadata
  /\ consumer' = "emit"
  /\ UNCHANGED <<negotiatorVars, signallerVars, connectionVars, roomVars, current, pc, clientVars>>

\* GetTracksMetadata and the emission of the metadata message.
ForwardMetadata ==
  /\ consumer = "metadata"
  /\ roomMu = None
  /\ metadata' = IF inRoom THEN localTracks ELSE metadata
  /\ consumer' = "emit"
  /\ UNCHANGED <<negotiatorVars, signallerVars, connectionVars, roomVars, current, pc, clientVars>>

ForwardSignal ==
  /\ consumer = "emit"
  /\ toClient' = Append(toClient, current)
  /\ current' = NoPayload
  /\ consumer' = "range"
  /\ UNCHANGED <<negotiatorVars, signallerVars, connectionVars, roomVars, metadata, pc, toServer,
                 remoteKnown, renegotiations>>

\* The channel is closed: webRTCTransport becomes nil under SocketHandler.mu.
ForwardEnd ==
  /\ consumer = "range"
  /\ closing = "closed"
  /\ pc["socket"] \in {"idle", "cleanup", "ended"}
  /\ consumer' = "ended"
  /\ UNCHANGED <<negotiatorVars, signallerVars, connectionVars, roomVars, current, metadata, pc,
                 clientVars>>

\* The message that the socket thread takes next is of this type.
Receives(type) ==
  /\ pc["socket"] = "idle"
  /\ toServer # <<>>
  /\ Head(toServer)[1] = type
  /\ toServer' = Tail(toServer)
  /\ UNCHANGED <<toClient, remoteKnown, renegotiations>>

\* handleSignal after the end of the transport, or handleHangUp.
IgnoreMessage ==
  /\ consumer = "ended"
  /\ \E type \in {"answer", "renegotiate", "request", "hangUp"} : Receives(type)
  /\ UNCHANGED <<negotiatorVars, signallerVars, connectionVars, roomVars, consumerVars, pc>>

\* handleRemoteAnswer: SetRemoteDescription fails outside have-local-offer.
handleRemoteAnswer ==
  /\ consumer # "ended"
  /\ Receives("answer")
  /\ \/ /\ pcState = "have-local-offer"
        /\ pcState' = "stable"
        /\ stablePending' = stablePending + 1
     \/ /\ pcState # "have-local-offer" \/ "answer" \in Faults
        /\ UNCHANGED <<pcState, stablePending>>
  /\ UNCHANGED <<negotiatorVars, signallerVars, local, offered, roomVars, consumerVars, pc>>

HandleRenegotiate ==
  /\ consumer # "ended"
  /\ Receives("renegotiate")
  /\ Goto("socket", "negotiate")
  /\ UNCHANGED <<negotiatorVars, signallerVars, connectionVars, roomVars, consumerVars>>

\* handleTransceiverRequest: the request is queued under Negotiator.mu.
handleTransceiverRequest ==
  /\ consumer # "ended"
  /\ nMu = None
  /\ Receives("request")
  /\ queuedTransceivers' = queuedTransceivers \cup {Head(toServer)[2]}
  /\ Goto("socket", "negotiate")
  /\ UNCHANGED <<negotiationDone, queuedNegotiation, nMu, signallerVars, connectionVars, roomVars,
                 consumerVars>>

handleHangUp ==
  /\ consumer # "ended"
  /\ Receives("hangUp")
  /\ CloseBegin("socket")
  /\ UNCHANGED <<negotiatorVars, descriptionSent, sender, candidate, connectionVars, roomVars,
                 consumerVars>>

\* The loop over the messages ends.  Cleanup runs without SocketHandler.mu.
Cleanup ==
  /\ Receives("disconnect")
  /\ IF consumer = "ended"
     THEN Goto("socket", "ended") /\ UNCHANGED closing
     ELSE /\ closing' = IF closing = "open" THEN "closing" ELSE closing
          /\ Goto("socket", "cleanup")
  /\ UNCHANGED <<negotiatorVars, descriptionSent, sender, candidate, connectionVars, roomVars,
                 consumerVars>>

(***************************************************************************)
(* The client: a simple-peer that is not the initiator.  It answers every  *)
(* offer and may ask for a negotiation or for a transceiver, or leave.     *)
(***************************************************************************)

ClientReceive ==
  /\ toClient # <<>>
  /\ toClient' = Tail(toClient)
  /\ IF Head(toClient).type = "offer"
     THEN /\ remoteKnown' = Head(toClient).has
          /\ toServer' = Append(toServer, <<"answer", None>>)
     ELSE UNCHANGED <<remoteKnown, toServer>>
  /\ UNCHANGED <<negotiatorVars, signallerVars, connectionVars, roomVars, consumerVars, pc,
                 renegotiations>>

\* A message the client sends of its own accord, each request and each way
\* to leave at most once, and "renegotiate" at most MaxRenegotiate times.
ClientSend(m) ==
  /\ m[1] # "answer"
  /\ \A i \in DOMAIN toServer : toServer[i] # m
  /\ m[1] = "renegotiate" => renegotiations < MaxRenegotiate
  /\ m[1] = "request" => m \notin local /\ m[2] \notin queuedTransceivers
  /\ m[1] \in {"hangUp", "disconnect"} => m[1] \in Endings /\ closing = "open"
  /\ \A i \in DOMAIN toServer : toServer[i][1] # "disconnect"
  /\ toServer' = Append(toServer, m)
  /\ renegotiations' = renegotiations + (IF m[1] = "renegotiate" THEN 1 ELSE 0)
  /\ UNCHANGED <<negotiatorVars, signallerVars, connectionVars, roomVars, consumerVars, pc,
                 toClient, remoteKnown>>

\* Nothing is left to do until a peer acts again.
Quiescent ==
  /\ \A t \in Threads : pc[t] \in {"idle", "ended"}
  /\ SignalMuFree
  /\ stablePending = 0
  /\ consumer \in {"range", "ended"}
  /\ toClient = <<>>
  /\ toServer = <<>> \/ pc["socket"] = "ended"
  /\ UNCHANGED vars

Next ==
  \/ \E t \in Threads : Negotiate(t) \/ SignalOffer(t) \/ CloseEnd(t) \/ FinishTrack(t)
  \/ \E t \in Threads, change \in {"add", "remove"} \X Tracks : ChangeTrack(t, change)
  \/ \E c \in Candidates : GatherCandidate(c) \/ handleICECandidate(c)
  \/ StableCallback \/ ClosedCallback
  \/ SenderDelivers \/ SenderAborts
  \/ CloseLocked \/ ICEConnectionLost
  \/ AddBegin \/ AddEnd \/ RemoveFromRoom
  \/ ForwardMetadata \/ ForwardSignal \/ ForwardEnd
  \/ IgnoreMessage \/ handleRemoteAnswer \/ HandleRenegotiate \/ handleTransceiverRequest
  \/ handleHangUp \/ Cleanup
  \/ ClientReceive
  \/ \E m \in ClientMessage : ClientSend(m)
  \/ Quiescent

Spec == Init /\ [][Next]_vars

(***************************************************************************)
(* Fairness: a goroutine that can take a step again and again takes it     *)
(* (SF: most steps wait for a mutex, and Go hands a mutex over to a waiter *)
(* that starves).  The client is assumed to read its websocket.  Nobody    *)
(* has to send a message, add a track or lose the connection.              *)
(***************************************************************************)
ThreadStep(t) ==
  \/ Negotiate(t) \/ SignalOffer(t) \/ CloseEnd(t) \/ FinishTrack(t)
  \/ t = "stable" /\ StableCallback
  \/ t = "socket" /\ \/ AddBegin \/ AddEnd
                     \/ IgnoreMessage \/ handleRemoteAnswer \/ HandleRenegotiate
                     \/ handleTransceiverRequest \/ handleHangUp \/ Cleanup

Fairness ==
  /\ \A t \in Threads : SF_vars(ThreadStep(t))
  /\ \A c \in Candidates : SF_vars(handleICECandidate(c))
  /\ WF_vars(SenderDelivers \/ SenderAborts)
  /\ SF_vars(CloseLocked)
  /\ SF_vars(ForwardMetadata \/ ForwardSignal \/ ForwardEnd)
  /\ WF_vars(ClientReceive)

FairSpec == Spec /\ Fairness

-----------------------------------------------------------------------------

TypeOK ==
  /\ negotiationDone \in BOOLEAN
  /\ queuedNegotiation \in BOOLEAN
  /\ queuedTransceivers \subseteq Transceivers
  /\ nMu \in Threads \cup {None}
  /\ closing \in {"open", "closing", "closed"}
  /\ descriptionSent \in BOOLEAN
  /\ sender \in [payload : Payload \cup {NoPayload}, ch : {"open", "nil"}]
  /\ candidate \in [Candidates -> {"none", "waiting", "done"}]
  /\ pcState \in {"stable", "have-local-offer", "closed"}
  /\ local \subseteq Change
  /\ offered \subseteq Change
  /\ stablePending \in Nat
  /\ roomMu \in {"socket", "track", None}
  /\ inRoom \in BOOLEAN
  /\ op \in ({"add", "remove"} \X Tracks) \cup {NoOp}
  /\ localTracks \subseteq Tracks
  /\ consumer \in {"off", "range", "metadata", "emit", "ended"}
  /\ current \in Payload \cup {NoPayload}
  /\ consumer \in {"metadata", "emit"} => current \in Payload
  /\ metadata \subseteq Tracks
  /\ pc \in [Threads -> {"idle", "negotiate", "signal", "close", "cleanup", "ended",
                         "add", "room", "finish"}]
  /\ toClient \in Seq(Payload)
  /\ toServer \in Seq(ClientMessage)
  /\ remoteKnown \subseteq Change
  /\ renegotiations \in Nat

\* The places an offer passes through until its answer has been applied.
OfferPlaces ==
  {<<"signal", t>> : t \in {u \in Threads : pc[u] = "signal"}}
    \cup (IF sender.payload.type = "offer" THEN {<<"sender", None>>} ELSE {})
    \cup (IF current.type = "offer" THEN {<<"consumer", None>>} ELSE {})
    \cup {<<"toClient", i>> : i \in {j \in DOMAIN toClient : toClient[j].type = "offer"}}
    \cup {<<"toServer", i>> : i \in {j \in DOMAIN toServer : toServer[j][1] = "answer"}}

\* At most one offer is under way, and from SetLocalDescription until its
\* answer is applied and the callback "stable" has run, a negotiation is in
\* progress, so that Negotiate only queues (wrtcnegotiator.go:105).  The
\* threads, the websocket and the client all take part in this.
OneOfferInFlight ==
  /\ \A a, b \in OfferPlaces : a = b
  /\ OfferPlaces # {} => pcState # "stable" /\ stablePending = 0
  /\ OfferPlaces # {} \/ stablePending > 0 => negotiationDone \/ pcState = "closed"

\* An error of CreateOffer or SetLocalDescription: negotiationDone stays set,
\* nothing is under way, and no callback will come.
OfferFailed == negotiationDone /\ pcState = "stable" /\ stablePending = 0

\* A change that no offer includes yet is not forgotten: a negotiation is
\* queued, or somebody is about to call Negotiate.  The one exception is the
\* error above, after which the Negotiator never makes an offer again.
NoLostChange ==
  pcState # "closed" /\ (~(local \subseteq offered) \/ queuedTransceivers # {})
    => queuedNegotiation \/ OfferFailed \/ \E t \in Threads : pc[t] = "negotiate"

\* The goroutine of onSignal never sends on the closed signalChannel, which
\* would panic.
NoSendOnClosedChannel ==
  ~SignalMuFree /\ sender.ch = "open" => closing # "closed"

\* While processLocalSignals waits for the lock of the room to read the
\* metadata, nobody holds Negotiator.mu: a thread that held it would wait
\* for signalMu, which only processLocalSignals can make free, and it could
\* be the one that holds the lock of the room.
ForwarderNotBlockedByNegotiator == consumer = "metadata" => nMu = None

\* The metadata message that precedes an offer describes every track of the
\* offer that has not been removed in the meantime, although AddTrack
\* records the track only after it made the offer.
MetadataCoversOffer ==
  consumer = "emit" /\ current.type = "offer" /\ inRoom =>
    \A x \in Tracks : <<"add", x>> \in current.has /\ <<"remove", x>> \notin local => x \in metadata

\* Every change of the media reaches the client, or the connection closes.
ChangeReachesClient ==
  \A change \in Change : change \in local ~> change \in remoteKnown \/ closing # "open"

\* handleReady returns and processLocalSignals starts.  NewSignaller signals
\* the first offer when nobody receives from the channel yet: a candidate
\* that took signalMu before the offer would block it forever.
HandleReadyReturns == <>(consumer # "off")

\* Nobody keeps the lock of the room: it never waits for its own user.
RoomIsReleased == roomMu # None ~> roomMu = None

\* Close ends everything that waits: the forwarder, the callbacks of the
\* candidates and the callers of Close.
CloseEndsAll ==
  closing # "open" ~> /\ consumer = "ended"
                      /\ \A c \in Candidates : candidate[c] # "waiting"
                      /\ \A t \in Threads : pc[t] \in {"idle", "ended"}
=============================================================================
