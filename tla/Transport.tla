----------------------------- MODULE Transport -----------------------------
(***************************************************************************)
(* WebRTCTransport and its DataTransceiver (server/webrtctransport.go,     *)
(* server/datatransceiver.go): the goroutines that read from pion and      *)
(* write to the channels of the transport, the goroutines of the           *)
(* RoomPeersManager that read from these channels, and the goroutine that  *)
(* closes them when the Signaller closes.                                  *)
(*                                                                         *)
(* The critical sections of WebRTCTransport.mu are single steps, also that *)
(* of RemoveTrack, which calls Signaller.Negotiate: it does so under the   *)
(* lock of the room, and that this one is released is shown in Signalling. *)
(* RoomPeersManager.mu and DataTransceiver.mu are held while a goroutine   *)
(* waits and are modelled.                                                 *)
(* The server is the initiator: it opens the data channel in               *)
(* NewWebRTCTransport, and handleDataChannel has run in the initial state. *)
(***************************************************************************)
EXTENDS Integers, FiniteSets

CONSTANTS
  Remotes, \* tracks that the client sends
  Locals   \* tracks of other clients, each added to this transport at most once

ASSUME TracksAssumption == IsFiniteSet(Remotes) /\ IsFiniteSet(Locals)

VARIABLES
  closeChannel, \* Signaller.closeChannel is closed
  pcClosed,     \* the peer connection is closed
  wg,           \* the counter of WebRTCTransport.wg
  closer,       \* where the goroutine that closes the channels is
  track,        \* where handleTrack is for each remote track
  remoteTracks, \* WebRTCTransport.remoteTracks
  known,        \* the remote tracks that the RoomPeersManager was told of
  sender,       \* where AddTrack and its reader of RTCP are for each local track
  localTracks,  \* WebRTCTransport.localTracks
  negotiated,   \* the local tracks that the client has been offered
  removed,      \* the local tracks whose sender was removed from the connection
  pump,         \* where DataTransceiver.handleMessage is
  busy,         \* the loops of RoomPeersManager.Add that handle what they received
  roomMu,       \* the holder of RoomPeersManager.mu
  panicked      \* a goroutine wrote to a closed channel: the process is gone

closeVars == <<closeChannel, pcClosed, closer>>
remoteVars == <<track, remoteTracks, known>>
localVars == <<sender, localTracks, negotiated, removed>>
dataVars == <<pump, busy>>
vars == <<closeVars, wg, remoteVars, localVars, dataVars, roomMu, panicked>>

None == "none"

\* The loops that RoomPeersManager.Add starts, by the channel that they receive from.
Loops == {"events", "rtp", "rtcp", "messages"}

\* The places of the closing goroutine, in order.
CloserSteps == {"wait", "data", "lock", "rtp", "rtcp", "events", "done"}

\* Which channels are open follows from where the closing goroutine is.
rtpOpen == closer \in {"wait", "data", "lock", "rtp"}
rtcpOpen == rtpOpen \/ closer = "rtcp"
trackEventsOpen == closer # "done"
messagesOpen == closer \in {"wait", "data", "lock"}

LateDataClosed == closer \notin {"wait", "data", "lock"}

\* DataTransceiver.closeChannel is closed before its mutex is taken.
dataCloseChannel == closer \notin {"wait", "data"}

\* A goroutine waits in DataTransceiver.mu.Lock: no reader gets the mutex.
writerWaits == closer = "lock"

Init ==
  /\ closeChannel = FALSE
  /\ pcClosed = FALSE
  /\ wg = 0
  /\ closer = "wait"
  /\ track = [r \in Remotes |-> "none"]
  /\ remoteTracks = {}
  /\ known = {}
  /\ sender = [l \in Locals |-> "none"]
  /\ localTracks = {}
  /\ negotiated = {}
  /\ removed = {}
  /\ pump = "idle"
  /\ busy = {}
  /\ roomMu = None
  /\ panicked = FALSE

-----------------------------------------------------------------------------
(* Closing *)

\* Signaller.Close closes the channel first and the connection later.
Close ==
  /\ ~closeChannel
  /\ closeChannel' = TRUE
  /\ UNCHANGED <<pcClosed, wg, closer, remoteVars, localVars, dataVars, roomMu, panicked>>

ClosePeerConnection ==
  /\ closeChannel /\ ~pcClosed
  /\ pcClosed' = TRUE
  /\ UNCHANGED <<closeChannel, wg, closer, remoteVars, localVars, dataVars, roomMu, panicked>>

Closer(from, to) ==
  /\ closer = from
  /\ closer' = to
  /\ UNCHANGED <<closeChannel, pcClosed, wg, remoteVars, localVars, dataVars, roomMu,
                 panicked>>

CloserSkipsWait == closeChannel /\ Closer("wait", "data")

\* <-signaller.CloseChannel(); transport.wg.Wait()
CloserWait == closeChannel /\ wg = 0 /\ Closer("wait", "data")

\* DataTransceiver.Close: close(closeChannel), then Lock, then close(messagesChan)
CloseData == Closer("data", "lock")
CloseMessages == pump = "idle" /\ Closer("lock", "rtp")

CloseRTP == Closer("rtp", "rtcp")
CloseRTCP == Closer("rtcp", "events")
CloseTrackEvents == Closer("events", "done")

CloserStep ==
  CloserWait \/ CloseData \/ CloseMessages \/ CloseRTP \/ CloseRTCP \/ CloseTrackEvents

-----------------------------------------------------------------------------
(* Remote tracks: handleTrack and its goroutine *)

TrackTo(r, from, to) ==
  /\ track[r] = from
  /\ track' = [track EXCEPT ![r] = to]
  /\ UNCHANGED <<closeVars, localVars, pump, roomMu, panicked>>

\* pion starts a goroutine for the callback; it may run late.
OnTrack(r) ==
  /\ ~pcClosed
  /\ TrackTo(r, "none", "called")
  /\ UNCHANGED <<busy, wg, remoteTracks, known>>

\* addRemoteTrack; the goroutine then blocks on trackEventsCh.
HandleTrack(r) ==
  /\ TrackTo(r, "called", "adding")
  /\ remoteTracks' = remoteTracks \cup {r}
  /\ UNCHANGED <<busy, wg, known>>

\* The RoomPeersManager takes an event.
TakeAddEvent(r) ==
  /\ trackEventsOpen /\ "events" \notin busy
  /\ busy' = busy \cup {"events"}
  /\ TrackTo(r, "adding", "added")
  /\ known' = known \cup {r}
  /\ UNCHANGED <<wg, remoteTracks>>

\* Only now is the goroutine counted.
StartReading(r) ==
  /\ TrackTo(r, "added", "reading")
  /\ wg' = wg + 1
  /\ UNCHANGED <<busy, remoteTracks, known>>

\* track.ReadRTP returns a packet, also one that was buffered before the close.
ReadRTP(r) ==
  /\ TrackTo(r, "reading", "packet")
  /\ UNCHANGED <<busy, wg, remoteTracks, known>>

TakeRTP(r) ==
  /\ rtpOpen /\ "rtp" \notin busy
  /\ busy' = busy \cup {"rtp"}
  /\ TrackTo(r, "packet", "reading")
  /\ UNCHANGED <<wg, remoteTracks, known>>

TrackEndsSilently(r) ==
  /\ TrackTo(r, "reading", "removed")
  /\ remoteTracks' = remoteTracks \ {r}
  /\ UNCHANGED <<busy, wg, known>>

\* track.ReadRTP fails: removeRemoteTrack, then the goroutine blocks on trackEventsCh.
TrackEnds(r) ==
  /\ TrackTo(r, "reading", "removing")
  /\ remoteTracks' = remoteTracks \ {r}
  /\ UNCHANGED <<busy, wg, known>>

TakeRemoveEvent(r) ==
  /\ trackEventsOpen /\ "events" \notin busy
  /\ busy' = busy \cup {"events"}
  /\ TrackTo(r, "removing", "removed")
  /\ known' = known \ {r}
  /\ UNCHANGED <<wg, remoteTracks>>

TrackDone(r) ==
  /\ TrackTo(r, "removed", "done")
  /\ wg' = wg - 1
  /\ UNCHANGED <<busy, remoteTracks, known>>

-----------------------------------------------------------------------------
(* Local tracks: AddTrack, RemoveTrack and the reader of RTCP.  The
   RoomPeersManager calls both with its mutex held. *)

SenderTo(l, from, to) ==
  /\ sender[l] = from
  /\ sender' = [sender EXCEPT ![l] = to]
  /\ UNCHANGED <<closeVars, remoteVars, pump, panicked>>

\* peerConnection.AddTrack, which fails on a closed connection, and Negotiate.
AddTrack(l) ==
  /\ roomMu = None
  /\ ~pcClosed
  /\ roomMu' = "track"
  /\ SenderTo(l, "none", "added")
  /\ UNCHANGED <<busy, wg, localTracks, negotiated, removed>>

AddTrackUncounted(l) ==
  /\ roomMu' = None
  /\ localTracks' = localTracks \cup {l}
  /\ SenderTo(l, "added", "reading")
  /\ UNCHANGED <<busy, wg, negotiated, removed>>

\* The rest of AddTrack: wg.Add, the goroutine, localTracks.
AddTrackReturns(l) ==
  /\ roomMu' = None
  /\ localTracks' = localTracks \cup {l}
  /\ wg' = wg + 1
  /\ SenderTo(l, "added", "reading")
  /\ UNCHANGED <<busy, negotiated, removed>>

(***************************************************************************)
(* The client is offered the track.  processLocalSignals takes             *)
(* RoomPeersManager.mu for the metadata before it emits an offer.          *)
(***************************************************************************)
Negotiated(l) ==
  /\ roomMu = None
  /\ ~pcClosed
  /\ sender[l] \in {"added", "reading"}
  /\ l \notin negotiated \cup removed
  /\ negotiated' = negotiated \cup {l}
  /\ UNCHANGED <<closeVars, wg, remoteVars, sender, localTracks, removed, dataVars,
                 roomMu, panicked>>

\* sender.ReadRTCP returns packets of a client that receives the track.
ReadRTCP(l) ==
  /\ l \in negotiated
  /\ SenderTo(l, "reading", "packet")
  /\ UNCHANGED <<busy, wg, localTracks, negotiated, removed, roomMu>>

\* Of the packets, only some need the mutex of the room.
TakeRTCP(l) ==
  /\ rtcpOpen /\ "rtcp" \notin busy
  /\ busy' \in {busy, busy \cup {"rtcp"}}
  /\ SenderTo(l, "packet", "reading")
  /\ UNCHANGED <<wg, localTracks, negotiated, removed, roomMu>>

\* sender.ReadRTCP fails.
SenderEnds(l) ==
  /\ pcClosed \/ l \in removed
  /\ SenderTo(l, "reading", "done")
  /\ wg' = wg - 1
  /\ UNCHANGED <<busy, localTracks, negotiated, removed, roomMu>>

\* RemoveTrack fails for a track it does not know and on a closed connection.
RemoveTrack(l) ==
  /\ roomMu = None
  /\ l \in localTracks
  /\ ~pcClosed
  /\ removed' = removed \cup {l}
  /\ localTracks' = localTracks \ {l}
  /\ UNCHANGED <<closeVars, wg, remoteVars, sender, negotiated, dataVars, roomMu, panicked>>

-----------------------------------------------------------------------------
(* Messages: DataTransceiver and the goroutines that broadcast *)

DataStep(p, b) ==
  /\ pump' = p
  /\ busy' = b
  /\ UNCHANGED <<closeVars, wg, remoteVars, localVars, panicked>>

HandleMessageUnchecked ==
  /\ pump = "idle" /\ ~writerWaits
  /\ DataStep("sending", busy)
  /\ UNCHANGED roomMu

\* handleMessage takes the mutex as a reader; ch is nil once messagesChan is closed.
HandleMessage ==
  /\ pump = "idle" /\ ~writerWaits
  /\ DataStep(IF messagesOpen THEN "sending" ELSE "nil", busy)
  /\ UNCHANGED roomMu

\* case <-d.closeChannel
MessageDropped ==
  /\ pump # "idle" /\ dataCloseChannel
  /\ DataStep("idle", busy)
  /\ UNCHANGED roomMu

\* case ch <- msg
TakeMessage ==
  /\ pump = "sending" /\ messagesOpen /\ "messages" \notin busy
  /\ DataStep("idle", busy \cup {"messages"})
  /\ UNCHANGED roomMu

(***************************************************************************)
(* A loop handles what it received with the mutex of the room: addTrack,   *)
(* removeTrack, the forwarding of a packet, getTransportBySSRC or the      *)
(* broadcast of this client's message to the others.                       *)
(***************************************************************************)
Handle(g) ==
  /\ g \in busy /\ roomMu = None
  /\ DataStep(pump, busy \ {g})
  /\ UNCHANGED roomMu

\* RoomPeersManager.broadcast of another client's message takes the room's mutex ...
BroadcastHere ==
  /\ roomMu = None
  /\ roomMu' = "other"
  /\ UNCHANGED <<closeVars, wg, remoteVars, localVars, dataVars, panicked>>

\* ... and SendText, Send of this transport take the mutex of the data channel.
SendText ==
  /\ roomMu = "other"
  /\ ~writerWaits
  /\ roomMu' = None
  /\ UNCHANGED <<closeVars, wg, remoteVars, localVars, dataVars, panicked>>

-----------------------------------------------------------------------------

\* Goroutines that are blocked in a write to a channel that was closed.
WritesToClosed(r) ==
  \/ track[r] \in {"adding", "removing"} /\ ~trackEventsOpen
  \/ track[r] = "packet" /\ ~rtpOpen
RTCPToClosed(l) == sender[l] = "packet" /\ ~rtcpOpen
MessageToClosed == pump = "sending" /\ ~messagesOpen

\* The runtime panics and the process ends.
Panic ==
  /\ \/ \E r \in Remotes : WritesToClosed(r)
     \/ \E l \in Locals : RTCPToClosed(l)
     \/ MessageToClosed
  /\ panicked' = TRUE
  /\ UNCHANGED <<closeVars, wg, remoteVars, localVars, dataVars, roomMu>>

RemoteStep(r) ==
  \/ HandleTrack(r) \/ TakeAddEvent(r) \/ StartReading(r) \/ TakeRTP(r)
  \/ TakeRemoveEvent(r) \/ TrackDone(r)

LocalStep(l) == AddTrackReturns(l) \/ TakeRTCP(l)

Next ==
  /\ ~panicked
  /\ \/ Close \/ ClosePeerConnection \/ CloserStep
     \/ \E r \in Remotes : OnTrack(r) \/ RemoteStep(r) \/ ReadRTP(r) \/ TrackEnds(r)
     \/ \E l \in Locals : \/ AddTrack(l) \/ LocalStep(l) \/ Negotiated(l)
                          \/ ReadRTCP(l) \/ SenderEnds(l) \/ RemoveTrack(l)
     \/ HandleMessage \/ MessageDropped \/ TakeMessage
     \/ \E g \in Loops : Handle(g)
     \/ BroadcastHere \/ SendText
     \/ Panic

Spec == Init /\ [][Next]_vars

(***************************************************************************)
(* Goroutines that can run do run.  Strong fairness: a read from a closed  *)
(* connection fails once the few buffered packets are read, a mutex that   *)
(* is released again and again is taken in the end, and the goroutines     *)
(* that wait to send on a channel are served in order.                     *)
(***************************************************************************)
Fairness ==
  /\ WF_vars(~panicked /\ ClosePeerConnection)
  /\ WF_vars(~panicked /\ CloserStep)
  /\ WF_vars(~panicked /\ (MessageDropped \/ TakeMessage))
  /\ \A g \in Loops : SF_vars(~panicked /\ Handle(g))
  /\ WF_vars(~panicked /\ SendText)
  /\ WF_vars(~panicked /\ Panic)
  /\ \A r \in Remotes : /\ WF_vars(~panicked /\ RemoteStep(r))
                        /\ SF_vars(~panicked /\ pcClosed /\ TrackEnds(r))
  /\ \A l \in Locals : /\ WF_vars(~panicked /\ LocalStep(l))
                       /\ SF_vars(~panicked /\ SenderEnds(l))

FairSpec == Spec /\ Fairness

-----------------------------------------------------------------------------
(* Properties *)

\* The state is well formed; in particular the WaitGroup never goes below zero.
TypeOK ==
  /\ closeChannel \in BOOLEAN /\ pcClosed \in BOOLEAN /\ panicked \in BOOLEAN
  /\ wg \in Nat
  /\ closer \in CloserSteps
  /\ track \in [Remotes -> {"none", "called", "adding", "added", "reading", "packet",
                            "removing", "removed", "done"}]
  /\ remoteTracks \subseteq Remotes /\ known \subseteq Remotes
  /\ sender \in [Locals -> {"none", "added", "reading", "packet", "done"}]
  /\ localTracks \subseteq Locals /\ negotiated \subseteq Locals /\ removed \subseteq Locals
  /\ pump \in {"idle", "sending", "nil"} /\ busy \subseteq Loops
  /\ roomMu \in {None, "track", "other"}

(***************************************************************************)
(* When the closing goroutine stops waiting, every reader that AddTrack or *)
(* handleTrack counted has ended: each wg.Add has its wg.Done after the    *)
(* last write of the reader.                                               *)
(***************************************************************************)
WaitEndsAfterReaders ==
  [][closer = "wait" /\ closer' # "wait" =>
       /\ \A r \in Remotes : track[r] \notin {"reading", "packet", "removing", "removed"}
       /\ \A l \in Locals : sender[l] \notin {"reading", "packet"}]_vars

\* handleMessage never writes to messagesChan after it is closed.
MessagesChannelOpen == ~MessageToClosed

(***************************************************************************)
(* The comment in NewWebRTCTransport, webrtctransport.go:220: "do not      *)
(* close channels before all writing goroutines exit".                     *)
(***************************************************************************)
ChannelsOpenForWriters ==
  /\ \A r \in Remotes : ~WritesToClosed(r)
  /\ \A l \in Locals : ~RTCPToClosed(l)

(***************************************************************************)
(* When the Signaller closes, the closing goroutine ends: no reader keeps  *)
(* it waiting in the WaitGroup and no message in the data channel's mutex. *)
(***************************************************************************)
CloseCompletes == closeChannel ~> (closer = "done" \/ panicked)

\* After the close every announced track is withdrawn from the room.
TracksWithdrawn == closeChannel ~> (known = {} \/ panicked)

(***************************************************************************)
(* A broadcast to this transport ends even while its data channel closes,  *)
(* so the mutex of the room is released.                                   *)
(***************************************************************************)
BroadcastReturns == (roomMu = "other") ~> (roomMu = None \/ panicked)
=============================================================================
