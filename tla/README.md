# A verification project for meeting (a Peer Calls server and client)

The repository is a video conferencing program: a Go server (`server/`) that
signals over websockets and forwards media between WebRTC peer connections, and a
TypeScript/React client (`src/client/`). This directory holds TLA+ models of the
parts where the order of events decides whether the program is correct, the TLC
runs that check them on small instances, and TLAPS proofs for all instances.

## 1. The system

### Server

| part | state | operations | hard part |
|---|---|---|---|
| Negotiator (`wrtcnegotiator.go`) | `negotiationDone`, `queuedNegotiation`, `queuedTransceiverRequests`, `mu` | `Negotiate`, `AddTransceiverFromKind`, `handleSignalingStateChange`, `Done` | pion calls back in goroutines; `mu` is held while an offer waits for `signalMu` |
| Signaller (`wrtcsignaller.go`, `wrtcsignals.go`) | `signalMu`, `signalChannel`, `closeChannel`, `closed`, `descriptionSent` | `onSignal`, `Close`, `handleICECandidate`, `Signal`, `handleLocalOffer`, `handleRemoteSDP` | an unbuffered channel written by goroutines that hold a mutex and closed by others |
| WebRTCTransport (`webrtctransport.go`, `datatransceiver.go`) | `localTracks`, `remoteTracks`, four channels, a `WaitGroup` | `AddTrack`, `RemoveTrack`, `handleTrack`, `WriteRTP`, the goroutine that closes the channels | channels are closed when the signaller closes, while pion may still call back |
| RoomPeersManager, MemoryTracksManager (`tracksmanager.go`) | transports by client, `clientIDBySSRC`, estimators | `Add`, `Remove`, `addTrack`, `removeTrack`, `broadcast`, `GetTracksMetadata` | one lock for the room, held across calls into every transport |
| TrackBitrateEstimators (`remb.go`) | estimates by track and receiver, a cached minimum | `Estimate`, `Remove`, `RemoveReceiverEstimations` | the cache has to agree with the estimates after any sequence of calls |
| SocketHandler (`sfu.go`) | `webRTCTransport` | `handleReady`, `handleSignal`, `handleHangUp`, `processLocalSignals`, `Cleanup` | a second `ready` while the goroutines of the first transport still end |
| jitter buffer (`buffer.go`, `jitterbuffer.go`, `jitter.go`) | a ring of packets by 16-bit sequence number | `Push`, `GetPacket`, `HandleNack` | wrap-around of sequence numbers and timestamps |
| RoomManager, adapters, WSS, mesh handler (`room.go`, `memoryadapter.go`, `redisadapter.go`, `wssub.go`, `wsclient.go`, `mesh.go`) | rooms with a reference count, clients with metadata, room records | `Enter`, `Exit`, `Add`, `Remove`, `SetMetadata`, `Broadcast`, `Emit`, the mesh messages | reconnects with the same client ID, several server instances over Redis |
| HTTP: mux, auth, config, templates, metrics, ICE credentials | - | request handlers | stateless |

### Client

| part | state | operations | hard part |
|---|---|---|---|
| websocket (`ws/index.ts`, `socket.ts`) | `ws`, `connected`, `pingInterval`, the reconnect timer | `connect`, `wsHandleOpen`, `wsHandleClose`, `emit` | a socket is lost and reconnects at any time; `send` throws while it connects |
| call session (`actions/CallActions.ts`, `actions/SocketActions.ts`, `components/Media.tsx`, `components/App.tsx`, `reducers/media.ts`) | the dial state, listeners of the socket, timers of dials | `handleSubmit`, `dial`, `handshake`, `hangUp`, `handleUsers`, `handleRecordCallback` | answers and timers of an earlier dial, listeners that stay |
| remote streams (`reducers/streams.ts`, `reducers/nicknames.ts`, `actions/PeerActions.ts`, `components/Videos.tsx`) | streams by user, metadata and tracks by peer and mid, nicknames | `addTrack`, `removeTrack`, `setMetadata`, `removePeer`, `unassociateUserTracks`, the track events | metadata and tracks arrive in either order, over two connections |
| local media (`reducers/peers.ts`, `reducers/streams.ts`, `actions/MediaActions.ts`, `components/DeviceDropdown.tsx`) | local streams (twice: one copy for the peers), tracks, the senders of each peer | `getMediaStream`, `getMediaTrack`, `getDesktopStream`, `handleConnect`, the menus | the browser answers late and in any order, peers connect meanwhile, reducers throw half-way |
| recording (`reducers/streams.ts`) | `isRecording`, `peerInstance` | `recordLocalStream`, `stopRecordLocalStream` and their variants for one stream | flags that are toggled, a peer that is replaced |
| chat (`messaging.ts`, `codec/`, `actions/ChatActions.ts`, `reducers/messages.ts`) | message counter, partial messages, the list | `encode`, `decode`, `sendText`, `sendFile` | chunks go to the peers of the moment, 16-bit counters |
| encryption (`insertable-streams/index.ts`) | encryption context, decryption contexts by mid, metadata by mid, senders seen | `setPassword`, `encrypt`, `decrypt`, `handlePassword`, `handleMetadata`, the frame transforms | keys are derived asynchronously while the password changes |
| notifications, rendering | - | - | not modelled |

### How the parts interact

A websocket connection runs `WSS.Subscribe`, which enters the room's adapter and
feeds a handler: mesh (clients connect to each other) or SFU (every client connects
to the server). In the SFU, `ready` creates a transport whose Signaller immediately
makes an offer; `MemoryTracksManager.Add` puts the transport into the room and
starts goroutines that move track events, RTP, RTCP and data between transports;
`processLocalSignals` takes signals from the Signaller's channel and emits them to
the client. Every change of the tracks of a room calls `Negotiate` on the other
transports, under the lock of the room; `processLocalSignals` takes the same lock
to read the metadata it sends before an offer.

The client joins with `ready` and is told the `users`; it creates a simple-peer
connection for each (in a mesh) or one to the server (SFU). Tracks then come from the
browser and their owners from `metadata` messages; `reducers/streams.ts` brings the two
together. What is sent is decided in two reducers, `streams.ts` (what the user sees)
and `peers.ts` (what the connections have), both fed by the promises of
`async/middleware.ts`. Chat messages go over the data channels of all peers in chunks;
media frames pass the encryption worker.

## 2. The modules

| module | models | state and actions |
|---|---|---|
| `Signalling` | `wrtcnegotiator.go`, `wrtcsignaller.go`, the part of `sfu.go` that forwards signals, and what they do with the lock of the room | every goroutine is a thread with a program counter (`pc`, `consumer`, `sender`, `candidate`), every mutex that is held across a blocking call is a variable (`nMu`, `roomMu`, `signalMu` through `sender`); a step runs from one blocking call to the next |
| `Transport` | the goroutines and channels of `webrtctransport.go` and `datatransceiver.go`, and the loops of `RoomPeersManager.Add` that receive from them | `closer` is where the closing goroutine is (which channels are open follows from it), `wg` the WaitGroup, `track`/`sender` the readers of each track, `busy` the loops that need the lock of the room, `pump` the message that waits in `handleMessage` |
| `SFURoom` | `sfu.go` and `tracksmanager.go` for one room of several clients | a step is a critical section of `RoomPeersManager.mu` or `MemoryTracksManager.mu`; a client gets a new transport every time it is ready, and managers are named by the transport they were created for; `localTracks` is the map by SSRC, `senders` counts what the peer connection has, which may be more |
| `BitrateEstimators` | `remb.go` | one action per method: the mutex is held for the whole call |
| `BitrateLimit` | the abstract specification that `BitrateEstimators` implements | the reports only, no cache |
| `EncryptionWorker` | `insertable-streams/index.ts`: the worker, and `InsertableStreamsCodec`, which feeds it | one action per message and one per finished key; keys finish in any order; `EncryptFrame` and `DecryptFrame` say what becomes of a frame in a state |
| `CallSession` | `ws/index.ts`, `CallActions.ts`, `SocketActions.ts`, `reducers/media.ts`, the join form, the hang-up, and the recording half of `reducers/streams.ts`; of the server, `mesh.go` (`MeshHandles`) and the `SocketHandler` of `sfu.go` (`SfuHandles`, `TransportCloses`, `SignalsEnd`) | one action per event: socket, timer, promise, message, button. A dial is one run of `handleSubmit`. `network` says which of the two servers it is; the other user is `OtherUser` and `OtherRecords` |
| `LocalMedia` | `reducers/peers.ts`, the local half of `reducers/streams.ts`, `MediaActions.ts`, `DeviceDropdown.tsx`, `PeerHandler.handleConnect` | requests to the browser are a bag, answered in any order; dials are resolved or rejected; a reducer that throws ends its dispatch where it is; `desktopFirst` is the order of the keys of `localStreams`, in which `handleConnect` goes |
| `RemoteStreams` | the remote half of `reducers/streams.ts`, `nicknames.ts`, the track events of `PeerActions.ts`, `Videos.getStreams` | the reducer's cases as functions of `tracks` and `streams`, one action per event that dispatches them; the browser's receivers and what the others send |
| `Chat` | `messaging.ts`, `codec/`, `ChatActions.ts`, `PeerHandler.handleData`, `reducers/messages.ts` | encoder, worker and decoder of several users, byte by byte, over connections that open and close |
| `GoMaps` | maps (Go) and objects (TypeScript) as functions | `Put`, `Delete`, `Get` |
| `MCSignalling`, `MCRemoteStreams`, `MCLocalMedia`, `MCChat` | symmetry sets and structured constants for TLC | |
| `SignallingProofs`, `TransportProofs`, `SFURoomProofs`, `EncryptionWorkerProofs`, `RemoteStreamsProofs`, `CallSessionProofs`, `LocalMediaProofs`, `ChatProofs` | theorems about the module of the name; `TransportProofs` also has those about `BitrateEstimators`, which runs in the loops of a transport | |

The modules look at the same program at different depths. `Signalling` has one
transport, its signals and the lock of its room, and says that the lock is always
released; `Transport` takes this for granted (`Negotiated`, `AddTrack`) and looks at
the channels and the close; `SFURoom` has all transports of a room and takes the
steps of the others as atomic: that events of tracks are delivered is
`TracksWithdrawn` in `Transport`. `BitrateEstimators` is called from the loops that
`Transport` calls `"rtcp"` and `"events"`.

The four client modules divide one store. `reducers/streams.ts` is in three of them:
its remote tracks (`RemoteStreams`), local streams (`LocalMedia`) and recording
(`CallSession`) share no fields but `localStreams`, which `CallSession` has as numbered
streams and `LocalMedia` with their tracks. Peers come and go, in `RemoteStreams` at any
time, and in `LocalMedia` from a dial to the hang-up, also after the dial was rejected;
both include every order that `CallSession` allows. `LocalMedia` counts the open dials and
leaves to `CallSession` which of them is answered. The callbacks of the browser run to their end, so a
step is a callback with the promise continuations that follow it.

Names follow the source where a definition stands for a function. Definitions named
after another one (`NegotiateAlways`, `CloserSkipsWait`, `RemoveRoomAlways`, ...) are
variants with a plausible mistake. No specification uses them; they show that the
properties would notice the mistake.

External code is modelled by what the code above observes of it: pion (an offer may
fail; callbacks run in goroutines of their own, `OnTrack` also late; `AddTrack` and
`RemoveTrack` fail on a closed connection; reads fail after the close once the
buffered packets are read), simple-peer in the browser (it answers every offer, and
may ask for renegotiation or transceivers; it keeps a sender for every pair of track and
stream that was added, throws if the pair is added again or replaced without having been
added, and throws when called after it was destroyed), the browser's WebSocket (`send`
throws while connecting and discards when closed) and its receivers (one track per media
line; a track that an offer leaves out is muted), WebCrypto (a key takes any time) and the
Go runtime (a send on a closed channel ends the process).

Some steps of the code are taken together. `RemoveTrack` holds `WebRTCTransport.mu` while
it calls `Negotiate` (webrtctransport.go:293); it is only called under the lock of the
room, which `Signalling` follows through the same call. `mesh.go:150` stores the recording
status after it was broadcast; to the client a `users` message in between is one more
start. A frame is encrypted with the key it began with, although it leaves after an await
(`EncryptFrame`). In `RemoteStreams` the metadata that the client gets fits the offer that
follows it; the server may send newer metadata (`MetadataCoversOffer` says what is sure).
The SFU's forwarding of chat (tracksmanager.go:115) is one step of `Chat`, since the
properties begin when a chunk is given to a connection.

## 3. What TLC checks

| run | instance | shows |
|---|---|---|
| `signalling_safety` | 1 track, 1 transceiver request, 1 candidate, 1 renegotiation, the client may hang up and the connection may be lost, offers and answers may fail (1.6M states) | `OneOfferInFlight`: never two offers under way, and `Negotiate` queues until the callback of the last answer has run. `NoLostChange`: a change of the media that no offer has is never forgotten, except after a failed offer. `NoSendOnClosedChannel`. `ForwarderNotBlockedByNegotiator`: no cycle through the lock of the room. `MetadataCoversOffer`: the metadata sent ahead of an offer describes its tracks |
| `signalling_live` | 1 track, 1 candidate, the websocket may be closed (16k states) | `ChangeReachesClient`, `HandleReadyReturns`, `RoomIsReleased`, `CloseEndsAll` |
| `transport` | 1 track in each direction (54k states) | `WaitEndsAfterReaders`: when `wg.Wait` returns, every counted reader has done its last write. `MessagesChannelOpen`. `CloseCompletes`, `TracksWithdrawn`, `BroadcastReturns`: the close ends, withdraws the tracks, and never keeps the lock of the room. `TypeOK` includes that the WaitGroup never goes below zero |
| `transport_comment` | 1 track in each direction | the counterexample to the comment at webrtctransport.go:220, see section 5 |
| `room` | 3 clients; one sends and is ready twice (1.8M states) | `RoomConverges`, `NoGhostTracks`, `MetadataNamesOwner`: in whatever order clients join and leave and events are handled, members have exactly the handled tracks of the others, with their owners, and no sender for one that has ended, except one per track that the member was given twice (`early`). `OpenTransportsShareRoom` until a client is ready twice; `RoomIsForgotten` |
| `bitrate` | 3 receivers, 2 tracks, 3 rates (20k states) | `CacheIsLowerBound` and the refinement `ImplementsLimit` |
| `encryption` | 2 passwords, 2 mids, 2 users, 1 sender, 6 messages (0.6M states) | `DecryptKeyFits`, `MetadataDecides`, `DecryptSettled` for what is received. `FramesAreProtected`: while a password is set nothing that passes the worker leaves it in clear, and once keys are made, nothing with the key of an earlier password |
| `encryption_regenerated` | the same | the counterexample to the comment at index.ts:367, see section 5 |
| `streams` | 2 users, 2 lines from the SFU or 1 from each user in a mesh, 2 stream IDs (45k states with symmetry) | `OneStreamPerTrack`: the two tables of the reducer agree, so its early returns for streams that are not found are never taken. `OwnerIsMetadata`. `PlayingIsShown`: an unmuted track of a known user is shown once, as that user's. `NoGhostAfterOffer` |
| `chat` | 3 users in a mesh or with the SFU, 3 messages or files of up to 2 chunks, 1 lost connection, message IDs that return at once (0.5M states) | `Intact`, `InOrder`, `NothingLost`: messages arrive byte for byte, in order, and all that were given to a connection |
| `call` | a mesh server or the SFU, 2 dials, 3 local streams, 1 message under way in each direction (1.4M states) | `PingsWhileOpen`, `NoPeersWhenHungUp`. `ServerAgrees`: the server takes the client for no more than the client shows, and for no less unless the SFU refused or withdrew it. `RecordingEnds`: a recording connection does not outlive the recording. `HangUpWorks`: hanging up does not throw. `CallSurvivesTimers`: only hanging up ends a call. `DialSettles`: a dial ends although nobody answers |
| `local_media` | 2 peers, 2 cameras (one mirrored), 2 requests at a time, 1 dial at a time, 3 tracks (3.3M states with symmetry) | `SentTracksAreLive`: no peer is sent a stopped track. `PeersGetLocalTracks`: connected peers are sent exactly the local tracks. `MirrorFitsDevice`. `OffIsOff`: "No Video" sends no enabled camera. `OnIsOn`: the camera that the menu shows is the one in use, and enabled |

Where several facts together are what a module's actions keep up between steps, the runs
check them as one invariant, a conjunction of named parts that begins with the type
invariant; it is also the form in which they are proved. `RoomInv` is `TypeOK`,
`OpenTransportsShareRoom` and `RoomIsForgotten`; `ContextsInv` is `TypeOK`,
`DecryptKeyFits` and `MetadataDecides`; `StoreInv` is `TypeOK`, `OneStreamPerTrack` and
`OwnerIsMetadata`; `ListsAreFaithful` is `TypeOK`, `Intact` and `InOrder`; `SessionInv` is
`TypeOK`, `PingsWhileOpen` and `NoPeersWhenHungUp`; `MediaInv` is `TypeOK`,
`SentTracksAreLive` and `MirrorFitsDevice`; `MenuIsTrue` is `OffIsOff` and `OnIsOn`. Every
part has a variant of the code that breaks it.

### Conditions in the properties

Several properties hold with an exception. Each exception is a history
variable that names one situation, so that a property still speaks about everything
else, and each is a real behaviour: TLC shows it when the condition is dropped.

| variable | set when | without it |
|---|---|---|
| `early` (`SFURoom`, per transport and track) | a client joined after `addRemoteTrack` and before `addTrack`, and so was given the track twice | the first sender is in no map and is never removed (`NoGhostTracks`) |
| `lost` (`CallSession`) | an open socket was lost | the server has forgotten a client that shows a call: nothing sends `ready` again (`ServerAgrees`) |
| `withdrawn` | the SFU refused the last `ready`, because the old transport was still there (sfu.go:168) or a new one could not be made, or the peer connection has ended since (sfu.go:250) | the client shows a call that the SFU has no transport for (second half of `ServerAgrees`; the first half needs no such condition) |
| `failed` | a dial was rejected since the last hang-up | its `ready` is not withdrawn and its listeners stay, so late `users` create peers behind the join form (`ServerAgrees`, `NoPeersWhenHungUp`) |
| `"mixed"` in `incidents` | recording was started or stopped other than in turn (two handlers of `record_callback`, or a start that repeats the one before), or started while a screen is shared | a recording connection stays, or removing a stream throws and the user cannot leave (`RecordingEnds`, `HangUpWorks`) |
| `"late"` in `incidents` | a start of the recording was handled after hanging up | the recording connection is made then, and stays (`RecordingEnds`) |
| `"cut"` in `incidents` | since the last start the recording service dropped the connection, or a camera or microphone was changed | `removeStream` throws and the user cannot leave (`HangUpWorks`) |
| `overlap` | the form was submitted while it waited for the camera | the first dial's timer ends the call of the second (`CallSurvivesTimers`) |
| `raced` (`LocalMedia`) | while a peer was connecting the camera changed, or a screen was shared that comes before the camera in `localStreams` (as one does that was granted after a hang-up) | `replaceTrack` or `addTrack` throws: some peers keep the old track, or never get the screen or the camera (`PeersGetLocalTracks`); muting the camera misses the track that some peers have got (`OffIsOff`, `OnIsOn`) |
| `late` | an answer came after another choice, or a dial was rejected, after which the form leaves the camera alone | a camera is on while the menu or the form shows "No Video", or another one (`OffIsOff`, `OnIsOn`) |
| `unsure` | a request for a track was refused, or `handleDevice` enabled another camera than the one chosen (section 5) | the menu shows a camera that was not granted, or not the one in use (`OnIsOn`) |
| `stale` (`Chat`, per message) | the decoder held a part of an older message with the same ID | the two are mixed (`Intact`) |

`raced`, `late` and `unsure` are per call, `failed` until the next hang-up,
`"cut"` until the next start of a recording; `lost`, `"mixed"` and `"late"` are for good.

### Bounds

The negotiation has one bit of memory (`queuedNegotiation`), so one track, one
request and one renegotiation with the initial offer already give changes before,
during and after an offer, and two that are queued together. A reader of RTP and one of
RTCP share the WaitGroup, so one track in each direction has one end while the other
still writes; the loops take one item at a time, so more readers only wait longer, and
the theorems on the WaitGroup hold for any number. A room needs a sender, a client
that joins before and one that joins after a step of the sender; one client that is
ready twice gives two transports under one ID and two managers. Three rates and
receivers are the least with which the cache differs from both a receiver's last and
the others' lowest report. Six messages suffice for set, clear, set again with a
track and its metadata in between. In `RemoteStreams` two lines of one peer can swap
owners, and `MaxSent` only cuts off how much is sent at a time. In `Chat` a message has one or two chunks, so it can be cut by a connection that
opens or closes; `MaxMessageId` is 2, so that the ID returns with the second message
(`Width` is the width of the header's fields); one sender sends twice and one once
(`MaxSends`), which lets their chunks interleave at the third user, and `MaxCloses` is one
lost connection. In `CallSession` a second dial meets what the first has left behind
(`MaxDials`), three streams are the cameras of two calls and a screen (`MaxStreams`), and
one message in each direction (`MaxQueue`) with messages that are lost gives late answers.
Requests for screens and tracks are not kept: from the first call on one may be answered
at any time (`WasInCall`). In `LocalMedia` two open requests are answered in either order
(`MaxRequests`), and three tracks (`MaxTracks`) are a camera, its replacement and either
another one or a screen. One dial is open at a time (`MaxDials`), also after one was
rejected; dials that overlap are in `CallSession`, and the theorems on `LocalMedia` hold for any
number. Two peers are one that is connected and one that is connecting. A transport is closed
by a hang-up, by the end of the websocket or by pion: all three run `Close`, and two of
them together race with each other, which is what the safety run has; the third ends
the transport of the liveness run, and the theorems hold for all. `MaxRenegotiate`, `Endings`, `Rejoiners`,
`MaxReady`, `MaxMessages` and the bounds named above are the only counters that are cut off; `Senders` says
which clients of a room send.

Deadlock is checked for the signalling: `Quiescent` lets it stutter only where nothing
is left to do. It is also checked for `call`, `local_media`, `streams` and `bitrate`, where the user
can always do something. The other runs say `CHECK_DEADLOCK FALSE`,
because a closed transport, an empty room, a worker without messages or a finished chat
really stops;
that nothing stops too early is what the liveness properties are for.

### Fairness

A goroutine that can run does run: weak fairness. Strong fairness is assumed where an
action waits for something that is given back and taken again: Go's mutexes hand over
to a waiter that has waited 1 ms, so a mutex that is released again and again is
taken in the end (`ThreadStep`, `Handle`), and a read from a closed connection fails
after the finitely many packets that were buffered (`TrackEnds`, `SenderEnds`). The
client answers offers (`ClientReceive`); nothing is assumed about what else it sends,
about tracks that start or end, or about when a call ends. In `CallSession` the timers of
dials fire (`DialTimeout`): nothing in the code clears them. Nothing else is assumed there, so
`DialSettles` holds with a server that never answers.

## 4. What is proved

`SignallingProofs`, for any tracks, requests, candidates, bounds and faults:

* `TypeCorrect`: `Spec => []TypeOK`.
* `OneOfferAtATime`: `Spec => []OneOfferInFlight`. The property is not inductive: it
  speaks of the places where an offer is, and a step that moves an offer needs to know
  that the next place is empty and who holds which lock. `OfferInv` adds this:
  `LocksInv` (the thread that waits to signal an offer is the holder of
  `Negotiator.mu`; the forwarder that waits for metadata has an offer), `PlacesInv`
  (an offer or its answer is in at most one of the signalling thread, the sender, the
  forwarder and the two queues, and at most once in a queue; `OccursTail` and
  `OccursAppend` carry this over `Tail` and `Append`), `StateInv` (while it is
  somewhere the connection is not stable and no callback is pending), and `AddInv` (the
  forwarder does not run before `TracksManager.Add` has returned).
* `NoRoomDeadlock`: `Spec => []ForwarderNotBlockedByNegotiator`, a corollary of the
  same invariant.
* `NoPanicOnSend`: `Spec => []NoSendOnClosedChannel`.
* `ChangesAreKept`: `Spec => []NoLostChange`, inductive relative to `OfferInv`. `StateInv`
  is needed where an offer fails: it does so in the state `stable` with no callback to
  come, which is `OfferFailed`; and where the callback finds nothing queued: then
  whoever made the change is still about to call `Negotiate`.
* `MetadataPrecedesOffer`: `Spec => []MetadataCoversOffer`. `AddTrack` makes the offer
  before it records the track. `HolderInv` says that it holds the lock of the room
  all the while and what the holder is doing, `MadeInv` that an offer consists of changes
  that were made, and `RecordInv` that all of these are recorded but the one being
  made; the forwarder takes the lock, so when it reads the tracks none is missing.

`TransportProofs`, for any finite sets of tracks:

* `WaitIsEnough`: `Spec => WaitEndsAfterReaders`. The invariant is `CountInv`: the
  WaitGroup's counter is the number of readers that have been counted and are not done
  (`WaitGroupCounts`). `TrackSteps` and `SenderSteps` say how a step of one reader
  changes this number; when the closing goroutine sees zero, no reader is left. The
  theorem speaks of counted readers only: section 5 is about one that is not yet.
* `TransportTypeCorrect`: `Spec => []TypeOK`. That the WaitGroup is never below zero
  needs `CountInv`: a number of readers is not negative.
* `NoMessageOnClosedChannel`: `Spec => []MessagesChannelOpen`, which is inductive: a
  message waits only while the mutex of the transceiver is held, and the closing
  goroutine needs it.

`TransportProofs`, about `BitrateEstimators`, for any receivers and tracks and any natural
rates:

* `EstimatorsTypeCorrect` and `CacheCorrect`, from `EstimatorsInv`: every estimator is
  a record whose cached bitrate is a rate that is not above any of its estimates.
* `LimitImplemented`: `EstimatorsSpec => ImplementsLimit`. A report that is not above the cache
  is not above any report (this is where `EstimatorsInv` is needed), so the shortcut
  returns the minimum; otherwise the loop computes it. That a nonempty set of naturals
  has a minimum comes from `NatLessThanWellFounded`; no finiteness is assumed.

`SFURoomProofs`, for any clients and tracks and any number of times a client is ready:

* `MembersGetTracks`, `EndedTracksAreGone`, `MetadataIsComplete` and `RoomIsKept`:
  `RoomConverges`, `NoGhostTracks`, `MetadataNamesOwner` and `RoomInv` hold always. The
  invariant `RoomIndInv` adds where transports and tracks can be: transports are started
  in order (`StartedInOrder`), a manager's transports are its own and not removed
  (`Placed`, `RemovedAreClosed`), a transport has tracks of its own room only
  (`TracksOfRoom`; without it an old manager's track could be taken for a ghost of the
  new one), and the owner is known from `addTrack` to `removeTrack` (`OwnersKnown`).
  `NoGhostTracks` needs `SendersCounted`: a transport has one sender for a track of its
  map, one more only for a track that it was given before `addTrack` gave it again, and never
  more than that. `OpenTransportsShareRoom` needs `FirstRoom`, which also speaks of
  transports that are closed and not yet removed.

`EncryptionWorkerProofs`, for any passwords, users, mids and senders and any number of
messages:

* `ContextsCorrect`: `Spec => []ContextsInv`. A key that comes late must not reach a
  context that was replaced, so `Matched` ties contexts and tasks to each other: a
  context has its key or a task that makes it, a task that is not late makes the key of
  the context there is. `UpdateDecryptContexts` keeps this up for any caller.
* `DecryptionSettles`: `Spec => []DecryptSettled`. Besides `Matched` it needs
  `ContextsFollow`: the contexts have the present password, or an encryption key is still
  being made, and `handlePassword` updates them when it is there.
* `FramesProtected`: `Spec => []FramesAreProtected`, from `EncryptionFollows`: the
  encryption key is that of its password or about to be replaced by it.

`RemoteStreamsProofs`, for any users, lines and stream IDs, with the SFU and in a mesh:

* `StoreIsConsistent`: `Spec => []StoreInv`. Each case of the reducer keeps the two
  tables in agreement (`Agree`; lemmas such as `AddTracksAgrees`) if it adds no track that is
  associated with somebody else (`Addable`). That no caller does is `Associations`: a track is
  associated because the metadata says so, or because it plays on the peer's line.
* `PlayingTracksAreShown`: `Spec => []PlayingIsShown`, from `PlayingIsKnown`,
  `PlayingIsAssociated` and what the network decides (`NetworkDecides`, `LinesBelong`).
* `NoGhosts`: `Spec => NoGhostAfterOffer`, an action property: with the SFU the offer
  is applied under its own metadata, in a mesh lines that are left out are muted.

`CallSessionProofs`, for any numbers of dials, streams and messages under way:

* `SessionIsKept`, `ServerAgreesWithClient`, `RecordingIsEnded`, `HangingUpWorks` and
  `CallsSurviveTimers` (an action property), all from `SessionIndInv`. It says what a
  hang-up has taken away (`NothingLeft`), that an answer that is still waited for finds
  the client dialling (`OnceAnswers`), that one dial is under way at a time (`OneDial`),
  that no stream is there twice (`StreamsDiffer`) and, for the recording,
  that there is one recording peer, and only while it records (`RecordingInTurn`), and
  that it has every local stream with all its tracks (`RecordingWhole`); the two have
  different exceptions. `ServerAgrees` is about the last `ready` or `hangUp` in a
  queue; `ViewOfAppend` and its like say how this changes as messages are sent and read.
  `ServerSees` says it of what is left of the queue, with what the SFU has refused or
  withdrawn (`Held`).
  `HandlersCounted` bounds the handlers of `record_callback` by the dials (the type of
  the state needs it).

`LocalMediaProofs`, for any peers and cameras and any number of tracks and requests:

* `MediaIsKept`, `PeersAreSentLocalTracks` and `MenuTellsTheTruth`, from `MediaIndInv`: the two
  copies of the local streams agree but for a screen that `peers.ts` does not forget
  (`ReducersAgree`), a track is in one stream and not after it was stopped
  (`TracksOnce`), a sender only ever had tracks of its own stream (`SendersFit`:
  this is why stopping a stream's track stops nothing that is sent for another one),
  connected peers have the senders of the local streams and connecting ones nothing that
  `handleConnect` would stumble over before it has added the camera (`PeersInStep`,
  `MayConnect`), users are listened for from the dial to the hang-up (`DialFits`), and the
  camera of the menu is in use and on, or has been asked for (`MenuFits`). When `replaceTrack` throws
  half-way (`AllReached`, `MediaTrackKeeps`) nothing is stopped, so the peers that keep
  the old track still send a live one.

`ChatProofs`, for any users, sizes, header widths, chunk sizes, connections and numbers of
messages:

* `DecodersHoldWhatArrived`: `Spec => []ChatInv`, the inductive invariant.
* `ListsStayFaithful`: `Spec => []ListsAreFaithful`, and `NoMessageLost`:
  `Spec => []NothingLost`, which follow from it.

The proof has three layers. The first is about the codec alone: the chunks of a message
cover it without overlap (`ChunkPlace`, `ChunksCover`), numbers and IDs survive their
16 bit fields (`HeaderFits`, `MessageIds`: the n-th message has the ID `IdOf(n)`, however
often the counter has wrapped), so `Encode` makes the chunks `ChunkOf` (`EncodeMakesChunks`)
and a container that holds the chunks `h` of a message holds `h \cup {c}` after chunk `c`,
or is given back whole (`DecodeHolds`: the count of chunks is the total exactly when
`h \cup {c}` is all of them).

The second is about queues. What a user was given of a message is on the way or was
handled (`Given`, `OnTheWay`, `Handled`). Chunks of one sender are in the order in which
they were made everywhere: in the worker's queue, in a channel, from the channel to the
worker's queue, and from what was handled to the channel (`OutboxInv`, `ChannelInv`,
`HandledInv`). This is what makes the rest inductive: when a chunk of a message arrives,
nothing of an older message can still come.

The third is about decoders and lists. A decoder cannot be said to hold what it has
handled of every message: one that was cut short stays in the way of the next with its
ID. `ContainerInv` says it of messages that are `Ready` (the older ones with the ID were
given whole or not at all, and have arrived) and `Latest` (no newer one has begun).
`DoneInv` says that a whole message is in the list, `ListInv` that an entry is a message
of which, and before which, nothing is left to come (`Past`): the order of the list
follows, and that nothing is there twice.

The inductive invariants were checked by TLC, on the instances of section 3, before they
were proved. The assumptions are `ConstantsAssumption`, `TracksAssumption` (a connection
has finitely many tracks), `RatesAssumption`, `ReadyAssumption`, `PasswordsAssumption`
(the empty password stands for none), `RemoteStreamsAssumption` (the local user, the
server and the placeholders are no user's ID), `CallSessionAssumption` and
`LocalMediaAssumption` (bounds are natural numbers), and `ChatAssumption` (the encoder's
constructor checks the sizes; messages are not empty, and have at most as many chunks as
the 16 bit field can count: the code does not check this, and a larger file would arrive
broken); TLC evaluates them in the runs of their modules.

Only model-checked: the liveness properties (`DialSettles`, those of `signalling_live` and
`Transport`), since fairness is out of the prover's reach. Every invariant and every
action property of the runs that are expected to pass is proved.

## 5. What was found

* `transport_comment`: `handleTrack` announces a track (webrtctransport.go:435) before
  it is counted (line 440), so the channel can be closed under it although line 220
  says "do not close channels before all writing goroutines exit". The send panics.
* `encryption_regenerated`: clearing the password leaves `encryptContext.password`, so
  setting the same password again does not make a key (index.ts:189), although line
  367 says "Regenerate all keys"; frames are dropped from then on.

Seen while modelling, without a run:

* A client that is ready again before the goroutine of its old transport has run is
  taken out of the room by that goroutine (tracksmanager.go:61), and a manager that
  becomes empty takes away the entry of the room even if it is another manager's by
  then. Hence the condition in `OpenTransportsShareRoom`. Such a client is also given
  its own old tracks, hence `OtherClients` in the properties of `SFURoom`.
* A client that joins between `addRemoteTrack` and the event gets `AddTrack` twice for
  one SSRC: the second sender replaces the first in `localTracks`, and the first can no
  longer be removed: it stays after the track has ended (`early` in section 3). The client
  is told of the track without its owner until the event.
* The SFU does not answer a `ready` that comes before `processLocalSignals` of the call
  before has ended (sfu.go:168), so a client that hangs up and joins again at once waits
  for the timer of its dial.
* While the signaller closes, a candidate may be sent although the offer was dropped
  (wrtcsignaller.go:165); the connection is closing, so it is harmless.
* After an error of `CreateOffer` `negotiationDone` stays set and nothing is ever
  negotiated again (`OfferFailed`).
* The situations of the table in section 3.
* `removeEventListeners` (SocketActions.ts:158) does not remove the handlers of
  `record_callback` and `stream_url`; every dial adds another.
* A rejected dial leaves its handlers and its `ready` behind (CallActions.ts:60).
* `onHangup` removes the local streams before `HANG_UP`, which then finds none to stop,
  and `removeLocalStream` stops nothing: camera and microphone stay on (App.tsx:75,
  streams.ts:207). A track that is granted after the hang-up is dropped and stays on
  too; the comment at peers.ts:99 says "this should never happen".
* `lastDevice` still names the camera that "No Video" turned off after another one has
  replaced it. Choosing the first one again therefore enables the other one
  (DeviceDropdown.tsx:110), although line 112 says "enable the track that was disabled when
  No <device> was clicked": the menu shows one camera and another is sent (`unsure`).
* The comment at MediaActions.ts:205 calls the track that is enabled again the "desktop"
  track; it is the camera's.
* In a mesh a user who joins again before the old connection has closed gets no new one
  (SocketActions.ts:98).
* Decryption contexts are kept by mid only (index.ts:158), and two peers of a mesh use
  the same mids.
* `encrypt` counts a sender as seen before it has its streams (index.ts:524): if the
  browser refuses once, the sender's frames bypass the worker from then on.

## 6. Not modelled

The branches for a server that is not the initiator (`sfu.go:16` fixes that it is),
the parsing of signal payloads, the contents of RTP packets and the byte layout of
encrypted frames, the configuration of pion, HTTP routing, authentication, metrics,
logging, the relay of simple-peer's signals (`handleSignal`), notifications, minimized
windows, translations and rendering: pure conversions, I/O, or code without state that anything reads.

Not modelled yet: the rooms with their adapters, the rest of the mesh handler (`CallSession`
has it as seen from one client) and the jitter buffer.

## 7. Plan

1. `Rooms`: `room.go`, `wssub.go`, `wsclient.go`, `memoryadapter.go`. Connections of
   clients that reconnect under their ID, the reference count of a room, joins that
   fail half-way; then `Mesh` on top of it (one initiator for two ready clients), and
   `RedisRooms`, several instances over one hash and one channel, with a crash.
2. `JitterBuffer`: sequence numbers modulo 2^w; what is asked for again is what is
   missing.
3. The composition of `BitrateEstimators` with `SFURoom`: estimates of clients that
   have left.
4. Safety parts of the liveness properties that can be proved, such as: a closing
   transport that waits has a reader that can take a step.
