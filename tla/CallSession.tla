----------------------------- MODULE CallSession -----------------------------
(***************************************************************************)
(* The call of one client: its websocket with the reconnect timer          *)
(* (ws/index.ts), joining and leaving (CallActions, SocketActions, the     *)
(* join form of Media.tsx, App.onHangup), the media reducer, and the       *)
(* recording half of reducers/streams.ts.                                  *)
(*                                                                         *)
(* Every step is one turn of the browser's event loop: an event handler    *)
(* with the promise continuations that follow it.  A dial is an execution  *)
(* of MediaForm.handleSubmit; it waits for the camera, then for the users  *)
(* event or its timer.  A local stream is a number, in the order of their  *)
(* creation.  The server is the mesh handler (server/mesh.go) or the SFU's *)
(* SocketHandler (server/sfu.go), whichever it was started as; another     *)
(* user of the room is what the client sees of it.                         *)
(***************************************************************************)
EXTENDS Naturals, Sequences, GoMaps

CONSTANTS
  Networks,   \* the kinds of server that the client may meet: "mesh", "sfu"
  MaxDials,   \* bound: how often the join form is submitted
  MaxStreams, \* bound: local streams that are ever created
  MaxQueue    \* bound: messages under way in each direction

ASSUME CallSessionAssumption ==
  /\ Networks \subseteq {"mesh", "sfu"}
  /\ MaxDials \in Nat /\ MaxStreams \in Nat /\ MaxQueue \in Nat

VARIABLES
  network,      \* which of them it is
  ws,           \* readyState of SocketClient.ws
  connected,    \* SocketClient.connected
  reconnecting, \* whether the reconnect timer runs
  pings,        \* ping intervals that are running
  toServer,     \* messages from the client
  toClient,     \* messages from the server
  media,        \* the media reducer
  dials,        \* the progress of every handleSubmit
  usersHandler, \* whether handleUsers listens for users
  once,         \* dials whose once(users) listener is in place
  recordHandlers, \* handlers of record_callback in place
  localStreams, \* streams.localStreams: the stream of each type
  desktopFirst, \* of the two keys of localStreams, desktop was put in first
  created,      \* the number of local streams created
  rec,          \* the recording of the local streams
  peers,        \* whether there is a peer for the other user, or for the SFU
  ready,        \* server: the client's metadata (mesh), or its transport (sfu)
  other,        \* server: the other user is ready
  recorded,     \* server: the room is recorded
  failed,       \* history: a dial was rejected since the last hang up
  lost,         \* history: an open socket was lost
  withdrawn,    \* history: the SFU refused the last ready, or lost the connection since
  incidents,    \* history: what happened to the recordings
  overlap       \* history: the form was submitted while it waited for the camera

socketVars == <<ws, connected, reconnecting, pings>>
handlerVars == <<usersHandler, once, recordHandlers>>
streamVars == <<localStreams, desktopFirst, created>>
recordVars == <<localStreams, desktopFirst, created, rec, incidents>>
serverVars == <<network, ready, other, recorded, withdrawn>>
vars == <<network, ws, connected, reconnecting, pings, toServer, toClient, media,
          dials, usersHandler, once, recordHandlers, localStreams, desktopFirst, created,
          rec, peers, ready, other, recorded, failed, lost, withdrawn, incidents,
          overlap>>

Dials == 1..MaxDials
Streams == 1..MaxStreams
Types == {"camera", "desktop"}
NoRecorder == [alive |-> FALSE, streams |-> {}]

Messages ==
  [type : {"ready", "hangUp"}] \cup [type : {"record"}, recordStatus : BOOLEAN]
    \cup [type : {"users"}, peer : BOOLEAN, recordStatus : BOOLEAN]
    \cup [type : {"record_callback"}, successful : BOOLEAN, recordStatus : BOOLEAN]

\* The page has just been loaded: the form is mounted and lists the devices,
\* and the socket connects.
Init ==
  /\ network \in Networks
  /\ ws = "connecting" /\ connected = FALSE /\ reconnecting = FALSE /\ pings = 0
  /\ toServer = <<>> /\ toClient = <<>>
  /\ media = [dialState |-> "hung-up", socketConnected |-> FALSE,
              loading |-> TRUE, recordStatus |-> FALSE]
  /\ dials = [d \in Dials |-> "idle"]
  /\ usersHandler = FALSE /\ once = {} /\ recordHandlers = 0
  /\ localStreams = EmptyMap /\ desktopFirst = FALSE /\ created = 0
  /\ rec = [isRecording |-> FALSE, recorder |-> NoRecorder, leaked |-> FALSE]
  /\ peers = FALSE
  /\ ready = "no" /\ other = FALSE /\ recorded = FALSE
  /\ failed = FALSE /\ lost = FALSE /\ withdrawn = FALSE /\ incidents = {}
  /\ overlap = FALSE
-----------------------------------------------------------------------------
(***************************************************************************)
(* The socket.  send throws while the socket connects, and discards the    *)
(* message when it is closed.                                              *)
(***************************************************************************)
SendThrows == ws = "connecting"
Sent(m) == IF ws = "open" THEN Append(toServer, m) ELSE toServer
EmitReadyOnly(type) ==
  toServer' = IF type = "hangUp" THEN toServer ELSE Sent([type |-> type])
Emit(type) == toServer' = Sent([type |-> type])
RoomToSend == Len(toServer) < MaxQueue

\* The connect and disconnect handlers of CallActions.init.  The room's creator,
\* which init asks for, is not read anywhere in the client.
SetConnected(status) == [media EXCEPT !.socketConnected = status]

\* wsHandleOpen, and the connect handler.
WsHandleOpen ==
  /\ ws = "connecting"
  /\ ws' = "open" /\ connected' = TRUE
  /\ pings' = pings + 1
  /\ media' = SetConnected(TRUE)
  /\ UNCHANGED <<reconnecting, toServer, toClient, dials, handlerVars, recordVars,
                 peers, serverVars, failed, lost, overlap>>

ClearPingUnchecked == pings' = pings - 1
ClearPingOfFailed == pings' = IF connected THEN pings ELSE 0
\* wsHandleClose clears the interval it knows of; clearing it again does nothing.
ClearPing == pings' = IF pings > 0 THEN pings - 1 ELSE 0

\* The connection failed or is lost: wsHandleClose, and the disconnect
\* handler if it was open.  The server forgets the client.
WsHandleClose ==
  /\ ws \in {"connecting", "open"}
  /\ ws' = "closed"
  /\ connected' = FALSE
  /\ media' = IF connected THEN SetConnected(FALSE) ELSE media
  /\ ClearPing
  /\ reconnecting' = TRUE
  /\ toServer' = <<>> /\ toClient' = <<>>
  /\ ready' = "no"
  /\ lost' = (lost \/ ws = "open")
  /\ UNCHANGED <<network, dials, handlerVars, recordVars, peers, other,
                 recorded, failed, withdrawn, overlap>>

\* The reconnect timer.
Connect ==
  /\ reconnecting
  /\ reconnecting' = FALSE
  /\ ws' = "connecting"
  /\ UNCHANGED <<connected, pings, toServer, toClient, media, dials,
                 handlerVars, recordVars, peers, serverVars, failed,
                 lost, overlap>>
-----------------------------------------------------------------------------
(***************************************************************************)
(* Recording.  recorder is peerInstance, the last recording peer; leaked   *)
(* says that an earlier one is still connected.  Its streams are those of  *)
(* which simple-peer has a sender for every track that they have now; it   *)
(* refuses calls once it is destroyed.                                     *)
(***************************************************************************)

\* initializePeer: a peer that sends one stream to the recording service.
InitializePeer(s) == [alive |-> TRUE, streams |-> {s}]

\* recordLocalStream: a new recording peer for every local stream, which
\* replaces peerInstance without destroying it.
RecordLocalStream(r, streams) ==
  LET n == DOMAIN streams
      last == IF n = Types THEN IF desktopFirst THEN "camera" ELSE "desktop"
              ELSE CHOOSE t \in n : TRUE
  IN [isRecording |-> ~r.isRecording,
      recorder |-> IF n = {} THEN r.recorder
                   ELSE InitializePeer(streams[last]),
      leaked |-> r.leaked \/ (r.recorder.alive /\ n # {}) \/ n = Types]

StopRecordLocalStreamConnected(r) == [r EXCEPT !.isRecording = ~@]
StopRecordLocalStream(r) ==
  [r EXCEPT !.isRecording = ~@, !.recorder = NoRecorder]

(***************************************************************************)
(* handleRecordCallback, called by n handlers in turn.  From the second    *)
(* call on there is nothing new to leak or to destroy: two calls more, and *)
(* isRecording and everything else is as it was.                           *)
(***************************************************************************)
HandleRecordCallback(n, status) ==
  LET Call(r) == IF status THEN RecordLocalStream(r, localStreams)
                 ELSE StopRecordLocalStream(r)
  IN  IF n = 0 THEN rec
      ELSE IF n = 1 THEN Call(rec)
      ELSE IF n % 2 = 0 THEN Call(Call(rec)) ELSE Call(Call(Call(rec)))

(***************************************************************************)
(* What n calls of handleRecordCallback do to the history.  The recordings *)
(* are mixed up by a start or a stop that several handlers see or that     *)
(* repeats the one before, and by a start with two streams; a start may be *)
(* late, after hanging up.  A recording that starts has a new peer: what   *)
(* befell the old one no longer matters.                                   *)
(***************************************************************************)
Incidents(n, status) ==
  LET starts == n > 0 /\ status
      mixed == \/ n > 1
               \/ n = 1 /\ rec.isRecording = status
               \/ starts /\ DOMAIN localStreams = Types
      late == starts /\ media.dialState = "hung-up"
  IN  (IF starts THEN incidents \ {"cut"} ELSE incidents)
        \cup (IF mixed THEN {"mixed"} ELSE {}) \cup (IF late THEN {"late"} ELSE {})

\* recordAdditionalStream and stopRecordAdditionalStream throw unless the
\* recording peer is there to be called.
AddStreamThrows == rec.isRecording /\ ~rec.recorder.alive
RemoveStreamThrows(s) ==
  rec.isRecording /\ (~rec.recorder.alive \/ s \notin rec.recorder.streams)

AddLocalStreamUnrecorded(type) ==
  /\ created' = created + 1
  /\ localStreams' = Put(localStreams, type, created + 1)
  /\ UNCHANGED <<desktopFirst, rec>>

\* addLocalStream.  If it throws, the store is not changed.
AddLocalStream(type) ==
  /\ created' = created + 1
  /\ localStreams' = IF AddStreamThrows THEN localStreams
                     ELSE Put(localStreams, type, created + 1)
  /\ desktopFirst' = \/ desktopFirst
                     \/ ~AddStreamThrows /\ type = "camera" /\ DOMAIN localStreams = {"desktop"}
  /\ rec' = IF rec.isRecording /\ ~AddStreamThrows
            THEN [rec EXCEPT !.recorder.streams = @ \cup {created + 1}]
            ELSE rec

\* localStreams has u before t, or u is t.
NotAfter(u, t) == u = t \/ u = IF desktopFirst THEN "desktop" ELSE "camera"

\* The dispatches of removeLocalStream for the streams of the given types, in
\* the order of localStreams, until one throws.
RemoveLocalStreams(types) ==
  LET stuck == {t \in types : RemoveStreamThrows(localStreams[t])}
      gone == {t \in types : \A u \in stuck : ~NotAfter(u, t)}
  IN /\ localStreams' = [t \in DOMAIN localStreams \ gone |-> localStreams[t]]
     /\ desktopFirst' = (desktopFirst /\ gone = {})
     /\ rec' = IF rec.isRecording
               THEN [rec EXCEPT !.recorder.streams = @ \ {localStreams[t] : t \in gone}]
               ELSE rec

\* The recording service drops the connection: simple-peer destroys the peer,
\* and its close handler does nothing.
RecorderCloses ==
  /\ rec.recorder.alive
  /\ rec' = [rec EXCEPT !.recorder = NoRecorder]
  /\ incidents' = incidents \cup {"cut"}
  /\ UNCHANGED <<socketVars, toServer, toClient, media, dials, handlerVars, streamVars,
                 peers, serverVars, failed, lost, overlap>>
-----------------------------------------------------------------------------
(***************************************************************************)
(* Joining.                                                                *)
(***************************************************************************)

\* handleEnumerate, resolved or rejected.
HandleEnumerate == [media EXCEPT !.loading = FALSE]

\* enumerateDevices is done: the devices are listed, or cannot be.
EnumerateDone ==
  /\ media.loading
  /\ media' = HandleEnumerate
  /\ UNCHANGED <<socketVars, toServer, toClient, dials, handlerVars,
                 recordVars, peers, serverVars, failed, lost, overlap>>

JoinAlwaysEnabled == media.socketConnected /\ ~media.loading

\* mapStateToProps of Media.tsx: the button of the form is enabled.
JoinEnabled ==
  media.dialState = "hung-up" /\ media.socketConnected /\ ~media.loading

\* handleSubmit asks for the camera.
HandleSubmit(d) ==
  /\ JoinEnabled
  /\ dials[d] = "idle" /\ \A e \in 1..(d - 1) : dials[e] # "idle"
  /\ dials' = [dials EXCEPT ![d] = "media"]
  /\ overlap' = (overlap \/ \E e \in Dials : dials[e] = "media")
  /\ UNCHANGED <<socketVars, toServer, toClient, media, handlerVars,
                 recordVars, peers, serverVars, failed, lost>>

\* The user refuses, or there is no camera.
MediaRejected(d) ==
  /\ dials[d] = "media"
  /\ dials' = [dials EXCEPT ![d] = "done"]
  /\ UNCHANGED <<socketVars, toServer, toClient, media, handlerVars,
                 recordVars, peers, serverVars, failed, lost, overlap>>

\* handleDial: the dial state for every status of the action.
HandleDial == [pending |-> "dialling", resolved |-> "in-call", rejected |-> "hung-up"]

\* dial and handshake: the listeners of an earlier dial are replaced, except
\* those of record_callback, and ready is sent.  If that throws the dial is
\* rejected, with the handlers in place.
Dial(d) ==
  /\ usersHandler' = TRUE
  /\ recordHandlers' = recordHandlers + 1
  /\ Emit("ready")
  /\ dials' = [dials EXCEPT ![d] = IF SendThrows THEN "done" ELSE "pending"]
  /\ once' = IF SendThrows THEN {} ELSE {d}
  /\ media' = [media EXCEPT !.dialState =
                  IF SendThrows THEN HandleDial.rejected ELSE HandleDial.pending]
  /\ failed' = (failed \/ SendThrows)

\* The camera is there: handleSubmit goes on to dial, whether or not a reducer
\* threw.
MediaResolved(d) ==
  /\ dials[d] = "media" /\ created < MaxStreams /\ RoomToSend
  /\ AddLocalStream("camera")
  /\ Dial(d)
  /\ UNCHANGED <<socketVars, toClient, peers, serverVars, lost, incidents, overlap>>

DialTimeoutOfResolved(d) ==
  /\ dials[d] = "resolved"
  /\ dials' = [dials EXCEPT ![d] = "done"]
  /\ UNCHANGED <<socketVars, toServer, toClient, media, handlerVars, recordVars,
                 peers, serverVars, failed, lost, overlap>>

\* The timer of dial, which rejects the promise; one that is settled stays as it is.
DialTimeout(d) ==
  /\ dials[d] = "pending"
  /\ dials' = [dials EXCEPT ![d] = "done"]
  /\ media' = [media EXCEPT !.dialState = HandleDial.rejected]
  /\ failed' = TRUE
  /\ UNCHANGED <<socketVars, toServer, toClient, handlerVars, recordVars,
                 peers, serverVars, lost, overlap>>
-----------------------------------------------------------------------------
(***************************************************************************)
(* Messages from the server.                                               *)
(***************************************************************************)
Received(type) == toClient # <<>> /\ Head(toClient).type = type

\* handleUsers, then the once listeners of dial.
HandleUsers ==
  LET m == Head(toClient)
      n == IF usersHandler /\ m.recordStatus THEN 1 ELSE 0
  IN /\ Received("users")
     /\ toClient' = Tail(toClient)
     /\ rec' = HandleRecordCallback(n, TRUE)
     /\ incidents' = Incidents(n, TRUE)
     /\ peers' = (peers \/ (usersHandler /\ m.peer))
     /\ once' = {}
     /\ dials' = [d \in Dials |-> IF d \in once /\ dials[d] = "pending"
                                  THEN "resolved" ELSE dials[d]]
     /\ media' = [media EXCEPT
          !.recordStatus = @ \/ n = 1,
          !.dialState = IF \E d \in once : dials[d] = "pending"
                        THEN HandleDial.resolved ELSE @]
     /\ UNCHANGED <<socketVars, toServer, usersHandler, recordHandlers,
                    streamVars, serverVars, failed, lost, overlap>>

\* record_callback, which every handler ever registered gets.
HandleRecord ==
  LET m == Head(toClient)
      n == IF m.successful THEN recordHandlers ELSE 0
  IN /\ Received("record_callback")
     /\ toClient' = Tail(toClient)
     /\ rec' = HandleRecordCallback(n, m.recordStatus)
     /\ incidents' = Incidents(n, m.recordStatus)
     /\ media' = IF n > 0 THEN [media EXCEPT !.recordStatus = m.recordStatus]
                 ELSE media
     /\ UNCHANGED <<socketVars, toServer, dials, handlerVars, streamVars,
                    peers, serverVars, failed, lost, overlap>>

\* handleClose and handleError: the connection to the other user ends.
PeerCloses ==
  /\ peers
  /\ peers' = FALSE
  /\ UNCHANGED <<socketVars, toServer, toClient, media, dials, handlerVars,
                 recordVars, serverVars, failed, lost, overlap>>
-----------------------------------------------------------------------------
(***************************************************************************)
(* The toolbar, which shows its buttons in a call.                         *)
(***************************************************************************)
InCall == media.dialState = "in-call"

\* Screens and tracks can be asked for in a call, any number of them; a request may
\* be answered much later, so it is not kept.
WasInCall == \E d \in Dials : dials[d] = "resolved"

\* handleToggleShareDesktop without a shared screen: getDesktopStream is resolved.
DesktopStream ==
  /\ WasInCall /\ created < MaxStreams
  /\ AddLocalStream("desktop")
  /\ UNCHANGED <<socketVars, toServer, toClient, media, dials, handlerVars,
                 peers, serverVars, failed, lost, incidents, overlap>>

(***************************************************************************)
(* A camera or microphone was chosen in the menu, and getMediaTrack is     *)
(* resolved: the camera stream has a track that the recording peer was     *)
(* never given, replaced, or added where there was none.                   *)
(***************************************************************************)
HandleLocalMediaTrack ==
  /\ WasInCall /\ "camera" \in DOMAIN localStreams
  /\ rec' = [rec EXCEPT !.recorder.streams = @ \ {localStreams["camera"]}]
  /\ incidents' = incidents \cup {i \in {"cut"} : rec.isRecording}
  /\ UNCHANGED <<socketVars, toServer, toClient, media, dials, handlerVars, streamVars,
                 peers, serverVars, failed, lost, overlap>>

\* Toolbar.handleToggleShareDesktop with a shared screen.
StopSharing ==
  /\ InCall /\ "desktop" \in DOMAIN localStreams
  /\ RemoveLocalStreams({"desktop"})
  /\ UNCHANGED <<socketVars, toServer, toClient, media, dials, handlerVars,
                 created, peers, serverVars, failed, lost, incidents,
                 overlap>>

\* App.handleToggleRecord, which throws while the socket connects.
ToggleRecord ==
  /\ InCall /\ RoomToSend /\ ~SendThrows
  /\ toServer' = Sent([type |-> "record", recordStatus |-> ~media.recordStatus])
  /\ UNCHANGED <<socketVars, toClient, media, dials, handlerVars, recordVars,
                 peers, serverVars, failed, lost, overlap>>

\* The local streams can all be removed, and hangUp can send its message.
HangUpThrows ==
  \/ SendThrows
  \/ \E t \in DOMAIN localStreams : RemoveStreamThrows(localStreams[t])

RemoveOnceListeners == once' = {} /\ UNCHANGED usersHandler
RemoveEventListeners == usersHandler' = FALSE /\ once' = {}

\* App.onHangup without an exception.
HangUp ==
  /\ InCall /\ RoomToSend /\ ~HangUpThrows
  /\ Emit("hangUp")
  /\ RemoveEventListeners
  /\ media' = [media EXCEPT !.dialState = "hung-up"]
  /\ localStreams' = EmptyMap /\ desktopFirst' = FALSE
  /\ rec' = [rec EXCEPT !.isRecording = FALSE, !.recorder = NoRecorder]
  /\ peers' = FALSE
  /\ failed' = FALSE
  /\ UNCHANGED <<socketVars, toClient, dials, recordHandlers, created,
                 serverVars, lost, incidents, overlap>>

\* App.onHangup with an exception: what was removed until then stays removed.
HangUpFails ==
  /\ InCall /\ HangUpThrows
  /\ RemoveLocalStreams(DOMAIN localStreams)
  /\ UNCHANGED <<socketVars, toServer, toClient, media, dials, handlerVars,
                 created, peers, serverVars, failed, lost, incidents,
                 overlap>>
-----------------------------------------------------------------------------
(***************************************************************************)
(* The server and the other user.                                          *)
(***************************************************************************)
RoomToReceive == ws = "open" => Len(toClient) < MaxQueue

\* Adapter.Broadcast, as far as this client is concerned.
Broadcast(m) == toClient' = IF ws = "open" THEN Append(toClient, m) ELSE toClient

\* The SFU is everyone's only peer, and knows of no recording.
Users == [type |-> "users", peer |-> network = "sfu" \/ other',
          recordStatus |-> network = "mesh" /\ recorded]
RecordCallback(successful, status) ==
  [type |-> "record_callback", successful |-> successful, recordStatus |-> status]

\* The loop of NewMeshHandler.  A start or stop of the recording fails for anyone
\* but the creator of the room, or if the recording service does.  The status is
\* stored after the broadcast; what a users in between would say, the client takes
\* like any other start.
MeshHandles(m) ==
  \/ /\ m.type = "ready"
     /\ ready' = "yes" /\ UNCHANGED <<other, recorded>>
     /\ Broadcast(Users)
  \/ /\ m.type = "hangUp"
     /\ ready' = "no" /\ UNCHANGED <<other, recorded, toClient>>
  \/ /\ m.type = "record"
     /\ \/ recorded' = m.recordStatus /\ Broadcast(RecordCallback(TRUE, m.recordStatus))
        \/ recorded' = recorded /\ Broadcast(RecordCallback(FALSE, FALSE))
     /\ UNCHANGED <<ready, other>>

(***************************************************************************)
(* SocketHandler.HandleMessage.  A ready is refused, without an answer, as *)
(* long as the handler has a transport, also one that is closing; after    *)
(* the answer the transport may fail to be made.  record is not handled.   *)
(***************************************************************************)
SfuHandles(m) ==
  \/ /\ m.type = "ready" /\ ready # "no"
     /\ withdrawn' = TRUE /\ UNCHANGED <<ready, other, toClient>>
  \/ /\ m.type = "ready" /\ ready = "no"
     /\ ready' \in {"yes", "no"} /\ withdrawn' = (ready' = "no") /\ UNCHANGED other
     /\ Broadcast(Users)
  \/ /\ m.type = "hangUp"
     /\ ready' = IF ready = "yes" THEN "closing" ELSE ready
     /\ UNCHANGED <<other, withdrawn, toClient>>
  \/ /\ m.type = "record"
     /\ UNCHANGED <<ready, other, withdrawn, toClient>>

ServerHandles ==
  /\ toServer # <<>> /\ RoomToReceive
  /\ toServer' = Tail(toServer)
  /\ \/ network = "mesh" /\ MeshHandles(Head(toServer)) /\ UNCHANGED withdrawn
     \/ network = "sfu" /\ SfuHandles(Head(toServer)) /\ UNCHANGED recorded
  /\ UNCHANGED <<network, socketVars, media, dials, handlerVars, recordVars,
                 peers, failed, lost, overlap>>

\* The peer connection to the SFU fails or is closed.
TransportCloses ==
  /\ network = "sfu" /\ ready = "yes"
  /\ ready' = "closing" /\ withdrawn' = TRUE
  /\ UNCHANGED <<network, socketVars, toServer, toClient, media, dials, handlerVars,
                 recordVars, peers, other, recorded, failed, lost, overlap>>

\* The end of processLocalSignals.  The hangUp that it broadcasts only concerns nicknames.
SignalsEnd ==
  /\ ready = "closing"
  /\ ready' = "no"
  /\ UNCHANGED <<network, socketVars, toServer, toClient, media, dials, handlerVars,
                 recordVars, peers, other, recorded, failed, lost, withdrawn,
                 overlap>>

\* The other user joins, which the server tells everyone, or leaves.
OtherUser ==
  /\ RoomToReceive
  /\ other' = ~other
  /\ IF other' THEN Broadcast(Users) ELSE UNCHANGED toClient
  /\ UNCHANGED <<network, socketVars, toServer, media, dials, handlerVars, recordVars,
                 peers, ready, recorded, failed, lost, withdrawn, overlap>>

\* The other user starts or stops the recording; everyone gets the answer.
OtherRecords ==
  /\ network = "mesh" /\ other /\ RoomToReceive
  /\ \E m \in [type : {"record"}, recordStatus : BOOLEAN] : MeshHandles(m)
  /\ UNCHANGED <<network, socketVars, toServer, media, dials, handlerVars, recordVars,
                 peers, failed, lost, withdrawn, overlap>>

Next ==
  \/ WsHandleOpen \/ WsHandleClose \/ Connect
  \/ EnumerateDone
  \/ \E d \in Dials : \/ HandleSubmit(d) \/ MediaRejected(d)
                      \/ MediaResolved(d) \/ DialTimeout(d)
  \/ HandleUsers \/ HandleRecord \/ PeerCloses \/ RecorderCloses
  \/ DesktopStream \/ HandleLocalMediaTrack \/ StopSharing
  \/ ToggleRecord \/ HangUp \/ HangUpFails
  \/ ServerHandles \/ TransportCloses \/ SignalsEnd \/ OtherUser \/ OtherRecords

Spec == Init /\ [][Next]_vars

\* The timers of dial fire.
Fairness == \A d \in Dials : WF_vars(DialTimeout(d))
FairSpec == Spec /\ Fairness
-----------------------------------------------------------------------------
\* The state is well formed; no more than MaxQueue messages are under way.
TypeOK ==
  /\ ws \in {"connecting", "open", "closed"}
  /\ connected \in BOOLEAN /\ reconnecting \in BOOLEAN /\ pings \in Nat
  /\ toServer \in Seq(Messages) /\ Len(toServer) <= MaxQueue
  /\ toClient \in Seq(Messages) /\ Len(toClient) <= MaxQueue
  /\ media \in [dialState : {"hung-up", "dialling", "in-call"},
                socketConnected : BOOLEAN, loading : BOOLEAN, recordStatus : BOOLEAN]
  /\ dials \in [Dials -> {"idle", "media", "pending", "resolved", "done"}]
  /\ usersHandler \in BOOLEAN /\ once \subseteq Dials /\ recordHandlers \in 0..MaxDials
  /\ IsMap(localStreams, Types, 1..created) /\ created \in 0..MaxStreams
  /\ rec \in [isRecording : BOOLEAN, leaked : BOOLEAN,
              recorder : [alive : BOOLEAN, streams : SUBSET Streams]]
  /\ network \in Networks /\ ready \in {"no", "yes", "closing"}
  /\ incidents \subseteq {"mixed", "late", "cut"}
  /\ {desktopFirst, peers, other, recorded, failed, lost, withdrawn, overlap} \subseteq BOOLEAN

\* Exactly one ping interval runs while the socket is open and none while it
\* is not: wsHandleClose clears what wsHandleOpen has set, over any number of
\* losses and failed attempts.  A ping on a connecting socket would throw.
PingsWhileOpen == pings = IF ws = "open" THEN 1 ELSE 0

(***************************************************************************)
(* What the server will take the client for, once it has read what is      *)
(* under way, is what the client shows: ready from the dial until the hang *)
(* up.  The SFU may hold less: it refuses a ready that comes before it is  *)
(* done with the call before, and withdraws a client when their connection *)
(* ends; it never holds more.  All this is for the first socket and until  *)
(* a dial is rejected: nothing repeats ready after a reconnect, and the    *)
(* end of the old socket may come after it.                                *)
(***************************************************************************)
ServerAgrees ==
  LET marks == {i \in DOMAIN toServer : toServer[i].type \in {"ready", "hangUp"}}
      view == IF marks = {} THEN ready = "yes"
              ELSE \E i \in marks : /\ toServer[i].type = "ready"
                                    /\ \A j \in marks : j <= i
      shown == media.dialState # "hung-up"
  IN ~lost /\ ~failed =>
       /\ view => shown
       /\ shown => view \/ (network = "sfu" /\ withdrawn)

\* After hanging up, late users events create no peers, because
\* removeEventListeners took handleUsers away.  A rejected dial leaves it in
\* place, so the property does not extend to that.
NoPeersWhenHungUp == media.dialState = "hung-up" /\ ~failed => ~peers

(***************************************************************************)
(* No recording peer is connected once recording is off or the user has    *)
(* hung up, whoever starts and stops it, whatever streams come and go, and *)
(* if the service drops the connection.  There are three exceptions: a     *)
(* start or a stop out of turn (seen by two handlers, or repeated by a     *)
(* second users event), a start while a screen is shared, for which        *)
(* recordLocalStream makes two peers and forgets the first, and a start    *)
(* that is handled after hanging up.                                       *)
(***************************************************************************)
RecordingEnds ==
  /\ ~media.recordStatus \/ (media.dialState = "hung-up" /\ ~failed)
  /\ rec.recorder.alive \/ rec.leaked
  => incidents \cap {"mixed", "late"} # {}

(***************************************************************************)
(* Hanging up does not throw: the recording peer has a sender for every    *)
(* track of every local stream that onHangup removes from it, whatever     *)
(* streams came and went.  The exceptions are a socket that connects, a    *)
(* recording that was started or stopped out of turn or with two streams,  *)
(* and, since the last start, a service that dropped the connection or a   *)
(* camera or microphone that was changed.                                  *)
(***************************************************************************)
HangUpWorks ==
  InCall /\ HangUpThrows => SendThrows \/ incidents \ {"late"} # {}

\* A call ends by hanging up only.  The timers of dial end it if the form was
\* submitted twice: the second handshake removes the first dial's listener.
CallSurvivesTimers == [][InCall /\ ~InCall' /\ ~overlap => RemoveEventListeners]_vars

\* A dial ends, with or without an answer from the server.
DialSettles == media.dialState = "dialling" ~> media.dialState # "dialling"

\* What the socket and call handlers keep up between all events: the state is
\* well formed, one ping interval runs on an open socket, and a call that was
\* left has no peers.
SessionInv == TypeOK /\ PingsWhileOpen /\ NoPeersWhenHungUp
=============================================================================
