----------------------------- MODULE LocalMedia ------------------------------
(***************************************************************************)
(* What the client sends to the others: reducers/peers.ts, the local half  *)
(* of reducers/streams.ts, MediaActions, the device menu                   *)
(* (DeviceDropdown.tsx) and PeerHandler.handleConnect.                     *)
(*                                                                         *)
(* The browser answers requests for cameras and screens later and in any   *)
(* order; meanwhile peers come and go, from the dial to the hang up.  A    *)
(* reducer that throws ends the dispatch: the loop over the peers stops    *)
(* where it is, the reducers after it do not run, and the middleware       *)
(* dispatches the rejected action.                                         *)
(*                                                                         *)
(* A track has the device that it comes from; a stream has the number of   *)
(* the track that it is created with, counted from the last hang up.       *)
(* The tracks are of one kind: menus and reducers treat audio and video    *)
(* alike.  The connection to the recording service, and which of several   *)
(* dials is answered, is in CallSession.                                   *)
(***************************************************************************)
EXTENDS Naturals, Sequences, Bags, GoMaps

CONSTANTS
  Peers,       \* the other users
  Devices,     \* constraints that select a device
  Mirrored,    \* the devices whose picture is mirrored
  MaxRequests, \* bound: requests that are open at a time
  MaxDials,    \* bound: dials that are open at a time
  MaxTracks    \* bound: tracks that are created between two hang ups

None == "none"
Off == "off"

ASSUME LocalMediaAssumption ==
  /\ Mirrored \subseteq Devices /\ {MaxRequests, MaxDials, MaxTracks} \subseteq Nat
  /\ None \notin Devices /\ Off \notin Devices

VARIABLES
  dialState,    \* media.dialState
  dials,        \* the number of dials that are neither resolved nor rejected
  listening,    \* whether handleUsers listens for users
  video,        \* media.video: the constraint shown in the menu
  lastDevice,   \* DeviceDropdown.lastDevice
  requests,     \* the getUserMedia and getDisplayMedia calls without an answer
  created,      \* the number of tracks created
  trackOf,      \* the track in each MediaStream that the client still holds
  stopped,      \* tracks of this call that are stopped
  muted,        \* live tracks of this call that are not enabled
  localStreams, \* streams.localStreams
  desktopFirst, \* of the two keys of localStreams, desktop was put in first
  mirror,       \* localStreams.camera.mirror
  peerStreams,  \* localStreams of peers.ts
  peers,        \* the peers reducer: the peers in the order of their insertion
  connected,    \* simple-peer: the peers that have connected
  senders,      \* simple-peer: the senders of each peer
  raced,        \* history of this call: a stream changed while a peer was connecting
  late,         \* history of this call: a late answer, or a rejected dial
  unsure        \* history of this call: a track was refused, or handleDevice
                \* enabled another camera than the one chosen

callVars == <<dialState, dials, listening>>
trackVars == <<created, stopped, muted, trackOf>>
streamVars == <<localStreams, desktopFirst, mirror, peerStreams>>
peerVars == <<peers, connected, senders>>
history == <<raced, late, unsure>>
vars == <<callVars, video, lastDevice, requests, trackVars, streamVars, peerVars,
          history>>

Types == {"camera", "desktop"}
Streams == 1..MaxTracks
Tracks == [id : 1..MaxTracks, device : Devices \cup {None}]
NoTrack == [id |-> 0, device |-> None]
Choices == Devices \cup {Off}
Requests == [what : {"camera", "track"}, choice : Devices]
              \cup {[what |-> "desktop", choice |-> None]}
Senders == [stream : Streams, known : SUBSET Tracks, track : Tracks, removed : BOOLEAN]

InPeers == {peers[i] : i \in DOMAIN peers}
Connecting == InPeers \ connected
Track(s) == IF trackOf[s] = NoTrack THEN {} ELSE {trackOf[s]}

Init ==
  /\ dialState = "hung-up" /\ dials = 0 /\ listening = FALSE
  /\ video \in Choices /\ lastDevice = None
  /\ requests = EmptyBag
  /\ created = 0 /\ stopped = {} /\ muted = {}
  /\ trackOf = EmptyMap
  /\ localStreams = EmptyMap /\ desktopFirst = FALSE
  /\ mirror = FALSE /\ peerStreams = EmptyMap
  /\ peers = <<>> /\ connected = {} /\ senders = [p \in Peers |-> {}]
  /\ raced = FALSE /\ late = FALSE /\ unsure = FALSE
-----------------------------------------------------------------------------
(***************************************************************************)
(* simple-peer.  It keeps a sender for each track and stream that were     *)
(* ever added together, and throws if it is asked to add them again, or to *)
(* replace a track that it does not have.                                  *)
(***************************************************************************)
SenderOf(ss, t, s) == {x \in ss : x.stream = s /\ t \in x.known}
AddTrackThrows(ss, t, s) == SenderOf(ss, t, s) # {}
AddTrack(ss, t, s) ==
  ss \cup {[stream |-> s, known |-> {t}, track |-> t, removed |-> FALSE]}
RemoveTrack(ss, t, s) ==
  (ss \ SenderOf(ss, t, s))
    \cup {[x EXCEPT !.removed = TRUE] : x \in SenderOf(ss, t, s)}
ReplaceTrackThrows(ss, t, s) == SenderOf(ss, t, s) = {}
ReplaceTrack(ss, old, new, s) ==
  (ss \ SenderOf(ss, old, s))
    \cup {[x EXCEPT !.track = new, !.known = @ \cup {new}] : x \in SenderOf(ss, old, s)}

Sending(p) == {x.track : x \in {y \in senders[p] : ~y.removed}}
-----------------------------------------------------------------------------
(***************************************************************************)
(* The reducers.                                                           *)
(***************************************************************************)

NewTrack(d) == [id |-> created + 1, device |-> d]

KeptByPeers(ss, s) == ss
\* handleRemoveLocalStream: no peer sends the stream's track any longer.
RemovedFromPeers(ss, s) ==
  IF Track(s) = {} THEN ss ELSE RemoveTrack(ss, trackOf[s], s)

SwapStreamAdds(ss, type, s, t) == IF t = NoTrack THEN ss ELSE AddTrack(ss, t, s)
\* handleLocalMediaStream: every peer swaps the stream of this type.
SwapStream(ss, type, s, t) ==
  LET removed == IF type \in DOMAIN peerStreams
                 THEN RemovedFromPeers(ss, peerStreams[type]) ELSE ss
  IN IF t = NoTrack THEN removed ELSE AddTrack(removed, t, s)

\* stopStream: the tracks of the stream of this type.
StopStream(type) ==
  IF type \in DOMAIN localStreams THEN Track(localStreams[type]) ELSE {}

\* MEDIA_STREAM: handleLocalMediaStream, then addLocalStream, which stops the
\* stream that it replaces.
MediaStream(type, t) ==
  LET s == created + 1
  IN /\ created' = s
     /\ stopped' = stopped \cup StopStream(type)
     /\ senders' = [p \in Peers |-> IF p \in InPeers
                                    THEN SwapStream(senders[p], type, s, t)
                                    ELSE senders[p]]
     /\ peerStreams' = Put(peerStreams, type, s)
     /\ localStreams' = Put(localStreams, type, s)
     /\ desktopFirst' = (desktopFirst \/ (type = "camera" /\ DOMAIN localStreams = {"desktop"}))
     /\ trackOf' = Put([x \in DOMAIN trackOf \ {Get(peerStreams, type, 0)} |-> trackOf[x]],
                       s, t)
     /\ mirror' = IF type = "camera" THEN t.device \in Mirrored ELSE mirror
     /\ muted' = muted \ stopped'

MirrorOfJoin(t) == mirror
\* setLocalStreamMirror.
SetLocalStreamMirror(t) == t.device \in Mirrored

\* The peers that the loop of handleLocalMediaTrack reaches before a
\* replaceTrack throws.
Reached(old, s) ==
  {peers[i] : i \in {j \in DOMAIN peers :
                       \A k \in 1..j : ~ReplaceTrackThrows(senders[peers[k]], old, s)}}

\* MEDIA_TRACK with a track: handleLocalMediaTrack and setLocalStreamMirror.
\* The new track replaces the camera's track, or is added if there is none.
\* Without a camera stream it is dropped, and goes on.
MediaTrack(new) ==
  LET s == peerStreams["camera"]
      old == trackOf[s]
      reached == IF old = NoTrack THEN InPeers ELSE Reached(old, s)
      done == reached = InPeers
  IN /\ created' = created + 1
     /\ IF "camera" \notin DOMAIN peerStreams
        THEN UNCHANGED <<trackOf, stopped, senders, mirror>>
        ELSE /\ senders' = [p \in Peers |->
                  IF p \notin reached THEN senders[p]
                  ELSE IF old = NoTrack THEN AddTrack(senders[p], new, s)
                  ELSE ReplaceTrack(senders[p], old, new, s)]
             /\ trackOf' = IF done THEN [trackOf EXCEPT ![s] = new] ELSE trackOf
             /\ stopped' = IF done THEN stopped \cup Track(s) ELSE stopped
             /\ mirror' = IF done THEN SetLocalStreamMirror(new) ELSE mirror
     /\ muted' = muted \ stopped'
     /\ UNCHANGED <<localStreams, desktopFirst, peerStreams>>

MuteNothing == UNCHANGED muted
\* MEDIA_TRACK without a track: the camera's track is muted.
MuteTrack ==
  muted' = IF "camera" \in DOMAIN peerStreams
           THEN muted \cup Track(peerStreams["camera"]) ELSE muted

EnableDesktopTrack ==
  muted' = IF "desktop" \in DOMAIN peerStreams
           THEN muted \ Track(peerStreams["desktop"]) ELSE muted
\* MEDIA_TRACK_ENABLE.
EnableTrack ==
  muted' = IF "camera" \in DOMAIN peerStreams
           THEN muted \ Track(peerStreams["camera"]) ELSE muted
-----------------------------------------------------------------------------
(***************************************************************************)
(* The user.                                                               *)
(***************************************************************************)
Ask(what, choice) ==
  /\ BagCardinality(requests) < MaxRequests
  /\ requests' = requests (+) SetToBag({[what |-> what, choice |-> choice]})

HungUp == dialState = "hung-up"
InCall == dialState = "in-call"

\* The selects of the join form.
SetVideoConstraint(c) ==
  /\ HungUp /\ c # video
  /\ video' = c
  /\ UNCHANGED <<callVars, lastDevice, requests, trackVars, streamVars, peerVars,
                 history>>

\* The toolbar's menus are unmounted when the client is not in a call.
Dial ==
  /\ dials < MaxDials
  /\ dialState' = "dialling" /\ dials' = dials + 1
  /\ listening' = TRUE
  /\ lastDevice' = None

\* handleSubmit and getMediaStream.  Without a device there is nothing to wait
\* for: the stream is empty, and handleSubmit goes on to dial.
Join ==
  /\ HungUp
  /\ \/ /\ video # Off /\ Ask("camera", video)
        /\ UNCHANGED <<callVars, lastDevice, trackVars, streamVars, peerVars, history>>
     \/ /\ video = Off /\ created < MaxTracks
        /\ MediaStream("camera", NoTrack)
        /\ Dial
        /\ raced' = (raced \/ Connecting # {})
        /\ UNCHANGED <<requests, peers, connected, late, unsure>>
  /\ UNCHANGED video

\* The server answers a dial.
DialResolved ==
  /\ listening /\ dials > 0
  /\ dials' = dials - 1
  /\ dialState' = "in-call"
  /\ UNCHANGED <<listening, video, lastDevice, requests, trackVars, streamVars, peerVars,
                 history>>

\* A dial is rejected: the form is shown again, with the camera and handleUsers
\* as they are.
DialRejected ==
  /\ dials > 0
  /\ dials' = dials - 1
  /\ dialState' = "hung-up"
  /\ lastDevice' = None
  /\ late' = (late \/ listening)
  /\ UNCHANGED <<listening, video, requests, trackVars, streamVars, peerVars, raced,
                 unsure>>

\* getMediaTrack: without a device there is no track, at once.
GetMediaTrack(c) ==
  \/ c = Off /\ MuteTrack /\ UNCHANGED requests
  \/ c # Off /\ Ask("track", c) /\ UNCHANGED muted

\* DeviceDropdown.handleDevice and its getMediaTrack: "No Video" mutes the track;
\* choosing the device it had shown enables it again; any other device is
\* asked for.
HandleDevice(c) ==
  /\ InCall
  /\ video' = c
  /\ lastDevice' = IF c = Off /\ video # Off THEN video ELSE lastDevice
  /\ \/ /\ c # Off /\ c = lastDevice' /\ EnableTrack /\ UNCHANGED requests
        /\ unsure' = (unsure \/ trackOf[peerStreams["camera"]].device # c)
     \/ (c = Off \/ c # lastDevice') /\ GetMediaTrack(c) /\ UNCHANGED unsure
  /\ UNCHANGED <<callVars, created, stopped, trackOf, streamVars, peerVars, raced, late>>

\* Toolbar.handleToggleShareDesktop.  removeLocalStream does not stop the track.
ToggleShareDesktop ==
  /\ InCall
  /\ \/ /\ "desktop" \notin DOMAIN localStreams
        /\ Ask("desktop", None)
        /\ UNCHANGED <<localStreams, desktopFirst, senders>>
     \/ /\ "desktop" \in DOMAIN localStreams
        /\ LET s == localStreams["desktop"]
           IN senders' = [p \in Peers |-> IF p \in InPeers
                                          THEN RemovedFromPeers(senders[p], s)
                                          ELSE senders[p]]
        /\ localStreams' = Delete(localStreams, "desktop") /\ desktopFirst' = FALSE
        /\ UNCHANGED requests
  /\ UNCHANGED <<callVars, video, lastDevice, trackVars, mirror, peerStreams, peers,
                 connected, history>>

\* App.onHangup: the local streams are removed before HANG_UP, which so finds
\* none to stop, and all peers are destroyed.
HangUp ==
  /\ InCall
  /\ dialState' = "hung-up" /\ listening' = FALSE
  /\ localStreams' = EmptyMap /\ peerStreams' = EmptyMap
  /\ desktopFirst' = FALSE /\ mirror' = FALSE
  /\ peers' = <<>> /\ connected' = {} /\ senders' = [p \in Peers |-> {}]
  /\ created' = 0 /\ trackOf' = EmptyMap /\ stopped' = {} /\ muted' = {}
  /\ lastDevice' = None
  /\ raced' = FALSE /\ late' = FALSE /\ unsure' = FALSE
  /\ UNCHANGED <<dials, video, requests>>
-----------------------------------------------------------------------------
(***************************************************************************)
(* The browser.                                                            *)
(***************************************************************************)

\* A request is granted: the middleware dispatches the resolved action, and
\* handleSubmit goes on to dial.
Resolve(r) ==
  /\ created < MaxTracks
  /\ requests' = requests (-) SetToBag({r})
  /\ \/ /\ r.what = "track" /\ MediaTrack(NewTrack(r.choice))
        /\ UNCHANGED <<callVars, lastDevice>>
     \/ r.what = "camera" /\ MediaStream("camera", NewTrack(r.choice)) /\ Dial
     \/ /\ r.what = "desktop" /\ MediaStream("desktop", NewTrack(None))
        /\ UNCHANGED <<callVars, lastDevice>>
  /\ raced' = (raced \/ (Connecting # {} /\ (r.what # "desktop" \/ desktopFirst)))
  /\ late' = (late \/ (listening' /\ r.choice \notin {video, None}))
  /\ UNCHANGED <<video, peers, connected, unsure>>

\* It is refused.
Reject(r) ==
  /\ requests' = requests (-) SetToBag({r})
  /\ unsure' = (unsure \/ (listening /\ r.what = "track"))
  /\ UNCHANGED <<callVars, video, lastDevice, trackVars, streamVars, peerVars, raced,
                 late>>

\* createPeer, for a user of the users event.
CreatePeer(p) ==
  /\ listening /\ p \notin InPeers
  /\ peers' = Append(peers, p)
  /\ UNCHANGED <<callVars, video, lastDevice, requests, trackVars, streamVars,
                 connected, senders, history>>

\* localStreams has u before t, or u is t.
NotAfter(u, t) == u = t \/ u = IF desktopFirst THEN "desktop" ELSE "camera"

\* PeerHandler.handleConnect adds the local streams in the order of their keys,
\* until an addTrack throws.
HandleConnect(p) ==
  LET ss == senders[p]
      Throws(type) ==
        \E t \in Track(localStreams[type]) : AddTrackThrows(ss, t, localStreams[type])
      reached == {type \in DOMAIN localStreams :
                    \A u \in DOMAIN localStreams : NotAfter(u, type) => ~Throws(u)}
      Added(type) ==
        UNION {AddTrack({}, t, localStreams[type]) : t \in Track(localStreams[type])}
  IN /\ p \in Connecting
     /\ connected' = connected \cup {p}
     /\ senders' = [senders EXCEPT ![p] = ss \cup UNION {Added(type) : type \in reached}]
     /\ UNCHANGED <<callVars, video, lastDevice, requests, trackVars, streamVars, peers,
                    history>>

\* omit: the others keep their order.
OmitPeer(p) ==
  LET i == CHOOSE k \in DOMAIN peers : peers[k] = p
  IN [j \in 1..(Len(peers) - 1) |-> IF j < i THEN peers[j] ELSE peers[j + 1]]

\* handleClose, and handleError, which destroys the peer first.
HandleClose(p) ==
  /\ p \in InPeers
  /\ peers' = OmitPeer(p)
  /\ connected' = connected \ {p}
  /\ senders' = [senders EXCEPT ![p] = {}]
  /\ UNCHANGED <<callVars, video, lastDevice, requests, trackVars, streamVars, history>>

Next ==
  \/ \E c \in Choices : SetVideoConstraint(c) \/ HandleDevice(c)
  \/ Join \/ DialResolved \/ DialRejected \/ ToggleShareDesktop \/ HangUp
  \/ \E r \in BagToSet(requests) : Resolve(r) \/ Reject(r)
  \/ \E p \in Peers : CreatePeer(p) \/ HandleConnect(p) \/ HandleClose(p)

Spec == Init /\ [][Next]_vars
-----------------------------------------------------------------------------
\* The state is well formed: the streams that either reducer knows exist, and a
\* peer that is gone has no senders.
TypeOK ==
  /\ dialState \in {"hung-up", "dialling", "in-call"} /\ dials \in 0..MaxDials
  /\ {listening, desktopFirst, mirror} \subseteq BOOLEAN
  /\ video \in Choices /\ lastDevice \in Devices \cup {None}
  /\ IsABag(requests) /\ BagToSet(requests) \subseteq Requests
  /\ created \in 0..MaxTracks
  /\ stopped \cup muted \subseteq Tracks
  /\ IsMap(trackOf, 1..created, Tracks \cup {NoTrack})
  /\ IsMap(localStreams, Types, DOMAIN trackOf)
  /\ IsMap(peerStreams, Types, DOMAIN trackOf)
  /\ peers \in Seq(Peers) /\ connected \subseteq InPeers
  /\ \A p \in Peers : \A x \in senders[p] : x \in Senders
  /\ \A p \in Peers \ InPeers : senders[p] = {}
  /\ {raced, late, unsure} \subseteq BOOLEAN

\* No peer is sent a track that has been stopped, whatever the order in which
\* cameras, screens, peers and exceptions come: a stream or a track is stopped
\* only when it was taken from every peer.
SentTracksAreLive == \A p \in Peers : Sending(p) \cap stopped = {}

(***************************************************************************)
(* A connected peer is sent exactly the tracks of the local streams.  It   *)
(* holds unless a stream changed while a peer was connecting.  With the    *)
(* camera, replaceTrack then throws for that peer and the peers after it   *)
(* keep the old track, or handleConnect adds a track a second time and     *)
(* skips the shared screen.  With the screen it does no harm, since the    *)
(* camera is added before it; only if the screen is the first of           *)
(* localStreams, as one that was granted after hanging up is in the next   *)
(* call, handleConnect throws on it and never adds the camera.             *)
(***************************************************************************)
PeersGetLocalTracks ==
  ~raced => \A p \in connected :
    Sending(p) = UNION {Track(localStreams[type]) : type \in DOMAIN localStreams}

\* While "No Video" is chosen nobody is sent an enabled track of a camera,
\* provided that in this call no answer to an earlier choice came after that
\* choice, no dial was rejected (the form, which is then shown again, leaves the
\* track alone), and no stream changed while a peer was connecting (some peers may
\* then have another track than the one that is muted).
OffIsOff ==
  video = Off /\ ~late /\ ~raced =>
    \A p \in Peers : \A t \in Sending(p) \ muted : t.device = None

NoTrackAskedFor == \A r \in BagToSet(requests) : r.what # "track"

\* In a call, once every request for a track is answered, the camera that the
\* menu shows is the one in use, and it is enabled, however often cameras were
\* turned off and on and others chosen.  Excepted are, in this call, a late answer,
\* a rejected dial, a change while a peer connects, a refusal, and the mistake of
\* handleDevice, which takes the camera in use for the one that "No Video" turned
\* off although another has replaced it since.
OnIsOn ==
  /\ InCall /\ video # Off /\ NoTrackAskedFor
  /\ ~raced /\ ~late /\ ~unsure
  => /\ trackOf[localStreams["camera"]].device = video
     /\ Track(localStreams["camera"]) \cap muted = {}

\* The picture is mirrored if and only if the camera in use asks for it: the
\* streams reducer follows what the peers reducer does with the track.
MirrorFitsDevice ==
  "camera" \in DOMAIN localStreams =>
    \A t \in Track(localStreams["camera"]) : mirror <=> t.device \in Mirrored

\* What the two reducers keep up between all events, exceptions included: the
\* tables are well formed, no stopped track is sent, and the mirror flag fits.
MediaInv == TypeOK /\ SentTracksAreLive /\ MirrorFitsDevice

\* The device menu tells the truth, with the exceptions of its two parts: off is
\* off and, once every request is answered, the camera shown is in use and on.
MenuIsTrue == OffIsOff /\ OnIsOn
=============================================================================
