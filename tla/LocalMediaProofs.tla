-------------------------- MODULE LocalMediaProofs --------------------------
(***************************************************************************)
(* Proofs about LocalMedia for any set of peers and devices and any number *)
(* of tracks and open requests: no peer is sent a stopped track, connected *)
(* peers are sent the local tracks, the mirror flag fits, and the device   *)
(* menu tells the truth.                                                   *)
(***************************************************************************)
EXTENDS LocalMedia, TLAPS

HasCamera == "camera" \in DOMAIN localStreams
Camera == localStreams["camera"]

\* The peers are in the order of their insertion, each one once, and there are
\* none while nobody listens for users.
PeersOnce ==
  /\ senders \in [Peers -> SUBSET Senders]
  /\ \A i, j \in DOMAIN peers : peers[i] = peers[j] => i = j
  /\ ~listening => peers = <<>>

\* The two reducers agree on the local streams, except that peers.ts does not
\* forget a screen that is no longer shared.
ReducersAgree ==
  /\ listening <=> HasCamera
  /\ DOMAIN localStreams \subseteq DOMAIN peerStreams
  /\ \A t \in DOMAIN localStreams : localStreams[t] = peerStreams[t]
  /\ "camera" \in DOMAIN peerStreams => HasCamera
  /\ \A t, u \in DOMAIN peerStreams : peerStreams[t] = peerStreams[u] => t = u
  /\ desktopFirst => HasCamera /\ "desktop" \in DOMAIN localStreams

Old == {t \in Tracks : t.id <= created}

\* A track is in one stream, and not after it was stopped.
TracksOnce ==
  /\ stopped \subseteq Old /\ muted \subseteq Old
  /\ \A s \in DOMAIN trackOf : trackOf[s] \in Old \cup {NoTrack} /\ trackOf[s] \notin stopped
  /\ \A r, s \in DOMAIN trackOf : trackOf[r] = trackOf[s] /\ trackOf[r] # NoTrack => r = s
  /\ "desktop" \in DOMAIN localStreams => trackOf[localStreams["desktop"]].device = None

\* A sender knows tracks of its own stream only.
SendersFit ==
  \A p \in Peers : \A x \in senders[p] :
    /\ x.track \in x.known /\ x.known \subseteq Old /\ x.stream <= created
    /\ \A s \in DOMAIN trackOf : trackOf[s] \in x.known => s = x.stream

\* The senders ss of a peer: those that send are for the local streams, with
\* the tracks of these.
SendsOnlyLocal(ss) ==
  \A x \in ss :
    /\ \A t \in DOMAIN localStreams :
         x.stream = localStreams[t] => ~x.removed /\ x.track = trackOf[x.stream]
    /\ ~x.removed => \E t \in DOMAIN localStreams : x.stream = localStreams[t]
SendsAllLocal(ss) ==
  \A t \in DOMAIN localStreams :
    trackOf[localStreams[t]] # NoTrack => \E x \in ss : x.stream = localStreams[t]
\* Nothing makes handleConnect throw before it has added the camera.
MayConnect(ss) ==
  /\ HasCamera => \A x \in ss : x.stream # Camera
  /\ desktopFirst => \A x \in ss : x.stream # localStreams["desktop"]

\* Unless a stream changed while a peer was connecting, connected peers have
\* senders for the local streams, and connecting ones at most for the screen, and
\* not for a screen that handleConnect adds before the camera.
PeersInStep ==
  ~raced => \A p \in InPeers :
    /\ SendsOnlyLocal(senders[p])
    /\ p \in connected => SendsAllLocal(senders[p])
    /\ p \notin connected => MayConnect(senders[p])

\* The dials: users are listened for from the dial to the hang up.
DialFits ==
  /\ dialState \in {"hung-up", "dialling", "in-call"} /\ dials \in 0..MaxDials
  /\ ~HungUp => listening
  /\ HungUp /\ ~late => ~listening

CameraIsOn == trackOf[Camera].device = video /\ Track(Camera) \cap muted = {}
Asked == \E r \in BagToSet(requests) : r.what = "track" /\ r.choice = video

\* The camera of the menu is in use and on, or has been asked for.
MenuFits ==
  /\ video = Off /\ ~late /\ HasCamera => Track(Camera) \subseteq muted
  /\ listening /\ video # Off /\ ~raced /\ ~late /\ ~unsure
       => CameraIsOn \/ Asked

MediaIndInv ==
  /\ TypeOK
  /\ PeersOnce
  /\ ReducersAgree
  /\ TracksOnce
  /\ SendersFit
  /\ SentTracksAreLive
  /\ MirrorFitsDevice
  /\ PeersInStep
  /\ DialFits
  /\ MenuFits

-----------------------------------------------------------------------------
(* Requests *)

LEMMA RequestAdded ==
  ASSUME NEW B, IsABag(B), NEW r
  PROVE  IsABag(B (+) SetToBag({r})) /\ BagToSet(B (+) SetToBag({r})) = BagToSet(B) \cup {r}
BY DEF IsABag, BagToSet, SetToBag, (+)

LEMMA RequestRemoved ==
  ASSUME NEW B, IsABag(B), NEW r
  PROVE  /\ IsABag(B (-) SetToBag({r})) /\ BagToSet(B (-) SetToBag({r})) \subseteq BagToSet(B)
         /\ BagToSet(B) \ {r} \subseteq BagToSet(B (-) SetToBag({r}))
BY DEF IsABag, BagToSet, SetToBag, (-)

-----------------------------------------------------------------------------
(* Tracks, streams and senders *)

LEMMA NoTrackFacts ==
  /\ NoTrack \notin Tracks /\ NoTrack.device = None
  /\ \A t \in Tracks : t # NoTrack /\ t.id \in Nat
<1>1. 0 \notin 1..MaxTracks
  BY LocalMediaAssumption
<1>2. \A t \in Tracks : t.id \in 1..MaxTracks
  BY DEF Tracks
<1>3. NoTrack.id = 0 /\ NoTrack.device = None
  BY DEF NoTrack
<1>4. \A i \in 1..MaxTracks : i \in Nat
  BY LocalMediaAssumption
<1> QED BY <1>1, <1>2, <1>3, <1>4

LEMMA StreamFacts ==
  ASSUME MediaIndInv
  PROVE  /\ created \in Nat /\ MaxTracks \in Nat
         /\ \A s \in DOMAIN trackOf : s \in 1..created /\ trackOf[s] \in Tracks \cup {NoTrack}
         /\ \A t \in DOMAIN peerStreams : peerStreams[t] \in DOMAIN trackOf
         /\ \A t \in DOMAIN localStreams : localStreams[t] \in DOMAIN trackOf
         /\ DOMAIN localStreams \subseteq Types /\ DOMAIN peerStreams \subseteq Types
         /\ \A t, u \in DOMAIN localStreams : localStreams[t] = localStreams[u] => t = u
         /\ \A s : trackOf[s] = NoTrack => Track(s) = {}
         /\ \A s : trackOf[s] # NoTrack => Track(s) = {trackOf[s]}
<1>1. created \in Nat /\ MaxTracks \in Nat
  BY LocalMediaAssumption DEF MediaIndInv, TypeOK
<1>2. \A s \in DOMAIN trackOf : s \in 1..created /\ trackOf[s] \in Tracks \cup {NoTrack}
  BY DEF MediaIndInv, TypeOK, IsMap
<1>3. /\ \A t \in DOMAIN peerStreams : peerStreams[t] \in DOMAIN trackOf
      /\ \A t \in DOMAIN localStreams : localStreams[t] \in DOMAIN trackOf
      /\ DOMAIN localStreams \subseteq Types /\ DOMAIN peerStreams \subseteq Types
  BY DEF MediaIndInv, TypeOK, IsMap
<1>4. \A t, u \in DOMAIN localStreams : localStreams[t] = localStreams[u] => t = u
  BY DEF MediaIndInv, ReducersAgree
<1>5. /\ \A s : trackOf[s] = NoTrack => Track(s) = {}
      /\ \A s : trackOf[s] # NoTrack => Track(s) = {trackOf[s]}
  BY DEF Track
<1> QED BY <1>1, <1>2, <1>3, <1>4, <1>5

LEMMA SenderFields ==
  ASSUME NEW x \in Senders
  PROVE  /\ x.stream \in Streams /\ x.known \subseteq Tracks /\ x.track \in Tracks
         /\ x.removed \in BOOLEAN /\ NoTrack \notin x.known
BY NoTrackFacts DEF Senders

\* y is the sender x, which, if it is for stream s, may no longer send.
Kept(x, y, s) ==
  /\ y.stream = x.stream /\ y.known = x.known /\ y.track = x.track
  /\ y = x \/ (y.removed /\ y.stream = s)

\* The sender of a track that was added to stream s.
Fresh(y, t, s) ==
  /\ y.stream = s /\ y.known = {t} /\ y.track = t /\ ~y.removed

LEMMA TrackAdded ==
  ASSUME NEW ss \in SUBSET Senders, NEW t \in Tracks, NEW s \in Streams
  PROVE  /\ AddTrack(ss, t, s) \in SUBSET Senders
         /\ \A y \in AddTrack(ss, t, s) : y \in ss \/ Fresh(y, t, s)
         /\ ss \subseteq AddTrack(ss, t, s)
         /\ \E y \in AddTrack(ss, t, s) : y.stream = s
<1> DEFINE x == [stream |-> s, known |-> {t}, track |-> t, removed |-> FALSE]
<1>1. x \in Senders /\ Fresh(x, t, s)
  BY DEF Senders, Fresh
<1>2. AddTrack(ss, t, s) = ss \cup {x}
  BY DEF AddTrack
<1>3. x.stream = s
  OBVIOUS
<1> HIDE DEF x
<1> QED BY <1>1, <1>2, <1>3

LEMMA TrackRemoved ==
  ASSUME NEW ss \in SUBSET Senders, NEW t, NEW s
  PROVE  /\ RemoveTrack(ss, t, s) \in SUBSET Senders
         /\ \A y \in RemoveTrack(ss, t, s) :
              (\E x \in ss : Kept(x, y, s)) /\ (y.stream = s /\ t \in y.known => y.removed)
         /\ \A x \in ss : \E y \in RemoveTrack(ss, t, s) : y.stream = x.stream
<1> DEFINE Off1(x) == [x EXCEPT !.removed = TRUE]
<1>1. \A x \in Senders : /\ Off1(x) \in Senders /\ Off1(x).removed /\ Off1(x).stream = x.stream
                         /\ x.stream = s => Kept(x, Off1(x), s)
  BY DEF Senders, Kept
<1>2. \A x \in ss : Kept(x, x, s)
  BY DEF Kept
<1>3. RemoveTrack(ss, t, s) = (ss \ SenderOf(ss, t, s)) \cup {Off1(x) : x \in SenderOf(ss, t, s)}
  BY DEF RemoveTrack
<1>4. \A x \in ss : x \in SenderOf(ss, t, s) <=> x.stream = s /\ t \in x.known
  BY DEF SenderOf
<1>5. SenderOf(ss, t, s) \subseteq ss
  BY DEF SenderOf
<1> HIDE DEF Off1
<1> QED BY <1>1, <1>2, <1>3, <1>4, <1>5

LEMMA TrackReplaced ==
  ASSUME NEW ss \in SUBSET Senders, NEW old, NEW new \in Tracks, NEW s
  PROVE  /\ ReplaceTrack(ss, old, new, s) \in SUBSET Senders
         /\ \A y \in ReplaceTrack(ss, old, new, s) :
              \/ y \in ss /\ ~(y.stream = s /\ old \in y.known)
              \/ \E x \in ss : /\ x.stream = s /\ old \in x.known
                               /\ y.stream = s /\ y.track = new /\ y.known = x.known \cup {new}
                               /\ y.removed = x.removed
         /\ \A x \in ss : \E y \in ReplaceTrack(ss, old, new, s) : y.stream = x.stream
<1> DEFINE R(x) == [x EXCEPT !.track = new, !.known = @ \cup {new}]
<1>1. \A x \in Senders : /\ R(x) \in Senders /\ R(x).stream = x.stream /\ R(x).track = new
                         /\ R(x).known = x.known \cup {new} /\ R(x).removed = x.removed
  BY DEF Senders
<1>2. ReplaceTrack(ss, old, new, s) = (ss \ SenderOf(ss, old, s)) \cup {R(x) : x \in SenderOf(ss, old, s)}
  BY DEF ReplaceTrack
<1>3. \A x \in ss : x \in SenderOf(ss, old, s) <=> x.stream = s /\ old \in x.known
  BY DEF SenderOf
<1>4. SenderOf(ss, old, s) \subseteq ss
  BY DEF SenderOf
<1> HIDE DEF R
<1>5. ReplaceTrack(ss, old, new, s) \in SUBSET Senders
  BY <1>1, <1>2, <1>4
<1>6. ASSUME NEW y \in ReplaceTrack(ss, old, new, s)
      PROVE  \/ y \in ss /\ ~(y.stream = s /\ old \in y.known)
             \/ \E x \in ss : /\ x.stream = s /\ old \in x.known
                              /\ y.stream = s /\ y.track = new /\ y.known = x.known \cup {new}
                              /\ y.removed = x.removed
  BY <1>1, <1>2, <1>3, <1>4
<1>7. ASSUME NEW x \in ss PROVE \E y \in ReplaceTrack(ss, old, new, s) : y.stream = x.stream
  BY <1>1, <1>2, <1>3, <1>4
<1> QED BY <1>5, <1>6, <1>7

\* What swapping a stream for stream n with track t does to a peer's senders.
Swapped(ss, tt, type, n, t) ==
  /\ tt \in SUBSET Senders
  /\ \A y \in tt :
       \/ t # NoTrack /\ Fresh(y, t, n)
       \/ /\ \E x \in ss : Kept(x, y, Get(peerStreams, type, 0))
          /\ type \in DOMAIN peerStreams /\ y.stream = peerStreams[type]
               /\ trackOf[peerStreams[type]] \in y.known => y.removed
  /\ \A x \in ss : \E y \in tt : y.stream = x.stream
  /\ t # NoTrack => \E y \in tt : y.stream = n

LEMMA StreamSwapped ==
  ASSUME NEW ss \in SUBSET Senders, NEW type, NEW n \in Streams, NEW t \in Tracks \cup {NoTrack}
  PROVE  Swapped(ss, SwapStream(ss, type, n, t), type, n, t)
<1> DEFINE removed == IF type \in DOMAIN peerStreams
                      THEN RemovedFromPeers(ss, peerStreams[type]) ELSE ss
<1>1. /\ removed \in SUBSET Senders
      /\ \A y \in removed :
           /\ \E x \in ss : Kept(x, y, Get(peerStreams, type, 0))
           /\ type \in DOMAIN peerStreams /\ y.stream = peerStreams[type]
                /\ trackOf[peerStreams[type]] \in y.known => y.removed
      /\ \A x \in ss : \E y \in removed : y.stream = x.stream
  <2>1. \A x \in ss : Kept(x, x, Get(peerStreams, type, 0))
    BY DEF Kept
  <2>2. CASE type \notin DOMAIN peerStreams
    BY <2>1, <2>2
  <2>3. CASE type \in DOMAIN peerStreams /\ trackOf[peerStreams[type]] = NoTrack
    <3>1. removed = ss
      BY <2>3 DEF RemovedFromPeers, Track
    <3>2. \A x \in ss : NoTrack \notin x.known
      BY SenderFields
    <3> QED BY <2>1, <2>3, <3>1, <3>2
  <2>4. CASE type \in DOMAIN peerStreams /\ trackOf[peerStreams[type]] # NoTrack
    <3>1. removed = RemoveTrack(ss, trackOf[peerStreams[type]], peerStreams[type])
      BY <2>4 DEF RemovedFromPeers, Track
    <3>2. Get(peerStreams, type, 0) = peerStreams[type]
      BY <2>4 DEF Get
    <3> QED BY <2>4, <3>1, <3>2, TrackRemoved
  <2> QED BY <2>2, <2>3, <2>4
<1>2. SwapStream(ss, type, n, t) = IF t = NoTrack THEN removed ELSE AddTrack(removed, t, n)
  BY DEF SwapStream
<1> HIDE DEF removed
<1>3. CASE t = NoTrack
  BY <1>1, <1>2, <1>3 DEF Swapped
<1>4. CASE t # NoTrack
  <2>1. /\ AddTrack(removed, t, n) \in SUBSET Senders
        /\ \A y \in AddTrack(removed, t, n) : y \in removed \/ Fresh(y, t, n)
        /\ removed \subseteq AddTrack(removed, t, n)
        /\ \E y \in AddTrack(removed, t, n) : y.stream = n
    BY <1>1, <1>4, TrackAdded
  <2> QED BY <1>1, <1>2, <1>4, <2>1 DEF Swapped
<1> QED BY <1>3, <1>4

-----------------------------------------------------------------------------
(* The tables of the two reducers and of simple-peer *)

TablesTyped ==
  /\ {listening, desktopFirst, mirror} \subseteq BOOLEAN /\ created \in 0..MaxTracks
  /\ stopped \subseteq Tracks /\ muted \subseteq Tracks
  /\ IsMap(trackOf, 1..created, Tracks \cup {NoTrack})
  /\ IsMap(localStreams, Types, DOMAIN trackOf)
  /\ IsMap(peerStreams, Types, DOMAIN trackOf)
  /\ peers \in Seq(Peers) /\ connected \subseteq InPeers
  /\ \A p \in Peers \ InPeers : senders[p] = {}

Tables ==
  /\ TablesTyped
  /\ PeersOnce
  /\ ReducersAgree
  /\ TracksOnce
  /\ SendersFit
  /\ SentTracksAreLive
  /\ MirrorFitsDevice
  /\ PeersInStep

LEMMA TablesOfInv == MediaIndInv => Tables
BY DEF MediaIndInv, Tables, TypeOK, TablesTyped

\* The tables, and the menu with its requests, make up the invariant.
LEMMA InvOfTables ==
  ASSUME Tables', DialFits', MenuFits', video' \in Choices, lastDevice' \in Devices \cup {None},
         IsABag(requests'), BagToSet(requests') \subseteq Requests,
         {raced, late, unsure}' \subseteq BOOLEAN
  PROVE  MediaIndInv'
<1>1. \A p \in Peers : \A x \in senders'[p] : x \in Senders
  BY DEF Tables, PeersOnce
<1>2. TypeOK'
  BY <1>1 DEF Tables, TablesTyped, TypeOK, DialFits
<1> QED BY <1>2 DEF Tables, MediaIndInv

LEMMA PeerFacts ==
  ASSUME MediaIndInv
  PROVE  /\ InPeers \subseteq Peers /\ connected \subseteq InPeers
         /\ \A p \in Peers : senders[p] \in SUBSET Senders
         /\ \A p \in Peers \ InPeers : senders[p] = {}
BY DEF MediaIndInv, TypeOK, InPeers, PeersOnce

\* MEDIA_STREAM keeps the tables: a new camera only if no peer is connecting,
\* unless that is remembered.
LEMMA MediaStreamKeeps ==
  ASSUME MediaIndInv, NEW type \in Types, NEW t \in Tracks \cup {NoTrack}, created < MaxTracks,
         t # NoTrack => t.id = created + 1, type = "desktop" => t.device = None,
         MediaStream(type, t), UNCHANGED <<peers, connected>>,
         listening' = (listening \/ type = "camera"), listening' \/ peers = <<>>,
         raced => raced',
         (type = "camera" \/ desktopFirst) /\ ~raced' => InPeers \subseteq connected
  PROVE  /\ Tables' /\ muted' = muted \ stopped'
         /\ type = "camera" => /\ HasCamera' /\ Track(Camera)' \cap muted' = {}
                               /\ trackOf'[Camera'] = t
         /\ type = "camera" /\ t = NoTrack => Track(Camera)' = {}
         /\ type # "camera" => (HasCamera' <=> HasCamera)
         /\ type # "camera" /\ HasCamera => trackOf'[Camera'] = trackOf[Camera]
<1> DEFINE n == created + 1
           gone == Get(peerStreams, type, 0)
<1>1. /\ created' = n /\ muted' = muted \ stopped'
      /\ stopped' = stopped \cup StopStream(type)
      /\ senders' = [p \in Peers |-> IF p \in InPeers THEN SwapStream(senders[p], type, n, t)
                                     ELSE senders[p]]
      /\ peerStreams' = Put(peerStreams, type, n)
      /\ localStreams' = Put(localStreams, type, n)
      /\ desktopFirst' = (desktopFirst \/ (type = "camera" /\ DOMAIN localStreams = {"desktop"}))
      /\ trackOf' = Put([x \in DOMAIN trackOf \ {gone} |-> trackOf[x]], n, t)
      /\ mirror' = IF type = "camera" THEN t.device \in Mirrored ELSE mirror
  BY DEF MediaStream
<1>2. /\ created \in Nat /\ n \in Nat /\ n \in Streams /\ n \in 0..MaxTracks /\ n > created
      /\ \A i \in 1..created : i \in 1..n /\ i # n
      /\ n \in 1..n
  BY StreamFacts DEF Streams
<1>3. /\ DOMAIN peerStreams' = DOMAIN peerStreams \cup {type} /\ peerStreams'[type] = n
      /\ \A u \in DOMAIN peerStreams \ {type} : peerStreams'[u] = peerStreams[u]
      /\ DOMAIN localStreams' = DOMAIN localStreams \cup {type} /\ localStreams'[type] = n
      /\ \A u \in DOMAIN localStreams \ {type} : localStreams'[u] = localStreams[u]
  BY <1>1 DEF Put
<1>4. /\ DOMAIN trackOf' = (DOMAIN trackOf \ {gone}) \cup {n}
      /\ trackOf'[n] = t /\ n \notin DOMAIN trackOf
      /\ \A s \in DOMAIN trackOf \ {gone} : trackOf'[s] = trackOf[s] /\ s # n
  <2>1. n \notin DOMAIN trackOf
    BY <1>2, StreamFacts
  <2> QED BY <1>1, <2>1 DEF Put
<1>5. /\ type \in DOMAIN peerStreams => gone = peerStreams[type]
      /\ \A u \in DOMAIN peerStreams : u # type => peerStreams[u] \in DOMAIN trackOf \ {gone}
  <2>1. 0 \notin DOMAIN trackOf
    BY StreamFacts
  <2> QED BY <2>1, StreamFacts DEF Get, MediaIndInv, ReducersAgree
<1> HIDE DEF gone
<1>6. /\ Old \subseteq Old' /\ (t # NoTrack => t \in Old' /\ t \notin Old)
      /\ \A x \in Old : x # t
  BY <1>1, <1>2, NoTrackFacts DEF Old
<1> HIDE DEF n
<1>7. /\ InPeers' = InPeers /\ InPeers \subseteq Peers
      /\ \A p \in InPeers : Swapped(senders[p], senders'[p], type, n, t)
      /\ \A p \in Peers \ InPeers : senders'[p] = {}
  <2>1. InPeers' = InPeers
    BY DEF InPeers
  <2>2. \A p \in InPeers : Swapped(senders[p], SwapStream(senders[p], type, n, t), type, n, t)
    BY <1>2, PeerFacts, StreamSwapped
  <2> QED BY <1>1, <2>1, <2>2, PeerFacts
<1>8. \A u \in DOMAIN localStreams : /\ u \in DOMAIN peerStreams /\ localStreams[u] = peerStreams[u]
                                     /\ localStreams[u] \in DOMAIN trackOf
  BY StreamFacts DEF MediaIndInv, ReducersAgree
<1>9. TablesTyped'
  <2>1. IsMap(trackOf', 1..created', Tracks \cup {NoTrack})
    <3>1. \A s \in DOMAIN trackOf' : s \in 1..created' /\ trackOf'[s] \in Tracks \cup {NoTrack}
      BY <1>1, <1>2, <1>4, StreamFacts
    <3>2. trackOf' = [s \in DOMAIN trackOf' |-> trackOf'[s]]
      BY <1>1 DEF Put
    <3> QED BY <3>1, <3>2 DEF IsMap
  <2>2. IsMap(peerStreams', Types, DOMAIN trackOf')
    <3>1. \A u \in DOMAIN peerStreams' : peerStreams'[u] \in DOMAIN trackOf'
      BY <1>3, <1>4, <1>5
    <3>2. peerStreams' = [u \in DOMAIN peerStreams' |-> peerStreams'[u]]
      BY <1>1 DEF Put
    <3> QED BY <1>3, <3>1, <3>2, StreamFacts DEF IsMap
  <2>3. IsMap(localStreams', Types, DOMAIN trackOf')
    <3>1. \A u \in DOMAIN localStreams' : localStreams'[u] \in DOMAIN trackOf'
      BY <1>3, <1>4, <1>5, <1>8
    <3>2. localStreams' = [u \in DOMAIN localStreams' |-> localStreams'[u]]
      BY <1>1 DEF Put
    <3> QED BY <1>3, <3>1, <3>2, StreamFacts DEF IsMap
  <2>4. stopped' \subseteq Tracks /\ muted' \subseteq Tracks
    <3>1. StopStream(type) \subseteq Tracks
      BY <1>8, StreamFacts DEF StopStream
    <3> QED BY <1>1, <3>1 DEF MediaIndInv, TypeOK
  <2>5. {listening, desktopFirst, mirror}' \subseteq BOOLEAN
    <3>1. mirror \in BOOLEAN /\ (t.device \in Mirrored) \in BOOLEAN /\ desktopFirst \in BOOLEAN
      BY DEF MediaIndInv, TypeOK
    <3>2. mirror' \in BOOLEAN
      BY <1>1, <3>1
    <3>3. desktopFirst' \in BOOLEAN
      BY <1>1, <3>1
    <3> QED BY <3>2, <3>3
  <2>6. peers' \in Seq(Peers) /\ connected' \subseteq InPeers' /\ \A p \in Peers \ InPeers' : senders'[p] = {}
    BY <1>7 DEF MediaIndInv, TypeOK
  <2> QED BY <1>1, <1>2, <2>1, <2>2, <2>3, <2>4, <2>5, <2>6 DEF TablesTyped
<1>10. PeersOnce'
  <2>1. senders' \in [Peers -> SUBSET Senders]
    <3>1. \A p \in Peers : senders'[p] \in SUBSET Senders
      BY <1>7 DEF Swapped
    <3> QED BY <1>1, <3>1
  <2> QED BY <2>1 DEF PeersOnce, MediaIndInv
<1>11. ReducersAgree'
  <2>1. listening' <=> HasCamera'
    BY <1>3 DEF MediaIndInv, ReducersAgree, HasCamera
  <2>2. "camera" \in DOMAIN peerStreams' => HasCamera'
    BY <1>3 DEF MediaIndInv, ReducersAgree, HasCamera
  <2>3. \A u, v \in DOMAIN peerStreams' : peerStreams'[u] = peerStreams'[v] => u = v
    BY <1>3, <1>4, <1>5 DEF MediaIndInv, ReducersAgree
  <2>4. DOMAIN localStreams' \subseteq DOMAIN peerStreams'
        /\ \A u \in DOMAIN localStreams' : localStreams'[u] = peerStreams'[u]
    BY <1>3, <1>8
  <2>5. desktopFirst' => HasCamera' /\ "desktop" \in DOMAIN localStreams'
    BY <1>1, <1>3 DEF MediaIndInv, ReducersAgree, HasCamera
  <2> QED BY <2>1, <2>2, <2>3, <2>4, <2>5 DEF ReducersAgree
<1>12. /\ stopped' \subseteq Old \cup stopped
       /\ \A s \in DOMAIN trackOf' : trackOf'[s] \notin stopped'
       /\ \A x \in stopped' : x \in Old /\ (x \in stopped
            \/ (type \in DOMAIN localStreams /\ x = trackOf[peerStreams[type]] /\ x # NoTrack))
  <2>1. \A x \in StopStream(type) :
          type \in DOMAIN localStreams /\ x = trackOf[peerStreams[type]] /\ x # NoTrack
    BY <1>8, StreamFacts DEF StopStream
  <2>2. \A x \in StopStream(type) : x \in Old
    BY <1>8, <2>1 DEF MediaIndInv, TracksOnce
  <2>3. stopped \subseteq Old
    BY DEF MediaIndInv, TracksOnce
  <2>4. ASSUME NEW s \in DOMAIN trackOf', trackOf'[s] \in stopped' PROVE FALSE
    <3>1. CASE s = n
      BY <1>1, <1>4, <1>6, <2>2, <2>3, <2>4, <3>1
    <3>2. CASE s # n
      <4>1. s \in DOMAIN trackOf /\ s # gone /\ trackOf'[s] = trackOf[s]
        BY <1>4, <3>2
      <4>2. trackOf[s] \notin stopped
        BY <4>1 DEF MediaIndInv, TracksOnce
      <4>3. trackOf[s] = trackOf[gone] /\ trackOf[s] # NoTrack /\ gone \in DOMAIN trackOf
        BY <1>1, <1>5, <1>8, <2>1, <2>4, <4>1, <4>2
      <4> QED BY <4>1, <4>3 DEF MediaIndInv, TracksOnce
    <3> QED BY <3>1, <3>2
  <2> QED BY <1>1, <2>1, <2>2, <2>3, <2>4
<1>13. TracksOnce'
  <2>1. stopped' \subseteq Old' /\ muted' \subseteq Old'
    BY <1>1, <1>6, <1>12 DEF MediaIndInv, TracksOnce
  <2>2. \A s \in DOMAIN trackOf' : trackOf'[s] \in Old' \cup {NoTrack}
    BY <1>4, <1>6 DEF MediaIndInv, TracksOnce
  <2>3. \A r, s \in DOMAIN trackOf' : trackOf'[r] = trackOf'[s] /\ trackOf'[r] # NoTrack => r = s
    BY <1>4, <1>6 DEF MediaIndInv, TracksOnce
  <2>4. "desktop" \in DOMAIN localStreams' => trackOf'[localStreams'["desktop"]].device = None
    <3>1. CASE type = "desktop"
      BY <1>3, <1>4, <3>1
    <3>2. CASE type # "desktop"
      BY <1>3, <1>4, <1>5, <1>8, <3>2 DEF MediaIndInv, TracksOnce
    <3> QED BY <3>1, <3>2
  <2> QED BY <1>12, <2>1, <2>2, <2>3, <2>4 DEF TracksOnce
<1>14. SendersFit'
  <2>1. SUFFICES ASSUME NEW p \in InPeers, NEW y \in senders'[p]
                 PROVE  /\ y.track \in y.known /\ y.known \subseteq Old' /\ y.stream <= created'
                        /\ \A s \in DOMAIN trackOf' : trackOf'[s] \in y.known => s = y.stream
    BY <1>7 DEF SendersFit
  <2>2. CASE t # NoTrack /\ Fresh(y, t, n)
    <3>1. \A s \in DOMAIN trackOf' : trackOf'[s] = t => s = n
      BY <1>4, <1>13, <2>2 DEF TracksOnce
    <3>2. y.stream <= created'
      BY <1>1, <1>2, <2>2 DEF Fresh
    <3> QED BY <1>6, <2>2, <3>1, <3>2 DEF Fresh
  <2>3. ASSUME NEW x \in senders[p], Kept(x, y, gone) PROVE
           /\ y.track \in y.known /\ y.known \subseteq Old' /\ y.stream <= created'
           /\ \A s \in DOMAIN trackOf' : trackOf'[s] \in y.known => s = y.stream
    <3>1. /\ x.track \in x.known /\ x.known \subseteq Old /\ x.stream <= created
          /\ \A s \in DOMAIN trackOf : trackOf[s] \in x.known => s = x.stream
      BY <1>7 DEF MediaIndInv, SendersFit
    <3>2. x.stream \in Nat
      BY <1>7, PeerFacts, SenderFields, StreamFacts DEF Streams
    <3>3. y.stream <= created'
      BY <1>1, <1>2, <2>3, <3>1, <3>2 DEF Kept
    <3>4. t \notin x.known
      BY <1>6, <3>1
    <3> QED BY <1>4, <1>6, <2>3, <3>1, <3>3, <3>4 DEF Kept
  <2> QED BY <1>7, <2>2, <2>3 DEF Swapped, gone
<1>15. SentTracksAreLive'
  <2>1. SUFFICES ASSUME NEW p \in InPeers, NEW y \in senders'[p], ~y.removed
                 PROVE  y.track \notin stopped'
    BY <1>7 DEF SentTracksAreLive, Sending
  <2>2. CASE Fresh(y, t, n)
    BY <1>6, <1>12, <2>2 DEF Fresh
  <2>3. ASSUME NEW x \in senders[p], Kept(x, y, gone),
               type \in DOMAIN peerStreams /\ y.stream = peerStreams[type]
                 /\ trackOf[peerStreams[type]] \in y.known => y.removed
        PROVE  y.track \notin stopped'
    <3>1. y = x
      BY <2>1, <2>3 DEF Kept
    <3>2. x.track \notin stopped
      BY <1>7, <2>1, <3>1 DEF MediaIndInv, SentTracksAreLive, Sending
    <3>3. ASSUME type \in DOMAIN localStreams, x.track = trackOf[peerStreams[type]] PROVE FALSE
      <4>1. peerStreams[type] \in DOMAIN trackOf /\ type \in DOMAIN peerStreams
        BY <1>8, <3>3
      <4>2. x.track \in x.known /\ x.stream = peerStreams[type]
        BY <1>7, <3>3, <4>1 DEF MediaIndInv, SendersFit
      <4> QED BY <2>1, <2>3, <3>1, <3>3, <4>1, <4>2
    <3> QED BY <1>12, <3>1, <3>2, <3>3
  <2> QED BY <1>7, <2>2, <2>3 DEF Swapped, gone
<1>16. MirrorFitsDevice'
  <2>2. CASE type = "camera"
    <3>1. Track(localStreams["camera"])' \subseteq {t}
      BY <1>3, <1>4, <2>2 DEF Track
    <3>2. mirror' <=> t.device \in Mirrored
      BY <1>1, <2>2
    <3> QED BY <3>1, <3>2 DEF MirrorFitsDevice
  <2>3. CASE type # "camera"
    <3>1. ASSUME "camera" \in DOMAIN localStreams'
          PROVE  /\ "camera" \in DOMAIN localStreams
                 /\ Track(localStreams["camera"])' = Track(localStreams["camera"])
      BY <1>3, <1>4, <1>5, <1>8, <2>3, <3>1 DEF Track
    <3>2. mirror' = mirror
      BY <1>1, <2>3
    <3> QED BY <3>1, <3>2 DEF MediaIndInv, MirrorFitsDevice
  <2> QED BY <2>2, <2>3
<1>17. PeersInStep'
  <2>1. SUFFICES ASSUME ~raced', NEW p \in InPeers
                 PROVE  /\ SendsOnlyLocal(senders[p])'
                        /\ p \in connected => SendsAllLocal(senders[p])'
                        /\ p \notin connected => MayConnect(senders[p])'
    BY <1>7 DEF PeersInStep
  <2>2. /\ SendsOnlyLocal(senders[p])
        /\ p \in connected => SendsAllLocal(senders[p])
        /\ p \notin connected => MayConnect(senders[p])
        /\ p \notin connected => type # "camera" /\ ~desktopFirst'
    BY <1>1, <2>1 DEF MediaIndInv, PeersInStep
  <2>3. /\ \A y \in senders'[p] :
             \/ t # NoTrack /\ Fresh(y, t, n)
             \/ /\ \E x \in senders[p] : Kept(x, y, gone)
                /\ type \in DOMAIN peerStreams /\ y.stream = peerStreams[type]
                     /\ trackOf[peerStreams[type]] \in y.known => y.removed
        /\ \A x \in senders[p] : \E y \in senders'[p] : y.stream = x.stream
        /\ t # NoTrack => \E y \in senders'[p] : y.stream = n
    BY <1>7 DEF Swapped, gone
  <2>4. \A x \in senders[p] : x.stream # n /\ x.track \in x.known
    <3>1. \A x \in senders[p] : x.stream <= created /\ x.stream \in Nat /\ x.track \in x.known
      BY <1>7, PeerFacts, SenderFields, StreamFacts DEF MediaIndInv, SendersFit, Streams
    <3> QED BY <1>2, <3>1
  <2>5. \A u \in DOMAIN localStreams' : u # type =>
          /\ u \in DOMAIN localStreams /\ localStreams'[u] = localStreams[u]
          /\ localStreams[u] # gone /\ localStreams[u] # n
          /\ trackOf'[localStreams[u]] = trackOf[localStreams[u]]
    BY <1>3, <1>4, <1>5, <1>8
  <2>6. SendsOnlyLocal(senders[p])'
    <3>1. SUFFICES ASSUME NEW y \in senders'[p]
                   PROVE  /\ \A u \in DOMAIN localStreams' :
                               y.stream = localStreams'[u] =>
                                 ~y.removed /\ y.track = trackOf'[y.stream]
                          /\ ~y.removed => \E u \in DOMAIN localStreams' : y.stream = localStreams'[u]
      BY DEF SendsOnlyLocal
    <3>2. CASE Fresh(y, t, n)
      BY <1>3, <1>4, <3>2 DEF Fresh
    <3>3. ASSUME NEW x \in senders[p], Kept(x, y, gone),
                 type \in DOMAIN peerStreams /\ y.stream = peerStreams[type]
                   /\ trackOf[peerStreams[type]] \in y.known => y.removed
          PROVE  /\ \A u \in DOMAIN localStreams' :
                      y.stream = localStreams'[u] =>
                        ~y.removed /\ y.track = trackOf'[y.stream]
                 /\ ~y.removed => \E u \in DOMAIN localStreams' : y.stream = localStreams'[u]
      <4>1. ASSUME NEW u \in DOMAIN localStreams', y.stream = localStreams'[u]
            PROVE  ~y.removed /\ y.track = trackOf'[y.stream]
        <5>1. u # type
          BY <1>3, <2>4, <3>3, <4>1 DEF Kept
        <5>2. y = x /\ x.stream = localStreams[u] /\ u \in DOMAIN localStreams
          BY <2>5, <3>3, <4>1, <5>1 DEF Kept
        <5>3. ~x.removed /\ x.track = trackOf[x.stream]
          BY <2>2, <5>2 DEF SendsOnlyLocal
        <5> QED BY <2>5, <4>1, <5>1, <5>2, <5>3
      <4>2. ASSUME ~y.removed PROVE \E u \in DOMAIN localStreams' : y.stream = localStreams'[u]
        <5>1. y = x
          BY <3>3, <4>2 DEF Kept
        <5>2. PICK u \in DOMAIN localStreams : x.stream = localStreams[u] /\ x.track = trackOf[x.stream]
          BY <2>2, <4>2, <5>1 DEF SendsOnlyLocal
        <5>3. u # type
          BY <1>8, <2>4, <3>3, <4>2, <5>1, <5>2
        <5> QED BY <1>3, <5>1, <5>2, <5>3
      <4> QED BY <4>1, <4>2
    <3> QED BY <2>3, <3>2, <3>3
  <2>7. ASSUME p \in connected, NEW u \in DOMAIN localStreams', trackOf'[localStreams'[u]] # NoTrack
        PROVE  \E y \in senders'[p] : y.stream = localStreams'[u]
    <3>1. CASE u = type
      BY <1>3, <1>4, <2>3, <2>7, <3>1
    <3>2. CASE u # type
      <4>1. \E x \in senders[p] : x.stream = localStreams[u]
        BY <2>2, <2>5, <2>7, <3>2 DEF SendsAllLocal
      <4> QED BY <2>3, <2>5, <3>2, <4>1
    <3> QED BY <3>1, <3>2
  <2>8. ASSUME p \notin connected, HasCamera', NEW y \in senders'[p] PROVE y.stream # Camera'
    <3>1. type # "camera" /\ HasCamera /\ Camera' = Camera /\ Camera # n
      BY <2>2, <2>5, <2>8 DEF HasCamera, Camera
    <3> QED BY <2>2, <2>3, <2>8, <3>1 DEF MayConnect, Fresh, Kept
  <2> QED BY <2>2, <2>6, <2>7, <2>8 DEF SendsAllLocal, MayConnect
<1>18. /\ type = "camera" => /\ HasCamera' /\ Track(Camera)' \cap muted' = {}
                             /\ trackOf'[Camera'] = t
       /\ type = "camera" /\ t = NoTrack => Track(Camera)' = {}
       /\ type # "camera" => (HasCamera' <=> HasCamera)
       /\ type # "camera" /\ HasCamera => trackOf'[Camera'] = trackOf[Camera]
  <2>1. CASE type = "camera"
    <3>1. Track(Camera)' \subseteq {t} \ {NoTrack} /\ trackOf'[Camera'] = t
      BY <1>3, <1>4, <2>1 DEF Track, Camera
    <3>2. muted \subseteq Old
      BY DEF MediaIndInv, TracksOnce
    <3> QED BY <1>1, <1>3, <1>6, <2>1, <3>1, <3>2 DEF HasCamera
  <2>2. CASE type # "camera"
    BY <1>3, <1>4, <1>5, <1>8, <2>2 DEF HasCamera, Camera, Track
  <2> QED BY <2>1, <2>2
<1> QED BY <1>1, <1>9, <1>10, <1>11, <1>13, <1>14, <1>15, <1>16, <1>17, <1>18 DEF Tables

\* What giving stream s, with track old so far, the track new does to the
\* senders of a peer.
Renewed(ss, tt, s, old, new) ==
  /\ tt \in SUBSET Senders
  /\ \A y \in tt :
       \/ y \in ss /\ ~(y.stream = s /\ old \in y.known)
       \/ old = NoTrack /\ Fresh(y, new, s)
       \/ \E x \in ss : /\ x.stream = s /\ old \in x.known
                        /\ y.stream = s /\ y.track = new /\ y.known = x.known \cup {new}
                        /\ y.removed = x.removed
  /\ \A x \in ss : \E y \in tt : y.stream = x.stream
  /\ old = NoTrack => \E y \in tt : y.stream = s

LEMMA TrackRenewed ==
  ASSUME NEW ss \in SUBSET Senders, NEW s \in Streams, NEW old, NEW new \in Tracks
  PROVE  Renewed(ss, IF old = NoTrack THEN AddTrack(ss, new, s) ELSE ReplaceTrack(ss, old, new, s),
                 s, old, new)
<1>1. CASE old = NoTrack
  <2>1. /\ AddTrack(ss, new, s) \in SUBSET Senders
        /\ \A y \in AddTrack(ss, new, s) : y \in ss \/ Fresh(y, new, s)
        /\ ss \subseteq AddTrack(ss, new, s)
        /\ \E y \in AddTrack(ss, new, s) : y.stream = s
    BY TrackAdded
  <2>2. \A y \in ss : NoTrack \notin y.known
    BY SenderFields
  <2> QED BY <1>1, <2>1, <2>2 DEF Renewed
<1>2. CASE old # NoTrack
  <2> DEFINE tt == ReplaceTrack(ss, old, new, s)
  <2>1. /\ tt \in SUBSET Senders
        /\ \A y \in tt :
             \/ y \in ss /\ ~(y.stream = s /\ old \in y.known)
             \/ \E x \in ss : /\ x.stream = s /\ old \in x.known
                              /\ y.stream = s /\ y.track = new /\ y.known = x.known \cup {new}
                              /\ y.removed = x.removed
        /\ \A x \in ss : \E y \in tt : y.stream = x.stream
    BY TrackReplaced
  <2> HIDE DEF tt
  <2>2. Renewed(ss, tt, s, old, new)
    BY <1>2, <2>1 DEF Renewed
  <2> QED BY <1>2, <2>2 DEF tt
<1> QED BY <1>1, <1>2

\* replaceTrack throws for a peer without the track only.
LEMMA AllReached ==
  ASSUME NEW old, NEW s, \A p \in InPeers : ~ReplaceTrackThrows(senders[p], old, s),
         peers \in Seq(Peers)
  PROVE  Reached(old, s) = InPeers
<1>1. \A j \in DOMAIN peers : \A k \in 1..j : k \in DOMAIN peers
  OBVIOUS
<1>2. \A j \in DOMAIN peers : \A k \in 1..j : ~ReplaceTrackThrows(senders[peers[k]], old, s)
  BY <1>1 DEF InPeers
<1> QED BY <1>2 DEF Reached, InPeers

\* MEDIA_TRACK keeps the tables: if the loop over the peers is not finished
\* nothing is stopped, and otherwise no peer sends the old track any longer.
LEMMA MediaTrackKeeps ==
  ASSUME MediaIndInv, NEW new \in Tracks, new.id = created + 1, created < MaxTracks,
         MediaTrack(new), UNCHANGED <<listening, peers, connected>>,
         raced => raced', ~raced' => InPeers \subseteq connected
  PROVE  /\ Tables' /\ muted' = muted \ stopped' /\ (HasCamera' <=> HasCamera)
         /\ HasCamera /\ ~raced' => trackOf'[Camera'] = new /\ new \notin muted'
<1> DEFINE s == peerStreams["camera"]
           old == trackOf[s]
           reached == IF old = NoTrack THEN InPeers ELSE Reached(old, s)
           done == reached = InPeers
           n == created + 1
<1>1. /\ created' = n /\ muted' = muted \ stopped' /\ localStreams' = localStreams /\ peerStreams' = peerStreams
      /\ desktopFirst' = desktopFirst
      /\ "camera" \notin DOMAIN peerStreams => UNCHANGED <<trackOf, stopped, senders, mirror>>
      /\ "camera" \in DOMAIN peerStreams =>
           /\ senders' = [p \in Peers |->
                IF p \notin reached THEN senders[p]
                ELSE IF old = NoTrack THEN AddTrack(senders[p], new, s)
                ELSE ReplaceTrack(senders[p], old, new, s)]
           /\ trackOf' = IF done THEN [trackOf EXCEPT ![s] = new] ELSE trackOf
           /\ stopped' = IF done THEN stopped \cup Track(s) ELSE stopped
           /\ mirror' = IF done THEN new.device \in Mirrored ELSE mirror
  BY DEF MediaTrack, SetLocalStreamMirror
<1>2. /\ created \in Nat /\ n \in Nat /\ n \in 0..MaxTracks /\ n > created
      /\ \A i \in 1..created : i \in 1..n /\ i \in Streams
  BY StreamFacts DEF Streams
<1>3. /\ Old \subseteq Old' /\ new \in Old' /\ new \notin Old /\ new # NoTrack
  BY <1>1, <1>2, NoTrackFacts DEF Old
<1>4. /\ \A u \in DOMAIN localStreams : /\ u \in DOMAIN peerStreams /\ localStreams[u] = peerStreams[u]
                                        /\ localStreams[u] \in DOMAIN trackOf
      /\ HasCamera <=> "camera" \in DOMAIN peerStreams
      /\ HasCamera => Camera = s /\ s \in DOMAIN trackOf
  BY StreamFacts DEF MediaIndInv, ReducersAgree, HasCamera, Camera
<1>5. InPeers' = InPeers /\ InPeers \subseteq Peers /\ reached \subseteq InPeers
  <2>1. Reached(old, s) \subseteq InPeers
    BY DEF Reached, InPeers
  <2> QED BY <2>1, PeerFacts DEF InPeers
<1>6. /\ HasCamera' <=> HasCamera
      /\ Camera' = Camera
  BY <1>1 DEF HasCamera, Camera
<1> HIDE DEF n
<1>7. ReducersAgree'
  BY <1>1, <1>6 DEF MediaIndInv, ReducersAgree
<1>8. CASE "camera" \notin DOMAIN peerStreams
  <2>1. UNCHANGED <<trackOf, stopped, senders, mirror>> /\ ~HasCamera
    BY <1>1, <1>4, <1>8
  <2>2. TablesTyped'
    <3>1. IsMap(trackOf', 1..created', Tracks \cup {NoTrack})
      BY <1>1, <1>2, <2>1 DEF MediaIndInv, TypeOK, IsMap
    <3> QED BY <1>1, <1>2, <1>5, <2>1, <3>1 DEF MediaIndInv, TypeOK, TablesTyped
  <2>3. PeersOnce'
    BY <2>1 DEF MediaIndInv, PeersOnce
  <2>4. TracksOnce'
    BY <1>1, <1>3, <2>1 DEF MediaIndInv, TracksOnce
  <2>5. SendersFit'
    <3>1. SUFFICES ASSUME NEW p \in Peers, NEW x \in senders[p]
                   PROVE  /\ x.track \in x.known /\ x.known \subseteq Old' /\ x.stream <= created'
                          /\ \A r \in DOMAIN trackOf' : trackOf'[r] \in x.known => r = x.stream
      BY <2>1 DEF SendersFit
    <3>2. /\ x.track \in x.known /\ x.known \subseteq Old /\ x.stream <= created
          /\ \A r \in DOMAIN trackOf : trackOf[r] \in x.known => r = x.stream
      BY DEF MediaIndInv, SendersFit
    <3>3. x.stream \in Nat
      BY PeerFacts, SenderFields, StreamFacts DEF Streams
    <3>4. x.stream <= created'
      BY <1>1, <1>2, <3>2, <3>3
    <3> QED BY <1>3, <2>1, <3>2, <3>4
  <2>6. SentTracksAreLive' /\ MirrorFitsDevice'
    BY <1>1, <2>1 DEF MediaIndInv, SentTracksAreLive, Sending, MirrorFitsDevice, Track
  <2>7. PeersInStep'
    BY <1>1, <1>5, <1>6, <2>1 DEF MediaIndInv, PeersInStep, SendsOnlyLocal, SendsAllLocal, MayConnect
  <2> QED BY <1>1, <1>6, <1>7, <2>1, <2>2, <2>3, <2>4, <2>5, <2>6, <2>7 DEF Tables
<1>9. CASE "camera" \in DOMAIN peerStreams
  <2>1. /\ HasCamera /\ Camera = s /\ s \in DOMAIN trackOf /\ s \in Streams
        /\ old \in Old \cup {NoTrack} /\ old \notin stopped
    BY <1>2, <1>4, <1>9, StreamFacts DEF MediaIndInv, TracksOnce
  <2>2. /\ DOMAIN trackOf' = DOMAIN trackOf
        /\ \A r \in DOMAIN trackOf : trackOf'[r] = IF r = s /\ done THEN new ELSE trackOf[r]
        /\ trackOf' = [r \in DOMAIN trackOf' |-> trackOf'[r]]
    BY <1>1, <1>9, <2>1 DEF MediaIndInv, TypeOK, IsMap
  <2>3. stopped' = IF done /\ old # NoTrack THEN stopped \cup {old} ELSE stopped
    BY <1>1, <1>9 DEF Track
  <2>4. /\ \A p \in reached : Renewed(senders[p], senders'[p], s, old, new)
        /\ \A p \in Peers \ reached : senders'[p] = senders[p]
        /\ DOMAIN senders' = Peers /\ senders' = [p \in Peers |-> senders'[p]]
    <3>1. \A p \in reached :
            senders'[p] = IF old = NoTrack THEN AddTrack(senders[p], new, s)
                          ELSE ReplaceTrack(senders[p], old, new, s)
      BY <1>1, <1>5, <1>9
    <3>2. \A p \in reached : senders[p] \in SUBSET Senders
      BY <1>5, PeerFacts
    <3>3. \A p \in Peers \ reached : senders'[p] = senders[p]
      BY <1>1, <1>9
    <3> HIDE DEF s, old, reached
    <3>4. \A p \in reached : Renewed(senders[p], senders'[p], s, old, new)
      BY <2>1, <3>1, <3>2, TrackRenewed
    <3> QED BY <1>1, <1>9, <3>3, <3>4
  <2>5. ~raced' => done
    <3>1. SUFFICES ASSUME ~raced', old # NoTrack PROVE Reached(old, s) = InPeers
      OBVIOUS
    <3>2. ASSUME NEW p \in InPeers PROVE ~ReplaceTrackThrows(senders[p], old, s)
      <4>1. SendsOnlyLocal(senders[p]) /\ SendsAllLocal(senders[p])
        BY <3>1 DEF MediaIndInv, PeersInStep
      <4>2. PICK x \in senders[p] : x.stream = s
        BY <2>1, <3>1, <4>1 DEF SendsAllLocal, HasCamera, Camera
      <4>3. x.track = old
        BY <2>1, <4>1, <4>2 DEF SendsOnlyLocal, HasCamera, Camera
      <4>4. x.track \in x.known
        BY <1>5 DEF MediaIndInv, SendersFit
      <4> QED BY <4>2, <4>3, <4>4 DEF ReplaceTrackThrows, SenderOf
    <3>3. peers \in Seq(Peers)
      BY DEF MediaIndInv, TypeOK
    <3> QED BY <3>2, <3>3, AllReached
  <2>6. stopped' \subseteq Old /\ new \notin stopped'
    BY <1>3, <2>1, <2>3 DEF MediaIndInv, TracksOnce
  <2> HIDE DEF s, old, reached, done
  <2>7. TablesTyped'
    <3>1. IsMap(trackOf', 1..created', Tracks \cup {NoTrack})
      <4>1. \A r \in DOMAIN trackOf' : r \in 1..created' /\ trackOf'[r] \in Tracks \cup {NoTrack}
        BY <1>1, <1>2, <2>2, StreamFacts
      <4> QED BY <2>2, <4>1 DEF IsMap
    <3>2. IsMap(localStreams', Types, DOMAIN trackOf') /\ IsMap(peerStreams', Types, DOMAIN trackOf')
      BY <1>1, <2>2 DEF MediaIndInv, TypeOK
    <3>3. mirror' \in BOOLEAN /\ desktopFirst' \in BOOLEAN
      <4>1. mirror \in BOOLEAN /\ (new.device \in Mirrored) \in BOOLEAN /\ desktopFirst \in BOOLEAN
        BY DEF MediaIndInv, TypeOK
      <4> QED BY <1>1, <1>9, <4>1
    <3>4. stopped' \subseteq Tracks /\ muted' \subseteq Tracks
      BY <1>1, <2>6 DEF Old, MediaIndInv, TypeOK
    <3>5. connected' \subseteq InPeers' /\ peers' \in Seq(Peers) /\ listening' \in BOOLEAN
      BY <1>5 DEF MediaIndInv, TypeOK
    <3>6. \A p \in Peers \ InPeers' : senders'[p] = {}
      BY <1>5, <2>4, PeerFacts
    <3> QED BY <1>1, <1>2, <3>1, <3>2, <3>3, <3>4, <3>5, <3>6 DEF TablesTyped
  <2>8. PeersOnce'
    <3>1. \A p \in Peers : senders'[p] \in SUBSET Senders
      BY <2>4, PeerFacts DEF Renewed
    <3>2. senders' \in [Peers -> SUBSET Senders]
      BY <2>4, <3>1
    <3> QED BY <3>2 DEF PeersOnce, MediaIndInv
  <2>9. TracksOnce'
    <3>1. stopped' \subseteq Old' /\ muted' \subseteq Old'
      BY <1>1, <1>3, <2>6 DEF MediaIndInv, TracksOnce
    <3>2. \A r \in DOMAIN trackOf' : trackOf'[r] \in Old' \cup {NoTrack}
      BY <1>3, <2>2 DEF MediaIndInv, TracksOnce
    <3>3. ASSUME NEW r \in DOMAIN trackOf' PROVE trackOf'[r] \notin stopped'
      <4>1. CASE r = s /\ done
        BY <2>2, <2>6, <4>1
      <4>2. CASE r = s /\ ~done
        BY <2>1, <2>2, <2>3, <4>2 DEF old
      <4>3. CASE r # s
        <5>1. trackOf'[r] = trackOf[r] /\ trackOf[r] \notin stopped /\ r \in DOMAIN trackOf
          BY <2>2, <4>3 DEF MediaIndInv, TracksOnce
        <5>2. trackOf[r] = old => old = NoTrack
          BY <2>1, <4>3, <5>1 DEF MediaIndInv, TracksOnce, old
        <5> QED BY <2>3, <5>1, <5>2
      <4> QED BY <4>1, <4>2, <4>3
    <3>4. \A q, r \in DOMAIN trackOf' : trackOf'[q] = trackOf'[r] /\ trackOf'[q] # NoTrack => q = r
      <4>1. \A r \in DOMAIN trackOf : trackOf[r] # new
        BY <1>3 DEF MediaIndInv, TracksOnce
      <4> QED BY <2>2, <4>1 DEF MediaIndInv, TracksOnce
    <3>5. "desktop" \in DOMAIN localStreams' => trackOf'[localStreams'["desktop"]].device = None
      <4>1. "desktop" \in DOMAIN localStreams => localStreams["desktop"] # s /\ localStreams["desktop"] \in DOMAIN trackOf
        BY <1>4, <2>1, StreamFacts DEF HasCamera, Camera
      <4> QED BY <1>1, <2>2, <4>1 DEF MediaIndInv, TracksOnce
    <3> QED BY <3>1, <3>2, <3>3, <3>4, <3>5 DEF TracksOnce
  <2>10. ASSUME NEW p \in Peers, NEW y \in senders'[p]
         PROVE  \/ y \in senders[p] /\ (p \in reached => ~(y.stream = s /\ old \in y.known))
                \/ p \in reached /\ old = NoTrack /\ Fresh(y, new, s)
                \/ /\ p \in reached
                   /\ \E x \in senders[p] :
                        /\ x.stream = s /\ old \in x.known
                        /\ y.stream = s /\ y.track = new /\ y.known = x.known \cup {new}
                        /\ y.removed = x.removed
    BY <2>4, <2>10 DEF Renewed
  <2>11. \A p \in Peers : \A x \in senders[p] :
           /\ x.track \in x.known /\ x.known \subseteq Old /\ x.stream <= created
           /\ \A r \in DOMAIN trackOf : trackOf[r] \in x.known => r = x.stream
           /\ x.stream \in Nat /\ x.stream <= created'
    <3>1. \A p \in Peers : \A x \in senders[p] :
           /\ x.track \in x.known /\ x.known \subseteq Old /\ x.stream <= created
           /\ \A r \in DOMAIN trackOf : trackOf[r] \in x.known => r = x.stream
      BY DEF MediaIndInv, SendersFit
    <3>2. \A p \in Peers : \A x \in senders[p] : x.stream \in Nat
      BY PeerFacts, SenderFields, StreamFacts DEF Streams
    <3>3. \A i \in Nat : i <= created => i <= created'
      BY <1>1, <1>2
    <3> QED BY <3>1, <3>2, <3>3
  <2>12. SendersFit'
    <3>1. SUFFICES ASSUME NEW p \in Peers, NEW y \in senders'[p]
                   PROVE  /\ y.track \in y.known /\ y.known \subseteq Old' /\ y.stream <= created'
                          /\ \A r \in DOMAIN trackOf' : trackOf'[r] \in y.known => r = y.stream
      BY DEF SendersFit
    <3>2. \A r \in DOMAIN trackOf' : trackOf'[r] = new => r = s
      BY <1>3, <2>2 DEF MediaIndInv, TracksOnce
    <3>3. s <= created'
      <4>1. s \in 1..created /\ s \in Nat
        BY <2>1, StreamFacts
      <4> QED BY <1>1, <1>2, <4>1
    <3>4. CASE y \in senders[p]
      <4>1. new \notin y.known
        BY <1>3, <2>11, <3>4
      <4> QED BY <1>3, <2>2, <2>11, <3>4, <4>1
    <3>5. CASE Fresh(y, new, s)
      BY <1>3, <3>2, <3>3, <3>5 DEF Fresh
    <3>6. ASSUME NEW x \in senders[p], x.stream = s, y.stream = s, y.track = new,
                 y.known = x.known \cup {new}
          PROVE  /\ y.track \in y.known /\ y.known \subseteq Old' /\ y.stream <= created'
                 /\ \A r \in DOMAIN trackOf' : trackOf'[r] \in y.known => r = y.stream
      BY <1>3, <2>2, <2>11, <3>2, <3>3, <3>6
    <3> QED BY <2>10, <3>4, <3>5, <3>6
  <2>13. SentTracksAreLive'
    <3>1. SUFFICES ASSUME NEW p \in Peers, NEW y \in senders'[p], ~y.removed
                   PROVE  y.track \notin stopped'
      BY DEF SentTracksAreLive, Sending
    <3>2. CASE y.track = new
      BY <2>6, <3>2
    <3>3. CASE y \in senders[p] /\ (p \in reached => ~(y.stream = s /\ old \in y.known))
      <4>1. y.track \notin stopped
        BY <3>1, <3>3 DEF MediaIndInv, SentTracksAreLive, Sending
      <4>2. y.track = old => y.stream = s /\ old \in y.known
        BY <2>1, <2>11, <3>3 DEF old
      <4>3. p \in InPeers
        BY <3>3, PeerFacts
      <4>4. done => p \in reached
        BY <4>3 DEF done
      <4> QED BY <2>3, <3>3, <4>1, <4>2, <4>4
    <3> QED BY <2>10, <3>2, <3>3 DEF Fresh
  <2>14. MirrorFitsDevice'
    <3>1. localStreams'["camera"] = s
      BY <1>1, <2>1 DEF Camera
    <3>2. CASE done
      <4>1. Track(localStreams["camera"])' \subseteq {new}
        BY <2>1, <2>2, <3>1, <3>2 DEF Track
      <4>2. mirror' <=> new.device \in Mirrored
        BY <1>1, <1>9, <3>2
      <4> QED BY <4>1, <4>2 DEF MirrorFitsDevice
    <3>3. CASE ~done
      <4>1. Track(localStreams["camera"])' = Track(localStreams["camera"])
        BY <1>1, <1>9, <3>3 DEF Track
      <4>2. mirror' = mirror
        BY <1>1, <1>9, <3>3
      <4> QED BY <1>1, <4>1, <4>2 DEF MediaIndInv, MirrorFitsDevice
    <3> QED BY <3>2, <3>3
  <2>15. PeersInStep'
    <3>1. SUFFICES ASSUME ~raced', NEW p \in InPeers
                   PROVE  SendsOnlyLocal(senders[p])' /\ SendsAllLocal(senders[p])'
      BY <1>5 DEF PeersInStep
    <3>2. /\ done /\ p \in reached /\ p \in Peers
          /\ SendsOnlyLocal(senders[p]) /\ SendsAllLocal(senders[p])
      BY <1>5, <2>5, <3>1 DEF MediaIndInv, PeersInStep, done
    <3>3. /\ localStreams' = localStreams /\ "camera" \in DOMAIN localStreams
          /\ localStreams["camera"] = s /\ trackOf'[s] = new
          /\ \A u \in DOMAIN localStreams :
               u # "camera" => /\ localStreams[u] # s
                               /\ trackOf'[localStreams[u]] = trackOf[localStreams[u]]
      <4>1. "camera" \in DOMAIN localStreams /\ localStreams["camera"] = s
        BY <2>1 DEF HasCamera, Camera
      <4> QED BY <1>1, <1>4, <2>1, <2>2, <3>2, <4>1, StreamFacts
    <3>4. ASSUME NEW y \in senders'[p]
          PROVE  /\ \A u \in DOMAIN localStreams :
                      y.stream = localStreams[u] => ~y.removed /\ y.track = trackOf'[y.stream]
                 /\ ~y.removed => \E u \in DOMAIN localStreams : y.stream = localStreams[u]
      <4>1. CASE y \in senders[p] /\ ~(y.stream = s /\ old \in y.known)
        <5>1. y.stream # s
          <6>1. SUFFICES ASSUME y.stream = s PROVE FALSE
            OBVIOUS
          <6>2. y.track = old
            BY <3>2, <3>3, <4>1, <6>1 DEF SendsOnlyLocal, old
          <6> QED BY <2>11, <3>2, <4>1, <6>1, <6>2
        <5> QED BY <3>2, <3>3, <4>1, <5>1 DEF SendsOnlyLocal
      <4>2. CASE Fresh(y, new, s)
        BY <3>3, <4>2 DEF Fresh
      <4>3. ASSUME NEW x \in senders[p], x.stream = s, y.stream = s, y.track = new,
                   y.removed = x.removed
            PROVE  /\ \A u \in DOMAIN localStreams :
                        y.stream = localStreams[u] => ~y.removed /\ y.track = trackOf'[y.stream]
                   /\ ~y.removed => \E u \in DOMAIN localStreams : y.stream = localStreams[u]
        <5>1. ~x.removed
          BY <3>2, <3>3, <4>3 DEF SendsOnlyLocal
        <5> QED BY <3>3, <4>3, <5>1
      <4> QED BY <2>10, <3>2, <3>4, <4>1, <4>2, <4>3
    <3>5. SendsOnlyLocal(senders[p])'
      BY <3>3, <3>4 DEF SendsOnlyLocal
    <3>6. /\ \A x \in senders[p] : \E y \in senders'[p] : y.stream = x.stream
          /\ old = NoTrack => \E y \in senders'[p] : y.stream = s
      BY <2>4, <3>2 DEF Renewed
    <3>7. ASSUME NEW u \in DOMAIN localStreams, trackOf'[localStreams[u]] # NoTrack
          PROVE  \E y \in senders'[p] : y.stream = localStreams[u]
      <4>1. CASE u = "camera" /\ old = NoTrack
        BY <3>3, <3>6, <4>1
      <4>2. CASE u # "camera" \/ old # NoTrack
        <5>1. trackOf[localStreams[u]] # NoTrack
          BY <3>3, <3>7, <4>2 DEF old
        <5> QED BY <3>2, <3>6, <5>1 DEF SendsAllLocal
      <4> QED BY <4>1, <4>2
    <3>8. SendsAllLocal(senders[p])'
      BY <3>3, <3>7 DEF SendsAllLocal
    <3> QED BY <3>5, <3>8
  <2>16. ~raced' => trackOf'[Camera'] = new /\ new \notin muted'
    <3>1. ~raced' => trackOf'[Camera'] = new
      BY <1>6, <2>1, <2>2, <2>5
    <3>2. new \notin muted'
      BY <1>1, <1>3 DEF MediaIndInv, TracksOnce
    <3> QED BY <3>1, <3>2
  <2> QED BY <1>1, <1>6, <1>7, <2>7, <2>8, <2>9, <2>12, <2>13, <2>14, <2>15, <2>16 DEF Tables
<1> QED BY <1>8, <1>9

-----------------------------------------------------------------------------
(* The user *)

\* Steps that leave the tables alone, except that tracks may be muted.
LEMMA TablesUntouched ==
  ASSUME MediaIndInv, muted' \subseteq Old, raced' = raced,
         UNCHANGED <<listening, created, stopped, trackOf, localStreams, desktopFirst, mirror,
                     peerStreams,
                     peers, connected, senders>>
  PROVE  /\ Tables' /\ (HasCamera' <=> HasCamera)
         /\ trackOf'[Camera'] = trackOf[Camera] /\ Track(Camera)' = Track(Camera)
<1>1. InPeers' = InPeers /\ Old' = Old /\ (HasCamera' <=> HasCamera) /\ Camera' = Camera
  BY DEF InPeers, Old, HasCamera, Camera
<1>2. TablesTyped'
  BY <1>1 DEF MediaIndInv, TypeOK, TablesTyped, Old
<1>3. PeersOnce' /\ ReducersAgree'
  BY <1>1 DEF MediaIndInv, PeersOnce, ReducersAgree
<1>4. TracksOnce'
  BY <1>1 DEF MediaIndInv, TracksOnce
<1>5. SendersFit'
  BY <1>1 DEF MediaIndInv, SendersFit
<1>6. SentTracksAreLive' /\ MirrorFitsDevice'
  BY DEF MediaIndInv, SentTracksAreLive, Sending, MirrorFitsDevice, Track
<1>7. PeersInStep'
  BY <1>1 DEF MediaIndInv, PeersInStep, SendsOnlyLocal, SendsAllLocal, MayConnect
<1> QED BY <1>1, <1>2, <1>3, <1>4, <1>5, <1>6, <1>7 DEF Tables, Track

LEMMA MutedIsOld ==
  ASSUME MediaIndInv
  PROVE  muted \subseteq Old /\ (HasCamera => Track(Camera) \subseteq Old)
         /\ (HasCamera <=> listening) /\ (HasCamera <=> "camera" \in DOMAIN peerStreams)
         /\ (HasCamera => peerStreams["camera"] = Camera)
BY StreamFacts DEF MediaIndInv, TracksOnce, ReducersAgree, HasCamera, Camera

LEMMA MenuUntouched ==
  ASSUME MediaIndInv,
         UNCHANGED <<dialState, dials, listening, video, requests, muted, trackOf, localStreams,
                     raced, late, unsure>>
  PROVE  MenuFits' /\ DialFits'
<1>1. (HasCamera' <=> HasCamera) /\ Track(Camera)' = Track(Camera)
  BY DEF HasCamera, Camera, Track
<1>2. (CameraIsOn' <=> CameraIsOn) /\ (Asked' <=> Asked)
  BY DEF CameraIsOn, Asked, Camera, Track
<1> QED BY <1>1, <1>2 DEF MediaIndInv, MenuFits, DialFits, HungUp

LEMMA SetVideoConstraintKeeps ==
  ASSUME MediaIndInv, NEW c \in Choices, SetVideoConstraint(c)
  PROVE  MediaIndInv'
<1>1. /\ HungUp /\ video' = c
      /\ UNCHANGED <<dialState, dials, listening, lastDevice, requests, created, stopped,
                     muted, trackOf, localStreams, desktopFirst, mirror, peerStreams, peers,
                     connected, senders, raced, late, unsure>>
  BY DEF SetVideoConstraint, callVars, trackVars, streamVars, peerVars, history
<1>2. Tables' /\ (HasCamera' <=> HasCamera)
  BY <1>1, MutedIsOld, TablesUntouched
<1>3. ~late => ~listening /\ ~HasCamera
  BY <1>1, MutedIsOld DEF MediaIndInv, DialFits
<1>4. MenuFits' /\ DialFits'
  BY <1>1, <1>2, <1>3 DEF MediaIndInv, DialFits, HungUp, MenuFits
<1> QED BY <1>1, <1>2, <1>4, InvOfTables DEF MediaIndInv, TypeOK

LEMMA AskFacts ==
  ASSUME MediaIndInv, NEW what, NEW choice, [what |-> what, choice |-> choice] \in Requests,
         Ask(what, choice)
  PROVE  /\ IsABag(requests') /\ BagToSet(requests') \subseteq Requests
         /\ BagToSet(requests) \subseteq BagToSet(requests')
         /\ [what |-> what, choice |-> choice] \in BagToSet(requests')
<1>1. IsABag(requests) /\ BagToSet(requests) \subseteq Requests
  BY DEF MediaIndInv, TypeOK
<1>2. requests' = requests (+) SetToBag({[what |-> what, choice |-> choice]})
  BY DEF Ask
<1> DEFINE r == [what |-> what, choice |-> choice]
<1>3. r \in Requests /\ requests' = requests (+) SetToBag({r})
  BY <1>2
<1> HIDE DEF r
<1>4. IsABag(requests (+) SetToBag({r})) /\ BagToSet(requests (+) SetToBag({r})) = BagToSet(requests) \cup {r}
  BY <1>1, RequestAdded
<1>5. /\ IsABag(requests') /\ BagToSet(requests') \subseteq Requests
      /\ BagToSet(requests) \subseteq BagToSet(requests') /\ r \in BagToSet(requests')
  BY <1>1, <1>3, <1>4
<1> QED BY <1>5 DEF r

LEMMA DialFacts ==
  ASSUME MediaIndInv, Dial, late => late'
  PROVE  listening' = TRUE /\ lastDevice' = None /\ DialFits'
<1>1. dials \in 0..MaxDials /\ MaxDials \in Nat
  BY LocalMediaAssumption DEF MediaIndInv, DialFits
<1> QED BY <1>1 DEF Dial, DialFits, HungUp

LEMMA JoinKeeps ==
  ASSUME MediaIndInv, Join
  PROVE  MediaIndInv'
<1>1. /\ HungUp /\ UNCHANGED video
      /\ \/ /\ video # Off /\ Ask("camera", video)
            /\ UNCHANGED <<dialState, dials, listening, lastDevice, created, stopped, muted,
                           trackOf, localStreams, desktopFirst, mirror, peerStreams, peers,
                           connected, senders, raced, late, unsure>>
         \/ /\ video = Off /\ created < MaxTracks /\ MediaStream("camera", NoTrack)
            /\ Dial /\ raced' = (raced \/ Connecting # {})
            /\ UNCHANGED <<requests, peers, connected, late, unsure>>
  BY DEF Join, callVars, trackVars, streamVars, peerVars, history
<1>2. /\ video \in Choices /\ lastDevice \in Devices \cup {None}
      /\ IsABag(requests) /\ BagToSet(requests) \subseteq Requests
      /\ {raced, late, unsure} \subseteq BOOLEAN /\ listening \in BOOLEAN
  BY DEF MediaIndInv, TypeOK
<1>3. CASE video # Off /\ Ask("camera", video)
            /\ UNCHANGED <<dialState, dials, listening, lastDevice, created, stopped, muted,
                           trackOf, localStreams, desktopFirst, mirror, peerStreams, peers,
                           connected, senders, raced, late, unsure>>
  <2>1. [what |-> "camera", choice |-> video] \in Requests
    BY <1>2, <1>3 DEF Requests, Choices
  <2>2. IsABag(requests') /\ BagToSet(requests') \subseteq Requests
    BY <1>3, <2>1, AskFacts
  <2>3. Tables' /\ (HasCamera' <=> HasCamera)
    BY <1>3, MutedIsOld, TablesUntouched
  <2>4. ~late => ~listening
    BY <1>1 DEF MediaIndInv, DialFits
  <2>5. MenuFits' /\ DialFits'
    BY <1>1, <1>3, <2>3, <2>4 DEF MediaIndInv, DialFits, HungUp, MenuFits
  <2> QED BY <1>1, <1>2, <1>3, <2>2, <2>3, <2>5, InvOfTables
<1>4. CASE video = Off /\ created < MaxTracks /\ MediaStream("camera", NoTrack)
            /\ Dial /\ raced' = (raced \/ Connecting # {})
            /\ UNCHANGED <<requests, peers, connected, late, unsure>>
  <2>1. "camera" \in Types /\ "camera" # "desktop" /\ NoTrack \in Tracks \cup {NoTrack}
    BY DEF Types
  <2>2. /\ raced' \in BOOLEAN /\ (raced => raced')
        /\ ~raced' => InPeers \subseteq connected
    BY <1>2, <1>4 DEF Connecting
  <2>3. listening' = TRUE /\ lastDevice' = None /\ DialFits'
    BY <1>4, DialFacts
  <2>4. Tables' /\ HasCamera' /\ Track(Camera)' = {}
    <3>1. listening' = (listening \/ "camera" = "camera")
      BY <2>3
    <3> QED BY <1>4, <2>1, <2>2, <2>3, <3>1, MediaStreamKeeps
  <2>5. MenuFits'
    BY <1>1, <1>4, <2>4 DEF MenuFits
  <2> QED BY <1>1, <1>2, <1>4, <2>2, <2>3, <2>4, <2>5, InvOfTables
<1> QED BY <1>1, <1>3, <1>4

\* An answer to a dial, and its rejection, which is remembered.
LEMMA DialEndsKeeps ==
  ASSUME MediaIndInv, DialResolved \/ DialRejected
  PROVE  MediaIndInv'
<1>1. /\ UNCHANGED <<listening, video, requests, created, stopped, muted, trackOf,
                     localStreams, desktopFirst, mirror, peerStreams, peers, connected,
                     senders, raced, unsure>>
      /\ dials > 0 /\ dials' = dials - 1
      /\ \/ /\ listening /\ dialState' = "in-call" /\ UNCHANGED <<lastDevice, late>>
         \/ /\ dialState' = "hung-up" /\ lastDevice' = None /\ late' = (late \/ listening)
  BY DEF DialResolved, DialRejected, trackVars, streamVars, peerVars, history
<1>2. /\ video \in Choices /\ lastDevice \in Devices \cup {None}
      /\ IsABag(requests) /\ BagToSet(requests) \subseteq Requests
      /\ {raced, late, unsure} \subseteq BOOLEAN
      /\ listening \in BOOLEAN /\ dials \in 0..MaxDials /\ MaxDials \in Nat
  BY LocalMediaAssumption DEF MediaIndInv, TypeOK
<1>3. lastDevice' \in Devices \cup {None} /\ late' \in BOOLEAN /\ (late => late')
  BY <1>1, <1>2
<1>4. dials' \in 0..MaxDials
  BY <1>1, <1>2
<1>5. DialFits'
  BY <1>1, <1>2, <1>4 DEF DialFits, HungUp
<1>6. /\ Tables' /\ (HasCamera' <=> HasCamera)
      /\ trackOf'[Camera'] = trackOf[Camera] /\ Track(Camera)' = Track(Camera)
  BY <1>1, MutedIsOld, TablesUntouched
<1>7. MenuFits'
  BY <1>1, <1>3, <1>6 DEF MediaIndInv, MenuFits, CameraIsOn, Asked
<1> QED BY <1>1, <1>2, <1>3, <1>5, <1>6, <1>7, InvOfTables

\* The device menu: turning the camera off mutes it, and turning it on enables
\* it or asks for another one.
LEMMA HandleDeviceKeeps ==
  ASSUME MediaIndInv, NEW c \in Choices, HandleDevice(c)
  PROVE  MediaIndInv'
<1>1. /\ InCall /\ video' = c
      /\ lastDevice' = IF c = Off /\ video # Off THEN video ELSE lastDevice
      /\ unsure' \in {unsure, unsure \/ trackOf[peerStreams["camera"]].device # c}
      /\ \/ /\ c # Off /\ EnableTrack /\ UNCHANGED requests
            /\ ~unsure' => trackOf[peerStreams["camera"]].device = c
         \/ c = Off /\ MuteTrack /\ UNCHANGED requests
         \/ c # Off /\ Ask("track", c) /\ UNCHANGED muted
      /\ UNCHANGED <<dialState, dials, listening, created, stopped, trackOf, localStreams,
                     desktopFirst, mirror, peerStreams, peers, connected, senders, raced,
                     late>>
  BY DEF HandleDevice, GetMediaTrack, callVars, streamVars, peerVars, history
<1>2. /\ video \in Choices /\ lastDevice \in Devices \cup {None}
      /\ IsABag(requests) /\ BagToSet(requests) \subseteq Requests
      /\ {raced, late, unsure} \subseteq BOOLEAN
  BY DEF MediaIndInv, TypeOK
<1>3. lastDevice' \in Devices \cup {None}
  BY <1>1, <1>2 DEF Choices
<1>4. /\ HasCamera /\ "camera" \in DOMAIN peerStreams /\ peerStreams["camera"] = Camera
      /\ muted \subseteq Old /\ Track(Camera) \subseteq Old /\ listening
  BY <1>1, MutedIsOld DEF MediaIndInv, DialFits, HungUp, InCall
<1> {raced, late, unsure}' \subseteq BOOLEAN
  BY <1>1, <1>2
<1> DialFits'
  BY <1>1 DEF MediaIndInv, DialFits, HungUp
<1>5. CASE c # Off /\ EnableTrack /\ UNCHANGED requests
           /\ (~unsure' => trackOf[peerStreams["camera"]].device = c)
  <2>1. muted' = muted \ Track(Camera)
    BY <1>4, <1>5 DEF EnableTrack
  <2>2. muted' \subseteq Old
    BY <1>4, <2>1
  <2>3. /\ Tables' /\ Track(Camera)' = Track(Camera)
        /\ trackOf'[Camera'] = trackOf[Camera]
    BY <1>1, <2>2, TablesUntouched
  <2>4. ~unsure' => CameraIsOn'
    BY <1>1, <1>4, <1>5, <2>1, <2>3 DEF CameraIsOn
  <2>5. MenuFits'
    BY <1>1, <1>5, <2>4 DEF MenuFits
  <2> QED BY <1>1, <1>2, <1>3, <1>5, <2>3, <2>5, InvOfTables
<1>6. CASE c = Off /\ MuteTrack /\ UNCHANGED requests
  <2>1. muted' = muted \cup Track(Camera)
    BY <1>4, <1>6 DEF MuteTrack
  <2>2. muted' \subseteq Old
    BY <1>4, <2>1
  <2>3. Tables' /\ Track(Camera)' = Track(Camera)
    BY <1>1, <2>2, TablesUntouched
  <2>4. MenuFits'
    BY <1>1, <1>6, <2>1, <2>3 DEF MenuFits
  <2> QED BY <1>1, <1>2, <1>3, <1>6, <2>3, <2>4, InvOfTables
<1>7. CASE c # Off /\ Ask("track", c) /\ UNCHANGED muted
  <2>1. [what |-> "track", choice |-> c] \in Requests
    BY <1>7 DEF Requests, Choices
  <2>2. /\ IsABag(requests') /\ BagToSet(requests') \subseteq Requests
        /\ [what |-> "track", choice |-> c] \in BagToSet(requests')
    BY <1>7, <2>1, AskFacts
  <2>3. Tables'
    BY <1>1, <1>4, <1>7, TablesUntouched
  <2>4. MenuFits'
    <3> DEFINE r == [what |-> "track", choice |-> c]
    <3>1. r.what = "track" /\ r.choice = c
      OBVIOUS
    <3> HIDE DEF r
    <3>2. Asked'
      BY <1>1, <2>2, <3>1 DEF Asked, r
    <3> QED BY <1>1, <1>7, <3>2 DEF MenuFits
  <2> QED BY <1>1, <1>2, <1>3, <2>2, <2>3, <2>4, InvOfTables
<1> QED BY <1>1, <1>5, <1>6, <1>7

LEMMA HangUpKeeps ==
  ASSUME MediaIndInv, HangUp
  PROVE  MediaIndInv'
<1>1. /\ dialState' = "hung-up" /\ listening' = FALSE
      /\ localStreams' = EmptyMap /\ peerStreams' = EmptyMap
      /\ desktopFirst' = FALSE /\ mirror' = FALSE
      /\ peers' = <<>> /\ connected' = {} /\ senders' = [p \in Peers |-> {}]
      /\ created' = 0 /\ trackOf' = EmptyMap /\ stopped' = {} /\ muted' = {}
      /\ lastDevice' = None
      /\ raced' = FALSE /\ late' = FALSE /\ unsure' = FALSE
      /\ UNCHANGED <<dials, video, requests>>
  BY DEF HangUp
<1>2. DOMAIN localStreams' = {} /\ DOMAIN peerStreams' = {} /\ DOMAIN trackOf' = {} /\ InPeers' = {}
  BY <1>1 DEF EmptyMap, InPeers
<1>3. TablesTyped'
  <2>1. IsMap(trackOf', 1..created', Tracks \cup {NoTrack})
    BY <1>1 DEF EmptyMap, IsMap
  <2>2. IsMap(localStreams', Types, DOMAIN trackOf') /\ IsMap(peerStreams', Types, DOMAIN trackOf')
    BY <1>1 DEF EmptyMap, IsMap
  <2>3. peers' \in Seq(Peers) /\ connected' \subseteq InPeers'
    BY <1>1
  <2>4. \A p \in Peers : senders'[p] = {}
    BY <1>1
  <2>5. created' \in 0..MaxTracks
    BY <1>1, LocalMediaAssumption
  <2> QED BY <1>1, <2>1, <2>2, <2>3, <2>4, <2>5 DEF TablesTyped
<1>4. PeersOnce' /\ SendersFit' /\ SentTracksAreLive'
  <2>1. senders' \in [Peers -> SUBSET Senders] /\ \A p \in Peers : senders'[p] = {}
    BY <1>1
  <2>2. DOMAIN peers' = {}
    BY <1>1
  <2> QED BY <1>1, <2>1, <2>2 DEF PeersOnce, SendersFit, SentTracksAreLive, Sending
<1>5. ReducersAgree' /\ TracksOnce' /\ MirrorFitsDevice' /\ PeersInStep' /\ MenuFits'
  BY <1>1, <1>2 DEF ReducersAgree, HasCamera, TracksOnce, MirrorFitsDevice, PeersInStep, MenuFits
<1>6. Tables' /\ DialFits'
  BY <1>1, <1>3, <1>4, <1>5 DEF Tables, MediaIndInv, DialFits, HungUp
<1>7. /\ video' \in Choices /\ lastDevice' \in Devices \cup {None}
      /\ IsABag(requests') /\ BagToSet(requests') \subseteq Requests
      /\ {raced, late, unsure}' \subseteq BOOLEAN
  BY <1>1 DEF MediaIndInv, TypeOK
<1> QED BY <1>5, <1>6, <1>7, InvOfTables

\* Sharing the screen, and no longer sharing it: every peer stops sending it.
LEMMA ToggleShareDesktopKeeps ==
  ASSUME MediaIndInv, ToggleShareDesktop
  PROVE  MediaIndInv'
<1> DEFINE s == localStreams["desktop"]
<1>1. /\ UNCHANGED <<dialState, dials, listening, video, lastDevice, created, stopped, muted,
                     trackOf, mirror,
                     peerStreams, peers, connected, raced, late, unsure>>
      /\ \/ Ask("desktop", None) /\ UNCHANGED <<localStreams, desktopFirst, senders>>
         \/ /\ "desktop" \in DOMAIN localStreams
            /\ senders' = [p \in Peers |-> IF p \in InPeers THEN RemovedFromPeers(senders[p], s)
                                           ELSE senders[p]]
            /\ localStreams' = Delete(localStreams, "desktop") /\ desktopFirst' = FALSE
            /\ UNCHANGED requests
  BY DEF ToggleShareDesktop, callVars, trackVars, history
<1>2. /\ video \in Choices /\ lastDevice \in Devices \cup {None}
      /\ IsABag(requests) /\ BagToSet(requests) \subseteq Requests
      /\ {raced, late, unsure} \subseteq BOOLEAN
  BY DEF MediaIndInv, TypeOK
<1> DialFits'
  BY <1>1 DEF MediaIndInv, DialFits, HungUp
<1>3. CASE Ask("desktop", None) /\ UNCHANGED <<localStreams, desktopFirst, senders>>
  <2>1. [what |-> "desktop", choice |-> None] \in Requests
    BY DEF Requests
  <2>2. /\ IsABag(requests') /\ BagToSet(requests') \subseteq Requests
        /\ BagToSet(requests) \subseteq BagToSet(requests')
    BY <1>3, <2>1, AskFacts
  <2>3. /\ Tables' /\ (HasCamera' <=> HasCamera)
        /\ trackOf'[Camera'] = trackOf[Camera] /\ Track(Camera)' = Track(Camera)
    BY <1>1, <1>3, MutedIsOld, TablesUntouched
  <2>4. MenuFits'
    BY <1>1, <2>2, <2>3 DEF MediaIndInv, MenuFits, CameraIsOn, Asked
  <2> QED BY <1>1, <1>2, <2>2, <2>3, <2>4, InvOfTables
<1>4. CASE /\ "desktop" \in DOMAIN localStreams
           /\ senders' = [p \in Peers |-> IF p \in InPeers THEN RemovedFromPeers(senders[p], s)
                                          ELSE senders[p]]
           /\ localStreams' = Delete(localStreams, "desktop") /\ desktopFirst' = FALSE
           /\ UNCHANGED requests
  <2>1. /\ s \in DOMAIN trackOf /\ s \in Streams /\ "desktop" \in DOMAIN peerStreams
        /\ peerStreams["desktop"] = s /\ Get(peerStreams, "desktop", 0) = s
    <3>1. s \in DOMAIN trackOf /\ "desktop" \in DOMAIN peerStreams /\ peerStreams["desktop"] = s
      BY <1>4, StreamFacts DEF MediaIndInv, ReducersAgree
    <3>2. s \in Streams
      BY <3>1, StreamFacts, LocalMediaAssumption DEF MediaIndInv, TypeOK, Streams
    <3> QED BY <3>1, <3>2 DEF Get
  <2>2. /\ DOMAIN localStreams' = DOMAIN localStreams \ {"desktop"}
        /\ \A u \in DOMAIN localStreams' : localStreams'[u] = localStreams[u] /\ localStreams[u] # s
        /\ localStreams' = [u \in DOMAIN localStreams' |-> localStreams'[u]]
    BY <1>4, StreamFacts DEF Delete
  <2>3. /\ InPeers' = InPeers /\ InPeers \subseteq Peers /\ Old' = Old
        /\ HasCamera' <=> HasCamera
        /\ HasCamera => Camera' = Camera
    BY <1>1, <2>2, PeerFacts DEF InPeers, HasCamera, Camera, Old
  <2>4. /\ \A p \in InPeers : Swapped(senders[p], senders'[p], "desktop", s, NoTrack)
        /\ \A p \in Peers \ InPeers : senders'[p] = {}
    <3>1. \A p \in InPeers : senders'[p] = SwapStream(senders[p], "desktop", s, NoTrack)
      BY <1>4, <2>1, <2>3 DEF SwapStream
    <3>2. \A p \in InPeers : Swapped(senders[p], SwapStream(senders[p], "desktop", s, NoTrack),
                                     "desktop", s, NoTrack)
      BY <2>1, <2>3, PeerFacts, StreamSwapped
    <3> QED BY <1>4, <3>1, <3>2, PeerFacts
  <2> HIDE DEF s
  <2>5. ASSUME NEW p \in InPeers, NEW y \in senders'[p]
        PROVE  \E x \in senders[p] : Kept(x, y, s) /\ (y.stream = s /\ trackOf[s] \in y.known => y.removed)
    BY <2>1, <2>4, <2>5 DEF Swapped
  <2>6. TablesTyped'
    <3>1. IsMap(localStreams', Types, DOMAIN trackOf')
      BY <1>1, <2>2, StreamFacts DEF IsMap
    <3> QED BY <1>1, <1>4, <2>3, <2>4, <3>1 DEF MediaIndInv, TypeOK, TablesTyped
  <2>7. PeersOnce'
    <3>1. \A p \in Peers : senders'[p] \in SUBSET Senders
      BY <2>3, <2>4 DEF Swapped
    <3>2. senders' \in [Peers -> SUBSET Senders]
      BY <1>4, <3>1
    <3> QED BY <1>1, <3>2 DEF PeersOnce, MediaIndInv
  <2>8. ReducersAgree'
    BY <1>1, <1>4, <2>2, <2>3 DEF MediaIndInv, ReducersAgree, HasCamera
  <2>9. TracksOnce'
    BY <1>1, <2>2, <2>3 DEF MediaIndInv, TracksOnce
  <2>10. SendersFit' /\ SentTracksAreLive'
    <3>1. ASSUME NEW p \in InPeers, NEW y \in senders'[p]
          PROVE  /\ y.track \in y.known /\ y.known \subseteq Old /\ y.stream <= created
                 /\ \A r \in DOMAIN trackOf : trackOf[r] \in y.known => r = y.stream
                 /\ ~y.removed => y.track \notin stopped
      <4>1. PICK x \in senders[p] : Kept(x, y, s)
        BY <2>5, <3>1
      <4>2. /\ x.track \in x.known /\ x.known \subseteq Old /\ x.stream <= created
            /\ \A r \in DOMAIN trackOf : trackOf[r] \in x.known => r = x.stream
            /\ ~x.removed => x.track \notin stopped
        BY <2>3 DEF MediaIndInv, SendersFit, SentTracksAreLive, Sending
      <4> QED BY <4>1, <4>2 DEF Kept
    <3> QED BY <1>1, <2>3, <2>4, <3>1 DEF SendersFit, SentTracksAreLive, Sending
  <2>11. MirrorFitsDevice'
    BY <1>1, <2>2 DEF MediaIndInv, MirrorFitsDevice, Track
  <2>12. PeersInStep'
    <3>1. SUFFICES ASSUME ~raced, NEW p \in InPeers
                   PROVE  /\ SendsOnlyLocal(senders[p])'
                          /\ p \in connected => SendsAllLocal(senders[p])'
                          /\ p \notin connected => MayConnect(senders[p])'
      BY <1>1, <2>3 DEF PeersInStep
    <3>2. /\ SendsOnlyLocal(senders[p])
          /\ p \in connected => SendsAllLocal(senders[p])
          /\ p \notin connected => MayConnect(senders[p])
      BY <3>1 DEF MediaIndInv, PeersInStep
    <3>3. ASSUME NEW y \in senders'[p]
          PROVE  /\ \A u \in DOMAIN localStreams' :
                      y.stream = localStreams'[u] => ~y.removed /\ y.track = trackOf'[y.stream]
                 /\ ~y.removed => \E u \in DOMAIN localStreams' : y.stream = localStreams'[u]
      <4>1. PICK x \in senders[p] : Kept(x, y, s) /\ (y.stream = s /\ trackOf[s] \in y.known => y.removed)
        BY <2>5, <3>3
      <4>2. x.track \in x.known
        BY <2>3 DEF MediaIndInv, SendersFit
      <4>3. ASSUME NEW u \in DOMAIN localStreams', y.stream = localStreams'[u]
            PROVE  ~y.removed /\ y.track = trackOf'[y.stream]
        <5>1. y = x /\ x.stream = localStreams[u] /\ u \in DOMAIN localStreams
          BY <2>2, <4>1, <4>3 DEF Kept
        <5> QED BY <1>1, <3>2, <5>1 DEF SendsOnlyLocal
      <4>4. ASSUME ~y.removed PROVE \E u \in DOMAIN localStreams' : y.stream = localStreams'[u]
        <5>1. y = x
          BY <4>1, <4>4 DEF Kept
        <5>2. PICK u \in DOMAIN localStreams : x.stream = localStreams[u] /\ x.track = trackOf[x.stream]
          BY <3>2, <4>4, <5>1 DEF SendsOnlyLocal
        <5>3. u # "desktop"
          BY <4>1, <4>2, <4>4, <5>1, <5>2 DEF s
        <5> QED BY <2>2, <5>1, <5>2, <5>3
      <4> QED BY <4>3, <4>4
    <3>4. SendsOnlyLocal(senders[p])'
      BY <3>3 DEF SendsOnlyLocal
    <3>5. ASSUME p \in connected PROVE SendsAllLocal(senders[p])'
      <4>1. \A x \in senders[p] : \E y \in senders'[p] : y.stream = x.stream
        BY <2>4 DEF Swapped
      <4> QED BY <1>1, <2>2, <3>2, <3>5, <4>1 DEF SendsAllLocal
    <3>6. ASSUME p \notin connected PROVE MayConnect(senders[p])'
      <4>1. \A y \in senders'[p] : \E x \in senders[p] : y.stream = x.stream
        BY <2>5 DEF Kept
      <4> QED BY <1>4, <2>3, <3>2, <3>6, <4>1 DEF MayConnect
    <3> QED BY <3>4, <3>5, <3>6
  <2>13. MenuFits'
    <3>1. HasCamera => Track(Camera)' = Track(Camera) /\ trackOf'[Camera'] = trackOf[Camera]
      BY <1>1, <2>3 DEF Track
    <3> QED BY <1>1, <1>4, <2>3, <3>1, MutedIsOld DEF MediaIndInv, MenuFits, CameraIsOn, Asked
  <2>14. Tables'
    BY <2>6, <2>7, <2>8, <2>9, <2>10, <2>11, <2>12 DEF Tables
  <2> QED BY <1>1, <1>2, <1>4, <2>13, <2>14, InvOfTables
<1> QED BY <1>1, <1>3, <1>4

-----------------------------------------------------------------------------
(* The browser *)

\* An answer that is late or comes while a peer is connecting is remembered.
LEMMA ResolveKeeps ==
  ASSUME MediaIndInv, NEW r \in BagToSet(requests), Resolve(r)
  PROVE  MediaIndInv'
<1>1. /\ created < MaxTracks /\ requests' = requests (-) SetToBag({r})
      /\ raced' = (raced \/ (Connecting # {} /\ (r.what # "desktop" \/ desktopFirst)))
      /\ late' = (late \/ (listening' /\ r.choice \notin {video, None}))
      /\ UNCHANGED <<video, peers, connected, unsure>>
      /\ \/ /\ r.what = "track" /\ MediaTrack(NewTrack(r.choice))
            /\ UNCHANGED <<dialState, dials, listening, lastDevice>>
         \/ r.what = "camera" /\ MediaStream("camera", NewTrack(r.choice)) /\ Dial
         \/ /\ r.what = "desktop" /\ MediaStream("desktop", NewTrack(None))
            /\ UNCHANGED <<dialState, dials, listening, lastDevice>>
  BY DEF Resolve, callVars
<1>2. /\ video \in Choices /\ lastDevice \in Devices \cup {None}
      /\ IsABag(requests) /\ BagToSet(requests) \subseteq Requests
      /\ {raced, late, unsure} \subseteq BOOLEAN
      /\ listening \in BOOLEAN
  BY DEF MediaIndInv, TypeOK
<1>3. /\ IsABag(requests') /\ BagToSet(requests') \subseteq Requests
      /\ BagToSet(requests) \ {r} \subseteq BagToSet(requests')
  BY <1>1, <1>2, RequestRemoved
<1>4. /\ {raced, late, unsure}' \subseteq BOOLEAN /\ (raced => raced') /\ (late => late')
      /\ (r.what # "desktop" \/ desktopFirst) /\ ~raced' => InPeers \subseteq connected
  BY <1>1, <1>2 DEF Connecting
<1>5. r \in Requests
  BY <1>2
<1>6. /\ r.what \in {"camera", "track"} => r.choice \in Devices
      /\ r.what = "desktop" => r.choice = None
  BY <1>5 DEF Requests
<1>7. \A d \in Devices \cup {None} : /\ NewTrack(d) \in Tracks /\ NewTrack(d).id = created + 1
                                     /\ NewTrack(d).device = d /\ NewTrack(d) # NoTrack
  <2>1. created + 1 \in 1..MaxTracks
    BY <1>1, StreamFacts
  <2>2. \A d \in Devices \cup {None} : /\ NewTrack(d) \in Tracks /\ NewTrack(d).id = created + 1
                                       /\ NewTrack(d).device = d
    BY <2>1 DEF NewTrack, Tracks
  <2> QED BY <2>2, NoTrackFacts
<1>8. r.what \in {"camera", "track"} /\ listening' /\ ~late' => r.choice = video /\ video # Off
  BY <1>1, <1>6, LocalMediaAssumption
<1>9. DialFits' /\ lastDevice' \in Devices \cup {None}
  <2>1. CASE Dial
    BY <1>4, <2>1, DialFacts
  <2>2. CASE UNCHANGED <<dialState, dials, listening, lastDevice>>
    BY <1>2, <1>4, <2>2 DEF MediaIndInv, DialFits, HungUp
  <2> QED BY <1>1, <2>1, <2>2
<1> SUFFICES Tables' /\ MenuFits'
  BY <1>1, <1>2, <1>3, <1>4, <1>9, InvOfTables
<1>10. CASE r.what = "track" /\ MediaTrack(NewTrack(r.choice)) /\ UNCHANGED listening
  <2> DEFINE new == NewTrack(r.choice)
  <2>1. new \in Tracks /\ new.id = created + 1 /\ new.device = r.choice /\ new # NoTrack
    BY <1>6, <1>7, <1>10
  <2> HIDE DEF new
  <2>2. /\ Tables' /\ muted' = muted \ stopped' /\ (HasCamera' <=> HasCamera)
        /\ HasCamera /\ ~raced' => trackOf'[Camera'] = new /\ new \notin muted'
    <3>1. /\ MediaTrack(new) /\ UNCHANGED <<listening, peers, connected>>
          /\ raced => raced'
          /\ ~raced' => InPeers \subseteq connected
      BY <1>1, <1>4, <1>10 DEF new
    <3> QED BY <1>1, <2>1, <3>1, MediaTrackKeeps
  <2>3. listening' /\ ~raced' /\ ~late' => CameraIsOn'
    BY <1>1, <1>8, <1>10, <2>1, <2>2, MutedIsOld DEF CameraIsOn, Track
  <2>4. MenuFits'
    BY <1>1, <1>8, <1>10, <2>2, <2>3, MutedIsOld DEF MenuFits
  <2> QED BY <2>2, <2>4
<1>11. CASE r.what = "camera" /\ MediaStream("camera", NewTrack(r.choice)) /\ Dial
  <2> DEFINE new == NewTrack(r.choice)
  <2>1. new \in Tracks /\ new.id = created + 1 /\ new.device = r.choice /\ new # NoTrack
    BY <1>6, <1>7, <1>11
  <2> HIDE DEF new
  <2>2. listening' = TRUE
    BY <1>4, <1>11, DialFacts
  <2>3. Tables' /\ HasCamera' /\ Track(Camera)' \cap muted' = {} /\ trackOf'[Camera'] = new
    <3>1. /\ MediaStream("camera", new) /\ UNCHANGED <<peers, connected>>
          /\ listening' = (listening \/ "camera" = "camera")
          /\ raced => raced'
          /\ ("camera" = "camera" \/ desktopFirst) /\ ~raced' => InPeers \subseteq connected
          /\ "camera" \in Types /\ "camera" # "desktop"
      BY <1>1, <1>4, <1>11, <2>2 DEF new, Types
    <3> QED BY <1>1, <1>11, <2>1, <2>2, <3>1, MediaStreamKeeps
  <2>4. ~late' => CameraIsOn' /\ video' # Off
    BY <1>1, <1>8, <1>11, <2>1, <2>2, <2>3 DEF CameraIsOn
  <2>5. MenuFits'
    BY <2>4 DEF MenuFits
  <2> QED BY <2>3, <2>5
<1>12. CASE r.what = "desktop" /\ MediaStream("desktop", NewTrack(None)) /\ UNCHANGED listening
  <2> DEFINE new == NewTrack(None)
  <2>1. new \in Tracks /\ new.id = created + 1 /\ new.device = None
    BY <1>7
  <2> HIDE DEF new
  <2>2. /\ Tables' /\ muted' = muted \ stopped' /\ (HasCamera' <=> HasCamera)
        /\ HasCamera => trackOf'[Camera'] = trackOf[Camera]
    <3>1. /\ MediaStream("desktop", new) /\ UNCHANGED <<peers, connected>>
          /\ listening' = (listening \/ "desktop" = "camera")
          /\ listening' \/ peers = <<>>
          /\ raced => raced'
          /\ ("desktop" = "camera" \/ desktopFirst) /\ ~raced' => InPeers \subseteq connected
          /\ "desktop" \in Types /\ "camera" # "desktop"
      BY <1>1, <1>2, <1>4, <1>12 DEF new, Types, MediaIndInv, PeersOnce
    <3> QED BY <1>1, <2>1, <3>1, MediaStreamKeeps
  <2>3. HasCamera => Track(Camera)' = Track(Camera) /\ Track(Camera)' \cap stopped' = {}
    <3>1. HasCamera => Camera' \in DOMAIN trackOf'
      BY <2>2 DEF Tables, TablesTyped, IsMap, Camera, HasCamera
    <3>2. HasCamera => trackOf'[Camera'] \notin stopped'
      BY <2>2, <3>1 DEF Tables, TracksOnce
    <3> QED BY <2>2, <3>2 DEF Track
  <2>4. late' = late
    BY <1>1, <1>2, <1>6, <1>12
  <2>5. Asked => Asked'
    BY <1>1, <1>3, <1>12 DEF Asked
  <2>6. MenuFits'
    BY <1>1, <1>4, <1>12, <2>2, <2>3, <2>4, <2>5, MutedIsOld DEF MediaIndInv, MenuFits, CameraIsOn
  <2> QED BY <2>2, <2>6
<1> QED BY <1>1, <1>10, <1>11, <1>12

LEMMA RejectKeeps ==
  ASSUME MediaIndInv, NEW r \in BagToSet(requests), Reject(r)
  PROVE  MediaIndInv'
<1>1. /\ requests' = requests (-) SetToBag({r})
      /\ unsure' = (unsure \/ (listening /\ r.what = "track"))
      /\ UNCHANGED <<dialState, dials, listening, video, lastDevice, created, stopped, muted,
                     trackOf, localStreams, desktopFirst, mirror, peerStreams, peers,
                     connected, senders, raced, late>>
  BY DEF Reject, callVars, trackVars, streamVars, peerVars
<1>2. /\ IsABag(requests') /\ BagToSet(requests') \subseteq Requests
      /\ BagToSet(requests) \ {r} \subseteq BagToSet(requests')
  BY <1>1, RequestRemoved DEF MediaIndInv, TypeOK
<1>3. /\ Tables' /\ (HasCamera' <=> HasCamera)
      /\ trackOf'[Camera'] = trackOf[Camera] /\ Track(Camera)' = Track(Camera)
  BY <1>1, MutedIsOld, TablesUntouched
<1>4. r.what # "track" /\ Asked => Asked'
  BY <1>1, <1>2 DEF Asked
<1>5. MenuFits' /\ DialFits'
  BY <1>1, <1>3, <1>4 DEF MediaIndInv, DialFits, HungUp, MenuFits, CameraIsOn
<1>6. /\ video' \in Choices /\ lastDevice' \in Devices \cup {None}
      /\ {raced, late, unsure}' \subseteq BOOLEAN
  BY <1>1 DEF MediaIndInv, TypeOK
<1> QED BY <1>2, <1>3, <1>5, <1>6, InvOfTables

LEMMA CreatePeerKeeps ==
  ASSUME MediaIndInv, NEW p \in Peers, CreatePeer(p)
  PROVE  MediaIndInv'
<1>1. /\ listening /\ p \notin InPeers /\ peers' = Append(peers, p)
      /\ UNCHANGED <<dialState, dials, listening, video, lastDevice, requests, created,
                     stopped, muted, trackOf,
                     localStreams, desktopFirst, mirror, peerStreams, connected, senders, raced, late, unsure>>
  BY DEF CreatePeer, callVars, trackVars, streamVars, history
<1>2. peers \in Seq(Peers) /\ senders[p] = {} /\ p \notin connected
  BY <1>1, PeerFacts DEF MediaIndInv, TypeOK
<1>3. /\ Len(peers) \in Nat /\ DOMAIN peers = 1..Len(peers)
      /\ peers' \in Seq(Peers) /\ DOMAIN peers' = 1..(Len(peers) + 1)
      /\ peers'[Len(peers) + 1] = p /\ \A i \in DOMAIN peers : peers'[i] = peers[i]
  BY <1>1, <1>2
<1>4. \A i \in DOMAIN peers' : i \in DOMAIN peers \/ i = Len(peers) + 1
  BY <1>3
<1>5. InPeers' = InPeers \cup {p}
  BY <1>3, <1>4 DEF InPeers
<1>6. \A i, j \in DOMAIN peers' : peers'[i] = peers'[j] => i = j
  <2>1. \A i \in DOMAIN peers : peers[i] # p
    BY <1>1 DEF InPeers
  <2> QED BY <1>3, <1>4, <2>1 DEF MediaIndInv, PeersOnce
<1>7. TablesTyped'
  BY <1>1, <1>3, <1>5 DEF MediaIndInv, TypeOK, TablesTyped
<1>8. PeersOnce'
  BY <1>1, <1>6 DEF MediaIndInv, PeersOnce
<1>9. /\ ReducersAgree' /\ SendersFit' /\ TracksOnce'
  BY <1>1 DEF MediaIndInv, ReducersAgree, HasCamera, SendersFit, TracksOnce, Old
<1>10. SentTracksAreLive' /\ MirrorFitsDevice'
  BY <1>1 DEF MediaIndInv, SentTracksAreLive, Sending, MirrorFitsDevice, Track
<1>11. PeersInStep'
  <2>1. SendsOnlyLocal(senders[p])' /\ MayConnect(senders[p])'
    BY <1>1, <1>2 DEF SendsOnlyLocal, MayConnect
  <2>2. ASSUME NEW q
        PROVE  /\ SendsOnlyLocal(senders[q])' <=> SendsOnlyLocal(senders[q])
               /\ SendsAllLocal(senders[q])' <=> SendsAllLocal(senders[q])
               /\ MayConnect(senders[q])' <=> MayConnect(senders[q])
    BY <1>1 DEF SendsOnlyLocal, SendsAllLocal, MayConnect, HasCamera, Camera
  <2> QED BY <1>1, <1>2, <1>5, <2>1, <2>2 DEF MediaIndInv, PeersInStep
<1>12. MenuFits' /\ DialFits'
  BY <1>1, MenuUntouched
<1>13. Tables'
  BY <1>7, <1>8, <1>9, <1>10, <1>11 DEF Tables
<1> QED BY <1>1, <1>12, <1>13, InvOfTables DEF MediaIndInv, TypeOK

\* handleConnect adds the local streams that the peer does not yet have.
LEMMA HandleConnectKeeps ==
  ASSUME MediaIndInv, NEW p \in Peers, HandleConnect(p)
  PROVE  MediaIndInv'
<1> DEFINE ss == senders[p]
           Throws(type) ==
             \E t \in Track(localStreams[type]) : AddTrackThrows(ss, t, localStreams[type])
           reached == {type \in DOMAIN localStreams :
                         \A u \in DOMAIN localStreams : NotAfter(u, type) => ~Throws(u)}
           Added(type) ==
             UNION {AddTrack({}, t, localStreams[type]) : t \in Track(localStreams[type])}
           New == UNION {Added(type) : type \in reached}
<1>1. /\ p \in InPeers /\ p \notin connected /\ connected' = connected \cup {p}
      /\ senders' = [senders EXCEPT ![p] = ss \cup New]
      /\ UNCHANGED <<dialState, dials, listening, video, lastDevice, requests, created,
                     stopped, muted, trackOf,
                     localStreams, desktopFirst, mirror, peerStreams, peers, raced, late, unsure>>
  BY DEF HandleConnect, Connecting, callVars, trackVars, streamVars, history
<1>2. /\ senders \in [Peers -> SUBSET Senders] /\ ss \in SUBSET Senders
      /\ senders'[p] = ss \cup New /\ \A q \in Peers : q # p => senders'[q] = senders[q]
  BY <1>1 DEF MediaIndInv, PeersOnce
<1>3. ASSUME NEW type \in DOMAIN localStreams, NEW y \in Added(type)
      PROVE  /\ type \in DOMAIN localStreams /\ trackOf[localStreams[type]] # NoTrack
             /\ y \in Senders /\ Fresh(y, trackOf[localStreams[type]], localStreams[type])
  <2>1. PICK t \in Track(localStreams[type]) : y \in AddTrack({}, t, localStreams[type])
    BY <1>3
  <2>2. /\ type \in DOMAIN localStreams /\ t = trackOf[localStreams[type]] /\ t # NoTrack
        /\ t \in Tracks /\ localStreams[type] \in Streams
    <3>1. type \in DOMAIN localStreams /\ t \in Track(localStreams[type])
      BY <2>1
    <3>2. t = trackOf[localStreams[type]] /\ t # NoTrack /\ localStreams[type] \in DOMAIN trackOf
      BY <3>1, StreamFacts
    <3>3. \A i \in 1..created : i \in Streams
      BY LocalMediaAssumption DEF MediaIndInv, TypeOK, Streams
    <3>4. localStreams[type] \in 1..created /\ t \in Tracks
      BY <3>2, StreamFacts
    <3> QED BY <3>1, <3>2, <3>3, <3>4
  <2>3. {} \in SUBSET Senders
    OBVIOUS
  <2>4. y \in Senders /\ Fresh(y, t, localStreams[type])
    BY <2>1, <2>2, <2>3, TrackAdded
  <2> QED BY <2>2, <2>4
<1>4. ASSUME NEW type \in DOMAIN localStreams, trackOf[localStreams[type]] # NoTrack
      PROVE  \E y \in Added(type) : y.stream = localStreams[type]
  <2> DEFINE t == trackOf[localStreams[type]]
             a == [stream |-> localStreams[type], known |-> {t}, track |-> t, removed |-> FALSE]
  <2>1. Track(localStreams[type]) = {t}
    BY <1>4, StreamFacts
  <2>2. AddTrack({}, t, localStreams[type]) = {a}
    BY DEF AddTrack
  <2>3. a.stream = localStreams[type]
    OBVIOUS
  <2> HIDE DEF a
  <2>4. a \in Added(type)
    BY <2>1, <2>2
  <2> QED BY <2>3, <2>4
<1>5. ASSUME NEW type, Throws(type) PROVE \E x \in ss : x.stream = localStreams[type]
  BY <1>5 DEF AddTrackThrows, SenderOf
<1>6. \A y \in New : \E type \in DOMAIN localStreams :
        /\ trackOf[localStreams[type]] # NoTrack /\ y \in Senders
        /\ Fresh(y, trackOf[localStreams[type]], localStreams[type])
  <2> HIDE DEF Added, Throws
  <2> QED BY <1>3
<1>7. ASSUME SendsOnlyLocal(ss), MayConnect(ss), NEW type \in DOMAIN localStreams,
             trackOf[localStreams[type]] # NoTrack
      PROVE  \E y \in ss \cup New : y.stream = localStreams[type]
  <2> HIDE DEF Added, Throws
  <2>1. CASE type \in reached
    BY <1>4, <1>7, <2>1
  <2>2. CASE type \notin reached
    <3>1. PICK u \in DOMAIN localStreams : NotAfter(u, type) /\ Throws(u)
      BY <2>2
    <3>2. PICK x \in ss : x.stream = localStreams[u]
      BY <1>5, <3>1
    <3>3. u = type
      BY <1>7, <3>1, <3>2 DEF NotAfter, MayConnect, HasCamera, Camera
    <3> QED BY <3>2, <3>3
  <2> QED BY <2>1, <2>2
<1> HIDE DEF New
<1>8. /\ InPeers' = InPeers /\ Old' = Old /\ (HasCamera' <=> HasCamera) /\ Camera' = Camera
  BY <1>1 DEF InPeers, Old, HasCamera, Camera
<1>9. TablesTyped'
  <2>1. \A q \in Peers \ InPeers' : senders'[q] = {}
    BY <1>1, <1>2, <1>8, PeerFacts
  <2>2. connected' \subseteq InPeers'
    BY <1>1, <1>8, PeerFacts
  <2> QED BY <1>1, <2>1, <2>2 DEF MediaIndInv, TypeOK, TablesTyped
<1>10. PeersOnce'
  <2>1. senders' \in [Peers -> SUBSET Senders]
    BY <1>1, <1>2, <1>6
  <2> QED BY <1>1, <2>1 DEF MediaIndInv, PeersOnce
<1>11. ReducersAgree' /\ TracksOnce'
  BY <1>1, <1>8 DEF MediaIndInv, ReducersAgree, TracksOnce
<1>12. MirrorFitsDevice'
  BY <1>1 DEF MediaIndInv, MirrorFitsDevice, Track
<1>13. SendersFit' /\ SentTracksAreLive'
  <2>1. ASSUME NEW y \in New
        PROVE  /\ y.track \in y.known /\ y.known \subseteq Old /\ y.stream <= created
               /\ \A r \in DOMAIN trackOf : trackOf[r] \in y.known => r = y.stream
               /\ y.track \notin stopped
    <3>1. PICK type \in DOMAIN localStreams :
            trackOf[localStreams[type]] # NoTrack
            /\ Fresh(y, trackOf[localStreams[type]], localStreams[type])
      BY <1>6, <2>1
    <3>2. localStreams[type] \in DOMAIN trackOf /\ localStreams[type] <= created
      BY StreamFacts
    <3>3. trackOf[localStreams[type]] \in Old /\ trackOf[localStreams[type]] \notin stopped
          /\ \A r \in DOMAIN trackOf : trackOf[r] = trackOf[localStreams[type]] => r = localStreams[type]
      BY <3>1, <3>2 DEF MediaIndInv, TracksOnce
    <3> QED BY <3>1, <3>2, <3>3 DEF Fresh
  <2>2. SendersFit'
    BY <1>1, <1>2, <1>8, <2>1 DEF MediaIndInv, SendersFit
  <2>3. \A q \in Peers : \A x \in senders[q] : ~x.removed => x.track \notin stopped
    BY DEF MediaIndInv, SentTracksAreLive, Sending
  <2>4. \A q \in Peers : \A x \in senders'[q] : ~x.removed => x.track \notin stopped'
    BY <1>1, <1>2, <2>1, <2>3
  <2> QED BY <2>2, <2>4 DEF SentTracksAreLive, Sending
<1>14. PeersInStep'
  <2>1. SUFFICES ASSUME ~raced PROVE PeersInStep'
    BY <1>1 DEF PeersInStep
  <2>2. ASSUME NEW q \in InPeers, q # p
        PROVE  /\ SendsOnlyLocal(senders[q])'
               /\ q \in connected' => SendsAllLocal(senders[q])'
               /\ q \notin connected' => MayConnect(senders[q])'
    <3>1. senders'[q] = senders[q] /\ (q \in connected' <=> q \in connected)
      BY <1>1, <1>2, <2>2, PeerFacts
    <3>2. /\ SendsOnlyLocal(senders[q])' <=> SendsOnlyLocal(senders[q])
          /\ SendsAllLocal(senders[q])' <=> SendsAllLocal(senders[q])
          /\ MayConnect(senders[q])' <=> MayConnect(senders[q])
      BY <1>1, <1>8, <3>1 DEF SendsOnlyLocal, SendsAllLocal, MayConnect
    <3> QED BY <2>1, <2>2, <3>1, <3>2 DEF MediaIndInv, PeersInStep
  <2>3. SendsOnlyLocal(ss) /\ MayConnect(ss)
    BY <1>1, <2>1 DEF MediaIndInv, PeersInStep
  <2>4. SendsOnlyLocal(senders[p])'
    <3>1. SUFFICES ASSUME NEW y \in ss \cup New
                   PROVE  /\ \A t \in DOMAIN localStreams :
                               y.stream = localStreams[t] => ~y.removed /\ y.track = trackOf[y.stream]
                          /\ ~y.removed => \E t \in DOMAIN localStreams : y.stream = localStreams[t]
      BY <1>1, <1>2 DEF SendsOnlyLocal
    <3>2. CASE y \in ss
      BY <2>3, <3>2 DEF SendsOnlyLocal
    <3>3. CASE y \in New
      BY <1>6, <3>3 DEF Fresh
    <3> QED BY <3>1, <3>2, <3>3
  <2>5. SendsAllLocal(senders[p])'
    BY <1>1, <1>2, <1>7, <2>3 DEF SendsAllLocal
  <2>6. p \in connected'
    BY <1>1
  <2> QED BY <1>8, <2>2, <2>4, <2>5, <2>6 DEF PeersInStep
<1>15. MenuFits' /\ DialFits'
  BY <1>1, MenuUntouched
<1>16. Tables'
  BY <1>9, <1>10, <1>11, <1>12, <1>13, <1>14 DEF Tables
<1> QED BY <1>1, <1>15, <1>16, InvOfTables DEF MediaIndInv, TypeOK

\* The other peers keep their order.
LEMMA PeerOmitted ==
  ASSUME MediaIndInv, NEW p \in InPeers
  PROVE  /\ OmitPeer(p) \in Seq(Peers)
         /\ {OmitPeer(p)[i] : i \in DOMAIN OmitPeer(p)} = InPeers \ {p}
         /\ \A i, j \in DOMAIN OmitPeer(p) : OmitPeer(p)[i] = OmitPeer(p)[j] => i = j
<1> DEFINE k == CHOOSE i \in DOMAIN peers : peers[i] = p
           n == Len(peers)
           q == OmitPeer(p)
<1>1. peers \in Seq(Peers) /\ n \in Nat /\ DOMAIN peers = 1..n
  BY DEF MediaIndInv, TypeOK
<1>2. k \in DOMAIN peers /\ peers[k] = p
  BY DEF InPeers
<1>3. q = [j \in 1..(n - 1) |-> IF j < k THEN peers[j] ELSE peers[j + 1]]
  BY DEF OmitPeer
<1>4. \A i, j \in DOMAIN peers : peers[i] = peers[j] => i = j
  BY DEF MediaIndInv, PeersOnce
<1> HIDE DEF k, n, q
<1>5. n - 1 \in Nat /\ k \in 1..n
  BY <1>1, <1>2
<1>6. \A i \in 1..n : peers[i] \in Peers
  BY <1>1
<1>7. DOMAIN q = 1..(n - 1) /\ \A j \in 1..(n - 1) : /\ j < k => q[j] = peers[j] /\ j \in 1..n
                                                     /\ ~(j < k) => q[j] = peers[j + 1] /\ j + 1 \in 1..n
  BY <1>1, <1>3, <1>5
<1>8. q \in Seq(Peers)
  <2>1. \A j \in 1..(n - 1) : q[j] \in Peers
    BY <1>6, <1>7
  <2>2. q \in [1..(n - 1) -> Peers]
    BY <1>3, <1>7, <2>1
  <2> QED BY <1>5, <2>2
<1>9. ASSUME NEW i \in 1..(n - 1) PROVE q[i] \in InPeers \ {p}
  <2>1. CASE i < k
    BY <1>1, <1>2, <1>4, <1>5, <1>7, <2>1 DEF InPeers
  <2>2. CASE ~(i < k)
    <3>1. q[i] = peers[i + 1] /\ i + 1 \in DOMAIN peers /\ i + 1 # k
      BY <1>1, <1>5, <1>7, <2>2
    <3> QED BY <1>2, <1>4, <3>1 DEF InPeers
  <2> QED BY <2>1, <2>2
<1>10. ASSUME NEW x \in InPeers, x # p PROVE \E i \in 1..(n - 1) : q[i] = x
  <2>1. PICK i \in 1..n : peers[i] = x
    BY <1>1 DEF InPeers
  <2>2. i # k
    BY <1>2, <1>10, <2>1
  <2>3. CASE i < k
    <3>1. i \in 1..(n - 1)
      BY <1>1, <1>5, <2>3
    <3> QED BY <1>7, <2>1, <2>3, <3>1
  <2>4. CASE i > k
    <3>1. i - 1 \in 1..(n - 1) /\ ~(i - 1 < k) /\ (i - 1) + 1 = i
      BY <1>1, <1>5, <2>4
    <3> QED BY <1>7, <2>1, <3>1
  <2> QED BY <1>1, <1>5, <2>2, <2>3, <2>4
<1>11. ASSUME NEW i \in 1..(n - 1), NEW j \in 1..(n - 1), q[i] = q[j] PROVE i = j
  <2> DEFINE at(x) == IF x < k THEN x ELSE x + 1
  <2>1. at(i) \in DOMAIN peers /\ at(j) \in DOMAIN peers /\ q[i] = peers[at(i)] /\ q[j] = peers[at(j)]
    BY <1>1, <1>7
  <2>2. at(i) = at(j)
    BY <1>4, <1>11, <2>1
  <2> QED BY <1>1, <1>5, <2>2
<1>12. {q[i] : i \in DOMAIN q} = InPeers \ {p}
  BY <1>7, <1>9, <1>10
<1>13. \A i, j \in DOMAIN q : q[i] = q[j] => i = j
  BY <1>7, <1>11
<1> QED BY <1>8, <1>12, <1>13 DEF q

LEMMA HandleCloseKeeps ==
  ASSUME MediaIndInv, NEW p \in Peers, HandleClose(p)
  PROVE  MediaIndInv'
<1>1. /\ p \in InPeers /\ peers' = OmitPeer(p) /\ connected' = connected \ {p}
      /\ senders' = [senders EXCEPT ![p] = {}]
      /\ UNCHANGED <<dialState, dials, listening, video, lastDevice, requests, created,
                     stopped, muted, trackOf,
                     localStreams, desktopFirst, mirror, peerStreams, raced, late, unsure>>
  BY DEF HandleClose, callVars, trackVars, streamVars, history
<1>2. /\ peers' \in Seq(Peers) /\ InPeers' = InPeers \ {p}
      /\ \A i, j \in DOMAIN peers' : peers'[i] = peers'[j] => i = j
  <2>1. /\ peers' \in Seq(Peers)
        /\ {peers'[i] : i \in DOMAIN peers'} = InPeers \ {p}
        /\ \A i, j \in DOMAIN peers' : peers'[i] = peers'[j] => i = j
    BY <1>1, PeerOmitted
  <2>2. InPeers' = {peers'[i] : i \in DOMAIN peers'}
    BY DEF InPeers
  <2> QED BY <2>1, <2>2
<1>3. /\ senders' \in [Peers -> SUBSET Senders] /\ senders'[p] = {}
      /\ \A q \in Peers : q # p => senders'[q] = senders[q]
  BY <1>1 DEF MediaIndInv, PeersOnce
<1>4. Old' = Old /\ (HasCamera' <=> HasCamera) /\ Camera' = Camera
  BY <1>1 DEF Old, HasCamera, Camera
<1>5. TablesTyped'
  <2>1. connected' \subseteq InPeers' /\ \A q \in Peers \ InPeers' : senders'[q] = {}
    BY <1>1, <1>2, <1>3, PeerFacts
  <2> QED BY <1>1, <1>2, <2>1 DEF MediaIndInv, TypeOK, TablesTyped
<1>6. PeersOnce'
  <2>1. listening
    BY <1>1 DEF MediaIndInv, PeersOnce, InPeers
  <2> QED BY <1>1, <1>2, <1>3, <2>1 DEF PeersOnce
<1>7. ReducersAgree' /\ TracksOnce' /\ SendersFit'
  BY <1>1, <1>3, <1>4 DEF MediaIndInv, ReducersAgree, TracksOnce, SendersFit
<1>8. SentTracksAreLive'
  BY <1>1, <1>3 DEF MediaIndInv, SentTracksAreLive, Sending
<1>9. MirrorFitsDevice'
  BY <1>1 DEF MediaIndInv, MirrorFitsDevice, Track
<1>10. PeersInStep'
  <2>1. SUFFICES ASSUME ~raced, NEW q \in InPeers, q # p
                 PROVE  /\ SendsOnlyLocal(senders[q])'
                        /\ q \in connected' => SendsAllLocal(senders[q])'
                        /\ q \notin connected' => MayConnect(senders[q])'
    BY <1>1, <1>2 DEF PeersInStep
  <2>2. senders'[q] = senders[q] /\ (q \in connected' <=> q \in connected)
    BY <1>1, <1>3, <2>1, PeerFacts
  <2>3. /\ SendsOnlyLocal(senders[q])' <=> SendsOnlyLocal(senders[q])
        /\ SendsAllLocal(senders[q])' <=> SendsAllLocal(senders[q])
        /\ MayConnect(senders[q])' <=> MayConnect(senders[q])
    BY <1>1, <1>4, <2>2 DEF SendsOnlyLocal, SendsAllLocal, MayConnect
  <2> QED BY <2>1, <2>2, <2>3 DEF MediaIndInv, PeersInStep
<1>11. MenuFits' /\ DialFits'
  BY <1>1, MenuUntouched
<1>12. Tables'
  BY <1>5, <1>6, <1>7, <1>8, <1>9, <1>10 DEF Tables
<1> QED BY <1>1, <1>11, <1>12, InvOfTables DEF MediaIndInv, TypeOK

-----------------------------------------------------------------------------
(* The theorems *)

LEMMA InitMedia == Init => MediaIndInv
<1> SUFFICES ASSUME Init PROVE MediaIndInv
  OBVIOUS
<1>1. /\ DOMAIN localStreams = {} /\ DOMAIN peerStreams = {} /\ DOMAIN trackOf = {} /\ InPeers = {}
      /\ DOMAIN peers = {}
  BY DEF Init, EmptyMap, InPeers
<1>2. senders \in [Peers -> SUBSET Senders] /\ \A p \in Peers : senders[p] = {}
  BY DEF Init
<1>3. TypeOK
  <2>1. IsMap(trackOf, 1..created, Tracks \cup {NoTrack})
    BY DEF Init, EmptyMap, IsMap
  <2>2. IsMap(localStreams, Types, DOMAIN trackOf) /\ IsMap(peerStreams, Types, DOMAIN trackOf)
    BY DEF Init, EmptyMap, IsMap
  <2>3. IsABag(requests) /\ BagToSet(requests) \subseteq Requests
    BY DEF Init, EmptyBag, SetToBag, IsABag, BagToSet
  <2>4. created \in 0..MaxTracks /\ dials \in 0..MaxDials
    BY LocalMediaAssumption DEF Init
  <2>5. peers \in Seq(Peers)
    BY DEF Init
  <2> QED BY <1>1, <1>2, <2>1, <2>2, <2>3, <2>4, <2>5 DEF Init, TypeOK
<1>4. PeersOnce /\ ReducersAgree /\ TracksOnce /\ SendersFit
  BY <1>1, <1>2 DEF Init, PeersOnce, ReducersAgree, HasCamera, TracksOnce, SendersFit
<1>5. SentTracksAreLive /\ MirrorFitsDevice /\ PeersInStep
  BY <1>1, <1>2 DEF SentTracksAreLive, Sending, MirrorFitsDevice, PeersInStep
<1>6. MenuFits /\ DialFits
  BY <1>1, <1>3 DEF Init, MenuFits, HasCamera, TypeOK, DialFits, HungUp
<1> QED BY <1>3, <1>4, <1>5, <1>6 DEF MediaIndInv

LEMMA NextMedia == MediaIndInv /\ [Next]_vars => MediaIndInv'
<1> SUFFICES ASSUME MediaIndInv, [Next]_vars PROVE MediaIndInv'
  OBVIOUS
<1>1. ASSUME NEW c \in Choices, SetVideoConstraint(c) \/ HandleDevice(c) PROVE MediaIndInv'
  BY <1>1, SetVideoConstraintKeeps, HandleDeviceKeeps
<1>2. CASE Join \/ DialResolved \/ DialRejected \/ ToggleShareDesktop \/ HangUp
  BY <1>2, JoinKeeps, DialEndsKeeps, ToggleShareDesktopKeeps, HangUpKeeps
<1>3. ASSUME NEW r \in BagToSet(requests), Resolve(r) \/ Reject(r) PROVE MediaIndInv'
  BY <1>3, ResolveKeeps, RejectKeeps
<1>4. ASSUME NEW p \in Peers, CreatePeer(p) \/ HandleConnect(p) \/ HandleClose(p) PROVE MediaIndInv'
  BY <1>4, CreatePeerKeeps, HandleConnectKeeps, HandleCloseKeeps
<1>5. CASE UNCHANGED vars
  <2>1. UNCHANGED <<dialState, dials, listening, video, lastDevice, requests, created, stopped,
                    muted, trackOf,
                    localStreams, desktopFirst, mirror, peerStreams, peers, connected, senders, raced, late,
                    unsure>>
    BY <1>5 DEF vars, callVars, trackVars, streamVars, peerVars, history
  <2>2. Tables'
    BY <2>1, MutedIsOld, TablesUntouched
  <2>3. MenuFits' /\ DialFits'
    BY <2>1, MenuUntouched
  <2> QED BY <2>1, <2>2, <2>3, InvOfTables DEF MediaIndInv, TypeOK
<1> QED BY <1>1, <1>2, <1>3, <1>4, <1>5 DEF Next

\* The inductive invariant: between any two events, streams, tracks, senders,
\* menu and requests fit together.
THEOREM MediaHolds == Spec => []MediaIndInv
BY InitMedia, NextMedia, PTL DEF Spec

\* Whatever the order of cameras, screens, peers and exceptions: the tables are
\* well formed, no peer is sent a stopped track, and the mirror flag fits.
THEOREM MediaIsKept == Spec => []MediaInv
<1>1. MediaIndInv => MediaInv
  BY DEF MediaIndInv, MediaInv
<1> QED BY <1>1, MediaHolds, PTL

\* Every connected peer is sent exactly the tracks of the local streams, unless
\* since the last hang up the camera changed while a peer was connecting, or the
\* screen did where it is the first of the local streams.
THEOREM PeersAreSentLocalTracks == Spec => []PeersGetLocalTracks
<1>1. MediaIndInv => PeersGetLocalTracks
  <2>1. SUFFICES ASSUME MediaIndInv, ~raced, NEW p \in connected
                 PROVE  Sending(p) = UNION {Track(localStreams[type]) : type \in DOMAIN localStreams}
    BY DEF PeersGetLocalTracks
  <2>2. p \in InPeers /\ p \in Peers /\ SendsOnlyLocal(senders[p]) /\ SendsAllLocal(senders[p])
    BY <2>1, PeerFacts DEF MediaIndInv, PeersInStep
  <2>3. ASSUME NEW x \in senders[p], ~x.removed
        PROVE  \E type \in DOMAIN localStreams : x.track \in Track(localStreams[type])
    <3>1. PICK type \in DOMAIN localStreams : x.stream = localStreams[type]
      BY <2>2, <2>3 DEF SendsOnlyLocal
    <3>2. x.track = trackOf[localStreams[type]] /\ x.track # NoTrack
      BY <2>1, <2>2, <3>1, PeerFacts, SenderFields, NoTrackFacts DEF SendsOnlyLocal
    <3> QED BY <2>1, <3>2, StreamFacts
  <2>4. ASSUME NEW type \in DOMAIN localStreams, NEW t \in Track(localStreams[type])
        PROVE  t \in Sending(p)
    <3>1. t = trackOf[localStreams[type]] /\ t # NoTrack
      BY <2>1, <2>4, StreamFacts
    <3>2. PICK x \in senders[p] : x.stream = localStreams[type]
      BY <2>2, <3>1 DEF SendsAllLocal
    <3>3. ~x.removed /\ x.track = t
      BY <2>2, <3>1, <3>2 DEF SendsOnlyLocal
    <3> QED BY <3>2, <3>3 DEF Sending
  <2>5. \A t \in Sending(p) : \E type \in DOMAIN localStreams : t \in Track(localStreams[type])
    BY <2>3 DEF Sending
  <2> QED BY <2>4, <2>5
<1> QED BY <1>1, MediaHolds, PTL

\* The device menu tells the truth: while it shows no camera none is sent
\* enabled, and in a call the camera that it shows is in use and enabled once the
\* requests for tracks are answered.  Excepted are, since the last hang up, an
\* answer to an earlier choice, a rejected dial and a change while a peer was
\* connecting; for the second part also a refused track, and handleDevice taking
\* another camera for the one that it had turned off.
THEOREM MenuTellsTheTruth == Spec => []MenuIsTrue
<1>1. MediaIndInv => OffIsOff
  <2>1. SUFFICES ASSUME MediaIndInv, video = Off, ~late, ~raced, NEW p \in Peers,
                        NEW x \in senders[p], ~x.removed, x.track \notin muted
                 PROVE  x.track.device = None
    BY DEF OffIsOff, Sending
  <2>2. p \in InPeers /\ SendsOnlyLocal(senders[p])
    BY <2>1, PeerFacts DEF MediaIndInv, PeersInStep
  <2>3. PICK type \in DOMAIN localStreams : x.stream = localStreams[type]
    BY <2>1, <2>2 DEF SendsOnlyLocal
  <2>4. x.track = trackOf[localStreams[type]] /\ x.track # NoTrack
    BY <2>1, <2>2, <2>3, PeerFacts, SenderFields, NoTrackFacts DEF SendsOnlyLocal
  <2>5. type # "camera"
    <3>1. HasCamera => Track(Camera) \subseteq muted
      BY <2>1 DEF MediaIndInv, MenuFits
    <3> QED BY <2>1, <2>4, <3>1, StreamFacts DEF HasCamera, Camera
  <2>6. type = "desktop"
    BY <2>1, <2>5, StreamFacts DEF Types
  <2> QED BY <2>1, <2>4, <2>6 DEF MediaIndInv, TracksOnce
<1>2. MediaIndInv => OnIsOn
  <2>1. SUFFICES ASSUME MediaIndInv, InCall, video # Off, NoTrackAskedFor,
                        ~raced, ~late, ~unsure
                 PROVE  CameraIsOn
    BY DEF OnIsOn, CameraIsOn, Camera
  <2>2. listening
    BY <2>1 DEF MediaIndInv, DialFits, HungUp, InCall
  <2>3. ~Asked
    BY <2>1 DEF NoTrackAskedFor, Asked
  <2> QED BY <2>1, <2>2, <2>3 DEF MediaIndInv, MenuFits
<1>3. MediaIndInv => MenuIsTrue
  BY <1>1, <1>2 DEF MenuIsTrue
<1> QED BY <1>3, MediaHolds, PTL
=============================================================================
