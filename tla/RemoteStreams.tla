---------------------------- MODULE RemoteStreams ----------------------------
(***************************************************************************)
(* What the client shows of the others: the remote half of                 *)
(* reducers/streams.ts, with reducers/nicknames.ts, the track events of    *)
(* PeerHandler and Videos.getStreams.                                      *)
(*                                                                         *)
(* Tracks come from the browser (track, mute and unmute events); their     *)
(* owners come over the websocket (metadata, users, hangUp).  In a mesh    *)
(* every user is a peer.  With the SFU there is one peer, the server, and  *)
(* metadata precedes every offer and says who owns which media line.       *)
(*                                                                         *)
(* A line is a peer and a mid.  A connection has one receiver track per    *)
(* line, so the line also stands for the track, and trackIdToPeerIdMid is  *)
(* the domain of tracks.  streamsByUserId is a set of user, stream and     *)
(* track: the code drops streams without tracks and users without streams. *)
(***************************************************************************)
EXTENDS Naturals, FiniteSets, GoMaps

CONSTANTS
  Users,     \* the other users
  UserId,    \* the user of this client
  Server,    \* the peer ID of the SFU
  ME,        \* the key of the local user in nicknames
  Lines,     \* media lines: peers with mids
  StreamIds, \* IDs of media streams
  MaxSent    \* bound: lines that are sent on at a time

None == "none"

ASSUME RemoteStreamsAssumption ==
  /\ UserId \notin Users /\ Server \notin Users
  /\ ME \notin Users \cup {Server} /\ None \notin Users \cup {Server}
  /\ \A line \in Lines : line[1] \in Users \cup {Server}
  /\ MaxSent \in Nat

VARIABLES
  network,   \* "mesh" or "sfu"
  metadata,  \* metadataByPeerIdMid: the owner of each line
  tracks,    \* tracksByPeerIdMid: the association of each line
  streams,   \* streamsByUserId
  nicknames, \* the keys of nicknames
  peers,     \* the keys of peers
  receivers, \* browser: the receiving lines, with the stream that handleTrack captured
  offers,    \* browser: the offers being applied, per peer
  alive,     \* others: the peers whose other end is still there
  source,    \* others: the owner of what is sent on each line
  room       \* others: who is in the room

store == <<metadata, tracks, streams, nicknames, peers>>
world == <<network, receivers, offers, alive, source, room>>
vars == <<store, world>>

Owners == [user : Users \cup {Server}, stream : StreamIds]
Unassociated == [user |-> None, stream |-> None]

PeerOf(line) == line[1]
LinesOf(p, m) == {line \in DOMAIN m : PeerOf(line) = p}
Restricted(m, S) == [x \in S |-> m[x]]

Init ==
  /\ network \in {"mesh", "sfu"}
  /\ metadata = EmptyMap
  /\ tracks = EmptyMap
  /\ streams = {}
  /\ nicknames = {ME}
  /\ peers = {}
  /\ receivers = EmptyMap
  /\ offers = EmptyMap
  /\ alive = {}
  /\ source = EmptyMap
  /\ room = {}

-----------------------------------------------------------------------------
(* The streams reducer, as functions of tracks and streams *)

State(t, s) == [tracks |-> t, streams |-> s]

Commit(st) == tracks' = st.tracks /\ streams' = st.streams

CapturedOwner(md, line, streamId) == [user |-> PeerOf(line), stream |-> streamId]

\* getUserId: the owner that the metadata names, else the peer and its own stream.
GetUserId(md, line, streamId) ==
  Get(md, line, [user |-> PeerOf(line), stream |-> streamId])

\* addTrack of every line in the domain of owner.
AddTracks(st, owner) ==
  State([line \in DOMAIN st.tracks \cup DOMAIN owner |->
           IF line \in DOMAIN owner THEN owner[line] ELSE st.tracks[line]],
        st.streams \cup {<<owner[line].user, owner[line].stream, line>> :
                           line \in DOMAIN owner})

AddTrack(st, md, line, streamId) ==
  AddTracks(st, [l \in {line} |-> GetUserId(md, line, streamId)])

(***************************************************************************)
(* removeTrack of some lines: nothing happens to a line that is unknown,   *)
(* unassociated or associated with a stream that is not there.             *)
(***************************************************************************)
RemoveTracks(st, lines) ==
  LET Found(line) ==
        /\ line \in DOMAIN st.tracks
        /\ st.tracks[line] # Unassociated
        /\ \E x \in st.streams : /\ x[1] = st.tracks[line].user
                                 /\ x[2] = st.tracks[line].stream
      removed == {line \in lines : Found(line)}
  IN  State([line \in DOMAIN st.tracks |->
               IF line \in removed THEN Unassociated ELSE st.tracks[line]],
            st.streams \ {<<st.tracks[line].user, st.tracks[line].stream, line>> :
                            line \in removed})

\* unassociateUserTracks: NICKNAME_REMOVE.
UnassociateUserTracks(st, u) ==
  LET lines == {x[3] : x \in {y \in st.streams : y[1] = u}}
  IN  State([line \in DOMAIN st.tracks |->
               IF line \in lines THEN Unassociated ELSE st.tracks[line]],
            {x \in st.streams : x[1] # u})

SetMetadataAddOnly(st, md) ==
  AddTracks(st, [line \in {l \in DOMAIN st.tracks \cap DOMAIN md :
                             st.tracks[l] # md[l]} |-> md[line]])

SetMetadataOfAssociated(st, md) ==
  LET lost  == DOMAIN st.tracks \ DOMAIN md
      wrong == {line \in DOMAIN st.tracks \cap DOMAIN md :
                  st.tracks[line] \notin {Unassociated, md[line]}}
  IN  AddTracks(RemoveTracks(st, lost \cup wrong), Restricted(md, wrong))

(***************************************************************************)
(* setMetadata: lines that the metadata leaves out are removed, whoever    *)
(* the peer; lines that it gives to somebody else are moved; lines that    *)
(* were unassociated are added, muted or not.                              *)
(***************************************************************************)
SetMetadata(st, md) ==
  LET lost  == DOMAIN st.tracks \ DOMAIN md
      wrong == {line \in DOMAIN st.tracks \cap DOMAIN md : st.tracks[line] # md[line]}
  IN  AddTracks(RemoveTracks(st, lost \cup wrong), Restricted(md, wrong))

\* removePeer: PEER_REMOVE.  The metadata of the peer stays.
RemovePeer(st, p) ==
  LET gone == LinesOf(p, st.tracks)
      st1  == RemoveTracks(st, gone)
  IN  State(Restricted(st1.tracks, DOMAIN st1.tracks \ gone), st1.streams)

Now == State(tracks, streams)

-----------------------------------------------------------------------------
(* Messages of the websocket *)

PeerIds(r) == IF network = "sfu" THEN {Server} ELSE r

NicknamesByUserId(payload) == {ME} \cup payload

\* NICKNAMES_SET: the own nickname is stored under ME.
NicknamesSet(payload) == {ME} \cup {IF u = UserId THEN ME ELSE u : u \in payload}

\* NICKNAME_REMOVE; u is never ME.
RemoveNickname(u) == nicknames \ {u}

\* handleUsers: u is ready (again); peers that are already there are kept.
HandleUsers(u) ==
  /\ room' = room \cup {u}
  /\ nicknames' = NicknamesSet(room' \cup {UserId})
  /\ peers' = peers \cup PeerIds(room')
  /\ alive' = alive \cup (peers' \ peers)
  /\ UNCHANGED <<network, metadata, tracks, streams, receivers, offers, source>>

(***************************************************************************)
(* u has left, and what u sent ends.  The SFU tells the others, who run    *)
(* handleHangUp.  In a mesh the server tells nobody: u's end of the        *)
(* connection is gone, which this client is yet to find out.               *)
(***************************************************************************)
HandleHangUp(u) ==
  /\ u \in room
  /\ room' = room \ {u}
  /\ source' = Restricted(source, {line \in DOMAIN source : source[line].user # u})
  /\ alive' = alive \ {u}
  /\ IF network = "sfu"
     THEN nicknames' = RemoveNickname(u) /\ Commit(UnassociateUserTracks(Now, u))
     ELSE UNCHANGED <<nicknames, tracks, streams>>
  /\ UNCHANGED <<network, metadata, peers, receivers, offers>>

(***************************************************************************)
(* The next offer of peer p, after handleMetadata if p is the SFU.  The    *)
(* server reads the metadata when it forwards the offer, so it may be      *)
(* newer than the offer; here both are of one moment, and the case between *)
(* them is MetadataCoversOffer of Signalling.                              *)
(***************************************************************************)
HandleMetadata(p) ==
  /\ p \in alive \ DOMAIN offers
  /\ LET md == Restricted(source, LinesOf(p, source))
     IN  /\ offers' = Put(offers, p, md)
         /\ IF network = "sfu" THEN metadata' = md /\ Commit(SetMetadata(Now, md))
                               ELSE UNCHANGED <<metadata, tracks, streams>>
  /\ UNCHANGED <<network, nicknames, peers, receivers, alive, source, room>>

-----------------------------------------------------------------------------
(* Events of the browser *)

\* handleTrack: a line of the offer begins to receive.
HandleTrack(p, line, muted) ==
  /\ p \in DOMAIN offers
  /\ line \in DOMAIN offers[p] \ DOMAIN receivers
  /\ LET streamId == offers[p][line].stream
     IN  /\ receivers' = Put(receivers, line, [stream |-> streamId, muted |-> muted])
         /\ IF muted THEN UNCHANGED <<tracks, streams>>
                     ELSE Commit(AddTrack(Now, metadata, line, streamId))
  /\ UNCHANGED <<network, metadata, nicknames, peers, offers, alive, source, room>>

OnMuteIgnored(line) == UNCHANGED <<tracks, streams>>

\* track.onmute
OnMute(line) == Commit(RemoveTracks(Now, {line}))

\* A line of p is not in the offer any more: its track is muted, if it was not.
TrackEnds(p, line) ==
  /\ p \in DOMAIN offers
  /\ line \in LinesOf(p, receivers) \ DOMAIN offers[p]
  /\ receivers' = Delete(receivers, line)
  /\ IF receivers[line].muted THEN UNCHANGED <<tracks, streams>> ELSE OnMute(line)
  /\ UNCHANGED <<network, metadata, nicknames, peers, offers, alive, source, room>>

\* Every line of the offer of p is in place.
OfferApplied(p) ==
  /\ p \in DOMAIN offers
  /\ LinesOf(p, receivers) = DOMAIN offers[p]
  /\ offers' = Delete(offers, p)
  /\ UNCHANGED <<store, network, receivers, alive, source, room>>

\* No packets arrive on a line.
Mute(line) ==
  /\ line \in DOMAIN receivers
  /\ ~receivers[line].muted
  /\ receivers' = [receivers EXCEPT ![line].muted = TRUE]
  /\ OnMute(line)
  /\ UNCHANGED <<network, metadata, nicknames, peers, offers, alive, source, room>>

\* Packets arrive on a line again: track.onunmute.
Unmute(line) ==
  /\ line \in DOMAIN receivers \cap DOMAIN source
  /\ receivers[line].muted
  /\ receivers' = [receivers EXCEPT ![line].muted = FALSE]
  /\ Commit(AddTrack(Now, metadata, line, receivers[line].stream))
  /\ UNCHANGED <<network, metadata, nicknames, peers, offers, alive, source, room>>

\* The connection to p is gone: handleError and handleClose.
HandleClose(p) ==
  /\ p \in peers
  /\ peers' = peers \ {p}
  /\ alive' = alive \ {p}
  /\ nicknames' = nicknames \ {p}
  /\ Commit(RemovePeer(Now, p))
  /\ receivers' = Restricted(receivers, DOMAIN receivers \ LinesOf(p, receivers))
  /\ offers' = Delete(offers, p)
  /\ source' = Restricted(source, DOMAIN source \ LinesOf(p, source))
  /\ UNCHANGED <<network, metadata, room>>

-----------------------------------------------------------------------------
(* The local user *)

\* HANG_UP: everything is as in the beginning.
HangUp ==
  /\ peers # {}
  /\ metadata' = EmptyMap
  /\ Commit(State(EmptyMap, {}))
  /\ nicknames' = nicknames \cap {ME}
  /\ peers' = {}
  /\ receivers' = EmptyMap
  /\ offers' = EmptyMap
  /\ alive' = {}
  /\ source' = EmptyMap
  /\ room' = {}
  /\ UNCHANGED network

\* getStreams: the videos, by user and stream; none stands for a user without streams.
Videos ==
  {<<x[1], x[2]>> : x \in {y \in streams : y[1] \in nicknames}}
    \cup ((nicknames \ ({ME} \cup {x[1] : x \in streams})) \X {None})

-----------------------------------------------------------------------------
(* The others *)

\* The owner of a stream begins to send it on a line.  A line that is used again
\* gets another stream: a change of camera keeps its stream, but is a replaceTrack
\* that the receiver does not see.
Publish(line, u, s) ==
  /\ PeerOf(line) \in alive \cap {Server, u}
  /\ line \notin DOMAIN source /\ Cardinality(DOMAIN source) < MaxSent
  /\ u \in room
  /\ Get(metadata, line, Unassociated).stream # s
  /\ source' = Put(source, line, [user |-> u, stream |-> s])
  /\ UNCHANGED <<store, network, receivers, offers, alive, room>>

Unpublish(line) ==
  /\ line \in DOMAIN source
  /\ source' = Delete(source, line)
  /\ UNCHANGED <<store, network, receivers, offers, alive, room>>

Next ==
  \/ \E u \in Users : HandleUsers(u) \/ HandleHangUp(u)
  \/ \E p \in Users \cup {Server} :
       HandleMetadata(p) \/ OfferApplied(p) \/ HandleClose(p)
  \/ \E p \in Users \cup {Server}, line \in Lines :
       TrackEnds(p, line) \/ \E muted \in BOOLEAN : HandleTrack(p, line, muted)
  \/ \E line \in Lines : Mute(line) \/ Unmute(line) \/ Unpublish(line)
  \/ \E line \in Lines, u \in Users, s \in StreamIds : Publish(line, u, s)
  \/ HangUp

Spec == Init /\ [][Next]_vars

-----------------------------------------------------------------------------
(* Properties *)

\* The state is well formed: no entry of the store has the local user's own ID.
TypeOK ==
  /\ network \in {"mesh", "sfu"}
  /\ IsMap(metadata, Lines, Owners)
  /\ IsMap(tracks, Lines, Owners \cup {Unassociated})
  /\ streams \subseteq (Users \cup {Server}) \X StreamIds \X Lines
  /\ nicknames \subseteq Users \cup {ME}
  /\ peers \subseteq Users \cup {Server}
  /\ IsMap(receivers, Lines, [stream : StreamIds, muted : BOOLEAN])
  /\ DOMAIN offers \subseteq peers
  /\ \A p \in DOMAIN offers : IsMap(offers[p], Lines, Owners)
  /\ alive \subseteq peers
  /\ IsMap(source, Lines, Owners)
  /\ room \subseteq Users

(***************************************************************************)
(* The streams and the associations of the tracks agree: a track is in the *)
(* stream of its association and in no other.  Then no step takes the      *)
(* early returns of removeTrack for streams that are not found, nor        *)
(* dereferences an unknown track in unassociateUserTracks.                 *)
(***************************************************************************)
OneStreamPerTrack ==
  streams = {<<tracks[line].user, tracks[line].stream, line>> :
               line \in {l \in DOMAIN tracks : tracks[l] # Unassociated}}

(***************************************************************************)
(* A track that is shown belongs to whom the last metadata says, in        *)
(* whatever order metadata, tracks and mute events came (getUserId:        *)
(* "metadata is sent before each negotiation").                            *)
(***************************************************************************)
OwnerIsMetadata ==
  \A line \in DOMAIN tracks \cap DOMAIN metadata :
    tracks[line] \in {Unassociated, metadata[line]}

(***************************************************************************)
(* A track that plays is shown, once, as its sender's: the line is not     *)
(* muted, its sender is known by nickname, and with the SFU the last       *)
(* metadata names what is being sent.                                      *)
(***************************************************************************)
PlayingIsShown ==
  \A line \in DOMAIN receivers \cap DOMAIN source :
    LET owner == IF network = "sfu" THEN source[line]
                 ELSE [user |-> PeerOf(line), stream |-> receivers[line].stream]
        plays == /\ ~receivers[line].muted
                 /\ owner.user \in nicknames
                 /\ network = "sfu" => Get(metadata, line, Unassociated) = source[line]
    IN  plays => /\ {x \in streams : x[3] = line} = {<<owner.user, owner.stream, line>>}
                 /\ <<owner.user, owner.stream>> \in Videos

(***************************************************************************)
(* Once an offer is applied, no track is shown that was not in it: tracks  *)
(* that ended are found out by their mute event or by metadata ("remove    *)
(* any track the server has lost track of").                               *)
(***************************************************************************)
NoGhostAfterOffer ==
  [][\A p \in DOMAIN offers \ DOMAIN offers' : p \in peers' =>
       \A x \in streams' : PeerOf(x[3]) = p => x[3] \in DOMAIN offers[p]]_vars

\* What the reducers keep up between all events: the store is well formed, its
\* two tables of tracks agree, and they agree with the metadata.
StoreInv == TypeOK /\ OneStreamPerTrack /\ OwnerIsMetadata
=============================================================================
