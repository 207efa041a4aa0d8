------------------------ MODULE RemoteStreamsProofs ------------------------
(***************************************************************************)
(* Proofs about RemoteStreams for any users, lines and streams: the two    *)
(* tables of tracks in the store agree with each other and with the        *)
(* metadata, a track that plays is shown, and no track is shown that an    *)
(* applied offer did not have.                                             *)
(***************************************************************************)
EXTENDS RemoteStreams, TLAPS

AllPeers == Users \cup {Server}

(***************************************************************************)
(* Why a track is associated: the metadata says with whom or, if it does   *)
(* not, the track is playing on a line of the peer.                        *)
(***************************************************************************)
Associations ==
  \A line \in DOMAIN tracks : tracks[line] # Unassociated =>
    IF line \in DOMAIN metadata THEN tracks[line] = metadata[line]
    ELSE /\ line \in DOMAIN receivers
         /\ ~receivers[line].muted
         /\ tracks[line] = [user |-> PeerOf(line), stream |-> receivers[line].stream]

\* What the kind of network decides.
NetworkDecides ==
  IF network = "sfu"
  THEN /\ peers \subseteq {Server}
       /\ Server \in DOMAIN offers => metadata = offers[Server]
  ELSE /\ peers \subseteq Users
       /\ DOMAIN metadata = {}
       /\ \A line \in DOMAIN source :
            PeerOf(line) \in alive /\ source[line].user = PeerOf(line)

\* The lines of a connection belong to its peer.
LinesBelong ==
  /\ \A line \in DOMAIN receivers : PeerOf(line) \in peers
  /\ \A p \in DOMAIN offers : \A line \in DOMAIN offers[p] : PeerOf(line) = p

\* The store has heard of every track that plays.
PlayingIsKnown ==
  \A line \in DOMAIN receivers : ~receivers[line].muted => line \in DOMAIN tracks

(***************************************************************************)
(* A track that plays is associated, in a mesh as long as the user is      *)
(* there, and with the SFU if the metadata names what is being sent.       *)
(***************************************************************************)
PlayingIsAssociated ==
  \A line \in DOMAIN receivers :
    /\ ~receivers[line].muted
    /\ IF network = "sfu"
       THEN /\ line \in DOMAIN source \cap DOMAIN metadata
            /\ metadata[line] = source[line]
       ELSE PeerOf(line) \in alive
    => line \in DOMAIN tracks /\ tracks[line] # Unassociated

RemoteInv ==
  /\ TypeOK
  /\ OneStreamPerTrack
  /\ Associations
  /\ NetworkDecides
  /\ LinesBelong
  /\ PlayingIsKnown
  /\ PlayingIsAssociated

-----------------------------------------------------------------------------
(* The streams reducer *)

Tracks == Owners \cup {Unassociated}

\* An entry of streamsByUserId.
Entry(line, owner) == <<owner.user, owner.stream, line>>

\* The streams of a state are those of the associations of its tracks.
Agree(st) ==
  /\ IsMap(st.tracks, Lines, Tracks)
  /\ \A x : x \in st.streams <=>
       \E line \in DOMAIN st.tracks :
         st.tracks[line] # Unassociated /\ x = Entry(line, st.tracks[line])

\* An entry says to what it belongs.
LEMMA EntryIsUnique ==
  ASSUME NEW l1, NEW l2, NEW o1 \in Owners, NEW o2 \in Owners, Entry(l1, o1) = Entry(l2, o2)
  PROVE  l1 = l2 /\ o1 = o2
BY DEF Entry, Owners

LEMMA OwnersAssociate == Unassociated \notin Owners
BY RemoteStreamsAssumption DEF Owners, Unassociated

\* No line is associated with anything but the owner it is to get.
Addable(st, owner) ==
  \A line \in DOMAIN owner \cap DOMAIN st.tracks :
    st.tracks[line] \in {Unassociated, owner[line]}

\* addTrack of lines that are not associated with anything else.
LEMMA AddTracksAgrees ==
  ASSUME NEW st, Agree(st), NEW owner, IsMap(owner, Lines, Owners),
         Addable(st, owner)
  PROVE  /\ Agree(AddTracks(st, owner))
         /\ AddTracks(st, owner).tracks =
              [line \in DOMAIN st.tracks \cup DOMAIN owner |->
                 IF line \in DOMAIN owner THEN owner[line] ELSE st.tracks[line]]
<1> DEFINE t == AddTracks(st, owner).tracks
           s == AddTracks(st, owner).streams
<1>1. t = [line \in DOMAIN st.tracks \cup DOMAIN owner |->
             IF line \in DOMAIN owner THEN owner[line] ELSE st.tracks[line]]
  BY DEF AddTracks, State
<1>2. \A x : x \in s <=> \/ x \in st.streams
                         \/ \E line \in DOMAIN owner : x = Entry(line, owner[line])
  BY DEF AddTracks, State, Entry
<1> HIDE DEF t, s
<1>3. IsMap(t, Lines, Tracks)
  BY <1>1 DEF IsMap, Agree, Tracks
<1>4. \A line \in DOMAIN owner : owner[line] # Unassociated
  BY OwnersAssociate DEF IsMap
<1>5. ASSUME NEW x \in s
      PROVE  \E line \in DOMAIN t : t[line] # Unassociated /\ x = Entry(line, t[line])
  <2>1. CASE \E line \in DOMAIN owner : x = Entry(line, owner[line])
    BY <1>1, <1>4, <2>1
  <2>2. CASE x \in st.streams
    <3>1. PICK line \in DOMAIN st.tracks :
            st.tracks[line] # Unassociated /\ x = Entry(line, st.tracks[line])
      BY <2>2 DEF Agree
    <3>2. line \in DOMAIN t /\ t[line] = st.tracks[line]
      BY <1>1, <3>1 DEF Addable
    <3> QED BY <3>1, <3>2
  <2> QED BY <1>2, <2>1, <2>2
<1>6. ASSUME NEW line \in DOMAIN t, t[line] # Unassociated
      PROVE  Entry(line, t[line]) \in s
  <2>1. CASE line \in DOMAIN owner
    BY <1>1, <1>2, <2>1
  <2>2. CASE line \notin DOMAIN owner
    BY <1>1, <1>2, <1>6, <2>2 DEF Agree
  <2> QED BY <2>1, <2>2
<1>7. AddTracks(st, owner).tracks = t /\ AddTracks(st, owner).streams = s
  BY DEF t, s
<1> QED BY <1>1, <1>3, <1>5, <1>6, <1>7 DEF Agree

\* removeTrack leaves every line unassociated that it is called for.
LEMMA RemoveTracksAgrees ==
  ASSUME NEW st, Agree(st), NEW lines
  PROVE  /\ Agree(RemoveTracks(st, lines))
         /\ RemoveTracks(st, lines).tracks =
              [line \in DOMAIN st.tracks |->
                 IF line \in lines THEN Unassociated ELSE st.tracks[line]]
<1> DEFINE Found(line) == /\ line \in DOMAIN st.tracks
                          /\ st.tracks[line] # Unassociated
                          /\ \E x \in st.streams : /\ x[1] = st.tracks[line].user
                                                   /\ x[2] = st.tracks[line].stream
           removed == {line \in lines : Found(line)}
           t == RemoveTracks(st, lines).tracks
           s == RemoveTracks(st, lines).streams
<1>1. /\ t = [line \in DOMAIN st.tracks |->
                IF line \in removed THEN Unassociated ELSE st.tracks[line]]
      /\ s = st.streams \ {<<st.tracks[line].user, st.tracks[line].stream, line>> :
                             line \in removed}
  BY DEF RemoveTracks, State
<1>2. \A line \in lines : Found(line) <=>
                            line \in DOMAIN st.tracks /\ st.tracks[line] # Unassociated
  <2>1. SUFFICES ASSUME NEW line \in DOMAIN st.tracks, st.tracks[line] # Unassociated
                 PROVE  Found(line)
    OBVIOUS
  <2>2. Entry(line, st.tracks[line]) \in st.streams
    BY <2>1 DEF Agree
  <2>3. /\ Entry(line, st.tracks[line])[1] = st.tracks[line].user
        /\ Entry(line, st.tracks[line])[2] = st.tracks[line].stream
    BY DEF Entry
  <2> QED BY <2>1, <2>2, <2>3
<1>3. t = [line \in DOMAIN st.tracks |->
             IF line \in lines THEN Unassociated ELSE st.tracks[line]]
  BY <1>1, <1>2
<1>4. \A x : x \in s <=> /\ x \in st.streams
                         /\ ~\E line \in removed : x = Entry(line, st.tracks[line])
  BY <1>1 DEF Entry
<1>5. removed = {line \in lines \cap DOMAIN st.tracks : st.tracks[line] # Unassociated}
  BY <1>2
<1> HIDE DEF t, s, removed
<1>6. IsMap(t, Lines, Tracks)
  BY <1>3 DEF IsMap, Agree, Tracks
<1>7. ASSUME NEW x \in s
      PROVE  \E line \in DOMAIN t : t[line] # Unassociated /\ x = Entry(line, t[line])
  <2>1. PICK line \in DOMAIN st.tracks :
          st.tracks[line] # Unassociated /\ x = Entry(line, st.tracks[line])
    BY <1>4 DEF Agree
  <2>2. line \in DOMAIN t /\ t[line] = st.tracks[line]
    BY <1>3, <1>4, <1>5, <2>1
  <2> QED BY <2>1, <2>2
<1>8. ASSUME NEW line \in DOMAIN t, t[line] # Unassociated
      PROVE  Entry(line, t[line]) \in s
  <2>1. line \in DOMAIN st.tracks /\ line \notin lines /\ t[line] = st.tracks[line]
    BY <1>3, <1>8
  <2>2. Entry(line, t[line]) \in st.streams
    BY <1>8, <2>1 DEF Agree
  <2>3. ASSUME NEW l \in removed PROVE Entry(line, t[line]) # Entry(l, st.tracks[l])
    <3>1. l \in lines /\ st.tracks[l] \in Owners /\ t[line] \in Owners
      BY <1>5, <1>8, <2>1, <2>3 DEF Agree, IsMap, Tracks
    <3> QED BY <2>1, <3>1, EntryIsUnique
  <2> QED BY <1>4, <2>2, <2>3
<1>9. RemoveTracks(st, lines).tracks = t /\ RemoveTracks(st, lines).streams = s
  BY DEF t, s
<1> QED BY <1>3, <1>6, <1>7, <1>8, <1>9 DEF Agree

\* NICKNAME_REMOVE leaves the tracks of the user unassociated.
LEMMA UnassociateAgrees ==
  ASSUME NEW st, Agree(st), NEW u
  PROVE  /\ Agree(UnassociateUserTracks(st, u))
         /\ UnassociateUserTracks(st, u).tracks =
              [line \in DOMAIN st.tracks |->
                 IF st.tracks[line] # Unassociated /\ st.tracks[line].user = u
                 THEN Unassociated ELSE st.tracks[line]]
<1> DEFINE lines == {x[3] : x \in {y \in st.streams : y[1] = u}}
           t == UnassociateUserTracks(st, u).tracks
           s == UnassociateUserTracks(st, u).streams
<1>1. /\ t = [line \in DOMAIN st.tracks |->
                IF line \in lines THEN Unassociated ELSE st.tracks[line]]
      /\ s = {x \in st.streams : x[1] # u}
  BY DEF UnassociateUserTracks, State
<1>2. \A line, owner : Entry(line, owner)[1] = owner.user /\ Entry(line, owner)[3] = line
  BY DEF Entry
<1>3. ASSUME NEW line \in DOMAIN st.tracks
      PROVE  line \in lines <=> st.tracks[line] # Unassociated /\ st.tracks[line].user = u
  <2>1. ASSUME st.tracks[line] # Unassociated, st.tracks[line].user = u
        PROVE  line \in lines
    <3>1. Entry(line, st.tracks[line]) \in st.streams
      BY <2>1 DEF Agree
    <3> QED BY <1>2, <2>1, <3>1
  <2>2. ASSUME line \in lines
        PROVE  st.tracks[line] # Unassociated /\ st.tracks[line].user = u
    <3>1. PICK x \in st.streams : x[1] = u /\ x[3] = line
      BY <2>2
    <3>2. PICK l \in DOMAIN st.tracks :
            st.tracks[l] # Unassociated /\ x = Entry(l, st.tracks[l])
      BY <3>1 DEF Agree
    <3> QED BY <1>2, <3>1, <3>2
  <2> QED BY <2>1, <2>2
<1>4. t = [line \in DOMAIN st.tracks |->
             IF st.tracks[line] # Unassociated /\ st.tracks[line].user = u
             THEN Unassociated ELSE st.tracks[line]]
  BY <1>1, <1>3
<1>5. \A x : x \in s <=> x \in st.streams /\ x[1] # u
  BY <1>1
<1> HIDE DEF t, s, lines
<1>6. IsMap(t, Lines, Tracks)
  BY <1>4 DEF IsMap, Agree, Tracks
<1>7. ASSUME NEW x \in s
      PROVE  \E line \in DOMAIN t : t[line] # Unassociated /\ x = Entry(line, t[line])
  <2>1. PICK line \in DOMAIN st.tracks :
          st.tracks[line] # Unassociated /\ x = Entry(line, st.tracks[line])
    BY <1>5 DEF Agree
  <2>2. line \in DOMAIN t /\ t[line] = st.tracks[line]
    BY <1>2, <1>4, <1>5, <2>1
  <2> QED BY <2>1, <2>2
<1>8. ASSUME NEW line \in DOMAIN t, t[line] # Unassociated
      PROVE  Entry(line, t[line]) \in s
  <2>1. line \in DOMAIN st.tracks /\ t[line] = st.tracks[line] /\ st.tracks[line].user # u
    BY <1>4, <1>8
  <2>2. Entry(line, t[line]) \in st.streams
    BY <1>8, <2>1 DEF Agree
  <2> QED BY <1>2, <1>5, <2>1, <2>2
<1>9. /\ UnassociateUserTracks(st, u).tracks = t
      /\ UnassociateUserTracks(st, u).streams = s
  BY DEF t, s
<1> QED BY <1>4, <1>6, <1>7, <1>8, <1>9 DEF Agree

\* After setMetadata every track belongs to whom the metadata says, or to nobody.
LEMMA SetMetadataAgrees ==
  ASSUME NEW st, Agree(st), NEW md, IsMap(md, Lines, Owners)
  PROVE  /\ Agree(SetMetadata(st, md))
         /\ SetMetadata(st, md).tracks =
              [line \in DOMAIN st.tracks |-> Get(md, line, Unassociated)]
<1> DEFINE lost == DOMAIN st.tracks \ DOMAIN md
           wrong == {line \in DOMAIN st.tracks \cap DOMAIN md : st.tracks[line] # md[line]}
           st1 == RemoveTracks(st, lost \cup wrong)
           owner == Restricted(md, wrong)
<1>1. SetMetadata(st, md) = AddTracks(st1, owner)
  BY DEF SetMetadata
<1>2. /\ Agree(st1)
      /\ st1.tracks = [line \in DOMAIN st.tracks |->
                         IF line \in lost \cup wrong THEN Unassociated ELSE st.tracks[line]]
  BY RemoveTracksAgrees
<1>3. /\ IsMap(owner, Lines, Owners)
      /\ DOMAIN owner = wrong
      /\ \A line \in wrong : owner[line] = md[line]
  BY DEF Restricted, IsMap
<1> HIDE DEF st1, owner
<1>4. Agree(st1) /\ IsMap(owner, Lines, Owners) /\ Addable(st1, owner)
  BY <1>2, <1>3 DEF Addable
<1>5. /\ Agree(AddTracks(st1, owner))
      /\ AddTracks(st1, owner).tracks =
           [line \in DOMAIN st1.tracks \cup DOMAIN owner |->
              IF line \in DOMAIN owner THEN owner[line] ELSE st1.tracks[line]]
  BY <1>4, AddTracksAgrees
<1>6. AddTracks(st1, owner).tracks =
        [line \in DOMAIN st.tracks |-> Get(md, line, Unassociated)]
  BY <1>2, <1>3, <1>5 DEF Get
<1> QED BY <1>1, <1>5, <1>6

\* removePeer forgets the tracks of the peer.
LEMMA RemovePeerAgrees ==
  ASSUME NEW st, Agree(st), NEW p
  PROVE  /\ Agree(RemovePeer(st, p))
         /\ RemovePeer(st, p).tracks =
              [line \in {l \in DOMAIN st.tracks : PeerOf(l) # p} |-> st.tracks[line]]
<1> DEFINE gone == LinesOf(p, st.tracks)
           st1 == RemoveTracks(st, gone)
           t == RemovePeer(st, p).tracks
<1>1. gone = {l \in DOMAIN st.tracks : PeerOf(l) = p}
  BY DEF LinesOf
<1> HIDE DEF gone
<1>2. /\ Agree(st1)
      /\ st1.tracks = [line \in DOMAIN st.tracks |->
                         IF line \in gone THEN Unassociated ELSE st.tracks[line]]
  BY RemoveTracksAgrees
<1>3. t = [line \in DOMAIN st1.tracks \ gone |-> st1.tracks[line]]
      /\ RemovePeer(st, p).streams = st1.streams
  BY DEF RemovePeer, State, Restricted, gone
<1> HIDE DEF st1, t
<1>4. t = [line \in {l \in DOMAIN st.tracks : PeerOf(l) # p} |-> st.tracks[line]]
  BY <1>1, <1>2, <1>3
<1>5. IsMap(t, Lines, Tracks)
  BY <1>4 DEF IsMap, Agree
<1>6. ASSUME NEW x
      PROVE  x \in st1.streams <=>
               \E line \in DOMAIN t : t[line] # Unassociated /\ x = Entry(line, t[line])
  <2>1. x \in st1.streams <=> \E line \in DOMAIN st1.tracks :
          st1.tracks[line] # Unassociated /\ x = Entry(line, st1.tracks[line])
    BY <1>2 DEF Agree
  <2>2. \A line \in DOMAIN st1.tracks : st1.tracks[line] # Unassociated =>
          line \in DOMAIN t /\ t[line] = st1.tracks[line]
    BY <1>2, <1>3
  <2>3. \A line \in DOMAIN t : line \in DOMAIN st1.tracks /\ t[line] = st1.tracks[line]
    BY <1>3
  <2> QED BY <2>1, <2>2, <2>3
<1>7. RemovePeer(st, p).tracks = t
  BY DEF t
<1>8. Agree(RemovePeer(st, p))
  <2>1. IsMap(RemovePeer(st, p).tracks, Lines, Tracks)
    BY <1>5, <1>7
  <2>2. ASSUME NEW x
        PROVE  x \in RemovePeer(st, p).streams <=>
                 \E line \in DOMAIN RemovePeer(st, p).tracks :
                   /\ RemovePeer(st, p).tracks[line] # Unassociated
                   /\ x = Entry(line, RemovePeer(st, p).tracks[line])
    BY <1>3, <1>6, <1>7
  <2> QED BY <2>1, <2>2, Zenon DEF Agree
<1> QED BY <1>4, <1>7, <1>8

-----------------------------------------------------------------------------
(* The steps *)

LEMMA NowAgrees ==
  ASSUME RemoteInv
  PROVE  Agree(Now) /\ Now.tracks = tracks /\ Now.streams = streams
<1>1. Now.tracks = tracks /\ Now.streams = streams
  BY DEF Now, State
<1>2. IsMap(tracks, Lines, Tracks)
  BY DEF RemoteInv, TypeOK, Tracks
<1>3. \A x : x \in streams <=>
        \E line \in DOMAIN tracks :
          tracks[line] # Unassociated /\ x = Entry(line, tracks[line])
  BY DEF RemoteInv, OneStreamPerTrack, Entry
<1> QED BY <1>1, <1>2, <1>3 DEF Agree

\* What the reducer has computed is stored.
LEMMA Committed ==
  ASSUME NEW st, Agree(st), Commit(st)
  PROVE  /\ tracks' = st.tracks
         /\ IsMap(tracks', Lines, Owners \cup {Unassociated})
         /\ streams' \subseteq (Users \cup {Server}) \X StreamIds \X Lines
         /\ OneStreamPerTrack'
<1>1. tracks' = st.tracks /\ streams' = st.streams
  BY DEF Commit
<1>2. IsMap(tracks', Lines, Owners \cup {Unassociated})
  BY <1>1 DEF Agree, Tracks
<1>3. \A x : x \in streams' <=>
        \E line \in DOMAIN tracks' :
          tracks'[line] # Unassociated /\ x = Entry(line, tracks'[line])
  BY <1>1 DEF Agree
<1>4. OneStreamPerTrack'
  BY <1>3 DEF OneStreamPerTrack, Entry
<1>5. ASSUME NEW x \in streams'
      PROVE  x \in (Users \cup {Server}) \X StreamIds \X Lines
  <2>1. PICK line \in DOMAIN tracks' :
          tracks'[line] # Unassociated /\ x = Entry(line, tracks'[line])
    BY <1>3
  <2>2. line \in Lines /\ tracks'[line] \in Owners
    BY <1>2, <2>1 DEF IsMap
  <2> QED BY <2>1, <2>2 DEF Entry, Owners
<1> QED BY <1>1, <1>2, <1>4, <1>5

LEMMA HandleUsersKeeps ==
  ASSUME RemoteInv, NEW u \in Users, HandleUsers(u)
  PROVE  RemoteInv'
<1>1. /\ room' = room \cup {u}
      /\ nicknames' \subseteq {ME} \cup room'
      /\ peers' = peers \cup PeerIds(room')
      /\ alive' = alive \cup (peers' \ peers)
      /\ UNCHANGED <<network, metadata, tracks, streams, receivers, offers, source>>
  BY DEF HandleUsers, NicknamesSet
<1>2. TypeOK'
  BY <1>1 DEF RemoteInv, TypeOK, PeerIds
<1>3. NetworkDecides'
  BY <1>1, <1>2 DEF RemoteInv, NetworkDecides, TypeOK, PeerIds
<1>4. OneStreamPerTrack' /\ Associations' /\ LinesBelong' /\ PlayingIsKnown'
  BY <1>1 DEF RemoteInv, OneStreamPerTrack, Associations, LinesBelong, PlayingIsKnown
<1>5. PlayingIsAssociated'
  BY <1>1 DEF RemoteInv, PlayingIsAssociated, LinesBelong
<1> QED BY <1>2, <1>3, <1>4, <1>5 DEF RemoteInv

LEMMA HandleHangUpKeeps ==
  ASSUME RemoteInv, NEW u \in Users, HandleHangUp(u)
  PROVE  RemoteInv'
<1>1. /\ room' = room \ {u}
      /\ source' = [line \in {l \in DOMAIN source : source[l].user # u} |-> source[line]]
      /\ alive' = alive \ {u}
      /\ IF network = "sfu" THEN nicknames' = nicknames \ {u} /\ Commit(UnassociateUserTracks(Now, u))
                            ELSE UNCHANGED <<nicknames, tracks, streams>>
      /\ UNCHANGED <<network, metadata, peers, receivers, offers>>
  BY DEF HandleHangUp, Restricted, RemoveNickname
<1>2. IsMap(source', Lines, Owners)
  BY <1>1 DEF RemoteInv, TypeOK, IsMap
<1>3. NetworkDecides'
  BY <1>1 DEF RemoteInv, NetworkDecides
<1>4. CASE network # "sfu"
  <2>1. TypeOK'
    BY <1>1, <1>2, <1>4 DEF RemoteInv, TypeOK
  <2>2. OneStreamPerTrack' /\ Associations' /\ LinesBelong' /\ PlayingIsKnown'
    BY <1>1, <1>4 DEF RemoteInv, OneStreamPerTrack, Associations, LinesBelong, PlayingIsKnown
  <2>3. PlayingIsAssociated'
    BY <1>1, <1>4 DEF RemoteInv, PlayingIsAssociated
  <2> QED BY <1>3, <2>1, <2>2, <2>3 DEF RemoteInv
<1>5. CASE network = "sfu"
  <2>1. /\ Agree(UnassociateUserTracks(Now, u))
        /\ UnassociateUserTracks(Now, u).tracks =
             [line \in DOMAIN Now.tracks |->
                IF Now.tracks[line] # Unassociated /\ Now.tracks[line].user = u
                THEN Unassociated ELSE Now.tracks[line]]
    BY NowAgrees, UnassociateAgrees
  <2>2. /\ tracks' = UnassociateUserTracks(Now, u).tracks
        /\ IsMap(tracks', Lines, Owners \cup {Unassociated})
        /\ streams' \subseteq (Users \cup {Server}) \X StreamIds \X Lines
        /\ OneStreamPerTrack'
    BY <1>1, <1>5, <2>1, Committed
  <2>3. tracks' = [line \in DOMAIN tracks |->
                     IF tracks[line] # Unassociated /\ tracks[line].user = u
                     THEN Unassociated ELSE tracks[line]]
    BY <2>1, <2>2, NowAgrees
  <2>4. TypeOK'
    BY <1>1, <1>2, <1>5, <2>2 DEF RemoteInv, TypeOK
  <2>5. Associations' /\ LinesBelong' /\ PlayingIsKnown'
    BY <1>1, <2>3 DEF RemoteInv, Associations, LinesBelong, PlayingIsKnown
  <2>6. PlayingIsAssociated'
    <3> SUFFICES ASSUME NEW line \in DOMAIN receivers, ~receivers[line].muted,
                        line \in DOMAIN source' \cap DOMAIN metadata,
                        metadata[line] = source'[line]
                 PROVE  line \in DOMAIN tracks' /\ tracks'[line] # Unassociated
      BY <1>1, <1>5 DEF PlayingIsAssociated
    <3>1. line \in DOMAIN tracks /\ tracks[line] # Unassociated
      BY <1>1, <1>5 DEF RemoteInv, PlayingIsAssociated
    <3>2. tracks[line].user # u
      BY <1>1, <3>1 DEF RemoteInv, Associations
    <3> QED BY <2>3, <3>1, <3>2
  <2> QED BY <1>3, <2>2, <2>4, <2>5, <2>6 DEF RemoteInv
<1> QED BY <1>4, <1>5

LEMMA HandleMetadataKeeps ==
  ASSUME RemoteInv, NEW p \in AllPeers, HandleMetadata(p)
  PROVE  RemoteInv'
<1> DEFINE md == Restricted(source, LinesOf(p, source))
<1>1. /\ p \in alive \ DOMAIN offers
      /\ offers' = Put(offers, p, md)
      /\ IF network = "sfu" THEN metadata' = md /\ Commit(SetMetadata(Now, md))
                            ELSE UNCHANGED <<metadata, tracks, streams>>
      /\ UNCHANGED <<network, nicknames, peers, receivers, alive, source, room>>
  BY DEF HandleMetadata
<1>2. /\ DOMAIN md = {line \in DOMAIN source : PeerOf(line) = p}
      /\ \A line \in DOMAIN md : md[line] = source[line]
      /\ IsMap(md, Lines, Owners)
  BY DEF Restricted, LinesOf, RemoteInv, TypeOK, IsMap
<1> HIDE DEF md
<1>3. /\ DOMAIN offers' = DOMAIN offers \cup {p}
      /\ \A q \in DOMAIN offers' : offers'[q] = IF q = p THEN md ELSE offers[q]
  BY <1>1 DEF Put
<1>4. /\ \A q \in DOMAIN offers' : IsMap(offers'[q], Lines, Owners)
      /\ LinesBelong'
  BY <1>1, <1>2, <1>3 DEF RemoteInv, TypeOK, LinesBelong
<1>5. CASE network = "sfu"
  <2>1. /\ Agree(SetMetadata(Now, md))
        /\ SetMetadata(Now, md).tracks =
             [line \in DOMAIN Now.tracks |-> Get(md, line, Unassociated)]
    BY <1>2, NowAgrees, SetMetadataAgrees
  <2>2. /\ tracks' = SetMetadata(Now, md).tracks
        /\ IsMap(tracks', Lines, Owners \cup {Unassociated})
        /\ streams' \subseteq (Users \cup {Server}) \X StreamIds \X Lines
        /\ OneStreamPerTrack'
    BY <1>1, <1>5, <2>1, Committed
  <2>3. /\ DOMAIN tracks' = DOMAIN tracks
        /\ \A line \in DOMAIN tracks :
             tracks'[line] = IF line \in DOMAIN md THEN md[line] ELSE Unassociated
    BY <2>1, <2>2, NowAgrees DEF Get
  <2>4. metadata' = md /\ p = Server
    BY <1>1, <1>5 DEF RemoteInv, NetworkDecides, TypeOK
  <2>5. TypeOK'
    BY <1>1, <1>2, <1>3, <1>4, <2>2, <2>4 DEF RemoteInv, TypeOK
  <2>6. Associations' /\ PlayingIsKnown'
    BY <1>1, <2>3, <2>4 DEF RemoteInv, Associations, PlayingIsKnown
  <2>7. NetworkDecides'
    BY <1>1, <1>3, <1>5, <2>4 DEF RemoteInv, NetworkDecides
  <2>8. PlayingIsAssociated'
    <3>1. \A line \in DOMAIN md : md[line] # Unassociated
      BY <1>2, OwnersAssociate DEF IsMap
    <3> QED BY <1>1, <1>5, <2>3, <2>4, <3>1 DEF RemoteInv, PlayingIsAssociated, PlayingIsKnown
  <2> QED BY <1>4, <2>2, <2>5, <2>6, <2>7, <2>8 DEF RemoteInv
<1>6. CASE network # "sfu"
  <2>1. UNCHANGED <<metadata, tracks, streams>>
    BY <1>1, <1>6
  <2>2. TypeOK'
    BY <1>1, <1>3, <1>4, <2>1 DEF RemoteInv, TypeOK
  <2>3. NetworkDecides'
    BY <1>1, <1>6, <2>1 DEF RemoteInv, NetworkDecides
  <2>4. OneStreamPerTrack' /\ Associations' /\ PlayingIsKnown' /\ PlayingIsAssociated'
    BY <1>1, <2>1 DEF RemoteInv, OneStreamPerTrack, Associations, PlayingIsKnown,
                      PlayingIsAssociated
  <2> QED BY <1>4, <2>2, <2>3, <2>4 DEF RemoteInv
<1> QED BY <1>5, <1>6

\* The track of a line that did not play begins to play.
LEMMA LineAdded ==
  ASSUME RemoteInv, NEW line \in Lines, NEW streamId \in StreamIds,
         line \in DOMAIN receivers => receivers[line].muted,
         Commit(AddTrack(Now, metadata, line, streamId))
  PROVE  /\ IsMap(tracks', Lines, Owners \cup {Unassociated})
         /\ streams' \subseteq (Users \cup {Server}) \X StreamIds \X Lines
         /\ OneStreamPerTrack'
         /\ tracks' = [l \in DOMAIN tracks \cup {line} |->
                         IF l = line THEN GetUserId(metadata, line, streamId) ELSE tracks[l]]
         /\ GetUserId(metadata, line, streamId) \in Owners
<1> DEFINE owner == [l \in {line} |-> GetUserId(metadata, line, streamId)]
<1>1. GetUserId(metadata, line, streamId) \in Owners
  BY RemoteStreamsAssumption DEF GetUserId, Get, RemoteInv, TypeOK, IsMap, Owners, PeerOf
<1>2. IsMap(owner, Lines, Owners) /\ DOMAIN owner = {line}
      /\ owner[line] = GetUserId(metadata, line, streamId)
  BY <1>1 DEF IsMap
<1>3. AddTrack(Now, metadata, line, streamId) = AddTracks(Now, owner)
  BY DEF AddTrack
<1> HIDE DEF owner
<1>4. Addable(Now, owner)
  BY <1>2, NowAgrees DEF Addable, RemoteInv, Associations, GetUserId, Get
<1>5. Agree(Now) /\ IsMap(owner, Lines, Owners) /\ Addable(Now, owner)
  BY <1>2, <1>4, NowAgrees
<1>6. /\ Agree(AddTracks(Now, owner))
      /\ AddTracks(Now, owner).tracks =
           [l \in DOMAIN Now.tracks \cup DOMAIN owner |->
              IF l \in DOMAIN owner THEN owner[l] ELSE Now.tracks[l]]
  BY <1>5, AddTracksAgrees
<1>7. Commit(AddTracks(Now, owner))
  BY <1>3
<1>8. /\ tracks' = AddTracks(Now, owner).tracks
      /\ IsMap(tracks', Lines, Owners \cup {Unassociated})
      /\ streams' \subseteq (Users \cup {Server}) \X StreamIds \X Lines
      /\ OneStreamPerTrack'
  BY <1>6, <1>7, Committed
<1>9. tracks' = [l \in DOMAIN tracks \cup {line} |->
                   IF l = line THEN GetUserId(metadata, line, streamId) ELSE tracks[l]]
  BY <1>2, <1>6, <1>8, NowAgrees
<1> QED BY <1>1, <1>8, <1>9

\* track.onmute
LEMMA LineMuted ==
  ASSUME RemoteInv, NEW line, OnMute(line)
  PROVE  /\ IsMap(tracks', Lines, Owners \cup {Unassociated})
         /\ streams' \subseteq (Users \cup {Server}) \X StreamIds \X Lines
         /\ OneStreamPerTrack'
         /\ tracks' = [l \in DOMAIN tracks |-> IF l = line THEN Unassociated ELSE tracks[l]]
<1>1. /\ Agree(RemoveTracks(Now, {line}))
      /\ RemoveTracks(Now, {line}).tracks =
           [l \in DOMAIN Now.tracks |-> IF l \in {line} THEN Unassociated ELSE Now.tracks[l]]
  BY NowAgrees, RemoveTracksAgrees
<1>2. Commit(RemoveTracks(Now, {line}))
  BY DEF OnMute
<1>3. /\ tracks' = RemoveTracks(Now, {line}).tracks
      /\ IsMap(tracks', Lines, Owners \cup {Unassociated})
      /\ streams' \subseteq (Users \cup {Server}) \X StreamIds \X Lines
      /\ OneStreamPerTrack'
  BY <1>1, <1>2, Committed
<1> QED BY <1>1, <1>3, NowAgrees

LEMMA HandleTrackKeeps ==
  ASSUME RemoteInv, NEW p \in AllPeers, NEW line \in Lines, NEW muted \in BOOLEAN,
         HandleTrack(p, line, muted)
  PROVE  RemoteInv'
<1> DEFINE streamId == offers[p][line].stream
<1>1. /\ p \in DOMAIN offers
      /\ line \in DOMAIN offers[p] \ DOMAIN receivers
      /\ receivers' = Put(receivers, line, [stream |-> streamId, muted |-> muted])
      /\ IF muted THEN UNCHANGED <<tracks, streams>>
                  ELSE Commit(AddTrack(Now, metadata, line, streamId))
      /\ UNCHANGED <<network, metadata, nicknames, peers, offers, alive, source,
                     room>>
  BY DEF HandleTrack
<1>2. streamId \in StreamIds /\ PeerOf(line) = p /\ p \in peers
  BY <1>1 DEF RemoteInv, TypeOK, IsMap, Owners, LinesBelong
<1> HIDE DEF streamId
<1>3. /\ DOMAIN receivers' = DOMAIN receivers \cup {line}
      /\ receivers'[line].stream = streamId /\ receivers'[line].muted = muted
      /\ \A l \in DOMAIN receivers : receivers'[l] = receivers[l]
      /\ IsMap(receivers', Lines, [stream : StreamIds, muted : BOOLEAN])
  BY <1>1, <1>2 DEF Put, RemoteInv, TypeOK, IsMap
<1>4. NetworkDecides' /\ LinesBelong'
  BY <1>1, <1>2, <1>3 DEF RemoteInv, NetworkDecides, LinesBelong
<1>5. CASE muted
  <2>1. UNCHANGED <<tracks, streams>>
    BY <1>1, <1>5
  <2>2. TypeOK'
    BY <1>1, <1>3, <2>1 DEF RemoteInv, TypeOK
  <2>3. OneStreamPerTrack'
    BY <2>1 DEF RemoteInv, OneStreamPerTrack
  <2>4. Associations'
    BY <1>1, <1>3, <2>1 DEF RemoteInv, Associations
  <2>5. PlayingIsKnown' /\ PlayingIsAssociated'
    BY <1>1, <1>3, <1>5, <2>1 DEF RemoteInv, PlayingIsKnown, PlayingIsAssociated
  <2> QED BY <1>4, <2>2, <2>3, <2>4, <2>5 DEF RemoteInv
<1>6. CASE ~muted
  <2>1. /\ IsMap(tracks', Lines, Owners \cup {Unassociated})
        /\ streams' \subseteq (Users \cup {Server}) \X StreamIds \X Lines
        /\ OneStreamPerTrack'
        /\ tracks' = [l \in DOMAIN tracks \cup {line} |->
                        IF l = line THEN GetUserId(metadata, line, streamId) ELSE tracks[l]]
        /\ GetUserId(metadata, line, streamId) \in Owners
    BY <1>1, <1>2, <1>6, LineAdded
  <2>2. TypeOK'
    BY <1>1, <1>3, <2>1 DEF RemoteInv, TypeOK
  <2>3. Associations' /\ PlayingIsKnown'
    BY <1>1, <1>3, <1>6, <2>1 DEF RemoteInv, Associations, PlayingIsKnown, GetUserId, Get
  <2>4. PlayingIsAssociated'
    BY <1>1, <1>3, <2>1, OwnersAssociate DEF RemoteInv, PlayingIsAssociated
  <2> QED BY <1>4, <2>1, <2>2, <2>3, <2>4 DEF RemoteInv
<1> QED BY <1>5, <1>6

LEMMA UnmuteKeeps ==
  ASSUME RemoteInv, NEW line \in Lines, Unmute(line)
  PROVE  RemoteInv'
<1> DEFINE streamId == receivers[line].stream
<1>1. /\ line \in DOMAIN receivers
      /\ receivers[line].muted
      /\ receivers' = [receivers EXCEPT ![line].muted = FALSE]
      /\ Commit(AddTrack(Now, metadata, line, streamId))
      /\ UNCHANGED <<network, metadata, nicknames, peers, offers, alive, source,
                     room>>
  BY DEF Unmute
<1>2. streamId \in StreamIds
  BY <1>1 DEF RemoteInv, TypeOK, IsMap
<1>3. /\ DOMAIN receivers' = DOMAIN receivers
      /\ receivers'[line].stream = streamId /\ ~receivers'[line].muted
      /\ \A l \in DOMAIN receivers \ {line} : receivers'[l] = receivers[l]
      /\ IsMap(receivers', Lines, [stream : StreamIds, muted : BOOLEAN])
  BY <1>1, <1>2 DEF RemoteInv, TypeOK, IsMap
<1> HIDE DEF streamId
<1>4. /\ IsMap(tracks', Lines, Owners \cup {Unassociated})
      /\ streams' \subseteq (Users \cup {Server}) \X StreamIds \X Lines
      /\ OneStreamPerTrack'
      /\ tracks' = [l \in DOMAIN tracks \cup {line} |->
                      IF l = line THEN GetUserId(metadata, line, streamId) ELSE tracks[l]]
      /\ GetUserId(metadata, line, streamId) \in Owners
  BY <1>1, <1>2, LineAdded
<1>5. NetworkDecides' /\ LinesBelong'
  BY <1>1, <1>3 DEF RemoteInv, NetworkDecides, LinesBelong
<1>6. TypeOK'
  BY <1>1, <1>3, <1>4 DEF RemoteInv, TypeOK
<1>7. Associations' /\ PlayingIsKnown'
  BY <1>1, <1>3, <1>4 DEF RemoteInv, Associations, PlayingIsKnown, GetUserId, Get
<1>8. PlayingIsAssociated'
  BY <1>1, <1>3, <1>4, OwnersAssociate DEF RemoteInv, PlayingIsAssociated
<1> QED BY <1>4, <1>5, <1>6, <1>7, <1>8 DEF RemoteInv

LEMMA MuteKeeps ==
  ASSUME RemoteInv, NEW line \in Lines, Mute(line)
  PROVE  RemoteInv'
<1>1. /\ line \in DOMAIN receivers
      /\ receivers' = [receivers EXCEPT ![line].muted = TRUE]
      /\ OnMute(line)
      /\ UNCHANGED <<network, metadata, nicknames, peers, offers, alive, source,
                     room>>
  BY DEF Mute
<1>2. /\ DOMAIN receivers' = DOMAIN receivers
      /\ receivers'[line].muted
      /\ \A l \in DOMAIN receivers \ {line} : receivers'[l] = receivers[l]
      /\ IsMap(receivers', Lines, [stream : StreamIds, muted : BOOLEAN])
  BY <1>1 DEF RemoteInv, TypeOK, IsMap
<1>3. /\ IsMap(tracks', Lines, Owners \cup {Unassociated})
      /\ streams' \subseteq (Users \cup {Server}) \X StreamIds \X Lines
      /\ OneStreamPerTrack'
      /\ tracks' = [l \in DOMAIN tracks |-> IF l = line THEN Unassociated ELSE tracks[l]]
  BY <1>1, LineMuted
<1>4. NetworkDecides' /\ LinesBelong'
  BY <1>1, <1>2 DEF RemoteInv, NetworkDecides, LinesBelong
<1>5. TypeOK'
  BY <1>1, <1>2, <1>3 DEF RemoteInv, TypeOK
<1>6. Associations' /\ PlayingIsKnown' /\ PlayingIsAssociated'
  BY <1>1, <1>2, <1>3 DEF RemoteInv, Associations, PlayingIsKnown, PlayingIsAssociated
<1> QED BY <1>3, <1>4, <1>5, <1>6 DEF RemoteInv

LEMMA TrackEndsKeeps ==
  ASSUME RemoteInv, NEW p \in AllPeers, NEW line \in Lines, TrackEnds(p, line)
  PROVE  RemoteInv'
<1>1. /\ line \in DOMAIN receivers
      /\ receivers' = Delete(receivers, line)
      /\ IF receivers[line].muted THEN UNCHANGED <<tracks, streams>> ELSE OnMute(line)
      /\ UNCHANGED <<network, metadata, nicknames, peers, offers, alive, source,
                     room>>
  BY DEF TrackEnds, LinesOf
<1>2. /\ DOMAIN receivers' = DOMAIN receivers \ {line}
      /\ \A l \in DOMAIN receivers \ {line} : receivers'[l] = receivers[l]
      /\ IsMap(receivers', Lines, [stream : StreamIds, muted : BOOLEAN])
  BY <1>1 DEF RemoteInv, TypeOK, IsMap, Delete
<1>3. NetworkDecides' /\ LinesBelong'
  BY <1>1, <1>2 DEF RemoteInv, NetworkDecides, LinesBelong
<1>4. CASE receivers[line].muted
  <2>1. UNCHANGED <<tracks, streams>>
    BY <1>1, <1>4
  <2>2. TypeOK'
    BY <1>1, <1>2, <2>1 DEF RemoteInv, TypeOK
  <2>3. OneStreamPerTrack' /\ Associations' /\ PlayingIsKnown' /\ PlayingIsAssociated'
    BY <1>1, <1>2, <1>4, <2>1 DEF RemoteInv, OneStreamPerTrack, Associations,
                                  PlayingIsKnown, PlayingIsAssociated
  <2> QED BY <1>3, <2>2, <2>3 DEF RemoteInv
<1>5. CASE ~receivers[line].muted
  <2>1. /\ IsMap(tracks', Lines, Owners \cup {Unassociated})
        /\ streams' \subseteq (Users \cup {Server}) \X StreamIds \X Lines
        /\ OneStreamPerTrack'
        /\ tracks' = [l \in DOMAIN tracks |-> IF l = line THEN Unassociated ELSE tracks[l]]
    BY <1>1, <1>5, LineMuted
  <2>2. TypeOK'
    BY <1>1, <1>2, <2>1 DEF RemoteInv, TypeOK
  <2>3. Associations' /\ PlayingIsKnown' /\ PlayingIsAssociated'
    BY <1>1, <1>2, <2>1 DEF RemoteInv, Associations, PlayingIsKnown, PlayingIsAssociated
  <2> QED BY <1>3, <2>1, <2>2, <2>3 DEF RemoteInv
<1> QED BY <1>4, <1>5

LEMMA OfferAppliedKeeps ==
  ASSUME RemoteInv, NEW p \in AllPeers, OfferApplied(p)
  PROVE  RemoteInv'
<1>1. /\ DOMAIN offers' = DOMAIN offers \ {p}
      /\ \A q \in DOMAIN offers' : offers'[q] = offers[q]
      /\ UNCHANGED <<metadata, tracks, streams, nicknames, peers, network,
                     receivers, alive, source, room>>
  BY DEF OfferApplied, Delete, store
<1>2. TypeOK'
  BY <1>1 DEF RemoteInv, TypeOK
<1>3. NetworkDecides' /\ LinesBelong'
  BY <1>1 DEF RemoteInv, NetworkDecides, LinesBelong
<1>4. OneStreamPerTrack' /\ Associations' /\ PlayingIsKnown' /\ PlayingIsAssociated'
  BY <1>1 DEF RemoteInv, OneStreamPerTrack, Associations, PlayingIsKnown, PlayingIsAssociated
<1> QED BY <1>2, <1>3, <1>4 DEF RemoteInv

LEMMA HandleCloseKeeps ==
  ASSUME RemoteInv, NEW p \in AllPeers, HandleClose(p)
  PROVE  RemoteInv'
<1>1. /\ peers' = peers \ {p}
      /\ alive' = alive \ {p}
      /\ nicknames' = nicknames \ {p}
      /\ Commit(RemovePeer(Now, p))
      /\ receivers' = [line \in {l \in DOMAIN receivers : PeerOf(l) # p} |-> receivers[line]]
      /\ offers' = [q \in DOMAIN offers \ {p} |-> offers[q]]
      /\ source' = [line \in {l \in DOMAIN source : PeerOf(l) # p} |-> source[line]]
      /\ UNCHANGED <<network, metadata, room>>
  BY DEF HandleClose, Restricted, LinesOf, Delete
<1>2. /\ Agree(RemovePeer(Now, p))
      /\ RemovePeer(Now, p).tracks =
           [line \in {l \in DOMAIN Now.tracks : PeerOf(l) # p} |-> Now.tracks[line]]
  BY NowAgrees, RemovePeerAgrees
<1>3. /\ tracks' = RemovePeer(Now, p).tracks
      /\ IsMap(tracks', Lines, Owners \cup {Unassociated})
      /\ streams' \subseteq (Users \cup {Server}) \X StreamIds \X Lines
      /\ OneStreamPerTrack'
  BY <1>1, <1>2, Committed
<1>4. tracks' = [line \in {l \in DOMAIN tracks : PeerOf(l) # p} |-> tracks[line]]
  BY <1>2, <1>3, NowAgrees
<1>5. /\ IsMap(receivers', Lines, [stream : StreamIds, muted : BOOLEAN])
      /\ IsMap(source', Lines, Owners)
  BY <1>1 DEF RemoteInv, TypeOK, IsMap
<1>6. TypeOK'
  BY <1>1, <1>3, <1>5 DEF RemoteInv, TypeOK
<1>7. Associations' /\ LinesBelong' /\ PlayingIsKnown'
  BY <1>1, <1>4 DEF RemoteInv, Associations, LinesBelong, PlayingIsKnown
<1>8. NetworkDecides'
  BY <1>1 DEF RemoteInv, NetworkDecides
<1>9. PlayingIsAssociated'
  BY <1>1, <1>4 DEF RemoteInv, PlayingIsAssociated
<1> QED BY <1>3, <1>6, <1>7, <1>8, <1>9 DEF RemoteInv

LEMMA HangUpKeeps ==
  ASSUME RemoteInv, HangUp
  PROVE  RemoteInv'
<1>1. /\ DOMAIN metadata' = {} /\ DOMAIN tracks' = {} /\ streams' = {}
      /\ nicknames' \subseteq {ME} /\ peers' = {} /\ DOMAIN receivers' = {}
      /\ DOMAIN offers' = {} /\ alive' = {} /\ DOMAIN source' = {} /\ room' = {}
      /\ UNCHANGED network
  BY DEF HangUp, Commit, State, EmptyMap
<1>2. /\ IsMap(metadata', Lines, Owners)
      /\ IsMap(tracks', Lines, Owners \cup {Unassociated})
      /\ IsMap(receivers', Lines, [stream : StreamIds, muted : BOOLEAN])
      /\ IsMap(source', Lines, Owners)
  BY DEF HangUp, Commit, State, EmptyMap, IsMap
<1>3. TypeOK'
  BY <1>1, <1>2 DEF RemoteInv, TypeOK
<1>4. OneStreamPerTrack'
  BY <1>1 DEF OneStreamPerTrack
<1>5. Associations' /\ NetworkDecides' /\ LinesBelong' /\ PlayingIsKnown' /\ PlayingIsAssociated'
  BY <1>1 DEF Associations, NetworkDecides, LinesBelong, PlayingIsKnown, PlayingIsAssociated
<1> QED BY <1>3, <1>4, <1>5 DEF RemoteInv

LEMMA PublishKeeps ==
  ASSUME RemoteInv, NEW line \in Lines, NEW u \in Users, NEW s \in StreamIds,
         Publish(line, u, s)
  PROVE  RemoteInv'
<1>1. /\ PeerOf(line) \in alive \cap {Server, u}
      /\ line \in DOMAIN metadata => metadata[line].stream # s
      /\ source' = Put(source, line, [user |-> u, stream |-> s])
      /\ UNCHANGED <<metadata, tracks, streams, nicknames, peers, network,
                     receivers, offers, alive, room>>
  BY DEF Publish, store, Get
<1>2. /\ DOMAIN source' = DOMAIN source \cup {line}
      /\ source'[line] = [user |-> u, stream |-> s]
      /\ \A l \in DOMAIN source \ {line} : source'[l] = source[l]
      /\ IsMap(source', Lines, Owners)
  BY <1>1 DEF Put, RemoteInv, TypeOK, IsMap, Owners
<1>3. TypeOK'
  BY <1>1, <1>2 DEF RemoteInv, TypeOK
<1>4. NetworkDecides'
  BY <1>1, <1>2, RemoteStreamsAssumption DEF RemoteInv, NetworkDecides, TypeOK
<1>5. OneStreamPerTrack' /\ Associations' /\ LinesBelong' /\ PlayingIsKnown'
  BY <1>1 DEF RemoteInv, OneStreamPerTrack, Associations, LinesBelong, PlayingIsKnown
<1>6. PlayingIsAssociated'
  BY <1>1, <1>2 DEF RemoteInv, PlayingIsAssociated
<1> QED BY <1>3, <1>4, <1>5, <1>6 DEF RemoteInv

LEMMA UnpublishKeeps ==
  ASSUME RemoteInv, NEW line \in Lines, Unpublish(line)
  PROVE  RemoteInv'
<1>1. /\ DOMAIN source' = DOMAIN source \ {line}
      /\ \A l \in DOMAIN source' : source'[l] = source[l]
      /\ IsMap(source', Lines, Owners)
      /\ UNCHANGED <<metadata, tracks, streams, nicknames, peers, network,
                     receivers, offers, alive, room>>
  BY DEF Unpublish, Delete, store, RemoteInv, TypeOK, IsMap
<1>2. TypeOK'
  BY <1>1 DEF RemoteInv, TypeOK
<1>3. NetworkDecides'
  BY <1>1 DEF RemoteInv, NetworkDecides
<1>4. OneStreamPerTrack' /\ Associations' /\ LinesBelong' /\ PlayingIsKnown'
  BY <1>1 DEF RemoteInv, OneStreamPerTrack, Associations, LinesBelong, PlayingIsKnown
<1>5. PlayingIsAssociated'
  BY <1>1 DEF RemoteInv, PlayingIsAssociated
<1> QED BY <1>2, <1>3, <1>4, <1>5 DEF RemoteInv

LEMMA RemoteInvInit == Init => RemoteInv
<1> SUFFICES ASSUME Init PROVE RemoteInv
  OBVIOUS
<1>1. TypeOK
  BY DEF Init, TypeOK, IsMap, EmptyMap
<1>2. OneStreamPerTrack
  BY DEF Init, OneStreamPerTrack, EmptyMap
<1>3. Associations /\ NetworkDecides /\ LinesBelong /\ PlayingIsKnown /\ PlayingIsAssociated
  BY DEF Init, EmptyMap, Associations, NetworkDecides, LinesBelong, PlayingIsKnown,
         PlayingIsAssociated
<1> QED BY <1>1, <1>2, <1>3 DEF RemoteInv

LEMMA RemoteInvNext == RemoteInv /\ [Next]_vars => RemoteInv'
<1> SUFFICES ASSUME RemoteInv, [Next]_vars PROVE RemoteInv'
  OBVIOUS
<1>1. CASE \E u \in Users : HandleUsers(u) \/ HandleHangUp(u)
  BY <1>1, HandleUsersKeeps, HandleHangUpKeeps
<1>2. CASE \E p \in AllPeers : HandleMetadata(p) \/ OfferApplied(p) \/ HandleClose(p)
  BY <1>2, HandleMetadataKeeps, OfferAppliedKeeps, HandleCloseKeeps
<1>3. CASE \E p \in AllPeers, line \in Lines :
             TrackEnds(p, line) \/ \E muted \in BOOLEAN : HandleTrack(p, line, muted)
  BY <1>3, TrackEndsKeeps, HandleTrackKeeps
<1>4. CASE \E line \in Lines : Mute(line) \/ Unmute(line) \/ Unpublish(line)
  BY <1>4, MuteKeeps, UnmuteKeeps, UnpublishKeeps
<1>5. CASE \E line \in Lines, u \in Users, s \in StreamIds : Publish(line, u, s)
  BY <1>5, PublishKeeps
<1>6. CASE HangUp
  BY <1>6, HangUpKeeps
<1>7. CASE UNCHANGED vars
  <2>1. UNCHANGED <<metadata, tracks, streams, nicknames, peers, network, receivers,
                    offers, alive, source, room>>
    BY <1>7 DEF vars, store, world
  <2>2. TypeOK'
    BY <2>1 DEF RemoteInv, TypeOK
  <2>3. NetworkDecides' /\ LinesBelong'
    BY <2>1 DEF RemoteInv, NetworkDecides, LinesBelong
  <2>4. OneStreamPerTrack' /\ Associations' /\ PlayingIsKnown' /\ PlayingIsAssociated'
    BY <2>1 DEF RemoteInv, OneStreamPerTrack, Associations, PlayingIsKnown, PlayingIsAssociated
  <2> QED BY <2>2, <2>3, <2>4 DEF RemoteInv
<1> QED BY <1>1, <1>2, <1>3, <1>4, <1>5, <1>6, <1>7 DEF Next, AllPeers

-----------------------------------------------------------------------------
(* What follows from the invariant *)

LEMMA RemoteCorrect == Spec => []RemoteInv
BY RemoteInvInit, RemoteInvNext, PTL DEF Spec

(***************************************************************************)
(* The store is well formed, its two tables of tracks agree, and a track   *)
(* belongs to whom the last metadata says, in whatever order the browser's *)
(* and the server's events are handled by the reducers.                    *)
(***************************************************************************)
THEOREM StoreIsConsistent == Spec => []StoreInv
<1>1. RemoteInv => StoreInv
  BY DEF RemoteInv, StoreInv, OwnerIsMetadata, Associations
<1> QED BY <1>1, RemoteCorrect, PTL

(***************************************************************************)
(* A track that plays is in one stream, the one of its sender, also after  *)
(* the sender has left and joined again or the line has changed hands.     *)
(***************************************************************************)
THEOREM PlayingTracksAreShown == Spec => []PlayingIsShown
<1>1. RemoteInv => PlayingIsShown
  <2> DEFINE owner(line) == IF network = "sfu" THEN source[line]
                            ELSE [user |-> PeerOf(line), stream |-> receivers[line].stream]
  <2> SUFFICES ASSUME RemoteInv, NEW line \in DOMAIN receivers \cap DOMAIN source,
                      ~receivers[line].muted, owner(line).user \in nicknames,
                      network = "sfu" => Get(metadata, line, Unassociated) = source[line]
               PROVE  /\ {x \in streams : x[3] = line} =
                           {<<owner(line).user, owner(line).stream, line>>}
                      /\ <<owner(line).user, owner(line).stream>> \in Videos
    BY DEF PlayingIsShown
  <2>1. line \in DOMAIN tracks /\ tracks[line] # Unassociated /\ tracks[line] = owner(line)
    <3>1. CASE network = "sfu"
      <4>1. source[line] # Unassociated
        BY OwnersAssociate DEF RemoteInv, TypeOK, IsMap
      <4>2. line \in DOMAIN metadata /\ metadata[line] = source[line]
        BY <3>1, <4>1 DEF Get
      <4> QED BY <3>1, <4>2 DEF RemoteInv, PlayingIsAssociated, Associations
    <3>2. CASE network # "sfu"
      <4>1. PeerOf(line) \in alive /\ line \notin DOMAIN metadata
        BY <3>2 DEF RemoteInv, NetworkDecides
      <4> QED BY <3>2, <4>1 DEF RemoteInv, PlayingIsAssociated, Associations
    <3> QED BY <3>1, <3>2
  <2> HIDE DEF owner
  <2>2. Entry(line, tracks[line]) \in streams
    BY <2>1, NowAgrees DEF Agree
  <2>3. ASSUME NEW x \in streams, x[3] = line PROVE x = Entry(line, tracks[line])
    <3>1. PICK l \in DOMAIN tracks : tracks[l] # Unassociated /\ x = Entry(l, tracks[l])
      BY NowAgrees DEF Agree
    <3>2. l = line
      BY <2>3, <3>1 DEF Entry
    <3> QED BY <3>1, <3>2
  <2>4. Entry(line, tracks[line])[3] = line
    BY DEF Entry
  <2>5. {x \in streams : x[3] = line} = {Entry(line, tracks[line])}
    BY <2>2, <2>3, <2>4
  <2>6. \A x \in streams : x[1] \in nicknames => <<x[1], x[2]>> \in Videos
    BY DEF Videos
  <2>7. <<owner(line).user, owner(line).stream>> \in Videos
    <3>1. Entry(line, tracks[line])[1] = owner(line).user
          /\ Entry(line, tracks[line])[2] = owner(line).stream
      BY <2>1 DEF Entry
    <3> QED BY <2>2, <2>6, <3>1
  <2> QED BY <2>1, <2>5, <2>7 DEF Entry
<1> QED BY <1>1, RemoteCorrect, PTL

(***************************************************************************)
(* When the last line of an offer is in place, no track is shown that the  *)
(* offer did not have.                                                     *)
(***************************************************************************)
THEOREM NoGhosts == Spec => NoGhostAfterOffer
<1> DEFINE Ghostless ==
             \A p \in DOMAIN offers \ DOMAIN offers' : p \in peers' =>
               \A x \in streams' : PeerOf(x[3]) = p => x[3] \in DOMAIN offers[p]
<1>1. RemoteInv /\ [Next]_vars => [Ghostless]_vars
  <2> SUFFICES ASSUME RemoteInv, Next,
                      NEW p \in DOMAIN offers \ DOMAIN offers', p \in peers'
               PROVE  \A x \in streams' : PeerOf(x[3]) = p => x[3] \in DOMAIN offers[p]
    OBVIOUS
  <2>1. OfferApplied(p)
    BY DEF Next, HandleUsers, HandleHangUp, HandleMetadata, OfferApplied, HandleClose,
           TrackEnds, HandleTrack, Mute, Unmute, Unpublish, Publish, HangUp,
           Put, Delete, world
  <2>2. LinesOf(p, receivers) = DOMAIN offers[p] /\ streams' = streams
    BY <2>1 DEF OfferApplied, store
  <2>3. ASSUME NEW x \in streams, PeerOf(x[3]) = p PROVE x[3] \in DOMAIN offers[p]
    <3>1. PICK l \in DOMAIN tracks : tracks[l] # Unassociated /\ x = Entry(l, tracks[l])
      BY NowAgrees DEF Agree
    <3>2. x[3] = l
      BY <3>1 DEF Entry
    <3>3. CASE l \in DOMAIN metadata
      <4>1. network = "sfu" /\ p = Server
        BY <3>3 DEF RemoteInv, NetworkDecides, TypeOK
      <4> QED BY <3>2, <3>3, <4>1 DEF RemoteInv, NetworkDecides
    <3>4. CASE l \notin DOMAIN metadata
      BY <2>2, <2>3, <3>1, <3>2, <3>4 DEF RemoteInv, Associations, LinesOf
    <3> QED BY <3>3, <3>4
  <2> QED BY <2>2, <2>3
<1> QED BY <1>1, RemoteCorrect, PTL DEF Spec, NoGhostAfterOffer
=============================================================================
