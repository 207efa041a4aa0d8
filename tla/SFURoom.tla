------------------------------ MODULE SFURoom ------------------------------
(***************************************************************************)
(* One room of the SFU: the SocketHandlers of its clients (server/sfu.go), *)
(* the MemoryTracksManager and the RoomPeersManagers that it creates for   *)
(* the room (server/tracksmanager.go), and the tracks of every transport   *)
(* (server/webrtctransport.go).                                            *)
(*                                                                         *)
(* A client may hang up and be ready again; each time it gets a new        *)
(* transport, while the goroutines of the old one still end.  A step is a  *)
(* critical section of RoomPeersManager.mu or MemoryTracksManager.mu.      *)
(* The signalling of a transport is in Signalling, its channels are in     *)
(* Transport.                                                              *)
(***************************************************************************)
EXTENDS Naturals, GoMaps

CONSTANTS
  Clients,
  Media,     \* the tracks that one transport may send
  Senders,   \* the clients that send tracks; the others only watch
  Rejoiners, \* bound: the clients that may hang up and be ready again
  MaxReady   \* bound: how often a rejoiner is ready

ASSUME ReadyAssumption ==
  /\ MaxReady \in Nat \ {0}
  /\ Rejoiners \subseteq Clients /\ Senders \subseteq Clients

Transports == Clients \X {1} \cup Rejoiners \X (1..MaxReady)

Client(x) == x[1]

SSRCs == {x \in Transports : Client(x) \in Senders} \X Media
Source(s) == s[1]

NoManager == <<>>
NoTransport == <<>>

\* A RoomPeersManager is named by the transport it was created for.
Managers == Transports

VARIABLES
  manager,      \* MemoryTracksManager.roomPeersManager of the room
  transports,   \* RoomPeersManager.transports of every manager
  clientBySSRC, \* RoomPeersManager.clientIDBySSRC of every manager
  webRTCTransport, \* SocketHandler.webRTCTransport of every client
  readies,      \* how often each client was ready
  state,        \* of every transport: "new", "open", "closed"
  home,         \* the manager that every transport was added to
  removed,      \* the transports whose Remove has run
  track,        \* where handleTrack is for every track
  localTracks,  \* the keys of WebRTCTransport.localTracks of every transport
  senders,      \* how many RTPSenders its connection has for every track
  early         \* history: the tracks that Add gave it before addTrack had seen them

vars == <<manager, transports, clientBySSRC, webRTCTransport, readies, state, home,
          removed, track, localTracks, senders, early>>

Init ==
  /\ manager = NoManager
  /\ transports = [m \in Managers |-> EmptyMap]
  /\ clientBySSRC = [m \in Managers |-> EmptyMap]
  /\ webRTCTransport = [c \in Clients |-> NoTransport]
  /\ readies = [c \in Clients |-> 0]
  /\ state = [x \in Transports |-> "new"]
  /\ home = [x \in Transports |-> NoManager]
  /\ removed = {}
  /\ track = [s \in SSRCs |-> "new"]
  /\ localTracks = [x \in Transports |-> {}]
  /\ senders = [x \in Transports |-> [s \in SSRCs |-> 0]]
  /\ early = [x \in Transports |-> {}]

Members(m) == {transports[m][c] : c \in DOMAIN transports[m]}
OthersOf(m, c) == {transports[m][d] : d \in DOMAIN transports[m] \ {c}}

RemoteTracksPending(x) == {s \in SSRCs : Source(s) = x /\ track[s] = "adding"}
RemoteTracksForever(x) == {s \in SSRCs : Source(s) = x /\ track[s] # "new"}

\* WebRTCTransport.RemoteTracks
RemoteTracks(x) == {s \in SSRCs : Source(s) = x /\ track[s] \in {"adding", "live"}}

-----------------------------------------------------------------------------
(* SocketHandler and MemoryTracksManager *)

(***************************************************************************)
(* handleReady creates a transport; MemoryTracksManager.Add finds or makes *)
(* the manager of the room, and RoomPeersManager.Add gives the transport   *)
(* the remote tracks of the transports that are there.                     *)
(***************************************************************************)
Ready(c) ==
  LET x == <<c, readies[c] + 1>>
      m == IF manager = NoManager THEN x ELSE manager
      existing == UNION {RemoteTracks(y) : y \in Members(m)}
  IN  /\ webRTCTransport[c] = NoTransport
      /\ x \in Transports
      /\ readies' = [readies EXCEPT ![c] = @ + 1]
      /\ webRTCTransport' = [webRTCTransport EXCEPT ![c] = x]
      /\ manager' = m
      /\ home' = [home EXCEPT ![x] = m]
      /\ state' = [state EXCEPT ![x] = "open"]
      /\ transports' = [transports EXCEPT ![m] = Put(@, c, x)]
      /\ localTracks' = [localTracks EXCEPT ![x] = existing]
      /\ senders' = [senders EXCEPT ![x] = [s \in SSRCs |-> IF s \in existing THEN 1 ELSE 0]]
      /\ early' = [early EXCEPT ![x] = {s \in existing : track[s] = "adding"}]
      /\ UNCHANGED <<clientBySSRC, removed, track>>

\* A hang-up, a lost websocket (Cleanup) or a failed connection closes the transport.
Close(x) ==
  /\ state[x] = "open"
  /\ state' = [state EXCEPT ![x] = "closed"]
  /\ UNCHANGED <<manager, transports, clientBySSRC, webRTCTransport, readies, home,
                 removed, track, localTracks, senders, early>>

\* The end of processLocalSignals: the client may be ready again.
SignalsEnd(x) ==
  /\ state[x] = "closed"
  /\ webRTCTransport[Client(x)] = x
  /\ webRTCTransport' = [webRTCTransport EXCEPT ![Client(x)] = NoTransport]
  /\ UNCHANGED <<manager, transports, clientBySSRC, readies, state, home, removed,
                 track, localTracks, senders, early>>

\* A new websocket of the client has a SocketHandler of its own; the old one is cleaned
\* up later.
Reconnect(c) ==
  /\ webRTCTransport[c] # NoTransport
  /\ readies[c] < IF c \in Rejoiners THEN MaxReady ELSE 1
  /\ webRTCTransport' = [webRTCTransport EXCEPT ![c] = NoTransport]
  /\ UNCHANGED <<manager, transports, clientBySSRC, readies, state, home, removed,
                 track, localTracks, senders, early>>

RemoveRoomAlways(x) ==
  /\ state[x] = "closed" /\ x \notin removed
  /\ removed' = removed \cup {x}
  /\ transports' = [transports EXCEPT ![home[x]] = Delete(@, Client(x))]
  /\ manager' = NoManager
  /\ UNCHANGED <<clientBySSRC, webRTCTransport, readies, state, home, track, localTracks,
                 senders, early>>

RemoveChecksFirst(x) ==
  /\ state[x] = "closed" /\ x \notin removed
  /\ removed' = removed \cup {x}
  /\ transports' = [transports EXCEPT ![home[x]] = Delete(@, Client(x))]
  /\ manager' = IF DOMAIN transports[home[x]] = {} THEN NoManager ELSE manager
  /\ UNCHANGED <<clientBySSRC, webRTCTransport, readies, state, home, track, localTracks,
                 senders, early>>

(***************************************************************************)
(* The goroutine that MemoryTracksManager.Add starts.  It removes whatever *)
(* transport the client has in the manager, and the room if that was the   *)
(* manager's last transport.                                               *)
(***************************************************************************)
Remove(x) ==
  /\ state[x] = "closed" /\ x \notin removed
  /\ removed' = removed \cup {x}
  /\ transports' = [transports EXCEPT ![home[x]] = Delete(@, Client(x))]
  /\ manager' = IF DOMAIN transports'[home[x]] = {} THEN NoManager ELSE manager
  /\ UNCHANGED <<clientBySSRC, webRTCTransport, readies, state, home, track,
                 localTracks, senders, early>>

-----------------------------------------------------------------------------
(* Tracks.  AddTrack and RemoveTrack fail on a closed connection. *)

Open(X) == {x \in X : state[x] = "open"}

\* WebRTCTransport.AddTrack: always a new sender, which takes the place of an earlier
\* one of the same SSRC in the map.
AddTracks(X, s) ==
  /\ localTracks' = [x \in Transports |->
                      IF x \in Open(X) THEN localTracks[x] \cup {s} ELSE localTracks[x]]
  /\ senders' = [x \in Transports |->
                  IF x \in Open(X) THEN [senders[x] EXCEPT ![s] = @ + 1] ELSE senders[x]]

\* WebRTCTransport.RemoveTrack: the sender in the map, if there is one.
RemoveTracks(X, s) ==
  /\ localTracks' = [x \in Transports |->
                      IF x \in Open(X) THEN localTracks[x] \ {s} ELSE localTracks[x]]
  /\ senders' = [x \in Transports |->
                  IF x \in Open(X) /\ s \in localTracks[x]
                  THEN [senders[x] EXCEPT ![s] = @ - 1] ELSE senders[x]]

TrackTo(s, from, to) ==
  /\ track[s] = from
  /\ track' = [track EXCEPT ![s] = to]
  /\ UNCHANGED <<manager, transports, webRTCTransport, readies, state, home, removed,
                 early>>

\* handleTrack: addRemoteTrack, then an event for the manager.  pion may call it late.
HandleTrack(s) ==
  /\ state[Source(s)] # "new"
  /\ TrackTo(s, "new", "adding")
  /\ UNCHANGED <<clientBySSRC, localTracks, senders>>

\* The manager's goroutine has the event and waits for the lock; the reader may have
\* ended in the meantime.
AddHandled(s) ==
  \/ TrackTo(s, "adding", "live")
  \/ TrackTo(s, "addingEnded", "removing")

AddTrackOfTransport(s) ==
  LET x == Source(s) IN
  /\ AddHandled(s)
  /\ clientBySSRC' = [clientBySSRC EXCEPT ![home[x]] = Put(@, s, x)]
  /\ AddTracks(OthersOf(home[x], Client(x)), s)

\* RoomPeersManager.addTrack
AddTrack(s) ==
  LET x == Source(s) IN
  /\ AddHandled(s)
  /\ clientBySSRC' = [clientBySSRC EXCEPT ![home[x]] = Put(@, s, Client(x))]
  /\ AddTracks(OthersOf(home[x], Client(x)), s)

TrackEndsForgets(s) ==
  LET x == Source(s) IN
  /\ TrackTo(s, "live", "removing")
  /\ clientBySSRC' = [clientBySSRC EXCEPT ![home[x]] = Delete(@, s)]
  /\ UNCHANGED <<localTracks, senders>>

\* The reader of the track ends: removeRemoteTrack, then an event for the manager,
\* which may still have the first event to handle.
TrackEnds(s) ==
  /\ \/ TrackTo(s, "live", "removing")
     \/ TrackTo(s, "adding", "addingEnded")
  /\ UNCHANGED <<clientBySSRC, localTracks, senders>>

\* RoomPeersManager.removeTrack
RemoveTrack(s) ==
  LET x == Source(s) IN
  /\ TrackTo(s, "removing", "ended")
  /\ clientBySSRC' = [clientBySSRC EXCEPT ![home[x]] = Delete(@, s)]
  /\ RemoveTracks(OthersOf(home[x], Client(x)), s)

Next ==
  \/ \E c \in Clients : Ready(c) \/ Reconnect(c)
  \/ \E x \in Transports : Close(x) \/ SignalsEnd(x) \/ Remove(x)
  \/ \E s \in SSRCs : HandleTrack(s) \/ AddTrack(s) \/ TrackEnds(s) \/ RemoveTrack(s)

Spec == Init /\ [][Next]_vars

-----------------------------------------------------------------------------
(* Properties *)

\* The state is well formed.
TypeOK ==
  /\ manager \in Managers \cup {NoManager}
  /\ \A m \in Managers : /\ IsMap(transports[m], Clients, Transports)
                         /\ IsMap(clientBySSRC[m], SSRCs, Clients)
  /\ webRTCTransport \in [Clients -> Transports \cup {NoTransport}]
  /\ readies \in [Clients -> 0..MaxReady]
  /\ state \in [Transports -> {"new", "open", "closed"}]
  /\ home \in [Transports -> Managers \cup {NoManager}]
  /\ removed \subseteq Transports
  /\ track \in [SSRCs -> {"new", "adding", "addingEnded", "live", "removing", "ended"}]
  /\ localTracks \in [Transports -> SUBSET SSRCs]
  /\ senders \in [Transports -> [SSRCs -> Nat]]
  /\ early \in [Transports -> SUBSET SSRCs]

OtherClients(x, s) == Client(Source(s)) # Client(x)

(***************************************************************************)
(* Every member of a room has every track of the other members once the    *)
(* event of the track has been handled, in whatever order clients join,    *)
(* tracks start and events are handled.                                    *)
(***************************************************************************)
RoomConverges ==
  \A m \in Managers : \A x \in Open(Members(m)) : \A s \in SSRCs :
    Source(s) \in Members(m) /\ OtherClients(x, s) /\ track[s] = "live" =>
      s \in localTracks[x]

(***************************************************************************)
(* A track that has ended, and whose event has been handled, is forgotten  *)
(* by the open members of a room, and they have no sender left for it,     *)
(* with one exception: a client that joined between addRemoteTrack and     *)
(* addTrack was given the track twice, and RemoveTrack knows only the      *)
(* second sender.  It keeps the first, but never more than that one.       *)
(***************************************************************************)
NoGhostTracks ==
  \A m \in Managers : \A x \in Open(Members(m)) : \A s \in SSRCs :
    OtherClients(x, s) /\ track[s] = "ended" =>
      /\ s \notin localTracks[x]
      /\ senders[x][s] <= IF s \in early[x] THEN 1 ELSE 0

(***************************************************************************)
(* GetTracksMetadata names the owner of every track that it lists, until   *)
(* the track ends.  (Between addRemoteTrack and its event a client that    *)
(* joins is told of the track without its owner.)                          *)
(***************************************************************************)
MetadataNamesOwner ==
  \A m \in Managers : \A x \in Members(m) : \A s \in localTracks[x] :
    OtherClients(x, s) /\ track[s] \in {"live", "removing"} =>
      Get(clientBySSRC[m], s, "") = Client(Source(s))

(***************************************************************************)
(* As long as no client has been ready twice, the open transports are all  *)
(* in the one room that a new client would join.                           *)
(***************************************************************************)
OpenTransportsShareRoom ==
  (\A c \in Clients : readies[c] <= 1) =>
    \A x \in Transports : state[x] = "open" =>
      /\ manager # NoManager
      /\ Client(x) \in DOMAIN transports[manager]
      /\ transports[manager][Client(x)] = x

\* When every transport that there was has been removed, the room is gone.
RoomIsForgotten ==
  (\A x \in Transports : state[x] = "new" \/ x \in removed) => manager = NoManager

\* What the managers keep up between all critical sections: the tables are well
\* formed, open transports are in one room, and a room that all have left is gone.
RoomInv == TypeOK /\ OpenTransportsShareRoom /\ RoomIsForgotten
=============================================================================
