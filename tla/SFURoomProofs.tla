--------------------------- MODULE SFURoomProofs ---------------------------
(***************************************************************************)
(* Proofs about SFURoom for any number of clients, tracks and rejoins: the *)
(* members of a room come to have each other's tracks, an ended track is   *)
(* taken from all of them, the metadata names the owners, and a room that  *)
(* all have left is forgotten.                                             *)
(***************************************************************************)
EXTENDS SFURoom, TLAPS

Number(x) == x[2]

Started(x) == state[x] # "new"

\* TypeOK leaves open of which managers there are tables.
Tables == DOMAIN transports = Managers /\ DOMAIN clientBySSRC = Managers

\* The transports of a client are started one after the other, each in a room.
StartedInOrder ==
  \A x \in Transports : /\ Started(x) <=> Number(x) <= readies[Client(x)]
                        /\ Started(x) => home[x] \in Managers

\* A transport is in no room but its own, until it is removed.
Placed ==
  \A m \in Managers : \A c \in DOMAIN transports[m] :
    /\ Client(transports[m][c]) = c
    /\ home[transports[m][c]] = m
    /\ Started(transports[m][c])
    /\ transports[m][c] \notin removed

RemovedAreClosed == \A x \in removed : state[x] = "closed"

\* Only transports that were started send tracks.
SourcesStarted == \A s \in SSRCs : track[s] # "new" => Started(Source(s))

\* A transport is given tracks of its own room only.
TracksOfRoom ==
  \A x \in Transports : \A s \in localTracks[x] :
    track[s] # "new" /\ home[Source(s)] = home[x]

\* The room knows the owner of a track from addTrack to removeTrack.
OwnersKnown ==
  \A s \in SSRCs : track[s] \in {"live", "removing"} =>
    /\ s \in DOMAIN clientBySSRC[home[Source(s)]]
    /\ clientBySSRC[home[Source(s)]][s] = Client(Source(s))

\* As long as no client has been ready twice, whoever was not removed is in the room.
FirstRoom ==
  (\A c \in Clients : readies[c] <= 1) =>
    \A x \in Transports : Started(x) /\ x \notin removed =>
      /\ manager # NoManager
      /\ home[x] = manager
      /\ Client(x) \in DOMAIN transports[manager]
      /\ transports[manager][Client(x)] = x

\* A track that was removed is not in the maps of the members.
EndedForgotten ==
  \A m \in Managers : \A x \in Open(Members(m)) : \A s \in localTracks[x] :
    OtherClients(x, s) => track[s] # "ended"

Pending(s) == track[s] \in {"adding", "addingEnded"}

\* A transport has one sender for a track in its map, and one more that the map has lost
\* if it was given the track before addTrack gave it once more.
SendersCounted ==
  \A x \in Transports : \A s \in SSRCs :
    /\ s \in localTracks[x] => senders[x][s] >= 1
    /\ senders[x][s] <= 2
    /\ s \notin localTracks[x] \/ s \notin early[x] => senders[x][s] <= 1
    /\ s \notin localTracks[x] /\ s \notin early[x] => senders[x][s] = 0
    /\ s \in localTracks[x] /\ Pending(s) => s \in early[x] /\ senders[x][s] = 1

RoomIndInv ==
  /\ TypeOK /\ Tables
  /\ StartedInOrder
  /\ Placed
  /\ RemovedAreClosed
  /\ SourcesStarted
  /\ TracksOfRoom
  /\ OwnersKnown
  /\ RoomConverges
  /\ EndedForgotten
  /\ SendersCounted
  /\ FirstRoom
  /\ RoomIsForgotten

-----------------------------------------------------------------------------
(* Transports and tracks *)

LEMMA TransportFacts ==
  /\ NoManager \notin Transports
  /\ NoTransport \notin Transports
  /\ \A x \in Transports : /\ Client(x) \in Clients
                           /\ Number(x) \in 1..MaxReady
                           /\ x = <<Client(x), Number(x)>>
<1>1. ASSUME NEW x \in Transports
      PROVE  Client(x) \in Clients /\ Number(x) \in 1..MaxReady /\ x = <<Client(x), Number(x)>>
  BY ReadyAssumption DEF Transports, Client, Number
<1>2. ASSUME <<>> \in Transports PROVE FALSE
  BY <1>1, <1>2
<1> QED BY <1>1, <1>2 DEF NoManager, NoTransport

LEMMA SourceFacts == \A s \in SSRCs : Source(s) \in Transports
BY DEF SSRCs, Source

\* A client and the number of its transport name it.
LEMMA SameTransport ==
  ASSUME NEW x \in Transports, NEW y \in Transports,
         Client(x) = Client(y), Number(x) = Number(y)
  PROVE  x = y
BY TransportFacts

\* The members of a room are its transports, one of each client.
LEMMA MemberFacts ==
  ASSUME RoomIndInv, NEW m \in Managers, NEW x \in Members(m)
  PROVE  /\ x \in Transports /\ home[x] = m /\ Started(x) /\ x \notin removed
         /\ Client(x) \in DOMAIN transports[m] /\ transports[m][Client(x)] = x
<1>1. PICK c \in DOMAIN transports[m] : x = transports[m][c]
  BY DEF Members
<1> QED BY <1>1 DEF RoomIndInv, Placed, TypeOK, IsMap

-----------------------------------------------------------------------------
(* The steps *)

LEMMA ReadyKeeps ==
  ASSUME RoomIndInv, NEW c \in Clients, Ready(c)
  PROVE  RoomIndInv'
<1> DEFINE x == <<c, readies[c] + 1>>
           m == IF manager = NoManager THEN x ELSE manager
           existing == UNION {RemoteTracks(y) : y \in Members(m)}
<1>1. /\ x \in Transports
      /\ readies' = [readies EXCEPT ![c] = @ + 1]
      /\ webRTCTransport' = [webRTCTransport EXCEPT ![c] = x]
      /\ manager' = m
      /\ home' = [home EXCEPT ![x] = m]
      /\ state' = [state EXCEPT ![x] = "open"]
      /\ transports' = [transports EXCEPT ![m] = Put(@, c, x)]
      /\ localTracks' = [localTracks EXCEPT ![x] = existing]
      /\ senders' = [senders EXCEPT ![x] = [s \in SSRCs |-> IF s \in existing THEN 1 ELSE 0]]
      /\ early' = [early EXCEPT ![x] = {s \in existing : track[s] = "adding"}]
      /\ UNCHANGED <<clientBySSRC, removed, track>>
  BY DEF Ready
<1>2. Client(x) = c /\ Number(x) = readies[c] + 1
  BY DEF Client, Number
<1>3. m \in Managers /\ (manager # NoManager => m = manager)
  BY <1>1 DEF RoomIndInv, TypeOK, Managers
<1>4. \A s : s \in existing <=>
        \E y \in Members(m) : s \in SSRCs /\ Source(s) = y /\ track[s] \in {"adding", "live"}
  BY DEF RemoteTracks
<1> HIDE DEF x, m, existing
<1>5. readies[c] \in Nat /\ readies'[c] = readies[c] + 1
      /\ \A d \in Clients \ {c} : readies'[d] = readies[d]
  BY <1>1 DEF RoomIndInv, TypeOK
<1>6. ~Started(x) /\ x \notin removed
  BY <1>1, <1>2, <1>5 DEF RoomIndInv, StartedInOrder, RemovedAreClosed, Started
<1>7. \A s \in SSRCs : Source(s) = x => track[s] = "new"
  BY <1>6 DEF RoomIndInv, SourcesStarted
<1>8. /\ state' \in [Transports -> {"new", "open", "closed"}]
      /\ state'[x] = "open" /\ home'[x] = m
      /\ \A y \in Transports \ {x} : state'[y] = state[y] /\ home'[y] = home[y]
  BY <1>1, <1>3 DEF RoomIndInv, TypeOK
<1>9. /\ DOMAIN transports' = Managers
      /\ DOMAIN transports'[m] = DOMAIN transports[m] \cup {c}
      /\ transports'[m][c] = x
      /\ \A d \in DOMAIN transports[m] \ {c} : transports'[m][d] = transports[m][d]
      /\ \A n \in Managers \ {m} : transports'[n] = transports[n]
      /\ \A n \in Managers : IsMap(transports'[n], Clients, Transports)
  BY <1>1, <1>3 DEF RoomIndInv, Tables, TypeOK, IsMap, Put
<1>10. /\ localTracks'[x] = existing
       /\ \A y \in Transports \ {x} : localTracks'[y] = localTracks[y]
       /\ localTracks' \in [Transports -> SUBSET SSRCs]
       /\ senders' \in [Transports -> [SSRCs -> Nat]]
       /\ early' \in [Transports -> SUBSET SSRCs]
  BY <1>1, <1>4 DEF RoomIndInv, TypeOK
<1>11. TypeOK' /\ Tables'
  <2>1. readies' \in [Clients -> 0..MaxReady]
    <3>1. readies[c] + 1 \in 0..MaxReady
      BY <1>1, <1>2, TransportFacts, ReadyAssumption
    <3> QED BY <1>1, <3>1 DEF RoomIndInv, TypeOK
  <2>2. manager' \in Managers /\ home' \in [Transports -> Managers \cup {NoManager}]
    BY <1>1, <1>3 DEF RoomIndInv, TypeOK
  <2>3. webRTCTransport' \in [Clients -> Transports \cup {NoTransport}]
    BY <1>1 DEF RoomIndInv, TypeOK
  <2> QED BY <1>1, <1>8, <1>9, <1>10, <2>1, <2>2, <2>3 DEF RoomIndInv, TypeOK, Tables
<1>12. StartedInOrder'
  <2> SUFFICES ASSUME NEW y \in Transports
               PROVE  /\ Started(y)' <=> Number(y) <= readies'[Client(y)]
                      /\ Started(y)' => home'[y] \in Managers
    BY DEF StartedInOrder
  <2>1. /\ Started(y) <=> Number(y) <= readies[Client(y)]
        /\ Started(y) => home[y] \in Managers
    BY DEF RoomIndInv, StartedInOrder
  <2>2. CASE y = x
    BY <1>2, <1>3, <1>5, <1>8, <2>2 DEF Started
  <2>3. CASE y # x /\ Client(y) # c
    <3>1. Client(y) \in Clients
      BY TransportFacts
    <3> QED BY <1>5, <1>8, <2>1, <2>3, <3>1 DEF Started
  <2>4. CASE y # x /\ Client(y) = c
    <3>1. Number(y) \in Nat /\ Number(y) # readies[c] + 1
      BY <1>1, <1>2, <2>4, SameTransport, TransportFacts, ReadyAssumption
    <3>2. Number(y) <= readies[c] <=> Number(y) <= readies[c] + 1
      BY <1>5, <3>1
    <3>3. Started(y)' <=> Started(y)
      BY <1>8, <2>4 DEF Started
    <3> QED BY <1>5, <1>8, <2>1, <2>4, <3>2, <3>3
  <2> QED BY <2>2, <2>3, <2>4
<1>13. Placed'
  <2> SUFFICES ASSUME NEW n \in Managers, NEW d \in DOMAIN transports'[n]
               PROVE  /\ Client(transports'[n][d]) = d
                      /\ home'[transports'[n][d]] = n
                      /\ state'[transports'[n][d]] # "new"
                      /\ transports'[n][d] \notin removed'
    BY DEF Placed, Started
  <2>1. CASE n = m /\ d = c
    BY <1>1, <1>2, <1>6, <1>8, <1>9, <2>1 DEF Started
  <2>2. CASE ~(n = m /\ d = c)
    <3>1. d \in DOMAIN transports[n] /\ transports'[n][d] = transports[n][d]
      BY <1>9, <2>2
    <3>2. /\ transports[n][d] \in Transports
          /\ Client(transports[n][d]) = d /\ home[transports[n][d]] = n
          /\ Started(transports[n][d]) /\ transports[n][d] \notin removed
      BY <3>1 DEF RoomIndInv, Placed, TypeOK, IsMap
    <3>3. transports[n][d] # x
      BY <1>6, <3>2
    <3> QED BY <1>1, <1>8, <3>1, <3>2, <3>3 DEF Started
  <2> QED BY <2>1, <2>2
<1>14. RemovedAreClosed'
  BY <1>1, <1>6, <1>8 DEF RoomIndInv, RemovedAreClosed, TypeOK
<1>15. SourcesStarted'
  BY <1>1, <1>7, <1>8, SourceFacts DEF RoomIndInv, SourcesStarted, Started
<1>16. TracksOfRoom'
  <2> SUFFICES ASSUME NEW y \in Transports, NEW s \in localTracks'[y]
               PROVE  track[s] # "new" /\ home'[Source(s)] = home'[y]
    BY <1>1 DEF TracksOfRoom
  <2>1. CASE y = x
    <3>1. s \in SSRCs /\ Source(s) \in Members(m) /\ track[s] # "new"
      BY <1>4, <1>10, <2>1
    <3>2. home[Source(s)] = m /\ Source(s) \in Transports \ {x}
      BY <1>3, <1>6, <3>1, MemberFacts
    <3> QED BY <1>8, <2>1, <3>1, <3>2
  <2>2. CASE y # x
    <3>1. s \in localTracks[y] /\ s \in SSRCs
      BY <1>10, <2>2
    <3>2. track[s] # "new" /\ home[Source(s)] = home[y]
      BY <3>1 DEF RoomIndInv, TracksOfRoom
    <3>3. Source(s) \in Transports \ {x}
      BY <1>7, <3>1, <3>2, SourceFacts
    <3> QED BY <1>8, <2>2, <3>2, <3>3
  <2> QED BY <2>1, <2>2
<1>17. OwnersKnown'
  BY <1>1, <1>7, <1>8, SourceFacts DEF RoomIndInv, OwnersKnown
<1>18. ASSUME NEW n \in Managers, NEW y \in Members(n)'
       PROVE  IF y = x THEN n = m ELSE y \in Members(n)
  <2>1. PICK d \in DOMAIN transports'[n] : y = transports'[n][d]
    BY DEF Members
  <2>2. CASE n = m /\ d = c
    BY <1>9, <2>1, <2>2
  <2>3. CASE ~(n = m /\ d = c)
    <3>1. d \in DOMAIN transports[n] /\ y = transports[n][d]
      BY <1>9, <2>1, <2>3
    <3>2. y \in Members(n)
      BY <3>1 DEF Members
    <3> QED BY <1>6, <3>2, MemberFacts
  <2> QED BY <2>2, <2>3
<1>19. RoomConverges'
  <2> SUFFICES ASSUME NEW n \in Managers, NEW y \in Members(n)', state'[y] = "open",
                      NEW s \in SSRCs, Source(s) \in Members(n)', OtherClients(y, s),
                      track[s] = "live"
               PROVE  s \in localTracks'[y]
    BY <1>1 DEF RoomConverges, Open, OtherClients
  <2>1. Source(s) \in Members(n)
    BY <1>7, <1>18
  <2>2. CASE y = x
    BY <1>4, <1>10, <1>18, <2>1, <2>2
  <2>3. CASE y # x
    <3>1. y \in Members(n) /\ y \in Transports
      BY <1>18, <2>3, MemberFacts
    <3>2. y \in Open(Members(n))
      BY <1>8, <2>3, <3>1 DEF Open
    <3> QED BY <1>10, <2>1, <2>3, <3>1, <3>2 DEF RoomIndInv, RoomConverges
  <2> QED BY <2>2, <2>3
<1>20. EndedForgotten'
  <2> SUFFICES ASSUME NEW n \in Managers, NEW y \in Members(n)', state'[y] = "open",
                      NEW s \in localTracks'[y], OtherClients(y, s)
               PROVE  track[s] # "ended"
    BY <1>1 DEF EndedForgotten, Open, OtherClients
  <2>1. CASE y = x
    BY <1>4, <1>10, <2>1
  <2>2. CASE y # x
    <3>1. y \in Members(n) /\ y \in Transports
      BY <1>18, <2>2, MemberFacts
    <3>2. y \in Open(Members(n))
      BY <1>8, <2>2, <3>1 DEF Open
    <3> QED BY <1>10, <2>2, <3>1, <3>2 DEF RoomIndInv, EndedForgotten
  <2> QED BY <2>1, <2>2
<1>21. FirstRoom'
  <2> SUFFICES ASSUME \A d \in Clients : readies'[d] <= 1,
                      NEW y \in Transports, Started(y)', y \notin removed
               PROVE  /\ m # NoManager
                      /\ home'[y] = m
                      /\ Client(y) \in DOMAIN transports'[m]
                      /\ transports'[m][Client(y)] = y
    BY <1>1 DEF FirstRoom
  <2>1. m # NoManager
    BY <1>3, TransportFacts DEF Managers
  <2>2. CASE y = x
    BY <1>2, <1>8, <1>9, <2>1, <2>2
  <2>3. CASE y # x
    <3>1. readies[c] = 0 /\ \A d \in Clients : readies[d] <= 1
      <4>1. readies[c] + 1 <= 1
        BY <1>5
      <4>2. readies[c] = 0
        BY <1>5, <4>1
      <4> QED BY <1>5, <4>2
    <3>2. Started(y)
      BY <1>8, <2>3 DEF Started
    <3>3. Client(y) # c
      <4>1. Number(y) \in Nat \ {0} /\ Number(y) <= readies[Client(y)]
        BY <3>2, TransportFacts, ReadyAssumption DEF RoomIndInv, StartedInOrder
      <4> QED BY <3>1, <4>1
    <3>4. /\ manager # NoManager
          /\ home[y] = manager
          /\ Client(y) \in DOMAIN transports[manager]
          /\ transports[manager][Client(y)] = y
      BY <3>1, <3>2 DEF RoomIndInv, FirstRoom
    <3> QED BY <1>3, <1>8, <1>9, <2>1, <2>3, <3>3, <3>4
  <2> QED BY <2>2, <2>3
<1>22. RoomIsForgotten'
  BY <1>1, <1>6, <1>8 DEF RoomIsForgotten
<1>23. SendersCounted'
  <2> SUFFICES ASSUME NEW y \in Transports, NEW s \in SSRCs
               PROVE  /\ s \in localTracks'[y] => senders'[y][s] >= 1
                      /\ senders'[y][s] <= 2
                      /\ s \notin localTracks'[y] \/ s \notin early'[y] => senders'[y][s] <= 1
                      /\ s \notin localTracks'[y] /\ s \notin early'[y] => senders'[y][s] = 0
                      /\ s \in localTracks'[y] /\ Pending(s) =>
                           s \in early'[y] /\ senders'[y][s] = 1
    BY <1>1 DEF SendersCounted, Pending
  <2>1. CASE y = x
    <3>1. /\ localTracks'[y] = existing
          /\ senders'[y][s] = IF s \in existing THEN 1 ELSE 0
          /\ s \in early'[y] <=> s \in existing /\ track[s] = "adding"
      BY <1>1, <1>10, <2>1 DEF RoomIndInv, TypeOK
    <3>2. s \in existing => track[s] # "addingEnded"
      BY <1>4
    <3> QED BY <3>1, <3>2 DEF Pending
  <2>2. CASE y # x
    <3>1. localTracks'[y] = localTracks[y] /\ senders'[y] = senders[y] /\ early'[y] = early[y]
      BY <1>1, <2>2 DEF RoomIndInv, TypeOK
    <3> QED BY <3>1 DEF RoomIndInv, SendersCounted
  <2> QED BY <2>1, <2>2
<1> QED BY <1>11, <1>12, <1>13, <1>14, <1>15, <1>16, <1>17, <1>19, <1>20, <1>21, <1>22, <1>23
        DEF RoomIndInv

\* SocketHandler only decides when the client may be ready again.
LEMMA HandlerOnlyKeeps ==
  ASSUME RoomIndInv,
         webRTCTransport' \in [Clients -> Transports \cup {NoTransport}],
         UNCHANGED <<manager, transports, clientBySSRC, readies, state, home, removed,
                     track, localTracks, senders, early>>
  PROVE  RoomIndInv'
<1>1. TypeOK' /\ Tables'
  BY DEF RoomIndInv, TypeOK, Tables
<1>2. StartedInOrder' /\ Placed' /\ RemovedAreClosed' /\ SourcesStarted'
  BY DEF RoomIndInv, StartedInOrder, Placed, RemovedAreClosed, SourcesStarted, Started
<1>3. TracksOfRoom' /\ OwnersKnown' /\ SendersCounted'
  BY DEF RoomIndInv, TracksOfRoom, OwnersKnown, SendersCounted, Pending
<1>4. RoomConverges' /\ EndedForgotten'
  BY DEF RoomIndInv, RoomConverges, EndedForgotten, Members, Open, OtherClients
<1>5. FirstRoom' /\ RoomIsForgotten'
  BY DEF RoomIndInv, FirstRoom, RoomIsForgotten, Started
<1> QED BY <1>1, <1>2, <1>3, <1>4, <1>5 DEF RoomIndInv

LEMMA SignalsEndKeeps ==
  ASSUME RoomIndInv, NEW x \in Transports, SignalsEnd(x)
  PROVE  RoomIndInv'
<1>1. webRTCTransport' \in [Clients -> Transports \cup {NoTransport}]
  BY DEF SignalsEnd, RoomIndInv, TypeOK
<1> QED BY <1>1, HandlerOnlyKeeps DEF SignalsEnd

LEMMA ReconnectKeeps ==
  ASSUME RoomIndInv, NEW c \in Clients, Reconnect(c)
  PROVE  RoomIndInv'
<1>1. webRTCTransport' \in [Clients -> Transports \cup {NoTransport}]
  BY DEF Reconnect, RoomIndInv, TypeOK
<1> QED BY <1>1, HandlerOnlyKeeps DEF Reconnect

LEMMA CloseKeeps ==
  ASSUME RoomIndInv, NEW x \in Transports, Close(x)
  PROVE  RoomIndInv'
<1>1. /\ state[x] = "open"
      /\ state' \in [Transports -> {"new", "open", "closed"}]
      /\ state'[x] = "closed"
      /\ \A y \in Transports \ {x} : state'[y] = state[y]
      /\ UNCHANGED <<manager, transports, clientBySSRC, webRTCTransport, readies, home,
                     removed, track, localTracks, senders, early>>
  BY DEF Close, RoomIndInv, TypeOK
<1>2. TypeOK' /\ Tables'
  BY <1>1 DEF RoomIndInv, TypeOK, Tables
<1>3. \A y \in Transports : state'[y] # "new" <=> state[y] # "new"
  BY <1>1
<1>4. StartedInOrder'
  BY <1>1, <1>3 DEF RoomIndInv, StartedInOrder, Started
<1>5. Placed'
  BY <1>1, <1>3 DEF RoomIndInv, Placed, Started, TypeOK, IsMap
<1>6. RemovedAreClosed'
  BY <1>1 DEF RoomIndInv, RemovedAreClosed, TypeOK
<1>7. SourcesStarted'
  BY <1>1, <1>3, SourceFacts DEF RoomIndInv, SourcesStarted, Started
<1>8. TracksOfRoom' /\ OwnersKnown' /\ SendersCounted'
  BY <1>1 DEF RoomIndInv, TracksOfRoom, OwnersKnown, SendersCounted, Pending
<1>9. ASSUME NEW m \in Managers, NEW y \in Open(Members(m))' PROVE y \in Open(Members(m))
  <2>1. y \in Members(m) /\ state'[y] = "open"
    BY <1>1 DEF Open, Members
  <2>2. y \in Transports
    BY <2>1, MemberFacts
  <2> QED BY <1>1, <2>1, <2>2 DEF Open
<1>10. RoomConverges'
  BY <1>1, <1>9 DEF RoomIndInv, RoomConverges, Members, OtherClients
<1>11. EndedForgotten'
  BY <1>1, <1>9 DEF RoomIndInv, EndedForgotten, OtherClients
<1>12. FirstRoom' /\ RoomIsForgotten'
  BY <1>1, <1>3 DEF RoomIndInv, FirstRoom, RoomIsForgotten, Started
<1> QED BY <1>2, <1>4, <1>5, <1>6, <1>7, <1>8, <1>10, <1>11, <1>12 DEF RoomIndInv

LEMMA RemoveKeeps ==
  ASSUME RoomIndInv, NEW x \in Transports, Remove(x)
  PROVE  RoomIndInv'
<1> DEFINE m == home[x]
<1>1. /\ state[x] = "closed" /\ x \notin removed
      /\ removed' = removed \cup {x}
      /\ transports' = [transports EXCEPT ![m] = Delete(@, Client(x))]
      /\ manager' = IF DOMAIN transports'[m] = {} THEN NoManager ELSE manager
      /\ UNCHANGED <<clientBySSRC, webRTCTransport, readies, state, home, track,
                     localTracks, senders, early>>
  BY DEF Remove
<1>2. Started(x) /\ m \in Managers
  BY <1>1 DEF RoomIndInv, StartedInOrder, Started
<1> HIDE DEF m
<1>3. /\ DOMAIN transports' = Managers
      /\ DOMAIN transports'[m] = DOMAIN transports[m] \ {Client(x)}
      /\ \A d \in DOMAIN transports'[m] : transports'[m][d] = transports[m][d]
      /\ \A n \in Managers \ {m} : transports'[n] = transports[n]
      /\ \A n \in Managers : IsMap(transports'[n], Clients, Transports)
  BY <1>1, <1>2 DEF RoomIndInv, Tables, TypeOK, IsMap, Delete
<1>4. TypeOK' /\ Tables'
  BY <1>1, <1>3 DEF RoomIndInv, TypeOK, Tables
<1>5. StartedInOrder' /\ RemovedAreClosed' /\ SourcesStarted'
  BY <1>1 DEF RoomIndInv, StartedInOrder, RemovedAreClosed, SourcesStarted, Started
<1>6. \A n \in Managers : \A d \in DOMAIN transports'[n] :
        /\ d \in DOMAIN transports[n] /\ transports'[n][d] = transports[n][d]
        /\ transports[n][d] # x
  <2> SUFFICES ASSUME NEW n \in Managers, NEW d \in DOMAIN transports'[n]
               PROVE  /\ d \in DOMAIN transports[n] /\ transports'[n][d] = transports[n][d]
                      /\ transports[n][d] # x
    OBVIOUS
  <2>1. d \in DOMAIN transports[n] /\ transports'[n][d] = transports[n][d]
        /\ (n = m => d # Client(x))
    BY <1>3
  <2>2. Client(transports[n][d]) = d /\ home[transports[n][d]] = n
    BY <2>1 DEF RoomIndInv, Placed
  <2> QED BY <2>1, <2>2 DEF m
<1>7. Placed'
  BY <1>1, <1>6 DEF RoomIndInv, Placed, Started
<1>8. TracksOfRoom' /\ OwnersKnown' /\ SendersCounted'
  BY <1>1 DEF RoomIndInv, TracksOfRoom, OwnersKnown, SendersCounted, Pending
<1>9. \A n \in Managers : Members(n)' \subseteq Members(n)
  BY <1>6 DEF Members
<1>10. RoomConverges'
  BY <1>1, <1>9 DEF RoomIndInv, RoomConverges, Open, OtherClients
<1>11. EndedForgotten'
  BY <1>1, <1>9 DEF RoomIndInv, EndedForgotten, Open, OtherClients
<1>12. FirstRoom'
  <2> SUFFICES ASSUME \A c \in Clients : readies[c] <= 1,
                      NEW y \in Transports, Started(y), y \notin removed, y # x
               PROVE  /\ manager' # NoManager
                      /\ home[y] = manager'
                      /\ Client(y) \in DOMAIN transports'[manager']
                      /\ transports'[manager'][Client(y)] = y
    BY <1>1 DEF FirstRoom, Started
  <2>1. /\ manager # NoManager
        /\ home[y] = manager
        /\ Client(y) \in DOMAIN transports[manager]
        /\ transports[manager][Client(y)] = y
        /\ m = manager
    BY <1>1, <1>2 DEF RoomIndInv, FirstRoom, m
  <2>2. Client(y) # Client(x)
    <3>1. \A z \in Transports : Started(z) => Number(z) = 1
      <4> SUFFICES ASSUME NEW z \in Transports, Started(z) PROVE Number(z) = 1
        OBVIOUS
      <4>1. Number(z) \in Nat \ {0} /\ Number(z) <= readies[Client(z)] /\ Client(z) \in Clients
        BY TransportFacts, ReadyAssumption DEF RoomIndInv, StartedInOrder
      <4>2. readies[Client(z)] \in Nat /\ readies[Client(z)] <= 1
        BY <4>1, ReadyAssumption DEF RoomIndInv, TypeOK
      <4> QED BY <4>1, <4>2
    <3> QED BY <1>2, <3>1, SameTransport
  <2>3. Client(y) \in DOMAIN transports'[m] /\ transports'[m][Client(y)] = y
    BY <1>3, <2>1, <2>2
  <2> QED BY <1>1, <2>1, <2>3
<1>13. RoomIsForgotten'
  <2> SUFFICES ASSUME \A y \in Transports : state[y] = "new" \/ y \in removed'
               PROVE  manager' = NoManager
    BY <1>1 DEF RoomIsForgotten
  <2>1. DOMAIN transports'[m] = {}
    <3> SUFFICES ASSUME NEW d \in DOMAIN transports'[m] PROVE FALSE
      OBVIOUS
    <3>1. /\ transports'[m][d] \in Transports
          /\ state[transports'[m][d]] # "new"
          /\ transports'[m][d] \notin removed'
      BY <1>1, <1>2, <1>3, <1>7 DEF Placed, Started, IsMap
    <3> QED BY <3>1
  <2> QED BY <1>1, <2>1
<1> QED BY <1>4, <1>5, <1>7, <1>8, <1>10, <1>11, <1>12, <1>13 DEF RoomIndInv

TrackStates == {"new", "adding", "addingEnded", "live", "removing", "ended"}

\* What depends on transports only is not changed by the steps of a track.
LEMMA TrackStep ==
  ASSUME RoomIndInv, NEW s \in SSRCs, NEW from, NEW to \in TrackStates \ {"new"},
         TrackTo(s, from, to), Started(Source(s))
  PROVE  /\ track' \in [SSRCs -> TrackStates]
         /\ track[s] = from /\ track'[s] = to
         /\ \A r \in SSRCs \ {s} : track'[r] = track[r]
         /\ UNCHANGED <<manager, transports, webRTCTransport, readies, state, home, removed, early>>
         /\ StartedInOrder' /\ Placed' /\ RemovedAreClosed' /\ SourcesStarted'
         /\ FirstRoom' /\ RoomIsForgotten'
         /\ \A m \in Managers : Open(Members(m))' = Open(Members(m)) /\ Members(m)' = Members(m)
<1>1. /\ track' \in [SSRCs -> TrackStates]
      /\ track[s] = from /\ track'[s] = to
      /\ \A r \in SSRCs \ {s} : track'[r] = track[r]
      /\ UNCHANGED <<manager, transports, webRTCTransport, readies, state, home, removed, early>>
  BY DEF TrackTo, RoomIndInv, TypeOK, TrackStates
<1>2. StartedInOrder' /\ Placed' /\ RemovedAreClosed'
  BY <1>1 DEF RoomIndInv, StartedInOrder, Placed, RemovedAreClosed, Started
<1>3. SourcesStarted'
  BY <1>1 DEF RoomIndInv, SourcesStarted, Started
<1>4. FirstRoom' /\ RoomIsForgotten'
  BY <1>1 DEF RoomIndInv, FirstRoom, RoomIsForgotten, Started
<1>5. \A m \in Managers : Open(Members(m))' = Open(Members(m)) /\ Members(m)' = Members(m)
  BY <1>1 DEF Open, Members
<1> QED BY <1>1, <1>2, <1>3, <1>4, <1>5

\* The client of the source has no part in what the manager does for a track.
LEMMA OthersFacts ==
  ASSUME RoomIndInv, NEW s \in SSRCs, Started(Source(s)), NEW m \in Managers, NEW y \in Members(m),
         OtherClients(y, s), home[Source(s)] = m
  PROVE  y \in OthersOf(home[Source(s)], Client(Source(s)))
BY MemberFacts DEF OthersOf, OtherClients

\* Nobody has a track before it starts, so its start changes nothing for the senders.
LEMMA SendersKept ==
  ASSUME RoomIndInv, UNCHANGED <<localTracks, senders, early>>,
         \A r \in SSRCs : Pending(r)' => Pending(r) \/ track[r] = "new"
  PROVE  SendersCounted'
<1>1. \A y \in Transports : \A r \in localTracks[y] : track[r] # "new"
  BY DEF RoomIndInv, TracksOfRoom
<1> QED BY <1>1 DEF RoomIndInv, SendersCounted

LEMMA HandleTrackKeeps ==
  ASSUME RoomIndInv, NEW s \in SSRCs, HandleTrack(s)
  PROVE  RoomIndInv'
<1>1. /\ TrackTo(s, "new", "adding") /\ Started(Source(s))
      /\ UNCHANGED <<clientBySSRC, localTracks, senders>>
  BY DEF HandleTrack, Started
<1>2. /\ track' \in [SSRCs -> TrackStates]
      /\ track[s] = "new" /\ track'[s] = "adding"
      /\ \A r \in SSRCs \ {s} : track'[r] = track[r]
      /\ UNCHANGED <<manager, transports, webRTCTransport, readies, state, home, removed, early>>
      /\ StartedInOrder' /\ Placed' /\ RemovedAreClosed' /\ SourcesStarted'
      /\ FirstRoom' /\ RoomIsForgotten'
      /\ \A m \in Managers : Open(Members(m))' = Open(Members(m)) /\ Members(m)' = Members(m)
  BY <1>1, TrackStep DEF TrackStates
<1>3. TypeOK' /\ Tables'
  BY <1>1, <1>2 DEF RoomIndInv, TypeOK, Tables, TrackStates
<1>4. TracksOfRoom' /\ OwnersKnown'
  BY <1>1, <1>2 DEF RoomIndInv, TypeOK, TracksOfRoom, OwnersKnown
<1>5. RoomConverges'
  BY <1>1, <1>2 DEF RoomIndInv, RoomConverges, OtherClients
<1>6. EndedForgotten'
  <2>1. ASSUME NEW m \in Managers, NEW y \in Open(Members(m)), NEW r \in localTracks[y],
               OtherClients(y, r)
        PROVE  track'[r] # "ended"
    <3>1. r \in SSRCs
      BY <2>1, MemberFacts DEF RoomIndInv, TypeOK, Open
    <3> QED BY <1>2, <2>1, <3>1 DEF RoomIndInv, EndedForgotten
  <2> QED BY <1>1, <1>2, <2>1 DEF EndedForgotten, OtherClients
<1>7. SendersCounted'
  BY <1>1, <1>2, SendersKept DEF Pending
<1> QED BY <1>2, <1>3, <1>4, <1>5, <1>6, <1>7 DEF RoomIndInv

LEMMA AddTrackKeeps ==
  ASSUME RoomIndInv, NEW s \in SSRCs, AddTrack(s)
  PROVE  RoomIndInv'
<1> DEFINE x == Source(s)
           X == OthersOf(home[x], Client(x))
           to == IF track[s] = "adding" THEN "live" ELSE "removing"
<1>1. /\ TrackTo(s, track[s], to) /\ Pending(s)
      /\ clientBySSRC' = [clientBySSRC EXCEPT ![home[x]] = Put(@, s, Client(x))]
      /\ localTracks' = [y \in Transports |->
                           IF y \in X /\ state[y] = "open"
                           THEN localTracks[y] \cup {s} ELSE localTracks[y]]
      /\ senders' = [y \in Transports |->
                       IF y \in X /\ state[y] = "open"
                       THEN [senders[y] EXCEPT ![s] = @ + 1] ELSE senders[y]]
  BY DEF AddTrack, AddTracks, AddHandled, TrackTo, Open, Pending
<1>2. x \in Transports /\ Client(x) \in Clients
  BY SourceFacts, TransportFacts
<1>3. Started(x)
  BY <1>1 DEF RoomIndInv, SourcesStarted, Pending
<1>4. home[x] \in Managers
  BY <1>2, <1>3 DEF RoomIndInv, StartedInOrder
<1>5. \A y \in X : y \in Members(home[x])
  BY DEF OthersOf, Members
<1>6. /\ track' \in [SSRCs -> TrackStates]
      /\ Pending(s) /\ track'[s] \in {"live", "removing"}
      /\ \A r \in SSRCs \ {s} : track'[r] = track[r]
      /\ UNCHANGED <<manager, transports, webRTCTransport, readies, state, home, removed, early>>
      /\ StartedInOrder' /\ Placed' /\ RemovedAreClosed' /\ SourcesStarted'
      /\ FirstRoom' /\ RoomIsForgotten'
      /\ \A m \in Managers : Open(Members(m))' = Open(Members(m)) /\ Members(m)' = Members(m)
  BY <1>1, <1>3, TrackStep DEF TrackStates
<1> HIDE DEF X, to
<1>7. /\ DOMAIN clientBySSRC' = Managers
      /\ s \in DOMAIN clientBySSRC'[home[x]] /\ clientBySSRC'[home[x]][s] = Client(x)
      /\ \A m \in Managers : \A r \in DOMAIN clientBySSRC[m] \ {s} :
           r \in DOMAIN clientBySSRC'[m] /\ clientBySSRC'[m][r] = clientBySSRC[m][r]
      /\ \A m \in Managers : IsMap(clientBySSRC'[m], SSRCs, Clients)
  BY <1>1, <1>2, <1>4 DEF RoomIndInv, Tables, TypeOK, IsMap, Put
<1>8. localTracks' \in [Transports -> SUBSET SSRCs] /\ senders' \in [Transports -> [SSRCs -> Nat]]
  BY <1>1 DEF RoomIndInv, TypeOK
<1>9. TypeOK' /\ Tables'
  BY <1>6, <1>7, <1>8 DEF RoomIndInv, TypeOK, Tables, TrackStates
<1>10. TracksOfRoom'
  <2> SUFFICES ASSUME NEW y \in Transports, NEW r \in localTracks'[y]
               PROVE  track'[r] # "new" /\ home[Source(r)] = home[y]
    BY <1>6 DEF TracksOfRoom
  <2>1. CASE r \in localTracks[y]
    <3>1. r \in SSRCs /\ track[r] # "new" /\ home[Source(r)] = home[y]
      BY <2>1 DEF RoomIndInv, TypeOK, TracksOfRoom
    <3> QED BY <1>6, <3>1
  <2>2. CASE r \notin localTracks[y]
    <3>1. r = s /\ y \in Members(home[x])
      BY <1>1, <1>5, <2>2
    <3>2. home[y] = home[x]
      BY <1>4, <3>1, MemberFacts
    <3> QED BY <1>6, <3>1, <3>2
  <2> QED BY <2>1, <2>2
<1>11. OwnersKnown'
  <2> SUFFICES ASSUME NEW r \in SSRCs, track'[r] \in {"live", "removing"}
               PROVE  /\ r \in DOMAIN clientBySSRC'[home[Source(r)]]
                      /\ clientBySSRC'[home[Source(r)]][r] = Client(Source(r))
    BY <1>6 DEF OwnersKnown
  <2>1. CASE r = s
    BY <1>7, <2>1
  <2>2. CASE r # s
    <3>1. track[r] \in {"live", "removing"}
      BY <1>6, <2>2
    <3>2. home[Source(r)] \in Managers
      BY <3>1, SourceFacts DEF RoomIndInv, SourcesStarted, StartedInOrder
    <3>3. /\ r \in DOMAIN clientBySSRC[home[Source(r)]]
          /\ clientBySSRC[home[Source(r)]][r] = Client(Source(r))
      BY <3>1 DEF RoomIndInv, OwnersKnown
    <3> QED BY <1>7, <2>2, <3>2, <3>3
  <2> QED BY <2>1, <2>2
<1>12. RoomConverges'
  <2> SUFFICES ASSUME NEW m \in Managers, NEW y \in Open(Members(m)), NEW r \in SSRCs,
                      Source(r) \in Members(m), OtherClients(y, r), track'[r] = "live"
               PROVE  r \in localTracks'[y]
    BY <1>6 DEF RoomConverges, OtherClients
  <2>1. y \in Members(m) /\ state[y] = "open" /\ y \in Transports
    BY MemberFacts DEF Open
  <2>2. CASE r = s
    <3>1. home[x] = m
      BY <2>2, MemberFacts
    <3>2. y \in X
      BY <1>3, <2>1, <2>2, <3>1, OthersFacts DEF X
    <3> QED BY <1>1, <2>1, <2>2, <3>2
  <2>3. CASE r # s
    <3>1. r \in localTracks[y]
      BY <1>6, <2>3 DEF RoomIndInv, RoomConverges
    <3> QED BY <1>1, <2>1, <3>1
  <2> QED BY <2>2, <2>3
<1>13. EndedForgotten'
  <2> SUFFICES ASSUME NEW m \in Managers, NEW y \in Open(Members(m)), NEW r \in localTracks'[y],
                      OtherClients(y, r)
               PROVE  track'[r] # "ended"
    BY <1>6 DEF EndedForgotten, OtherClients
  <2>1. y \in Members(m) /\ y \in Transports
    BY MemberFacts DEF Open
  <2>2. r = s \/ r \in localTracks[y]
    BY <1>1, <2>1
  <2>3. CASE r = s
    BY <1>6, <2>3
  <2>4. CASE r # s /\ r \in localTracks[y]
    <3>1. r \in SSRCs /\ track[r] # "ended"
      BY <2>1, <2>4 DEF RoomIndInv, EndedForgotten, TypeOK
    <3> QED BY <1>6, <2>4, <3>1
  <2> QED BY <2>2, <2>3, <2>4
<1>14. SendersCounted'
  <2> SUFFICES ASSUME NEW y \in Transports, NEW r \in SSRCs
               PROVE  /\ r \in localTracks'[y] => senders'[y][r] >= 1
                      /\ senders'[y][r] <= 2
                      /\ r \notin localTracks'[y] \/ r \notin early[y] => senders'[y][r] <= 1
                      /\ r \notin localTracks'[y] /\ r \notin early[y] => senders'[y][r] = 0
                      /\ r \in localTracks'[y] /\ Pending(r)' =>
                           r \in early[y] /\ senders'[y][r] = 1
    BY <1>6 DEF SendersCounted
  <2>1. /\ senders[y][r] \in Nat
        /\ r \in localTracks[y] => senders[y][r] >= 1
        /\ senders[y][r] <= 2
        /\ r \notin localTracks[y] \/ r \notin early[y] => senders[y][r] <= 1
        /\ r \notin localTracks[y] /\ r \notin early[y] => senders[y][r] = 0
        /\ r \in localTracks[y] /\ Pending(r) => r \in early[y] /\ senders[y][r] = 1
    BY DEF RoomIndInv, SendersCounted, TypeOK
  <2>2. CASE r = s /\ y \in X /\ state[y] = "open"
    <3>1. r \in localTracks'[y] /\ senders'[y][r] = senders[y][r] + 1
      BY <1>1, <2>2 DEF RoomIndInv, TypeOK
    <3>2. Pending(r) /\ ~Pending(r)'
      BY <1>6, <2>2 DEF Pending
    <3> QED BY <2>1, <3>1, <3>2
  <2>3. CASE ~(r = s /\ y \in X /\ state[y] = "open")
    <3>1. /\ r \in localTracks'[y] <=> r \in localTracks[y]
          /\ senders'[y][r] = senders[y][r]
      BY <1>1, <2>3 DEF RoomIndInv, TypeOK
    <3>2. Pending(r)' => Pending(r)
      BY <1>6 DEF Pending
    <3> QED BY <2>1, <3>1, <3>2
  <2> QED BY <2>2, <2>3
<1> QED BY <1>6, <1>9, <1>10, <1>11, <1>12, <1>13, <1>14 DEF RoomIndInv

LEMMA TrackEndsKeeps ==
  ASSUME RoomIndInv, NEW s \in SSRCs, TrackEnds(s)
  PROVE  RoomIndInv'
<1> DEFINE to == IF track[s] = "live" THEN "removing" ELSE "addingEnded"
<1>1. /\ TrackTo(s, track[s], to) /\ track[s] \in {"live", "adding"}
      /\ UNCHANGED <<clientBySSRC, localTracks, senders>>
  BY DEF TrackEnds, TrackTo
<1>2. Started(Source(s))
  BY <1>1 DEF RoomIndInv, SourcesStarted
<1>3. /\ track' \in [SSRCs -> TrackStates]
      /\ \/ track[s] = "live" /\ track'[s] = "removing"
         \/ track[s] = "adding" /\ track'[s] = "addingEnded"
      /\ \A r \in SSRCs \ {s} : track'[r] = track[r]
      /\ UNCHANGED <<manager, transports, webRTCTransport, readies, state, home, removed, early>>
      /\ StartedInOrder' /\ Placed' /\ RemovedAreClosed' /\ SourcesStarted'
      /\ FirstRoom' /\ RoomIsForgotten'
      /\ \A m \in Managers : Open(Members(m))' = Open(Members(m)) /\ Members(m)' = Members(m)
  BY <1>1, <1>2, TrackStep DEF TrackStates
<1> HIDE DEF to
<1>4. TypeOK' /\ Tables'
  BY <1>1, <1>3 DEF RoomIndInv, TypeOK, Tables, TrackStates
<1>5. TracksOfRoom' /\ OwnersKnown'
  BY <1>1, <1>3 DEF RoomIndInv, TypeOK, TracksOfRoom, OwnersKnown
<1>6. RoomConverges'
  BY <1>1, <1>3 DEF RoomIndInv, RoomConverges, OtherClients
<1>7. EndedForgotten'
  <2>1. ASSUME NEW m \in Managers, NEW y \in Open(Members(m)), NEW r \in localTracks[y],
               OtherClients(y, r)
        PROVE  track'[r] # "ended"
    <3>1. r \in SSRCs
      BY <2>1, MemberFacts DEF RoomIndInv, TypeOK, Open
    <3> QED BY <1>3, <2>1, <3>1 DEF RoomIndInv, EndedForgotten
  <2> QED BY <1>1, <1>3, <2>1 DEF EndedForgotten, OtherClients
<1>8. SendersCounted'
  BY <1>1, <1>3, SendersKept DEF Pending
<1> QED BY <1>3, <1>4, <1>5, <1>6, <1>7, <1>8 DEF RoomIndInv

LEMMA RemoveTrackKeeps ==
  ASSUME RoomIndInv, NEW s \in SSRCs, RemoveTrack(s)
  PROVE  RoomIndInv'
<1> DEFINE x == Source(s)
           X == OthersOf(home[x], Client(x))
<1>1. /\ TrackTo(s, "removing", "ended")
      /\ clientBySSRC' = [clientBySSRC EXCEPT ![home[x]] = Delete(@, s)]
      /\ localTracks' = [y \in Transports |->
                           IF y \in X /\ state[y] = "open"
                           THEN localTracks[y] \ {s} ELSE localTracks[y]]
      /\ senders' = [y \in Transports |->
                       IF y \in X /\ state[y] = "open" /\ s \in localTracks[y]
                       THEN [senders[y] EXCEPT ![s] = @ - 1] ELSE senders[y]]
  BY DEF RemoveTrack, RemoveTracks, Open
<1>2. x \in Transports
  BY SourceFacts
<1>3. Started(x)
  BY <1>1 DEF RoomIndInv, SourcesStarted, TrackTo
<1>4. home[x] \in Managers
  BY <1>2, <1>3 DEF RoomIndInv, StartedInOrder
<1>5. /\ track' \in [SSRCs -> TrackStates]
      /\ track[s] = "removing" /\ track'[s] = "ended"
      /\ \A r \in SSRCs \ {s} : track'[r] = track[r]
      /\ UNCHANGED <<manager, transports, webRTCTransport, readies, state, home, removed, early>>
      /\ StartedInOrder' /\ Placed' /\ RemovedAreClosed' /\ SourcesStarted'
      /\ FirstRoom' /\ RoomIsForgotten'
      /\ \A m \in Managers : Open(Members(m))' = Open(Members(m)) /\ Members(m)' = Members(m)
  BY <1>1, <1>3, TrackStep DEF TrackStates
<1> HIDE DEF X
<1>6. /\ DOMAIN clientBySSRC' = Managers
      /\ \A m \in Managers : \A r \in DOMAIN clientBySSRC[m] \ {s} :
           r \in DOMAIN clientBySSRC'[m] /\ clientBySSRC'[m][r] = clientBySSRC[m][r]
      /\ \A m \in Managers : IsMap(clientBySSRC'[m], SSRCs, Clients)
  BY <1>1, <1>4 DEF RoomIndInv, Tables, TypeOK, IsMap, Delete
<1>7. /\ localTracks' \in [Transports -> SUBSET SSRCs]
      /\ \A y \in Transports : localTracks'[y] \subseteq localTracks[y]
      /\ \A y \in Transports : \A r \in localTracks[y] \ {s} : r \in localTracks'[y]
  BY <1>1 DEF RoomIndInv, TypeOK
<1>7a. ASSUME NEW y \in Transports, NEW r \in SSRCs
       PROVE  IF r = s /\ y \in X /\ state[y] = "open" /\ s \in localTracks[y]
              THEN senders'[y][r] = senders[y][r] - 1 /\ senders[y][r] \in Nat \ {0}
              ELSE senders'[y][r] = senders[y][r]
  BY <1>1 DEF RoomIndInv, TypeOK, SendersCounted
<1>7b. senders' \in [Transports -> [SSRCs -> Nat]]
  <2>1. ASSUME NEW y \in Transports PROVE senders'[y] \in [SSRCs -> Nat]
    <3>1. senders[y] \in [SSRCs -> Nat]
      BY DEF RoomIndInv, TypeOK
    <3>2. CASE y \in X /\ state[y] = "open" /\ s \in localTracks[y]
      <4>1. senders'[y] = [senders[y] EXCEPT ![s] = @ - 1]
        BY <1>1, <3>2
      <4>2. senders[y][s] - 1 \in Nat
        BY <1>7a, <3>1, <3>2
      <4> QED BY <3>1, <4>1, <4>2
    <3>3. CASE ~(y \in X /\ state[y] = "open" /\ s \in localTracks[y])
      BY <1>1, <3>1, <3>3
    <3> QED BY <3>2, <3>3
  <2> QED BY <1>1, <2>1
<1>8. TypeOK' /\ Tables'
  BY <1>5, <1>6, <1>7, <1>7b DEF RoomIndInv, TypeOK, Tables, TrackStates
<1>9. TracksOfRoom'
  <2> SUFFICES ASSUME NEW y \in Transports, NEW r \in localTracks'[y]
               PROVE  track'[r] # "new" /\ home[Source(r)] = home[y]
    BY <1>5 DEF TracksOfRoom
  <2>1. r \in SSRCs /\ track[r] # "new" /\ home[Source(r)] = home[y]
    BY <1>7 DEF RoomIndInv, TypeOK, TracksOfRoom
  <2> QED BY <1>5, <2>1
<1>10. OwnersKnown'
  <2> SUFFICES ASSUME NEW r \in SSRCs, track'[r] \in {"live", "removing"}
               PROVE  /\ r \in DOMAIN clientBySSRC'[home[Source(r)]]
                      /\ clientBySSRC'[home[Source(r)]][r] = Client(Source(r))
    BY <1>5 DEF OwnersKnown
  <2>1. r # s /\ track[r] \in {"live", "removing"}
    BY <1>5
  <2>2. home[Source(r)] \in Managers
    BY <2>1, SourceFacts DEF RoomIndInv, SourcesStarted, StartedInOrder
  <2>3. /\ r \in DOMAIN clientBySSRC[home[Source(r)]]
        /\ clientBySSRC[home[Source(r)]][r] = Client(Source(r))
    BY <2>1 DEF RoomIndInv, OwnersKnown
  <2> QED BY <1>6, <2>1, <2>2, <2>3
<1>11. RoomConverges'
  <2> SUFFICES ASSUME NEW m \in Managers, NEW y \in Open(Members(m)), NEW r \in SSRCs,
                      Source(r) \in Members(m), OtherClients(y, r), track'[r] = "live"
               PROVE  r \in localTracks'[y]
    BY <1>5 DEF RoomConverges, OtherClients
  <2>1. y \in Transports
    BY MemberFacts DEF Open
  <2>2. r # s /\ track[r] = "live"
    BY <1>5
  <2>3. r \in localTracks[y]
    BY <2>2 DEF RoomIndInv, RoomConverges
  <2> QED BY <1>7, <2>1, <2>2, <2>3
<1>12. EndedForgotten'
  <2> SUFFICES ASSUME NEW m \in Managers, NEW y \in Open(Members(m)), NEW r \in localTracks'[y],
                      OtherClients(y, r)
               PROVE  track'[r] # "ended"
    BY <1>5 DEF EndedForgotten, OtherClients
  <2>1. y \in Members(m) /\ state[y] = "open" /\ y \in Transports /\ home[y] = m
    BY MemberFacts DEF Open
  <2>2. r \in localTracks[y] /\ r \in SSRCs
    BY <1>7, <2>1
  <2>3. r # s
    <3> SUFFICES ASSUME r = s PROVE FALSE
      OBVIOUS
    <3>1. home[x] = m
      BY <2>1, <2>2 DEF RoomIndInv, TracksOfRoom
    <3>2. y \in X
      BY <1>3, <2>1, <3>1, OthersFacts DEF X
    <3> QED BY <1>1, <2>1, <3>2
  <2>4. track[r] # "ended"
    BY <2>2 DEF RoomIndInv, EndedForgotten
  <2> QED BY <1>5, <2>2, <2>3, <2>4
<1>13. SendersCounted'
  <2> SUFFICES ASSUME NEW y \in Transports, NEW r \in SSRCs
               PROVE  /\ r \in localTracks'[y] => senders'[y][r] >= 1
                      /\ senders'[y][r] <= 2
                      /\ r \notin localTracks'[y] \/ r \notin early[y] => senders'[y][r] <= 1
                      /\ r \notin localTracks'[y] /\ r \notin early[y] => senders'[y][r] = 0
                      /\ r \in localTracks'[y] /\ Pending(r)' =>
                           r \in early[y] /\ senders'[y][r] = 1
    BY <1>5 DEF SendersCounted
  <2>1. /\ senders[y][r] \in Nat
        /\ r \in localTracks[y] => senders[y][r] >= 1
        /\ senders[y][r] <= 2
        /\ r \notin localTracks[y] \/ r \notin early[y] => senders[y][r] <= 1
        /\ r \notin localTracks[y] /\ r \notin early[y] => senders[y][r] = 0
        /\ r \in localTracks[y] /\ Pending(r) => r \in early[y] /\ senders[y][r] = 1
    BY DEF RoomIndInv, SendersCounted, TypeOK
  <2>2. CASE r = s /\ y \in X /\ state[y] = "open" /\ s \in localTracks[y]
    <3>1. r \notin localTracks'[y] /\ senders'[y][r] = senders[y][r] - 1
      BY <1>1, <1>7a, <2>2
    <3> QED BY <2>1, <2>2, <3>1
  <2>3. CASE ~(r = s /\ y \in X /\ state[y] = "open" /\ s \in localTracks[y])
    <3>1. /\ r \in localTracks'[y] <=> r \in localTracks[y]
          /\ senders'[y][r] = senders[y][r]
      BY <1>1, <1>7a, <2>3
    <3>2. Pending(r)' => Pending(r)
      BY <1>5 DEF Pending
    <3> QED BY <2>1, <3>1, <3>2
  <2> QED BY <2>2, <2>3
<1> QED BY <1>5, <1>8, <1>9, <1>10, <1>11, <1>12, <1>13 DEF RoomIndInv

LEMMA RoomIndInvInit == Init => RoomIndInv
<1> SUFFICES ASSUME Init PROVE RoomIndInv
  OBVIOUS
<1>1. TypeOK /\ Tables
  BY ReadyAssumption DEF Init, TypeOK, Tables, IsMap, EmptyMap
<1>2. StartedInOrder
  <2> SUFFICES ASSUME NEW x \in Transports PROVE ~(Number(x) <= readies[Client(x)])
    BY DEF StartedInOrder, Started, Init
  <2>1. Number(x) \in Nat \ {0} /\ readies[Client(x)] = 0
    BY TransportFacts, ReadyAssumption DEF Init
  <2> QED BY <2>1
<1>3. Placed /\ RemovedAreClosed
  BY DEF Init, EmptyMap, Placed, RemovedAreClosed
<1>4. SourcesStarted /\ TracksOfRoom /\ OwnersKnown
  BY DEF Init, SourcesStarted, TracksOfRoom, OwnersKnown
<1>5. RoomConverges /\ EndedForgotten /\ SendersCounted
  BY DEF Init, EmptyMap, RoomConverges, EndedForgotten, SendersCounted, Members, Open
<1>6. FirstRoom /\ RoomIsForgotten
  BY DEF Init, FirstRoom, RoomIsForgotten, Started
<1> QED BY <1>1, <1>2, <1>3, <1>4, <1>5, <1>6 DEF RoomIndInv

LEMMA RoomIndInvNext == RoomIndInv /\ [Next]_vars => RoomIndInv'
<1> SUFFICES ASSUME RoomIndInv, [Next]_vars PROVE RoomIndInv'
  OBVIOUS
<1>1. CASE \E c \in Clients : Ready(c) \/ Reconnect(c)
  BY <1>1, ReadyKeeps, ReconnectKeeps
<1>2. CASE \E x \in Transports : Close(x) \/ SignalsEnd(x) \/ Remove(x)
  BY <1>2, CloseKeeps, SignalsEndKeeps, RemoveKeeps
<1>3. CASE \E s \in SSRCs : HandleTrack(s) \/ AddTrack(s) \/ TrackEnds(s) \/ RemoveTrack(s)
  BY <1>3, HandleTrackKeeps, AddTrackKeeps, TrackEndsKeeps, RemoveTrackKeeps
<1>4. CASE UNCHANGED vars
  <2>1. webRTCTransport' \in [Clients -> Transports \cup {NoTransport}]
    BY <1>4 DEF vars, RoomIndInv, TypeOK
  <2> QED BY <1>4, <2>1, HandlerOnlyKeeps DEF vars
<1> QED BY <1>1, <1>2, <1>3, <1>4 DEF Next

-----------------------------------------------------------------------------
(* What follows from the invariant *)

LEMMA RoomCorrect == Spec => []RoomIndInv
BY RoomIndInvInit, RoomIndInvNext, PTL DEF Spec

(***************************************************************************)
(* The tables of the managers are well formed; as long as no client has    *)
(* been ready twice, the open transports share the room that a new client  *)
(* joins; and a room that all transports have left is forgotten, however   *)
(* often clients leave and are ready again.                                *)
(***************************************************************************)
THEOREM RoomIsKept == Spec => []RoomInv
<1>1. RoomIndInv => RoomInv
  <2> SUFFICES ASSUME RoomIndInv PROVE RoomInv
    OBVIOUS
  <2>1. \A x \in Transports : state[x] = "open" => Started(x) /\ x \notin removed
    BY DEF RoomIndInv, RemovedAreClosed, Started
  <2>2. OpenTransportsShareRoom
    BY <2>1 DEF RoomIndInv, FirstRoom, OpenTransportsShareRoom
  <2> QED BY <2>2 DEF RoomIndInv, RoomInv
<1> QED BY <1>1, RoomCorrect, PTL

(***************************************************************************)
(* A member of a room has every track of the other members whose event     *)
(* has been handled, also of those who joined before or after it.          *)
(***************************************************************************)
THEOREM MembersGetTracks == Spec => []RoomConverges
<1>1. RoomIndInv => RoomConverges
  BY DEF RoomIndInv
<1> QED BY <1>1, RoomCorrect, PTL

(***************************************************************************)
(* removeTrack takes a track, and its sender, from every member of the     *)
(* room that has it; one more sender stays only with a member that joined  *)
(* before addTrack had handled the track and so was given it twice.        *)
(***************************************************************************)
THEOREM EndedTracksAreGone == Spec => []NoGhostTracks
<1>1. RoomIndInv => NoGhostTracks
  <2> SUFFICES ASSUME RoomIndInv, NEW m \in Managers, NEW x \in Open(Members(m)),
                      NEW s \in SSRCs, OtherClients(x, s), track[s] = "ended"
               PROVE  /\ s \notin localTracks[x]
                      /\ senders[x][s] <= IF s \in early[x] THEN 1 ELSE 0
    BY DEF NoGhostTracks
  <2>1. x \in Transports
    BY MemberFacts DEF Open
  <2>2. s \notin localTracks[x]
    BY DEF RoomIndInv, EndedForgotten
  <2>3. senders[x][s] <= 1 /\ (s \notin early[x] => senders[x][s] = 0)
    BY <2>1, <2>2 DEF RoomIndInv, SendersCounted
  <2> QED BY <2>2, <2>3
<1> QED BY <1>1, RoomCorrect, PTL

\* The metadata of a member's tracks names their owners from addTrack to removeTrack.
THEOREM MetadataIsComplete == Spec => []MetadataNamesOwner
<1>1. RoomIndInv => MetadataNamesOwner
  <2> SUFFICES ASSUME RoomIndInv, NEW m \in Managers, NEW x \in Members(m),
                      NEW s \in localTracks[x], track[s] \in {"live", "removing"}
               PROVE  /\ s \in DOMAIN clientBySSRC[m]
                      /\ clientBySSRC[m][s] = Client(Source(s))
    BY DEF MetadataNamesOwner, Get
  <2>1. x \in Transports /\ home[x] = m
    BY MemberFacts
  <2>2. s \in SSRCs /\ home[Source(s)] = m
    BY <2>1 DEF RoomIndInv, TypeOK, TracksOfRoom
  <2> QED BY <2>2 DEF RoomIndInv, OwnersKnown
<1> QED BY <1>1, RoomCorrect, PTL
=============================================================================
