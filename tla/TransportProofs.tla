--------------------------- MODULE TransportProofs ---------------------------
(***************************************************************************)
(* Proofs about Transport for any finite sets of tracks: the WaitGroup     *)
(* counts the readers, so the closing goroutine does not close a channel   *)
(* under a reader that is counted, and no message is written to the        *)
(* messages channel after it was closed.  The last part is about           *)
(* BitrateEstimators, which the loops of the transports call.              *)
(***************************************************************************)
EXTENDS Transport, BitrateEstimators, FiniteSetTheorems, WellFoundedInduction, TLAPS

TrackCounted == {"reading", "packet", "removing", "removed"}
SenderCounted == {"reading", "packet"}

\* The readers that have been counted and are not done.
CountedRemotes == {r \in Remotes : track[r] \in TrackCounted}
CountedLocals == {l \in Locals : sender[l] \in SenderCounted}

TrackPlaces == {"none", "called", "adding", "added", "reading", "packet",
                "removing", "removed", "done"}
SenderPlaces == {"none", "added", "reading", "packet", "done"}

TracksInv ==
  /\ track \in [Remotes -> TrackPlaces]
  /\ sender \in [Locals -> SenderPlaces]

\* The counter of the WaitGroup is the number of counted readers.
WaitGroupInv == wg = Cardinality(CountedRemotes) + Cardinality(CountedLocals)

CountInv == TracksInv /\ WaitGroupInv

-----------------------------------------------------------------------------
(* The sets of counted readers are finite, and a step of one reader changes
   their cardinality by at most one. *)

LEMMA CountsAreFinite ==
  /\ IsFiniteSet(CountedRemotes) /\ Cardinality(CountedRemotes) \in Nat
  /\ IsFiniteSet(CountedLocals) /\ Cardinality(CountedLocals) \in Nat
<1>1. IsFiniteSet(CountedRemotes)
  BY TracksAssumption, FS_Subset DEF CountedRemotes
<1>2. IsFiniteSet(CountedLocals)
  BY TracksAssumption, FS_Subset DEF CountedLocals
<1> QED BY <1>1, <1>2, FS_CardinalityType

\* handleTrack after its wg.Add, and its goroutine up to wg.Done.
LEMMA TrackSteps ==
  ASSUME TracksInv, NEW r \in Remotes, NEW from \in TrackPlaces, NEW to \in TrackPlaces,
         TrackTo(r, from, to)
  PROVE  /\ TracksInv'
         /\ CountedLocals' = CountedLocals
         /\ from \in TrackCounted /\ to \in TrackCounted => CountedRemotes' = CountedRemotes
         /\ from \notin TrackCounted /\ to \notin TrackCounted =>
              CountedRemotes' = CountedRemotes
         /\ from \notin TrackCounted /\ to \in TrackCounted =>
              Cardinality(CountedRemotes)' = Cardinality(CountedRemotes) + 1
         /\ from \in TrackCounted /\ to \notin TrackCounted =>
              Cardinality(CountedRemotes)' = Cardinality(CountedRemotes) - 1
<1>1. /\ track[r] = from
      /\ track' = [track EXCEPT ![r] = to]
      /\ sender' = sender
  BY DEF TrackTo, localVars
<1>2. TracksInv' /\ CountedLocals' = CountedLocals
  BY <1>1 DEF TracksInv, CountedLocals
<1>3. (from \in TrackCounted <=> to \in TrackCounted) => CountedRemotes' = CountedRemotes
  BY <1>1 DEF TracksInv, CountedRemotes
<1>4. ASSUME from \notin TrackCounted, to \in TrackCounted
      PROVE  Cardinality(CountedRemotes)' = Cardinality(CountedRemotes) + 1
  <2>1. CountedRemotes' = CountedRemotes \cup {r} /\ r \notin CountedRemotes
    BY <1>1, <1>4 DEF TracksInv, CountedRemotes
  <2> QED BY <2>1, CountsAreFinite, FS_AddElement
<1>5. ASSUME from \in TrackCounted, to \notin TrackCounted
      PROVE  Cardinality(CountedRemotes)' = Cardinality(CountedRemotes) - 1
  <2>1. CountedRemotes' = CountedRemotes \ {r} /\ r \in CountedRemotes
    BY <1>1, <1>5 DEF TracksInv, CountedRemotes
  <2> QED BY <2>1, CountsAreFinite, FS_RemoveElement
<1> QED BY <1>2, <1>3, <1>4, <1>5

\* The same for AddTrack and its reader.
LEMMA SenderSteps ==
  ASSUME TracksInv, NEW l \in Locals, NEW from \in SenderPlaces, NEW to \in SenderPlaces,
         SenderTo(l, from, to)
  PROVE  /\ TracksInv'
         /\ CountedRemotes' = CountedRemotes
         /\ from \in SenderCounted /\ to \in SenderCounted => CountedLocals' = CountedLocals
         /\ from \notin SenderCounted /\ to \notin SenderCounted =>
              CountedLocals' = CountedLocals
         /\ from \notin SenderCounted /\ to \in SenderCounted =>
              Cardinality(CountedLocals)' = Cardinality(CountedLocals) + 1
         /\ from \in SenderCounted /\ to \notin SenderCounted =>
              Cardinality(CountedLocals)' = Cardinality(CountedLocals) - 1
<1>1. /\ sender[l] = from
      /\ sender' = [sender EXCEPT ![l] = to]
      /\ track' = track
  BY DEF SenderTo, remoteVars
<1>2. TracksInv' /\ CountedRemotes' = CountedRemotes
  BY <1>1 DEF TracksInv, CountedRemotes
<1>3. (from \in SenderCounted <=> to \in SenderCounted) => CountedLocals' = CountedLocals
  BY <1>1 DEF TracksInv, CountedLocals
<1>4. ASSUME from \notin SenderCounted, to \in SenderCounted
      PROVE  Cardinality(CountedLocals)' = Cardinality(CountedLocals) + 1
  <2>1. CountedLocals' = CountedLocals \cup {l} /\ l \notin CountedLocals
    BY <1>1, <1>4 DEF TracksInv, CountedLocals
  <2> QED BY <2>1, CountsAreFinite, FS_AddElement
<1>5. ASSUME from \in SenderCounted, to \notin SenderCounted
      PROVE  Cardinality(CountedLocals)' = Cardinality(CountedLocals) - 1
  <2>1. CountedLocals' = CountedLocals \ {l} /\ l \in CountedLocals
    BY <1>1, <1>5 DEF TracksInv, CountedLocals
  <2> QED BY <2>1, CountsAreFinite, FS_RemoveElement
<1> QED BY <1>2, <1>3, <1>4, <1>5

LEMMA CountInit == Init => CountInv
<1> SUFFICES ASSUME Init PROVE CountInv
  OBVIOUS
<1>1. TracksInv
  BY DEF Init, TracksInv, TrackPlaces, SenderPlaces
<1>2. CountedRemotes = {} /\ CountedLocals = {}
  BY DEF Init, CountedRemotes, CountedLocals, TrackCounted, SenderCounted
<1>3. WaitGroupInv
  BY <1>2, FS_EmptySet DEF WaitGroupInv, Init
<1> QED BY <1>1, <1>3 DEF CountInv

\* Every step of every goroutine keeps the count.
LEMMA CountStep == CountInv /\ [Next]_vars => CountInv'
<1> SUFFICES ASSUME CountInv, [Next]_vars PROVE CountInv'
  OBVIOUS
<1> USE DEF TrackPlaces, SenderPlaces, TrackCounted, SenderCounted
<1>0. TracksInv /\ WaitGroupInv
  BY DEF CountInv
<1>1. ASSUME UNCHANGED <<wg, track, sender>> PROVE CountInv'
  BY <1>0, <1>1 DEF CountInv, TracksInv, WaitGroupInv, CountedRemotes, CountedLocals
<1>2. ASSUME NEW r \in Remotes, NEW from \in TrackPlaces, NEW to \in TrackPlaces,
             TrackTo(r, from, to), wg' = wg, from \in TrackCounted <=> to \in TrackCounted
      PROVE  CountInv'
  <2>1. TracksInv' /\ CountedLocals' = CountedLocals /\ CountedRemotes' = CountedRemotes
    BY ONLY <1>0, <1>2, TrackSteps
  <2> QED BY <1>0, <1>2, <2>1 DEF CountInv, WaitGroupInv
<1>3. ASSUME NEW l \in Locals, NEW from \in SenderPlaces, NEW to \in SenderPlaces,
             SenderTo(l, from, to), wg' = wg, from \in SenderCounted <=> to \in SenderCounted
      PROVE  CountInv'
  <2>1. TracksInv' /\ CountedLocals' = CountedLocals /\ CountedRemotes' = CountedRemotes
    BY ONLY <1>0, <1>3, SenderSteps
  <2> QED BY <1>0, <1>3, <2>1 DEF CountInv, WaitGroupInv
<1>4. ASSUME NEW r \in Remotes, StartReading(r) PROVE CountInv'
  <2>1. TrackTo(r, "added", "reading") /\ wg' = wg + 1
    BY <1>4 DEF StartReading
  <2>2. /\ TracksInv' /\ CountedLocals' = CountedLocals
        /\ Cardinality(CountedRemotes)' = Cardinality(CountedRemotes) + 1
    BY <1>0, <2>1, TrackSteps
  <2> QED BY <1>0, <2>1, <2>2, CountsAreFinite DEF CountInv, WaitGroupInv
<1>5. ASSUME NEW r \in Remotes, TrackDone(r) PROVE CountInv'
  <2>1. TrackTo(r, "removed", "done") /\ wg' = wg - 1
    BY <1>5 DEF TrackDone
  <2>2. /\ TracksInv' /\ CountedLocals' = CountedLocals
        /\ Cardinality(CountedRemotes)' = Cardinality(CountedRemotes) - 1
    BY <1>0, <2>1, TrackSteps
  <2> QED BY <1>0, <2>1, <2>2, CountsAreFinite DEF CountInv, WaitGroupInv
<1>6. ASSUME NEW l \in Locals, AddTrackReturns(l) PROVE CountInv'
  <2>1. SenderTo(l, "added", "reading") /\ wg' = wg + 1
    BY <1>6 DEF AddTrackReturns
  <2>2. /\ TracksInv' /\ CountedRemotes' = CountedRemotes
        /\ Cardinality(CountedLocals)' = Cardinality(CountedLocals) + 1
    BY <1>0, <2>1, SenderSteps
  <2> QED BY <1>0, <2>1, <2>2, CountsAreFinite DEF CountInv, WaitGroupInv
<1>7. ASSUME NEW l \in Locals, SenderEnds(l) PROVE CountInv'
  <2>1. SenderTo(l, "reading", "done") /\ wg' = wg - 1
    BY <1>7 DEF SenderEnds
  <2>2. /\ TracksInv' /\ CountedRemotes' = CountedRemotes
        /\ Cardinality(CountedLocals)' = Cardinality(CountedLocals) - 1
    BY <1>0, <2>1, SenderSteps
  <2> QED BY <1>0, <2>1, <2>2, CountsAreFinite DEF CountInv, WaitGroupInv
<1>8. ASSUME NEW r \in Remotes,
             OnTrack(r) \/ HandleTrack(r) \/ TakeAddEvent(r) \/ ReadRTP(r) \/ TakeRTP(r)
               \/ TrackEnds(r) \/ TakeRemoveEvent(r)
      PROVE  CountInv'
  BY <1>8, <1>2 DEF OnTrack, HandleTrack, TakeAddEvent, ReadRTP, TakeRTP, TrackEnds,
     TakeRemoveEvent
<1>9. ASSUME NEW l \in Locals, AddTrack(l) \/ ReadRTCP(l) \/ TakeRTCP(l) PROVE CountInv'
  BY <1>9, <1>3 DEF AddTrack, ReadRTCP, TakeRTCP
<1>10. ASSUME NEW l \in Locals, Negotiated(l) \/ RemoveTrack(l) PROVE CountInv'
  BY <1>1, <1>10 DEF Negotiated, RemoveTrack, remoteVars
<1>11. CASE Close \/ ClosePeerConnection \/ CloserStep
  BY <1>1, <1>11 DEF Close, ClosePeerConnection, CloserStep, CloserWait, CloseData, CloseMessages,
     CloseRTP, CloseRTCP, CloseTrackEvents, Closer, remoteVars, localVars
<1>12. CASE HandleMessage \/ MessageDropped \/ TakeMessage \/ \E g \in Loops : Handle(g)
  BY <1>1, <1>12 DEF HandleMessage, MessageDropped, TakeMessage, Handle, DataStep, remoteVars,
     localVars
<1>13. CASE BroadcastHere \/ SendText \/ Panic
  BY <1>1, <1>13 DEF BroadcastHere, SendText, Panic, remoteVars, localVars
<1>14. CASE UNCHANGED vars
  BY <1>1, <1>14 DEF vars, remoteVars, localVars
<1> QED
  BY <1>4, <1>5, <1>6, <1>7, <1>8, <1>9, <1>10, <1>11, <1>12, <1>13, <1>14
     DEF Next, RemoteStep, LocalStep

\* The WaitGroup counts the readers that have not ended.
THEOREM WaitGroupCounts == Spec => []CountInv
<1> QED BY CountInit, CountStep, PTL DEF Spec

(***************************************************************************)
(* Every variable keeps its type.  The counter of the WaitGroup is never   *)
(* negative, because it is a number of readers: no wg.Done comes without   *)
(* its wg.Add (webrtctransport.go:328, 440), which would panic.            *)
(***************************************************************************)
THEOREM TransportTypeCorrect == Spec => []TypeOK
<1>1. Init => TypeOK
  <2> SUFFICES ASSUME Init PROVE TypeOK
    OBVIOUS
  <2>1. closeChannel \in BOOLEAN /\ pcClosed \in BOOLEAN /\ panicked \in BOOLEAN
    BY Zenon DEF Init
  <2> QED BY <2>1 DEF Init, TypeOK, CloserSteps, Loops, None
<1>2. ASSUME CountInv' PROVE wg' \in Nat
  <2>1. IsFiniteSet(CountedRemotes') /\ IsFiniteSet(CountedLocals')
    BY TracksAssumption, FS_Subset DEF CountedRemotes, CountedLocals
  <2>2. Cardinality(CountedRemotes') \in Nat /\ Cardinality(CountedLocals') \in Nat
    BY <2>1, FS_CardinalityType
  <2> QED BY <1>2, <2>2 DEF CountInv, WaitGroupInv
<1>3. ASSUME TypeOK, CountInv', [Next]_vars PROVE TypeOK'
  <2> USE DEF TypeOK, closeVars, remoteVars, localVars, dataVars
  <2>0. /\ track' \in [Remotes -> TrackPlaces] /\ sender' \in [Locals -> SenderPlaces]
        /\ wg' \in Nat
    BY <1>2, <1>3 DEF CountInv, TracksInv
  <2>1. CASE Close \/ ClosePeerConnection \/ Panic
    <3>1. closeChannel' \in BOOLEAN /\ pcClosed' \in BOOLEAN /\ panicked' \in BOOLEAN
      BY <1>3, <2>1, Zenon DEF Close, ClosePeerConnection, Panic
    <3> QED BY <1>3, <2>1, <3>1 DEF Close, ClosePeerConnection, Panic
  <2>2. CASE CloserStep
    BY <1>3, <2>2 DEF CloserStep, CloserWait, CloseData, CloseMessages, CloseRTP, CloseRTCP,
       CloseTrackEvents, Closer, CloserSteps
  <2>3. ASSUME NEW r \in Remotes,
               OnTrack(r) \/ RemoteStep(r) \/ ReadRTP(r) \/ TrackEnds(r)
        PROVE  TypeOK'
    BY <1>3, <2>0, <2>3 DEF TrackPlaces, RemoteStep, OnTrack, HandleTrack, TakeAddEvent,
       StartReading, ReadRTP, TakeRTP, TrackEnds, TakeRemoveEvent, TrackDone, TrackTo, Loops
  <2>4. ASSUME NEW l \in Locals,
               \/ AddTrack(l) \/ LocalStep(l) \/ Negotiated(l)
               \/ ReadRTCP(l) \/ SenderEnds(l) \/ RemoveTrack(l)
        PROVE  TypeOK'
    BY <1>3, <2>0, <2>4 DEF SenderPlaces, LocalStep, AddTrack, AddTrackReturns, Negotiated,
       ReadRTCP, TakeRTCP, SenderEnds, RemoveTrack, SenderTo, Loops
  <2>5. CASE HandleMessage \/ MessageDropped \/ TakeMessage \/ \E g \in Loops : Handle(g)
    BY <1>3, <2>5 DEF HandleMessage, MessageDropped, TakeMessage, Handle, DataStep, Loops
  <2>6. CASE BroadcastHere \/ SendText \/ UNCHANGED vars
    BY <1>3, <2>6 DEF BroadcastHere, SendText, vars
  <2> QED BY <1>3, <2>1, <2>2, <2>3, <2>4, <2>5, <2>6 DEF Next
<1> QED BY <1>1, <1>3, WaitGroupCounts, PTL DEF Spec

(***************************************************************************)
(* The closing goroutine stops waiting (webrtctransport.go:221) only when  *)
(* every reader that was counted is done, for any number of tracks.        *)
(***************************************************************************)
THEOREM WaitIsEnough == Spec => WaitEndsAfterReaders
<1>1. ASSUME CountInv, [Next]_vars, closer = "wait", closer' # "wait"
      PROVE  /\ \A r \in Remotes : track[r] \notin TrackCounted
             /\ \A l \in Locals : sender[l] \notin SenderCounted
  <2>1. CloserWait
    BY <1>1 DEF Next, vars, closeVars, Close, ClosePeerConnection, CloserStep, CloseData,
       CloseMessages, CloseRTP, CloseRTCP, CloseTrackEvents, Closer, RemoteStep, LocalStep,
       OnTrack, HandleTrack, TakeAddEvent, StartReading, ReadRTP, TakeRTP, TrackEnds,
       TakeRemoveEvent, TrackDone, TrackTo, AddTrack, AddTrackReturns, Negotiated, ReadRTCP,
       TakeRTCP, SenderEnds, RemoveTrack, SenderTo, HandleMessage, MessageDropped, TakeMessage,
       Handle, DataStep, BroadcastHere, SendText, Panic
  <2>2. wg = 0
    BY <2>1 DEF CloserWait
  <2>3. Cardinality(CountedRemotes) = 0 /\ Cardinality(CountedLocals) = 0
    BY <1>1, <2>2, CountsAreFinite DEF CountInv, WaitGroupInv
  <2>4. CountedRemotes = {} /\ CountedLocals = {}
    BY <2>3, CountsAreFinite, FS_EmptySet
  <2> QED BY <2>4 DEF CountedRemotes, CountedLocals
<1>2. CountInv /\ [Next]_vars =>
        [closer = "wait" /\ closer' # "wait" =>
           /\ \A r \in Remotes : track[r] \notin {"reading", "packet", "removing", "removed"}
           /\ \A l \in Locals : sender[l] \notin {"reading", "packet"}]_vars
  BY <1>1 DEF TrackCounted, SenderCounted
<1> QED BY <1>2, WaitGroupCounts, PTL DEF Spec, WaitEndsAfterReaders

(***************************************************************************)
(* handleMessage never writes to messagesChan after it was closed: the     *)
(* closing goroutine takes the mutex that handleMessage holds while it     *)
(* waits (datatransceiver.go:64, 77), and a later message finds the        *)
(* channel marked as closed.                                               *)
(***************************************************************************)
THEOREM NoMessageOnClosedChannel == Spec => []MessagesChannelOpen
<1> USE DEF MessagesChannelOpen, MessageToClosed
<1>1. Init => MessagesChannelOpen
  BY DEF Init
<1>2. ASSUME MessagesChannelOpen, [Next]_vars PROVE MessagesChannelOpen'
  <2>1. CASE UNCHANGED <<pump, closer>>
    BY <1>2, <2>1 DEF messagesOpen
  <2>2. CASE CloserStep
    BY <1>2, <2>2 DEF CloserStep, CloserWait, CloseData, CloseMessages, CloseRTP, CloseRTCP,
       CloseTrackEvents, Closer, messagesOpen, dataVars
  <2>3. CASE HandleMessage \/ MessageDropped \/ TakeMessage
    BY <1>2, <2>3 DEF HandleMessage, MessageDropped, TakeMessage, DataStep, messagesOpen, closeVars
  <2> QED
    BY <1>2, <2>1, <2>2, <2>3 DEF Next, vars, closeVars, dataVars, Close, ClosePeerConnection,
       RemoteStep, LocalStep, OnTrack, HandleTrack, TakeAddEvent, StartReading, ReadRTP, TakeRTP,
       TrackEnds, TakeRemoveEvent, TrackDone, TrackTo, AddTrack, AddTrackReturns, Negotiated,
       ReadRTCP, TakeRTCP, SenderEnds, RemoveTrack, SenderTo, Handle, DataStep, BroadcastHere,
       SendText, Panic
<1> QED BY <1>1, <1>2, PTL DEF Spec

-----------------------------------------------------------------------------
(* The bitrate estimators that the RTCP loops and the Track events of the
   transports call (remb.go): the cache stays a lower bound, and
   BitrateEstimators implements BitrateLimit. *)

AllRates == Rates \cup {MaxRate}

\* A non-empty set of natural numbers has a lowest member, which Min returns.
LEMMA MinOfNaturals ==
  ASSUME NEW S \in SUBSET Nat, S # {}
  PROVE  Min(S) \in S /\ \A y \in S : Min(S) <= y
<1>1. PICK x \in S : \A y \in S : ~(<<y, x>> \in OpToRel(<, Nat))
  BY NatLessThanWellFounded, WFMin
<1>2. \A y \in S : x <= y
  <2> TAKE y \in S
  <2>1. <<y, x>> \in Nat \X Nat
    OBVIOUS
  <2>2. ~(y < x)
    BY <1>1, <2>1 DEF OpToRel
  <2> QED BY <2>2
<1> QED BY <1>2 DEF Min

\* Min returns a member of a set that is below all of it.
LEMMA MinIs ==
  ASSUME NEW S \in SUBSET Nat, NEW x \in S, \A y \in S : x <= y
  PROVE  Min(S) = x
<1>1. Min(S) \in S /\ \A y \in S : Min(S) <= y
  BY MinOfNaturals
<1>2. Min(S) \in Nat /\ x \in Nat /\ Min(S) <= x /\ x <= Min(S)
  BY <1>1
<1> QED BY <1>2

-----------------------------------------------------------------------------

\* One estimator: its fields are well formed and its cache is a lower bound.
Good(e) ==
  /\ e = [bitrate |-> e.bitrate, estimates |-> e.estimates]
  /\ e.bitrate \in AllRates
  /\ IsMap(e.estimates, Receivers, Rates)
  /\ \A c \in DOMAIN e.estimates : e.bitrate <= e.estimates[c]

\* The inductive invariant.
EstimatorsInv ==
  /\ DOMAIN estimators \subseteq SSRCs
  /\ estimators = [s \in DOMAIN estimators |-> estimators[s]]
  /\ \A s \in DOMAIN estimators : Good(estimators[s])
  /\ answer \in AllRates

\* Put and Delete keep a map a map.
LEMMA MapOperations ==
  ASSUME NEW K, NEW V, NEW m, IsMap(m, K, V), NEW k \in K, NEW v \in V
  PROVE  /\ IsMap(Put(m, k, v), K, V)
         /\ IsMap(Delete(m, k), K, V)
BY DEF IsMap, Put, Delete

\* A report keeps an estimator good, and its new cache is the lowest report.
LEMMA EstimateTrackGood ==
  ASSUME NEW e, Good(e), NEW c \in Receivers, NEW rate \in Rates
  PROVE  LET new == EstimateTrack(e, c, rate)
             S   == {new.estimates[d] : d \in DOMAIN new.estimates}
         IN  /\ Good(new)
             /\ new.estimates = Put(e.estimates, c, rate)
             /\ S \subseteq Rates
             /\ new.bitrate \in S
             /\ \A y \in S : new.bitrate <= y
<1> DEFINE new == EstimateTrack(e, c, rate)
           est == Put(e.estimates, c, rate)
           S   == {est[d] : d \in DOMAIN est}
           T   == {rate} \cup {e.estimates[d] : d \in DOMAIN e.estimates \ {c}}
<1>1. new.estimates = est /\ new = [bitrate |-> new.bitrate, estimates |-> new.estimates]
  BY DEF EstimateTrack
<1>2. IsMap(est, Receivers, Rates)
  BY MapOperations DEF Good
<1>3. DOMAIN est = DOMAIN e.estimates \cup {c} /\ est[c] = rate
      /\ \A d \in DOMAIN e.estimates \ {c} : est[d] = e.estimates[d]
  BY DEF Put
<1>4. S = T
  BY <1>3
<1>5. S \subseteq Rates
  BY <1>2 DEF IsMap
<1>6. new.bitrate \in T /\ \A y \in T : new.bitrate <= y
  <2>1. CASE rate <= e.bitrate
    <3>1. new.bitrate = rate
      BY <2>1 DEF EstimateTrack
    <3>2. \A d \in DOMAIN e.estimates : e.estimates[d] \in Nat /\ e.bitrate <= e.estimates[d]
      BY RatesAssumption DEF Good, IsMap
    <3>3. rate \in Nat /\ e.bitrate \in Nat
      BY RatesAssumption DEF Good, AllRates
    <3>4. \A d \in DOMAIN e.estimates : rate <= e.estimates[d]
      BY <2>1, <3>2, <3>3
    <3> QED BY <3>1, <3>3, <3>4
  <2>2. CASE ~(rate <= e.bitrate)
    <3>1. new.bitrate = Min(T)
      BY <2>2 DEF EstimateTrack, Lowest
    <3>2. T \in SUBSET Nat /\ T # {}
      BY <1>4, <1>5, RatesAssumption
    <3> HIDE DEF T, new
    <3> QED BY <3>1, <3>2, MinOfNaturals
  <2> QED BY <2>1, <2>2
<1>7. new.bitrate \in S /\ \A y \in S : new.bitrate <= y
  BY <1>4, <1>6
<1>8. new.bitrate \in AllRates
  BY <1>5, <1>7 DEF AllRates
<1>9. \A d \in DOMAIN est : new.bitrate <= est[d]
  BY <1>7
<1>10. Good(new)
  <2> HIDE DEF est, new, S, T
  <2> QED BY <1>1, <1>2, <1>8, <1>9 DEF Good
<1> QED BY <1>1, <1>5, <1>7, <1>10

\* Dropping a receiver's report keeps an estimator good.
LEMMA RemoveEstimationGood ==
  ASSUME NEW e, Good(e), NEW c \in Receivers
  PROVE  /\ Good(RemoveEstimation(e, c))
         /\ RemoveEstimation(e, c).estimates = Delete(e.estimates, c)
<1> DEFINE new == RemoveEstimation(e, c)
<1>1. /\ new = [bitrate |-> new.bitrate, estimates |-> new.estimates]
      /\ new.bitrate = e.bitrate
      /\ new.estimates = Delete(e.estimates, c)
  BY DEF RemoveEstimation, Good
<1>2. IsMap(Delete(e.estimates, c), Receivers, Rates)
  BY DEF Good, IsMap, Delete
<1>3. \A d \in DOMAIN Delete(e.estimates, c) : e.bitrate <= Delete(e.estimates, c)[d]
  BY DEF Good, Delete
<1> HIDE DEF new
<1> QED BY <1>1, <1>2, <1>3 DEF Good, new

\* A track without an estimator gets a new one, which is good.
LEMMA EstimatorOfGood ==
  ASSUME EstimatorsInv, NEW s
  PROVE  /\ Good(EstimatorOf(s))
         /\ s \in DOMAIN estimators => EstimatorOf(s) = estimators[s]
         /\ s \notin DOMAIN estimators => EstimatorOf(s).estimates = EmptyMap
<1>1. IsMap(EmptyMap, Receivers, Rates) /\ DOMAIN EmptyMap = {}
  BY DEF IsMap, EmptyMap
<1>2. Good(NewBitrateEstimator) /\ NewBitrateEstimator.estimates = EmptyMap
  BY <1>1 DEF Good, NewBitrateEstimator, AllRates
<1> QED BY <1>2 DEF EstimatorOf, EstimatorsInv

\* The answer to a report is a rate.
LEMMA AnswerIsRate ==
  ASSUME NEW S \in SUBSET AllRates
  PROVE  /\ Min({MaxRate} \cup S) \in AllRates
         /\ {MaxRate} \cup S \in SUBSET Nat
         /\ \A y \in {MaxRate} \cup S : Min({MaxRate} \cup S) <= y
<1> DEFINE T == {MaxRate} \cup S
<1>1. T \in SUBSET Nat /\ T # {}
  BY RatesAssumption DEF AllRates
<1>2. Min(T) \in T /\ \A y \in T : Min(T) <= y
  <2> HIDE DEF T
  <2> QED BY <1>1, MinOfNaturals
<1> QED BY <1>1, <1>2 DEF AllRates
-----------------------------------------------------------------------------

\* The reports of the estimators, as BitrateLimit sees them.
Reported == [s \in DOMAIN estimators |-> estimators[s].estimates]

\* The instance of BitrateLimit has the same operators on maps and numbers.
LEMMA SameOperators ==
  /\ \A m, k, v : Limit!Put(m, k, v) = Put(m, k, v)
  /\ \A m, k : Limit!Delete(m, k) = Delete(m, k)
  /\ \A S : Limit!Min(S) = Min(S)
  /\ Limit!EmptyMap = EmptyMap
BY DEF Limit!Put, Put, Limit!Delete, Delete, Limit!Min, Min, Limit!EmptyMap, EmptyMap

\* A report keeps the invariant and is a Report of BitrateLimit.
LEMMA EstimateStep ==
  ASSUME EstimatorsInv, NEW c \in Receivers, NEW ssrcs \in SUBSET SSRCs,
         NEW rate \in Rates, Estimate(c, ssrcs, rate)
  PROVE  EstimatorsInv' /\ Limit!Report(c, ssrcs, rate)
<1> DEFINE new(s) == EstimateTrack(EstimatorOf(s), c, rate)
           R(s)   == {new(s).estimates[d] : d \in DOMAIN new(s).estimates}
           B      == {new(s).bitrate : s \in ssrcs}
           L      == {MaxRate} \cup UNION {R(s) : s \in ssrcs}
<1>1. \A s \in ssrcs : /\ Good(new(s))
                       /\ new(s).estimates = Put(EstimatorOf(s).estimates, c, rate)
                       /\ R(s) \subseteq Rates
                       /\ new(s).bitrate \in R(s)
                       /\ \A y \in R(s) : new(s).bitrate <= y
  BY EstimatorOfGood, EstimateTrackGood
<1>2. /\ DOMAIN estimators' = DOMAIN estimators \cup ssrcs
      /\ estimators' = [s \in DOMAIN estimators' |-> estimators'[s]]
      /\ \A s \in ssrcs : estimators'[s] = new(s)
      /\ \A s \in DOMAIN estimators \ ssrcs : estimators'[s] = estimators[s]
  BY DEF Estimate
<1> HIDE DEF new
<1>3. {estimators'[s].bitrate : s \in ssrcs} = B
  BY <1>2
<1>4. answer' = Min({MaxRate} \cup B)
  BY <1>3 DEF Estimate
<1>5. B \in SUBSET AllRates
  BY <1>1 DEF AllRates
<1>6. /\ answer' \in AllRates
      /\ answer' \in {MaxRate} \cup B
      /\ {MaxRate} \cup B \in SUBSET Nat
      /\ \A y \in {MaxRate} \cup B : answer' <= y
  <2> HIDE DEF B
  <2>1. {MaxRate} \cup B \in SUBSET Nat /\ {MaxRate} \cup B # {}
    BY <1>5, AnswerIsRate
  <2> QED BY <1>4, <1>5, <2>1, AnswerIsRate, MinOfNaturals
<1>7. EstimatorsInv'
  <2>1. \A s \in DOMAIN estimators' : Good(estimators'[s])
    BY <1>1, <1>2 DEF EstimatorsInv
  <2>2. DOMAIN estimators' \subseteq SSRCs
    BY <1>2 DEF EstimatorsInv
  <2> QED BY <1>2, <1>6, <2>1, <2>2 DEF EstimatorsInv
<1>8. Reported' = [s \in DOMAIN Reported \cup ssrcs |->
                     IF s \in ssrcs
                     THEN Put(IF s \in DOMAIN Reported THEN Reported[s] ELSE EmptyMap,
                              c, rate)
                     ELSE Reported[s]]
  <2>1. DOMAIN Reported = DOMAIN estimators
        /\ \A s \in DOMAIN estimators : Reported[s] = estimators[s].estimates
    BY DEF Reported
  <2>2. \A s \in ssrcs :
          EstimatorOf(s).estimates
            = IF s \in DOMAIN Reported THEN Reported[s] ELSE EmptyMap
    BY <2>1, EstimatorOfGood
  <2>3. \A s \in DOMAIN estimators \cup ssrcs :
          estimators'[s].estimates
            = IF s \in ssrcs THEN Put(EstimatorOf(s).estimates, c, rate) ELSE Reported[s]
    BY <1>1, <1>2, <2>1
  <2>4. Reported' = [s \in DOMAIN estimators \cup ssrcs |-> estimators'[s].estimates]
    BY <1>2 DEF Reported
  <2> QED BY <2>1, <2>2, <2>3, <2>4
<1>9. answer' = Min(L)
  <2>1. L \in SUBSET Nat
    BY <1>1, RatesAssumption
  <2>2. answer' \in L
    <3>1. B \subseteq UNION {R(s) : s \in ssrcs}
      BY <1>1
    <3> QED BY <1>6, <3>1
  <2>3. \A y \in L : answer' <= y
    <3> SUFFICES ASSUME NEW y \in L PROVE answer' <= y
      OBVIOUS
    <3>1. CASE y = MaxRate
      BY <1>6, <3>1
    <3>2. CASE \E s \in ssrcs : y \in R(s)
      <4>1. PICK s \in ssrcs : y \in R(s)
        BY <3>2
      <4>2. new(s).bitrate \in B /\ new(s).bitrate <= y
        BY <1>1, <4>1
      <4>3. answer' <= new(s).bitrate /\ new(s).bitrate \in Nat /\ answer' \in Nat
        BY <1>6, <4>2
      <4>4. y \in Nat
        BY <2>1
      <4> QED BY <4>2, <4>3, <4>4
    <3> QED BY <3>1, <3>2
  <2> HIDE DEF L
  <2> QED BY <2>1, <2>2, <2>3, MinIs
<1>10. L = {MaxRate} \cup UNION {{Reported'[s][d] : d \in DOMAIN Reported'[s]} : s \in ssrcs}
  <2>1. \A s \in ssrcs : Reported'[s] = new(s).estimates
    BY <1>2 DEF Reported
  <2> QED BY <2>1
<1>11. Limit!Report(c, ssrcs, rate)
  <2>1. Limit!Limits(Reported', ssrcs) = L
    BY <1>10 DEF Limit!Limits
  <2>2. answer' = Limit!Min(Limit!Limits(Reported', ssrcs))
    BY <1>9, <2>1, SameOperators
  <2>3. \A s \in ssrcs :
          Limit!Put(Limit!Reports(s), c, rate)
            = Put(IF s \in DOMAIN Reported THEN Reported[s] ELSE EmptyMap, c, rate)
    BY SameOperators DEF Limit!Reports, Reported
  <2>4. Reported' = [s \in DOMAIN Reported \cup ssrcs |->
                       IF s \in ssrcs THEN Limit!Put(Limit!Reports(s), c, rate)
                                      ELSE Reported[s]]
    BY <1>8, <2>3
  <2> QED BY <2>2, <2>4 DEF Limit!Report, Reported
<1> QED BY <1>7, <1>11

\* Leaving keeps the invariant and is a Leave of BitrateLimit.
LEMMA LeaveStep ==
  ASSUME EstimatorsInv, NEW c \in Receivers, RemoveReceiverEstimations(c)
  PROVE  EstimatorsInv' /\ Limit!Leave(c)
<1>1. \A s \in DOMAIN estimators :
        /\ Good(RemoveEstimation(estimators[s], c))
        /\ RemoveEstimation(estimators[s], c).estimates = Delete(estimators[s].estimates, c)
  BY RemoveEstimationGood DEF EstimatorsInv
<1>2. /\ DOMAIN estimators' = DOMAIN estimators
      /\ estimators' = [s \in DOMAIN estimators' |-> estimators'[s]]
      /\ \A s \in DOMAIN estimators : estimators'[s] = RemoveEstimation(estimators[s], c)
      /\ answer' = answer
  BY DEF RemoveReceiverEstimations
<1>3. EstimatorsInv'
  BY <1>1, <1>2 DEF EstimatorsInv
<1>4. Reported' = [s \in DOMAIN Reported |-> Limit!Delete(Reported[s], c)]
  <2>1. DOMAIN Reported = DOMAIN estimators
        /\ \A s \in DOMAIN estimators : Reported[s] = estimators[s].estimates
    BY DEF Reported
  <2>2. \A s \in DOMAIN estimators : estimators'[s].estimates = Limit!Delete(Reported[s], c)
    BY <1>1, <1>2, <2>1, SameOperators
  <2>3. Reported' = [s \in DOMAIN estimators |-> estimators'[s].estimates]
    BY <1>2 DEF Reported
  <2> QED BY <2>1, <2>2, <2>3
<1>5. Limit!Leave(c)
  BY <1>2, <1>4 DEF Limit!Leave, Reported
<1> QED BY <1>3, <1>5

\* The end of a track keeps the invariant and is an EndTrack of BitrateLimit.
LEMMA EndTrackStep ==
  ASSUME EstimatorsInv, NEW s \in SSRCs, Remove(s)
  PROVE  EstimatorsInv' /\ Limit!EndTrack(s)
<1>1. /\ DOMAIN estimators' = DOMAIN estimators \ {s}
      /\ estimators' = [t \in DOMAIN estimators' |-> estimators'[t]]
      /\ \A t \in DOMAIN estimators' : estimators'[t] = estimators[t]
      /\ answer' = answer
  BY DEF Remove, Delete
<1>2. EstimatorsInv'
  BY <1>1 DEF EstimatorsInv
<1>3. Reported' = Limit!Delete(Reported, s)
  BY <1>1 DEF Reported, Limit!Delete
<1>4. Limit!EndTrack(s)
  BY <1>1, <1>3 DEF Limit!EndTrack, Reported
<1> QED BY <1>2, <1>4

-----------------------------------------------------------------------------

\* The invariant holds initially.
LEMMA EstimatorsInit ==
  InitEstimators => EstimatorsInv /\ Limit!Init
<1> SUFFICES ASSUME InitEstimators PROVE EstimatorsInv /\ Limit!Init
  OBVIOUS
<1>1. DOMAIN estimators = {} /\ estimators = [s \in DOMAIN estimators |-> estimators[s]]
      /\ answer = MaxRate
  BY DEF InitEstimators, EmptyMap
<1>2. EstimatorsInv
  BY <1>1 DEF EstimatorsInv, AllRates
<1>3. Reported = Limit!EmptyMap
  BY <1>1 DEF Reported, Limit!EmptyMap
<1> QED BY <1>1, <1>2, <1>3 DEF Limit!Init, Reported

\* Every step keeps the invariant and is a step of BitrateLimit.
LEMMA EstimatorsNext ==
  EstimatorsInv /\ [NextEstimators]_estimatorVars =>
    EstimatorsInv' /\ [Limit!Next]_<<Reported, answer>>
<1> SUFFICES ASSUME EstimatorsInv, [NextEstimators]_estimatorVars
             PROVE  EstimatorsInv' /\ [Limit!Next]_<<Reported, answer>>
  OBVIOUS
<1>1. ASSUME NEW c \in Receivers, NEW ssrcs \in SUBSET SSRCs, NEW rate \in Rates,
             Estimate(c, ssrcs, rate)
      PROVE  EstimatorsInv' /\ Limit!Next
  BY <1>1, EstimateStep DEF Limit!Next
<1>2. ASSUME NEW c \in Receivers, RemoveReceiverEstimations(c)
      PROVE  EstimatorsInv' /\ Limit!Next
  BY <1>2, LeaveStep DEF Limit!Next
<1>3. ASSUME NEW s \in SSRCs, Remove(s)
      PROVE  EstimatorsInv' /\ Limit!Next
  BY <1>3, EndTrackStep DEF Limit!Next
<1>4. CASE UNCHANGED estimatorVars
  BY <1>4 DEF estimatorVars, EstimatorsInv, Good, Reported
<1> QED BY <1>1, <1>2, <1>3, <1>4 DEF NextEstimators

\* The inductive invariant holds of every behaviour of the estimators.
THEOREM EstimatorsInvariant == EstimatorsSpec => []EstimatorsInv
BY EstimatorsInit, EstimatorsNext, PTL DEF EstimatorsSpec

(***************************************************************************)
(* The cached bitrate of a track (BitrateEstimator.bitrate) is never above *)
(* an estimate of one of its receivers, for every number of tracks,        *)
(* receivers and rates.                                                    *)
(***************************************************************************)
THEOREM CacheCorrect == EstimatorsSpec => []CacheIsLowerBound
<1>1. EstimatorsInv => CacheIsLowerBound
  BY DEF EstimatorsInv, Good, CacheIsLowerBound
<1> QED BY <1>1, EstimatorsInvariant, PTL

(***************************************************************************)
(* The state of the estimators is well formed.                             *)
(***************************************************************************)
THEOREM EstimatorsTypeCorrect == EstimatorsSpec => []EstimatorsTypeOK
<1>1. EstimatorsInv => EstimatorsTypeOK
  BY DEF EstimatorsInv, Good, EstimatorsTypeOK, AllRates
<1> QED BY <1>1, EstimatorsInvariant, PTL

(***************************************************************************)
(* TrackBitrateEstimators implements BitrateLimit: with its cache, every   *)
(* call of Estimate answers the lowest report of the present receivers.    *)
(***************************************************************************)
THEOREM LimitImplemented == EstimatorsSpec => ImplementsLimit
<1>1. InitEstimators => Limit!Init
  BY EstimatorsInit
<1>2. EstimatorsInv /\ [NextEstimators]_estimatorVars => [Limit!Next]_<<Reported, answer>>
  BY EstimatorsNext
<1> QED BY <1>1, <1>2, EstimatorsInvariant, PTL
           DEF EstimatorsSpec, ImplementsLimit, Limit!Spec, Reported
=============================================================================
