-------------------------- MODULE SignallingProofs --------------------------
(***************************************************************************)
(* What Signalling promises for any tracks, transceivers, candidates,      *)
(* number of renegotiations, endings and faults.                           *)
(***************************************************************************)
EXTENDS Signalling, TLAPS

(***************************************************************************)
(* Type correctness.                                                       *)
(***************************************************************************)

\* An offer or a candidate is a payload.
LEMMA PayloadTypes ==
  /\ \A changes \in SUBSET Change : Offer(changes) \in Payload
  /\ CandidatePayload \in Payload
BY DEF Offer, CandidatePayload, Payload

\* negotiate() keeps the types of everything it assigns.
LEMMA NegotiateType ==
  ASSUME TypeOK, NEW t \in Threads, negotiate(t)
  PROVE  /\ queuedTransceivers' \subseteq Transceivers
         /\ local' \subseteq Change
         /\ offered' \subseteq Change
         /\ nMu' \in Threads \cup {None}
         /\ pcState' \in {"stable", "have-local-offer", "closed"}
         /\ pc' \in [Threads -> {"idle", "negotiate", "signal", "close", "cleanup", "ended",
                                 "add", "room", "finish"}]
<1>1. local \cup ({"request"} \X queuedTransceivers) \subseteq Change
  BY DEF TypeOK, Change
<1>2. Return(t) \in {"idle", "add", "finish"}
  BY DEF Return
<1> QED
  BY <1>1, <1>2 DEF negotiate, TypeOK, Goto

\* Every variable keeps its type: the program counters, the channels and the
\* sets of changes hold what the code can put there.
THEOREM TypeCorrect == Spec => []TypeOK
<1>1. Init => TypeOK
  <2> SUFFICES ASSUME Init PROVE TypeOK
    OBVIOUS
  <2> USE DEF Init, None
  <2>1. /\ negotiationDone \in BOOLEAN /\ queuedNegotiation \in BOOLEAN
        /\ descriptionSent \in BOOLEAN /\ inRoom \in BOOLEAN
    BY Zenon
  <2>2. /\ sender \in [payload : Payload \cup {NoPayload}, ch : {"open", "nil"}]
        /\ pc \in [Threads -> {"idle", "negotiate", "signal", "close", "cleanup", "ended",
                               "add", "room", "finish"}]
        /\ candidate \in [Candidates -> {"none", "waiting", "done"}]
    OBVIOUS
  <2>3. local \subseteq Change /\ toClient \in Seq(Payload) /\ toServer \in Seq(ClientMessage)
    BY DEF Change
  <2> QED
    BY <2>1, <2>2, <2>3 DEF TypeOK
<1>2. TypeOK /\ [Next]_vars => TypeOK'
  <2> SUFFICES ASSUME TypeOK, [Next]_vars PROVE TypeOK'
    OBVIOUS
  <2>1. ASSUME NEW t \in Threads, Negotiate(t) PROVE TypeOK'
    <3>1. CASE negotiationDone
      BY <2>1, <3>1 DEF Negotiate, TypeOK, Goto, Return, signallerVars, roomVars, consumerVars, clientVars
    <3>2. CASE ~negotiationDone
      <4>1. negotiate(t)
        BY <2>1, <3>2 DEF Negotiate
      <4>2. negotiationDone' \in BOOLEAN
        BY <2>1, <3>2 DEF Negotiate
      <4>3. UNCHANGED <<queuedNegotiation, stablePending, signallerVars, roomVars, consumerVars,
                        clientVars>>
        BY <2>1, <3>2 DEF Negotiate
      <4> QED
        BY <4>1, <4>2, <4>3, NegotiateType
        DEF TypeOK, signallerVars, roomVars, consumerVars, clientVars
    <3> QED BY <3>1, <3>2
  <2>2. ASSUME StableCallback PROVE TypeOK'
    <3>1. CASE queuedNegotiation
      <4>1. negotiate("stable") /\ "stable" \in Threads
        BY <2>2, <3>1 DEF StableCallback, Threads
      <4>2. queuedNegotiation' \in BOOLEAN
        BY <2>2, <3>1, Zenon DEF StableCallback
      <4>4. stablePending' = stablePending - 1 /\ stablePending > 0
        BY <2>2 DEF StableCallback
      <4>3. UNCHANGED <<negotiationDone, signallerVars, roomVars, consumerVars, clientVars>>
        BY <2>2, <3>1 DEF StableCallback
      <4> QED
        BY <4>1, <4>2, <4>3, <4>4, NegotiateType
        DEF TypeOK, signallerVars, roomVars, consumerVars, clientVars
    <3>2. CASE ~queuedNegotiation
      <4>1. negotiationDone' \in BOOLEAN
        BY <2>2, <3>2, Zenon DEF StableCallback
      <4>3. stablePending' = stablePending - 1 /\ stablePending > 0
        BY <2>2 DEF StableCallback
      <4>2. UNCHANGED <<queuedNegotiation, queuedTransceivers, nMu, pcState, local, offered, pc,
                        signallerVars, roomVars, consumerVars, clientVars>>
        BY <2>2, <3>2 DEF StableCallback
      <4> QED
        BY <4>1, <4>2, <4>3 DEF TypeOK, signallerVars, roomVars, consumerVars, clientVars
    <3> QED BY <3>1, <3>2
  <2> USE DEF TypeOK, negotiatorVars, signallerVars, connectionVars, roomVars, consumerVars, clientVars
  <2>3. ASSUME NEW t \in Threads, SignalOffer(t) PROVE TypeOK'
    BY <2>3, PayloadTypes DEF SignalOffer, onSignal, Goto, Return
  <2>4. ASSUME NEW t \in Threads, CloseEnd(t) PROVE TypeOK'
    BY <2>4 DEF CloseEnd, Goto
  <2>5. ASSUME NEW t \in Threads, FinishTrack(t) PROVE TypeOK'
    BY <2>5 DEF FinishTrack, Goto, NoOp, None
  <2>6. ASSUME NEW t \in Threads, NEW change \in {"add", "remove"} \X Tracks, ChangeTrack(t, change)
        PROVE TypeOK'
    BY <2>6 DEF ChangeTrack, EntersRoom, Goto, Change, Threads
  <2>7. ASSUME NEW c \in Candidates, GatherCandidate(c) PROVE TypeOK'
    BY <2>7 DEF GatherCandidate
  <2>8. ASSUME NEW c \in Candidates, handleICECandidate(c) PROVE TypeOK'
    BY <2>8, PayloadTypes DEF handleICECandidate, onSignal
  <2>9. CASE ClosedCallback
    <3>1. negotiationDone' \in BOOLEAN
      BY <2>9, Zenon DEF ClosedCallback
    <3>2. UNCHANGED <<queuedNegotiation, queuedTransceivers, nMu, signallerVars, connectionVars,
                      roomVars, consumerVars, pc, clientVars>>
      BY <2>9 DEF ClosedCallback
    <3> QED BY <3>1, <3>2
  <2>10. CASE SenderDelivers
    <3>1. sender.payload \in Payload
      BY <2>10 DEF SenderDelivers, SignalMuFree
    <3> QED BY <2>10, <3>1 DEF SenderDelivers
  <2>11. CASE SenderAborts
    BY <2>11 DEF SenderAborts
  <2>12. CASE CloseLocked
    BY <2>12 DEF CloseLocked
  <2>13. CASE ICEConnectionLost
    BY <2>13 DEF ICEConnectionLost, CloseBegin, Goto, Threads
  <2>14. CASE AddBegin
    BY <2>14 DEF AddBegin, Goto, Threads
  <2>15. CASE AddEnd
    BY <2>15 DEF AddEnd, Goto, Threads
  <2>16. CASE RemoveFromRoom
    <3>1. inRoom' \in BOOLEAN
      BY <2>16, Zenon DEF RemoveFromRoom
    <3>2. UNCHANGED <<negotiatorVars, signallerVars, connectionVars, roomMu, op, localTracks,
                      consumerVars, pc, clientVars>>
      BY <2>16 DEF RemoveFromRoom
    <3> QED BY <3>1, <3>2
  <2>17. CASE ForwardMetadata
    BY <2>17 DEF ForwardMetadata
  <2>18. CASE ForwardSignal
    BY <2>18 DEF ForwardSignal
  <2>19. CASE ForwardEnd
    BY <2>19 DEF ForwardEnd
  <2>20. CASE IgnoreMessage
    BY <2>20 DEF IgnoreMessage, Receives
  <2>21. CASE handleRemoteAnswer
    BY <2>21 DEF handleRemoteAnswer, Receives
  <2>22. CASE HandleRenegotiate
    BY <2>22 DEF HandleRenegotiate, Receives, Goto, Threads
  <2>23. CASE handleTransceiverRequest
    BY <2>23 DEF handleTransceiverRequest, Receives, Goto, Threads, ClientMessage
  <2>24. CASE handleHangUp
    BY <2>24 DEF handleHangUp, Receives, CloseBegin, Goto, Threads
  <2>25. CASE Cleanup
    BY <2>25 DEF Cleanup, Receives, Goto, Threads
  <2>26. CASE ClientReceive
    <3>1. Head(toClient) \in Payload /\ toClient' \in Seq(Payload)
      BY <2>26 DEF ClientReceive
    <3>2. <<"answer", None>> \in ClientMessage
      BY DEF ClientMessage
    <3>3. remoteKnown' \subseteq Change
      <4>1. \A p \in Payload : p.has \subseteq Change
        BY DEF Payload
      <4> QED BY <2>26, <3>1, <4>1 DEF ClientReceive
    <3>4. toServer' \in Seq(ClientMessage)
      <4>1. \A m \in ClientMessage : Append(toServer, m) \in Seq(ClientMessage)
        OBVIOUS
      <4>2. toServer' = toServer \/ toServer' = Append(toServer, <<"answer", None>>)
        BY <2>26 DEF ClientReceive
      <4> QED BY <3>2, <4>1, <4>2, Zenon
    <3> QED BY <2>26, <3>1, <3>3, <3>4 DEF ClientReceive
  <2>27. ASSUME NEW m \in ClientMessage, ClientSend(m) PROVE TypeOK'
    BY <2>27 DEF ClientSend
  <2>28. CASE UNCHANGED vars
    BY <2>28 DEF vars
  <2> QED
    BY <2>1, <2>2, <2>3, <2>4, <2>5, <2>6, <2>7, <2>8, <2>9, <2>10, <2>11, <2>12, <2>13, <2>14,
       <2>15, <2>16, <2>17, <2>18, <2>19, <2>20, <2>21, <2>22, <2>23, <2>24, <2>25, <2>26, <2>27,
       <2>28 DEF Next, Quiescent
<1> QED
  BY <1>1, <1>2, PTL DEF Spec

(***************************************************************************)
(* One offer at a time.  The invariant follows an offer through the places *)
(* it passes: the thread that waits for signalMu, the goroutine that sends *)
(* it, processLocalSignals, the websocket, and, as an answer, the way back.*)
(***************************************************************************)

Offers == {p \in Payload : p.type = "offer"}
Answers == {m \in ClientMessage : m[1] = "answer"}

Occurs(s, A) == \E i \in DOMAIN s : s[i] \in A
Once(s, A) == \A i, j \in DOMAIN s : s[i] \in A /\ s[j] \in A => i = j

Sending == sender.payload \in Offers
Forwarding == current \in Offers
Travelling == Occurs(toClient, Offers)
Answered == Occurs(toServer, Answers)

LocksInv ==
  /\ \A t \in Threads : pc[t] = "signal" <=> nMu = t
  /\ consumer = "metadata" => Forwarding
  /\ consumer \in {"off", "range", "ended"} => current = NoPayload

PlacesInv ==
  /\ nMu # None => ~Sending /\ ~Forwarding /\ ~Travelling /\ ~Answered
  /\ Sending => ~Forwarding /\ ~Travelling /\ ~Answered
  /\ Forwarding => ~Travelling /\ ~Answered
  /\ Travelling => ~Answered
  /\ Once(toClient, Offers)
  /\ Once(toServer, Answers)

StateInv ==
  /\ nMu # None \/ Sending \/ Forwarding \/ Travelling \/ Answered => pcState # "stable"
  /\ nMu # None \/ Sending \/ Forwarding \/ Travelling \/ Answered => stablePending = 0
  /\ pcState = "have-local-offer" => stablePending = 0
  /\ pcState = "have-local-offer" => negotiationDone
  /\ stablePending > 0 => negotiationDone \/ pcState = "closed"
  /\ stablePending <= 1

\* processLocalSignals does not run before TracksManager.Add has returned.
AddInv ==
  pc["socket"] \in {"add", "room", "finish"} \/ roomMu = "socket" => consumer = "off"

OfferInv == LocksInv /\ PlacesInv /\ StateInv /\ AddInv

\* Receiving from a queue in which an element occurs at most once.
LEMMA OccursTail ==
  ASSUME NEW S, NEW A, NEW s \in Seq(S), s # <<>>
  PROVE  /\ Occurs(Tail(s), A) => Occurs(s, A)
         /\ Once(s, A) => Once(Tail(s), A)
         /\ Once(s, A) /\ Head(s) \in A => ~Occurs(Tail(s), A)
         /\ Head(s) \in A => Occurs(s, A)
<1>1. /\ Len(s) \in Nat /\ Len(s) > 0
      /\ DOMAIN s = 1..Len(s) /\ DOMAIN Tail(s) = 1..(Len(s) - 1)
      /\ \A i \in 1..(Len(s) - 1) : Tail(s)[i] = s[i + 1]
      /\ Head(s) = s[1]
  OBVIOUS
<1>2. Occurs(Tail(s), A) => Occurs(s, A)
  <2> SUFFICES ASSUME Occurs(Tail(s), A) PROVE Occurs(s, A)
    OBVIOUS
  <2>1. PICK i \in 1..(Len(s) - 1) : Tail(s)[i] \in A
    BY <1>1 DEF Occurs
  <2>2. i + 1 \in DOMAIN s /\ s[i + 1] \in A
    BY <1>1, <2>1
  <2> QED BY <2>2 DEF Occurs
<1>3. Once(s, A) => Once(Tail(s), A)
  <2> SUFFICES ASSUME Once(s, A), NEW i \in 1..(Len(s) - 1), NEW j \in 1..(Len(s) - 1),
                      Tail(s)[i] \in A, Tail(s)[j] \in A
               PROVE  i = j
    BY <1>1 DEF Once
  <2>1. s[i + 1] \in A /\ s[j + 1] \in A /\ i + 1 \in DOMAIN s /\ j + 1 \in DOMAIN s
    BY <1>1
  <2>2. i + 1 = j + 1
    BY <2>1 DEF Once
  <2> QED BY <2>2
<1>4. Once(s, A) /\ Head(s) \in A => ~Occurs(Tail(s), A)
  <2> SUFFICES ASSUME Once(s, A), Head(s) \in A, Occurs(Tail(s), A) PROVE FALSE
    OBVIOUS
  <2>1. PICK i \in 1..(Len(s) - 1) : Tail(s)[i] \in A
    BY <1>1 DEF Occurs
  <2>2. i + 1 \in DOMAIN s /\ s[i + 1] \in A /\ 1 \in DOMAIN s /\ s[1] \in A
    BY <1>1, <2>1
  <2>3. i + 1 = 1
    BY <2>2 DEF Once
  <2> QED BY <2>3
<1>5. Head(s) \in A => Occurs(s, A)
  <2>1. 1 \in DOMAIN s
    BY <1>1
  <2> QED BY <1>1, <2>1 DEF Occurs
<1> QED BY <1>2, <1>3, <1>4, <1>5

\* Sending to a queue: an element that is not in A changes nothing, one that
\* is in A must be the only one.
LEMMA OccursAppend ==
  ASSUME NEW S, NEW A, NEW s \in Seq(S), NEW e \in S
  PROVE  /\ e \notin A => (Occurs(Append(s, e), A) <=> Occurs(s, A))
         /\ e \notin A /\ Once(s, A) => Once(Append(s, e), A)
         /\ e \in A /\ ~Occurs(s, A) => Once(Append(s, e), A)
<1>1. /\ Len(s) \in Nat
      /\ DOMAIN s = 1..Len(s) /\ DOMAIN Append(s, e) = 1..(Len(s) + 1)
      /\ \A i \in 1..Len(s) : Append(s, e)[i] = s[i]
      /\ Append(s, e)[Len(s) + 1] = e
  OBVIOUS
<1>2. \A i \in 1..(Len(s) + 1) : i \in 1..Len(s) \/ i = Len(s) + 1
  BY <1>1
<1>3. e \notin A => (Occurs(Append(s, e), A) <=> Occurs(s, A))
  BY <1>1, <1>2 DEF Occurs
<1>4. e \notin A /\ Once(s, A) => Once(Append(s, e), A)
  BY <1>1, <1>2 DEF Once
<1>5. e \in A /\ ~Occurs(s, A) => Once(Append(s, e), A)
  BY <1>1, <1>2 DEF Once, Occurs
<1> QED BY <1>3, <1>4, <1>5

\* The types of the payloads that are no offers, and of the answer.
LEMMA Kinds ==
  /\ NoPayload \notin Offers
  /\ CandidatePayload \notin Offers
  /\ \A changes \in SUBSET Change : Offer(changes) \in Offers
  /\ \A p \in Payload : p.type = "offer" <=> p \in Offers
  /\ <<"answer", None>> \in Answers
  /\ \A m \in ClientMessage : m[1] = "answer" <=> m \in Answers
BY DEF NoPayload, CandidatePayload, Offer, Offers, Payload, Answers, ClientMessage, None

\* A new negotiation starts only while no offer is in flight, and puts its
\* offer into the first of the places.
LEMMA NegotiateOffer ==
  ASSUME TypeOK, LocksInv, PlacesInv, NEW t \in Threads, negotiate(t), nMu = None,
         pc[t] # "signal",
         pcState # "closed" => ~Sending /\ ~Forwarding /\ ~Travelling /\ ~Answered,
         UNCHANGED <<sender, current, consumer, toClient, toServer>>
  PROVE  /\ LocksInv' /\ PlacesInv'
         /\ \/ nMu' = None /\ UNCHANGED pcState
            \/ nMu' # None /\ pcState' = "have-local-offer" /\ pcState # "closed"
<1>1. Return(t) # "signal"
  BY DEF Return
<1>2. t # None
  BY DEF Threads, None
<1>3. UNCHANGED <<Sending, Forwarding, Travelling, Answered>>
  BY DEF Sending, Forwarding, Travelling, Answered
<1>4. CASE /\ Goto(t, Return(t))
           /\ UNCHANGED <<nMu, pcState, offered>>
  <2>1. LocksInv'
    BY <1>1, <1>2, <1>3, <1>4 DEF LocksInv, TypeOK, Goto
  <2>2. PlacesInv'
    BY <1>3, <1>4 DEF PlacesInv
  <2> QED BY <1>4, <2>1, <2>2
<1>5. CASE /\ pcState # "closed"
           /\ pcState' = "have-local-offer"
           /\ nMu' = t
           /\ Goto(t, "signal")
  <2>0. \A u \in Threads : pc[u] # "signal"
    BY DEF LocksInv, Threads, None
  <2>1. LocksInv'
    BY <1>2, <1>3, <1>5, <2>0 DEF LocksInv, TypeOK, Goto
  <2>2. PlacesInv'
    BY <1>3, <1>5 DEF PlacesInv
  <2> QED BY <1>2, <1>5, <2>1, <2>2
<1> QED BY <1>4, <1>5 DEF negotiate

LEMMA AddStep == TypeOK /\ AddInv /\ [Next]_vars => AddInv'
<1> SUFFICES ASSUME TypeOK, AddInv, [Next]_vars PROVE AddInv'
  OBVIOUS
<1> USE DEF AddInv, negotiatorVars, signallerVars, connectionVars, roomVars, consumerVars, clientVars
<1>0. "socket" \in Threads /\ "track" \in Threads /\ "stable" \in Threads
  BY DEF Threads
<1>1. ASSUME NEW t \in Threads, negotiate(t) \/ Goto(t, Return(t)), UNCHANGED <<roomMu, consumer>>
      PROVE AddInv'
  BY <1>0, <1>1 DEF negotiate, Goto, Return, TypeOK
<1>2. ASSUME NEW t \in Threads, Negotiate(t) PROVE AddInv'
  BY <1>1, <1>2 DEF Negotiate
<1>3. ASSUME NEW t \in Threads, SignalOffer(t) PROVE AddInv'
  BY <1>1, <1>3 DEF SignalOffer
<1>4. CASE StableCallback
  BY <1>0, <1>1, <1>4 DEF StableCallback
<1>5. ASSUME NEW t \in Threads, CloseEnd(t) \/ FinishTrack(t) PROVE AddInv'
  BY <1>5, <1>0 DEF CloseEnd, FinishTrack, Goto, TypeOK, None
<1>6. ASSUME NEW t \in Threads, NEW change \in {"add", "remove"} \X Tracks, ChangeTrack(t, change)
      PROVE AddInv'
  BY <1>6, <1>0 DEF ChangeTrack, EntersRoom, Goto, TypeOK
<1>7. ASSUME NEW c \in Candidates, GatherCandidate(c) \/ handleICECandidate(c) PROVE AddInv'
  BY <1>7 DEF GatherCandidate, handleICECandidate
<1>8. CASE ClosedCallback \/ SenderAborts \/ CloseLocked \/ RemoveFromRoom \/ ClientReceive
           \/ UNCHANGED vars
  BY <1>8 DEF ClosedCallback, SenderAborts, CloseLocked, RemoveFromRoom, ClientReceive, vars
<1>9. CASE SenderDelivers \/ ForwardMetadata \/ ForwardSignal \/ ForwardEnd
  BY <1>9 DEF SenderDelivers, ForwardMetadata, ForwardSignal, ForwardEnd
<1>10. CASE ICEConnectionLost \/ AddBegin \/ AddEnd
  BY <1>10, <1>0 DEF ICEConnectionLost, CloseBegin, AddBegin, AddEnd, Goto, TypeOK, None
<1>11. CASE IgnoreMessage \/ handleRemoteAnswer \/ HandleRenegotiate \/ handleTransceiverRequest
            \/ handleHangUp \/ Cleanup
  BY <1>11, <1>0 DEF IgnoreMessage, handleRemoteAnswer, HandleRenegotiate, handleTransceiverRequest,
       handleHangUp, Cleanup, CloseBegin, Goto, TypeOK
<1>12. ASSUME NEW m \in ClientMessage, ClientSend(m) PROVE AddInv'
  BY <1>12 DEF ClientSend
<1> QED
  BY <1>2, <1>3, <1>4, <1>5, <1>6, <1>7, <1>8, <1>9, <1>10, <1>11, <1>12 DEF Next, Quiescent

LEMMA OfferStep == TypeOK /\ TypeOK' /\ OfferInv /\ [Next]_vars => OfferInv'
<1> DEFINE Goal == LocksInv' /\ PlacesInv' /\ StateInv'
<1> SUFFICES ASSUME TypeOK, TypeOK', LocksInv, PlacesInv, StateInv, AddInv, [Next]_vars PROVE Goal
  BY AddStep DEF OfferInv
<1> USE Kinds
<1>1. ASSUME NEW t \in Threads, Negotiate(t) PROVE Goal
  <2>1. UNCHANGED <<sender, current, consumer, toClient, toServer, stablePending>>
    BY <1>1 DEF Negotiate, signallerVars, consumerVars, clientVars
  <2>2. UNCHANGED <<Sending, Forwarding, Travelling, Answered>>
    BY <2>1 DEF Sending, Forwarding, Travelling, Answered
  <2>3. CASE negotiationDone
    <3>1. UNCHANGED <<negotiationDone, nMu, pcState>> /\ Goto(t, Return(t))
      BY <1>1, <2>3 DEF Negotiate
    <3>2. Return(t) # "signal" /\ pc[t] # "signal"
      BY <1>1 DEF Return, Negotiate
    <3>3. LocksInv'
      BY <2>1, <2>2, <3>1, <3>2 DEF LocksInv, TypeOK, Goto
    <3>4. PlacesInv' /\ StateInv'
      BY <2>1, <2>2, <3>1 DEF PlacesInv, StateInv
    <3> QED BY <3>3, <3>4
  <2>4. CASE ~negotiationDone
    <3>1. nMu = None /\ negotiationDone' /\ negotiate(t) /\ pc[t] # "signal"
      BY <1>1, <2>4 DEF Negotiate
    <3>2. pcState # "closed" => ~Sending /\ ~Forwarding /\ ~Travelling /\ ~Answered
      BY <2>4 DEF StateInv, TypeOK
    <3>3. /\ LocksInv' /\ PlacesInv'
          /\ \/ nMu' = None /\ UNCHANGED pcState
             \/ nMu' # None /\ pcState' = "have-local-offer" /\ pcState # "closed"
      BY <2>1, <3>1, <3>2, NegotiateOffer
    <3>4. pcState # "closed" => stablePending = 0
      BY <2>4 DEF StateInv, TypeOK
    <3>5. StateInv'
      BY <2>1, <2>2, <3>1, <3>2, <3>3, <3>4 DEF StateInv
    <3> QED BY <3>3, <3>5
  <2> QED BY <2>3, <2>4
<1>2. ASSUME StableCallback PROVE Goal
  <2>1. UNCHANGED <<sender, current, consumer, toClient, toServer>>
    BY <1>2 DEF StableCallback, signallerVars, consumerVars, clientVars
  <2>2. UNCHANGED <<Sending, Forwarding, Travelling, Answered>>
    BY <2>1 DEF Sending, Forwarding, Travelling, Answered
  <2>3. stablePending = 1 /\ stablePending' = 0 /\ nMu = None
    BY <1>2 DEF StableCallback, StateInv, TypeOK
  <2>4. ~Sending /\ ~Forwarding /\ ~Travelling /\ ~Answered /\ pcState # "have-local-offer"
    BY <2>3 DEF StateInv
  <2>5. CASE queuedNegotiation
    <3>1. negotiate("stable") /\ pc["stable"] # "signal" /\ UNCHANGED negotiationDone
      BY <1>2, <2>5 DEF StableCallback
    <3>2. "stable" \in Threads
      BY DEF Threads
    <3>3. /\ LocksInv' /\ PlacesInv'
          /\ \/ nMu' = None /\ UNCHANGED pcState
             \/ nMu' # None /\ pcState' = "have-local-offer" /\ pcState # "closed"
      BY <2>1, <2>3, <2>4, <3>1, <3>2, NegotiateOffer
    <3>4. negotiationDone \/ pcState = "closed"
      BY <2>3 DEF StateInv
    <3>5. StateInv'
      BY <2>2, <2>3, <2>4, <3>1, <3>3, <3>4 DEF StateInv
    <3> QED BY <3>3, <3>5
  <2>6. CASE ~queuedNegotiation
    <3>1. UNCHANGED <<nMu, pcState, pc>>
      BY <1>2, <2>6 DEF StableCallback
    <3>2. LocksInv' /\ PlacesInv'
      BY <2>1, <2>2, <3>1 DEF LocksInv, PlacesInv
    <3>3. StateInv'
      BY <2>2, <2>3, <2>4, <3>1 DEF StateInv
    <3> QED BY <3>2, <3>3
  <2> QED BY <2>5, <2>6
<1> USE DEF negotiatorVars, signallerVars, connectionVars, roomVars, consumerVars, clientVars
<1>3. ASSUME NEW t \in Threads, SignalOffer(t) PROVE Goal
  <2>1. nMu = t /\ t # None /\ Return(t) # "signal"
    BY <1>3 DEF SignalOffer, LocksInv, Return, Threads, None
  <2>2. UNCHANGED <<current, consumer, toClient, toServer, stablePending, pcState, negotiationDone>>
    BY <1>3 DEF SignalOffer
  <2>3. UNCHANGED <<Forwarding, Travelling, Answered>>
    BY <2>2 DEF Forwarding, Travelling, Answered
  <2>4. ~Sending /\ ~Forwarding /\ ~Travelling /\ ~Answered /\ pcState # "stable" /\ stablePending = 0
    BY <2>1 DEF PlacesInv, StateInv
  <2>5. nMu' = None /\ Goto(t, Return(t))
    BY <1>3 DEF SignalOffer
  <2>6. LocksInv'
    BY <2>1, <2>2, <2>3, <2>5 DEF LocksInv, TypeOK, Goto, Threads, None
  <2>7. PlacesInv'
    BY <2>2, <2>3, <2>4, <2>5 DEF PlacesInv
  <2>8. StateInv'
    BY <2>2, <2>4 DEF StateInv
  <2> QED BY <2>6, <2>7, <2>8

\* The other steps leave nMu alone, and no thread enters or leaves "signal".
<1>4. ASSUME UNCHANGED <<negotiationDone, nMu, sender, stablePending, pcState, consumer, current,
                         toClient, toServer>>,
             \A t \in Threads : pc'[t] = "signal" <=> pc[t] = "signal"
      PROVE  Goal
  <2>1. UNCHANGED <<Sending, Forwarding, Travelling, Answered>>
    BY <1>4 DEF Sending, Forwarding, Travelling, Answered
  <2>2. LocksInv' /\ PlacesInv' /\ StateInv'
    BY <1>4, <2>1 DEF LocksInv, PlacesInv, StateInv
  <2> QED BY <2>2
<1>5. ASSUME NEW t \in Threads, CloseEnd(t) PROVE Goal
  BY <1>4, <1>5 DEF CloseEnd, Goto, TypeOK
<1>6. ASSUME NEW t \in Threads, FinishTrack(t) PROVE Goal
  BY <1>4, <1>6 DEF FinishTrack, Goto, TypeOK
<1>7. ASSUME NEW t \in Threads, NEW change \in {"add", "remove"} \X Tracks, ChangeTrack(t, change)
      PROVE Goal
  BY <1>4, <1>7 DEF ChangeTrack, EntersRoom, Goto, TypeOK
<1>8. ASSUME NEW c \in Candidates, GatherCandidate(c) PROVE Goal
  BY <1>4, <1>8 DEF GatherCandidate
<1>9. CASE ICEConnectionLost
  BY <1>4, <1>9 DEF ICEConnectionLost, CloseBegin, Goto, TypeOK
<1>10. CASE AddBegin
  BY <1>4, <1>10 DEF AddBegin, Goto, TypeOK
<1>11. CASE RemoveFromRoom
  BY <1>4, <1>11 DEF RemoveFromRoom
<1>12. CASE UNCHANGED vars
  BY <1>4, <1>12 DEF vars

<1>13. ASSUME NEW c \in Candidates, handleICECandidate(c) PROVE Goal
  <2>1. /\ UNCHANGED <<negotiationDone, nMu, stablePending, pcState, consumer, current, toClient,
                       toServer, pc>>
        /\ sender'.payload = CandidatePayload
    BY <1>13 DEF handleICECandidate, onSignal
  <2>2. UNCHANGED <<Forwarding, Travelling, Answered>> /\ ~Sending'
    BY <2>1 DEF Sending, Forwarding, Travelling, Answered
  <2>3. LocksInv' /\ PlacesInv' /\ StateInv'
    BY <2>1, <2>2 DEF LocksInv, PlacesInv, StateInv
  <2> QED BY <2>3
<1>14. CASE SenderAborts
  <2>1. /\ UNCHANGED <<negotiationDone, nMu, stablePending, pcState, consumer, current, toClient,
                       toServer, pc>>
        /\ sender'.payload = NoPayload
    BY <1>14 DEF SenderAborts
  <2>2. UNCHANGED <<Forwarding, Travelling, Answered>> /\ ~Sending'
    BY <2>1 DEF Sending, Forwarding, Travelling, Answered
  <2>3. LocksInv' /\ PlacesInv' /\ StateInv'
    BY <2>1, <2>2 DEF LocksInv, PlacesInv, StateInv
  <2> QED BY <2>3
<1>15. CASE ClosedCallback
  <2>1. UNCHANGED <<nMu, sender, stablePending, pcState, consumer, current, toClient, toServer, pc>>
    BY <1>15 DEF ClosedCallback
  <2>2. UNCHANGED <<Sending, Forwarding, Travelling, Answered>> /\ pcState = "closed"
    BY <1>15, <2>1 DEF Sending, Forwarding, Travelling, Answered, ClosedCallback
  <2>3. LocksInv' /\ PlacesInv' /\ StateInv'
    BY <2>1, <2>2 DEF LocksInv, PlacesInv, StateInv
  <2> QED BY <2>3
<1>16. CASE CloseLocked
  <2>1. /\ UNCHANGED <<negotiationDone, nMu, sender, stablePending, consumer, current, toClient,
                       toServer, pc>>
        /\ pcState' = "closed"
    BY <1>16 DEF CloseLocked
  <2>2. UNCHANGED <<Sending, Forwarding, Travelling, Answered>>
    BY <2>1 DEF Sending, Forwarding, Travelling, Answered
  <2>3. LocksInv' /\ PlacesInv' /\ StateInv'
    BY <2>1, <2>2 DEF LocksInv, PlacesInv, StateInv
  <2> QED BY <2>3
<1>17. CASE SenderDelivers
  <2>1. /\ UNCHANGED <<negotiationDone, nMu, stablePending, pcState, toClient, toServer, pc>>
        /\ sender'.payload = NoPayload /\ current' = sender.payload
        /\ consumer' = IF sender.payload.type = "offer" THEN "metadata" ELSE "emit"
        /\ sender.payload \in Payload /\ current = NoPayload
    BY <1>17 DEF SenderDelivers, SignalMuFree, TypeOK, LocksInv
  <2>2. UNCHANGED <<Travelling, Answered>> /\ ~Sending' /\ Forwarding' = Sending /\ ~Forwarding
    BY <2>1 DEF Sending, Forwarding, Travelling, Answered
  <2>3. consumer' = "metadata" => Forwarding'
    BY <2>1, <2>2 DEF Sending
  <2>4. LocksInv'
    BY <2>1, <2>3 DEF LocksInv
  <2>5. PlacesInv' /\ StateInv'
    BY <2>1, <2>2 DEF PlacesInv, StateInv
  <2> QED BY <2>4, <2>5
<1>18. CASE AddEnd
  <2>1. /\ UNCHANGED <<negotiationDone, nMu, sender, stablePending, pcState, current, toClient,
                       toServer>>
        /\ consumer' = "range" /\ consumer = "off"
        /\ \A t \in Threads : pc'[t] = "signal" <=> pc[t] = "signal"
    BY <1>18 DEF AddEnd, Goto, TypeOK, AddInv
  <2>2. UNCHANGED <<Sending, Forwarding, Travelling, Answered>>
    BY <2>1 DEF Sending, Forwarding, Travelling, Answered
  <2>3. LocksInv' /\ PlacesInv' /\ StateInv'
    BY <2>1, <2>2 DEF LocksInv, PlacesInv, StateInv
  <2> QED BY <2>3
<1>19. CASE ForwardMetadata \/ ForwardEnd
  <2>1. /\ UNCHANGED <<negotiationDone, nMu, sender, stablePending, pcState, current, toClient,
                       toServer, pc>>
        /\ consumer' # "metadata"
        /\ consumer' \in {"off", "range", "ended"} => consumer = "range"
    BY <1>19 DEF ForwardMetadata, ForwardEnd
  <2>2. UNCHANGED <<Sending, Forwarding, Travelling, Answered>>
    BY <2>1 DEF Sending, Forwarding, Travelling, Answered
  <2>3. LocksInv' /\ PlacesInv' /\ StateInv'
    BY <2>1, <2>2 DEF LocksInv, PlacesInv, StateInv
  <2> QED BY <2>3
<1>20. CASE ForwardSignal
  <2>1. /\ UNCHANGED <<negotiationDone, nMu, sender, stablePending, pcState, toServer, pc>>
        /\ toClient' = Append(toClient, current) /\ current \in Payload
        /\ current' = NoPayload /\ consumer' = "range"
    BY <1>20 DEF ForwardSignal, TypeOK
  <2>2. UNCHANGED <<Sending, Answered>> /\ ~Forwarding'
    BY <2>1 DEF Sending, Forwarding, Answered
  <2>3. LocksInv'
    BY <2>1 DEF LocksInv
  <2>4. toClient \in Seq(Payload)
    BY DEF TypeOK
  <2>5. CASE Forwarding
    <3>1. Once(toClient', Offers)
      BY <2>1, <2>4, <2>5, OccursAppend DEF PlacesInv, Travelling, Forwarding
    <3>2. PlacesInv' /\ StateInv'
      BY <2>1, <2>2, <2>5, <3>1 DEF PlacesInv, StateInv
    <3> QED BY <2>3, <3>2
  <2>6. CASE ~Forwarding
    <3>1. Once(toClient', Offers) /\ (Travelling' <=> Travelling)
      BY <2>1, <2>4, <2>6, OccursAppend DEF PlacesInv, Travelling, Forwarding
    <3>2. PlacesInv' /\ StateInv'
      BY <2>1, <2>2, <3>1 DEF PlacesInv, StateInv
    <3> QED BY <2>3, <3>2
  <2> QED BY <2>5, <2>6
<1>21. CASE ClientReceive
  <2>1. /\ UNCHANGED <<negotiationDone, nMu, sender, stablePending, pcState, current, consumer, pc>>
        /\ toClient # <<>> /\ toClient' = Tail(toClient)
        /\ toClient \in Seq(Payload) /\ Head(toClient) \in Payload
        /\ toServer \in Seq(ClientMessage)
    BY <1>21 DEF ClientReceive, TypeOK
  <2>2. UNCHANGED <<Sending, Forwarding>> /\ LocksInv'
    BY <2>1 DEF Sending, Forwarding, LocksInv
  <2>3. CASE Head(toClient) \in Offers
    <3>1. Travelling /\ ~Travelling' /\ Once(toClient', Offers)
      BY <2>1, <2>3, OccursTail DEF Travelling, PlacesInv
    <3>2. toServer' = Append(toServer, <<"answer", None>>)
      BY <1>21, <2>1, <2>3 DEF ClientReceive
    <3>3. <<"answer", None>> \in ClientMessage
      BY DEF ClientMessage
    <3>4. Once(toServer', Answers)
      BY <2>1, <3>1, <3>2, <3>3, OccursAppend DEF PlacesInv, Answered
    <3>5. PlacesInv' /\ StateInv'
      BY <2>1, <2>2, <3>1, <3>4 DEF PlacesInv, StateInv
    <3> QED BY <2>2, <3>5
  <2>4. CASE Head(toClient) \notin Offers
    <3>1. (Travelling' => Travelling) /\ Once(toClient', Offers)
      BY <2>1, OccursTail DEF Travelling, PlacesInv
    <3>2. UNCHANGED <<toServer, Answered>>
      BY <1>21, <2>1, <2>4 DEF ClientReceive, Answered
    <3>3. PlacesInv' /\ StateInv'
      BY <2>1, <2>2, <3>1, <3>2 DEF PlacesInv, StateInv
    <3> QED BY <2>2, <3>3
  <2> QED BY <2>3, <2>4
<1>22. ASSUME NEW m \in ClientMessage, ClientSend(m) PROVE Goal
  <2>1. /\ UNCHANGED <<negotiationDone, nMu, sender, stablePending, pcState, current, consumer, pc,
                       toClient>>
        /\ toServer' = Append(toServer, m) /\ m \notin Answers
        /\ toServer \in Seq(ClientMessage)
    BY <1>22 DEF ClientSend, TypeOK
  <2>2. UNCHANGED <<Sending, Forwarding, Travelling>>
    BY <2>1 DEF Sending, Forwarding, Travelling
  <2>3. (Answered' <=> Answered) /\ Once(toServer', Answers)
    BY <2>1, OccursAppend DEF Answered, PlacesInv
  <2>4. LocksInv' /\ PlacesInv' /\ StateInv'
    BY <2>1, <2>2, <2>3 DEF LocksInv, PlacesInv, StateInv
  <2> QED BY <2>4

\* The socket thread takes a message from the client.
<1>23. ASSUME NEW type, Receives(type)
       PROVE  /\ (Answered' => Answered) /\ Once(toServer', Answers)
              /\ type = "answer" => Answered /\ ~Answered'
              /\ UNCHANGED toClient
  <2>1. /\ toServer # <<>> /\ toServer' = Tail(toServer) /\ Head(toServer)[1] = type
        /\ toServer \in Seq(ClientMessage) /\ Head(toServer) \in ClientMessage
        /\ UNCHANGED toClient
    BY <1>23 DEF Receives, TypeOK
  <2>2. type = "answer" => Head(toServer) \in Answers
    BY <2>1
  <2> QED
    BY <2>1, <2>2, OccursTail DEF Answered, PlacesInv
<1>24. ASSUME NEW type, Receives(type),
              UNCHANGED <<negotiationDone, nMu, sender, stablePending, pcState, consumer, current>>,
              \A t \in Threads : pc'[t] = "signal" <=> pc[t] = "signal"
       PROVE  Goal
  <2>1. UNCHANGED <<Sending, Forwarding, Travelling>>
    BY <1>24, <1>23 DEF Sending, Forwarding, Travelling
  <2>2. LocksInv' /\ PlacesInv' /\ StateInv'
    BY <1>24, <1>23, <2>1 DEF LocksInv, PlacesInv, StateInv
  <2> QED BY <2>2
<1>25. CASE IgnoreMessage
  BY <1>24, <1>25 DEF IgnoreMessage
<1>26. CASE HandleRenegotiate \/ handleTransceiverRequest
  <2>1. \A t \in Threads : pc'[t] = "signal" <=> pc[t] = "signal"
    BY <1>26 DEF HandleRenegotiate, handleTransceiverRequest, Receives, Goto, TypeOK
  <2> QED BY <1>24, <1>26, <2>1 DEF HandleRenegotiate, handleTransceiverRequest
<1>27. CASE handleHangUp \/ Cleanup
  <2>1. \A t \in Threads : pc'[t] = "signal" <=> pc[t] = "signal"
    BY <1>27 DEF handleHangUp, Cleanup, CloseBegin, Receives, Goto, TypeOK
  <2> QED BY <1>24, <1>27, <2>1 DEF handleHangUp, Cleanup
<1>28. CASE handleRemoteAnswer
  <2>1. Receives("answer") /\ UNCHANGED <<negotiationDone, nMu, sender, consumer, current, pc>>
    BY <1>28 DEF handleRemoteAnswer
  <2>2. /\ Answered /\ ~Answered' /\ Once(toServer', Answers) /\ UNCHANGED toClient
    BY <1>23, <2>1
  <2>3. UNCHANGED <<Sending, Forwarding, Travelling>>
    BY <2>1, <2>2 DEF Sending, Forwarding, Travelling
  <2>4. nMu = None /\ ~Sending /\ ~Forwarding /\ ~Travelling /\ stablePending = 0
    BY <2>2 DEF PlacesInv, StateInv
  <2>5. \/ pcState = "have-local-offer" /\ pcState' = "stable" /\ stablePending' = 1
        \/ UNCHANGED <<pcState, stablePending>>
    BY <1>28, <2>4 DEF handleRemoteAnswer
  <2>6. LocksInv' /\ PlacesInv'
    BY <2>1, <2>2, <2>3, <2>4 DEF LocksInv, PlacesInv
  <2>7. StateInv'
    BY <2>1, <2>2, <2>3, <2>4, <2>5 DEF StateInv
  <2> QED BY <2>6, <2>7
<1> QED
  BY <1>1, <1>2, <1>3, <1>5, <1>6, <1>7, <1>8, <1>9, <1>10, <1>11, <1>12, <1>13, <1>14, <1>15,
     <1>16, <1>17, <1>18, <1>19, <1>20, <1>21, <1>22, <1>25, <1>26, <1>27, <1>28 DEF Next, Quiescent

\* Initially nothing is under way.
LEMMA OfferInit == Init => OfferInv
<1> SUFFICES ASSUME Init PROVE OfferInv
  OBVIOUS
<1>1. ~Sending /\ ~Forwarding /\ ~Travelling /\ ~Answered
  BY Kinds DEF Init, Sending, Forwarding, Travelling, Answered, Occurs
<1>2. LocksInv
  BY DEF Init, LocksInv, None, Threads
<1>3. PlacesInv /\ StateInv
  BY <1>1 DEF Init, PlacesInv, StateInv, Once, None
<1>4. AddInv
  BY DEF Init, AddInv, Threads, None
<1> QED BY <1>2, <1>3, <1>4 DEF OfferInv

LEMMA OfferInvariant == Spec => []OfferInv
<1>1. Spec => []TypeOK
  BY TypeCorrect
<1> QED
  BY <1>1, OfferInit, OfferStep, PTL DEF Spec

\* At most one offer is under way at any time, whatever the threads, the
\* client and the network do: Negotiate queues until the answer to the last
\* offer was applied and its callback has run.
THEOREM OneOfferAtATime == Spec => []OneOfferInFlight
<1>1. TypeOK /\ OfferInv => OneOfferInFlight
  <2> SUFFICES ASSUME TypeOK, OfferInv PROVE OneOfferInFlight
    OBVIOUS
  <2> DEFINE Signals == {<<"signal", t>> : t \in {u \in Threads : pc[u] = "signal"}}
             Ways == {<<"toClient", i>> : i \in {j \in DOMAIN toClient : toClient[j].type = "offer"}}
             Returns == {<<"toServer", i>> : i \in {j \in DOMAIN toServer : toServer[j][1] = "answer"}}
             Sends == IF sender.payload.type = "offer" THEN {<<"sender", None>>} ELSE {}
             Forwards == IF current.type = "offer" THEN {<<"consumer", None>>} ELSE {}
  <2>1. \A a \in Signals : a = <<"signal", nMu>> /\ nMu # None
    BY DEF OfferInv, LocksInv, Threads, None
  <2>2. sender.payload.type = "offer" <=> Sending
    <3>1. sender.payload \in Payload \cup {NoPayload}
      BY DEF TypeOK
    <3>2. NoPayload.type # "offer"
      BY DEF NoPayload, None
    <3> QED BY <3>1, <3>2, Kinds DEF Sending
  <2>3. current.type = "offer" <=> Forwarding
    <3>1. current \in Payload \cup {NoPayload}
      BY DEF TypeOK
    <3>2. NoPayload.type # "offer"
      BY DEF NoPayload, None
    <3> QED BY <3>1, <3>2, Kinds DEF Forwarding
  <2>4. \A i \in DOMAIN toClient : toClient[i].type = "offer" <=> toClient[i] \in Offers
    BY Kinds DEF TypeOK
  <2>5. \A i \in DOMAIN toServer : toServer[i][1] = "answer" <=> toServer[i] \in Answers
    BY Kinds DEF TypeOK
  <2>6. \A a, b \in Ways : a = b /\ Travelling
    BY <2>4 DEF OfferInv, PlacesInv, Once, Travelling, Occurs
  <2>7. \A a, b \in Returns : a = b /\ Answered
    BY <2>5 DEF OfferInv, PlacesInv, Once, Answered, Occurs
  <2>8. \A a, b \in Sends : a = b /\ Sending
    BY <2>2
  <2>9. \A a, b \in Forwards : a = b /\ Forwarding
    BY <2>3
  <2>10. OfferPlaces = Signals \cup Sends \cup Forwards \cup Ways \cup Returns
    BY DEF OfferPlaces
  <2> HIDE DEF Signals, Sends, Forwards, Ways, Returns
  <2>11. \A a, b \in OfferPlaces : a = b
    BY <2>1, <2>6, <2>7, <2>8, <2>9, <2>10 DEF OfferInv, PlacesInv
  <2>12. OfferPlaces # {} => nMu # None \/ Sending \/ Forwarding \/ Travelling \/ Answered
    BY <2>1, <2>6, <2>7, <2>8, <2>9, <2>10
  <2>13. OfferPlaces # {} => pcState # "stable" /\ stablePending = 0
    BY <2>12 DEF OfferInv, StateInv
  <2>14. OfferPlaces # {} \/ stablePending > 0 => negotiationDone \/ pcState = "closed"
    BY <2>13 DEF OfferInv, StateInv, TypeOK
  <2> QED BY <2>11, <2>13, <2>14 DEF OneOfferInFlight
<1> QED
  BY <1>1, TypeCorrect, OfferInvariant, PTL

\* The forwarder of signals never waits for a room whose lock is held by a
\* thread that itself waits to signal: the two locks cannot deadlock.
THEOREM NoRoomDeadlock == Spec => []ForwarderNotBlockedByNegotiator
<1>1. OfferInv => ForwarderNotBlockedByNegotiator
  BY DEF OfferInv, LocksInv, PlacesInv, ForwarderNotBlockedByNegotiator
<1> QED
  BY <1>1, OfferInvariant, PTL

\* Close takes signalMu before it closes signalChannel, so no goroutine of
\* onSignal ever sends on a closed channel.
THEOREM NoPanicOnSend == Spec => []NoSendOnClosedChannel
<1>1. Init => NoSendOnClosedChannel
  BY DEF Init, NoSendOnClosedChannel
<1>2. NoSendOnClosedChannel /\ [Next]_vars => NoSendOnClosedChannel'
  <2> SUFFICES ASSUME NoSendOnClosedChannel, [Next]_vars PROVE NoSendOnClosedChannel'
    OBVIOUS
  <2> USE DEF NoSendOnClosedChannel, SignalMuFree
  <2>1. CASE UNCHANGED <<sender, closing>>
    BY <2>1
  <2>2. ASSUME NEW payload, onSignal(payload), UNCHANGED closing PROVE NoSendOnClosedChannel'
    BY <2>2 DEF onSignal
  <2>3. CASE CloseLocked
    BY <2>3 DEF CloseLocked
  <2>4. CASE SenderDelivers \/ SenderAborts
    BY <2>4 DEF SenderDelivers, SenderAborts
  <2>5. ASSUME NEW t \in Threads, SignalOffer(t) PROVE NoSendOnClosedChannel'
    BY <2>2, <2>5 DEF SignalOffer
  <2>6. ASSUME NEW c \in Candidates, handleICECandidate(c) PROVE NoSendOnClosedChannel'
    BY <2>2, <2>6 DEF handleICECandidate
  <2>7. ASSUME NEW t \in Threads, CloseBegin(t), UNCHANGED sender PROVE NoSendOnClosedChannel'
    BY <2>7 DEF CloseBegin
  <2>8. CASE ICEConnectionLost \/ handleHangUp
    BY <2>7, <2>8 DEF ICEConnectionLost, handleHangUp, Threads
  <2>9. CASE Cleanup
    BY <2>9 DEF Cleanup
  <2>10. ASSUME NEW t \in Threads, Negotiate(t) \/ CloseEnd(t) \/ FinishTrack(t)
         PROVE NoSendOnClosedChannel'
    BY <2>1, <2>10 DEF Negotiate, CloseEnd, FinishTrack, signallerVars
  <2>11. ASSUME NEW t \in Threads, NEW change \in {"add", "remove"} \X Tracks, ChangeTrack(t, change)
         PROVE NoSendOnClosedChannel'
    BY <2>1, <2>11 DEF ChangeTrack, signallerVars
  <2>12. ASSUME NEW c \in Candidates, GatherCandidate(c) PROVE NoSendOnClosedChannel'
    BY <2>1, <2>12 DEF GatherCandidate
  <2>13. ASSUME NEW m \in ClientMessage, ClientSend(m) PROVE NoSendOnClosedChannel'
    BY <2>1, <2>13 DEF ClientSend, signallerVars
  <2>14. CASE StableCallback \/ ClosedCallback \/ AddBegin \/ AddEnd \/ RemoveFromRoom
              \/ ForwardMetadata \/ ForwardSignal \/ ForwardEnd
    BY <2>1, <2>14 DEF StableCallback, ClosedCallback, AddBegin, AddEnd, RemoveFromRoom,
         ForwardMetadata, ForwardSignal, ForwardEnd, signallerVars
  <2>15. CASE IgnoreMessage \/ handleRemoteAnswer \/ HandleRenegotiate \/ handleTransceiverRequest
              \/ ClientReceive \/ UNCHANGED vars
    BY <2>1, <2>15 DEF IgnoreMessage, handleRemoteAnswer, HandleRenegotiate,
         handleTransceiverRequest, ClientReceive, signallerVars, vars
  <2> QED
    BY <2>3, <2>4, <2>5, <2>6, <2>8, <2>9, <2>10, <2>11, <2>12, <2>13, <2>14, <2>15 DEF Next, Quiescent
<1> QED
  BY <1>1, <1>2, PTL DEF Spec

(***************************************************************************)
(* No change is lost: relative to OfferInv the property is inductive.  An  *)
(* offer that fails does so in the state "stable" with no callback to come *)
(* (StateInv), and a callback that finds nothing queued leaves the threads *)
(* that are about to negotiate where they are.                             *)
(***************************************************************************)

Negotiating == \E t \in Threads : pc[t] = "negotiate"
Unoffered == ~(local \subseteq offered) \/ queuedTransceivers # {}

\* negotiate() offers everything there is, or fails as OfferFailed says.
LEMMA NegotiateOffersAll ==
  ASSUME NEW t \in Threads, negotiate(t), pcState = "stable", stablePending' = 0, negotiationDone'
  PROVE  Unoffered' => OfferFailed'
BY DEF negotiate, Unoffered, OfferFailed

LEMMA NoLostStep ==
  TypeOK /\ OfferInv /\ NoLostChange /\ [Next]_vars => NoLostChange'
<1> SUFFICES ASSUME TypeOK, StateInv, NoLostChange, [Next]_vars PROVE NoLostChange'
  BY DEF OfferInv
<1> USE DEF negotiatorVars, signallerVars, connectionVars, roomVars, consumerVars, clientVars
<1>0. NoLostChange <=> (pcState # "closed" /\ Unoffered =>
                          queuedNegotiation \/ OfferFailed \/ Negotiating)
  BY DEF NoLostChange, Unoffered, Negotiating
<1>00. NoLostChange' <=> (pcState' # "closed" /\ Unoffered' =>
                            queuedNegotiation' \/ OfferFailed' \/ Negotiating')
  BY DEF NoLostChange, Unoffered, Negotiating
<1>1. ASSUME NEW t \in Threads, Negotiate(t) PROVE NoLostChange'
  <2>1. CASE negotiationDone
    <3>1. queuedNegotiation'
      BY <1>1, <2>1 DEF Negotiate
    <3> QED BY <1>00, <3>1
  <2>2. CASE ~negotiationDone
    <3>1. negotiate(t) /\ negotiationDone' /\ stablePending' = stablePending
      BY <1>1, <2>2 DEF Negotiate
    <3>2. CASE pcState = "closed"
      BY <1>00, <3>1, <3>2 DEF negotiate
    <3>3. CASE pcState # "closed"
      <4>1. pcState = "stable" /\ stablePending = 0
        BY <2>2, <3>3 DEF StateInv, TypeOK
      <4> QED BY <1>00, <3>1, <4>1, NegotiateOffersAll
    <3> QED BY <3>2, <3>3
  <2> QED BY <2>1, <2>2
<1>2. CASE StableCallback
  <2>1. stablePending = 1 /\ stablePending' = 0 /\ pcState # "have-local-offer"
        /\ (negotiationDone \/ pcState = "closed")
    BY <1>2 DEF StableCallback, StateInv, TypeOK
  <2>2. CASE queuedNegotiation
    <3>1. negotiate("stable") /\ negotiationDone' = negotiationDone /\ "stable" \in Threads
      BY <1>2, <2>2 DEF StableCallback, Threads
    <3>2. CASE pcState = "closed"
      BY <1>00, <3>1, <3>2 DEF negotiate
    <3>3. CASE pcState # "closed"
      <4>1. pcState = "stable"
        BY <2>1, <3>3 DEF TypeOK
      <4> QED BY <1>00, <2>1, <3>1, <3>3, <4>1, NegotiateOffersAll
    <3> QED BY <3>2, <3>3
  <2>3. CASE ~queuedNegotiation
    <3>1. UNCHANGED <<pcState, local, offered, queuedTransceivers, pc>>
      BY <1>2, <2>3 DEF StableCallback
    <3>2. UNCHANGED <<Unoffered, Negotiating>>
      BY <3>1 DEF Unoffered, Negotiating
    <3>3. ~OfferFailed
      BY <2>1 DEF OfferFailed
    <3> QED BY <1>0, <1>00, <2>3, <3>1, <3>2, <3>3
  <2> QED BY <2>2, <2>3
\* The other steps make no offer and forget no queued negotiation; those that add
\* to the changes lead to Negotiate.
<1>3. ASSUME UNCHANGED <<queuedNegotiation, queuedTransceivers, local, offered, negotiationDone,
                         pcState, stablePending>>,
             \A t \in Threads : pc[t] = "negotiate" => pc'[t] = "negotiate"
      PROVE  NoLostChange'
  <2>1. UNCHANGED <<Unoffered, OfferFailed>>
    BY <1>3 DEF Unoffered, OfferFailed
  <2>2. Negotiating => Negotiating'
    BY <1>3 DEF Negotiating
  <2> QED BY <1>0, <1>00, <1>3, <2>1, <2>2
<1>4. ASSUME NEW t \in Threads, Goto(t, "negotiate") PROVE NoLostChange'
  <2>1. Negotiating'
    BY <1>4 DEF Negotiating, Goto, TypeOK
  <2> QED BY <1>00, <2>1
<1>5. ASSUME NEW t \in Threads, SignalOffer(t) \/ CloseEnd(t) \/ FinishTrack(t) PROVE NoLostChange'
  BY <1>3, <1>5 DEF SignalOffer, CloseEnd, FinishTrack, Goto, TypeOK
<1>6. ASSUME NEW t \in Threads, NEW change \in {"add", "remove"} \X Tracks, ChangeTrack(t, change)
      PROVE NoLostChange'
  BY <1>4, <1>6 DEF ChangeTrack
<1>7. ASSUME NEW c \in Candidates, GatherCandidate(c) \/ handleICECandidate(c) PROVE NoLostChange'
  BY <1>3, <1>7 DEF GatherCandidate, handleICECandidate
<1>8. CASE ClosedCallback \/ CloseLocked
  <2>1. pcState' = "closed"
    BY <1>8 DEF ClosedCallback, CloseLocked
  <2> QED BY <1>00, <2>1
<1>9. CASE SenderDelivers \/ SenderAborts \/ RemoveFromRoom \/ ForwardMetadata \/ ForwardSignal
           \/ ForwardEnd \/ IgnoreMessage \/ ClientReceive \/ UNCHANGED vars
  BY <1>3, <1>9 DEF SenderDelivers, SenderAborts, RemoveFromRoom, ForwardMetadata, ForwardSignal,
     ForwardEnd, IgnoreMessage, ClientReceive, vars
<1>10. CASE ICEConnectionLost \/ AddBegin \/ AddEnd
  BY <1>3, <1>10 DEF ICEConnectionLost, CloseBegin, AddBegin, AddEnd, Goto, TypeOK
<1>11. CASE handleHangUp \/ Cleanup
  BY <1>3, <1>11 DEF handleHangUp, Cleanup, CloseBegin, Receives, Goto, TypeOK
<1>12. CASE HandleRenegotiate \/ handleTransceiverRequest
  BY <1>4, <1>12 DEF HandleRenegotiate, handleTransceiverRequest, Threads
<1>13. CASE handleRemoteAnswer
  <2>1. CASE UNCHANGED <<pcState, stablePending>>
    BY <1>3, <1>13, <2>1 DEF handleRemoteAnswer
  <2>2. CASE pcState = "have-local-offer"
    <3>1. UNCHANGED <<queuedNegotiation, queuedTransceivers, local, offered, pc>>
      BY <1>13 DEF handleRemoteAnswer
    <3>2. UNCHANGED <<Unoffered, Negotiating>> /\ ~OfferFailed
      BY <2>2, <3>1 DEF Unoffered, Negotiating, OfferFailed
    <3> QED BY <1>0, <1>00, <2>2, <3>1, <3>2
  <2> QED BY <1>13, <2>1, <2>2 DEF handleRemoteAnswer
<1>14. ASSUME NEW m \in ClientMessage, ClientSend(m) PROVE NoLostChange'
  BY <1>3, <1>14 DEF ClientSend
<1> QED
  BY <1>1, <1>2, <1>5, <1>6, <1>7, <1>8, <1>9, <1>10, <1>11, <1>12, <1>13, <1>14 DEF Next, Quiescent

\* A change of the media that no offer includes is never forgotten by the
\* queue of the Negotiator, however its callers, callbacks and failures
\* interleave, for any tracks and requests.
THEOREM ChangesAreKept == Spec => []NoLostChange
<1>1. Init => NoLostChange
  BY DEF Init, NoLostChange, Threads
<1> QED
  BY <1>1, NoLostStep, TypeCorrect, OfferInvariant, PTL DEF Spec

(***************************************************************************)
(* The metadata that precedes an offer covers its tracks.  AddTrack makes  *)
(* the offer first and records the track afterwards, but it holds the lock *)
(* of the room all the while, and the forwarder takes that lock before it  *)
(* reads the tracks.  Hence the invariants: who holds the lock and what it *)
(* is doing, that offers hold changes that were made, and that all changes *)
(* are recorded but the one being made.                                    *)
(***************************************************************************)

HolderInv ==
  /\ roomMu # None => \/ roomMu = "socket" /\ pc[roomMu] = "room" /\ op = NoOp
                      \/ pc[roomMu] \in {"negotiate", "signal", "finish"} /\ op # NoOp
  /\ roomMu = None => op = NoOp
  /\ \A t \in Threads : pc[t] \in {"room", "finish"} => roomMu = t

\* The places of a thread.
Labels == {"idle", "negotiate", "signal", "close", "cleanup", "ended", "add", "room", "finish"}

MadeInv == offered \cup sender.payload.has \cup current.has \subseteq local

RecordInv ==
  /\ op \in local \cup {NoOp}
  /\ \A x \in Tracks : <<"add", x>> \in local /\ <<"remove", x>> \notin local
                         => x \in localTracks \/ op = <<"add", x>>

LEMMA HolderStep == TypeOK /\ HolderInv /\ [Next]_vars => HolderInv'
<1> SUFFICES ASSUME TypeOK, HolderInv, [Next]_vars PROVE HolderInv'
  OBVIOUS
<1> USE DEF HolderInv, negotiatorVars, signallerVars, connectionVars, roomVars, consumerVars,
            clientVars
<1>0. /\ "socket" \in Threads /\ "track" \in Threads /\ "stable" \in Threads /\ "ice" \in Threads
      /\ None \notin Threads
  BY DEF Threads, None
<1>1. ASSUME NEW t \in Threads, Goto(t, Return(t)), pc[t] \in {"negotiate", "signal"},
             UNCHANGED <<roomMu, op>>
      PROVE  HolderInv'
  <2>1. pc' = [pc EXCEPT ![t] = Return(t)] /\ pc \in [Threads -> Labels]
    BY <1>1 DEF Goto, TypeOK, Labels
  <2>2. CASE roomMu = t
    BY <1>0, <1>1, <2>1, <2>2 DEF Return
  <2>3. CASE roomMu # t
    <3>1. Return(t) \in {"add", "idle"}
      BY <2>3 DEF Return
    <3> QED BY <1>0, <1>1, <2>1, <2>3, <3>1 DEF TypeOK
  <2> QED BY <2>2, <2>3
<1>2. ASSUME NEW t \in Threads, Goto(t, "signal"), pc[t] \in {"negotiate", "signal"},
             UNCHANGED <<roomMu, op>>
      PROVE  HolderInv'
  BY <1>0, <1>2 DEF Goto, TypeOK
<1>3. ASSUME NEW t \in Threads, Negotiate(t) PROVE HolderInv'
  BY <1>1, <1>2, <1>3 DEF Negotiate, negotiate
<1>4. ASSUME NEW t \in Threads, SignalOffer(t) PROVE HolderInv'
  BY <1>1, <1>4 DEF SignalOffer
\* A thread that does not hold the lock moves.
<1>5. ASSUME NEW t \in Threads, NEW label \in Labels, Goto(t, label), UNCHANGED <<roomMu, op>>,
             roomMu # t, label \notin {"room", "finish"}
      PROVE  HolderInv'
  BY <1>0, <1>5 DEF Goto, TypeOK, Labels
<1>6. CASE StableCallback
  <2>1. roomMu # "stable" /\ UNCHANGED <<roomMu, op>>
    BY <1>6 DEF StableCallback, TypeOK, None
  <2>2. Return("stable") = "idle"
    BY <2>1 DEF Return
  <2>3. UNCHANGED pc \/ Goto("stable", "idle") \/ Goto("stable", "signal")
    BY <1>6, <2>2 DEF StableCallback, negotiate
  <2> QED BY <1>0, <1>5, <2>1, <2>3 DEF Labels
<1>7. ASSUME NEW t \in Threads, CloseEnd(t) PROVE HolderInv'
  <2>1. roomMu # t /\ UNCHANGED <<roomMu, op>>
    BY <1>0, <1>7 DEF CloseEnd
  <2> QED BY <1>5, <1>7, <2>1 DEF CloseEnd, Labels
<1>8. ASSUME NEW t \in Threads, FinishTrack(t) PROVE HolderInv'
  BY <1>0, <1>8 DEF FinishTrack, Goto, TypeOK
<1>9. ASSUME NEW t \in Threads, NEW change \in {"add", "remove"} \X Tracks, ChangeTrack(t, change)
      PROVE HolderInv'
  <2>1. change # NoOp
    BY DEF NoOp, None
  <2> QED BY <1>0, <1>9, <2>1 DEF ChangeTrack, EntersRoom, Goto, TypeOK
<1>10. ASSUME NEW c \in Candidates, GatherCandidate(c) \/ handleICECandidate(c) PROVE HolderInv'
  BY <1>10 DEF GatherCandidate, handleICECandidate
<1>11. CASE ClosedCallback \/ SenderDelivers \/ SenderAborts \/ CloseLocked \/ RemoveFromRoom
            \/ ForwardMetadata \/ ForwardSignal \/ ForwardEnd \/ IgnoreMessage
            \/ handleRemoteAnswer \/ ClientReceive \/ UNCHANGED vars
  BY <1>11 DEF ClosedCallback, SenderDelivers, SenderAborts, CloseLocked, RemoveFromRoom,
     ForwardMetadata, ForwardSignal, ForwardEnd, IgnoreMessage, handleRemoteAnswer, ClientReceive,
     vars
<1>12. CASE AddBegin \/ AddEnd
  BY <1>0, <1>12 DEF AddBegin, AddEnd, Goto, TypeOK
<1>13. CASE ICEConnectionLost
  <2>1. roomMu # "ice"
    BY DEF TypeOK, None
  <2> QED BY <1>0, <1>5, <1>13, <2>1 DEF ICEConnectionLost, CloseBegin, Labels
<1>14. CASE HandleRenegotiate \/ handleTransceiverRequest \/ handleHangUp \/ Cleanup
  <2>1. pc["socket"] = "idle" /\ UNCHANGED <<roomMu, op>>
    BY <1>14 DEF HandleRenegotiate, handleTransceiverRequest, handleHangUp, Cleanup, Receives
  <2>2. roomMu # "socket"
    BY <1>0, <2>1
  <2>3. \E label \in {"negotiate", "close", "ended", "cleanup"} : Goto("socket", label)
    BY <1>14 DEF HandleRenegotiate, handleTransceiverRequest, handleHangUp, Cleanup, CloseBegin
  <2> QED BY <1>0, <1>5, <2>1, <2>2, <2>3 DEF Labels
<1>15. ASSUME NEW m \in ClientMessage, ClientSend(m) PROVE HolderInv'
  BY <1>15 DEF ClientSend
<1> QED
  BY <1>3, <1>4, <1>6, <1>7, <1>8, <1>9, <1>10, <1>11, <1>12, <1>13, <1>14, <1>15
     DEF Next, Quiescent

\* negotiate() offers what was made, and what was made stays made.
LEMMA NegotiateMade ==
  ASSUME NEW t \in Threads, negotiate(t), offered \subseteq local
  PROVE  local \subseteq local' /\ offered' \subseteq local'
BY DEF negotiate

\* The connection's changes only grow, and offers consist of them.
LEMMA MadeStep ==
  TypeOK /\ MadeInv /\ [Next]_vars => MadeInv' /\ local \subseteq local'
<1> DEFINE Goal == MadeInv' /\ local \subseteq local'
<1> SUFFICES ASSUME TypeOK, MadeInv, [Next]_vars PROVE Goal
  OBVIOUS
<1> USE DEF MadeInv, negotiatorVars, signallerVars, connectionVars, roomVars, consumerVars,
            clientVars
<1>0. "stable" \in Threads
  BY DEF Threads
<1>1. ASSUME UNCHANGED <<sender, current>>, local \subseteq local', offered' \subseteq local'
      PROVE  Goal
  BY <1>1
<1>2. ASSUME NEW t \in Threads, Negotiate(t) PROVE Goal
  BY <1>1, <1>2, NegotiateMade DEF Negotiate
<1>3. CASE StableCallback
  BY <1>0, <1>1, <1>3, NegotiateMade DEF StableCallback
<1>4. ASSUME NEW t \in Threads, NEW change \in {"add", "remove"} \X Tracks, ChangeTrack(t, change)
      PROVE Goal
  BY <1>1, <1>4 DEF ChangeTrack
<1>5. ASSUME NEW t \in Threads, SignalOffer(t) PROVE Goal
  BY <1>5 DEF SignalOffer, onSignal, Offer
<1>6. ASSUME NEW c \in Candidates, handleICECandidate(c) PROVE Goal
  BY <1>6 DEF handleICECandidate, onSignal, CandidatePayload
<1>7. CASE SenderDelivers \/ SenderAborts
  BY <1>7 DEF SenderDelivers, SenderAborts, NoPayload
<1>8. CASE ForwardSignal
  BY <1>8 DEF ForwardSignal, NoPayload
<1>9. ASSUME NEW t \in Threads, CloseEnd(t) \/ FinishTrack(t) PROVE Goal
  BY <1>1, <1>9 DEF CloseEnd, FinishTrack
<1>10. ASSUME NEW c \in Candidates, GatherCandidate(c) PROVE Goal
  BY <1>1, <1>10 DEF GatherCandidate
<1>11. CASE ClosedCallback \/ CloseLocked \/ ICEConnectionLost \/ AddBegin \/ AddEnd
            \/ RemoveFromRoom \/ ForwardMetadata \/ ForwardEnd
  BY <1>1, <1>11 DEF ClosedCallback, CloseLocked, ICEConnectionLost, AddBegin, AddEnd,
     RemoveFromRoom, ForwardMetadata, ForwardEnd
<1>12. CASE IgnoreMessage \/ handleRemoteAnswer \/ HandleRenegotiate \/ handleTransceiverRequest
            \/ handleHangUp \/ Cleanup \/ ClientReceive \/ UNCHANGED vars
  BY <1>1, <1>12 DEF IgnoreMessage, handleRemoteAnswer, HandleRenegotiate,
     handleTransceiverRequest, handleHangUp, Cleanup, ClientReceive, vars
<1>13. ASSUME NEW m \in ClientMessage, ClientSend(m) PROVE Goal
  BY <1>1, <1>13 DEF ClientSend
<1> QED
  BY <1>2, <1>3, <1>4, <1>5, <1>6, <1>7, <1>8, <1>9, <1>10, <1>11, <1>12, <1>13
     DEF Next, Quiescent

\* A track that was added and not removed is recorded when its change is finished.
LEMMA RecordStep ==
  TypeOK /\ HolderInv /\ RecordInv /\ [Next]_vars => RecordInv'
<1> SUFFICES ASSUME TypeOK, HolderInv, RecordInv, [Next]_vars PROVE RecordInv'
  OBVIOUS
<1> USE DEF RecordInv, negotiatorVars, signallerVars, connectionVars, roomVars, consumerVars,
            clientVars
\* A step that neither makes nor records a change of a track.
<1>1. ASSUME UNCHANGED <<op, localTracks>>, local \subseteq local',
             \A change \in local' \ local : change[1] = "request"
      PROVE  RecordInv'
  BY <1>1
<1>2. ASSUME NEW t \in Threads, negotiate(t), UNCHANGED <<op, localTracks>> PROVE RecordInv'
  <2>1. local \subseteq local' /\ \A change \in local' \ local : change[1] = "request"
    BY <1>2 DEF negotiate
  <2> QED BY <1>1, <1>2, <2>1
<1>3. ASSUME NEW t \in Threads, Negotiate(t) PROVE RecordInv'
  BY <1>1, <1>2, <1>3 DEF Negotiate
<1>4. CASE StableCallback
  BY <1>1, <1>2, <1>4 DEF StableCallback, Threads
<1>5. ASSUME NEW t \in Threads, NEW change \in {"add", "remove"} \X Tracks, ChangeTrack(t, change)
      PROVE RecordInv'
  <2>1. op = NoOp
    BY <1>5 DEF ChangeTrack, EntersRoom, HolderInv, Threads, None
  <2>2. op' = change /\ local' = local \cup {change} /\ UNCHANGED localTracks
    BY <1>5 DEF ChangeTrack
  <2>3. \A x : NoOp # <<"add", x>>
    BY DEF NoOp, None
  <2> QED BY <2>1, <2>2, <2>3
<1>6. ASSUME NEW t \in Threads, FinishTrack(t) PROVE RecordInv'
  <2>1. op # NoOp
    BY <1>6 DEF FinishTrack, HolderInv, Threads, None
  <2>2. PICK kind \in {"add", "remove"}, x \in Tracks : op = <<kind, x>>
    BY <2>1 DEF TypeOK
  <2>3. op' = NoOp /\ UNCHANGED local
    BY <1>6 DEF FinishTrack
  <2>4. CASE kind = "add"
    <3>1. localTracks' = localTracks \cup {x}
      BY <1>6, <2>2, <2>4 DEF FinishTrack
    <3> QED BY <2>2, <2>3, <2>4, <3>1
  <2>5. CASE kind = "remove"
    <3>1. localTracks' = localTracks \ {x} /\ <<"remove", x>> \in local
      BY <1>6, <2>1, <2>2, <2>5 DEF FinishTrack
    <3> QED BY <2>2, <2>3, <2>5, <3>1
  <2> QED BY <2>4, <2>5
<1>7. ASSUME NEW t \in Threads, SignalOffer(t) \/ CloseEnd(t) PROVE RecordInv'
  BY <1>1, <1>7 DEF SignalOffer, CloseEnd
<1>8. ASSUME NEW c \in Candidates, GatherCandidate(c) \/ handleICECandidate(c) PROVE RecordInv'
  BY <1>1, <1>8 DEF GatherCandidate, handleICECandidate
<1>9. CASE ClosedCallback \/ SenderDelivers \/ SenderAborts \/ CloseLocked \/ ICEConnectionLost
           \/ AddBegin \/ AddEnd \/ RemoveFromRoom \/ ForwardMetadata \/ ForwardSignal \/ ForwardEnd
  BY <1>1, <1>9 DEF ClosedCallback, SenderDelivers, SenderAborts, CloseLocked, ICEConnectionLost,
     AddBegin, AddEnd, RemoveFromRoom, ForwardMetadata, ForwardSignal, ForwardEnd
<1>10. CASE IgnoreMessage \/ handleRemoteAnswer \/ HandleRenegotiate \/ handleTransceiverRequest
            \/ handleHangUp \/ Cleanup \/ ClientReceive \/ UNCHANGED vars
  BY <1>1, <1>10 DEF IgnoreMessage, handleRemoteAnswer, HandleRenegotiate,
     handleTransceiverRequest, handleHangUp, Cleanup, ClientReceive, vars
<1>11. ASSUME NEW m \in ClientMessage, ClientSend(m) PROVE RecordInv'
  BY <1>1, <1>11 DEF ClientSend
<1> QED
  BY <1>3, <1>4, <1>5, <1>6, <1>7, <1>8, <1>9, <1>10, <1>11 DEF Next, Quiescent

\* Once the metadata is read, the offer it was read for only waits.
LEMMA CoversStep ==
  /\ TypeOK /\ AddInv /\ HolderInv /\ MadeInv /\ RecordInv
  /\ MetadataCoversOffer /\ [Next]_vars
  => MetadataCoversOffer'
<1> SUFFICES ASSUME TypeOK, AddInv, HolderInv, MadeInv, RecordInv, MetadataCoversOffer,
                    [Next]_vars
             PROVE  MetadataCoversOffer'
  OBVIOUS
<1> USE DEF negotiatorVars, signallerVars, connectionVars, roomVars, consumerVars, clientVars
<1>1. ASSUME UNCHANGED <<consumer, current, metadata>>, inRoom' => inRoom
      PROVE  MetadataCoversOffer'
  <2>1. local \subseteq local'
    BY MadeStep
  <2> QED BY <1>1, <2>1 DEF MetadataCoversOffer
<1>2. ASSUME consumer' # "emit" \/ current'.type # "offer" PROVE MetadataCoversOffer'
  BY <1>2 DEF MetadataCoversOffer
<1>3. CASE ForwardMetadata
  <2>1. /\ op = NoOp /\ UNCHANGED <<current, local, inRoom>>
        /\ inRoom => metadata' = localTracks
    BY <1>3 DEF ForwardMetadata, HolderInv
  <2>2. \A x : NoOp # <<"add", x>>
    BY DEF NoOp, None
  <2>3. \A x \in Tracks : <<"add", x>> \in current.has /\ <<"remove", x>> \notin local
                            => x \in localTracks
    BY <2>1, <2>2 DEF MadeInv, RecordInv
  <2> QED BY <2>1, <2>3 DEF MetadataCoversOffer
<1>4. CASE SenderDelivers
  <2>1. consumer' = "emit" => current'.type # "offer"
    BY <1>4 DEF SenderDelivers
  <2> QED BY <1>2, <2>1
<1>5. CASE ForwardSignal \/ ForwardEnd \/ AddEnd
  BY <1>2, <1>5 DEF ForwardSignal, ForwardEnd, AddEnd
<1>6. CASE RemoveFromRoom
  BY <1>1, <1>6 DEF RemoveFromRoom
<1>7. ASSUME NEW t \in Threads, Negotiate(t) \/ SignalOffer(t) \/ CloseEnd(t) \/ FinishTrack(t)
      PROVE  MetadataCoversOffer'
  BY <1>1, <1>7 DEF Negotiate, SignalOffer, CloseEnd, FinishTrack
<1>8. ASSUME NEW t \in Threads, NEW change \in {"add", "remove"} \X Tracks, ChangeTrack(t, change)
      PROVE  MetadataCoversOffer'
  BY <1>1, <1>8 DEF ChangeTrack
<1>9. ASSUME NEW c \in Candidates, GatherCandidate(c) \/ handleICECandidate(c)
      PROVE  MetadataCoversOffer'
  BY <1>1, <1>9 DEF GatherCandidate, handleICECandidate
<1>10. CASE StableCallback \/ ClosedCallback \/ SenderAborts \/ CloseLocked \/ ICEConnectionLost
            \/ AddBegin
  BY <1>1, <1>10 DEF StableCallback, ClosedCallback, SenderAborts, CloseLocked,
     ICEConnectionLost, AddBegin
<1>11. CASE IgnoreMessage \/ handleRemoteAnswer \/ HandleRenegotiate \/ handleTransceiverRequest
            \/ handleHangUp \/ Cleanup \/ ClientReceive \/ UNCHANGED vars
  BY <1>1, <1>11 DEF IgnoreMessage, handleRemoteAnswer, HandleRenegotiate,
     handleTransceiverRequest, handleHangUp, Cleanup, ClientReceive, vars
<1>12. ASSUME NEW m \in ClientMessage, ClientSend(m) PROVE MetadataCoversOffer'
  BY <1>1, <1>12 DEF ClientSend
<1> QED
  BY <1>3, <1>4, <1>5, <1>6, <1>7, <1>8, <1>9, <1>10, <1>11, <1>12 DEF Next, Quiescent

\* Whatever tracks are added and removed while offers are under way, the
\* client is told of every track of an offer before the offer (sfu.go,
\* processLocalSignals), for any tracks.
THEOREM MetadataPrecedesOffer == Spec => []MetadataCoversOffer
<1>1. Init => HolderInv /\ MadeInv /\ RecordInv /\ MetadataCoversOffer
  <2> SUFFICES ASSUME Init PROVE HolderInv /\ MadeInv /\ RecordInv /\ MetadataCoversOffer
    OBVIOUS
  <2>1. HolderInv
    BY DEF Init, HolderInv, Threads
  <2>2. MadeInv
    BY DEF Init, MadeInv, NoPayload
  <2>3. RecordInv /\ MetadataCoversOffer
    BY DEF Init, RecordInv, MetadataCoversOffer, Initial
  <2> QED BY <2>1, <2>2, <2>3
<1>2. OfferInv => AddInv
  BY DEF OfferInv
<1> QED
  BY <1>1, <1>2, HolderStep, MadeStep, RecordStep, CoversStep, TypeCorrect, OfferInvariant, PTL
     DEF Spec
=============================================================================
