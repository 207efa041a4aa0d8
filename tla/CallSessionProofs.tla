------------------------- MODULE CallSessionProofs -------------------------
(***************************************************************************)
(* Proofs about CallSession for any number of dials and local streams and  *)
(* queues of any length: what the server takes the client for is what the  *)
(* client shows, recording and peers end with the call, hanging up works,  *)
(* and a call is not ended by a timer.                                     *)
(***************************************************************************)
EXTENDS CallSession, FiniteSets, FiniteSetTheorems, TLAPS

HungUp == media.dialState = "hung-up"

\* The reconnect timer runs only without a socket, and the form is enabled only
\* with one: before the first socket is open nothing was dialled.
SocketFacts ==
  /\ PingsWhileOpen
  /\ reconnecting => ws = "closed"
  /\ connected <=> ws = "open"
  /\ media.socketConnected => ws = "open"
  /\ ~lost /\ ws # "open" => HungUp /\ \A d \in Dials : dials[d] = "idle"

\* Every dial adds one handler of record_callback.
Dialled == {d \in Dials : dials[d] \notin {"idle", "media"}}
HandlersCounted == recordHandlers <= Cardinality(Dialled)

\* A hang-up leaves neither listeners nor peers nor the camera behind.
NothingLeft ==
  HungUp /\ ~failed => ~usersHandler /\ ~peers /\ "camera" \notin DOMAIN localStreams

\* An answer that is waited for finds the client dialling.
OnceAnswers ==
  ~failed /\ (\E d \in once : dials[d] = "pending") => ~HungUp

\* No stream is of two types.
StreamsDiffer ==
  \A t, u \in DOMAIN localStreams : localStreams[t] = localStreams[u] => t = u

(***************************************************************************)
(* As long as the recordings are not mixed up and none starts late, the    *)
(* recording peer is the only one, it is there only while the client       *)
(* records, and the client records neither unknown to the user nor after a *)
(* hang-up.                                                                *)
(***************************************************************************)
RecordingInTurn ==
  "mixed" \notin incidents /\ "late" \notin incidents =>
    /\ ~rec.leaked
    /\ rec.recorder.alive => rec.isRecording
    /\ rec.isRecording => media.recordStatus /\ ~(HungUp /\ ~failed)

\* As long as they are not mixed up and the present one is not cut off, the
\* recording peer has every local stream with all its tracks.
RecordingWhole ==
  "mixed" \notin incidents /\ "cut" \notin incidents /\ rec.isRecording =>
    \A t \in DOMAIN localStreams : rec.recorder.alive /\ localStreams[t] \in rec.recorder.streams

\* Unless the form was submitted twice, one dial is under way at a time.
OneDial ==
  ~overlap =>
    /\ \A d \in Dials : dials[d] = "media" => HungUp
    /\ \A d \in Dials : dials[d] = "pending" => media.dialState = "dialling"
    /\ \A d, e \in Dials : dials[d] \in {"media", "pending"} /\ dials[e] \in {"media", "pending"}
                             => d = e

IsMark(m) == m.type \in {"ready", "hangUp"}
LastIsReady(q) ==
  \E i \in DOMAIN q : /\ q[i].type = "ready"
                      /\ \A j \in DOMAIN q : IsMark(q[j]) => j <= i
NoMark(q) == \A i \in DOMAIN q : ~IsMark(q[i])

\* What the server will take the client for, if it now is r and reads q.
View(q, r) == LastIsReady(q) \/ (NoMark(q) /\ r)

\* The server holds no more than the client shows; what it lacks of that, the SFU
\* has refused or withdrawn.
Held == ready = "yes" \/ (network = "sfu" /\ withdrawn)
ServerSees ==
  ~lost /\ ~failed =>
    /\ View(toServer, ready = "yes") => ~HungUp
    /\ ~HungUp => View(toServer, Held)

SessionIndInv ==
  /\ TypeOK
  /\ SocketFacts
  /\ HandlersCounted
  /\ NothingLeft
  /\ OnceAnswers
  /\ ServerSees
  /\ StreamsDiffer
  /\ RecordingInTurn
  /\ RecordingWhole
  /\ OneDial

-----------------------------------------------------------------------------
(* Messages to the server *)

LEMMA ViewFacts ==
  ASSUME NEW q, NEW r
  PROVE  LET marks == {i \in DOMAIN q : q[i].type \in {"ready", "hangUp"}}
             view == IF marks = {} THEN r
                     ELSE \E i \in marks : q[i].type = "ready" /\ \A j \in marks : j <= i
         IN  view <=> View(q, r)
<1> DEFINE marks == {i \in DOMAIN q : q[i].type \in {"ready", "hangUp"}}
<1>1. marks = {} <=> NoMark(q)
  BY DEF NoMark, IsMark
<1>2. (\E i \in marks : q[i].type = "ready" /\ \A j \in marks : j <= i) <=> LastIsReady(q)
  BY DEF LastIsReady, IsMark
<1>3. NoMark(q) => ~LastIsReady(q)
  BY DEF NoMark, LastIsReady, IsMark
<1> QED BY <1>1, <1>2, <1>3 DEF View

LEMMA SeesAgrees == ServerSees => ServerAgrees
<1>1. View(toServer, Held) => View(toServer, ready = "yes") \/ (network = "sfu" /\ withdrawn)
  BY DEF View, Held
<1>2. ServerAgrees <=> (~lost /\ ~failed =>
          /\ View(toServer, ready = "yes") => ~HungUp
          /\ ~HungUp => View(toServer, ready = "yes") \/ (network = "sfu" /\ withdrawn))
  BY ViewFacts DEF ServerAgrees, HungUp
<1> QED BY <1>1, <1>2 DEF ServerSees

\* The server's view of a queue grows with what it holds.
LEMMA ViewGrows ==
  ASSUME NEW q, NEW r, NEW u, r => u
  PROVE  View(q, r) => View(q, u)
BY DEF View

LEMMA ViewOfAppend ==
  ASSUME NEW q \in Seq(Messages), NEW m \in Messages, NEW r
  PROVE  View(Append(q, m), r) <=> IF IsMark(m) THEN m.type = "ready" ELSE View(q, r)
<1> DEFINE a == Append(q, m)
           n == Len(q) + 1
<1>1. /\ Len(q) \in Nat /\ DOMAIN q = 1..Len(q) /\ DOMAIN a = 1..n
      /\ a[n] = m /\ \A i \in DOMAIN q : a[i] = q[i]
  OBVIOUS
<1> HIDE DEF a, n
<1>2. n \in Nat /\ n = Len(q) + 1
  BY <1>1 DEF n
<1>3. CASE IsMark(m)
  <2>1. ~NoMark(a)
    BY <1>1, <1>2, <1>3 DEF NoMark
  <2>2. ASSUME m.type = "ready" PROVE LastIsReady(a)
    BY <1>1, <1>2, <2>2 DEF LastIsReady
  <2>3. ASSUME LastIsReady(a) PROVE m.type = "ready"
    <3>1. PICK i \in DOMAIN a : a[i].type = "ready" /\ \A j \in DOMAIN a : IsMark(a[j]) => j <= i
      BY <2>3 DEF LastIsReady
    <3>2. n <= i
      BY <1>1, <1>2, <1>3, <3>1
    <3>3. i = n
      BY <1>1, <1>2, <3>1, <3>2
    <3> QED BY <1>1, <3>1, <3>3
  <2> QED BY <1>3, <2>1, <2>2, <2>3 DEF View, a
<1>4. CASE ~IsMark(m)
  <2>1. NoMark(a) <=> NoMark(q)
    BY <1>1, <1>2, <1>4 DEF NoMark
  <2>2. LastIsReady(a) <=> LastIsReady(q)
    <3>1. m.type # "ready"
      BY <1>4 DEF IsMark
    <3> QED BY <1>1, <1>2, <1>4, <3>1 DEF LastIsReady
  <2> QED BY <1>4, <2>1, <2>2 DEF View, a
<1> QED BY <1>3, <1>4

\* A message that there is room for.
LEMMA AppendFits ==
  ASSUME NEW q \in Seq(Messages), Len(q) < MaxQueue, NEW m \in Messages
  PROVE  Append(q, m) \in Seq(Messages) /\ Len(Append(q, m)) <= MaxQueue
<1>1. Append(q, m) \in Seq(Messages)
  OBVIOUS
<1>2. Len(Append(q, m)) = Len(q) + 1 /\ Len(q) \in Nat
  OBVIOUS
<1> QED BY <1>1, <1>2, CallSessionAssumption

LEMMA ViewOfTail ==
  ASSUME NEW q \in Seq(Messages), q # <<>>, NEW r
  PROVE  View(q, r) <=>
           View(Tail(q), IF IsMark(Head(q)) THEN Head(q).type = "ready" ELSE r)
<1> DEFINE t == Tail(q)
           n == Len(q)
           first == Head(q).type = "ready"
<1>1. /\ n \in Nat /\ n > 0 /\ DOMAIN q = 1..n /\ DOMAIN t = 1..(n - 1)
      /\ q[1] = Head(q) /\ \A i \in 1..(n - 1) : t[i] = q[i + 1]
  OBVIOUS
<1> HIDE DEF t, n
<1>2. \A j \in 2..n : j - 1 \in 1..(n - 1) /\ t[j - 1] = q[j]
  BY <1>1
<1>3. NoMark(q) <=> ~IsMark(Head(q)) /\ NoMark(t)
  <2>1. ASSUME NoMark(q) PROVE ~IsMark(Head(q)) /\ NoMark(t)
    BY <1>1, <2>1 DEF NoMark
  <2>2. ASSUME ~IsMark(Head(q)), NoMark(t), NEW j \in DOMAIN q PROVE ~IsMark(q[j])
    <3>1. CASE j = 1
      BY <1>1, <2>2, <3>1
    <3>2. CASE j # 1
      <4>1. j \in 2..n
        BY <1>1, <3>2
      <4> QED BY <1>1, <1>2, <2>2, <4>1 DEF NoMark
    <3> QED BY <3>1, <3>2
  <2> QED BY <2>1, <2>2 DEF NoMark
<1>4. LastIsReady(q) <=> LastIsReady(t) \/ (NoMark(t) /\ first)
  <2>1. ASSUME LastIsReady(t) PROVE LastIsReady(q)
    <3>1. PICK i \in DOMAIN t : t[i].type = "ready" /\ \A j \in DOMAIN t : IsMark(t[j]) => j <= i
      BY <2>1 DEF LastIsReady
    <3>2. i + 1 \in DOMAIN q /\ q[i + 1].type = "ready"
      BY <1>1, <3>1
    <3>3. ASSUME NEW j \in DOMAIN q, IsMark(q[j]) PROVE j <= i + 1
      <4>1. CASE j = 1
        BY <1>1, <4>1
      <4>2. CASE j # 1
        <5>1. j \in 2..n
          BY <1>1, <4>2
        <5>2. j - 1 <= i
          BY <1>1, <1>2, <3>1, <3>3, <5>1
        <5> QED BY <1>1, <5>1, <5>2
      <4> QED BY <4>1, <4>2
    <3> QED BY <3>2, <3>3 DEF LastIsReady
  <2>2. ASSUME NoMark(t), first PROVE LastIsReady(q)
    <3>1. 1 \in DOMAIN q /\ q[1].type = "ready"
      BY <1>1, <2>2
    <3>2. ASSUME NEW j \in DOMAIN q, IsMark(q[j]) PROVE j <= 1
      <4>1. ASSUME j # 1 PROVE FALSE
        <5>1. j \in 2..n
          BY <1>1, <4>1
        <5>2. j - 1 \in DOMAIN t /\ IsMark(t[j - 1])
          BY <1>1, <1>2, <3>2, <5>1
        <5> QED BY <2>2, <5>2 DEF NoMark
      <4> QED BY <1>1, <4>1
    <3> QED BY <3>1, <3>2 DEF LastIsReady
  <2>3. ASSUME LastIsReady(q) PROVE LastIsReady(t) \/ (NoMark(t) /\ first)
    <3>1. PICK i \in DOMAIN q : q[i].type = "ready" /\ \A j \in DOMAIN q : IsMark(q[j]) => j <= i
      BY <2>3 DEF LastIsReady
    <3>2. CASE i = 1
      <4>1. NoMark(t)
        BY <1>1, <3>1, <3>2 DEF NoMark
      <4> QED BY <1>1, <3>1, <3>2, <4>1
    <3>3. CASE i # 1
      <4>1. i - 1 \in DOMAIN t /\ t[i - 1].type = "ready"
        BY <1>1, <1>2, <3>1, <3>3
      <4>2. ASSUME NEW j \in DOMAIN t, IsMark(t[j]) PROVE j <= i - 1
        BY <1>1, <3>1, <4>2
      <4> QED BY <4>1, <4>2 DEF LastIsReady
    <3> QED BY <3>2, <3>3
  <2> QED BY <2>1, <2>2, <2>3
<1>5. first => IsMark(Head(q))
  BY DEF IsMark
<1> HIDE DEF first
<1>6. View(q, r) <=> View(t, IF IsMark(Head(q)) THEN first ELSE r)
  BY <1>3, <1>4, <1>5 DEF View
<1> QED BY <1>6 DEF t, first

-----------------------------------------------------------------------------
(* Local streams and their recording *)

RecTypes == [isRecording : BOOLEAN, leaked : BOOLEAN,
             recorder : [alive : BOOLEAN, streams : SUBSET Streams]]

LEMMA StreamNumbers ==
  ASSUME TypeOK
  PROVE  /\ \A t \in DOMAIN localStreams : localStreams[t] \in Streams /\ localStreams[t] \in 1..created
         /\ DOMAIN localStreams \subseteq Types /\ created \in Nat
BY CallSessionAssumption DEF TypeOK, IsMap, Streams

\* addLocalStream: the recording peer gets the new stream too.
LEMMA StreamAdded ==
  ASSUME SessionIndInv, NEW type \in Types, created < MaxStreams, AddLocalStream(type)
  PROVE  /\ IsMap(localStreams', Types, 1..created') /\ created' \in 0..MaxStreams
         /\ DOMAIN localStreams' \subseteq DOMAIN localStreams \cup {type}
         /\ rec' \in RecTypes
         /\ rec'.isRecording = rec.isRecording /\ rec'.leaked = rec.leaked
         /\ rec'.recorder.alive = rec.recorder.alive
         /\ StreamsDiffer' /\ desktopFirst' \in BOOLEAN
         /\ (rec.isRecording => \A t \in DOMAIN localStreams :
               rec.recorder.alive /\ localStreams[t] \in rec.recorder.streams)
            => (rec.isRecording => \A t \in DOMAIN localStreams' :
                  rec'.recorder.alive /\ localStreams'[t] \in rec'.recorder.streams)
<1> DEFINE new == created + 1
<1>0. desktopFirst' \in BOOLEAN
  BY DEF AddLocalStream, SessionIndInv, TypeOK
<1>1. created \in Nat /\ new \in Streams /\ new \in 1..new /\ new \in 0..MaxStreams
  BY CallSessionAssumption DEF SessionIndInv, TypeOK, Streams
<1>2. \A t \in DOMAIN localStreams : localStreams[t] \in 1..created /\ localStreams[t] # new
                                     /\ localStreams[t] \in 1..new
  <2>1. \A t \in DOMAIN localStreams : localStreams[t] \in 1..created
    BY StreamNumbers DEF SessionIndInv
  <2>2. \A n \in 1..created : n # new /\ n \in 1..new
    BY <1>1
  <2> QED BY <2>1, <2>2
<1>3. DOMAIN localStreams \subseteq Types /\ localStreams = [t \in DOMAIN localStreams |-> localStreams[t]]
  BY DEF SessionIndInv, TypeOK, IsMap
<1>4. rec \in RecTypes
  BY DEF SessionIndInv, TypeOK, RecTypes
<1>5. /\ created' = new
      /\ localStreams' = IF AddStreamThrows THEN localStreams ELSE Put(localStreams, type, new)
      /\ rec' = IF rec.isRecording /\ ~AddStreamThrows
                THEN [rec EXCEPT !.recorder.streams = @ \cup {new}] ELSE rec
  BY DEF AddLocalStream
<1> HIDE DEF new
<1>6. /\ rec' \in RecTypes
      /\ rec'.isRecording = rec.isRecording /\ rec'.leaked = rec.leaked
      /\ rec'.recorder.alive = rec.recorder.alive
  BY <1>1, <1>4, <1>5 DEF RecTypes
<1>7. CASE AddStreamThrows
  <2>1. IsMap(localStreams', Types, 1..created')
    BY <1>2, <1>3, <1>5, <1>7 DEF IsMap
  <2>2. StreamsDiffer'
    BY <1>5, <1>7 DEF StreamsDiffer, SessionIndInv
  <2> QED BY <1>0, <1>1, <1>5, <1>6, <1>7, <2>1, <2>2
<1>8. CASE ~AddStreamThrows
  <2>1. /\ DOMAIN localStreams' = DOMAIN localStreams \cup {type}
        /\ localStreams'[type] = new
        /\ \A t \in DOMAIN localStreams \ {type} : localStreams'[t] = localStreams[t]
        /\ localStreams' = [t \in DOMAIN localStreams' |-> localStreams'[t]]
    BY <1>5, <1>8 DEF Put
  <2>2. IsMap(localStreams', Types, 1..created')
    BY <1>1, <1>2, <1>3, <1>5, <2>1 DEF IsMap
  <2>3. StreamsDiffer'
    BY <1>2, <2>1 DEF StreamsDiffer, SessionIndInv
  <2>4. rec.isRecording => rec'.recorder.streams = rec.recorder.streams \cup {new}
    BY <1>4, <1>5, <1>8 DEF RecTypes
  <2>5. (rec.isRecording => \A t \in DOMAIN localStreams :
               rec.recorder.alive /\ localStreams[t] \in rec.recorder.streams)
            => (rec.isRecording => \A t \in DOMAIN localStreams' :
                  rec'.recorder.alive /\ localStreams'[t] \in rec'.recorder.streams)
    BY <1>6, <1>8, <2>1, <2>4 DEF AddStreamThrows
  <2> QED BY <1>0, <1>1, <1>5, <1>6, <2>1, <2>2, <2>3, <2>5
<1> QED BY <1>7, <1>8

\* removeLocalStream: what leaves the recording peer leaves the store.
LEMMA StreamsRemoved ==
  ASSUME SessionIndInv, NEW types, types \subseteq DOMAIN localStreams, RemoveLocalStreams(types)
  PROVE  /\ IsMap(localStreams', Types, 1..created)
         /\ DOMAIN localStreams' \subseteq DOMAIN localStreams
         /\ rec' \in RecTypes
         /\ rec'.isRecording = rec.isRecording /\ rec'.leaked = rec.leaked
         /\ rec'.recorder.alive = rec.recorder.alive
         /\ StreamsDiffer' /\ desktopFirst' \in BOOLEAN
         /\ (rec.isRecording => \A t \in DOMAIN localStreams :
               rec.recorder.alive /\ localStreams[t] \in rec.recorder.streams)
            => (rec.isRecording => \A t \in DOMAIN localStreams' :
                  rec'.recorder.alive /\ localStreams'[t] \in rec'.recorder.streams)
<1> DEFINE stuck == {t \in types : RemoveStreamThrows(localStreams[t])}
           gone == {t \in types : \A u \in stuck : ~NotAfter(u, t)}
<1>1. /\ localStreams' = [t \in DOMAIN localStreams \ gone |-> localStreams[t]]
      /\ rec' = IF rec.isRecording
                THEN [rec EXCEPT !.recorder.streams = @ \ {localStreams[t] : t \in gone}]
                ELSE rec
      /\ desktopFirst' = (desktopFirst /\ gone = {})
  BY DEF RemoveLocalStreams
<1>2. gone \subseteq DOMAIN localStreams
  OBVIOUS
<1> HIDE DEF gone
<1>3. IsMap(localStreams', Types, 1..created) /\ DOMAIN localStreams' \subseteq DOMAIN localStreams
  BY <1>1 DEF SessionIndInv, TypeOK, IsMap
<1>4. rec \in RecTypes
  BY DEF SessionIndInv, TypeOK, RecTypes
<1>5. /\ rec' \in RecTypes
      /\ rec'.isRecording = rec.isRecording /\ rec'.leaked = rec.leaked
      /\ rec'.recorder.alive = rec.recorder.alive
      /\ rec.isRecording =>
           rec'.recorder.streams = rec.recorder.streams \ {localStreams[t] : t \in gone}
  BY <1>1, <1>4 DEF RecTypes
<1>6. StreamsDiffer'
  BY <1>1 DEF StreamsDiffer, SessionIndInv
<1>7. ASSUME rec.isRecording,
             \A t \in DOMAIN localStreams : rec.recorder.alive /\ localStreams[t] \in rec.recorder.streams,
             NEW t \in DOMAIN localStreams'
      PROVE  rec'.recorder.alive /\ localStreams'[t] \in rec'.recorder.streams
  <2>1. t \in DOMAIN localStreams /\ t \notin gone /\ localStreams'[t] = localStreams[t]
    BY <1>1
  <2>2. \A u \in gone : localStreams[u] # localStreams[t]
    BY <1>2, <2>1 DEF SessionIndInv, StreamsDiffer
  <2> QED BY <1>5, <1>7, <2>1, <2>2
<1>8. desktopFirst' \in BOOLEAN
  BY <1>1
<1> QED BY <1>3, <1>5, <1>6, <1>7, <1>8

LEMMA RecordingTyped ==
  ASSUME TypeOK, NEW r \in RecTypes
  PROVE  RecordLocalStream(r, localStreams) \in RecTypes /\ StopRecordLocalStream(r) \in RecTypes
<1>1. StopRecordLocalStream(r) \in RecTypes
  BY DEF StopRecordLocalStream, NoRecorder, RecTypes
<1> DEFINE n == DOMAIN localStreams
           last == IF n = Types THEN IF desktopFirst THEN "camera" ELSE "desktop"
                   ELSE CHOOSE t \in n : TRUE
           recorder == IF n = {} THEN r.recorder ELSE InitializePeer(localStreams[last])
           leaked == r.leaked \/ (r.recorder.alive /\ n # {}) \/ n = Types
<1>2. RecordLocalStream(r, localStreams) =
        [isRecording |-> ~r.isRecording, recorder |-> recorder, leaked |-> leaked]
  BY DEF RecordLocalStream
<1>3. n # {} => last \in n
  BY StreamNumbers DEF Types
<1>4. recorder \in [alive : BOOLEAN, streams : SUBSET Streams]
  BY <1>3, StreamNumbers DEF InitializePeer, RecTypes
<1>5. leaked \in BOOLEAN
  OBVIOUS
<1> HIDE DEF recorder, leaked
<1> QED BY <1>1, <1>2, <1>4, <1>5 DEF RecTypes

LEMMA CallbackTyped ==
  ASSUME TypeOK, NEW n, NEW status
  PROVE  HandleRecordCallback(n, status) \in RecTypes
<1> DEFINE Call(r) == IF status THEN RecordLocalStream(r, localStreams)
                      ELSE StopRecordLocalStream(r)
<1>1. rec \in RecTypes
  BY DEF TypeOK, RecTypes
<1>2. \A r \in RecTypes : Call(r) \in RecTypes
  BY RecordingTyped
<1>3. HandleRecordCallback(n, status) \in {rec, Call(rec), Call(Call(rec)), Call(Call(Call(rec)))}
  BY DEF HandleRecordCallback
<1> HIDE DEF Call
<1> QED BY <1>1, <1>2, <1>3

\* A start or a stop does not take back what was mixed up or late before.
LEMMA IncidentsKept ==
  ASSUME TypeOK, NEW n \in Nat, NEW status \in BOOLEAN
  PROVE  /\ Incidents(n, status) \subseteq {"mixed", "late", "cut"}
         /\ "mixed" \notin Incidents(n, status) =>
              /\ "mixed" \notin incidents
              /\ n = 0 \/ n = 1
              /\ n = 1 => rec.isRecording # status
              /\ n = 1 /\ status => DOMAIN localStreams # Types
         /\ "late" \notin Incidents(n, status) =>
              /\ "late" \notin incidents
              /\ n = 1 /\ status => ~HungUp
         /\ "cut" \notin Incidents(n, status) => "cut" \notin incidents \/ (n > 0 /\ status)
BY DEF TypeOK, Incidents, HungUp

\* One handler that is called in turn starts or stops the recording.
LEMMA CalledInTurn ==
  ASSUME SessionIndInv, NEW n \in Nat, NEW status \in BOOLEAN,
         "mixed" \notin Incidents(n, status)
  PROVE  /\ n = 0 \/ n = 1
         /\ n = 0 => HandleRecordCallback(n, status) = rec
         /\ n = 1 =>
              /\ HandleRecordCallback(n, status).isRecording <=> status
              /\ ~status => ~HandleRecordCallback(n, status).recorder.alive
              /\ HandleRecordCallback(n, status).leaked <=>
                   rec.leaked \/ (status /\ rec.recorder.alive /\ DOMAIN localStreams # {})
              /\ status /\ ~rec.recorder.alive /\ DOMAIN localStreams = {} =>
                   ~HandleRecordCallback(n, status).recorder.alive
              /\ status => \A t \in DOMAIN localStreams :
                   /\ HandleRecordCallback(n, status).recorder.alive
                   /\ localStreams[t] \in HandleRecordCallback(n, status).recorder.streams
<1> DEFINE h == HandleRecordCallback(n, status)
<1>1. n = 0 \/ n = 1
  BY IncidentsKept DEF SessionIndInv
<1>2. n = 0 => h = rec
  BY DEF HandleRecordCallback
<1>3. rec \in RecTypes
  BY DEF SessionIndInv, TypeOK, RecTypes
<1>4. CASE n = 1 /\ status
  <2>1. ~rec.isRecording /\ DOMAIN localStreams # Types /\ DOMAIN localStreams \subseteq Types
    BY <1>3, <1>4, IncidentsKept, StreamNumbers DEF SessionIndInv, RecTypes
  <2>2. PICK last \in Types \cup {CHOOSE t \in DOMAIN localStreams : TRUE} :
          last = IF DOMAIN localStreams = Types THEN IF desktopFirst THEN "camera" ELSE "desktop"
                 ELSE CHOOSE t \in DOMAIN localStreams : TRUE
    BY <2>1
  <2>3. h = RecordLocalStream(rec, localStreams)
    BY <1>4 DEF HandleRecordCallback
  <2>4. h = [isRecording |-> ~rec.isRecording,
             recorder |-> IF DOMAIN localStreams = {} THEN rec.recorder
                          ELSE InitializePeer(localStreams[last]),
             leaked |-> rec.leaked \/ (rec.recorder.alive /\ DOMAIN localStreams # {})
                          \/ DOMAIN localStreams = Types]
    BY <2>2, <2>3 DEF RecordLocalStream
  <2>5. \A t \in DOMAIN localStreams : t = last
    BY <2>1, <2>2 DEF Types
  <2>6. \A t : InitializePeer(t).alive /\ t \in InitializePeer(t).streams
    BY DEF InitializePeer
  <2> HIDE DEF h
  <2>7. /\ h.isRecording
        /\ h.recorder = IF DOMAIN localStreams = {} THEN rec.recorder
                        ELSE InitializePeer(localStreams[last])
        /\ h.leaked <=> rec.leaked \/ (rec.recorder.alive /\ DOMAIN localStreams # {})
    BY <2>1, <2>4
  <2>8. \A t \in DOMAIN localStreams : h.recorder.alive /\ localStreams[t] \in h.recorder.streams
    BY <2>5, <2>6, <2>7
  <2> QED BY <1>1, <1>2, <1>4, <2>7, <2>8 DEF h
<1>5. CASE n = 1 /\ ~status
  <2>1. rec.isRecording
    BY <1>3, <1>5, IncidentsKept DEF SessionIndInv, RecTypes
  <2>2. h = [rec EXCEPT !.isRecording = ~@, !.recorder = NoRecorder]
    BY <1>5 DEF HandleRecordCallback, StopRecordLocalStream
  <2> HIDE DEF h
  <2>3. ~h.isRecording /\ (h.leaked <=> rec.leaked) /\ ~h.recorder.alive
    BY <1>3, <2>1, <2>2 DEF RecTypes, NoRecorder
  <2> QED BY <1>1, <1>5, <2>3 DEF h
<1> QED BY <1>1, <1>2, <1>4, <1>5

\* What a record_callback or a users event does to the recording.
LEMMA CallbackKeeps ==
  ASSUME SessionIndInv, NEW n \in Nat, NEW status \in BOOLEAN,
         rec' = HandleRecordCallback(n, status), incidents' = Incidents(n, status),
         UNCHANGED <<localStreams, failed>>, HungUp' => HungUp,
         n = 1 => (media'.recordStatus <=> status),
         n = 0 => (media'.recordStatus <=> media.recordStatus)
  PROVE  RecordingInTurn' /\ RecordingWhole'
<1>1. ASSUME "mixed" \notin incidents', "late" \notin incidents'
      PROVE  /\ ~rec'.leaked
             /\ rec'.recorder.alive => rec'.isRecording
             /\ rec'.isRecording => media'.recordStatus /\ ~(HungUp' /\ ~failed')
  <2>1. /\ ~rec.leaked /\ (rec.recorder.alive => rec.isRecording)
        /\ rec.isRecording => media.recordStatus /\ ~(HungUp /\ ~failed)
    BY <1>1, IncidentsKept DEF SessionIndInv, RecordingInTurn
  <2>2. CASE n = 0
    BY <1>1, <2>1, <2>2, CalledInTurn
  <2>3. CASE n = 1 /\ status
    <3>1. rec.isRecording # status /\ ~HungUp /\ rec.isRecording \in BOOLEAN
      BY <1>1, <2>3, IncidentsKept DEF SessionIndInv, TypeOK
    <3>2. ~rec.recorder.alive
      BY <2>1, <2>3, <3>1
    <3>3. rec'.isRecording /\ ~rec'.leaked
      BY <1>1, <2>1, <2>3, <3>2, CalledInTurn
    <3> QED BY <2>3, <3>1, <3>3
  <2>4. CASE n = 1 /\ ~status
    BY <1>1, <2>1, <2>4, CalledInTurn
  <2> QED BY <1>1, <2>2, <2>3, <2>4, CalledInTurn
<1>2. ASSUME "mixed" \notin incidents', "cut" \notin incidents', rec'.isRecording
      PROVE  \A t \in DOMAIN localStreams' :
               rec'.recorder.alive /\ localStreams'[t] \in rec'.recorder.streams
  <2>1. CASE n = 0
    <3>1. "mixed" \notin incidents /\ "cut" \notin incidents /\ rec' = rec
      BY <1>2, <2>1, IncidentsKept, CalledInTurn DEF SessionIndInv
    <3> QED BY <1>2, <3>1 DEF SessionIndInv, RecordingWhole
  <2>2. CASE n = 1
    BY <1>2, <2>2, CalledInTurn
  <2> QED BY <1>2, <2>1, <2>2, CalledInTurn
<1> QED BY <1>1, <1>2 DEF RecordingInTurn, RecordingWhole

-----------------------------------------------------------------------------
(* The steps *)

MediaTypes == [dialState : {"hung-up", "dialling", "in-call"},
               socketConnected : BOOLEAN, loading : BOOLEAN, recordStatus : BOOLEAN]

\* Steps that touch neither the call nor the recording.
LEMMA CallUntouched ==
  ASSUME SessionIndInv,
         UNCHANGED <<dials, once, usersHandler, recordHandlers, failed, overlap,
                     localStreams, rec, incidents>>,
         media'.dialState = media.dialState, media'.recordStatus = media.recordStatus,
         peers' => peers
  PROVE  HandlersCounted' /\ NothingLeft' /\ OnceAnswers' /\ StreamsDiffer' /\ RecordingInTurn'
         /\ RecordingWhole' /\ OneDial' /\ (HungUp' <=> HungUp)
<1>1. HungUp' <=> HungUp
  BY DEF HungUp
<1>2. HandlersCounted' /\ StreamsDiffer'
  BY DEF SessionIndInv, HandlersCounted, Dialled, StreamsDiffer
<1>3. NothingLeft' /\ OnceAnswers'
  BY <1>1 DEF SessionIndInv, NothingLeft, OnceAnswers
<1>4. RecordingInTurn' /\ RecordingWhole' /\ OneDial'
  BY <1>1 DEF SessionIndInv, RecordingInTurn, RecordingWhole, OneDial
<1> QED BY <1>1, <1>2, <1>3, <1>4

LEMMA ViewUntouched ==
  ASSUME SessionIndInv, UNCHANGED <<toServer, ready, network, withdrawn, lost, failed>>,
         HungUp' <=> HungUp
  PROVE  ServerSees'
BY DEF SessionIndInv, ServerSees, Held

LEMMA WsHandleOpenKeeps ==
  ASSUME SessionIndInv, WsHandleOpen
  PROVE  SessionIndInv'
<1>1. /\ ws = "connecting" /\ ws' = "open" /\ connected' = TRUE /\ pings' = pings + 1
      /\ media' = [media EXCEPT !.socketConnected = TRUE]
      /\ UNCHANGED <<reconnecting, toServer, toClient, dials, usersHandler, once,
                     recordHandlers, localStreams, created, rec, incidents, desktopFirst, network, withdrawn, peers, ready,
                     other, recorded, failed, lost, overlap>>
  BY DEF WsHandleOpen, SetConnected, handlerVars, recordVars, serverVars
<1>2. /\ media' \in MediaTypes /\ media'.dialState = media.dialState
      /\ media'.recordStatus = media.recordStatus
  BY <1>1 DEF SessionIndInv, TypeOK, MediaTypes
<1>3. pings = 0 /\ pings' = 1
  BY <1>1 DEF SessionIndInv, SocketFacts, PingsWhileOpen, HungUp
<1>4. TypeOK'
  BY <1>1, <1>2, <1>3 DEF SessionIndInv, TypeOK, MediaTypes
<1>5. SocketFacts'
  BY <1>1, <1>3 DEF SessionIndInv, SocketFacts, PingsWhileOpen, HungUp
<1>6. HandlersCounted' /\ NothingLeft' /\ OnceAnswers' /\ StreamsDiffer' /\ RecordingInTurn'
      /\ RecordingWhole' /\ OneDial' /\ (HungUp' <=> HungUp)
  BY <1>1, <1>2, CallUntouched
<1>7. ServerSees'
  BY <1>1, <1>6, ViewUntouched
<1> QED BY <1>4, <1>5, <1>6, <1>7 DEF SessionIndInv

LEMMA WsHandleCloseKeeps ==
  ASSUME SessionIndInv, WsHandleClose
  PROVE  SessionIndInv'
<1>1. /\ ws' = "closed" /\ connected' = FALSE /\ reconnecting' = TRUE
      /\ media' = IF connected THEN [media EXCEPT !.socketConnected = FALSE] ELSE media
      /\ pings' = IF pings > 0 THEN pings - 1 ELSE 0
      /\ toServer' = <<>> /\ toClient' = <<>> /\ ready' = "no"
      /\ lost' = (lost \/ ws = "open")
      /\ UNCHANGED <<dials, usersHandler, once, recordHandlers, localStreams, created, rec,
                     incidents, desktopFirst, network, withdrawn, peers, other, recorded, failed, overlap>>
  BY DEF WsHandleClose, SetConnected, ClearPing, handlerVars, recordVars
<1>2. /\ media' \in MediaTypes /\ media'.dialState = media.dialState
      /\ media'.recordStatus = media.recordStatus
  BY <1>1 DEF SessionIndInv, TypeOK, MediaTypes
<1>3. pings' = 0
  BY <1>1 DEF SessionIndInv, SocketFacts, PingsWhileOpen, HungUp
<1>4. /\ toServer' \in Seq(Messages) /\ Len(toServer') <= MaxQueue
      /\ toClient' \in Seq(Messages) /\ Len(toClient') <= MaxQueue
  BY <1>1, CallSessionAssumption
<1>5. TypeOK'
  <2>1. lost' \in BOOLEAN /\ ready' \in {"no", "yes", "closing"}
    BY <1>1
  <2>2. connected' \in BOOLEAN /\ reconnecting' \in BOOLEAN
    BY <1>1
  <2>3. pings' \in Nat
    BY <1>3
  <2> QED BY <1>1, <1>2, <1>4, <2>1, <2>2, <2>3 DEF SessionIndInv, TypeOK, MediaTypes
<1>6. SocketFacts'
  BY <1>1, <1>2, <1>3 DEF SessionIndInv, TypeOK, SocketFacts, PingsWhileOpen, HungUp
<1>7. HandlersCounted' /\ NothingLeft' /\ OnceAnswers' /\ StreamsDiffer' /\ RecordingInTurn'
      /\ RecordingWhole' /\ OneDial' /\ (HungUp' <=> HungUp)
  BY <1>1, <1>2, CallUntouched
<1>8. ServerSees'
  <2>1. ~lost' => HungUp
    BY <1>1 DEF SessionIndInv, SocketFacts
  <2>2. ~View(toServer', ready' = "yes")
    BY <1>1 DEF View, LastIsReady
  <2> QED BY <1>7, <2>1, <2>2 DEF ServerSees
<1> QED BY <1>5, <1>6, <1>7, <1>8 DEF SessionIndInv

LEMMA ConnectKeeps ==
  ASSUME SessionIndInv, Connect
  PROVE  SessionIndInv'
<1>1. /\ reconnecting /\ reconnecting' = FALSE /\ ws' = "connecting"
      /\ UNCHANGED <<connected, pings, toServer, toClient, media, dials, usersHandler, once,
                     recordHandlers, localStreams, created, rec, incidents, desktopFirst, network, withdrawn, peers, ready,
                     other, recorded, failed, lost, overlap>>
  BY DEF Connect, handlerVars, recordVars, serverVars
<1>2. TypeOK'
  BY <1>1 DEF SessionIndInv, TypeOK
<1>3. SocketFacts'
  BY <1>1 DEF SessionIndInv, SocketFacts, PingsWhileOpen, HungUp
<1>4. HandlersCounted' /\ NothingLeft' /\ OnceAnswers' /\ StreamsDiffer' /\ RecordingInTurn'
      /\ RecordingWhole' /\ OneDial' /\ (HungUp' <=> HungUp)
  BY <1>1, CallUntouched
<1>5. ServerSees'
  BY <1>1, <1>4, ViewUntouched
<1> QED BY <1>2, <1>3, <1>4, <1>5 DEF SessionIndInv

LEMMA EnumerateDoneKeeps ==
  ASSUME SessionIndInv, EnumerateDone
  PROVE  SessionIndInv'
<1>1. /\ media' = [media EXCEPT !.loading = FALSE]
      /\ UNCHANGED <<ws, connected, reconnecting, pings, toServer, toClient, dials,
                     usersHandler, once, recordHandlers, localStreams, created, rec, incidents, desktopFirst, network, withdrawn,
                     peers, ready, other, recorded, failed, lost, overlap>>
  BY DEF EnumerateDone, HandleEnumerate, socketVars, handlerVars, recordVars, serverVars
<1>2. /\ media' \in MediaTypes /\ media'.dialState = media.dialState
      /\ media'.recordStatus = media.recordStatus
  BY <1>1 DEF SessionIndInv, TypeOK, MediaTypes
<1>3. TypeOK'
  BY <1>1, <1>2 DEF SessionIndInv, TypeOK, MediaTypes
<1>4. SocketFacts'
  BY <1>1 DEF SessionIndInv, SocketFacts, PingsWhileOpen, HungUp
<1>5. HandlersCounted' /\ NothingLeft' /\ OnceAnswers' /\ StreamsDiffer' /\ RecordingInTurn'
      /\ RecordingWhole' /\ OneDial' /\ (HungUp' <=> HungUp)
  BY <1>1, <1>2, CallUntouched
<1>6. ServerSees'
  BY <1>1, <1>5, ViewUntouched
<1> QED BY <1>3, <1>4, <1>5, <1>6 DEF SessionIndInv

\* PeerCloses and steps that change nothing.
LEMMA LittleKeeps ==
  ASSUME SessionIndInv, peers' => peers, peers' \in BOOLEAN,
         UNCHANGED <<ws, connected, reconnecting, pings, toServer, toClient, media, dials,
                     usersHandler, once, recordHandlers, localStreams, created, rec, incidents, desktopFirst, network, withdrawn,
                     ready, other, recorded, failed, lost, overlap>>
  PROVE  SessionIndInv'
<1>1. TypeOK'
  BY DEF SessionIndInv, TypeOK
<1>2. SocketFacts'
  BY DEF SessionIndInv, SocketFacts, PingsWhileOpen, HungUp
<1>3. HandlersCounted' /\ NothingLeft' /\ OnceAnswers' /\ StreamsDiffer' /\ RecordingInTurn'
      /\ RecordingWhole' /\ OneDial' /\ (HungUp' <=> HungUp)
  BY CallUntouched
<1>4. ServerSees'
  BY <1>3, ViewUntouched
<1> QED BY <1>1, <1>2, <1>3, <1>4 DEF SessionIndInv

LEMMA ToggleRecordKeeps ==
  ASSUME SessionIndInv, ToggleRecord
  PROVE  SessionIndInv'
<1> DEFINE m == [type |-> "record", recordStatus |-> ~media.recordStatus]
<1>1. /\ Len(toServer) < MaxQueue
      /\ toServer' = IF ws = "open" THEN Append(toServer, m) ELSE toServer
      /\ UNCHANGED <<ws, connected, reconnecting, pings, toClient, media, dials, usersHandler,
                     once, recordHandlers, localStreams, created, rec, incidents, desktopFirst, network, withdrawn, peers,
                     ready, other, recorded, failed, lost, overlap>>
  BY DEF ToggleRecord, RoomToSend, Sent, socketVars, handlerVars, recordVars, serverVars
<1>2. m \in Messages /\ ~IsMark(m)
  BY DEF Messages, IsMark
<1> HIDE DEF m
<1>3. toServer \in Seq(Messages) /\ Len(toServer) \in Nat
  BY DEF SessionIndInv, TypeOK
<1>4. toServer' \in Seq(Messages) /\ Len(toServer') <= MaxQueue
  BY <1>1, <1>2, <1>3, CallSessionAssumption DEF SessionIndInv, TypeOK
<1>5. TypeOK'
  BY <1>1, <1>4 DEF SessionIndInv, TypeOK
<1>6. SocketFacts'
  BY <1>1 DEF SessionIndInv, SocketFacts, PingsWhileOpen, HungUp
<1>7. HandlersCounted' /\ NothingLeft' /\ OnceAnswers' /\ StreamsDiffer' /\ RecordingInTurn'
      /\ RecordingWhole' /\ OneDial' /\ (HungUp' <=> HungUp)
  BY <1>1, CallUntouched
<1>8. /\ View(toServer', ready = "yes") <=> View(toServer, ready = "yes")
      /\ View(toServer', Held) <=> View(toServer, Held)
  BY <1>1, <1>2, <1>3, ViewOfAppend
<1>9. ServerSees'
  BY <1>1, <1>7, <1>8 DEF SessionIndInv, ServerSees, Held
<1> QED BY <1>5, <1>6, <1>7, <1>9 DEF SessionIndInv

\* What the server sends has the form of a message.
LEMMA BroadcastFits ==
  ASSUME SessionIndInv, RoomToReceive, NEW m \in Messages,
         toClient' = toClient \/ Broadcast(m)
  PROVE  toClient' \in Seq(Messages) /\ Len(toClient') <= MaxQueue
<1>1. toClient \in Seq(Messages) /\ Len(toClient) <= MaxQueue
  BY DEF SessionIndInv, TypeOK
<1>2. ws = "open" => Append(toClient, m) \in Seq(Messages) /\ Len(Append(toClient, m)) <= MaxQueue
  BY <1>1, AppendFits DEF RoomToReceive
<1> QED BY <1>1, <1>2 DEF Broadcast

LEMMA UsersFits ==
  ASSUME SessionIndInv, other' \in BOOLEAN
  PROVE  Users \in Messages
<1>1. recorded \in BOOLEAN
  BY DEF SessionIndInv, TypeOK
<1>2. (network = "sfu" \/ other') \in BOOLEAN /\ (network = "mesh" /\ recorded) \in BOOLEAN
  OBVIOUS
<1> QED BY <1>2 DEF Users, Messages

LEMMA RecordCallbackFits ==
  ASSUME NEW a \in BOOLEAN, NEW b \in BOOLEAN
  PROVE  RecordCallback(a, b) \in Messages
BY DEF RecordCallback, Messages

\* A record message, of this client or of another.
LEMMA MeshRecords ==
  ASSUME SessionIndInv, RoomToReceive, NEW m, m.type = "record", m.recordStatus \in BOOLEAN,
         MeshHandles(m)
  PROVE  /\ UNCHANGED <<ready, other>> /\ recorded' \in BOOLEAN
         /\ toClient' \in Seq(Messages) /\ Len(toClient') <= MaxQueue
<1>1. /\ UNCHANGED <<ready, other>>
      /\ \/ recorded' = m.recordStatus /\ Broadcast(RecordCallback(TRUE, m.recordStatus))
         \/ recorded' = recorded /\ Broadcast(RecordCallback(FALSE, FALSE))
  BY DEF MeshHandles
<1>2. RecordCallback(TRUE, m.recordStatus) \in Messages /\ RecordCallback(FALSE, FALSE) \in Messages
  BY RecordCallbackFits
<1>3. recorded' \in BOOLEAN
  BY <1>1 DEF SessionIndInv, TypeOK
<1> QED BY <1>1, <1>2, <1>3, BroadcastFits

\* What a step of the server leaves alone.
ClientUntouched ==
  UNCHANGED <<network, ws, connected, reconnecting, pings, media, dials, usersHandler, once,
              recordHandlers, localStreams, desktopFirst, created, rec, incidents, peers,
              failed, lost, overlap>>

\* A step of the server that leaves its view of the client in order.
LEMMA ServerStepKeeps ==
  ASSUME SessionIndInv, ClientUntouched,
         toServer' \in Seq(Messages), Len(toServer') <= MaxQueue,
         toClient' \in Seq(Messages), Len(toClient') <= MaxQueue,
         ready' \in {"no", "yes", "closing"},
         other' \in BOOLEAN, recorded' \in BOOLEAN, withdrawn' \in BOOLEAN,
         View(toServer', ready' = "yes") => View(toServer, ready = "yes"),
         View(toServer, Held) => View(toServer', Held')
  PROVE  SessionIndInv'
<1> USE DEF ClientUntouched
<1>1. TypeOK'
  BY DEF SessionIndInv, TypeOK
<1>2. SocketFacts'
  BY DEF SessionIndInv, SocketFacts, PingsWhileOpen, HungUp
<1>3. HandlersCounted' /\ NothingLeft' /\ OnceAnswers' /\ StreamsDiffer' /\ RecordingInTurn'
      /\ RecordingWhole' /\ OneDial' /\ (HungUp' <=> HungUp)
  BY CallUntouched
<1>4. ServerSees'
  BY <1>3 DEF SessionIndInv, ServerSees
<1> QED BY <1>1, <1>2, <1>3, <1>4 DEF SessionIndInv

\* What the server makes of a message.
LEMMA ServerHandlesKeeps ==
  ASSUME SessionIndInv, ServerHandles
  PROVE  SessionIndInv'
<1> DEFINE m == Head(toServer)
           yes == ready = "yes"
<1>1. toServer # <<>> /\ RoomToReceive /\ toServer' = Tail(toServer) /\ ClientUntouched
  BY DEF ServerHandles, ClientUntouched, socketVars, handlerVars, recordVars
<1>2. /\ toServer \in Seq(Messages) /\ m \in Messages
      /\ toServer' \in Seq(Messages) /\ Len(toServer') <= MaxQueue
  <2>1. toServer \in Seq(Messages) /\ Len(toServer) <= MaxQueue /\ Len(toServer) \in Nat
    BY DEF SessionIndInv, TypeOK
  <2>2. Tail(toServer) \in Seq(Messages) /\ Len(Tail(toServer)) = Len(toServer) - 1 /\ m \in Messages
    BY <1>1, <2>1
  <2> QED BY <1>1, <2>1, <2>2, CallSessionAssumption
<1>3. /\ toClient \in Seq(Messages) /\ Len(toClient) <= MaxQueue
      /\ ready \in {"no", "yes", "closing"}
      /\ other \in BOOLEAN /\ recorded \in BOOLEAN /\ withdrawn \in BOOLEAN
  BY DEF SessionIndInv, TypeOK
<1>4. m.type = "record" => m.recordStatus \in BOOLEAN
  BY <1>2 DEF Messages
<1>5. \A r : View(toServer, r) <=>
               View(toServer', IF IsMark(m) THEN m.type = "ready" ELSE r)
  BY <1>1, <1>2, ViewOfTail
<1> HIDE DEF m
<1>6. ASSUME IsMark(m) => ((ready' = "yes") => m.type = "ready"),
             IsMark(m) => (m.type = "ready" => Held'),
             ~IsMark(m) => ((ready' = "yes") => yes) /\ (Held => Held')
      PROVE  /\ View(toServer', ready' = "yes") => View(toServer, yes)
             /\ View(toServer, Held) => View(toServer', Held')
  <2>1. (ready' = "yes") => IF IsMark(m) THEN m.type = "ready" ELSE yes
    BY <1>6
  <2>2. (IF IsMark(m) THEN m.type = "ready" ELSE Held) => Held'
    BY <1>6
  <2>3. View(toServer', ready' = "yes") =>
          View(toServer', IF IsMark(m) THEN m.type = "ready" ELSE yes)
    BY <2>1, ViewGrows
  <2>4. View(toServer', IF IsMark(m) THEN m.type = "ready" ELSE Held) => View(toServer', Held')
    BY <2>2, ViewGrows
  <2> QED BY <1>5, <2>3, <2>4
<1>7. CASE network = "mesh" /\ MeshHandles(m) /\ UNCHANGED withdrawn
  <2>1. CASE m.type = "ready"
    <3>1. ready' = "yes" /\ UNCHANGED <<other, recorded>> /\ Broadcast(Users)
      BY <1>7, <2>1 DEF MeshHandles
    <3>2. toClient' \in Seq(Messages) /\ Len(toClient') <= MaxQueue
      BY <1>1, <1>3, <3>1, BroadcastFits, UsersFits
    <3>3. IsMark(m) /\ Held'
      BY <2>1, <3>1 DEF IsMark, Held
    <3> QED BY <1>1, <1>2, <1>3, <1>6, <1>7, <2>1, <3>1, <3>2, <3>3, ServerStepKeeps
  <2>2. CASE m.type = "hangUp"
    <3>1. ready' = "no" /\ UNCHANGED <<other, recorded, toClient>>
      BY <1>7, <2>2 DEF MeshHandles
    <3>2. IsMark(m)
      BY <2>2 DEF IsMark
    <3> QED BY <1>1, <1>2, <1>3, <1>6, <1>7, <2>2, <3>1, <3>2, ServerStepKeeps
  <2>3. CASE m.type = "record"
    <3>1. /\ UNCHANGED <<ready, other>> /\ recorded' \in BOOLEAN
          /\ toClient' \in Seq(Messages) /\ Len(toClient') <= MaxQueue
      BY <1>1, <1>4, <1>7, <2>3, MeshRecords
    <3>2. ~IsMark(m) /\ (Held' <=> Held)
      BY <1>1, <1>7, <2>3, <3>1 DEF IsMark, Held, ClientUntouched
    <3> QED BY <1>1, <1>2, <1>3, <1>6, <1>7, <3>1, <3>2, ServerStepKeeps
  <2> QED BY <1>7, <2>1, <2>2, <2>3 DEF MeshHandles
<1>8. CASE network = "sfu" /\ SfuHandles(m) /\ UNCHANGED recorded
  <2>1. CASE m.type = "ready"
    <3>1. /\ ready' \in {"no", "yes", "closing"} /\ UNCHANGED other /\ withdrawn' \in BOOLEAN
          /\ ready' = "yes" \/ withdrawn'
          /\ UNCHANGED toClient \/ Broadcast(Users)
      BY <1>3, <1>8, <2>1 DEF SfuHandles
    <3>2. toClient' \in Seq(Messages) /\ Len(toClient') <= MaxQueue
      BY <1>1, <1>3, <3>1, BroadcastFits, UsersFits
    <3>3. IsMark(m) /\ Held'
      BY <1>1, <1>8, <2>1, <3>1 DEF IsMark, Held, ClientUntouched
    <3> QED BY <1>1, <1>2, <1>3, <1>6, <1>8, <2>1, <3>1, <3>2, <3>3, ServerStepKeeps
  <2>2. CASE m.type = "hangUp"
    <3>1. /\ ready' \in {"no", "closing"} /\ UNCHANGED <<other, withdrawn, toClient>>
      BY <1>3, <1>8, <2>2 DEF SfuHandles
    <3>2. IsMark(m)
      BY <2>2 DEF IsMark
    <3> QED BY <1>1, <1>2, <1>3, <1>6, <1>8, <2>2, <3>1, <3>2, ServerStepKeeps
  <2>3. CASE m.type = "record"
    <3>1. UNCHANGED <<ready, other, withdrawn, toClient>>
      BY <1>8, <2>3 DEF SfuHandles
    <3>2. ~IsMark(m) /\ (Held' <=> Held)
      BY <1>1, <1>8, <2>3, <3>1 DEF IsMark, Held, ClientUntouched
    <3> QED BY <1>1, <1>2, <1>3, <1>6, <1>8, <3>1, <3>2, ServerStepKeeps
  <2> QED BY <1>8, <2>1, <2>2, <2>3 DEF SfuHandles
<1> QED BY <1>7, <1>8 DEF ServerHandles, m

\* The SFU withdraws the client, and is done with it.
LEMMA WithdrawalKeeps ==
  ASSUME SessionIndInv, TransportCloses \/ SignalsEnd
  PROVE  SessionIndInv'
<1>1. /\ ClientUntouched /\ UNCHANGED <<toServer, toClient, other, recorded>>
      /\ ready' \in {"no", "closing"} /\ withdrawn' \in BOOLEAN
      /\ Held => Held'
  <2>1. /\ ClientUntouched /\ UNCHANGED <<toServer, toClient, other, recorded>>
        /\ ready' \in {"no", "closing"}
        /\ \/ network = "sfu" /\ withdrawn' = TRUE
           \/ ready # "yes" /\ withdrawn' = withdrawn
    BY DEF TransportCloses, SignalsEnd, ClientUntouched, socketVars, handlerVars, recordVars
  <2>2. withdrawn' \in BOOLEAN
    BY <2>1 DEF SessionIndInv, TypeOK
  <2>3. Held => Held'
    BY <2>1 DEF Held, ClientUntouched
  <2> QED BY <2>1, <2>2, <2>3
<1>2. /\ toServer' \in Seq(Messages) /\ Len(toServer') <= MaxQueue
      /\ toClient' \in Seq(Messages) /\ Len(toClient') <= MaxQueue
      /\ other' \in BOOLEAN /\ recorded' \in BOOLEAN
  BY <1>1 DEF SessionIndInv, TypeOK
<1>3. View(toServer', ready' = "yes") => View(toServer, ready = "yes")
  BY <1>1, ViewGrows
<1>4. View(toServer, Held) => View(toServer', Held')
  BY <1>1, ViewGrows
<1> QED BY <1>1, <1>2, <1>3, <1>4, ServerStepKeeps

\* The other user joins or leaves, or starts or stops the recording.
LEMMA OtherKeeps ==
  ASSUME SessionIndInv, OtherUser \/ OtherRecords
  PROVE  SessionIndInv'
<1>1. /\ ClientUntouched /\ UNCHANGED <<toServer, ready, withdrawn>>
      /\ other' \in BOOLEAN /\ recorded' \in BOOLEAN
      /\ toClient' \in Seq(Messages) /\ Len(toClient') <= MaxQueue
  <2>1. CASE OtherUser
    <3>1. /\ ClientUntouched /\ UNCHANGED <<toServer, ready, recorded, withdrawn>>
          /\ other' \in BOOLEAN /\ RoomToReceive
          /\ Broadcast(Users) \/ UNCHANGED toClient
      BY <2>1 DEF OtherUser, ClientUntouched, socketVars, handlerVars, recordVars
    <3>2. Users \in Messages
      BY <3>1, UsersFits
    <3>3. toClient' \in Seq(Messages) /\ Len(toClient') <= MaxQueue
      BY <3>1, <3>2, BroadcastFits
    <3> QED BY <3>1, <3>3 DEF SessionIndInv, TypeOK
  <2>2. CASE OtherRecords
    <3>1. /\ ClientUntouched /\ UNCHANGED <<toServer, withdrawn>> /\ RoomToReceive
          /\ \E m \in [type : {"record"}, recordStatus : BOOLEAN] : MeshHandles(m)
      BY <2>2 DEF OtherRecords, ClientUntouched, socketVars, handlerVars, recordVars
    <3>2. PICK m \in [type : {"record"}, recordStatus : BOOLEAN] : MeshHandles(m)
      BY <3>1
    <3>3. m.type = "record" /\ m.recordStatus \in BOOLEAN
      OBVIOUS
    <3>4. /\ UNCHANGED <<ready, other>> /\ recorded' \in BOOLEAN
          /\ toClient' \in Seq(Messages) /\ Len(toClient') <= MaxQueue
      BY <3>1, <3>2, <3>3, MeshRecords
    <3> QED BY <3>1, <3>4 DEF SessionIndInv, TypeOK
  <2> QED BY <2>1, <2>2
<1>2. toServer' \in Seq(Messages) /\ Len(toServer') <= MaxQueue /\ withdrawn' \in BOOLEAN
      /\ ready' \in {"no", "yes", "closing"}
  BY <1>1 DEF SessionIndInv, TypeOK
<1>3. /\ View(toServer', ready' = "yes") => View(toServer, ready = "yes")
      /\ View(toServer, Held) => View(toServer', Held')
  BY <1>1 DEF Held, ClientUntouched
<1> QED BY <1>1, <1>2, <1>3, ServerStepKeeps

-----------------------------------------------------------------------------
(* Dials *)

LEMMA DialsCounted ==
  ASSUME NEW A \in SUBSET Dials, NEW B \in SUBSET Dials, A \subseteq B
  PROVE  /\ IsFiniteSet(A) /\ Cardinality(A) \in Nat /\ Cardinality(B) \in Nat
         /\ Cardinality(A) <= Cardinality(B) /\ Cardinality(B) <= MaxDials
<1>1. IsFiniteSet(Dials) /\ Cardinality(Dials) = MaxDials
  <2>1. 1 \in Int /\ MaxDials \in Int
    BY CallSessionAssumption
  <2>2. IsFiniteSet(1..MaxDials) /\ Cardinality(1..MaxDials) = IF 1 > MaxDials THEN 0 ELSE MaxDials - 1 + 1
    BY <2>1, FS_Interval
  <2> QED BY <2>2, CallSessionAssumption DEF Dials
<1>2. IsFiniteSet(A) /\ IsFiniteSet(B) /\ Cardinality(A) <= Cardinality(B)
      /\ Cardinality(B) <= Cardinality(Dials)
  BY <1>1, FS_Subset
<1>3. Cardinality(A) \in Nat /\ Cardinality(B) \in Nat
  BY <1>2, FS_CardinalityType
<1> QED BY <1>1, <1>2, <1>3

LEMMA HandleSubmitKeeps ==
  ASSUME SessionIndInv, NEW d \in Dials, HandleSubmit(d)
  PROVE  SessionIndInv'
<1>1. /\ HungUp /\ dials[d] = "idle" /\ dials' = [dials EXCEPT ![d] = "media"]
      /\ overlap' = (overlap \/ \E e \in Dials : dials[e] = "media")
      /\ UNCHANGED <<ws, connected, reconnecting, pings, toServer, toClient, media,
                     usersHandler, once, recordHandlers, localStreams, created, rec, incidents, desktopFirst, network, withdrawn,
                     peers, ready, other, recorded, failed, lost>>
      /\ media.socketConnected
  BY DEF HandleSubmit, JoinEnabled, HungUp, socketVars, handlerVars, recordVars, serverVars
<1>2. /\ dials \in [Dials -> {"idle", "media", "pending", "resolved", "done"}]
      /\ dials' \in [Dials -> {"idle", "media", "pending", "resolved", "done"}]
  BY <1>1 DEF SessionIndInv, TypeOK
<1>3. TypeOK'
  <2>1. overlap' \in BOOLEAN
    BY <1>1
  <2> QED BY <1>1, <1>2, <2>1 DEF SessionIndInv, TypeOK
<1>4. SocketFacts'
  BY <1>1 DEF SessionIndInv, SocketFacts, PingsWhileOpen, HungUp
<1>5. HandlersCounted'
  <2>1. Dialled' = Dialled
    BY <1>1, <1>2 DEF Dialled
  <2> QED BY <1>1, <2>1 DEF SessionIndInv, HandlersCounted
<1>6. NothingLeft' /\ StreamsDiffer' /\ RecordingInTurn' /\ RecordingWhole' /\ (HungUp' <=> HungUp)
  BY <1>1 DEF SessionIndInv, NothingLeft, StreamsDiffer, RecordingInTurn, RecordingWhole, HungUp
<1>7. OnceAnswers'
  BY <1>1, <1>2, <1>6 DEF SessionIndInv, OnceAnswers
<1>8. ServerSees'
  BY <1>1, <1>6, ViewUntouched
<1>9. OneDial'
  <2>1. SUFFICES ASSUME ~overlap' PROVE OneDial'
    BY DEF OneDial
  <2>2. ~overlap /\ \A e \in Dials : dials[e] # "media"
    BY <1>1, <2>1
  <2>3. \A e \in Dials : dials[e] # "pending"
    BY <1>1, <2>2 DEF SessionIndInv, OneDial, HungUp
  <2>4. \A e \in Dials : dials'[e] # "pending" /\ (dials'[e] = "media" => e = d)
    BY <1>1, <1>2, <2>2, <2>3
  <2> QED BY <1>1, <1>6, <2>4 DEF OneDial
<1> QED BY <1>3, <1>4, <1>5, <1>6, <1>7, <1>8, <1>9 DEF SessionIndInv

LEMMA MediaRejectedKeeps ==
  ASSUME SessionIndInv, NEW d \in Dials, MediaRejected(d)
  PROVE  SessionIndInv'
<1>1. /\ dials[d] = "media" /\ dials' = [dials EXCEPT ![d] = "done"]
      /\ UNCHANGED <<ws, connected, reconnecting, pings, toServer, toClient, media,
                     usersHandler, once, recordHandlers, localStreams, created, rec, incidents, desktopFirst, network, withdrawn,
                     peers, ready, other, recorded, failed, lost, overlap>>
  BY DEF MediaRejected, socketVars, handlerVars, recordVars, serverVars
<1>2. /\ dials \in [Dials -> {"idle", "media", "pending", "resolved", "done"}]
      /\ dials' \in [Dials -> {"idle", "media", "pending", "resolved", "done"}]
  BY <1>1 DEF SessionIndInv, TypeOK
<1>3. TypeOK'
  BY <1>1, <1>2 DEF SessionIndInv, TypeOK
<1>4. SocketFacts'
  BY <1>1 DEF SessionIndInv, SocketFacts, PingsWhileOpen, HungUp
<1>5. HandlersCounted'
  <2>1. Dialled \in SUBSET Dials /\ Dialled' \in SUBSET Dials /\ Dialled \subseteq Dialled'
    BY <1>1, <1>2 DEF Dialled
  <2>2. Cardinality(Dialled) \in Nat /\ Cardinality(Dialled') \in Nat
        /\ Cardinality(Dialled) <= Cardinality(Dialled')
    BY <2>1, DialsCounted
  <2>3. recordHandlers \in Nat /\ recordHandlers' = recordHandlers
    BY <1>1, CallSessionAssumption DEF SessionIndInv, TypeOK
  <2> QED BY <2>2, <2>3 DEF SessionIndInv, HandlersCounted
<1>6. NothingLeft' /\ StreamsDiffer' /\ RecordingInTurn' /\ RecordingWhole' /\ (HungUp' <=> HungUp)
  BY <1>1 DEF SessionIndInv, NothingLeft, StreamsDiffer, RecordingInTurn, RecordingWhole, HungUp
<1>7. OnceAnswers'
  BY <1>1, <1>2, <1>6 DEF SessionIndInv, OnceAnswers
<1>8. ServerSees'
  BY <1>1, <1>6, ViewUntouched
<1>9. OneDial'
  <2>1. \A e \in Dials : dials'[e] \in {"media", "pending"} => dials'[e] = dials[e]
    BY <1>1, <1>2
  <2> QED BY <1>1, <1>6, <2>1 DEF SessionIndInv, OneDial
<1> QED BY <1>3, <1>4, <1>5, <1>6, <1>7, <1>8, <1>9 DEF SessionIndInv

\* The camera is there: dial, which leaves the client dialling or rejects.
LEMMA MediaResolvedKeeps ==
  ASSUME SessionIndInv, NEW d \in Dials, MediaResolved(d)
  PROVE  SessionIndInv'
<1> DEFINE m == [type |-> "ready"]
<1>1. /\ dials[d] = "media" /\ created < MaxStreams /\ Len(toServer) < MaxQueue
      /\ AddLocalStream("camera")
      /\ usersHandler' = TRUE /\ recordHandlers' = recordHandlers + 1
      /\ toServer' = IF ws = "open" THEN Append(toServer, m) ELSE toServer
      /\ dials' = [dials EXCEPT ![d] = IF SendThrows THEN "done" ELSE "pending"]
      /\ once' = IF SendThrows THEN {} ELSE {d}
      /\ media' = [media EXCEPT !.dialState = IF SendThrows THEN "hung-up" ELSE "dialling"]
      /\ failed' = (failed \/ SendThrows)
      /\ UNCHANGED <<ws, connected, reconnecting, pings, toClient, incidents, network, withdrawn,
                     peers, ready, other, recorded, lost, overlap>>
  BY DEF MediaResolved, RoomToSend, Dial, Emit, Sent, HandleDial, socketVars, serverVars
<1>2. /\ dials \in [Dials -> {"idle", "media", "pending", "resolved", "done"}]
      /\ dials' \in [Dials -> {"idle", "media", "pending", "resolved", "done"}]
      /\ dials'[d] = IF SendThrows THEN "done" ELSE "pending"
      /\ \A e \in Dials : e # d => dials'[e] = dials[e]
  BY <1>1 DEF SessionIndInv, TypeOK
<1>3. /\ media' \in MediaTypes /\ media'.recordStatus = media.recordStatus
      /\ media'.dialState = IF SendThrows THEN "hung-up" ELSE "dialling"
  BY <1>1 DEF SessionIndInv, TypeOK, MediaTypes
<1>4. HungUp' <=> SendThrows
  BY <1>3 DEF HungUp
<1>5. "camera" \in Types
  BY DEF Types
<1>6. /\ IsMap(localStreams', Types, 1..created') /\ created' \in 0..MaxStreams
      /\ rec' \in RecTypes
      /\ rec'.isRecording = rec.isRecording /\ rec'.leaked = rec.leaked
      /\ rec'.recorder.alive = rec.recorder.alive
      /\ StreamsDiffer' /\ desktopFirst' \in BOOLEAN
      /\ (rec.isRecording => \A t \in DOMAIN localStreams :
               rec.recorder.alive /\ localStreams[t] \in rec.recorder.streams)
            => (rec.isRecording => \A t \in DOMAIN localStreams' :
                  rec'.recorder.alive /\ localStreams'[t] \in rec'.recorder.streams)
  BY <1>1, <1>5, StreamAdded
<1>7. toServer \in Seq(Messages) /\ Len(toServer) <= MaxQueue
  BY DEF SessionIndInv, TypeOK
<1>8. m \in Messages /\ IsMark(m) /\ m.type = "ready"
  BY DEF Messages, IsMark
<1> HIDE DEF m
<1>9. toServer' \in Seq(Messages) /\ Len(toServer') <= MaxQueue
  <2>1. Append(toServer, m) \in Seq(Messages) /\ Len(Append(toServer, m)) <= MaxQueue
    BY <1>1, <1>7, <1>8, AppendFits
  <2> QED BY <1>1, <1>7, <2>1
<1>10. HandlersCounted' /\ recordHandlers' \in 0..MaxDials
  <2>1. /\ Dialled \in SUBSET Dials /\ Dialled' \in SUBSET Dials /\ Dialled' = Dialled \cup {d}
        /\ d \notin Dialled
    BY <1>1, <1>2 DEF Dialled
  <2>2. /\ IsFiniteSet(Dialled) /\ Cardinality(Dialled) \in Nat
        /\ Cardinality(Dialled') <= MaxDials
    BY <2>1, DialsCounted
  <2>3. Cardinality(Dialled') = Cardinality(Dialled) + 1
    BY <2>1, <2>2, FS_AddElement
  <2>4. recordHandlers \in Nat /\ recordHandlers <= Cardinality(Dialled)
    BY CallSessionAssumption DEF SessionIndInv, TypeOK, HandlersCounted
  <2> QED BY <1>1, <2>2, <2>3, <2>4, CallSessionAssumption DEF HandlersCounted
<1>11. TypeOK'
  <2>1. once' \subseteq Dials /\ usersHandler' \in BOOLEAN
    BY <1>1
  <2>2. failed' \in BOOLEAN
    BY <1>1
  <2> QED BY <1>1, <1>2, <1>3, <1>6, <1>9, <1>10, <2>1, <2>2
          DEF SessionIndInv, TypeOK, MediaTypes, RecTypes
<1>12. SocketFacts'
  BY <1>1 DEF SessionIndInv, SocketFacts, PingsWhileOpen, HungUp
<1>13. NothingLeft' /\ OnceAnswers'
  BY <1>1, <1>4 DEF NothingLeft, OnceAnswers
<1>14. ServerSees'
  <2>1. ASSUME ~lost', ~failed' PROVE View(toServer', Held') /\ ~HungUp'
    <3>1. ws = "open"
      BY <1>1, <2>1 DEF SessionIndInv, SocketFacts
    <3>2. ~HungUp' /\ toServer' = Append(toServer, m)
      BY <1>1, <1>4, <2>1, <3>1
    <3> QED BY <1>7, <1>8, <3>2, ViewOfAppend
  <2> QED BY <2>1 DEF ServerSees
<1>15. RecordingInTurn' /\ RecordingWhole'
  <2>1. ~(HungUp' /\ ~failed')
    BY <1>1, <1>4
  <2>2. RecordingInTurn'
    BY <1>1, <1>3, <1>6, <2>1 DEF SessionIndInv, RecordingInTurn
  <2>3. RecordingWhole'
    BY <1>1, <1>6 DEF SessionIndInv, RecordingWhole
  <2> QED BY <2>2, <2>3
<1>16. OneDial'
  <2>1. SUFFICES ASSUME ~overlap' PROVE OneDial'
    BY DEF OneDial
  <2>2. \A e \in Dials : dials[e] \in {"media", "pending"} => e = d
    BY <1>1, <2>1 DEF SessionIndInv, OneDial
  <2>3. \A e \in Dials : dials'[e] \in {"media", "pending"} => e = d /\ dials'[e] = "pending" /\ ~SendThrows
    BY <1>2, <2>2
  <2> QED BY <1>3, <2>3 DEF OneDial
<1> QED BY <1>6, <1>10, <1>11, <1>12, <1>13, <1>14, <1>15, <1>16 DEF SessionIndInv

LEMMA DialTimeoutKeeps ==
  ASSUME SessionIndInv, NEW d \in Dials, DialTimeout(d)
  PROVE  SessionIndInv'
<1>1. /\ dials[d] = "pending" /\ dials' = [dials EXCEPT ![d] = "done"]
      /\ media' = [media EXCEPT !.dialState = "hung-up"] /\ failed' = TRUE
      /\ UNCHANGED <<ws, connected, reconnecting, pings, toServer, toClient, usersHandler,
                     once, recordHandlers, localStreams, created, rec, incidents, desktopFirst, network, withdrawn, peers,
                     ready, other, recorded, lost, overlap>>
  BY DEF DialTimeout, HandleDial, socketVars, handlerVars, recordVars, serverVars
<1>2. /\ dials \in [Dials -> {"idle", "media", "pending", "resolved", "done"}]
      /\ dials' \in [Dials -> {"idle", "media", "pending", "resolved", "done"}]
      /\ dials'[d] = "done" /\ \A e \in Dials : e # d => dials'[e] = dials[e]
  BY <1>1 DEF SessionIndInv, TypeOK
<1>3. media' \in MediaTypes /\ media'.recordStatus = media.recordStatus
  BY <1>1 DEF SessionIndInv, TypeOK, MediaTypes
<1>4. TypeOK'
  <2>1. failed' \in BOOLEAN
    BY <1>1
  <2> QED BY <1>1, <1>2, <1>3, <2>1 DEF SessionIndInv, TypeOK, MediaTypes
<1>5. SocketFacts'
  BY <1>1 DEF SessionIndInv, SocketFacts, PingsWhileOpen, HungUp
<1>6. HandlersCounted'
  <2>1. Dialled' = Dialled
    BY <1>1, <1>2 DEF Dialled
  <2> QED BY <1>1, <2>1 DEF SessionIndInv, HandlersCounted
<1>7. NothingLeft' /\ StreamsDiffer'
  BY <1>1 DEF SessionIndInv, NothingLeft, StreamsDiffer
<1>8. OnceAnswers'
  BY <1>1, <1>2 DEF SessionIndInv, OnceAnswers
<1>9. ServerSees'
  BY <1>1 DEF ServerSees
<1>10. RecordingInTurn' /\ RecordingWhole'
  BY <1>1, <1>3 DEF SessionIndInv, RecordingInTurn, RecordingWhole
<1>11. OneDial'
  <2>1. SUFFICES ASSUME ~overlap' PROVE OneDial'
    BY DEF OneDial
  <2>2. /\ \A e \in Dials : dials'[e] \in {"media", "pending"} => dials'[e] = dials[e] /\ e # d
        /\ ~overlap
    BY <1>1, <1>2, <2>1
  <2>3. \A e \in Dials : dials'[e] \notin {"media", "pending"}
    BY <1>1, <2>2 DEF SessionIndInv, OneDial
  <2> QED BY <2>3 DEF OneDial
<1> QED BY <1>4, <1>5, <1>6, <1>7, <1>8, <1>9, <1>10, <1>11 DEF SessionIndInv

-----------------------------------------------------------------------------
(* Messages to the client *)

\* users: handleUsers, which is called only if it listens, and the dial's listener.
LEMMA HandleUsersKeeps ==
  ASSUME SessionIndInv, HandleUsers
  PROVE  SessionIndInv'
<1> DEFINE m == Head(toClient)
           n == IF usersHandler /\ m.recordStatus THEN 1 ELSE 0
           answered == \E d \in once : dials[d] = "pending"
<1>1. /\ toClient # <<>> /\ m.type = "users" /\ toClient' = Tail(toClient)
      /\ rec' = HandleRecordCallback(n, TRUE)
      /\ incidents' = Incidents(n, TRUE)
      /\ peers' = (peers \/ (usersHandler /\ m.peer))
      /\ once' = {}
      /\ dials' = [d \in Dials |-> IF d \in once /\ dials[d] = "pending" THEN "resolved"
                                   ELSE dials[d]]
      /\ media' = [media EXCEPT !.recordStatus = @ \/ n = 1,
                                !.dialState = IF answered THEN "in-call" ELSE @]
      /\ UNCHANGED <<ws, connected, reconnecting, pings, toServer, usersHandler,
                     recordHandlers, localStreams, desktopFirst, created, network,
                     ready, other, recorded, withdrawn, failed, lost, overlap>>
  BY DEF HandleUsers, Received, HandleDial, socketVars, streamVars, serverVars
<1>2. /\ toClient' \in Seq(Messages) /\ Len(toClient') <= MaxQueue /\ m \in Messages
  <2>1. toClient \in Seq(Messages) /\ Len(toClient) <= MaxQueue /\ Len(toClient) \in Nat
    BY DEF SessionIndInv, TypeOK
  <2>2. Tail(toClient) \in Seq(Messages) /\ Len(Tail(toClient)) = Len(toClient) - 1 /\ m \in Messages
    BY <1>1, <2>1
  <2> QED BY <1>1, <2>1, <2>2, CallSessionAssumption
<1>3. n \in Nat /\ (n = 1 => usersHandler) /\ (n = 0 \/ n = 1)
  OBVIOUS
<1> HIDE DEF n
<1>4. /\ dials \in [Dials -> {"idle", "media", "pending", "resolved", "done"}]
      /\ dials' \in [Dials -> {"idle", "media", "pending", "resolved", "done"}]
      /\ \A d \in Dials : dials'[d] = IF d \in once /\ dials[d] = "pending" THEN "resolved"
                                      ELSE dials[d]
  BY <1>1 DEF SessionIndInv, TypeOK
<1>5. media' \in MediaTypes /\ (media'.recordStatus <=> (media.recordStatus \/ n = 1))
      /\ media'.dialState = IF answered THEN "in-call" ELSE media.dialState
  <2>1. media \in MediaTypes
    BY DEF SessionIndInv, TypeOK, MediaTypes
  <2>2. (media.recordStatus \/ n = 1) \in BOOLEAN
    OBVIOUS
  <2> QED BY <1>1, <2>1, <2>2 DEF MediaTypes
<1>6. rec' \in RecTypes
  BY <1>1, CallbackTyped DEF SessionIndInv
<1>7. HungUp' <=> HungUp /\ ~answered
  BY <1>5 DEF HungUp
<1>8. ~failed => ~(HungUp /\ answered)
  BY DEF SessionIndInv, OnceAnswers
<1> HIDE DEF answered
<1>9. TypeOK'
  <2>1. peers' \in BOOLEAN /\ incidents' \subseteq {"mixed", "late", "cut"}
    BY <1>1, <1>3, IncidentsKept DEF SessionIndInv
  <2>2. once' \subseteq Dials
    BY <1>1
  <2> HIDE DEF m
  <2> QED BY <1>1, <1>2, <1>4, <1>5, <1>6, <2>1, <2>2 DEF SessionIndInv, TypeOK, MediaTypes, RecTypes
<1>10. SocketFacts'
  <2>1. media'.socketConnected = media.socketConnected
    BY <1>1 DEF SessionIndInv, TypeOK
  <2>2. (\A d \in Dials : dials[d] = "idle") => ~answered /\ \A d \in Dials : dials'[d] = "idle"
    BY <1>4 DEF SessionIndInv, TypeOK, answered
  <2> QED BY <1>1, <1>7, <2>1, <2>2 DEF SessionIndInv, SocketFacts, PingsWhileOpen
<1>11. HandlersCounted'
  <2>1. Dialled' = Dialled
    BY <1>4 DEF Dialled
  <2> QED BY <1>1, <2>1 DEF SessionIndInv, HandlersCounted
<1>12. NothingLeft'
  BY <1>1, <1>7 DEF SessionIndInv, NothingLeft
<1>13. OnceAnswers' /\ StreamsDiffer'
  BY <1>1 DEF SessionIndInv, OnceAnswers, StreamsDiffer
<1>14. ServerSees'
  BY <1>1, <1>7, <1>8 DEF SessionIndInv, ServerSees, Held
<1>15. RecordingInTurn' /\ RecordingWhole'
  <2>1. HungUp' => HungUp
    BY <1>7
  <2>2. /\ n = 1 => (media'.recordStatus <=> TRUE)
        /\ n = 0 => (media'.recordStatus <=> media.recordStatus)
    BY <1>5
  <2>3. /\ rec' = HandleRecordCallback(n, TRUE) /\ incidents' = Incidents(n, TRUE)
        /\ UNCHANGED <<localStreams, failed>>
    BY <1>1
  <2> QED BY <1>3, <2>1, <2>2, <2>3, CallbackKeeps
<1>16. OneDial'
  <2>1. SUFFICES ASSUME ~overlap' PROVE OneDial'
    BY DEF OneDial
  <2>2. \A d \in Dials : dials'[d] \in {"media", "pending"} =>
          dials'[d] = dials[d] /\ ~(d \in once /\ dials[d] = "pending")
    BY <1>4
  <2>3. \A d, e \in Dials : dials[d] \in {"media", "pending"} /\ dials[e] \in {"media", "pending"} => d = e
    BY <1>1, <2>1 DEF SessionIndInv, OneDial
  <2>4. ASSUME NEW d \in Dials, dials'[d] \in {"media", "pending"}
        PROVE  ~answered
    <3>1. once \subseteq Dials
      BY DEF SessionIndInv, TypeOK
    <3> QED BY <2>2, <2>3, <2>4, <3>1 DEF answered
  <2> QED BY <1>1, <1>5, <1>7, <2>1, <2>2, <2>3, <2>4 DEF SessionIndInv, OneDial
<1> QED BY <1>9, <1>10, <1>11, <1>12, <1>13, <1>14, <1>15, <1>16 DEF SessionIndInv

\* record_callback: every handler is called.
LEMMA HandleRecordKeeps ==
  ASSUME SessionIndInv, HandleRecord
  PROVE  SessionIndInv'
<1> DEFINE m == Head(toClient)
           n == IF m.successful THEN recordHandlers ELSE 0
           status == m.recordStatus
<1>1. /\ toClient # <<>> /\ m.type = "record_callback" /\ toClient' = Tail(toClient)
      /\ rec' = HandleRecordCallback(n, status)
      /\ incidents' = Incidents(n, status)
      /\ media' = IF n > 0 THEN [media EXCEPT !.recordStatus = status] ELSE media
      /\ UNCHANGED <<ws, connected, reconnecting, pings, toServer, dials, usersHandler, once,
                     recordHandlers, localStreams, desktopFirst, created, peers, network,
                     ready, other, recorded, withdrawn, failed, lost, overlap>>
  BY DEF HandleRecord, Received, socketVars, handlerVars, streamVars, serverVars
<1>2. /\ toClient' \in Seq(Messages) /\ Len(toClient') <= MaxQueue /\ m \in Messages
  <2>1. toClient \in Seq(Messages) /\ Len(toClient) <= MaxQueue /\ Len(toClient) \in Nat
    BY DEF SessionIndInv, TypeOK
  <2>2. Tail(toClient) \in Seq(Messages) /\ Len(Tail(toClient)) = Len(toClient) - 1 /\ m \in Messages
    BY <1>1, <2>1
  <2> QED BY <1>1, <2>1, <2>2, CallSessionAssumption
<1>3. status \in BOOLEAN
  BY <1>1, <1>2 DEF Messages
<1>4. n \in Nat
  BY CallSessionAssumption DEF SessionIndInv, TypeOK
<1> HIDE DEF n, status, m
<1>5. media' \in MediaTypes /\ media'.dialState = media.dialState
      /\ media'.recordStatus = IF n > 0 THEN status ELSE media.recordStatus
  BY <1>1, <1>3 DEF SessionIndInv, TypeOK, MediaTypes
<1>6. rec' \in RecTypes
  BY <1>1, CallbackTyped DEF SessionIndInv
<1>7. HungUp' <=> HungUp
  BY <1>5 DEF HungUp
<1>8. TypeOK'
  <2>1. incidents' \subseteq {"mixed", "late", "cut"}
    BY <1>1, <1>3, <1>4, IncidentsKept DEF SessionIndInv
  <2> QED BY <1>1, <1>2, <1>5, <1>6, <2>1 DEF SessionIndInv, TypeOK, MediaTypes, RecTypes
<1>9. SocketFacts'
  BY <1>1 DEF SessionIndInv, SocketFacts, PingsWhileOpen, HungUp
<1>10. HandlersCounted' /\ StreamsDiffer'
  BY <1>1 DEF SessionIndInv, HandlersCounted, Dialled, StreamsDiffer
<1>11. NothingLeft' /\ OnceAnswers' /\ OneDial'
  BY <1>1, <1>5, <1>7 DEF SessionIndInv, NothingLeft, OnceAnswers, OneDial
<1>12. ServerSees'
  BY <1>1, <1>7, ViewUntouched
<1>13. RecordingInTurn' /\ RecordingWhole'
  BY <1>1, <1>3, <1>4, <1>5, <1>7, CallbackKeeps
<1> QED BY <1>8, <1>9, <1>10, <1>11, <1>12, <1>13 DEF SessionIndInv

-----------------------------------------------------------------------------
(* The toolbar and the recording service *)

LEMMA RecorderClosesKeeps ==
  ASSUME SessionIndInv, RecorderCloses
  PROVE  SessionIndInv'
<1>1. /\ rec' = [rec EXCEPT !.recorder = NoRecorder]
      /\ incidents' = incidents \cup {"cut"}
      /\ UNCHANGED <<ws, connected, reconnecting, pings, toServer, toClient, media, dials,
                     usersHandler, once, recordHandlers, localStreams, desktopFirst, created,
                     peers, network, ready, other, recorded, withdrawn, failed, lost,
                     overlap>>
  BY DEF RecorderCloses, socketVars, handlerVars, streamVars, serverVars
<1>2. /\ rec' \in RecTypes /\ rec'.isRecording = rec.isRecording /\ rec'.leaked = rec.leaked
      /\ ~rec'.recorder.alive
  BY <1>1 DEF SessionIndInv, TypeOK, RecTypes, NoRecorder
<1>3. TypeOK'
  BY <1>1, <1>2 DEF SessionIndInv, TypeOK, RecTypes
<1>4. SocketFacts' /\ HandlersCounted' /\ StreamsDiffer' /\ (HungUp' <=> HungUp)
  BY <1>1 DEF SessionIndInv, SocketFacts, PingsWhileOpen, HandlersCounted, Dialled,
              StreamsDiffer, HungUp
<1>5. NothingLeft' /\ OnceAnswers' /\ OneDial' /\ RecordingInTurn' /\ RecordingWhole'
  BY <1>1, <1>2, <1>4 DEF SessionIndInv, NothingLeft, OnceAnswers, OneDial, RecordingInTurn,
                          RecordingWhole
<1>6. ServerSees'
  BY <1>1, <1>4, ViewUntouched
<1> QED BY <1>3, <1>4, <1>5, <1>6 DEF SessionIndInv

\* Steps that change the local streams and what is recorded of them.
LEMMA StreamStepKeeps ==
  ASSUME SessionIndInv,
         UNCHANGED <<ws, connected, reconnecting, pings, toServer, toClient, media, dials,
                     usersHandler, once, recordHandlers, peers, network, ready, other, recorded,
                     withdrawn, failed, lost, overlap>>,
         incidents' \subseteq {"mixed", "late", "cut"},
         {"mixed", "late"} \cap incidents' = {"mixed", "late"} \cap incidents,
         desktopFirst' \in BOOLEAN,
         created' \in 0..MaxStreams,
         IsMap(localStreams', Types, 1..created'), StreamsDiffer',
         "camera" \in DOMAIN localStreams' => "camera" \in DOMAIN localStreams,
         rec' \in RecTypes, rec'.isRecording = rec.isRecording, rec'.leaked = rec.leaked,
         rec'.recorder.alive = rec.recorder.alive,
         RecordingWhole'
  PROVE  SessionIndInv'
<1>1. TypeOK'
  BY DEF SessionIndInv, TypeOK, RecTypes
<1>2. SocketFacts' /\ HandlersCounted' /\ (HungUp' <=> HungUp)
  BY DEF SessionIndInv, SocketFacts, PingsWhileOpen, HandlersCounted, Dialled, HungUp
<1>3. NothingLeft' /\ OnceAnswers' /\ OneDial'
  BY <1>2 DEF SessionIndInv, NothingLeft, OnceAnswers, OneDial
<1>4. RecordingInTurn'
  <2>1. /\ "mixed" \notin incidents' => "mixed" \notin incidents
        /\ "late" \notin incidents' => "late" \notin incidents
    OBVIOUS
  <2> QED BY <1>2, <2>1 DEF SessionIndInv, RecordingInTurn
<1>5. ServerSees'
  BY <1>2, ViewUntouched
<1> QED BY <1>1, <1>2, <1>3, <1>4, <1>5 DEF SessionIndInv

LEMMA DesktopStreamKeeps ==
  ASSUME SessionIndInv, DesktopStream
  PROVE  SessionIndInv'
<1>1. /\ created < MaxStreams /\ AddLocalStream("desktop")
      /\ UNCHANGED <<ws, connected, reconnecting, pings, toServer, toClient, media, dials,
                     usersHandler, once, recordHandlers, incidents, peers, network, ready,
                     other, recorded, withdrawn, failed, lost, overlap>>
  BY DEF DesktopStream, socketVars, handlerVars, serverVars
<1>2. "desktop" \in Types
  BY DEF Types
<1>3. /\ IsMap(localStreams', Types, 1..created') /\ created' \in 0..MaxStreams
      /\ DOMAIN localStreams' \subseteq DOMAIN localStreams \cup {"desktop"}
      /\ rec' \in RecTypes
      /\ rec'.isRecording = rec.isRecording /\ rec'.leaked = rec.leaked
      /\ rec'.recorder.alive = rec.recorder.alive
      /\ StreamsDiffer' /\ desktopFirst' \in BOOLEAN
      /\ (rec.isRecording => \A t \in DOMAIN localStreams :
            rec.recorder.alive /\ localStreams[t] \in rec.recorder.streams)
         => (rec.isRecording => \A t \in DOMAIN localStreams' :
               rec'.recorder.alive /\ localStreams'[t] \in rec'.recorder.streams)
  BY <1>1, <1>2, StreamAdded
<1>4. RecordingWhole'
  BY <1>1, <1>3 DEF SessionIndInv, RecordingWhole
<1>5. incidents' \subseteq {"mixed", "late", "cut"}
  BY <1>1 DEF SessionIndInv, TypeOK
<1>6. "camera" \in DOMAIN localStreams' => "camera" \in DOMAIN localStreams
  BY <1>3
<1> QED BY <1>1, <1>3, <1>4, <1>5, <1>6, StreamStepKeeps

\* StopSharing and HangUpFails.
LEMMA RemovalKeeps ==
  ASSUME SessionIndInv, NEW types, types \subseteq DOMAIN localStreams, RemoveLocalStreams(types),
         UNCHANGED <<ws, connected, reconnecting, pings, toServer, toClient, media, dials,
                     usersHandler, once, recordHandlers, created, incidents, peers, network,
                     ready, other, recorded, withdrawn, failed, lost, overlap>>
  PROVE  SessionIndInv'
<1>1. /\ IsMap(localStreams', Types, 1..created)
      /\ DOMAIN localStreams' \subseteq DOMAIN localStreams
      /\ rec' \in RecTypes
      /\ rec'.isRecording = rec.isRecording /\ rec'.leaked = rec.leaked
      /\ rec'.recorder.alive = rec.recorder.alive
      /\ StreamsDiffer' /\ desktopFirst' \in BOOLEAN
      /\ (rec.isRecording => \A t \in DOMAIN localStreams :
            rec.recorder.alive /\ localStreams[t] \in rec.recorder.streams)
         => (rec.isRecording => \A t \in DOMAIN localStreams' :
               rec'.recorder.alive /\ localStreams'[t] \in rec'.recorder.streams)
  BY StreamsRemoved
<1>2. RecordingWhole'
  BY <1>1 DEF SessionIndInv, RecordingWhole
<1>3. /\ incidents' \subseteq {"mixed", "late", "cut"}
      /\ created' \in 0..MaxStreams /\ created' = created
  BY DEF SessionIndInv, TypeOK
<1>4. "camera" \in DOMAIN localStreams' => "camera" \in DOMAIN localStreams
  BY <1>1
<1> QED BY <1>1, <1>2, <1>3, <1>4, StreamStepKeeps

\* A new track in the camera stream, which the recording peer does not have.
LEMMA HandleLocalMediaTrackKeeps ==
  ASSUME SessionIndInv, HandleLocalMediaTrack
  PROVE  SessionIndInv'
<1>1. /\ rec' = [rec EXCEPT !.recorder.streams = @ \ {localStreams["camera"]}]
      /\ incidents' = incidents \cup {i \in {"cut"} : rec.isRecording}
      /\ UNCHANGED <<ws, connected, reconnecting, pings, toServer, toClient, media, dials,
                     usersHandler, once, recordHandlers, localStreams, desktopFirst, created,
                     peers, network, ready, other, recorded, withdrawn, failed, lost, overlap>>
  BY DEF HandleLocalMediaTrack, socketVars, handlerVars, streamVars, serverVars
<1>2. rec \in RecTypes
  BY DEF SessionIndInv, TypeOK, RecTypes
<1>3. /\ rec' \in RecTypes /\ rec'.isRecording = rec.isRecording /\ rec'.leaked = rec.leaked
      /\ rec'.recorder.alive = rec.recorder.alive
  BY <1>1, <1>2 DEF RecTypes
<1>4. /\ incidents' \subseteq {"mixed", "late", "cut"}
      /\ {"mixed", "late"} \cap incidents' = {"mixed", "late"} \cap incidents
      /\ rec.isRecording => "cut" \in incidents'
  BY <1>1 DEF SessionIndInv, TypeOK
<1>5. RecordingWhole'
  BY <1>3, <1>4 DEF RecordingWhole
<1>6. /\ IsMap(localStreams', Types, 1..created') /\ created' \in 0..MaxStreams
      /\ desktopFirst' \in BOOLEAN
      /\ StreamsDiffer' /\ DOMAIN localStreams' = DOMAIN localStreams
  BY <1>1 DEF SessionIndInv, TypeOK, StreamsDiffer
<1> QED BY <1>1, <1>3, <1>4, <1>5, <1>6, StreamStepKeeps

\* App.onHangup: the message is sent if the socket is open.
LEMMA HangUpKeeps ==
  ASSUME SessionIndInv, HangUp
  PROVE  SessionIndInv'
<1> DEFINE m == [type |-> "hangUp"]
<1>1. /\ media.dialState = "in-call" /\ Len(toServer) < MaxQueue
      /\ toServer' = IF ws = "open" THEN Append(toServer, m) ELSE toServer
      /\ usersHandler' = FALSE /\ once' = {} /\ peers' = FALSE /\ failed' = FALSE
      /\ media' = [media EXCEPT !.dialState = "hung-up"]
      /\ localStreams' = EmptyMap /\ desktopFirst' = FALSE
      /\ rec' = [rec EXCEPT !.isRecording = FALSE, !.recorder = NoRecorder]
      /\ UNCHANGED <<ws, connected, reconnecting, pings, toClient, dials, recordHandlers,
                     created, network, ready, other, recorded, withdrawn, lost, incidents,
                     overlap>>
  BY DEF HangUp, InCall, RoomToSend, Emit, Sent, RemoveEventListeners, socketVars, serverVars
<1>2. media' \in MediaTypes /\ HungUp'
  BY <1>1 DEF SessionIndInv, TypeOK, MediaTypes, HungUp
<1>3. rec' \in RecTypes /\ ~rec'.isRecording /\ ~rec'.recorder.alive /\ rec'.leaked = rec.leaked
  BY <1>1 DEF SessionIndInv, TypeOK, RecTypes, NoRecorder
<1>4. DOMAIN localStreams' = {} /\ IsMap(localStreams', Types, 1..created')
  BY <1>1 DEF EmptyMap, IsMap
<1>5. toServer \in Seq(Messages) /\ Len(toServer) <= MaxQueue
  BY DEF SessionIndInv, TypeOK
<1>6. m \in Messages /\ IsMark(m) /\ m.type # "ready"
  BY DEF Messages, IsMark
<1> HIDE DEF m
<1>7. toServer' \in Seq(Messages) /\ Len(toServer') <= MaxQueue
  <2>1. Append(toServer, m) \in Seq(Messages) /\ Len(Append(toServer, m)) <= MaxQueue
    BY <1>1, <1>5, <1>6, AppendFits
  <2> QED BY <1>1, <1>5, <2>1
<1>8. TypeOK'
  <2>1. {desktopFirst', peers', failed'} \subseteq BOOLEAN
    BY <1>1
  <2>2. usersHandler' \in BOOLEAN /\ once' \subseteq Dials
    BY <1>1
  <2> QED BY <1>1, <1>2, <1>3, <1>4, <1>7, <2>1, <2>2 DEF SessionIndInv, TypeOK, MediaTypes, RecTypes
<1>9. SocketFacts' /\ HandlersCounted'
  BY <1>1 DEF SessionIndInv, SocketFacts, PingsWhileOpen, HungUp, HandlersCounted, Dialled
<1>10. NothingLeft' /\ OnceAnswers' /\ StreamsDiffer'
  BY <1>1, <1>4 DEF NothingLeft, OnceAnswers, StreamsDiffer
<1>11. ServerSees'
  <2>1. ASSUME ~lost' PROVE ~View(toServer', ready' = "yes")
    <3>1. ws = "open"
      BY <1>1, <2>1 DEF SessionIndInv, SocketFacts, HungUp
    <3>2. toServer' = Append(toServer, m)
      BY <1>1, <3>1
    <3> QED BY <1>5, <1>6, <3>2, ViewOfAppend
  <2> QED BY <1>2, <2>1 DEF ServerSees
<1>12. RecordingInTurn' /\ RecordingWhole'
  BY <1>1, <1>3 DEF SessionIndInv, RecordingInTurn, RecordingWhole
<1>13. OneDial'
  BY <1>1 DEF SessionIndInv, OneDial, HungUp
<1> QED BY <1>8, <1>9, <1>10, <1>11, <1>12, <1>13 DEF SessionIndInv

-----------------------------------------------------------------------------
(* The theorems *)

LEMMA InitSession == Init => SessionIndInv
<1> SUFFICES ASSUME Init PROVE SessionIndInv
  OBVIOUS
<1>1. TypeOK
  <2>1. IsMap(localStreams, Types, 1..created) /\ created \in 0..MaxStreams
    BY CallSessionAssumption DEF Init, IsMap, EmptyMap
  <2>2. rec \in RecTypes
    BY DEF Init, RecTypes, NoRecorder
  <2>3. recordHandlers \in 0..MaxDials /\ pings \in Nat /\ once \subseteq Dials
    BY CallSessionAssumption DEF Init
  <2>4. /\ toServer \in Seq(Messages) /\ Len(toServer) <= MaxQueue
        /\ toClient \in Seq(Messages) /\ Len(toClient) <= MaxQueue
    BY CallSessionAssumption DEF Init
  <2>5. media \in MediaTypes
    BY DEF Init, MediaTypes
  <2> QED BY <2>1, <2>2, <2>3, <2>4, <2>5 DEF Init, TypeOK, RecTypes, MediaTypes
<1>2. SocketFacts /\ NothingLeft /\ OnceAnswers
  <2>1. SocketFacts
    BY DEF Init, SocketFacts, PingsWhileOpen, HungUp
  <2>2. NothingLeft
    BY DEF Init, NothingLeft, EmptyMap
  <2> QED BY <2>1, <2>2 DEF Init, OnceAnswers
<1>3. HandlersCounted
  <2>1. Dialled \in SUBSET Dials
    BY DEF Dialled
  <2>2. Cardinality(Dialled) \in Nat
    BY <2>1, DialsCounted
  <2> QED BY <2>2 DEF Init, HandlersCounted
<1>4. ServerSees
  BY DEF Init, ServerSees, View, LastIsReady, HungUp
<1>5. StreamsDiffer /\ RecordingInTurn /\ RecordingWhole
  BY DEF Init, StreamsDiffer, RecordingInTurn, RecordingWhole, EmptyMap, NoRecorder
<1>6. OneDial
  BY DEF Init, OneDial
<1> QED BY <1>1, <1>2, <1>3, <1>4, <1>5, <1>6 DEF SessionIndInv

LEMMA NextSession == SessionIndInv /\ [Next]_vars => SessionIndInv'
<1> SUFFICES ASSUME SessionIndInv, [Next]_vars PROVE SessionIndInv'
  OBVIOUS
<1>1. CASE WsHandleOpen \/ WsHandleClose \/ Connect
  BY <1>1, WsHandleOpenKeeps, WsHandleCloseKeeps, ConnectKeeps
<1>2. CASE EnumerateDone
  BY <1>2, EnumerateDoneKeeps
<1>3. ASSUME NEW d \in Dials, HandleSubmit(d) \/ MediaRejected(d) \/ MediaResolved(d) \/ DialTimeout(d)
      PROVE  SessionIndInv'
  BY <1>3, HandleSubmitKeeps, MediaRejectedKeeps, MediaResolvedKeeps, DialTimeoutKeeps
<1>4. CASE HandleUsers \/ HandleRecord \/ RecorderCloses
  BY <1>4, HandleUsersKeeps, HandleRecordKeeps, RecorderClosesKeeps
<1>5. CASE PeerCloses
  BY <1>5, LittleKeeps DEF PeerCloses, SessionIndInv, TypeOK, socketVars, handlerVars,
                           recordVars, serverVars
<1>6. CASE DesktopStream
  BY <1>6, DesktopStreamKeeps
<1>7. CASE HandleLocalMediaTrack
  BY <1>7, HandleLocalMediaTrackKeeps
<1>8. CASE StopSharing
  BY <1>8, RemovalKeeps DEF StopSharing, socketVars, handlerVars, serverVars
<1>9. CASE HangUpFails
  BY <1>9, RemovalKeeps DEF HangUpFails, socketVars, handlerVars, serverVars
<1>10. CASE ToggleRecord \/ HangUp
  BY <1>10, ToggleRecordKeeps, HangUpKeeps
<1>11. CASE ServerHandles \/ TransportCloses \/ SignalsEnd \/ OtherUser \/ OtherRecords
  BY <1>11, ServerHandlesKeeps, WithdrawalKeeps, OtherKeeps
<1>12. CASE UNCHANGED vars
  BY <1>12, LittleKeeps DEF vars, SessionIndInv, TypeOK
<1> QED BY <1>1, <1>2, <1>3, <1>4, <1>5, <1>6, <1>7, <1>8, <1>9, <1>10, <1>11, <1>12
        DEF Next

\* The inductive invariant: between any two events, socket, dial, server and
\* recording fit together.
THEOREM SessionHolds == Spec => []SessionIndInv
BY InitSession, NextSession, PTL DEF Spec

\* The state is well formed, one ping interval runs on an open socket and none
\* otherwise, over any number of losses, and after hanging up there are no peers.
THEOREM SessionIsKept == Spec => []SessionInv
<1>1. SessionIndInv => SessionInv
  BY DEF SessionIndInv, SessionInv, SocketFacts, NothingLeft, NoPeersWhenHungUp, HungUp
<1> QED BY <1>1, SessionHolds, PTL

\* On the first socket, and until a dial is rejected, the server will not take the
\* client for more than it shows, nor for less unless the SFU has refused its
\* ready or lost its connection.
THEOREM ServerAgreesWithClient == Spec => []ServerAgrees
<1>1. SessionIndInv => ServerAgrees
  BY SeesAgrees DEF SessionIndInv
<1> QED BY <1>1, SessionHolds, PTL

\* No recording peer is connected once recording is off or the user has hung up,
\* unless starts and stops came out of turn, a recording started while a screen
\* was shared, or one started after hanging up.
THEOREM RecordingIsEnded == Spec => []RecordingEnds
<1>1. SessionIndInv => RecordingEnds
  BY DEF SessionIndInv, RecordingInTurn, RecordingEnds, HungUp
<1> QED BY <1>1, SessionHolds, PTL

\* onHangup throws only while the socket connects, after starts and stops of the
\* recording out of turn or with two streams, or if in the present recording the
\* service dropped the connection or a camera or microphone was changed.
THEOREM HangingUpWorks == Spec => []HangUpWorks
<1>1. SessionIndInv => HangUpWorks
  <2> SUFFICES ASSUME SessionIndInv, InCall, HangUpThrows, ~SendThrows,
                      incidents \ {"late"} = {}
               PROVE  FALSE
    BY DEF HangUpWorks
  <2>1. "mixed" \notin incidents /\ "cut" \notin incidents
    OBVIOUS
  <2> QED BY <2>1 DEF SessionIndInv, RecordingWhole, HangUpThrows, RemoveStreamThrows
<1> QED BY <1>1, SessionHolds, PTL

\* A call ends by hanging up only, unless the form was submitted twice.
THEOREM CallsSurviveTimers == Spec => CallSurvivesTimers
<1>1. SessionIndInv /\ [Next]_vars => [InCall /\ ~InCall' /\ ~overlap => RemoveEventListeners]_vars
  <2> SUFFICES ASSUME SessionIndInv, Next, InCall, ~InCall', ~overlap PROVE HangUp
    BY DEF HangUp
  <2>1. \A d \in Dials : dials[d] \notin {"media", "pending"}
    BY DEF SessionIndInv, OneDial, HungUp, InCall
  <2>2. media.dialState = "in-call" /\ media \in MediaTypes
    BY DEF SessionIndInv, TypeOK, MediaTypes, InCall
  <2>3. ASSUME media'.dialState = media.dialState PROVE FALSE
    BY <2>3 DEF InCall
  <2>4. CASE WsHandleOpen \/ WsHandleClose \/ EnumerateDone \/ HandleRecord
    BY <2>2, <2>3, <2>4 DEF WsHandleOpen, WsHandleClose, EnumerateDone, HandleRecord,
                            SetConnected, HandleEnumerate, MediaTypes
  <2>5. CASE HandleUsers
    <3>1. media' = [media EXCEPT
                      !.recordStatus = @ \/ (IF usersHandler /\ Head(toClient).recordStatus THEN 1 ELSE 0) = 1,
                      !.dialState = IF \E d \in once : dials[d] = "pending" THEN "in-call" ELSE @]
      BY <2>5 DEF HandleUsers, HandleDial
    <3> QED BY <2>2, <2>3, <3>1 DEF MediaTypes
  <2>6. ASSUME NEW d \in Dials, HandleSubmit(d) \/ MediaRejected(d) \/ MediaResolved(d) \/ DialTimeout(d)
        PROVE  FALSE
    BY <2>1, <2>3, <2>6 DEF HandleSubmit, MediaRejected, MediaResolved, DialTimeout
  <2>7. CASE \/ Connect \/ PeerCloses \/ RecorderCloses \/ DesktopStream
             \/ HandleLocalMediaTrack \/ StopSharing \/ ToggleRecord
             \/ HangUpFails \/ ServerHandles \/ TransportCloses \/ SignalsEnd
             \/ OtherUser \/ OtherRecords
    BY <2>3, <2>7 DEF Connect, PeerCloses, RecorderCloses, DesktopStream,
         HandleLocalMediaTrack, StopSharing, ToggleRecord, HangUpFails,
         ServerHandles, TransportCloses, SignalsEnd, OtherUser, OtherRecords
  <2> QED BY <2>4, <2>5, <2>6, <2>7 DEF Next
<1> QED BY <1>1, SessionHolds, PTL DEF Spec, CallSurvivesTimers
=============================================================================
