-------------------------------- MODULE Chat --------------------------------
(***************************************************************************)
(* Text messages and files between the clients: the messaging middleware   *)
(* (messaging.ts), the chunk codec (codec/), PeerHandler.handleData and    *)
(* the messages reducer.                                                   *)
(*                                                                         *)
(* A message is cut into chunks in a web worker.  The main thread sends a  *)
(* chunk, when it comes back from the worker, to the peers of that moment, *)
(* so connections that open or close while a message is being sent see a   *)
(* part of it.  A decoder belongs to a connection and puts together the    *)
(* chunks with the same sender and message ID, which is a counter that     *)
(* wraps.  With the SFU the chunks of all senders arrive in one decoder.   *)
(*                                                                         *)
(* The i-th byte of the n-th message of a user is <<user, n, i>>.  Data    *)
(* channels are reliable and ordered; the SFU passes a chunk on in the     *)
(* step in which it is sent.                                               *)
(***************************************************************************)
EXTENDS Integers, Sequences, FiniteSets, GoMaps

CONSTANTS
  Users,          \* the users in the room
  Server,         \* the peer ID of the SFU
  Width,          \* values of a 16 bit header field: 2^16
  MaxMessageId,   \* maxMessageId: 2^16
  MaxMessageSize, \* maxMessageSizeBytes of the encoder
  HeaderSize,     \* headerSizeBytes
  SenderIdSize,   \* length of a user ID
  TextSizes,      \* sizes of text messages
  FileSizes,      \* sizes of files
  Pairs,          \* bound: connections that may open, between users and to the SFU
  MaxSends,       \* bound: messages and files that each user sends
  MaxCloses       \* bound: connections that close

DataBytesInChunk == MaxMessageSize - HeaderSize - SenderIdSize

ASSUME ChatAssumption ==
  /\ Server \notin Users
  /\ {Width, MaxMessageSize, HeaderSize, SenderIdSize} \subseteq Nat
  /\ TextSizes \cup FileSizes \subseteq Nat
  /\ MaxMessageSize > HeaderSize   \* checked by the constructor of Encoder
  /\ MaxMessageId \in 2..Width
  /\ MaxSends \in [Users -> Nat] /\ MaxCloses \in Nat
  /\ \A size \in TextSizes \cup FileSizes :
       size > 0 /\ size <= (Width - 1) * DataBytesInChunk

VARIABLES
  network,    \* "mesh" or "sfu"
  counter,    \* Encoder.counter of each user
  reading,    \* sizes of the files that each user's FileReader is reading
  outbox,     \* data events of each user's worker
  open,       \* connections that are open: sets of two ends
  channel,    \* chunks on their way, per peer and user
  containers, \* chunksByMessageId, per peer and user
  list,       \* messages.list of each user, without notifications
  sent,       \* history: sizes of the messages of each user
  got,        \* history: chunks that each open connection was given, per user
  closes      \* connections that have closed

vars == <<network, counter, reading, outbox, open, channel, containers, list,
          sent, got, closes>>

\* The peer through which r hears s.
Via(s) == IF network = "sfu" THEN Server ELSE s

\* The connections that there may be: between users, or to the SFU.
Possible == {pair \in Pairs : Server \in pair <=> network = "sfu"}

Ends == Users \cup {Server}
Links == Ends \X Users

Init ==
  /\ network \in {"mesh", "sfu"}
  /\ counter = [u \in Users |-> 0]
  /\ reading = [u \in Users |-> {}]
  /\ outbox = [u \in Users |-> <<>>]
  /\ open = {}
  /\ channel = [l \in Links |-> <<>>]
  /\ containers = [l \in Links |-> EmptyMap]
  /\ list = [u \in Users |-> <<>>]
  /\ sent = [u \in Users |-> <<>>]
  /\ got = [u \in Users |-> {}]
  /\ closes = 0

Data(s, n) == [i \in 1..sent[s][n] |-> <<s, n, i>>]

-----------------------------------------------------------------------------
(* Encoder *)

NextMessageIdUnbounded(c) == c + 1

\* An ID is never 0 nor MaxMessageId.
NextMessageId(c) == IF c + 1 >= MaxMessageId THEN 1 ELSE c + 1

\* encodeHeader, then decodeHeader, for the fields of 16 bits.  totalSize has 31:
\* no message that is read into memory comes near that.
Header(h) == [messageId |-> h.messageId % Width, chunkNum |-> h.chunkNum % Width,
              totalChunks |-> h.totalChunks % Width, totalSize |-> h.totalSize]

TotalChunks(size) == (size + DataBytesInChunk - 1) \div DataBytesInChunk

(***************************************************************************)
(* workerFunc: the chunks of a message, none if they have no room for data *)
(* (an error event, which becomes a notification).                         *)
(***************************************************************************)
Encode(s, n, id, data) ==
  IF DataBytesInChunk <= 0 THEN <<>>
  ELSE [k \in 1..TotalChunks(Len(data)) |->
          LET first == (k - 1) * DataBytesInChunk + 1
              last  == IF k = TotalChunks(Len(data)) THEN Len(data)
                                                     ELSE k * DataBytesInChunk
          IN  [header |-> Header([messageId |-> id, chunkNum |-> k - 1,
                                  totalChunks |-> TotalChunks(Len(data)),
                                  totalSize |-> Len(data)]),
               senderId |-> s, n |-> n, data |-> SubSeq(data, first, last)]]

AddMessage(u, user, data, stale) ==
  Append(list[u], [user |-> user, data |-> data, stale |-> stale])

\* MESSAGE_SEND in the messaging middleware: encode, and add the message to the own list.
SendMessage(s, size) ==
  LET n    == Len(sent[s]) + 1
      data == [i \in 1..size |-> <<s, n, i>>]
  IN  /\ counter' = [counter EXCEPT ![s] = NextMessageId(@)]
      /\ outbox' = [outbox EXCEPT ![s] = @ \o Encode(s, n, counter'[s], data)]
      /\ list' = [list EXCEPT ![s] = AddMessage(s, s, data, FALSE)]
      /\ sent' = [sent EXCEPT ![s] = Append(@, size)]
      /\ UNCHANGED <<network, open, channel, containers, got, closes>>

CanSend(s) == Len(sent[s]) + Cardinality(reading[s]) < MaxSends[s]

\* Input.submit and sendText.  An empty text is not sent.
SendText(s, size) ==
  /\ CanSend(s)
  /\ SendMessage(s, size)
  /\ UNCHANGED reading

\* handleSelectFiles and sendFile: the file is read first.
SendFile(s, size) ==
  /\ CanSend(s)
  /\ size \notin reading[s]
  /\ reading' = [reading EXCEPT ![s] = @ \cup {size}]
  /\ UNCHANGED <<network, counter, outbox, open, channel, containers, list, sent, got, closes>>

FileRead(s, size) ==
  /\ size \in reading[s]
  /\ reading' = [reading EXCEPT ![s] = @ \ {size}]
  /\ SendMessage(s, size)

\* The users whom a chunk of s reaches.
Receivers(s) ==
  {r \in Users \ {s} : /\ {r, Via(s)} \in open
                       /\ network = "sfu" => {s, Server} \in open}

DataEventTwice(s) ==
  /\ outbox[s] # <<>>
  /\ outbox' = [outbox EXCEPT ![s] = Tail(@)]
  /\ LET chunk == Head(outbox[s])
     IN  /\ channel' = [l \in Links |->
              IF l[1] = Via(s) /\ l[2] \in Receivers(s) THEN channel[l] \o <<chunk, chunk>>
                                                        ELSE channel[l]]
         /\ got' = [r \in Users |-> IF r \in Receivers(s)
                      THEN got[r] \cup {<<s, chunk.n, chunk.header.chunkNum>>} ELSE got[r]]
  /\ UNCHANGED <<network, counter, reading, open, containers, list, sent, closes>>

(***************************************************************************)
(* The data event of the encoder: the chunk is sent to every peer.  send   *)
(* throws if the peer is not connected; the next peers still get theirs.   *)
(***************************************************************************)
DataEvent(s) ==
  /\ outbox[s] # <<>>
  /\ outbox' = [outbox EXCEPT ![s] = Tail(@)]
  /\ LET chunk == Head(outbox[s])
     IN  /\ channel' = [l \in Links |->
              IF l[1] = Via(s) /\ l[2] \in Receivers(s) THEN Append(channel[l], chunk)
                                                        ELSE channel[l]]
         /\ got' = [r \in Users |-> IF r \in Receivers(s)
                      THEN got[r] \cup {<<s, chunk.n, chunk.header.chunkNum>>} ELSE got[r]]
  /\ UNCHANGED <<network, counter, reading, open, containers, list, sent, closes>>

-----------------------------------------------------------------------------
(* Decoder *)

\* The ID of the n-th message of a user.
IdOf(n) == ((n - 1) % (MaxMessageId - 1)) + 1

\* Messages with the same ID that r was given a part of, and will not get the rest.
Partial(r, s, id) ==
  \E n \in 1..Len(sent[s]) :
    LET chunks == {x[3] : x \in {y \in got[r] : y[1] = s /\ y[2] = n}}
    IN  /\ IdOf(n) = id
        /\ ~\E i \in 1..Len(outbox[s]) : outbox[s][i].n = n
        /\ chunks \notin {{}, 0..(TotalChunks(sent[s][n]) - 1)}

\* The key of a message in chunksByMessageId.
Key(chunk) == <<chunk.senderId, chunk.header.messageId>>

OffsetFromStart(container, chunk) == chunk.header.chunkNum * Len(chunk.data)

(***************************************************************************)
(* Where a chunk goes in its container.  The last chunk is placed from the *)
(* end: it may be shorter than the others.                                 *)
(***************************************************************************)
Offset(container, chunk) ==
  IF chunk.header.chunkNum = chunk.header.totalChunks - 1
  THEN Len(container.data) - Len(chunk.data)
  ELSE chunk.header.chunkNum * Len(chunk.data)

WithChunk(container, chunk) ==
  LET offset == Offset(container, chunk)
  IN  [data     |-> [i \in 1..Len(container.data) |->
                       IF i - offset \in 1..Len(chunk.data)
                       THEN chunk.data[i - offset] ELSE container.data[i]],
       received |-> container.received + 1,
       total    |-> container.total]

\* TypedArray.set throws a RangeError if the chunk is not within the data.
Fits(container, chunk) ==
  /\ Offset(container, chunk) >= 0
  /\ Offset(container, chunk) + Len(chunk.data) <= Len(container.data)

Container(decoder, chunk) ==
  Get(decoder, Key(chunk),
      [data |-> [i \in 1..chunk.header.totalSize |-> <<>>],
       received |-> 0, total |-> chunk.header.totalChunks])

DecodeKept(decoder, chunk) ==
  LET old  == Container(decoder, chunk)
      new  == IF Fits(old, chunk) THEN WithChunk(old, chunk) ELSE old
  IN  [decoder |-> Put(decoder, Key(chunk), new),
       data |-> IF Fits(old, chunk) /\ new.received = new.total THEN new.data ELSE <<>>]

(***************************************************************************)
(* decode: the containers with one more chunk, and the data of the message *)
(* if it is complete; <<>> stands for null.                                *)
(***************************************************************************)
Decode(decoder, chunk) ==
  LET old  == Container(decoder, chunk)
      new  == IF Fits(old, chunk) THEN WithChunk(old, chunk) ELSE old
      done == Fits(old, chunk) /\ new.received = new.total
  IN  [decoder |-> IF done THEN Delete(decoder, Key(chunk))
                           ELSE Put(decoder, Key(chunk), new),
       data |-> IF done THEN new.data ELSE <<>>]

\* handleData: a chunk reaches r.  A message that met the remains of another is noted.
HandleData(p, r) ==
  LET chunk   == Head(channel[<<p, r>>])
      decoded == Decode(containers[<<p, r>>], chunk)
  IN  /\ channel[<<p, r>>] # <<>>
      /\ channel' = [channel EXCEPT ![<<p, r>>] = Tail(@)]
      /\ containers' = [containers EXCEPT ![<<p, r>>] = decoded.decoder]
      /\ list' = IF decoded.data = <<>> THEN list
                 ELSE [list EXCEPT ![r] = AddMessage(r, chunk.senderId, decoded.data,
                         Partial(r, chunk.senderId, chunk.header.messageId))]
      /\ UNCHANGED <<network, counter, reading, outbox, open, sent, got, closes>>

-----------------------------------------------------------------------------
(* Connections: in a mesh between every two users, with the SFU to the server *)

\* The data channel opens; a new connection has a new PeerHandler with its decoder.
Connect(pair) ==
  /\ pair \in Possible \ open
  /\ open' = open \cup {pair}
  /\ UNCHANGED <<network, counter, reading, outbox, channel, containers, list, sent, got, closes>>

\* The connection is lost, with the chunks that were on it.
Close(pair) ==
  /\ pair \in open
  /\ closes < MaxCloses
  /\ closes' = closes + 1
  /\ open' = open \ {pair}
  /\ channel' = [l \in Links |-> IF {l[1], l[2]} = pair THEN <<>> ELSE channel[l]]
  /\ containers' = [l \in Links |-> IF {l[1], l[2]} = pair THEN EmptyMap ELSE containers[l]]
  /\ got' = [r \in Users |-> {x \in got[r] : {r, Via(x[1])} # pair}]
  /\ UNCHANGED <<network, counter, reading, outbox, list, sent>>

Next ==
  \/ \E s \in Users : \/ \E size \in TextSizes : SendText(s, size)
                      \/ \E size \in FileSizes : SendFile(s, size) \/ FileRead(s, size)
                      \/ DataEvent(s)
  \/ \E p \in Ends, r \in Users : HandleData(p, r)
  \/ \E pair \in Pairs : Connect(pair) \/ Close(pair)

Spec == Init /\ [][Next]_vars

-----------------------------------------------------------------------------
(* Properties *)

Bytes == Users \X Nat \X Nat
IsData(d) == d \in Seq(Bytes \cup {<<>>})

\* The state is well formed: a message ID fits its field and is not 0.
TypeOK ==
  /\ network \in {"mesh", "sfu"}
  /\ \A u \in Users :
       /\ counter[u] \in 0..(MaxMessageId - 1)
       /\ reading[u] \subseteq FileSizes
       /\ \A i \in 1..Len(outbox[u]) :
            LET chunk == outbox[u][i]
            IN  /\ chunk.header.messageId \in 1..(MaxMessageId - 1)
                /\ chunk.header.chunkNum < chunk.header.totalChunks
                /\ Len(chunk.data) \in 1..DataBytesInChunk
       /\ \A i \in 1..Len(list[u]) : list[u][i].user \in Users /\ IsData(list[u][i].data)
  /\ open \subseteq Possible
  /\ \A l \in Links : \A key \in DOMAIN containers[l] :
       /\ key \in Users \X (1..(MaxMessageId - 1))
       /\ IsData(containers[l][key].data)

(***************************************************************************)
(* A message in somebody's list is one that its sender has sent, byte for  *)
(* byte, however the chunks of several senders interleave and connections  *)
(* come and go.  The exception: a decoder that still holds a part of a     *)
(* message, the rest of which never comes, when the message ID returns.    *)
(***************************************************************************)
Intact ==
  \A r \in Users : \A i \in 1..Len(list[r]) :
    LET m == list[r][i]
    IN  m.stale \/ \E n \in 1..Len(sent[m.user]) : m.data = Data(m.user, n)

(***************************************************************************)
(* What somebody reads of one sender is in the order in which it was sent, *)
(* nothing twice.                                                          *)
(***************************************************************************)
InOrder ==
  \A r \in Users : \A i, j \in 1..Len(list[r]) :
    LET a == list[r][i]
        b == list[r][j]
    IN  i < j /\ a.user = b.user /\ ~a.stale /\ ~b.stale => a.data[1][2] < b.data[1][2]

(***************************************************************************)
(* Once the last of its chunks has arrived, a message that r was given all *)
(* chunks of is in the list of r, unless the remains of another message    *)
(* with its ID were in the way.                                            *)
(***************************************************************************)
NothingLost ==
  \A r, s \in Users : \A n \in 1..Len(sent[s]) :
    LET link    == <<Via(s), r>>
        given   == \A c \in 0..(TotalChunks(sent[s][n]) - 1) : <<s, n, c>> \in got[r]
        arrived == \A i \in 1..Len(channel[link]) :
                     <<channel[link][i].senderId, channel[link][i].n>> # <<s, n>>
    IN  given /\ arrived =>
          \/ \E i \in 1..Len(list[r]) : list[r][i].user = s /\ list[r][i].data = Data(s, n)
          \/ Partial(r, s, IdOf(n))

\* The list of every user holds, of each sender, messages that were sent, whole,
\* once and in order, and the decoders are well formed.
ListsAreFaithful == TypeOK /\ Intact /\ InOrder
=============================================================================
