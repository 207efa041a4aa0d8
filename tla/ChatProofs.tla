----------------------------- MODULE ChatProofs -----------------------------
(***************************************************************************)
(* Proofs about Chat for any users, sizes of messages, widths of the       *)
(* header's fields and connections: what a decoder puts together is what   *)
(* was cut into chunks, every list holds each sender's messages whole,     *)
(* once and in order, and a message that was given whole is not lost.      *)
(***************************************************************************)
EXTENDS Chat, FiniteSetTheorems, SequenceTheorems, TLAPS

Sizes == TextSizes \cup FileSizes
D == DataBytesInChunk

\* The bytes that chunk c of a message of this size holds.
ChunkLength(size, c) == IF c = TotalChunks(size) - 1 THEN size - c * D ELSE D
InChunk(size, c, i) == i - c * D \in 1..ChunkLength(size, c)

\* Chunk c of the n-th message of s, which has this size, as a decoder reads it.
ChunkOf(s, n, size, c) ==
  [header   |-> [messageId |-> IdOf(n), chunkNum |-> c,
                 totalChunks |-> TotalChunks(size), totalSize |-> size],
   senderId |-> s,
   n        |-> n,
   data     |-> [i \in 1..ChunkLength(size, c) |-> <<s, n, c * D + i>>]]

\* The numbers of all chunks of a message.
Full(size) == 0..(TotalChunks(size) - 1)

\* A container that holds the chunks h of a message.
ContainerOf(s, n, size, h) ==
  [data     |-> [i \in 1..size |-> IF \E c \in h : InChunk(size, c, i)
                                   THEN <<s, n, i>> ELSE <<>>],
   received |-> Cardinality(h),
   total    |-> TotalChunks(size)]

\* A decoder that has handled the chunks h of a message, and nothing else with its ID.
Holds(decoder, s, n, size, h) ==
  IF h \in {{}, Full(size)} THEN <<s, IdOf(n)>> \notin DOMAIN decoder
  ELSE /\ <<s, IdOf(n)>> \in DOMAIN decoder
       /\ decoder[<<s, IdOf(n)>>] = ContainerOf(s, n, size, h)

-----------------------------------------------------------------------------
(* What r was given of the n-th message of s, and where it is. *)

Given(r, s, n) == {x[3] : x \in {y \in got[r] : y[1] = s /\ y[2] = n}}

\* The chunks on their way to r from s, and with the SFU also from the others.
Queue(s, r) == channel[<<Via(s), r>>]

\* The numbers of the chunks of the n-th message of s that are in a queue.
Numbers(q, s, n) ==
  {q[i].header.chunkNum : i \in {j \in 1..Len(q) : q[j].senderId = s /\ q[j].n = n}}

OnTheWay(r, s, n) == Numbers(Queue(s, r), s, n)

Handled(r, s, n) == Given(r, s, n) \ OnTheWay(r, s, n)

\* Chunk b of message m was made before chunk c of message n of the same user.
Earlier(m, b, n, c) == m < n \/ (m = n /\ b < c)

Sorted(q) ==
  \A i, j \in 1..Len(q) :
    i < j /\ q[i].senderId = q[j].senderId =>
      Earlier(q[i].n, q[i].header.chunkNum, q[j].n, q[j].header.chunkNum)

\* x is a chunk of one of the messages of these sizes.
IsChunk(x, sizes) ==
  /\ x.senderId \in Users
  /\ x.n \in 1..Len(sizes[x.senderId])
  /\ x.header.chunkNum \in Full(sizes[x.senderId][x.n])
  /\ x = ChunkOf(x.senderId, x.n, sizes[x.senderId][x.n], x.header.chunkNum)

-----------------------------------------------------------------------------
(* The inductive invariant. *)

Headers == [messageId : Nat, chunkNum : Nat, totalChunks : Nat, totalSize : Nat]
Chunks == [header : Headers, senderId : Users, n : Nat, data : Seq(Bytes)]
Datas == Seq(Bytes \cup {<<>>})
Entries == [user : Users, data : Datas, stale : BOOLEAN]
Keys == Users \X (1..(MaxMessageId - 1))
Containers == [data : Datas, received : Nat, total : Nat]

StateInv ==
  /\ network \in {"mesh", "sfu"}
  /\ sent \in [Users -> Seq(Sizes)]
  /\ counter \in [Users -> Nat]
  /\ \A u \in Users : counter[u] = IF Len(sent[u]) = 0 THEN 0 ELSE IdOf(Len(sent[u]))
  /\ reading \in [Users -> SUBSET FileSizes]
  /\ open \subseteq Possible
  /\ outbox \in [Users -> Seq(Chunks)]
  /\ channel \in [Links -> Seq(Chunks)]
  /\ got \in [Users -> SUBSET (Users \X Nat \X Nat)]
  /\ list \in [Users -> Seq(Entries)]
  /\ containers = [l \in Links |-> containers[l]]
  /\ \A l \in Links : IsMap(containers[l], Keys, Containers)

\* Only chunks of messages that were sent are given, and not to their sender.
GotInv ==
  \A r, s \in Users : \A n, c \in Nat :
    <<s, n, c>> \in got[r] =>
      s # r /\ n \in 1..Len(sent[s]) /\ c \in Full(sent[s][n])

\* The worker's chunks are in order, and come after all that were given to somebody.
OutboxInv ==
  \A s \in Users :
    /\ \A i \in 1..Len(outbox[s]) : outbox[s][i].senderId = s /\ IsChunk(outbox[s][i], sent)
    /\ Sorted(outbox[s])
    /\ \A r \in Users : \A n, c \in Nat :
         <<s, n, c>> \in got[r] =>
           \A i \in 1..Len(outbox[s]) :
             Earlier(n, c, outbox[s][i].n, outbox[s][i].header.chunkNum)

\* A channel holds given chunks, those of a sender in order.
ChannelInv ==
  \A l \in Links :
    /\ Sorted(channel[l])
    /\ \A i \in 1..Len(channel[l]) :
         LET x == channel[l][i]
         IN  /\ IsChunk(x, sent)
             /\ Via(x.senderId) = l[1]
             /\ <<x.senderId, x.n, x.header.chunkNum>> \in got[l[2]]

\* What was handled came before what is still on the way.
HandledInv ==
  \A r, s \in Users : \A n \in Nat : \A c \in Handled(r, s, n) :
    \A i \in 1..Len(Queue(s, r)) :
      LET x == Queue(s, r)[i]
      IN  x.senderId = s => Earlier(n, c, x.n, x.header.chunkNum)

SameId(m, n) == m \in Nat \ {0} /\ IdOf(m) = IdOf(n)

Whole(r, s, m) == Given(r, s, m) \in {{}, Full(sent[s][m])}

\* Nothing of an earlier message is in the way of the n-th, nor will be.
Ready(r, s, n) ==
  \A m \in 1..(n - 1) : SameId(m, n) => OnTheWay(r, s, m) = {} /\ Whole(r, s, m)

\* No later message has taken the place of the n-th.
Latest(r, s, n) ==
  \A m \in Nat : m > n /\ SameId(m, n) => Handled(r, s, m) = {}

\* A decoder holds what it has handled of a message, if no other was in the way.
ContainerInv ==
  \A r, s \in Users : \A n \in Nat \ {0} :
    Ready(r, s, n) /\ Latest(r, s, n) =>
      Holds(containers[<<Via(s), r>>], s, n, sent[s][n], Handled(r, s, n))

\* No earlier message with the ID of the n-th was given in part.
Clean(r, s, n) == \A m \in 1..(n - 1) : SameId(m, n) => Whole(r, s, m)

Listed(r, s, n) ==
  \E i \in 1..Len(list[r]) : list[r][i].user = s /\ list[r][i].data = Data(s, n)

\* A message that has arrived is in the list.
DoneInv ==
  \A r, s \in Users : \A n \in 1..Len(sent[s]) :
    /\ Clean(r, s, n)
    /\ Given(r, s, n) = Full(sent[s][n])
    /\ OnTheWay(r, s, n) = {}
    => Listed(r, s, n)

\* The n-th message of s, and nothing of it or before it will still come to r.
Past(r, s, n) ==
  /\ \A i \in 1..Len(Queue(s, r)) : Queue(s, r)[i].senderId = s => n < Queue(s, r)[i].n
  /\ \A i \in 1..Len(outbox[s]) : n < outbox[s][i].n

Shown(r, s, n) == n \in 1..Len(sent[s]) /\ (s # r => Past(r, s, n))

ListInv ==
  \A r, s \in Users : \A i \in 1..Len(list[r]) :
    list[r][i].user = s /\ ~list[r][i].stale =>
      \E n \in Nat : Shown(r, s, n) /\ list[r][i].data = Data(s, n)

QueuesInv == StateInv /\ GotInv /\ OutboxInv /\ ChannelInv /\ HandledInv

ChatInv == QueuesInv /\ ContainerInv /\ DoneInv /\ ListInv /\ InOrder

-----------------------------------------------------------------------------
(* Arithmetic of the encoder: quotients, remainders and message IDs. *)

\* Quotient and remainder are unique.
LEMMA DivisionIsUnique ==
  ASSUME NEW K \in Nat, K >= 1, NEW p \in Int, NEW q \in Int,
         NEW a \in 0..(K - 1), NEW b \in 0..(K - 1), K * p + a = K * q + b
  PROVE  a = b
<1>1. CASE p < q
  <2>1. K * (p + 1) <= K * q
    BY <1>1
  <2> QED BY <2>1
<1>2. CASE q < p
  <2>1. K * (q + 1) <= K * p
    BY <1>2
  <2> QED BY <2>1
<1> QED BY <1>1, <1>2

\* Division with remainder.
LEMMA Remainder ==
  ASSUME NEW x \in Nat, NEW K \in Nat, K >= 1
  PROVE  x % K \in 0..(K - 1) /\ x \div K \in Int /\ x = K * (x \div K) + (x % K)
OBVIOUS

\* The remainder counts up and wraps.
LEMMA RemainderOfNext ==
  ASSUME NEW x \in Nat, NEW K \in Nat, K >= 1
  PROVE  (x + 1) % K = IF x % K = K - 1 THEN 0 ELSE (x % K) + 1
<1> DEFINE p == x \div K
           a == x % K
           q == (x + 1) \div K
           b == (x + 1) % K
<1>1. a \in 0..(K - 1) /\ p \in Int /\ x = K * p + a
  BY Remainder
<1>2. b \in 0..(K - 1) /\ q \in Int /\ x + 1 = K * q + b
  BY Remainder
<1> HIDE DEF p, a, q, b
<1>3. CASE a = K - 1
  <2>1. K * (p + 1) + 0 = K * q + b
    BY <1>1, <1>2, <1>3
  <2> QED BY <1>1, <1>2, <1>3, <2>1, DivisionIsUnique DEF a, b
<1>4. CASE a # K - 1
  <2>1. K * p + (a + 1) = K * q + b
    BY <1>1, <1>2, <1>4
  <2> QED BY <1>1, <1>2, <1>4, <2>1, DivisionIsUnique DEF a, b
<1> QED BY <1>3, <1>4

\* The counter of the encoder gives the n-th message the n-th ID, none of them 0.
LEMMA MessageIds ==
  /\ \A n \in Nat \ {0} : IdOf(n) \in 1..(MaxMessageId - 1)
  /\ IdOf(1) = NextMessageId(0)
  /\ \A n \in Nat \ {0} : IdOf(n + 1) = NextMessageId(IdOf(n))
<1> DEFINE K == MaxMessageId - 1
<1>0. MaxMessageId \in Nat /\ K \in Nat /\ K >= 1
  BY ChatAssumption
<1>1. ASSUME NEW n \in Nat \ {0} PROVE IdOf(n) \in 1..K
  <2>1. (n - 1) % K \in 0..(K - 1)
    BY <1>0, Remainder
  <2> QED BY <1>0, <2>1 DEF IdOf
<1>2. IdOf(1) = NextMessageId(0)
  <2>1. 0 % K = 0
    BY <1>0
  <2> QED BY <1>0, <2>1 DEF IdOf, NextMessageId
<1>3. ASSUME NEW n \in Nat \ {0} PROVE IdOf(n + 1) = NextMessageId(IdOf(n))
  <2> DEFINE a == (n - 1) % K
  <2>1. a \in 0..(K - 1)
    BY <1>0, Remainder
  <2>2. ((n - 1) + 1) % K = IF a = K - 1 THEN 0 ELSE a + 1
    <3>1. n - 1 \in Nat
      OBVIOUS
    <3> HIDE DEF K
    <3> QED BY <1>0, <3>1, RemainderOfNext
  <2>3. (n - 1) + 1 = (n + 1) - 1
    OBVIOUS
  <2>4. IdOf(n) = a + 1 /\ IdOf(n + 1) = (((n - 1) + 1) % K) + 1
    BY <2>3 DEF IdOf
  <2> HIDE DEF a
  <2> QED BY <1>0, <2>1, <2>2, <2>4 DEF NextMessageId
<1> QED BY <1>1, <1>2, <1>3

\* The chunks of a message cover it, and their numbers fit into the header.
LEMMA ChunkArithmetic ==
  ASSUME NEW size \in Sizes
  PROVE  /\ size \in Nat /\ size > 0
         /\ D \in Nat /\ D > 0
         /\ TotalChunks(size) \in Nat /\ TotalChunks(size) > 0 /\ TotalChunks(size) < Width
         /\ (TotalChunks(size) - 1) * D < size
         /\ size <= TotalChunks(size) * D
<1>1. size \in Nat /\ size > 0 /\ D \in Int /\ Width \in Nat \ {0} /\ size <= (Width - 1) * D
  BY ChatAssumption DEF Sizes, D, DataBytesInChunk
<1>2. D \in Nat /\ D > 0
  BY <1>1
<1> DEFINE T == TotalChunks(size)
<1>3. T = (size + D - 1) \div D
  BY DEF TotalChunks, D
<1>4. T \in Nat /\ T > 0 /\ (T - 1) * D < size /\ size <= T * D
  BY <1>1, <1>2, <1>3
<1>5. T < Width
  <2> SUFFICES ASSUME Width - 1 < T PROVE FALSE
    BY <1>1, <1>4
  <2>1. (Width - 1) * D <= (T - 1) * D
    BY <1>1, <1>2, <1>4
  <2> QED BY <1>1, <1>2, <1>4, <2>1
<1> QED BY <1>1, <1>2, <1>4, <1>5

\* Where a chunk is in its message, and how long it is.
LEMMA ChunkPlace ==
  ASSUME NEW size \in Sizes, NEW c \in Full(size)
  PROVE  /\ c \in Nat /\ c < TotalChunks(size) /\ c < Width
         /\ c * D \in Nat
         /\ ChunkLength(size, c) \in 1..D
         /\ c * D + ChunkLength(size, c) <= size
<1> DEFINE T == TotalChunks(size)
<1>1. /\ size \in Nat /\ size > 0 /\ D \in Nat /\ D > 0
      /\ T \in Nat /\ T > 0 /\ T < Width /\ (T - 1) * D < size /\ size <= T * D
  BY ChunkArithmetic
<1>2. c \in Nat /\ c < T /\ Width \in Nat
  BY <1>1, ChatAssumption DEF Full
<1>3. c * D \in Nat
  BY <1>1, <1>2
<1>4. CASE c = T - 1
  <2>1. ChunkLength(size, c) = size - c * D
    BY <1>4 DEF ChunkLength
  <2>2. T * D = (T - 1) * D + D
    BY <1>1
  <2> QED BY <1>1, <1>2, <1>3, <1>4, <2>1, <2>2
<1>5. CASE c # T - 1
  <2>1. ChunkLength(size, c) = D
    BY <1>5 DEF ChunkLength
  <2>2. c * D + D = (c + 1) * D /\ (c + 1) * D <= (T - 1) * D
    BY <1>1, <1>2, <1>5
  <2>3. (c + 1) * D \in Nat /\ (T - 1) * D \in Nat
    BY <1>1, <1>2
  <2> QED BY <1>1, <1>2, <1>3, <2>1, <2>2, <2>3
<1> QED BY <1>4, <1>5

\* Every byte of a message is in one of its chunks.
LEMMA ChunksCover ==
  ASSUME NEW size \in Sizes, NEW i \in 1..size
  PROVE  \E c \in Full(size) : InChunk(size, c, i)
<1> DEFINE T == TotalChunks(size)
           c == (i - 1) \div D
<1>1. /\ size \in Nat /\ size > 0 /\ D \in Nat /\ D > 0
      /\ T \in Nat /\ T > 0 /\ (T - 1) * D < size /\ size <= T * D
  BY ChunkArithmetic
<1>2. c \in Nat /\ c * D <= i - 1 /\ i - 1 < c * D + D
  BY <1>1
<1> HIDE DEF c, T
<1>3. c * D \in Nat
  BY <1>1, <1>2
<1>4. c < T
  <2> SUFFICES ASSUME T <= c PROVE FALSE
    BY <1>1, <1>2
  <2>1. T * D <= c * D
    BY <1>1, <1>2
  <2> QED BY <1>1, <1>2, <1>3, <2>1
<1>5. i - c * D \in 1..ChunkLength(size, c)
  BY <1>1, <1>2, <1>3 DEF ChunkLength
<1> QED BY <1>1, <1>2, <1>4, <1>5 DEF InChunk, Full, T

-----------------------------------------------------------------------------
(* The encoder makes these chunks, and the decoder puts them together. *)

\* A chunk is well formed.
LEMMA ChunkOfIsChunk ==
  ASSUME NEW s \in Users, NEW n \in Nat \ {0}, NEW size \in Sizes, NEW c \in Full(size)
  PROVE  /\ ChunkOf(s, n, size, c) \in Chunks
         /\ Len(ChunkOf(s, n, size, c).data) = ChunkLength(size, c)
<1> DEFINE data == [i \in 1..ChunkLength(size, c) |-> <<s, n, c * D + i>>]
<1>1. /\ c \in Nat /\ c * D \in Nat /\ D \in Nat /\ ChunkLength(size, c) \in 1..D
      /\ TotalChunks(size) \in Nat /\ size \in Nat
  BY ChunkPlace, ChunkArithmetic
<1>2. ChunkLength(size, c) \in Nat
  BY <1>1
<1>3. \A i \in 1..ChunkLength(size, c) : <<s, n, c * D + i>> \in Bytes
  BY <1>1, <1>2 DEF Bytes
<1>4. data \in Seq(Bytes) /\ Len(data) = ChunkLength(size, c)
  BY <1>2, <1>3
<1>5. IdOf(n) \in Nat
  BY MessageIds, ChatAssumption
<1> HIDE DEF data
<1>6. ChunkOf(s, n, size, c).data = data
  BY DEF ChunkOf, data
<1>7. ChunkOf(s, n, size, c) \in Chunks
  BY <1>1, <1>4, <1>5 DEF ChunkOf, Chunks, Headers, data
<1> QED BY <1>4, <1>6, <1>7

\* The header of 16 bit fields survives encoding and decoding.
LEMMA HeaderFits ==
  ASSUME NEW n \in Nat \ {0}, NEW size \in Sizes, NEW c \in Full(size)
  PROVE  LET h == [messageId |-> IdOf(n), chunkNum |-> c,
                   totalChunks |-> TotalChunks(size), totalSize |-> size]
         IN  Header(h) = h
<1>1. /\ Width \in Nat
      /\ IdOf(n) \in Nat /\ IdOf(n) < Width
      /\ c \in Nat /\ c < Width
      /\ TotalChunks(size) \in Nat /\ TotalChunks(size) < Width
  BY MessageIds, ChatAssumption, ChunkPlace, ChunkArithmetic
<1>2. \A x \in Nat : x < Width => x % Width = x
  BY <1>1
<1>3. IdOf(n) % Width = IdOf(n) /\ c % Width = c /\ TotalChunks(size) % Width = TotalChunks(size)
  BY <1>1, <1>2
<1> QED BY <1>3 DEF Header

\* workerFunc cuts a message into the chunks that decoders expect.
LEMMA EncodeMakesChunks ==
  ASSUME NEW s \in Users, NEW n \in Nat \ {0}, NEW size \in Sizes
  PROVE  LET e == Encode(s, n, IdOf(n), [i \in 1..size |-> <<s, n, i>>])
         IN  /\ e \in Seq(Chunks)
             /\ Len(e) = TotalChunks(size)
             /\ \A k \in 1..TotalChunks(size) : e[k] = ChunkOf(s, n, size, k - 1)
<1> DEFINE data == [i \in 1..size |-> <<s, n, i>>]
           T == TotalChunks(size)
           e == Encode(s, n, IdOf(n), data)
           first(k) == (k - 1) * D + 1
           last(k) == IF k = T THEN size ELSE k * D
<1>1. /\ size \in Nat /\ size > 0 /\ D \in Nat /\ D > 0 /\ T \in Nat /\ T > 0
      /\ (T - 1) * D < size /\ size <= T * D
  BY ChunkArithmetic
<1>2. data \in Seq(Bytes) /\ Len(data) = size
  BY <1>1 DEF Bytes
<1>3. ASSUME NEW k \in 1..T
      PROVE  /\ k - 1 \in Full(size)
             /\ SubSeq(data, first(k), last(k)) = ChunkOf(s, n, size, k - 1).data
  <2> DEFINE c == k - 1
             len == ChunkLength(size, c)
  <2>1. c \in Full(size)
    BY <1>1 DEF Full
  <2>2. /\ c \in Nat /\ c * D \in Nat /\ len \in 1..D /\ c * D + len <= size /\ len \in Nat
    BY <1>1, <2>1, ChunkPlace
  <2>3. first(k) = c * D + 1 /\ last(k) = c * D + len
    <3>1. CASE k = T
      BY <1>1, <2>2, <3>1 DEF ChunkLength
    <3>2. CASE k # T
      <4>1. k * D = c * D + D
        BY <1>1
      <4>2. c # T - 1 /\ len = D
        BY <1>1, <3>2 DEF ChunkLength
      <4> QED BY <3>2, <4>1, <4>2
    <3> QED BY <3>1, <3>2
  <2> DEFINE part == SubSeq(data, c * D + 1, c * D + len)
             own == ChunkOf(s, n, size, c).data
  <2>4. own \in Seq(Bytes) /\ Len(own) = len
        /\ \A i \in 1..len : own[i] = <<s, n, c * D + i>>
    BY <2>1, ChunkOfIsChunk DEF ChunkOf, Chunks
  <2> HIDE DEF c, len
  <2>5. /\ part \in Seq(Bytes) /\ Len(part) = len
        /\ \A i \in 1..len : part[i] = data[c * D + i]
    <3> DEFINE a == c * D + 1
               b == c * D + len
    <3>1. a \in Int /\ b \in Int /\ a <= b /\ b - a + 1 = len /\ a..b \subseteq 1..Len(data)
      BY <1>1, <1>2, <2>2
    <3>2. \A i \in 1..len : a + i - 1 = c * D + i
      BY <2>2
    <3> HIDE DEF a, b, data
    <3>3. \A i \in a..b : data[i] \in Bytes
      BY <1>2, <3>1
    <3>4. /\ SubSeq(data, a, b) \in Seq(Bytes) /\ Len(SubSeq(data, a, b)) = len
          /\ \A i \in 1..len : SubSeq(data, a, b)[i] = data[a + i - 1]
      BY <3>1, <3>3, SubSeqProperties
    <3> QED BY <3>2, <3>4 DEF a, b
  <2>6. \A i \in 1..len : data[c * D + i] = <<s, n, c * D + i>>
    <3>1. \A i \in 1..len : c * D + i \in 1..size
      BY <1>1, <2>2
    <3> QED BY <3>1
  <2> HIDE DEF part, own
  <2>7. part = own
    BY <2>4, <2>5, <2>6, SeqEqual
  <2> QED BY <2>1, <2>3, <2>7 DEF part, own, c
<1>4. e = [k \in 1..T |->
             [header |-> Header([messageId |-> IdOf(n), chunkNum |-> k - 1,
                                 totalChunks |-> T, totalSize |-> size]),
              senderId |-> s, n |-> n, data |-> SubSeq(data, first(k), last(k))]]
  <2> HIDE DEF data
  <2> QED BY <1>1, <1>2 DEF Encode, D
<1>5. ASSUME NEW k \in 1..T PROVE e[k] = ChunkOf(s, n, size, k - 1)
  <2>1. Header([messageId |-> IdOf(n), chunkNum |-> k - 1, totalChunks |-> T, totalSize |-> size])
          = [messageId |-> IdOf(n), chunkNum |-> k - 1, totalChunks |-> T, totalSize |-> size]
    BY <1>3, HeaderFits
  <2>2. e[k] = [header |-> [messageId |-> IdOf(n), chunkNum |-> k - 1,
                            totalChunks |-> T, totalSize |-> size],
                senderId |-> s, n |-> n, data |-> ChunkOf(s, n, size, k - 1).data]
    <3> HIDE DEF e, data, first, last
    <3> QED BY <1>3, <1>4, <2>1
  <2> QED BY <2>2 DEF ChunkOf
<1>6. \A k \in 1..T : e[k] \in Chunks
  <2> HIDE DEF e
  <2> QED BY <1>3, <1>5, ChunkOfIsChunk
<1>7. e = [k \in 1..T |-> e[k]]
  <2> HIDE DEF data, first, last
  <2> QED BY <1>4
<1>8. e \in Seq(Chunks) /\ Len(e) = T
  <2> HIDE DEF e
  <2> QED BY <1>1, <1>6, <1>7
<1> QED BY <1>5, <1>8

\* The number of chunks that a decoder has tells whether it has them all.
LEMMA HandledCount ==
  ASSUME NEW size \in Sizes, NEW h \in SUBSET Full(size), NEW c \in Full(size) \ h
  PROVE  /\ Cardinality(h) \in Nat
         /\ Cardinality(h \cup {c}) = Cardinality(h) + 1
         /\ Cardinality(h \cup {c}) = TotalChunks(size) <=> h \cup {c} = Full(size)
<1>1. TotalChunks(size) \in Nat /\ TotalChunks(size) > 0
  BY ChunkArithmetic
<1>2. IsFiniteSet(Full(size)) /\ Cardinality(Full(size)) = TotalChunks(size)
  <2>1. /\ IsFiniteSet(0..(TotalChunks(size) - 1))
        /\ Cardinality(0..(TotalChunks(size) - 1)) = TotalChunks(size) - 1 - 0 + 1
    BY <1>1, FS_Interval
  <2> QED BY <1>1, <2>1 DEF Full
<1>3. IsFiniteSet(h) /\ h \cup {c} \in SUBSET Full(size)
  BY <1>2, FS_Subset
<1>4. Cardinality(h) \in Nat /\ Cardinality(h \cup {c}) = Cardinality(h) + 1
  BY <1>3, FS_AddElement, FS_CardinalityType
<1>5. Cardinality(h \cup {c}) = TotalChunks(size) => h \cup {c} = Full(size)
  BY <1>2, <1>3, FS_Subset
<1> QED BY <1>2, <1>4, <1>5

\* A container of some chunks is well formed.
LEMMA ContainerOfType ==
  ASSUME NEW s \in Users, NEW n \in Nat \ {0}, NEW size \in Sizes,
         NEW h \in SUBSET Full(size), Cardinality(h) \in Nat
  PROVE  /\ ContainerOf(s, n, size, h) \in Containers
         /\ Len(ContainerOf(s, n, size, h).data) = size
<1> DEFINE d == [i \in 1..size |-> IF \E c \in h : InChunk(size, c, i)
                                   THEN <<s, n, i>> ELSE <<>>]
<1>1. size \in Nat /\ TotalChunks(size) \in Nat
  BY ChunkArithmetic
<1>2. \A i \in 1..size : <<s, n, i>> \in Bytes
  BY <1>1 DEF Bytes
<1>3. \A i \in 1..size : d[i] \in Bytes \cup {<<>>}
  BY <1>2
<1>4. d \in Seq(Bytes \cup {<<>>}) /\ Len(d) = size
  <2>1. d = [i \in 1..size |-> d[i]]
    OBVIOUS
  <2> HIDE DEF d
  <2> QED BY <1>1, <1>3, <2>1
<1>5. ContainerOf(s, n, size, h) = [data |-> d, received |-> Cardinality(h),
                                    total |-> TotalChunks(size)]
  BY DEF ContainerOf
<1> HIDE DEF d
<1> QED BY <1>1, <1>4, <1>5 DEF Containers, Datas

\* A chunk goes to its place, and the container has one more.
LEMMA WithChunkIs ==
  ASSUME NEW s \in Users, NEW n \in Nat \ {0}, NEW size \in Sizes,
         NEW h \in SUBSET Full(size), NEW c \in Full(size) \ h
  PROVE  LET old   == ContainerOf(s, n, size, h)
             chunk == ChunkOf(s, n, size, c)
         IN  /\ Fits(old, chunk)
             /\ WithChunk(old, chunk) = ContainerOf(s, n, size, h \cup {c})
<1> DEFINE old == ContainerOf(s, n, size, h)
           chunk == ChunkOf(s, n, size, c)
           len == ChunkLength(size, c)
<1>1. /\ Cardinality(h) \in Nat
      /\ Cardinality(h \cup {c}) = Cardinality(h) + 1
  BY HandledCount
<1>2. /\ old.received = Cardinality(h) /\ old.total = TotalChunks(size)
      /\ Len(old.data) = size
      /\ \A i \in 1..size : old.data[i] = IF \E b \in h : InChunk(size, b, i)
                                          THEN <<s, n, i>> ELSE <<>>
  <2>1. Len(old.data) = size
    BY <1>1, ContainerOfType
  <2> QED BY <2>1 DEF ContainerOf
<1>3. /\ chunk.header.chunkNum = c /\ chunk.header.totalChunks = TotalChunks(size)
      /\ Len(chunk.data) = len
      /\ \A i \in 1..len : chunk.data[i] = <<s, n, c * D + i>>
  BY ChunkOfIsChunk DEF ChunkOf
<1>4. /\ c \in Nat /\ c * D \in Nat /\ len \in Nat /\ c * D + len <= size
      /\ size \in Nat /\ TotalChunks(size) \in Nat /\ D \in Nat
  BY ChunkPlace, ChunkArithmetic
<1>5. Offset(old, chunk) = c * D
  <2>1. CASE c = TotalChunks(size) - 1
    <3>1. len = size - c * D
      BY <2>1 DEF ChunkLength
    <3>2. Offset(old, chunk) = size - len
      BY <1>2, <1>3, <2>1 DEF Offset
    <3> QED BY <1>4, <3>1, <3>2
  <2>2. CASE c # TotalChunks(size) - 1
    <3>1. len = D
      BY <2>2 DEF ChunkLength
    <3>2. Offset(old, chunk) = c * len
      BY <1>2, <1>3, <2>2 DEF Offset
    <3> QED BY <3>1, <3>2
  <2> QED BY <2>1, <2>2
<1>6. Fits(old, chunk)
  BY <1>2, <1>3, <1>4, <1>5 DEF Fits
<1> HIDE DEF old, chunk
<1>7. ASSUME NEW i \in 1..size
      PROVE  (IF i - c * D \in 1..len THEN chunk.data[i - c * D] ELSE old.data[i])
               = IF \E b \in h \cup {c} : InChunk(size, b, i) THEN <<s, n, i>> ELSE <<>>
  <2>1. CASE i - c * D \in 1..len
    <3>1. InChunk(size, c, i)
      BY <2>1 DEF InChunk
    <3>2. chunk.data[i - c * D] = <<s, n, c * D + (i - c * D)>>
      BY <1>3, <2>1
    <3>3. c * D + (i - c * D) = i
      BY <1>4
    <3> QED BY <2>1, <3>1, <3>2, <3>3
  <2>2. CASE ~(i - c * D \in 1..len)
    <3>1. ~InChunk(size, c, i)
      BY <2>2 DEF InChunk
    <3> QED BY <1>2, <2>2, <3>1
  <2> QED BY <2>1, <2>2
<1>8. WithChunk(old, chunk)
        = [data |-> [i \in 1..size |-> IF i - c * D \in 1..len
                                       THEN chunk.data[i - c * D] ELSE old.data[i]],
           received |-> Cardinality(h) + 1, total |-> TotalChunks(size)]
  BY <1>2, <1>3, <1>5 DEF WithChunk
<1>9. ContainerOf(s, n, size, h \cup {c})
        = [data |-> [i \in 1..size |-> IF \E b \in h \cup {c} : InChunk(size, b, i)
                                       THEN <<s, n, i>> ELSE <<>>],
           received |-> Cardinality(h) + 1, total |-> TotalChunks(size)]
  BY <1>1 DEF ContainerOf
<1>10. WithChunk(old, chunk) = ContainerOf(s, n, size, h \cup {c})
  <2>1. [i \in 1..size |-> IF i - c * D \in 1..len THEN chunk.data[i - c * D] ELSE old.data[i]]
          = [i \in 1..size |-> IF \E b \in h \cup {c} : InChunk(size, b, i)
                               THEN <<s, n, i>> ELSE <<>>]
    BY <1>7
  <2> QED BY <1>8, <1>9, <2>1
<1> QED BY <1>6, <1>10 DEF old, chunk

\* A container with all chunks holds the message.
LEMMA FullContainer ==
  ASSUME NEW s, NEW n, NEW size \in Sizes
  PROVE  /\ ContainerOf(s, n, size, Full(size)).data = [i \in 1..size |-> <<s, n, i>>]
         /\ [i \in 1..size |-> <<s, n, i>>] # <<>>
<1>1. size \in Nat /\ size > 0
  BY ChunkArithmetic
<1>2. \A i \in 1..size : \E c \in Full(size) : InChunk(size, c, i)
  BY ChunksCover
<1>3. ContainerOf(s, n, size, Full(size)).data = [i \in 1..size |-> <<s, n, i>>]
  BY <1>2 DEF ContainerOf
<1>4. [i \in 1..size |-> <<s, n, i>>] # <<>>
  <2>1. 1 \in 1..size
    BY <1>1
  <2> QED BY <2>1
<1> QED BY <1>3, <1>4

\* The container that a decoder has for a message, or the new one.
LEMMA ContainerIs ==
  ASSUME NEW s \in Users, NEW n \in Nat \ {0}, NEW size \in Sizes,
         NEW h \in SUBSET Full(size), NEW c \in Full(size) \ h, NEW decoder,
         Holds(decoder, s, n, size, h)
  PROVE  Container(decoder, ChunkOf(s, n, size, c)) = ContainerOf(s, n, size, h)
<1>1. Key(ChunkOf(s, n, size, c)) = <<s, IdOf(n)>>
  BY DEF Key, ChunkOf
<1>2. /\ ChunkOf(s, n, size, c).header.totalSize = size
      /\ ChunkOf(s, n, size, c).header.totalChunks = TotalChunks(size)
  BY DEF ChunkOf
<1>3. h # Full(size)
  OBVIOUS
<1>4. CASE h = {}
  <2>1. <<s, IdOf(n)>> \notin DOMAIN decoder
    BY <1>4 DEF Holds
  <2>2. Container(decoder, ChunkOf(s, n, size, c))
          = [data |-> [i \in 1..size |-> <<>>], received |-> 0, total |-> TotalChunks(size)]
    BY <1>1, <1>2, <2>1 DEF Container, Get
  <2>3. Cardinality({}) = 0
    BY FS_EmptySet
  <2>4. ContainerOf(s, n, size, {})
          = [data |-> [i \in 1..size |-> <<>>], received |-> 0, total |-> TotalChunks(size)]
    BY <2>3 DEF ContainerOf
  <2> QED BY <1>4, <2>2, <2>4
<1>5. CASE h # {}
  <2>1. /\ <<s, IdOf(n)>> \in DOMAIN decoder
        /\ decoder[<<s, IdOf(n)>>] = ContainerOf(s, n, size, h)
    BY <1>3, <1>5 DEF Holds
  <2> QED BY <1>1, <2>1 DEF Container, Get
<1> QED BY <1>4, <1>5

\* What decode returns when it has the chunks h of a message.
Decodes(decoded, s, n, size, h) ==
  /\ Holds(decoded.decoder, s, n, size, h)
  /\ h = Full(size) => decoded.data = [i \in 1..size |-> <<s, n, i>>]
  /\ h # Full(size) => decoded.data = <<>>

(***************************************************************************)
(* decode: a decoder that holds some chunks of a message holds one more,   *)
(* or returns the message and forgets it when the chunk was the last.      *)
(***************************************************************************)
LEMMA DecodeHolds ==
  ASSUME NEW s \in Users, NEW n \in Nat \ {0}, NEW size \in Sizes,
         NEW h \in SUBSET Full(size), NEW c \in Full(size) \ h, NEW decoder,
         Holds(decoder, s, n, size, h)
  PROVE  Decodes(Decode(decoder, ChunkOf(s, n, size, c)), s, n, size, h \cup {c})
<1> DEFINE chunk == ChunkOf(s, n, size, c)
           key == <<s, IdOf(n)>>
           g == h \cup {c}
           old == Container(decoder, chunk)
           new == ContainerOf(s, n, size, g)
           decoded == Decode(decoder, chunk)
<1>1. Key(chunk) = key
  BY DEF Key, ChunkOf
<1>2. old = ContainerOf(s, n, size, h)
  BY ContainerIs
<1>3. Fits(old, chunk) /\ WithChunk(old, chunk) = new
  BY <1>2, WithChunkIs
<1>4. new.received = new.total <=> g = Full(size)
  BY HandledCount DEF ContainerOf
<1>5. Decode(decoder, chunk) = [decoder |-> IF new.received = new.total THEN Delete(decoder, key)
                                            ELSE Put(decoder, key, new),
                                data |-> IF new.received = new.total THEN new.data ELSE <<>>]
  BY <1>1, <1>3 DEF Decode
<1> HIDE DEF chunk, old, new, key
<1>6. CASE g = Full(size)
  <2>1. decoded.decoder = Delete(decoder, key) /\ decoded.data = new.data
    BY <1>4, <1>5, <1>6
  <2>2. key \notin DOMAIN Delete(decoder, key)
    BY DEF Delete
  <2>3. new.data = [i \in 1..size |-> <<s, n, i>>]
    <3>1. new = ContainerOf(s, n, size, Full(size))
      BY <1>6 DEF new
    <3> QED BY <3>1, FullContainer
  <2>4. Holds(decoded.decoder, s, n, size, g)
    BY <1>6, <2>1, <2>2 DEF Holds, key
  <2> QED BY <1>6, <2>1, <2>3, <2>4 DEF Decodes, chunk
<1>7. CASE g # Full(size)
  <2>1. decoded.decoder = Put(decoder, key, new) /\ decoded.data = <<>>
    BY <1>4, <1>5, <1>7
  <2>2. key \in DOMAIN Put(decoder, key, new) /\ Put(decoder, key, new)[key] = new
    BY DEF Put
  <2>3. g \notin {{}, Full(size)}
    BY <1>7
  <2> HIDE DEF g
  <2>4. Holds(decoded.decoder, s, n, size, g)
    BY <2>1, <2>2, <2>3 DEF Holds, key, new
  <2> QED BY <1>7, <2>1, <2>4 DEF Decodes, chunk, g
<1> QED BY <1>6, <1>7

\* decode leaves the other messages alone.
LEMMA DecodeOthers ==
  ASSUME NEW decoder, NEW chunk, NEW key, key # Key(chunk)
  PROVE  LET new == Decode(decoder, chunk).decoder
         IN  /\ key \in DOMAIN new <=> key \in DOMAIN decoder
             /\ key \in DOMAIN decoder => new[key] = decoder[key]
<1>1. \A v : /\ key \in DOMAIN Put(decoder, Key(chunk), v) <=> key \in DOMAIN decoder
             /\ key \in DOMAIN decoder => Put(decoder, Key(chunk), v)[key] = decoder[key]
  BY DEF Put
<1>2. /\ key \in DOMAIN Delete(decoder, Key(chunk)) <=> key \in DOMAIN decoder
      /\ key \in DOMAIN decoder => Delete(decoder, Key(chunk))[key] = decoder[key]
  BY DEF Delete
<1>3. \/ Decode(decoder, chunk).decoder = Delete(decoder, Key(chunk))
      \/ \E v : Decode(decoder, chunk).decoder = Put(decoder, Key(chunk), v)
  BY DEF Decode
<1> QED BY <1>1, <1>2, <1>3

\* Whatever a decoder holds, it stays well formed.
LEMMA DecodeType ==
  ASSUME NEW decoder, IsMap(decoder, Keys, Containers), NEW chunk \in Chunks,
         Key(chunk) \in Keys
  PROVE  /\ IsMap(Decode(decoder, chunk).decoder, Keys, Containers)
         /\ Decode(decoder, chunk).data \in Datas
<1> DEFINE old == Container(decoder, chunk)
           new == IF Fits(old, chunk) THEN WithChunk(old, chunk) ELSE old
<1>1. old \in Containers
  <2> DEFINE fresh == [i \in 1..chunk.header.totalSize |-> <<>>]
  <2>1. chunk.header.totalSize \in Nat /\ chunk.header.totalChunks \in Nat
    BY DEF Chunks, Headers
  <2>2. fresh \in Seq(Bytes \cup {<<>>})
    BY <2>1
  <2>3. [data |-> fresh, received |-> 0, total |-> chunk.header.totalChunks] \in Containers
    <3> HIDE DEF fresh
    <3> QED BY <2>1, <2>2 DEF Containers, Datas
  <2> QED BY <2>3 DEF Container, Get, IsMap
<1>2. WithChunk(old, chunk) \in Containers
  <2> DEFINE offset == Offset(old, chunk)
             d == [i \in 1..Len(old.data) |-> IF i - offset \in 1..Len(chunk.data)
                                              THEN chunk.data[i - offset] ELSE old.data[i]]
  <2>1. /\ old.data \in Seq(Bytes \cup {<<>>}) /\ old.received \in Nat /\ old.total \in Nat
        /\ chunk.data \in Seq(Bytes)
    BY <1>1 DEF Containers, Datas, Chunks
  <2> HIDE DEF old, offset
  <2>2. \A i \in 1..Len(old.data) : d[i] \in Bytes \cup {<<>>}
    BY <2>1
  <2>3. d = [i \in 1..Len(old.data) |-> d[i]]
    OBVIOUS
  <2>4. WithChunk(old, chunk) = [data |-> d, received |-> old.received + 1, total |-> old.total]
    BY DEF WithChunk, offset
  <2>5. d \in Seq(Bytes \cup {<<>>})
    <3>1. Len(old.data) \in Nat
      BY <2>1
    <3> HIDE DEF d
    <3> QED BY <2>2, <2>3, <3>1
  <2> HIDE DEF d
  <2> QED BY <2>1, <2>4, <2>5 DEF Containers, Datas
<1>3. new \in Containers /\ new.data \in Datas /\ <<>> \in Datas
  <2>1. <<>> \in Seq(Bytes \cup {<<>>})
    OBVIOUS
  <2> HIDE DEF old
  <2> QED BY <1>1, <1>2, <2>1 DEF Containers, Datas
<1>4. /\ Decode(decoder, chunk).decoder
           \in {Delete(decoder, Key(chunk)), Put(decoder, Key(chunk), new)}
      /\ Decode(decoder, chunk).data \in {new.data, <<>>}
  BY DEF Decode
<1> HIDE DEF new
<1>5. IsMap(Delete(decoder, Key(chunk)), Keys, Containers)
  BY DEF IsMap, Delete
<1>6. IsMap(Put(decoder, Key(chunk), new), Keys, Containers)
  BY <1>3 DEF IsMap, Put
<1> QED BY <1>3, <1>4, <1>5, <1>6

-----------------------------------------------------------------------------
(* Queues of chunks. *)

\* The chunks of a message in a queue.
LEMMA NumbersIs ==
  ASSUME NEW q, NEW s, NEW n, NEW c
  PROVE  c \in Numbers(q, s, n) <=>
           \E i \in 1..Len(q) : q[i].senderId = s /\ q[i].n = n /\ q[i].header.chunkNum = c
BY DEF Numbers

\* Earlier is a strict order.
LEMMA EarlierOrder ==
  ASSUME NEW m \in Nat, NEW b \in Nat, NEW n \in Nat, NEW c \in Nat, Earlier(m, b, n, c)
  PROVE  m <= n /\ ~(m = n /\ b = c) /\ ~Earlier(n, c, m, b)
BY DEF Earlier

\* The types of the fields that queues are ordered by.
LEMMA QueueFields ==
  ASSUME NEW q \in Seq(Chunks)
  PROVE  /\ Len(q) \in Nat
         /\ \A i \in 1..Len(q) : /\ q[i] \in Chunks /\ q[i].senderId \in Users
                                 /\ q[i].n \in Nat /\ q[i].header.chunkNum \in Nat
<1>1. \A i \in 1..Len(q) : q[i] \in Chunks
  OBVIOUS
<1>2. \A x \in Chunks : x.senderId \in Users /\ x.n \in Nat /\ x.header.chunkNum \in Nat
  BY DEF Chunks, Headers
<1> QED BY <1>1, <1>2

\* Taking the first chunk from a queue.
LEMMA QueueTail ==
  ASSUME NEW q \in Seq(Chunks), q # <<>>, Sorted(q)
  PROVE  /\ Tail(q) \in Seq(Chunks) /\ Head(q) \in Chunks /\ Head(q) = q[1] /\ 1 \in 1..Len(q)
         /\ Sorted(Tail(q))
         /\ \A i \in 1..Len(Tail(q)) :
              /\ i + 1 \in 1..Len(q) /\ Tail(q)[i] = q[i + 1]
              /\ Tail(q)[i].senderId = Head(q).senderId =>
                   Earlier(Head(q).n, Head(q).header.chunkNum,
                           Tail(q)[i].n, Tail(q)[i].header.chunkNum)
<1>1. /\ Tail(q) \in Seq(Chunks) /\ Head(q) \in Chunks /\ Head(q) = q[1]
      /\ Len(q) \in Nat /\ Len(q) > 0 /\ Len(Tail(q)) = Len(q) - 1
      /\ \A i \in 1..Len(Tail(q)) : Tail(q)[i] = q[i + 1]
  BY HeadTailProperties, EmptySeq
<1>2. 1 \in 1..Len(q) /\ \A i \in 1..Len(Tail(q)) : i + 1 \in 1..Len(q) /\ 1 < i + 1
  BY <1>1
<1>3. Sorted(Tail(q))
  <2> SUFFICES ASSUME NEW i \in 1..Len(Tail(q)), NEW j \in 1..Len(Tail(q)), i < j,
                      Tail(q)[i].senderId = Tail(q)[j].senderId
               PROVE  Earlier(Tail(q)[i].n, Tail(q)[i].header.chunkNum,
                              Tail(q)[j].n, Tail(q)[j].header.chunkNum)
    BY DEF Sorted
  <2>1. i + 1 < j + 1 /\ i + 1 \in 1..Len(q) /\ j + 1 \in 1..Len(q)
    BY <1>1
  <2>2. Tail(q)[i] = q[i + 1] /\ Tail(q)[j] = q[j + 1]
    BY <1>1
  <2> QED BY <2>1, <2>2 DEF Sorted
<1>4. \A i \in 1..Len(Tail(q)) :
        q[i + 1].senderId = q[1].senderId =>
          Earlier(q[1].n, q[1].header.chunkNum, q[i + 1].n, q[i + 1].header.chunkNum)
  BY <1>2 DEF Sorted
<1> QED BY <1>1, <1>2, <1>3, <1>4

\* Taking the first chunk takes its number and no other.
LEMMA NumbersOfTail ==
  ASSUME NEW q \in Seq(Chunks), q # <<>>, Sorted(q), NEW s, NEW n
  PROVE  Numbers(Tail(q), s, n)
           = IF s = Head(q).senderId /\ n = Head(q).n
             THEN Numbers(q, s, n) \ {Head(q).header.chunkNum} ELSE Numbers(q, s, n)
<1> DEFINE x == Head(q)
           t == Tail(q)
<1>1. /\ x = q[1] /\ 1 \in 1..Len(q)
      /\ \A i \in 1..Len(t) :
           /\ i + 1 \in 1..Len(q) /\ t[i] = q[i + 1]
           /\ q[i + 1].senderId = x.senderId =>
                Earlier(x.n, x.header.chunkNum, q[i + 1].n, q[i + 1].header.chunkNum)
  BY QueueTail
<1>2. \A i \in 1..Len(q) : i # 1 => \E j \in 1..Len(t) : i = j + 1
  <2>1. Len(q) \in Nat /\ Len(t) = Len(q) - 1
    BY HeadTailProperties
  <2> SUFFICES ASSUME NEW i \in 1..Len(q), i # 1 PROVE \E j \in 1..Len(t) : i = j + 1
    OBVIOUS
  <2>2. i - 1 \in 1..Len(t) /\ i = (i - 1) + 1
    BY <2>1
  <2> QED BY <2>2
<1>3. \A i \in 1..Len(q) : q[i].n \in Nat /\ q[i].header.chunkNum \in Nat
  BY QueueFields
<1> HIDE DEF x, t
<1>4. ASSUME NEW c, c \in Numbers(t, s, n)
      PROVE  c \in Numbers(q, s, n) /\ ~(s = x.senderId /\ n = x.n /\ c = x.header.chunkNum)
  <2>1. PICK i \in 1..Len(t) :
          q[i + 1].senderId = s /\ q[i + 1].n = n /\ q[i + 1].header.chunkNum = c
    BY <1>1, <1>4, NumbersIs
  <2>2. c \in Numbers(q, s, n)
    BY <1>1, <2>1, NumbersIs
  <2>3. ~(s = x.senderId /\ n = x.n /\ c = x.header.chunkNum)
    BY <1>1, <1>3, <2>1 DEF Earlier
  <2> QED BY <2>2, <2>3
<1>5. ASSUME NEW c, c \in Numbers(q, s, n),
             ~(s = x.senderId /\ n = x.n /\ c = x.header.chunkNum)
      PROVE  c \in Numbers(t, s, n)
  <2>1. PICK i \in 1..Len(q) :
          q[i].senderId = s /\ q[i].n = n /\ q[i].header.chunkNum = c
    BY <1>5, NumbersIs
  <2>2. i # 1
    BY <1>1, <1>5, <2>1
  <2>3. PICK j \in 1..Len(t) : i = j + 1
    BY <1>2, <2>2
  <2>4. t[j] = q[i]
    BY <1>1, <2>3
  <2> QED BY <2>1, <2>4, NumbersIs
<1> QED BY <1>4, <1>5 DEF x, t

\* Putting a chunk that comes after all others into a queue.
LEMMA QueueAppend ==
  ASSUME NEW q \in Seq(Chunks), NEW x \in Chunks
  PROVE  /\ Append(q, x) \in Seq(Chunks)
         /\ Len(Append(q, x)) = Len(q) + 1
         /\ \A i \in 1..Len(q) : i \in 1..Len(Append(q, x)) /\ Append(q, x)[i] = q[i]
         /\ Len(q) + 1 \in 1..Len(Append(q, x)) /\ Append(q, x)[Len(q) + 1] = x
         /\ \A i \in 1..Len(Append(q, x)) : i \in 1..Len(q) \/ i = Len(q) + 1
<1>1. Len(q) \in Nat
  OBVIOUS
<1>2. /\ Append(q, x) \in Seq(Chunks)
      /\ Len(Append(q, x)) = Len(q) + 1
      /\ \A i \in 1..Len(q) : Append(q, x)[i] = q[i]
      /\ Append(q, x)[Len(q) + 1] = x
  BY AppendProperties
<1> QED BY <1>1, <1>2

\* A queue stays in order.
LEMMA SortedAppend ==
  ASSUME NEW q \in Seq(Chunks), NEW x \in Chunks, Sorted(q),
         \A i \in 1..Len(q) : q[i].senderId = x.senderId =>
           Earlier(q[i].n, q[i].header.chunkNum, x.n, x.header.chunkNum)
  PROVE  Sorted(Append(q, x))
<1> SUFFICES ASSUME NEW i \in 1..Len(Append(q, x)), NEW j \in 1..Len(Append(q, x)), i < j,
                    Append(q, x)[i].senderId = Append(q, x)[j].senderId
             PROVE  Earlier(Append(q, x)[i].n, Append(q, x)[i].header.chunkNum,
                            Append(q, x)[j].n, Append(q, x)[j].header.chunkNum)
  BY DEF Sorted
<1>1. i \in 1..Len(q) /\ Append(q, x)[i] = q[i]
  <2>1. Len(q) \in Nat
    OBVIOUS
  <2> QED BY <2>1, QueueAppend
<1>2. CASE j \in 1..Len(q)
  <2>1. Append(q, x)[j] = q[j]
    BY <1>2, QueueAppend
  <2> QED BY <1>1, <1>2, <2>1 DEF Sorted
<1>3. CASE j = Len(q) + 1
  <2>1. Append(q, x)[j] = x
    BY <1>3, QueueAppend
  <2> QED BY <1>1, <2>1
<1> QED BY <1>2, <1>3, QueueAppend

\* Putting a chunk into a queue adds its number and no other.
LEMMA NumbersOfAppend ==
  ASSUME NEW q \in Seq(Chunks), NEW x \in Chunks, NEW s, NEW n
  PROVE  Numbers(Append(q, x), s, n)
           = IF s = x.senderId /\ n = x.n
             THEN Numbers(q, s, n) \cup {x.header.chunkNum} ELSE Numbers(q, s, n)
<1> DEFINE y == Append(q, x)
<1>0. /\ \A i \in 1..Len(q) : i \in 1..Len(y) /\ y[i] = q[i]
      /\ Len(q) + 1 \in 1..Len(y) /\ y[Len(q) + 1] = x
      /\ \A i \in 1..Len(y) : i \in 1..Len(q) \/ i = Len(q) + 1
  BY QueueAppend
<1> HIDE DEF y
<1>1. ASSUME NEW c, c \in Numbers(y, s, n)
      PROVE  c \in Numbers(q, s, n) \/ (s = x.senderId /\ n = x.n /\ c = x.header.chunkNum)
  <2>1. PICK i \in 1..Len(y) :
          /\ y[i].senderId = s /\ y[i].n = n
          /\ y[i].header.chunkNum = c
    BY <1>1, NumbersIs
  <2>2. CASE i \in 1..Len(q)
    <3>1. y[i] = q[i]
      BY <2>2, <1>0
    <3> QED BY <2>1, <2>2, <3>1, NumbersIs
  <2>3. CASE i = Len(q) + 1
    <3>1. y[i] = x
      BY <2>3, <1>0
    <3> QED BY <2>1, <3>1
  <2> QED BY <2>2, <2>3, <1>0
<1>2. ASSUME NEW c, c \in Numbers(q, s, n) PROVE c \in Numbers(y, s, n)
  <2>1. PICK i \in 1..Len(q) :
          q[i].senderId = s /\ q[i].n = n /\ q[i].header.chunkNum = c
    BY <1>2, NumbersIs
  <2>2. i \in 1..Len(y) /\ y[i] = q[i]
    BY <1>0
  <2> QED BY <2>1, <2>2, NumbersIs
<1>3. s = x.senderId /\ n = x.n => x.header.chunkNum \in Numbers(y, s, n)
  BY <1>0, NumbersIs
<1> QED BY <1>1, <1>2, <1>3 DEF y

-----------------------------------------------------------------------------
(* What the invariant of the queues says of a state. *)

\* The channel through which r hears s.
LEMMA LinkOf ==
  ASSUME StateInv, NEW s \in Users, NEW r \in Users
  PROVE  <<Via(s), r>> \in Links /\ Via(s) \in Ends /\ Queue(s, r) \in Seq(Chunks)
<1>1. Via(s) \in Ends
  BY DEF Via, Ends
<1>2. <<Via(s), r>> \in Links
  BY <1>1 DEF Links
<1> QED BY <1>1, <1>2 DEF Queue, StateInv

\* What was given, in terms of the history.
LEMMA GivenIs ==
  ASSUME StateInv, NEW r \in Users, NEW s \in Users, NEW n \in Nat
  PROVE  \A c : c \in Given(r, s, n) <=> c \in Nat /\ <<s, n, c>> \in got[r]
<1>1. got[r] \subseteq Users \X Nat \X Nat
  BY DEF StateInv
<1>2. \A y \in got[r] : y = <<y[1], y[2], y[3]>> /\ y[3] \in Nat
  BY <1>1
<1>3. \A c : c \in Given(r, s, n) <=> \E y \in got[r] : y[1] = s /\ y[2] = n /\ y[3] = c
  BY DEF Given
<1> QED BY <1>2, <1>3

\* A message that was sent has a size and a first chunk.
LEMMA SizeOf ==
  ASSUME StateInv, NEW s \in Users, NEW n \in 1..Len(sent[s])
  PROVE  sent[s][n] \in Sizes /\ n \in Nat \ {0} /\ 0 \in Full(sent[s][n])
<1>1. sent[s] \in Seq(Sizes) /\ Len(sent[s]) \in Nat
  BY DEF StateInv
<1>2. sent[s][n] \in Sizes /\ n \in Nat \ {0}
  BY <1>1
<1>3. 0 \in Full(sent[s][n])
  BY <1>2, ChunkArithmetic DEF Full
<1> QED BY <1>2, <1>3

\* Only chunks of messages of others that were sent are given.
LEMMA GivenIsSent ==
  ASSUME StateInv, GotInv, NEW r \in Users, NEW s \in Users, NEW n \in Nat,
         NEW c \in Given(r, s, n)
  PROVE  s # r /\ n \in 1..Len(sent[s]) /\ c \in Full(sent[s][n]) /\ c \in Nat
BY GivenIs DEF GotInv

\* A chunk in a queue.
LEMMA ChunkInQueue ==
  ASSUME StateInv, GotInv, ChannelInv, NEW l \in Links, NEW i \in 1..Len(channel[l])
  PROVE  LET x == channel[l][i]
         IN  /\ x \in Chunks
             /\ x.senderId \in Users /\ x.senderId # l[2] /\ Via(x.senderId) = l[1]
             /\ x.n \in 1..Len(sent[x.senderId]) /\ x.n \in Nat \ {0}
             /\ sent[x.senderId][x.n] \in Sizes
             /\ x.header.chunkNum \in Full(sent[x.senderId][x.n])
             /\ x.header.chunkNum \in Nat
             /\ x = ChunkOf(x.senderId, x.n, sent[x.senderId][x.n], x.header.chunkNum)
             /\ x.header.chunkNum \in Given(l[2], x.senderId, x.n)
<1> DEFINE x == channel[l][i]
<1>1. l[2] \in Users /\ channel[l] \in Seq(Chunks)
  BY DEF StateInv, Links
<1>2. x \in Chunks /\ x.senderId \in Users /\ x.n \in Nat /\ x.header.chunkNum \in Nat
  BY <1>1, QueueFields
<1>3. /\ IsChunk(x, sent) /\ Via(x.senderId) = l[1]
      /\ <<x.senderId, x.n, x.header.chunkNum>> \in got[l[2]]
  BY DEF ChannelInv
<1> HIDE DEF x
<1>4. x.header.chunkNum \in Given(l[2], x.senderId, x.n)
  BY <1>1, <1>2, <1>3, GivenIs
<1>5. /\ x.n \in 1..Len(sent[x.senderId])
      /\ x.header.chunkNum \in Full(sent[x.senderId][x.n])
      /\ x = ChunkOf(x.senderId, x.n, sent[x.senderId][x.n], x.header.chunkNum)
  BY <1>3 DEF IsChunk
<1>6. x.senderId # l[2]
  BY <1>1, <1>2, <1>4, GivenIsSent
<1>7. sent[x.senderId][x.n] \in Sizes /\ x.n \in Nat \ {0}
  BY <1>2, <1>5, SizeOf
<1> QED BY <1>2, <1>3, <1>4, <1>5, <1>6, <1>7 DEF x

\* What is on the way was given.
LEMMA OnTheWayIsGiven ==
  ASSUME StateInv, GotInv, ChannelInv, NEW r \in Users, NEW s \in Users, NEW n \in Nat
  PROVE  OnTheWay(r, s, n) \subseteq Given(r, s, n)
<1> SUFFICES ASSUME NEW c \in OnTheWay(r, s, n) PROVE c \in Given(r, s, n)
  OBVIOUS
<1> DEFINE l == <<Via(s), r>>
<1>1. l \in Links /\ l[2] = r
  BY LinkOf
<1>2. PICK i \in 1..Len(channel[l]) :
        channel[l][i].senderId = s /\ channel[l][i].n = n /\ channel[l][i].header.chunkNum = c
  BY NumbersIs DEF OnTheWay, Queue
<1> QED BY <1>1, <1>2, ChunkInQueue

\* What was handled was given.
LEMMA HandledIs ==
  ASSUME StateInv, NEW r \in Users, NEW s \in Users, NEW n \in Nat
  PROVE  Handled(r, s, n) \subseteq Given(r, s, n)
BY DEF Handled

-----------------------------------------------------------------------------
(* HandleData *)

\* In this step r takes chunk c of the n-th message of s from its connection to p.
Takes(p, r, s, n, c) ==
  /\ s # r /\ Via(s) = p
  /\ n \in 1..Len(sent[s]) /\ n \in Nat \ {0} /\ sent[s][n] \in Sizes
  /\ c \in Full(sent[s][n]) /\ c \in Nat
  /\ c \in OnTheWay(r, s, n) /\ c \in Given(r, s, n)
  /\ Head(channel[<<p, r>>]) = ChunkOf(s, n, sent[s][n], c)
  /\ \A i \in 1..Len(Tail(channel[<<p, r>>])) :
       LET x == Tail(channel[<<p, r>>])[i]
       IN  x.senderId = s => Earlier(n, c, x.n, x.header.chunkNum)
  /\ \A u, t \in Users : \A m \in Nat :
       /\ Given(u, t, m)' = Given(u, t, m)
       /\ OnTheWay(u, t, m)' = IF u = r /\ t = s /\ m = n THEN OnTheWay(u, t, m) \ {c}
                                                         ELSE OnTheWay(u, t, m)
       /\ Handled(u, t, m)' = IF u = r /\ t = s /\ m = n THEN Handled(u, t, m) \cup {c}
                                                        ELSE Handled(u, t, m)

\* The variables that HandleData changes.
LEMMA HandleDataChanges ==
  ASSUME StateInv, NEW p \in Ends, NEW r \in Users, HandleData(p, r)
  PROVE  /\ <<p, r>> \in Links /\ channel[<<p, r>>] \in Seq(Chunks) /\ channel[<<p, r>>] # <<>>
         /\ channel' \in [Links -> Seq(Chunks)]
         /\ channel'[<<p, r>>] = Tail(channel[<<p, r>>])
         /\ \A l \in Links : l # <<p, r>> => channel'[l] = channel[l]
         /\ got' = got /\ sent' = sent /\ outbox' = outbox /\ network' = network
         /\ counter' = counter /\ reading' = reading /\ open' = open
<1>1. /\ <<p, r>> \in Links
      /\ channel' = [channel EXCEPT ![<<p, r>>] = Tail(@)] /\ channel[<<p, r>>] # <<>>
  BY DEF HandleData, Links
<1>2. channel \in [Links -> Seq(Chunks)] /\ channel[<<p, r>>] \in Seq(Chunks)
  BY <1>1 DEF StateInv
<1>3. Tail(channel[<<p, r>>]) \in Seq(Chunks)
  BY <1>1, <1>2, HeadTailProperties
<1>4. channel' \in [Links -> Seq(Chunks)]
  BY <1>1, <1>2, <1>3
<1>5. /\ channel'[<<p, r>>] = Tail(channel[<<p, r>>])
      /\ \A l \in Links : l # <<p, r>> => channel'[l] = channel[l]
  BY <1>1, <1>2
<1>6. /\ got' = got /\ sent' = sent /\ outbox' = outbox /\ network' = network
      /\ counter' = counter /\ reading' = reading /\ open' = open
  BY DEF HandleData
<1> QED BY <1>1, <1>2, <1>4, <1>5, <1>6

\* HandleData takes the first chunk of the channel, and it counts as handled.
LEMMA HandleDataTakes ==
  ASSUME QueuesInv, NEW p \in Ends, NEW r \in Users, HandleData(p, r)
  PROVE  \E s \in Users : \E n, c \in Nat : Takes(p, r, s, n, c)
<1> DEFINE l == <<p, r>>
           x == Head(channel[l])
           s == x.senderId
           n == x.n
           c == x.header.chunkNum
<1>1. /\ l \in Links /\ l[1] = p /\ l[2] = r
      /\ channel[l] \in Seq(Chunks) /\ channel[l] # <<>> /\ Sorted(channel[l])
  BY HandleDataChanges DEF QueuesInv, ChannelInv
<1>2. /\ channel'[l] = Tail(channel[l])
      /\ \A k \in Links : k # l => channel'[k] = channel[k]
      /\ got' = got /\ network' = network
  BY HandleDataChanges DEF QueuesInv
<1>3. /\ x = channel[l][1] /\ 1 \in 1..Len(channel[l])
      /\ \A i \in 1..Len(Tail(channel[l])) :
           Tail(channel[l])[i].senderId = s =>
             Earlier(n, c, Tail(channel[l])[i].n, Tail(channel[l])[i].header.chunkNum)
  BY <1>1, QueueTail
<1>4. /\ s \in Users /\ s # r /\ Via(s) = p
      /\ n \in 1..Len(sent[s]) /\ n \in Nat \ {0} /\ sent[s][n] \in Sizes
      /\ c \in Full(sent[s][n]) /\ c \in Nat
      /\ x = ChunkOf(s, n, sent[s][n], c)
      /\ c \in Given(r, s, n)
  <2> HIDE DEF l, x
  <2> QED BY <1>1, <1>3, ChunkInQueue DEF QueuesInv
<1> HIDE DEF x
<1>5. c \in OnTheWay(r, s, n)
  BY <1>3, <1>4, NumbersIs DEF OnTheWay, Queue
<1>6. ASSUME NEW u \in Users, NEW t \in Users, NEW m \in Nat
      PROVE  /\ Given(u, t, m)' = Given(u, t, m)
             /\ OnTheWay(u, t, m)' = IF u = r /\ t = s /\ m = n THEN OnTheWay(u, t, m) \ {c}
                                                               ELSE OnTheWay(u, t, m)
  <2>1. Given(u, t, m)' = Given(u, t, m) /\ Via(t)' = Via(t)
    BY <1>2 DEF Given, Via
  <2>2. <<Via(t), u>> \in Links
    BY LinkOf DEF QueuesInv
  <2>3. OnTheWay(u, t, m)' = Numbers(channel'[<<Via(t), u>>], t, m)
    BY <2>1 DEF OnTheWay, Queue, Numbers
  <2>4. CASE u = r /\ Via(t) = p
    <3>1. OnTheWay(u, t, m)' = Numbers(Tail(channel[l]), t, m)
      BY <1>2, <2>3, <2>4
    <3>2. OnTheWay(u, t, m) = Numbers(channel[l], t, m)
      BY <2>4 DEF OnTheWay, Queue
    <3>3. Numbers(Tail(channel[l]), t, m)
            = IF t = s /\ m = n THEN Numbers(channel[l], t, m) \ {c}
                                ELSE Numbers(channel[l], t, m)
      <4> HIDE DEF l
      <4> QED BY <1>1, NumbersOfTail DEF x
    <3> QED BY <2>1, <2>4, <3>1, <3>2, <3>3
  <2>5. CASE ~(u = r /\ Via(t) = p)
    <3>1. <<Via(t), u>> # l
      BY <2>5
    <3>2. ~(u = r /\ t = s)
      BY <1>4, <2>5
    <3> QED BY <1>2, <2>1, <2>2, <2>3, <3>1, <3>2 DEF OnTheWay, Queue
  <2> QED BY <2>4, <2>5
<1>7. ASSUME NEW u \in Users, NEW t \in Users, NEW m \in Nat
      PROVE  Handled(u, t, m)' = IF u = r /\ t = s /\ m = n THEN Handled(u, t, m) \cup {c}
                                                           ELSE Handled(u, t, m)
  BY <1>4, <1>5, <1>6 DEF Handled
<1> HIDE DEF s, n, c
<1>8. /\ \A i \in 1..Len(Tail(channel[<<p, r>>])) :
           LET y == Tail(channel[<<p, r>>])[i]
           IN  y.senderId = s => Earlier(n, c, y.n, y.header.chunkNum)
      /\ Head(channel[<<p, r>>]) = ChunkOf(s, n, sent[s][n], c)
  BY <1>3, <1>4 DEF s, n, c, x
<1>9. Takes(p, r, s, n, c)
  BY <1>4, <1>5, <1>6, <1>7, <1>8 DEF Takes
<1> QED BY <1>4, <1>9

\* What the decoders become.
LEMMA HandleDataDecodes ==
  ASSUME QueuesInv, NEW p \in Ends, NEW r \in Users, HandleData(p, r),
         NEW s \in Users, NEW n \in Nat, NEW c \in Nat, Takes(p, r, s, n, c)
  PROVE  LET decoded == Decode(containers[<<p, r>>], ChunkOf(s, n, sent[s][n], c))
         IN  /\ containers' = [containers EXCEPT ![<<p, r>>] = decoded.decoder]
             /\ DOMAIN containers = Links
             /\ IsMap(decoded.decoder, Keys, Containers)
             /\ decoded.data \in Datas
<1> DEFINE x == ChunkOf(s, n, sent[s][n], c)
           decoded == Decode(containers[<<p, r>>], x)
<1>1. Head(channel[<<p, r>>]) = x /\ <<p, r>> \in Links
  BY HandleDataChanges DEF Takes, QueuesInv
<1>2. Key(x) = <<s, IdOf(n)>>
  BY DEF ChunkOf, Key
<1>3. containers' = [containers EXCEPT ![<<p, r>>] = decoded.decoder]
  BY <1>1 DEF HandleData
<1>4. x \in Chunks /\ Key(x) \in Keys
  <2>1. n \in Nat \ {0} /\ sent[s][n] \in Sizes /\ c \in Full(sent[s][n])
    BY DEF Takes
  <2>2. x \in Chunks
    BY <2>1, ChunkOfIsChunk
  <2> QED BY <1>2, <2>1, <2>2, MessageIds DEF Keys
<1> HIDE DEF x
<1>5. IsMap(decoded.decoder, Keys, Containers) /\ decoded.data \in Datas
  BY <1>1, <1>4, DecodeType DEF QueuesInv, StateInv
<1> HIDE DEF decoded
<1>6. containers = [l \in Links |-> containers[l]]
  BY DEF QueuesInv, StateInv
<1>7. DOMAIN containers = Links
  BY <1>6
<1> QED BY <1>3, <1>5, <1>7 DEF decoded, x

\* What the lists become.
LEMMA HandleDataLists ==
  ASSUME QueuesInv, NEW p \in Ends, NEW r \in Users, HandleData(p, r),
         NEW s \in Users, NEW n \in Nat, NEW c \in Nat, Takes(p, r, s, n, c)
  PROVE  LET decoded == Decode(containers[<<p, r>>], ChunkOf(s, n, sent[s][n], c))
         IN  list' = IF decoded.data = <<>> THEN list
                     ELSE [list EXCEPT ![r] =
                             Append(@, [user |-> s, data |-> decoded.data,
                                        stale |-> Partial(r, s, IdOf(n))])]
<1> DEFINE x == ChunkOf(s, n, sent[s][n], c)
<1>1. Head(channel[<<p, r>>]) = x
  BY DEF Takes
<1>2. x.senderId = s /\ x.header.messageId = IdOf(n)
  BY DEF ChunkOf
<1> QED BY <1>1, <1>2 DEF HandleData, AddMessage

\* The state stays well formed.
LEMMA HandleDataState ==
  ASSUME QueuesInv, NEW p \in Ends, NEW r \in Users, HandleData(p, r),
         NEW s \in Users, NEW n \in Nat, NEW c \in Nat, Takes(p, r, s, n, c)
  PROVE  StateInv'
<1> DEFINE decoded == Decode(containers[<<p, r>>], ChunkOf(s, n, sent[s][n], c))
           entry == [user |-> s, data |-> decoded.data, stale |-> Partial(r, s, IdOf(n))]
<1>1. /\ channel' \in [Links -> Seq(Chunks)]
      /\ got' = got /\ sent' = sent /\ outbox' = outbox /\ network' = network
      /\ counter' = counter /\ reading' = reading /\ open' = open
  BY HandleDataChanges DEF QueuesInv
<1>2. /\ containers' = [l \in Links |-> containers'[l]]
      /\ \A l \in Links : IsMap(containers'[l], Keys, Containers)
  <2>1. /\ containers' = [containers EXCEPT ![<<p, r>>] = decoded.decoder]
        /\ IsMap(decoded.decoder, Keys, Containers) /\ DOMAIN containers = Links
    BY HandleDataDecodes
  <2>2. \A l \in Links : IsMap(containers[l], Keys, Containers)
    BY DEF QueuesInv, StateInv
  <2> HIDE DEF decoded
  <2> QED BY <2>1, <2>2
<1>3. list' \in [Users -> Seq(Entries)]
  <2>1. list \in [Users -> Seq(Entries)] /\ decoded.data \in Datas
    BY HandleDataDecodes DEF QueuesInv, StateInv
  <2>2. list' = IF decoded.data = <<>> THEN list ELSE [list EXCEPT ![r] = Append(@, entry)]
    BY HandleDataLists
  <2>3. Partial(r, s, IdOf(n)) \in BOOLEAN
    BY Zenon DEF Partial
  <2> HIDE DEF decoded
  <2>4. entry \in Entries
    BY <2>1, <2>3 DEF Entries
  <2> HIDE DEF entry
  <2>5. Append(list[r], entry) \in Seq(Entries)
    BY <2>1, <2>4
  <2> QED BY <2>1, <2>2, <2>5
<1>4. Possible' = Possible
  BY <1>1 DEF Possible
<1> QED BY <1>1, <1>2, <1>3, <1>4 DEF StateInv, QueuesInv

\* The channels stay in order.
LEMMA HandleDataQueues ==
  ASSUME QueuesInv, NEW p \in Ends, NEW r \in Users, HandleData(p, r),
         NEW s \in Users, NEW n \in Nat, NEW c \in Nat, Takes(p, r, s, n, c)
  PROVE  QueuesInv'
<1> DEFINE l0 == <<p, r>>
<1>1. /\ l0 \in Links /\ channel[l0] \in Seq(Chunks) /\ channel[l0] # <<>>
      /\ channel'[l0] = Tail(channel[l0])
      /\ \A l \in Links : l # l0 => channel'[l] = channel[l]
      /\ got' = got /\ sent' = sent /\ outbox' = outbox /\ network' = network
  BY HandleDataChanges DEF QueuesInv
<1>2. StateInv'
  BY HandleDataState
<1>3. GotInv'
  BY <1>1 DEF GotInv, QueuesInv
<1>4. OutboxInv'
  BY <1>1 DEF OutboxInv, QueuesInv
<1>5. \A l \in Links : Sorted(channel'[l])
  <2>1. Sorted(Tail(channel[l0]))
    BY <1>1, QueueTail DEF QueuesInv, ChannelInv
  <2> QED BY <1>1, <2>1 DEF QueuesInv, ChannelInv
<1>6. \A l \in Links : \A i \in 1..Len(channel'[l]) :
        \E j \in 1..Len(channel[l]) : channel'[l][i] = channel[l][j]
  <2>1. \A i \in 1..Len(Tail(channel[l0])) :
          i + 1 \in 1..Len(channel[l0]) /\ Tail(channel[l0])[i] = channel[l0][i + 1]
    BY <1>1, QueueTail DEF QueuesInv, ChannelInv
  <2> QED BY <1>1, <2>1
<1>7. \A u : Via(u)' = Via(u)
  BY <1>1 DEF Via
<1>8. ChannelInv'
  <2>1. ASSUME NEW l \in Links, NEW i \in 1..Len(channel'[l])
        PROVE  /\ IsChunk(channel'[l][i], sent)
               /\ Via(channel'[l][i].senderId) = l[1]
               /\ <<channel'[l][i].senderId, channel'[l][i].n,
                    channel'[l][i].header.chunkNum>> \in got[l[2]]
    <3>1. PICK j \in 1..Len(channel[l]) : channel'[l][i] = channel[l][j]
      BY <1>6
    <3>2. /\ IsChunk(channel[l][j], sent) /\ Via(channel[l][j].senderId) = l[1]
          /\ <<channel[l][j].senderId, channel[l][j].n, channel[l][j].header.chunkNum>>
               \in got[l[2]]
      BY DEF QueuesInv, ChannelInv
    <3> QED BY <3>1, <3>2
  <2> QED BY <1>1, <1>5, <2>1 DEF ChannelInv, Via
<1>9. HandledInv'
  <2> SUFFICES ASSUME NEW u \in Users, NEW t \in Users, NEW m \in Nat,
                      NEW b \in Handled(u, t, m)', NEW i \in 1..Len(Queue(t, u)'),
                      Queue(t, u)'[i].senderId = t
               PROVE  Earlier(m, b, Queue(t, u)'[i].n, Queue(t, u)'[i].header.chunkNum)
    BY DEF HandledInv
  <2>1. <<Via(t), u>> \in Links /\ Queue(t, u)' = channel'[<<Via(t), u>>]
    BY <1>7, LinkOf DEF QueuesInv, Queue
  <2>2. CASE u = r /\ t = s /\ m = n /\ b = c
    <3>1. Queue(t, u)' = Tail(channel[l0])
      BY <1>1, <2>1, <2>2 DEF Takes
    <3> QED BY <2>2, <3>1 DEF Takes
  <2>3. CASE ~(u = r /\ t = s /\ m = n /\ b = c)
    <3>1. b \in Handled(u, t, m)
      BY <2>3 DEF Takes
    <3>2. PICK j \in 1..Len(channel[<<Via(t), u>>]) :
            channel'[<<Via(t), u>>][i] = channel[<<Via(t), u>>][j]
      BY <1>6, <2>1
    <3>3. j \in 1..Len(Queue(t, u)) /\ Queue(t, u)'[i] = Queue(t, u)[j]
      BY <2>1, <3>2 DEF Queue
    <3> QED BY <3>1, <3>3 DEF QueuesInv, HandledInv
  <2> QED BY <2>2, <2>3
<1> QED BY <1>2, <1>3, <1>4, <1>8, <1>9 DEF QueuesInv

\* Later messages have not been handled, earlier ones are not on the way.
LEMMA TakesInOrder ==
  ASSUME QueuesInv, NEW p \in Ends, NEW r \in Users, HandleData(p, r),
         NEW s \in Users, NEW n \in Nat, NEW c \in Nat, Takes(p, r, s, n, c), NEW m \in Nat
  PROVE  /\ m > n => Handled(r, s, m) = {}
         /\ m < n => OnTheWay(r, s, m) = {}
<1> DEFINE q == channel[<<p, r>>]
<1>1. /\ q \in Seq(Chunks) /\ q # <<>> /\ Sorted(q) /\ Queue(s, r) = q
      /\ c \in Numbers(q, s, n) /\ Head(q) = ChunkOf(s, n, sent[s][n], c)
  BY HandleDataChanges DEF QueuesInv, ChannelInv, Takes, OnTheWay, Queue
<1>2. m > n => Handled(r, s, m) = {}
  <2> SUFFICES ASSUME NEW b \in Handled(r, s, m), m > n PROVE FALSE
    OBVIOUS
  <2>1. PICK i \in 1..Len(q) : q[i].senderId = s /\ q[i].n = n /\ q[i].header.chunkNum = c
    BY <1>1, NumbersIs
  <2>2. Earlier(m, b, n, c)
    BY <1>1, <2>1 DEF QueuesInv, HandledInv
  <2> QED BY <2>2 DEF Earlier
<1>3. m < n => OnTheWay(r, s, m) = {}
  <2> SUFFICES ASSUME NEW b \in Numbers(q, s, m), m < n PROVE FALSE
    BY <1>1 DEF OnTheWay
  <2> HIDE DEF q
  <2>1. PICK i \in 1..Len(q) : q[i].senderId = s /\ q[i].n = m /\ q[i].header.chunkNum = b
    BY NumbersIs
  <2>2. 1 \in 1..Len(q) /\ q[1].senderId = s /\ q[1].n = n
    BY <1>1, QueueTail DEF ChunkOf
  <2>3. 1 < i
    BY <2>1, <2>2
  <2>4. Earlier(q[1].n, q[1].header.chunkNum, q[i].n, q[i].header.chunkNum)
    BY <1>1, <2>1, <2>2, <2>3 DEF Sorted
  <2> QED BY <2>1, <2>2, <2>4 DEF Earlier
<1> QED BY <1>2, <1>3

\* If nothing is in the way, decode adds the chunk to what was handled before.
LEMMA TakesDecodes ==
  ASSUME QueuesInv, ContainerInv, NEW p \in Ends, NEW r \in Users, HandleData(p, r),
         NEW s \in Users, NEW n \in Nat, NEW c \in Nat, Takes(p, r, s, n, c),
         Ready(r, s, n)
  PROVE  Decodes(Decode(containers[<<p, r>>], ChunkOf(s, n, sent[s][n], c)),
                 s, n, sent[s][n], Handled(r, s, n) \cup {c})
<1> DEFINE h == Handled(r, s, n)
           size == sent[s][n]
<1>1. /\ n \in Nat \ {0} /\ size \in Sizes /\ c \in Full(size) /\ Via(s) = p
      /\ c \in OnTheWay(r, s, n)
  BY DEF Takes
<1>2. Latest(r, s, n)
  BY TakesInOrder DEF Latest
<1>3. Holds(containers[<<p, r>>], s, n, size, h)
  BY <1>1, <1>2 DEF ContainerInv
<1>4. h \in SUBSET Full(size) /\ c \in Full(size) \ h
  BY <1>1, GivenIsSent DEF QueuesInv, Handled
<1> HIDE DEF h, size
<1> QED BY <1>1, <1>3, <1>4, DecodeHolds DEF h, size

\* Where the keys of two messages differ, decode does not confuse them.
LEMMA HoldsOthers ==
  ASSUME NEW decoder, NEW s, NEW n, NEW size, NEW c, NEW t, NEW m, NEW h, NEW other,
         t # s \/ IdOf(m) # IdOf(n), Holds(decoder, t, m, other, h)
  PROVE  Holds(Decode(decoder, ChunkOf(s, n, size, c)).decoder, t, m, other, h)
<1> DEFINE x == ChunkOf(s, n, size, c)
           new == Decode(decoder, x).decoder
           key == <<t, IdOf(m)>>
<1>1. Key(x) = <<s, IdOf(n)>>
  BY DEF Key, ChunkOf
<1>2. key # Key(x)
  BY <1>1
<1> HIDE DEF x, key
<1>3. /\ key \in DOMAIN new <=> key \in DOMAIN decoder
      /\ key \in DOMAIN decoder => new[key] = decoder[key]
  BY <1>2, DecodeOthers
<1> HIDE DEF new
<1> QED BY <1>3 DEF Holds, key, new, x

\* The decoders hold what was handled, the chunk included.
LEMMA HandleDataContainers ==
  ASSUME QueuesInv, ContainerInv, NEW p \in Ends, NEW r \in Users, HandleData(p, r),
         NEW s \in Users, NEW n \in Nat, NEW c \in Nat, Takes(p, r, s, n, c)
  PROVE  ContainerInv'
<1> DEFINE decoded == Decode(containers[<<p, r>>], ChunkOf(s, n, sent[s][n], c))
<1>1. /\ containers'[<<p, r>>] = decoded.decoder
      /\ \A l \in Links : l # <<p, r>> => containers'[l] = containers[l]
      /\ sent' = sent /\ network' = network
  <2>1. sent' = sent /\ network' = network
    BY HandleDataChanges DEF QueuesInv
  <2>2. /\ containers' = [containers EXCEPT ![<<p, r>>] = decoded.decoder]
        /\ DOMAIN containers = Links /\ <<p, r>> \in Links
    BY HandleDataDecodes, HandleDataChanges DEF QueuesInv
  <2> HIDE DEF decoded
  <2> QED BY <2>1, <2>2
<1>2. /\ n \in Nat \ {0} /\ Via(s) = p /\ c \in Given(r, s, n)
  BY DEF Takes
<1>3. \A u, t \in Users : \A m \in Nat :
        /\ Given(u, t, m)' = Given(u, t, m)
        /\ OnTheWay(u, t, m)' = IF u = r /\ t = s /\ m = n THEN OnTheWay(u, t, m) \ {c}
                                                          ELSE OnTheWay(u, t, m)
        /\ Handled(u, t, m)' = IF u = r /\ t = s /\ m = n THEN Handled(u, t, m) \cup {c}
                                                         ELSE Handled(u, t, m)
        /\ Whole(u, t, m)' <=> Whole(u, t, m)
  BY <1>1 DEF Takes, Whole
<1> SUFFICES ASSUME NEW u \in Users, NEW t \in Users, NEW m \in Nat \ {0},
                    Ready(u, t, m)', Latest(u, t, m)'
             PROVE  Holds(containers'[<<Via(t), u>>], t, m, sent[t][m], Handled(u, t, m)')
  BY <1>1 DEF ContainerInv, Via
<1>4. /\ \A k \in 1..(m - 1) : SameId(k, m) => OnTheWay(u, t, k)' = {} /\ Whole(u, t, k)
      /\ \A k \in Nat : k > m /\ SameId(k, m) => Handled(u, t, k)' = {}
  BY <1>3 DEF Ready, Latest
<1>5. <<Via(t), u>> \in Links
  BY LinkOf DEF QueuesInv
<1> HIDE DEF decoded
<1>6. CASE ~(u = r /\ t = s /\ IdOf(m) = IdOf(n))
  <2>1. \A k \in Nat \ {0} : SameId(k, m) =>
          OnTheWay(u, t, k)' = OnTheWay(u, t, k) /\ Handled(u, t, k)' = Handled(u, t, k)
    BY <1>3, <1>6 DEF SameId
  <2>2. Ready(u, t, m) /\ Latest(u, t, m)
    BY <1>4, <2>1 DEF Ready, Latest
  <2>3. Holds(containers[<<Via(t), u>>], t, m, sent[t][m], Handled(u, t, m))
    BY <2>2 DEF ContainerInv
  <2>4. Handled(u, t, m)' = Handled(u, t, m)
    BY <1>3, <1>6
  <2>5. CASE u = r /\ Via(t) = p
    <3>1. t # s \/ IdOf(m) # IdOf(n)
      BY <1>6, <2>5
    <3> QED BY <1>1, <2>3, <2>4, <2>5, <3>1, HoldsOthers DEF decoded
  <2>6. CASE ~(u = r /\ Via(t) = p)
    <3>1. <<Via(t), u>> # <<p, r>>
      BY <2>6
    <3> QED BY <1>1, <1>5, <2>3, <2>4, <3>1
  <2> QED BY <2>5, <2>6
<1>7. CASE u = r /\ t = s /\ IdOf(m) = IdOf(n)
  <2>1. containers'[<<Via(t), u>>] = decoded.decoder
    BY <1>1, <1>2, <1>7
  <2>2. CASE m = n
    <3>1. Ready(r, s, n)
      BY <1>3, <1>4, <1>7, <2>2 DEF Ready
    <3>2. Holds(decoded.decoder, s, n, sent[s][n], Handled(r, s, n) \cup {c})
      BY <3>1, TakesDecodes DEF Decodes, decoded
    <3> QED BY <1>3, <1>7, <2>1, <2>2, <3>2
  <2>3. CASE m > n
    <3>1. SameId(n, m) /\ n \in 1..(m - 1)
      BY <1>2, <1>7, <2>3 DEF SameId
    <3>2. OnTheWay(r, s, n)' = {} /\ Whole(r, s, n)
      BY <1>4, <1>7, <3>1
    <3>3. Handled(r, s, n) \cup {c} = Full(sent[s][n])
      <4>1. Given(r, s, n) = Full(sent[s][n])
        BY <1>2, <3>2 DEF Whole
      <4>2. Handled(r, s, n)' = Full(sent[s][n])
        BY <1>3, <3>2, <4>1 DEF Handled
      <4> QED BY <1>3, <4>2
    <3>4. Ready(r, s, n)
      <4> SUFFICES ASSUME NEW k \in 1..(n - 1), SameId(k, n)
                   PROVE  OnTheWay(r, s, k) = {} /\ Whole(r, s, k)
        BY DEF Ready
      <4>1. k \in 1..(m - 1) /\ SameId(k, m) /\ k # n /\ k \in Nat
        BY <1>7, <2>3 DEF SameId
      <4> QED BY <1>3, <1>4, <1>7, <4>1
    <3>5. Holds(decoded.decoder, s, n, sent[s][n], Handled(r, s, n) \cup {c})
      BY <3>4, TakesDecodes DEF Decodes, decoded
    <3>6. <<s, IdOf(n)>> \notin DOMAIN decoded.decoder
      BY <3>3, <3>5 DEF Holds
    <3>7. Handled(u, t, m)' = {}
      BY <1>3, <1>7, <2>3, TakesInOrder
    <3> QED BY <1>7, <2>1, <3>6, <3>7 DEF Holds
  <2>4. CASE m < n
    <3>1. n \in Nat /\ n > m /\ SameId(n, m)
      BY <1>2, <1>7, <2>4 DEF SameId
    <3>2. c \in Handled(u, t, n)'
      BY <1>3, <1>7
    <3> QED BY <1>4, <3>1, <3>2
  <2> QED BY <2>2, <2>3, <2>4
<1> QED BY <1>6, <1>7

\* A list that gets one more entry.
LEMMA ListAppend ==
  ASSUME StateInv, NEW r \in Users, NEW e \in Entries,
         list' = [list EXCEPT ![r] = Append(@, e)]
  PROVE  /\ \A u \in Users : u # r => list'[u] = list[u]
         /\ Len(list[r]) \in Nat
         /\ \A i \in 1..Len(list[r]) : i \in 1..Len(list'[r]) /\ list'[r][i] = list[r][i]
         /\ Len(list[r]) + 1 \in 1..Len(list'[r]) /\ list'[r][Len(list[r]) + 1] = e
         /\ \A i \in 1..Len(list'[r]) : i \in 1..Len(list[r]) \/ i = Len(list[r]) + 1
<1>1. list \in [Users -> Seq(Entries)] /\ list[r] \in Seq(Entries) /\ Len(list[r]) \in Nat
  BY DEF StateInv
<1>2. list'[r] = Append(list[r], e) /\ \A u \in Users : u # r => list'[u] = list[u]
  BY <1>1
<1>3. /\ Len(Append(list[r], e)) = Len(list[r]) + 1
      /\ \A i \in 1..Len(list[r]) : Append(list[r], e)[i] = list[r][i]
      /\ Append(list[r], e)[Len(list[r]) + 1] = e
  BY <1>1, AppendProperties
<1> QED BY <1>1, <1>2, <1>3

\* The first byte of a message tells which one it is.
LEMMA FirstByte ==
  ASSUME StateInv, NEW s \in Users, NEW n \in 1..Len(sent[s])
  PROVE  Data(s, n)[1][2] = n /\ Data(s, n) # <<>>
<1>1. sent[s][n] \in Nat /\ sent[s][n] > 0
  BY SizeOf, ChunkArithmetic
<1>2. 1 \in 1..sent[s][n]
  BY <1>1
<1>3. Data(s, n)[1] = <<s, n, 1>>
  BY <1>2 DEF Data
<1>4. Data(s, n) # <<>>
  BY <1>2 DEF Data
<1> QED BY <1>3, <1>4

\* The entry e goes to the end of the list of r, if there is data.
AddsEntry(r, e) ==
  /\ e \in Entries
  /\ e.data = <<>> => list' = list
  /\ e.data # <<>> => list' = [list EXCEPT ![r] = Append(@, e)]

\* The entry for the message of which r takes this chunk, when it is complete.
EntryOf(p, r, s, n, c) ==
  [user  |-> s,
   data  |-> Decode(containers[<<p, r>>], ChunkOf(s, n, sent[s][n], c)).data,
   stale |-> Partial(r, s, IdOf(n))]

\* HandleData adds an entry to the list of r, or none.
LEMMA HandleDataEntry ==
  ASSUME QueuesInv, NEW p \in Ends, NEW r \in Users, HandleData(p, r),
         NEW s \in Users, NEW n \in Nat, NEW c \in Nat, Takes(p, r, s, n, c)
  PROVE  AddsEntry(r, EntryOf(p, r, s, n, c))
<1> DEFINE decoded == Decode(containers[<<p, r>>], ChunkOf(s, n, sent[s][n], c))
           e == EntryOf(p, r, s, n, c)
<1>1. decoded.data \in Datas
  BY HandleDataDecodes
<1>2. Partial(r, s, IdOf(n)) \in BOOLEAN
  BY Zenon DEF Partial
<1>3. list' = IF decoded.data = <<>> THEN list ELSE [list EXCEPT ![r] = Append(@, e)]
  BY HandleDataLists DEF EntryOf
<1> HIDE DEF decoded
<1>4. e \in Entries /\ e.data = decoded.data
  BY <1>1, <1>2 DEF Entries, EntryOf, decoded
<1> HIDE DEF e
<1> QED BY <1>3, <1>4 DEF e, AddsEntry

\* With its last chunk, a message gets into the list.
LEMMA HandleDataDone ==
  ASSUME QueuesInv, ContainerInv, DoneInv, NEW p \in Ends, NEW r \in Users, HandleData(p, r),
         NEW s \in Users, NEW n \in Nat, NEW c \in Nat, Takes(p, r, s, n, c)
  PROVE  DoneInv'
<1> DEFINE e == EntryOf(p, r, s, n, c)
<1>1. /\ e \in Entries /\ e.user = s
      /\ e.data = <<>> => list' = list
      /\ e.data # <<>> => list' = [list EXCEPT ![r] = Append(@, e)]
  <2>1. e.user = s
    BY DEF EntryOf
  <2>2. AddsEntry(r, e)
    BY HandleDataEntry
  <2> HIDE DEF e
  <2> QED BY <2>1, <2>2 DEF AddsEntry
<1>2. sent' = sent
  BY HandleDataChanges DEF QueuesInv
<1> HIDE DEF e
<1>3. \A u \in Users : \A i \in 1..Len(list[u]) :
        i \in 1..Len(list'[u]) /\ list'[u][i] = list[u][i]
  <2>1. CASE e.data = <<>>
    BY <1>1, <2>1
  <2>2. CASE e.data # <<>>
    BY <1>1, <2>2, ListAppend DEF QueuesInv
  <2> QED BY <2>1, <2>2
<1>4. \A u, t \in Users : \A m \in Nat :
        /\ Given(u, t, m)' = Given(u, t, m)
        /\ OnTheWay(u, t, m)' = IF u = r /\ t = s /\ m = n THEN OnTheWay(u, t, m) \ {c}
                                                          ELSE OnTheWay(u, t, m)
        /\ Handled(u, t, m)' = IF u = r /\ t = s /\ m = n THEN Handled(u, t, m) \cup {c}
                                                         ELSE Handled(u, t, m)
        /\ Whole(u, t, m)' <=> Whole(u, t, m)
  BY <1>2 DEF Takes, Whole
<1> SUFFICES ASSUME NEW u \in Users, NEW t \in Users, NEW m \in 1..Len(sent[t]),
                    Clean(u, t, m)', Given(u, t, m)' = Full(sent[t][m]),
                    OnTheWay(u, t, m)' = {}
             PROVE  \E i \in 1..Len(list'[u]) :
                      list'[u][i].user = t /\ list'[u][i].data = Data(t, m)
  BY <1>2 DEF DoneInv, Listed, Data
<1>5. m \in Nat \ {0} /\ Given(u, t, m) = Full(sent[t][m])
  BY <1>4, SizeOf DEF QueuesInv
<1>6. Clean(u, t, m)
  BY <1>4, <1>5 DEF Clean
<1>7. CASE ~(u = r /\ t = s /\ m = n)
  <2>1. OnTheWay(u, t, m) = {}
    BY <1>4, <1>5, <1>7
  <2>2. Listed(u, t, m)
    BY <1>5, <1>6, <2>1 DEF DoneInv
  <2> QED BY <1>3, <2>2 DEF Listed
<1>8. CASE u = r /\ t = s /\ m = n
  <2>1. Handled(r, s, n) \cup {c} = Full(sent[s][n])
    <3>1. Handled(u, t, m)' = Given(u, t, m)
      BY <1>4, <1>5 DEF Handled
    <3> QED BY <1>4, <1>5, <1>8, <3>1
  <2>2. Ready(r, s, n)
    <3> SUFFICES ASSUME NEW k \in 1..(n - 1), SameId(k, n)
                 PROVE  OnTheWay(r, s, k) = {} /\ Whole(r, s, k)
      BY DEF Ready
    <3>1. k \in Nat /\ k < n
      OBVIOUS
    <3> QED BY <1>6, <1>8, <3>1, TakesInOrder DEF Clean
  <2>3. e.data = Data(s, n)
    <3> DEFINE decoded == Decode(containers[<<p, r>>], ChunkOf(s, n, sent[s][n], c))
    <3>1. e.data = decoded.data
      BY DEF e, EntryOf
    <3>2. Decodes(decoded, s, n, sent[s][n], Handled(r, s, n) \cup {c})
      BY <2>2, TakesDecodes
    <3> HIDE DEF decoded
    <3> QED BY <2>1, <3>1, <3>2 DEF Decodes, Data
  <2>4. e.data # <<>>
    BY <1>8, <2>3, FirstByte DEF QueuesInv
  <2>5. Len(list[r]) + 1 \in 1..Len(list'[r]) /\ list'[r][Len(list[r]) + 1] = e
    BY <1>1, <2>4, ListAppend DEF QueuesInv
  <2> QED BY <1>1, <1>8, <2>3, <2>5
<1> QED BY <1>7, <1>8

\* If no remains of another message were noted, none are in the way.
LEMMA NotPartialIsReady ==
  ASSUME QueuesInv, NEW p \in Ends, NEW r \in Users, HandleData(p, r),
         NEW s \in Users, NEW n \in Nat, NEW c \in Nat, Takes(p, r, s, n, c),
         ~Partial(r, s, IdOf(n))
  PROVE  Ready(r, s, n)
<1> SUFFICES ASSUME NEW m \in 1..(n - 1), SameId(m, n)
             PROVE  OnTheWay(r, s, m) = {} /\ Whole(r, s, m)
  BY DEF Ready
<1>1. m \in Nat /\ m < n /\ OnTheWay(r, s, m) = {}
  BY TakesInOrder
<1>2. n \in 1..Len(sent[s]) /\ Len(sent[s]) \in Nat /\ <<s, n, c>> \in got[r]
  <2>1. n \in 1..Len(sent[s]) /\ c \in Given(r, s, n)
    BY DEF Takes
  <2>2. Len(sent[s]) \in Nat
    BY DEF QueuesInv, StateInv
  <2> QED BY <2>1, <2>2, GivenIs DEF QueuesInv
<1>3. m \in 1..Len(sent[s]) /\ IdOf(m) = IdOf(n)
  BY <1>1, <1>2 DEF SameId
<1>4. ~\E i \in 1..Len(outbox[s]) : outbox[s][i].n = m
  <2> SUFFICES ASSUME NEW i \in 1..Len(outbox[s]), outbox[s][i].n = m PROVE FALSE
    OBVIOUS
  <2>1. Earlier(n, c, m, outbox[s][i].header.chunkNum)
    BY <1>2 DEF QueuesInv, OutboxInv
  <2> QED BY <1>1, <2>1 DEF Earlier
<1>5. Given(r, s, m) \in {{}, Full(sent[s][m])}
  BY <1>3, <1>4 DEF Partial, Given, Full
<1> QED BY <1>1, <1>5 DEF Whole

\* When the last chunk is taken, nothing of the message is left to come.
LEMMA TakesLast ==
  ASSUME QueuesInv, NEW p \in Ends, NEW r \in Users, HandleData(p, r),
         NEW s \in Users, NEW n \in Nat, NEW c \in Nat, Takes(p, r, s, n, c),
         Handled(r, s, n) \cup {c} = Full(sent[s][n])
  PROVE  Past(r, s, n)'
<1> DEFINE q == channel[<<p, r>>]
<1>1. /\ q \in Seq(Chunks) /\ q # <<>> /\ Sorted(q) /\ channel'[<<p, r>>] = Tail(q)
      /\ outbox' = outbox /\ network' = network
  BY HandleDataChanges DEF QueuesInv, ChannelInv
<1>2. /\ Via(s) = p /\ c \in OnTheWay(r, s, n) /\ c \in Given(r, s, n)
      /\ OnTheWay(r, s, n)' = OnTheWay(r, s, n) \ {c}
      /\ \A i \in 1..Len(Tail(q)) :
           Tail(q)[i].senderId = s => Earlier(n, c, Tail(q)[i].n, Tail(q)[i].header.chunkNum)
  BY DEF Takes
<1>3. Queue(s, r)' = Tail(q) /\ Queue(s, r) = q
  BY <1>1, <1>2 DEF Queue, Via
<1>4. OnTheWay(r, s, n) \subseteq Full(sent[s][n])
  BY OnTheWayIsGiven, GivenIsSent DEF QueuesInv
<1>5. OnTheWay(r, s, n)' = {}
  BY <1>2, <1>4 DEF Handled
<1>6. \A b \in Full(sent[s][n]) : b \in Given(r, s, n)
  BY <1>2 DEF Handled
<1> HIDE DEF q
<1>7. ASSUME NEW i \in 1..Len(Tail(q)), Tail(q)[i].senderId = s PROVE n < Tail(q)[i].n
  <2>1. Earlier(n, c, Tail(q)[i].n, Tail(q)[i].header.chunkNum)
    BY <1>2, <1>7
  <2>2. Tail(q) \in Seq(Chunks)
    BY <1>1, QueueTail
  <2>3. Tail(q)[i].n \in Nat
    BY <2>2, QueueFields
  <2>4. Tail(q)[i].n # n
    <3>1. OnTheWay(r, s, n)' = Numbers(Tail(q), s, n)
      BY <1>3 DEF OnTheWay, Numbers
    <3> DEFINE y == Tail(q)
    <3>2. i \in 1..Len(y) /\ y[i].senderId = s /\ Numbers(y, s, n) = {}
      BY <1>5, <1>7, <3>1
    <3> HIDE DEF y
    <3>3. y[i].n = n => y[i].header.chunkNum \in Numbers(y, s, n)
      BY <3>2 DEF Numbers
    <3> QED BY <3>2, <3>3 DEF y
  <2> QED BY <2>1, <2>3, <2>4 DEF Earlier
<1>8. ASSUME NEW i \in 1..Len(outbox[s]) PROVE n < outbox[s][i].n
  <2>1. /\ IsChunk(outbox[s][i], sent) /\ outbox[s][i].senderId = s
        /\ outbox[s][i].n \in Nat /\ outbox[s][i].header.chunkNum \in Nat
    BY QueueFields DEF QueuesInv, OutboxInv, StateInv
  <2>2. \A b \in Given(r, s, n) :
          Earlier(n, b, outbox[s][i].n, outbox[s][i].header.chunkNum) /\ b \in Nat
    BY GivenIs DEF QueuesInv, OutboxInv
  <2>3. outbox[s][i].n # n
    <3> SUFFICES ASSUME outbox[s][i].n = n PROVE FALSE
      OBVIOUS
    <3>1. outbox[s][i].header.chunkNum \in Full(sent[s][n])
      BY <2>1 DEF IsChunk
    <3> QED BY <1>6, <2>1, <2>2, <3>1 DEF Earlier
  <2> QED BY <1>2, <2>1, <2>2, <2>3 DEF Earlier
<1> QED BY <1>1, <1>3, <1>7, <1>8 DEF Past

\* What gets into the list without remains in the way is the message.
LEMMA FreshEntry ==
  ASSUME QueuesInv, ContainerInv, NEW p \in Ends, NEW r \in Users, HandleData(p, r),
         NEW s \in Users, NEW n \in Nat, NEW c \in Nat, Takes(p, r, s, n, c),
         ~Partial(r, s, IdOf(n)), EntryOf(p, r, s, n, c).data # <<>>
  PROVE  EntryOf(p, r, s, n, c).data = Data(s, n) /\ Shown(r, s, n)'
<1> DEFINE decoded == Decode(containers[<<p, r>>], ChunkOf(s, n, sent[s][n], c))
<1>1. EntryOf(p, r, s, n, c).data = decoded.data
  BY DEF EntryOf
<1>2. Decodes(decoded, s, n, sent[s][n], Handled(r, s, n) \cup {c})
  BY NotPartialIsReady, TakesDecodes
<1> HIDE DEF decoded
<1>3. Handled(r, s, n) \cup {c} = Full(sent[s][n]) /\ decoded.data = Data(s, n)
  BY <1>1, <1>2 DEF Decodes, Data
<1>4. Past(r, s, n)'
  BY <1>3, TakesLast
<1>5. n \in 1..Len(sent'[s])
  BY HandleDataChanges DEF Takes, QueuesInv
<1> QED BY <1>1, <1>3, <1>4, <1>5 DEF Shown

\* Nothing that was past comes back when a chunk is taken.
LEMMA HandleDataPast ==
  ASSUME QueuesInv, NEW p \in Ends, NEW r \in Users, HandleData(p, r),
         NEW u \in Users, NEW t \in Users, NEW m \in Nat, Shown(u, t, m)
  PROVE  Shown(u, t, m)'
<1> DEFINE l0 == <<p, r>>
<1>1. /\ l0 \in Links /\ channel[l0] \in Seq(Chunks) /\ channel[l0] # <<>>
      /\ channel'[l0] = Tail(channel[l0])
      /\ \A l \in Links : l # l0 => channel'[l] = channel[l]
      /\ sent' = sent /\ outbox' = outbox /\ network' = network
  BY HandleDataChanges DEF QueuesInv
<1>2. <<Via(t), u>> \in Links /\ Queue(t, u)' = channel'[<<Via(t), u>>]
  BY <1>1, LinkOf DEF QueuesInv, Queue, Via
<1>3. \A i \in 1..Len(Queue(t, u)') :
        \E j \in 1..Len(Queue(t, u)) : Queue(t, u)'[i] = Queue(t, u)[j]
  <2>1. \A i \in 1..Len(Tail(channel[l0])) :
          i + 1 \in 1..Len(channel[l0]) /\ Tail(channel[l0])[i] = channel[l0][i + 1]
    BY <1>1, QueueTail DEF QueuesInv, ChannelInv
  <2> QED BY <1>1, <1>2, <2>1 DEF Queue
<1>4. Past(u, t, m) => Past(u, t, m)'
  BY <1>1, <1>3 DEF Past
<1> QED BY <1>1, <1>4 DEF Shown

\* The lists stay faithful and in order.
LEMMA HandleDataList ==
  ASSUME ChatInv, NEW p \in Ends, NEW r \in Users, HandleData(p, r),
         NEW s \in Users, NEW n \in Nat, NEW c \in Nat, Takes(p, r, s, n, c)
  PROVE  ListInv' /\ InOrder'
<1> DEFINE e == EntryOf(p, r, s, n, c)
<1>0. QueuesInv /\ ContainerInv /\ ListInv /\ InOrder /\ StateInv
  BY DEF ChatInv, QueuesInv
<1>1. /\ e \in Entries /\ e.user = s
      /\ e.data = <<>> => list' = list
      /\ e.data # <<>> => list' = [list EXCEPT ![r] = Append(@, e)]
  <2>1. e.user = s
    BY DEF EntryOf
  <2>2. AddsEntry(r, e)
    BY <1>0, HandleDataEntry
  <2> HIDE DEF e
  <2> QED BY <2>1, <2>2 DEF AddsEntry
<1>2. sent' = sent /\ \A t, m : Data(t, m)' = Data(t, m)
  <2>1. sent' = sent
    BY <1>0, HandleDataChanges
  <2> QED BY <2>1 DEF Data
<1>3. \A u, t \in Users : \A m \in Nat : Shown(u, t, m) => Shown(u, t, m)'
  BY <1>0, HandleDataPast
<1>4. e.data # <<>> /\ ~e.stale => e.data = Data(s, n) /\ Shown(r, s, n)'
  <2>1. e.stale = Partial(r, s, IdOf(n))
    BY DEF EntryOf
  <2> QED BY <1>0, <2>1, FreshEntry
<1>5. \A k \in Nat : Shown(r, s, k) => k < n
  <2> SUFFICES ASSUME NEW k \in Nat, Shown(r, s, k) PROVE k < n
    OBVIOUS
  <2>1. s # r /\ c \in OnTheWay(r, s, n)
    BY DEF Takes
  <2>2. PICK i \in 1..Len(Queue(s, r)) : Queue(s, r)[i].senderId = s /\ Queue(s, r)[i].n = n
    BY <2>1, NumbersIs DEF OnTheWay
  <2> QED BY <2>1, <2>2 DEF Shown, Past
<1> HIDE DEF e
<1>6. CASE e.data = <<>>
  <2>1. list' = list
    BY <1>1, <1>6
  <2> QED BY <1>0, <1>2, <1>3, <2>1 DEF ListInv, InOrder
<1>7. CASE e.data # <<>>
  <2> DEFINE new == Len(list[r]) + 1
  <2>1. /\ \A u \in Users : u # r => list'[u] = list[u]
        /\ Len(list[r]) \in Nat
        /\ \A i \in 1..Len(list[r]) : i \in 1..Len(list'[r]) /\ list'[r][i] = list[r][i]
        /\ new \in 1..Len(list'[r]) /\ list'[r][new] = e
        /\ \A i \in 1..Len(list'[r]) : i \in 1..Len(list[r]) \/ i = new
    BY <1>0, <1>1, <1>7, ListAppend
  <2>2. ListInv'
    <3> SUFFICES ASSUME NEW u \in Users, NEW t \in Users, NEW i \in 1..Len(list'[u]),
                        list'[u][i].user = t, ~list'[u][i].stale
                 PROVE  \E k \in Nat : Shown(u, t, k)' /\ list'[u][i].data = Data(t, k)
      BY <1>2 DEF ListInv
    <3>1. CASE u = r /\ i = new
      BY <1>1, <1>4, <1>7, <2>1, <3>1
    <3>2. CASE ~(u = r /\ i = new)
      <4>1. i \in 1..Len(list[u]) /\ list'[u][i] = list[u][i]
        BY <2>1, <3>2
      <4>2. PICK k \in Nat : Shown(u, t, k) /\ list[u][i].data = Data(t, k)
        BY <1>0, <4>1 DEF ListInv
      <4> QED BY <1>3, <4>1, <4>2
    <3> QED BY <3>1, <3>2
  <2>3. InOrder'
    <3> SUFFICES ASSUME NEW u \in Users, NEW i \in 1..Len(list'[u]), NEW j \in 1..Len(list'[u]),
                        i < j, list'[u][i].user = list'[u][j].user,
                        ~list'[u][i].stale, ~list'[u][j].stale
                 PROVE  list'[u][i].data[1][2] < list'[u][j].data[1][2]
      BY DEF InOrder
    <3>1. CASE u # r \/ j # new
      <4>1. /\ i \in 1..Len(list[u]) /\ list'[u][i] = list[u][i]
            /\ j \in 1..Len(list[u]) /\ list'[u][j] = list[u][j]
        BY <2>1, <3>1
      <4> QED BY <1>0, <4>1 DEF InOrder
    <3>2. CASE u = r /\ j = new
      <4>1. i \in 1..Len(list[r]) /\ list'[r][i] = list[r][i] /\ list'[r][j] = e
        BY <2>1, <3>2
      <4>2. PICK k \in Nat : Shown(r, s, k) /\ list[r][i].data = Data(s, k)
        BY <1>0, <1>1, <3>2, <4>1 DEF ListInv
      <4>3. k < n /\ k \in 1..Len(sent[s]) /\ n \in 1..Len(sent[s])
        BY <1>5, <4>2 DEF Shown, Takes
      <4>4. e.data = Data(s, n)
        BY <1>4, <1>7, <3>2, <4>1
      <4>5. Data(s, k)[1][2] = k /\ Data(s, n)[1][2] = n
        BY <1>0, <4>3, FirstByte
      <4> QED BY <3>2, <4>1, <4>2, <4>3, <4>4, <4>5
    <3> QED BY <3>1, <3>2
  <2> QED BY <2>2, <2>3
<1> QED BY <1>6, <1>7

\* HandleData keeps the invariant.
LEMMA HandleDataStep ==
  ASSUME ChatInv, NEW p \in Ends, NEW r \in Users, HandleData(p, r)
  PROVE  ChatInv'
<1>1. PICK s \in Users, n \in Nat, c \in Nat : Takes(p, r, s, n, c)
  BY HandleDataTakes DEF ChatInv
<1>2. QueuesInv' /\ ContainerInv' /\ DoneInv'
  BY <1>1, HandleDataQueues, HandleDataContainers, HandleDataDone DEF ChatInv
<1>3. ListInv' /\ InOrder'
  BY <1>1, HandleDataList
<1> QED BY <1>2, <1>3 DEF ChatInv

-----------------------------------------------------------------------------
(* SendText and FileRead *)

\* What a message that s sends changes for the messages before it: nothing.
SentGrows(s, size) ==
  /\ sent' \in [Users -> Seq(Sizes)]
  /\ Len(sent[s]) \in Nat /\ Len(sent'[s]) = Len(sent[s]) + 1
  /\ sent'[s][Len(sent[s]) + 1] = size
  /\ \A u \in Users : \A m \in 1..Len(sent[u]) :
       m \in 1..Len(sent'[u]) /\ sent'[u][m] = sent[u][m]
  /\ \A u \in Users : u # s => sent'[u] = sent[u]
  /\ \A m \in 1..Len(sent'[s]) : m \in 1..Len(sent[s]) \/ m = Len(sent[s]) + 1

\* The message is the last of its sender.
LEMMA SendGrows ==
  ASSUME StateInv, NEW s \in Users, NEW size \in Sizes, SendMessage(s, size)
  PROVE  SentGrows(s, size)
<1>1. sent' = [sent EXCEPT ![s] = Append(@, size)]
  BY DEF SendMessage
<1>2. sent \in [Users -> Seq(Sizes)] /\ sent[s] \in Seq(Sizes) /\ Len(sent[s]) \in Nat
  BY DEF StateInv
<1>3. /\ sent'[s] = Append(sent[s], size)
      /\ \A u \in Users : u # s => sent'[u] = sent[u]
  BY <1>1, <1>2
<1>4. /\ Append(sent[s], size) \in Seq(Sizes)
      /\ Len(Append(sent[s], size)) = Len(sent[s]) + 1
      /\ \A i \in 1..Len(sent[s]) : Append(sent[s], size)[i] = sent[s][i]
      /\ Append(sent[s], size)[Len(sent[s]) + 1] = size
  BY <1>2, AppendProperties
<1>5. sent' \in [Users -> Seq(Sizes)]
  BY <1>1, <1>2, <1>4
<1>6. \A u \in Users : \A m \in 1..Len(sent[u]) :
        m \in 1..Len(sent'[u]) /\ sent'[u][m] = sent[u][m]
  <2>1. ASSUME NEW m \in 1..Len(sent[s])
        PROVE  m \in 1..Len(sent'[s]) /\ sent'[s][m] = sent[s][m]
    BY <1>2, <1>3, <1>4
  <2> QED BY <1>3, <2>1
<1> QED BY <1>2, <1>3, <1>4, <1>5, <1>6 DEF SentGrows

\* A chunk of a message stays one when another message is sent.
LEMMA ChunkStays ==
  ASSUME NEW s \in Users, NEW size \in Sizes, SentGrows(s, size), NEW x, IsChunk(x, sent)
  PROVE  IsChunk(x, sent')
BY DEF SentGrows, IsChunk

\* The encoder's counter gives the message its ID.
LEMMA SendCounter ==
  ASSUME StateInv, NEW s \in Users, NEW size \in Sizes, SendMessage(s, size)
  PROVE  /\ counter'[s] = IdOf(Len(sent[s]) + 1)
         /\ counter' \in [Users -> Nat]
         /\ \A u \in Users : counter'[u] = IF Len(sent'[u]) = 0 THEN 0 ELSE IdOf(Len(sent'[u]))
<1> DEFINE k == Len(sent[s])
<1>1. /\ counter' = [counter EXCEPT ![s] = NextMessageId(@)]
  BY DEF SendMessage
<1>2. /\ counter \in [Users -> Nat] /\ k \in Nat
      /\ \A u \in Users : counter[u] = IF Len(sent[u]) = 0 THEN 0 ELSE IdOf(Len(sent[u]))
  BY DEF StateInv
<1>3. Len(sent'[s]) = k + 1 /\ \A u \in Users : u # s => sent'[u] = sent[u]
  BY SendGrows DEF SentGrows
<1> HIDE DEF k
<1>4. NextMessageId(counter[s]) = IdOf(k + 1)
  <2>1. CASE k = 0
    <3>1. counter[s] = 0 /\ k + 1 = 1
      BY <1>2, <2>1 DEF k
    <3>2. IdOf(1) = NextMessageId(0)
      BY MessageIds
    <3> QED BY <3>1, <3>2
  <2>2. CASE k # 0
    <3>1. counter[s] = IdOf(k) /\ k \in Nat \ {0}
      BY <1>2, <2>2 DEF k
    <3> QED BY <3>1, MessageIds
  <2> QED BY <2>1, <2>2
<1>5. IdOf(k + 1) \in Nat
  <2>1. k + 1 \in Nat \ {0} /\ MaxMessageId \in Nat
    BY <1>2, ChatAssumption
  <2>2. IdOf(k + 1) \in 1..(MaxMessageId - 1)
    BY <2>1, MessageIds
  <2> QED BY <2>1, <2>2
<1>6. counter'[s] = IdOf(k + 1) /\ \A u \in Users : u # s => counter'[u] = counter[u]
  BY <1>1, <1>2, <1>4
<1>7. counter' \in [Users -> Nat]
  BY <1>1, <1>2, <1>4, <1>5
<1>8. ASSUME NEW u \in Users
      PROVE  counter'[u] = IF Len(sent'[u]) = 0 THEN 0 ELSE IdOf(Len(sent'[u]))
  <2>1. CASE u = s
    BY <1>2, <1>3, <1>6, <2>1
  <2>2. CASE u # s
    BY <1>2, <1>3, <1>6, <2>2
  <2> QED BY <2>1, <2>2
<1> QED BY <1>6, <1>7, <1>8 DEF k

\* The worker gets the chunks of the new message, after those that it has.
Outgoing(s, n, size) ==
  /\ outbox' \in [Users -> Seq(Chunks)]
  /\ \A u \in Users : u # s => outbox'[u] = outbox[u]
  /\ \A i \in 1..Len(outbox'[s]) :
       \/ i \in 1..Len(outbox[s]) /\ outbox'[s][i] = outbox[s][i]
       \/ /\ i - Len(outbox[s]) \in 1..TotalChunks(size)
          /\ outbox'[s][i] = ChunkOf(s, n, size, i - Len(outbox[s]) - 1)

\* The worker cuts the message into chunks.
LEMMA SendOutbox ==
  ASSUME StateInv, NEW s \in Users, NEW size \in Sizes, SendMessage(s, size)
  PROVE  Outgoing(s, Len(sent[s]) + 1, size)
<1> DEFINE n == Len(sent[s]) + 1
           e == Encode(s, n, IdOf(n), [i \in 1..size |-> <<s, n, i>>])
           q == outbox[s]
<1>1. outbox' = [outbox EXCEPT ![s] = @ \o e]
  BY SendCounter DEF SendMessage
<1>2. outbox \in [Users -> Seq(Chunks)] /\ q \in Seq(Chunks) /\ Len(q) \in Nat
      /\ n \in Nat \ {0}
  BY DEF StateInv
<1>3. e \in Seq(Chunks) /\ Len(e) = TotalChunks(size)
      /\ \A k \in 1..TotalChunks(size) : e[k] = ChunkOf(s, n, size, k - 1)
  <2> HIDE DEF n
  <2> QED BY <1>2, EncodeMakesChunks
<1>4. TotalChunks(size) \in Nat
  BY ChunkArithmetic
<1> HIDE DEF e, n
<1>5. /\ outbox'[s] = q \o e
      /\ \A u \in Users : u # s => outbox'[u] = outbox[u]
  BY <1>1, <1>2
<1>6. /\ q \o e \in Seq(Chunks)
      /\ Len(q \o e) = Len(q) + Len(e)
      /\ \A i \in 1..Len(q) + Len(e) :
           (q \o e)[i] = IF i <= Len(q) THEN q[i] ELSE e[i - Len(q)]
  BY <1>2, <1>3, ConcatProperties
<1>7. outbox' \in [Users -> Seq(Chunks)]
  BY <1>1, <1>2, <1>6
<1>8. ASSUME NEW i \in 1..Len(outbox'[s])
      PROVE  \/ i \in 1..Len(q) /\ outbox'[s][i] = q[i]
             \/ /\ i - Len(q) \in 1..TotalChunks(size)
                /\ outbox'[s][i] = ChunkOf(s, n, size, i - Len(q) - 1)
  <2>1. i \in 1..Len(q) + Len(e) /\ outbox'[s][i] = IF i <= Len(q) THEN q[i] ELSE e[i - Len(q)]
    BY <1>5, <1>6
  <2>2. CASE i <= Len(q)
    BY <1>2, <2>1, <2>2
  <2>3. CASE i > Len(q)
    <3>1. i - Len(q) \in 1..TotalChunks(size) /\ outbox'[s][i] = e[i - Len(q)]
      BY <1>2, <1>3, <1>4, <2>1, <2>3
    <3> QED BY <1>3, <3>1
  <2> QED BY <1>2, <2>2, <2>3
<1> QED BY <1>5, <1>7, <1>8 DEF Outgoing, n

\* What sending leaves alone.
SendKeeps ==
  network' = network /\ channel' = channel /\ containers' = containers /\ got' = got

\* No part of a message that is not sent yet was given to anybody.
LEMMA NotSentNotGiven ==
  ASSUME StateInv, GotInv, NEW r \in Users, NEW s \in Users, NEW n \in Nat,
         n \notin 1..Len(sent[s])
  PROVE  Given(r, s, n) = {} /\ Handled(r, s, n) = {}
<1>1. Given(r, s, n) = {}
  BY GivenIsSent
<1> QED BY <1>1 DEF Handled

\* The state stays well formed.
LEMMA SendState ==
  ASSUME StateInv, NEW s \in Users, NEW size \in Sizes, SendMessage(s, size),
         reading' \in [Users -> SUBSET FileSizes]
  PROVE  StateInv' /\ SendKeeps
<1> DEFINE n == Len(sent[s]) + 1
           data == [i \in 1..size |-> <<s, n, i>>]
           e == [user |-> s, data |-> data, stale |-> FALSE]
<1>1. SendKeeps /\ open' = open
  BY DEF SendMessage, SendKeeps
<1>2. sent' \in [Users -> Seq(Sizes)]
  BY SendGrows DEF SentGrows
<1>3. /\ counter' \in [Users -> Nat]
      /\ \A u \in Users : counter'[u] = IF Len(sent'[u]) = 0 THEN 0 ELSE IdOf(Len(sent'[u]))
  BY SendCounter
<1>4. outbox' \in [Users -> Seq(Chunks)]
  BY SendOutbox DEF Outgoing
<1>5. list' \in [Users -> Seq(Entries)]
  <2>1. list' = [list EXCEPT ![s] = Append(@, e)]
    BY DEF SendMessage, AddMessage
  <2>2. n \in Nat /\ size \in Nat
    BY ChunkArithmetic DEF StateInv
  <2> HIDE DEF n
  <2>3. data \in Datas
    BY <2>2 DEF Datas, Bytes
  <2> HIDE DEF data
  <2>4. e \in Entries
    BY <2>3 DEF Entries
  <2> HIDE DEF e
  <2>5. list \in [Users -> Seq(Entries)] /\ Append(list[s], e) \in Seq(Entries)
    BY <2>4 DEF StateInv
  <2> QED BY <2>1, <2>5
<1>6. Possible' = Possible
  BY <1>1 DEF Possible, SendKeeps
<1> QED BY <1>1, <1>2, <1>3, <1>4, <1>5, <1>6 DEF StateInv, SendKeeps

\* The queues, and what was given and handled, stay the same.
LEMMA SendSame ==
  ASSUME SendKeeps
  PROVE  \A u, t : /\ Via(t)' = Via(t) /\ Queue(t, u)' = Queue(t, u)
                   /\ \A m : /\ Given(u, t, m)' = Given(u, t, m)
                             /\ OnTheWay(u, t, m)' = OnTheWay(u, t, m)
                             /\ Handled(u, t, m)' = Handled(u, t, m)
<1>1. \A t : Via(t)' = Via(t)
  BY DEF SendKeeps, Via
<1>2. \A u, t : Queue(t, u)' = Queue(t, u)
  BY DEF SendKeeps, Queue, Via
<1>3. \A u, t, m : Given(u, t, m)' = Given(u, t, m)
  BY DEF SendKeeps, Given
<1>4. \A u, t, m : OnTheWay(u, t, m)' = OnTheWay(u, t, m)
  BY DEF SendKeeps, OnTheWay, Queue, Via, Numbers
<1> QED BY <1>1, <1>2, <1>3, <1>4 DEF Handled

\* The chunks of the new message come after all others.
LEMMA SendOutboxInv ==
  ASSUME QueuesInv, NEW s \in Users, NEW size \in Sizes, SendMessage(s, size), SendKeeps
  PROVE  OutboxInv'
<1> DEFINE n == Len(sent[s]) + 1
           k == Len(outbox[s])
<1>1. /\ SentGrows(s, size) /\ Outgoing(s, n, size)
      /\ Len(sent[s]) \in Nat /\ k \in Nat /\ got' = got /\ TotalChunks(size) \in Nat
  <2>1. StateInv /\ got' = got
    BY DEF QueuesInv, SendKeeps
  <2>2. SentGrows(s, size)
    BY <2>1, SendGrows
  <2>3. Outgoing(s, n, size)
    BY <2>1, SendOutbox
  <2>4. Len(sent[s]) \in Nat /\ k \in Nat
    BY <2>1 DEF StateInv
  <2> QED BY <2>1, <2>2, <2>3, <2>4, ChunkArithmetic
<1> HIDE DEF k
<1>2. ASSUME NEW i \in 1..Len(outbox'[s]), ~(i \in 1..k /\ outbox'[s][i] = outbox[s][i])
      PROVE  /\ outbox'[s][i].senderId = s /\ outbox'[s][i].n = n
             /\ outbox'[s][i].header.chunkNum = i - k - 1
             /\ i - k - 1 \in Full(size)
             /\ IsChunk(outbox'[s][i], sent')
             /\ i > k
  <2> HIDE DEF n
  <2>1. i - k \in 1..TotalChunks(size) /\ outbox'[s][i] = ChunkOf(s, n, size, i - k - 1)
    BY <1>1, <1>2 DEF Outgoing, k
  <2>2. i - k - 1 \in Full(size) /\ i > k
    BY <1>1, <2>1 DEF Full
  <2>3. /\ outbox'[s][i].senderId = s /\ outbox'[s][i].n = n
        /\ outbox'[s][i].header.chunkNum = i - k - 1
    BY <2>1 DEF ChunkOf
  <2>4. n \in 1..Len(sent'[s]) /\ sent'[s][n] = size
    BY <1>1 DEF SentGrows, n
  <2>5. IsChunk(outbox'[s][i], sent')
    BY <2>1, <2>2, <2>3, <2>4 DEF IsChunk
  <2> QED BY <2>2, <2>3, <2>5
<1>3. ASSUME NEW i \in 1..k
      PROVE  /\ outbox[s][i].senderId = s /\ IsChunk(outbox[s][i], sent)
             /\ outbox[s][i].n < n
  <2>1. outbox[s][i].senderId = s /\ IsChunk(outbox[s][i], sent)
    BY DEF QueuesInv, OutboxInv, k
  <2>2. outbox[s][i].n \in 1..Len(sent[s])
    BY <2>1 DEF IsChunk
  <2> QED BY <1>1, <2>1, <2>2
<1> HIDE DEF n
<1>4. ASSUME NEW i \in 1..Len(outbox'[s])
      PROVE  outbox'[s][i].senderId = s /\ IsChunk(outbox'[s][i], sent')
  BY <1>1, <1>2, <1>3, ChunkStays
<1>5. Sorted(outbox'[s])
  <2> SUFFICES ASSUME NEW i \in 1..Len(outbox'[s]), NEW j \in 1..Len(outbox'[s]), i < j
               PROVE  Earlier(outbox'[s][i].n, outbox'[s][i].header.chunkNum,
                              outbox'[s][j].n, outbox'[s][j].header.chunkNum)
    BY DEF Sorted
  <2>1. CASE j \in 1..k /\ outbox'[s][j] = outbox[s][j]
    <3>1. i \in 1..k
      BY <1>1, <2>1
    <3>2. outbox'[s][i] = outbox[s][i]
      BY <1>1, <1>2, <3>1
    <3> QED BY <1>3, <2>1, <3>1, <3>2 DEF QueuesInv, OutboxInv, Sorted, k
  <2>2. CASE ~(j \in 1..k /\ outbox'[s][j] = outbox[s][j])
    <3>1. outbox'[s][j].n = n /\ outbox'[s][j].header.chunkNum = j - k - 1
      BY <1>2, <2>2
    <3>2. CASE i \in 1..k /\ outbox'[s][i] = outbox[s][i]
      BY <1>3, <3>1, <3>2 DEF Earlier
    <3>3. CASE ~(i \in 1..k /\ outbox'[s][i] = outbox[s][i])
      <4>1. outbox'[s][i].n = n /\ outbox'[s][i].header.chunkNum = i - k - 1
        BY <1>2, <3>3
      <4>2. i - k - 1 < j - k - 1
        BY <1>1
      <4> QED BY <3>1, <4>1, <4>2 DEF Earlier
    <3> QED BY <3>2, <3>3
  <2> QED BY <2>1, <2>2
<1>6. ASSUME NEW r \in Users, NEW m \in Nat, NEW c \in Nat, <<s, m, c>> \in got[r],
             NEW i \in 1..Len(outbox'[s])
      PROVE  Earlier(m, c, outbox'[s][i].n, outbox'[s][i].header.chunkNum)
  <2>1. CASE i \in 1..k /\ outbox'[s][i] = outbox[s][i]
    BY <1>6, <2>1 DEF QueuesInv, OutboxInv, k
  <2>2. CASE ~(i \in 1..k /\ outbox'[s][i] = outbox[s][i])
    <3>1. m \in 1..Len(sent[s])
      BY <1>6 DEF QueuesInv, GotInv
    <3>2. m < n
      BY <1>1, <3>1 DEF n
    <3> QED BY <1>2, <2>2, <3>2 DEF Earlier
  <2> QED BY <2>1, <2>2
<1>7. ASSUME NEW u \in Users, u # s
      PROVE  /\ \A i \in 1..Len(outbox'[u]) :
                  outbox'[u][i].senderId = u /\ IsChunk(outbox'[u][i], sent')
             /\ Sorted(outbox'[u])
             /\ \A r \in Users : \A m, c \in Nat :
                  <<u, m, c>> \in got[r] =>
                    \A i \in 1..Len(outbox'[u]) :
                      Earlier(m, c, outbox'[u][i].n, outbox'[u][i].header.chunkNum)
  <2>1. outbox'[u] = outbox[u]
    BY <1>1, <1>7 DEF Outgoing
  <2>2. \A i \in 1..Len(outbox[u]) : outbox[u][i].senderId = u /\ IsChunk(outbox[u][i], sent)
    BY DEF QueuesInv, OutboxInv
  <2>3. \A i \in 1..Len(outbox[u]) : IsChunk(outbox[u][i], sent')
    BY <1>1, <2>2, ChunkStays
  <2> QED BY <2>1, <2>2, <2>3 DEF QueuesInv, OutboxInv
<1>8. ASSUME NEW u \in Users
      PROVE  /\ \A i \in 1..Len(outbox'[u]) :
                  outbox'[u][i].senderId = u /\ IsChunk(outbox'[u][i], sent')
             /\ Sorted(outbox'[u])
             /\ \A r \in Users : \A m, c \in Nat :
                  <<u, m, c>> \in got[r] =>
                    \A i \in 1..Len(outbox'[u]) :
                      Earlier(m, c, outbox'[u][i].n, outbox'[u][i].header.chunkNum)
  BY <1>4, <1>5, <1>6, <1>7
<1> QED BY <1>1, <1>8 DEF OutboxInv

\* The queues stay in order.
LEMMA SendQueues ==
  ASSUME QueuesInv, NEW s \in Users, NEW size \in Sizes, SendMessage(s, size),
         reading' \in [Users -> SUBSET FileSizes]
  PROVE  QueuesInv' /\ SendKeeps
<1>1. StateInv' /\ SendKeeps
  BY SendState DEF QueuesInv
<1>2. SentGrows(s, size)
  BY SendGrows DEF QueuesInv
<1>3. GotInv'
  <2> SUFFICES ASSUME NEW r \in Users, NEW t \in Users, NEW n \in Nat, NEW c \in Nat,
                      <<t, n, c>> \in got[r]
               PROVE  t # r /\ n \in 1..Len(sent'[t]) /\ c \in Full(sent'[t][n])
    BY <1>1 DEF GotInv, SendKeeps
  <2>1. t # r /\ n \in 1..Len(sent[t]) /\ c \in Full(sent[t][n])
    BY DEF QueuesInv, GotInv
  <2> QED BY <1>2, <2>1 DEF SentGrows
<1>4. OutboxInv'
  BY <1>1, SendOutboxInv
<1>5. ChannelInv'
  <2>1. \A l \in Links : \A i \in 1..Len(channel[l]) : IsChunk(channel[l][i], sent')
    BY <1>2, ChunkStays DEF QueuesInv, ChannelInv
  <2> QED BY <1>1, <2>1 DEF QueuesInv, ChannelInv, SendKeeps, Via
<1>6. HandledInv'
  BY <1>1, SendSame DEF QueuesInv, HandledInv
<1> QED BY <1>1, <1>3, <1>4, <1>5, <1>6 DEF QueuesInv

\* A message that was given in part still is, and one that was not still is not.
LEMMA SendWhole ==
  ASSUME QueuesInv, NEW s \in Users, NEW size \in Sizes, SendMessage(s, size), SendKeeps,
         NEW u \in Users, NEW t \in Users, NEW m \in Nat \ {0}
  PROVE  Whole(u, t, m)' <=> Whole(u, t, m)
<1>1. SentGrows(s, size) /\ Given(u, t, m)' = Given(u, t, m)
  BY SendGrows, SendSame DEF QueuesInv
<1>2. CASE m \in 1..Len(sent[t])
  BY <1>1, <1>2 DEF SentGrows, Whole
<1>3. CASE m \notin 1..Len(sent[t])
  <2>1. Given(u, t, m) = {}
    BY <1>3, NotSentNotGiven DEF QueuesInv
  <2> QED BY <1>1, <2>1 DEF Whole
<1> QED BY <1>2, <1>3

\* The decoders hold what they held.
LEMMA SendContainers ==
  ASSUME QueuesInv, ContainerInv, NEW s \in Users, NEW size \in Sizes,
         SendMessage(s, size), SendKeeps
  PROVE  ContainerInv'
<1>1. SentGrows(s, size) /\ containers' = containers /\ network' = network
  BY SendGrows DEF QueuesInv, SendKeeps
<1>2. \A u, t : \A m : /\ OnTheWay(u, t, m)' = OnTheWay(u, t, m)
                       /\ Handled(u, t, m)' = Handled(u, t, m)
  BY SendSame
<1>3. \A u, t \in Users : \A m \in Nat \ {0} : Whole(u, t, m)' <=> Whole(u, t, m)
  BY SendWhole
<1> SUFFICES ASSUME NEW u \in Users, NEW t \in Users, NEW m \in Nat \ {0},
                    Ready(u, t, m)', Latest(u, t, m)'
             PROVE  Holds(containers[<<Via(t), u>>], t, m, sent'[t][m], Handled(u, t, m))
  BY <1>1, <1>2 DEF ContainerInv, Via
<1>4. Ready(u, t, m)
  BY <1>2, <1>3 DEF Ready
<1>5. Latest(u, t, m)
  BY <1>2 DEF Latest
<1>6. Holds(containers[<<Via(t), u>>], t, m, sent[t][m], Handled(u, t, m))
  BY <1>4, <1>5 DEF ContainerInv
<1>7. CASE m \in 1..Len(sent[t])
  BY <1>1, <1>6, <1>7 DEF SentGrows
<1>8. CASE m \notin 1..Len(sent[t])
  <2>1. Handled(u, t, m) = {}
    BY <1>8, NotSentNotGiven DEF QueuesInv
  <2> QED BY <1>6, <2>1 DEF Holds
<1> QED BY <1>7, <1>8

\* The own entry that sending adds to the list.
LEMMA SendEntry ==
  ASSUME QueuesInv, NEW s \in Users, NEW size \in Sizes, SendMessage(s, size),
         NEW n, n = Len(sent[s]) + 1
  PROVE  \E e \in Entries : /\ e.user = s /\ e.data = Data(s, n)' /\ e.data[1][2] = n
                            /\ list' = [list EXCEPT ![s] = Append(@, e)]
<1> DEFINE data == [i \in 1..size |-> <<s, n, i>>]
           e == [user |-> s, data |-> data, stale |-> FALSE]
<1>1. list' = [list EXCEPT ![s] = Append(@, e)]
  BY DEF SendMessage, AddMessage
<1>2. SentGrows(s, size)
  BY SendGrows DEF QueuesInv
<1>3. n \in Nat /\ sent'[s][n] = size
  BY <1>2 DEF SentGrows
<1>4. size \in Nat /\ size > 0
  BY ChunkArithmetic
<1>5. data \in Datas
  BY <1>3, <1>4 DEF Datas, Bytes
<1>6. data = Data(s, n)'
  BY <1>3 DEF Data
<1>7. data[1] = <<s, n, 1>>
  BY <1>4
<1> HIDE DEF data
<1>8. e \in Entries /\ e.user = s /\ e.data = Data(s, n)' /\ e.data[1][2] = n
  BY <1>5, <1>6, <1>7 DEF Entries
<1> HIDE DEF e
<1> QED BY <1>1, <1>8

\* The lists stay faithful and in order.
LEMMA SendLists ==
  ASSUME ChatInv, NEW s \in Users, NEW size \in Sizes, SendMessage(s, size), SendKeeps
  PROVE  DoneInv' /\ ListInv' /\ InOrder'
<1>0. QueuesInv /\ StateInv /\ GotInv /\ DoneInv /\ ListInv /\ InOrder
  BY DEF ChatInv, QueuesInv
<1> DEFINE new == Len(list[s]) + 1
<1>1. SentGrows(s, size) /\ Outgoing(s, Len(sent[s]) + 1, size)
  BY <1>0, SendGrows, SendOutbox
<1>2. PICK n \in Nat : n = Len(sent[s]) + 1
  BY <1>1 DEF SentGrows
<1>3. n \in 1..Len(sent'[s]) /\ \A m \in 1..Len(sent[s]) : m < n
  BY <1>1, <1>2 DEF SentGrows
<1>4. PICK e \in Entries : /\ e.user = s /\ e.data = Data(s, n)' /\ e.data[1][2] = n
                           /\ list' = [list EXCEPT ![s] = Append(@, e)]
  BY <1>0, <1>2, SendEntry
<1>5. /\ \A u \in Users : u # s => list'[u] = list[u]
      /\ Len(list[s]) \in Nat
      /\ \A i \in 1..Len(list[s]) : i \in 1..Len(list'[s]) /\ list'[s][i] = list[s][i]
      /\ new \in 1..Len(list'[s]) /\ list'[s][new] = e
      /\ \A i \in 1..Len(list'[s]) : i \in 1..Len(list[s]) \/ i = new
  BY <1>0, <1>4, ListAppend
<1>6. ASSUME NEW u \in Users, NEW m \in 1..Len(sent[u]) PROVE Data(u, m)' = Data(u, m)
  BY <1>1 DEF SentGrows, Data
<1>7. ASSUME NEW u \in Users, NEW t \in Users, NEW m \in Nat, Shown(u, t, m)
      PROVE  Shown(u, t, m)'
  <2>1. m \in 1..Len(sent[t]) /\ m \in 1..Len(sent'[t])
    BY <1>1, <1>7 DEF Shown, SentGrows
  <2>2. ASSUME u # t, NEW i \in 1..Len(outbox'[t]) PROVE m < outbox'[t][i].n
    <3>1. \A j \in 1..Len(outbox[t]) : m < outbox[t][j].n
      BY <1>7, <2>2 DEF Shown, Past
    <3>2. CASE t = s
      <4>1. CASE i \in 1..Len(outbox[s]) /\ outbox'[s][i] = outbox[s][i]
        BY <3>1, <3>2, <4>1
      <4>2. CASE outbox'[s][i] = ChunkOf(s, n, size, i - Len(outbox[s]) - 1)
        <5>1. outbox'[s][i].n = n
          BY <4>2 DEF ChunkOf
        <5> QED BY <1>3, <2>1, <3>2, <5>1
      <4> QED BY <1>1, <1>2, <3>2, <4>1, <4>2 DEF Outgoing
    <3>3. CASE t # s
      <4>1. outbox'[t] = outbox[t]
        BY <1>1, <3>3 DEF Outgoing
      <4> QED BY <3>1, <4>1
    <3> QED BY <3>2, <3>3
  <2>3. Queue(t, u)' = Queue(t, u)
    BY SendSame
  <2> QED BY <1>7, <2>1, <2>2, <2>3 DEF Shown, Past
<1>8. Shown(s, s, n)'
  BY <1>3 DEF Shown
<1>9. ListInv'
  <2> SUFFICES ASSUME NEW u \in Users, NEW t \in Users, NEW i \in 1..Len(list'[u]),
                      list'[u][i].user = t, ~list'[u][i].stale
               PROVE  \E k \in Nat : Shown(u, t, k)' /\ list'[u][i].data = Data(t, k)'
    BY DEF ListInv
  <2>1. CASE u = s /\ i = new
    BY <1>4, <1>5, <1>8, <2>1
  <2>2. CASE ~(u = s /\ i = new)
    <3>1. i \in 1..Len(list[u]) /\ list'[u][i] = list[u][i]
      BY <1>5, <2>2
    <3>2. PICK k \in Nat : Shown(u, t, k) /\ list[u][i].data = Data(t, k)
      BY <1>0, <3>1 DEF ListInv
    <3>3. Shown(u, t, k)' /\ Data(t, k)' = Data(t, k)
      BY <1>6, <1>7, <3>2 DEF Shown
    <3> QED BY <3>1, <3>2, <3>3
  <2> QED BY <2>1, <2>2
<1>10. InOrder'
  <2> SUFFICES ASSUME NEW u \in Users, NEW i \in 1..Len(list'[u]), NEW j \in 1..Len(list'[u]),
                      i < j, list'[u][i].user = list'[u][j].user,
                      ~list'[u][i].stale, ~list'[u][j].stale
               PROVE  list'[u][i].data[1][2] < list'[u][j].data[1][2]
    BY DEF InOrder
  <2>1. CASE u # s \/ j # new
    <3>1. /\ i \in 1..Len(list[u]) /\ list'[u][i] = list[u][i]
          /\ j \in 1..Len(list[u]) /\ list'[u][j] = list[u][j]
      BY <1>5, <2>1
    <3> QED BY <1>0, <3>1 DEF InOrder
  <2>2. CASE u = s /\ j = new
    <3>1. i \in 1..Len(list[s]) /\ list'[s][i] = list[s][i] /\ list'[s][j] = e
      BY <1>5, <2>2
    <3>2. PICK k \in Nat : Shown(s, s, k) /\ list[s][i].data = Data(s, k)
      BY <1>0, <1>4, <2>2, <3>1 DEF ListInv
    <3>3. k \in 1..Len(sent[s]) /\ k < n
      BY <1>3, <3>2 DEF Shown
    <3>4. Data(s, k)[1][2] = k
      BY <1>0, <3>3, FirstByte
    <3> QED BY <1>4, <2>2, <3>1, <3>2, <3>3, <3>4
  <2> QED BY <2>1, <2>2
<1>11. DoneInv'
  <2> SUFFICES ASSUME NEW u \in Users, NEW t \in Users, NEW m \in 1..Len(sent'[t]),
                      Clean(u, t, m)', Given(u, t, m)' = Full(sent'[t][m]),
                      OnTheWay(u, t, m)' = {}
               PROVE  \E i \in 1..Len(list'[u]) :
                        list'[u][i].user = t /\ list'[u][i].data = Data(t, m)'
    BY DEF DoneInv, Listed
  <2>0. m \in Nat /\ m # 0
    OBVIOUS
  <2>1. Given(u, t, m) = Full(sent'[t][m]) /\ OnTheWay(u, t, m) = {}
    BY SendSame
  <2>2. 0 \in Full(sent'[t][m])
    <3>1. sent'[t][m] \in Sizes
      BY <1>1 DEF SentGrows
    <3>2. TotalChunks(sent'[t][m]) \in Nat /\ TotalChunks(sent'[t][m]) > 0
      BY <3>1, ChunkArithmetic
    <3> QED BY <3>2 DEF Full
  <2>3. m \in 1..Len(sent[t])
    BY <1>0, <2>0, <2>1, <2>2, NotSentNotGiven
  <2>4. Given(u, t, m) = Full(sent[t][m])
    BY <1>1, <2>1, <2>3 DEF SentGrows
  <2>5. Clean(u, t, m)
    BY <1>0, <2>0, SendWhole DEF Clean, SameId
  <2>6. PICK i \in 1..Len(list[u]) : list[u][i].user = t /\ list[u][i].data = Data(t, m)
    BY <1>0, <2>1, <2>3, <2>4, <2>5 DEF DoneInv, Listed
  <2>7. i \in 1..Len(list'[u]) /\ list'[u][i] = list[u][i]
    BY <1>5
  <2> QED BY <1>6, <2>3, <2>6, <2>7
<1> QED BY <1>9, <1>10, <1>11

\* Sending a message keeps the invariant.
LEMMA SendStep ==
  ASSUME ChatInv, NEW s \in Users, NEW size \in Sizes, SendMessage(s, size),
         reading' \in [Users -> SUBSET FileSizes]
  PROVE  ChatInv'
<1>1. QueuesInv' /\ SendKeeps
  BY SendQueues DEF ChatInv
<1>2. ContainerInv'
  BY <1>1, SendContainers DEF ChatInv
<1>3. DoneInv' /\ ListInv' /\ InOrder'
  BY <1>1, SendLists
<1> QED BY <1>1, <1>2, <1>3 DEF ChatInv

-----------------------------------------------------------------------------
(* DataEvent *)

\* The next chunk of the worker of s is chunk c of the n-th message.
NextChunk(s, n, c) ==
  /\ n \in 1..Len(sent[s]) /\ n \in Nat \ {0} /\ sent[s][n] \in Sizes
  /\ c \in Full(sent[s][n]) /\ c \in Nat
  /\ ChunkOf(s, n, sent[s][n], c) \in Chunks
  /\ 1 \in 1..Len(outbox[s]) /\ outbox[s][1].n = n
  /\ Head(outbox[s]) = ChunkOf(s, n, sent[s][n], c)
  /\ \A r \in Users : \A m, b \in Nat : <<s, m, b>> \in got[r] => Earlier(m, b, n, c)

\* The next chunk of the worker comes after all that were given.
LEMMA DataEventChunk ==
  ASSUME QueuesInv, NEW s \in Users, DataEvent(s)
  PROVE  \E n, c \in Nat : NextChunk(s, n, c)
<1> DEFINE q == outbox[s]
           x == Head(q)
<1>1. q \in Seq(Chunks) /\ q # <<>> /\ Sorted(q)
  BY DEF QueuesInv, StateInv, OutboxInv, DataEvent
<1>2. x \in Chunks /\ x = q[1] /\ 1 \in 1..Len(q)
  <2> HIDE DEF q
  <2> QED BY <1>1, QueueTail
<1>3. /\ x.senderId = s /\ IsChunk(x, sent)
      /\ \A r \in Users : \A m, b \in Nat :
           <<s, m, b>> \in got[r] => Earlier(m, b, x.n, x.header.chunkNum)
  BY <1>2 DEF QueuesInv, OutboxInv
<1>4. x.n \in Nat /\ x.header.chunkNum \in Nat
  <2> HIDE DEF q
  <2> QED BY <1>2 DEF Chunks, Headers
<1> HIDE DEF x
<1>5. /\ x.n \in 1..Len(sent[s]) /\ x.header.chunkNum \in Full(sent[s][x.n])
      /\ x = ChunkOf(s, x.n, sent[s][x.n], x.header.chunkNum)
  BY <1>3 DEF IsChunk
<1>6. x.n \in Nat \ {0} /\ sent[s][x.n] \in Sizes
  BY <1>5, SizeOf DEF QueuesInv
<1>7. NextChunk(s, x.n, x.header.chunkNum)
  BY <1>2, <1>3, <1>4, <1>5, <1>6 DEF NextChunk, x
<1> QED BY <1>4, <1>7

\* A chunk that is given was not given before.
Gives(s, n, c) ==
  \A u, t \in Users : \A m \in Nat :
    LET new == u \in Receivers(s) /\ t = s /\ m = n
    IN  /\ Given(u, t, m)' = IF new THEN Given(u, t, m) \cup {c} ELSE Given(u, t, m)
        /\ OnTheWay(u, t, m)' = IF new THEN OnTheWay(u, t, m) \cup {c} ELSE OnTheWay(u, t, m)
        /\ Handled(u, t, m)' = Handled(u, t, m)

\* The variables that DataEvent changes.
DataEventMoves(s, n, c) ==
  /\ got' = [r \in Users |-> IF r \in Receivers(s) THEN got[r] \cup {<<s, n, c>>} ELSE got[r]]
  /\ channel' = [l \in Links |->
       IF l[1] = Via(s) /\ l[2] \in Receivers(s)
       THEN Append(channel[l], ChunkOf(s, n, sent[s][n], c)) ELSE channel[l]]
  /\ outbox' = [outbox EXCEPT ![s] = Tail(@)]
  /\ network' = network /\ counter' = counter /\ reading' = reading /\ open' = open
  /\ containers' = containers /\ list' = list /\ sent' = sent

\* The changes of DataEvent, for this chunk.
LEMMA DataEventChanges ==
  ASSUME NEW s \in Users, DataEvent(s), NEW n \in Nat, NEW c \in Nat, NextChunk(s, n, c)
  PROVE  DataEventMoves(s, n, c)
<1> DEFINE x == ChunkOf(s, n, sent[s][n], c)
<1>1. Head(outbox[s]) = x
  BY DEF NextChunk
<1>2. x.n = n /\ x.header.chunkNum = c
  BY DEF ChunkOf
<1> HIDE DEF x
<1> QED BY <1>1, <1>2 DEF DataEvent, DataEventMoves, x

\* The receivers are given the chunk, and it is on its way to them.
LEMMA DataEventGives ==
  ASSUME QueuesInv, NEW s \in Users, NEW n \in Nat, NEW c \in Nat,
         NextChunk(s, n, c), DataEventMoves(s, n, c)
  PROVE  Gives(s, n, c)
<1> DEFINE x == ChunkOf(s, n, sent[s][n], c)
<1>1. x \in Chunks /\ x.senderId = s /\ x.n = n /\ x.header.chunkNum = c
  BY DEF NextChunk, ChunkOf
<1>2. \A r \in Users : \A m, b \in Nat : <<s, m, b>> \in got[r] => Earlier(m, b, n, c)
  BY DEF NextChunk
<1>3. StateInv /\ GotInv /\ ChannelInv /\ network' = network
  BY DEF QueuesInv, DataEventMoves
<1>4. channel' = [l \in Links |->
        IF l[1] = Via(s) /\ l[2] \in Receivers(s) THEN Append(channel[l], x) ELSE channel[l]]
  BY DEF DataEventMoves
<1>5. got' = [r \in Users |-> IF r \in Receivers(s) THEN got[r] \cup {<<s, n, c>>} ELSE got[r]]
  BY DEF DataEventMoves
<1> HIDE DEF x
<1> SUFFICES ASSUME NEW u \in Users, NEW t \in Users, NEW m \in Nat
             PROVE  LET new == u \in Receivers(s) /\ t = s /\ m = n
                    IN  /\ Given(u, t, m)' = IF new THEN Given(u, t, m) \cup {c} ELSE Given(u, t, m)
                        /\ OnTheWay(u, t, m)' = IF new THEN OnTheWay(u, t, m) \cup {c}
                                                       ELSE OnTheWay(u, t, m)
                        /\ Handled(u, t, m)' = Handled(u, t, m)
  BY DEF Gives
<1> DEFINE new == u \in Receivers(s) /\ t = s /\ m = n
<1>6. Given(u, t, m)' = IF new THEN Given(u, t, m) \cup {c} ELSE Given(u, t, m)
  <2> DEFINE g == got[u]
             y == <<s, n, c>>
             Of(z) == z[1] = t /\ z[2] = m
  <2>1. Given(u, t, m) = {z[3] : z \in {w \in g : Of(w)}}
    BY DEF Given
  <2>2. Given(u, t, m)' = {z[3] : z \in {w \in got'[u] : Of(w)}}
    BY DEF Given
  <2>3. CASE u \in Receivers(s)
    <3>1. got'[u] = g \cup {y}
      BY <1>5, <2>3
    <3>2. y[3] = c /\ (Of(y) <=> t = s /\ m = n)
      OBVIOUS
    <3> HIDE DEF y, g, Of
    <3>3. {w \in g \cup {y} : Of(w)} = {w \in g : Of(w)} \cup {w \in {y} : Of(w)}
      OBVIOUS
    <3> QED BY <2>1, <2>2, <2>3, <3>1, <3>2, <3>3
  <2>4. CASE u \notin Receivers(s)
    BY <1>5, <2>1, <2>2, <2>4
  <2> QED BY <2>3, <2>4
<1>7. OnTheWay(u, t, m)' = IF new THEN OnTheWay(u, t, m) \cup {c} ELSE OnTheWay(u, t, m)
  <2> DEFINE l == <<Via(t), u>>
             q == channel[l]
  <2>1. l \in Links /\ q \in Seq(Chunks) /\ OnTheWay(u, t, m) = Numbers(q, t, m)
    BY <1>3, LinkOf DEF OnTheWay, Queue
  <2>2. OnTheWay(u, t, m)' = Numbers(channel'[l], t, m)
    BY <1>3 DEF OnTheWay, Queue, Numbers, Via
  <2>3. l[1] = Via(t) /\ l[2] = u
    OBVIOUS
  <2> HIDE DEF l
  <2>4. channel'[l] = IF Via(t) = Via(s) /\ u \in Receivers(s) THEN Append(q, x) ELSE q
    BY <1>4, <2>1, <2>3
  <2> HIDE DEF q
  <2>5. Numbers(Append(q, x), t, m)
          = IF t = s /\ m = n THEN Numbers(q, t, m) \cup {c} ELSE Numbers(q, t, m)
    BY <1>1, <2>1, NumbersOfAppend
  <2>6. CASE Via(t) = Via(s) /\ u \in Receivers(s)
    BY <2>1, <2>2, <2>4, <2>5, <2>6
  <2>7. CASE ~(Via(t) = Via(s) /\ u \in Receivers(s))
    BY <2>1, <2>2, <2>4, <2>7
  <2> QED BY <2>6, <2>7
<1>8. new => c \notin Given(u, t, m)
  <2> SUFFICES ASSUME u \in Receivers(s), t = s, m = n, c \in Given(u, t, m) PROVE FALSE
    OBVIOUS
  <2>1. <<s, n, c>> \in got[u]
    BY <1>3, GivenIs
  <2>2. Earlier(n, c, n, c)
    BY <1>2, <2>1
  <2> QED BY <2>2 DEF Earlier
<1>9. Handled(u, t, m)' = Handled(u, t, m)
  BY <1>6, <1>7, <1>8 DEF Handled
<1> QED BY <1>6, <1>7, <1>9

\* The state stays well formed.
LEMMA DataEventState ==
  ASSUME StateInv, NEW s \in Users, NEW n \in Nat, NEW c \in Nat,
         NextChunk(s, n, c), DataEventMoves(s, n, c)
  PROVE  StateInv'
<1> DEFINE x == ChunkOf(s, n, sent[s][n], c)
<1>1. x \in Chunks /\ 1 \in 1..Len(outbox[s])
  BY DEF NextChunk
<1>2. outbox' \in [Users -> Seq(Chunks)]
  <2>1. outbox \in [Users -> Seq(Chunks)] /\ outbox' = [outbox EXCEPT ![s] = Tail(@)]
    BY DEF StateInv, DataEventMoves
  <2>2. outbox[s] \in Seq(Chunks) /\ outbox[s] # <<>>
    BY <1>1, <2>1
  <2>3. Tail(outbox[s]) \in Seq(Chunks)
    BY <2>2
  <2> QED BY <2>1, <2>3
<1>3. channel' \in [Links -> Seq(Chunks)]
  <2>1. channel \in [Links -> Seq(Chunks)]
    BY DEF StateInv
  <2>2. channel' = [l \in Links |->
        IF l[1] = Via(s) /\ l[2] \in Receivers(s) THEN Append(channel[l], x) ELSE channel[l]]
    BY DEF DataEventMoves
  <2> HIDE DEF x
  <2>3. \A l \in Links : channel[l] \in Seq(Chunks) /\ Append(channel[l], x) \in Seq(Chunks)
    BY <1>1, <2>1
  <2> QED BY <2>2, <2>3
<1>4. got' \in [Users -> SUBSET (Users \X Nat \X Nat)]
  <2>1. got \in [Users -> SUBSET (Users \X Nat \X Nat)]
    BY DEF StateInv
  <2> QED BY <2>1 DEF DataEventMoves
<1>5. Possible' = Possible
  BY DEF Possible, DataEventMoves
<1> QED BY <1>2, <1>3, <1>4, <1>5 DEF StateInv, DataEventMoves

\* What a channel holds after DataEvent.
LEMMA DataEventChannel ==
  ASSUME StateInv, NEW s \in Users, NEW n \in Nat, NEW c \in Nat,
         NextChunk(s, n, c), DataEventMoves(s, n, c), NEW l \in Links,
         NEW i \in 1..Len(channel'[l])
  PROVE  \/ i \in 1..Len(channel[l]) /\ channel'[l][i] = channel[l][i]
         \/ /\ channel'[l][i] = ChunkOf(s, n, sent[s][n], c)
            /\ l[1] = Via(s) /\ l[2] \in Receivers(s)
<1> DEFINE x == ChunkOf(s, n, sent[s][n], c)
           q == channel[l]
<1>1. x \in Chunks /\ q \in Seq(Chunks)
  BY DEF NextChunk, StateInv
<1>2. channel'[l] = IF l[1] = Via(s) /\ l[2] \in Receivers(s) THEN Append(q, x) ELSE q
  BY DEF DataEventMoves
<1> HIDE DEF x, q
<1>3. CASE l[1] = Via(s) /\ l[2] \in Receivers(s)
  <2>1. channel'[l] = Append(q, x)
    BY <1>2, <1>3
  <2>2. /\ \A j \in 1..Len(Append(q, x)) : j \in 1..Len(q) \/ j = Len(q) + 1
        /\ \A j \in 1..Len(q) : Append(q, x)[j] = q[j]
        /\ Append(q, x)[Len(q) + 1] = x
    BY <1>1, QueueAppend
  <2> QED BY <1>3, <2>1, <2>2 DEF x, q
<1>4. CASE ~(l[1] = Via(s) /\ l[2] \in Receivers(s))
  BY <1>2, <1>4 DEF q
<1> QED BY <1>3, <1>4

\* What an outbox holds after DataEvent.
LEMMA DataEventOutbox ==
  ASSUME QueuesInv, NEW s \in Users, NEW n \in Nat, NEW c \in Nat,
         NextChunk(s, n, c), DataEventMoves(s, n, c), NEW u \in Users
  PROVE  /\ Sorted(outbox'[u])
         /\ \A i \in 1..Len(outbox'[u]) :
              /\ \E j \in 1..Len(outbox[u]) : outbox'[u][i] = outbox[u][j]
              /\ u = s => Earlier(n, c, outbox'[u][i].n, outbox'[u][i].header.chunkNum)
<1> DEFINE q == outbox[s]
<1>1. outbox \in [Users -> Seq(Chunks)] /\ outbox' = [outbox EXCEPT ![s] = Tail(@)]
  BY DEF QueuesInv, StateInv, DataEventMoves
<1>2. Sorted(outbox[u])
  BY DEF QueuesInv, OutboxInv
<1>3. CASE u = s
  <2>1. /\ outbox'[u] = Tail(q) /\ q \in Seq(Chunks) /\ Sorted(q)
    BY <1>1, <1>2, <1>3
  <2>2. q # <<>> /\ Head(q) = ChunkOf(s, n, sent[s][n], c)
    BY DEF NextChunk
  <2>3. Head(q).senderId = s /\ Head(q).n = n /\ Head(q).header.chunkNum = c
    BY <2>2 DEF ChunkOf
  <2>4. \A j \in 1..Len(q) : q[j].senderId = s
    BY DEF QueuesInv, OutboxInv
  <2> HIDE DEF q
  <2>5. /\ Sorted(Tail(q))
        /\ \A i \in 1..Len(Tail(q)) :
             /\ i + 1 \in 1..Len(q) /\ Tail(q)[i] = q[i + 1]
             /\ Tail(q)[i].senderId = Head(q).senderId =>
                  Earlier(Head(q).n, Head(q).header.chunkNum,
                          Tail(q)[i].n, Tail(q)[i].header.chunkNum)
    BY <2>1, <2>2, QueueTail
  <2>6. ASSUME NEW i \in 1..Len(Tail(q))
        PROVE  /\ \E j \in 1..Len(q) : Tail(q)[i] = q[j]
               /\ Earlier(n, c, Tail(q)[i].n, Tail(q)[i].header.chunkNum)
    BY <2>3, <2>4, <2>5
  <2> QED BY <1>3, <2>1, <2>5, <2>6 DEF q
<1>4. CASE u # s
  BY <1>1, <1>2, <1>4
<1> QED BY <1>3, <1>4

\* The queues stay in order.
LEMMA DataEventQueues ==
  ASSUME QueuesInv, NEW s \in Users, NEW n \in Nat, NEW c \in Nat,
         NextChunk(s, n, c), DataEventMoves(s, n, c), Gives(s, n, c)
  PROVE  QueuesInv'
<1> DEFINE x == ChunkOf(s, n, sent[s][n], c)
<1>1. /\ n \in 1..Len(sent[s]) /\ c \in Full(sent[s][n]) /\ x \in Chunks
      /\ \A r \in Users : \A m, b \in Nat : <<s, m, b>> \in got[r] => Earlier(m, b, n, c)
  BY DEF NextChunk
<1>2. x.senderId = s /\ x.n = n /\ x.header.chunkNum = c
  BY DEF ChunkOf
<1>3. /\ sent' = sent /\ network' = network
      /\ \A r \in Users : got'[r] = IF r \in Receivers(s) THEN got[r] \cup {<<s, n, c>>} ELSE got[r]
  BY DEF DataEventMoves
<1>4. StateInv /\ GotInv /\ OutboxInv /\ ChannelInv /\ HandledInv
  BY DEF QueuesInv
<1>5. StateInv'
  BY <1>4, DataEventState
<1>6. /\ s \notin Receivers(s)
      /\ \A r \in Users : \A t, m, b :
           <<t, m, b>> \in got'[r] =>
             <<t, m, b>> \in got[r] \/ (r \in Receivers(s) /\ t = s /\ m = n /\ b = c)
  <2>1. s \notin Receivers(s)
    BY DEF Receivers
  <2>2. ASSUME NEW r \in Users, NEW t, NEW m, NEW b,
               <<t, m, b>> \in got'[r], <<t, m, b>> \notin got[r]
        PROVE  r \in Receivers(s) /\ t = s /\ m = n /\ b = c
    <3>1. r \in Receivers(s) /\ got'[r] = got[r] \cup {<<s, n, c>>}
      BY <1>3, <2>2
    <3>2. <<t, m, b>> = <<s, n, c>>
      BY <2>2, <3>1
    <3> QED BY <3>1, <3>2
  <2> QED BY <2>1, <2>2
<1>7. GotInv'
  <2> SUFFICES ASSUME NEW r \in Users, NEW t \in Users, NEW m \in Nat, NEW b \in Nat,
                      <<t, m, b>> \in got'[r]
               PROVE  t # r /\ m \in 1..Len(sent[t]) /\ b \in Full(sent[t][m])
    BY <1>3 DEF GotInv
  <2>1. CASE <<t, m, b>> \in got[r]
    BY <1>4, <2>1 DEF GotInv
  <2>2. CASE <<t, m, b>> \notin got[r]
    <3>1. r \in Receivers(s) /\ t = s /\ m = n /\ b = c
      BY <1>6, <2>2
    <3> QED BY <1>1, <1>6, <3>1
  <2> QED BY <2>1, <2>2
<1>8. OutboxInv'
  <2> SUFFICES ASSUME NEW u \in Users
               PROVE  /\ \A i \in 1..Len(outbox'[u]) :
                           outbox'[u][i].senderId = u /\ IsChunk(outbox'[u][i], sent)
                      /\ Sorted(outbox'[u])
                      /\ \A r \in Users : \A m, b \in Nat :
                           <<u, m, b>> \in got'[r] =>
                             \A i \in 1..Len(outbox'[u]) :
                               Earlier(m, b, outbox'[u][i].n, outbox'[u][i].header.chunkNum)
    BY <1>3 DEF OutboxInv
  <2>1. /\ Sorted(outbox'[u])
        /\ \A i \in 1..Len(outbox'[u]) :
             /\ \E j \in 1..Len(outbox[u]) : outbox'[u][i] = outbox[u][j]
             /\ u = s => Earlier(n, c, outbox'[u][i].n, outbox'[u][i].header.chunkNum)
    BY DataEventOutbox
  <2>2. \A i \in 1..Len(outbox'[u]) :
           outbox'[u][i].senderId = u /\ IsChunk(outbox'[u][i], sent)
    BY <1>4, <2>1 DEF OutboxInv
  <2>3. ASSUME NEW r \in Users, NEW m \in Nat, NEW b \in Nat, <<u, m, b>> \in got'[r],
               NEW i \in 1..Len(outbox'[u])
        PROVE  Earlier(m, b, outbox'[u][i].n, outbox'[u][i].header.chunkNum)
    <3>1. CASE <<u, m, b>> \in got[r]
      <4>1. PICK j \in 1..Len(outbox[u]) : outbox'[u][i] = outbox[u][j]
        BY <2>1
      <4>2. Earlier(m, b, outbox[u][j].n, outbox[u][j].header.chunkNum)
        BY <1>4, <3>1 DEF OutboxInv
      <4> QED BY <4>1, <4>2
    <3>2. CASE <<u, m, b>> \notin got[r]
      <4>1. u = s /\ m = n /\ b = c
        BY <1>6, <2>3, <3>2
      <4> QED BY <2>1, <4>1
    <3> QED BY <3>1, <3>2
  <2> QED BY <2>1, <2>2, <2>3
<1> HIDE DEF x
<1>9. ASSUME NEW l \in Links PROVE Sorted(channel'[l])
  <2> DEFINE q == channel[l]
  <2>1. q \in Seq(Chunks) /\ Sorted(q) /\ l[2] \in Users
    BY <1>4 DEF StateInv, ChannelInv, Links
  <2>2. channel'[l] = IF l[1] = Via(s) /\ l[2] \in Receivers(s) THEN Append(q, x) ELSE q
    BY DEF DataEventMoves, x
  <2>3. ASSUME NEW i \in 1..Len(q), q[i].senderId = x.senderId
        PROVE  Earlier(q[i].n, q[i].header.chunkNum, x.n, x.header.chunkNum)
    <3>1. <<q[i].senderId, q[i].n, q[i].header.chunkNum>> \in got[l[2]]
      BY <1>4 DEF ChannelInv
    <3>2. q[i].n \in Nat /\ q[i].header.chunkNum \in Nat
      <4> HIDE DEF q
      <4> QED BY <2>1, QueueFields
    <3> HIDE DEF q
    <3> QED BY <1>1, <1>2, <2>1, <2>3, <3>1, <3>2
  <2> HIDE DEF q
  <2>4. Sorted(Append(q, x))
    BY <1>1, <2>1, <2>3, SortedAppend
  <2> QED BY <2>1, <2>2, <2>4
<1>10. ChannelInv'
  <2>1. ASSUME NEW l \in Links, NEW i \in 1..Len(channel'[l])
        PROVE  /\ IsChunk(channel'[l][i], sent)
               /\ Via(channel'[l][i].senderId) = l[1]
               /\ <<channel'[l][i].senderId, channel'[l][i].n,
                    channel'[l][i].header.chunkNum>> \in got'[l[2]]
    <3>0. l[2] \in Users
      BY DEF Links
    <3>1. CASE i \in 1..Len(channel[l]) /\ channel'[l][i] = channel[l][i]
      <4>1. /\ IsChunk(channel[l][i], sent) /\ Via(channel[l][i].senderId) = l[1]
            /\ <<channel[l][i].senderId, channel[l][i].n, channel[l][i].header.chunkNum>>
                 \in got[l[2]]
        BY <1>4, <3>1 DEF ChannelInv
      <4> QED BY <1>3, <3>0, <3>1, <4>1
    <3>2. CASE channel'[l][i] = x /\ l[1] = Via(s) /\ l[2] \in Receivers(s)
      <4>1. IsChunk(x, sent)
        BY <1>1, <1>2 DEF IsChunk, x
      <4> QED BY <1>2, <1>3, <3>0, <3>2, <4>1
    <3> QED BY <1>4, <3>1, <3>2, DataEventChannel DEF x
  <2> QED BY <1>3, <1>9, <2>1 DEF ChannelInv, Via
<1>11. HandledInv'
  <2> SUFFICES ASSUME NEW u \in Users, NEW t \in Users, NEW m \in Nat,
                      NEW b \in Handled(u, t, m)', NEW i \in 1..Len(Queue(t, u)'),
                      Queue(t, u)'[i].senderId = t
               PROVE  Earlier(m, b, Queue(t, u)'[i].n, Queue(t, u)'[i].header.chunkNum)
    BY DEF HandledInv
  <2>1. <<Via(t), u>> \in Links /\ Queue(t, u)' = channel'[<<Via(t), u>>]
    BY <1>3, <1>4, LinkOf DEF Queue, Via
  <2>2. b \in Handled(u, t, m)
    BY DEF Gives
  <2>3. CASE /\ i \in 1..Len(channel[<<Via(t), u>>])
             /\ channel'[<<Via(t), u>>][i] = channel[<<Via(t), u>>][i]
    <3>1. i \in 1..Len(Queue(t, u)) /\ Queue(t, u)'[i] = Queue(t, u)[i]
      BY <2>1, <2>3 DEF Queue
    <3> QED BY <1>4, <2>2, <3>1 DEF HandledInv
  <2>4. CASE channel'[<<Via(t), u>>][i] = x
    <3>1. Queue(t, u)'[i] = x /\ t = s
      BY <1>2, <2>1, <2>4
    <3>2. b \in Given(u, t, m)
      BY <1>4, <2>2, HandledIs
    <3>3. b \in Nat /\ <<s, m, b>> \in got[u]
      BY <1>4, <3>1, <3>2, GivenIs
    <3> QED BY <1>1, <1>2, <3>1, <3>3
  <2> QED BY <1>4, <2>1, <2>3, <2>4, DataEventChannel DEF x
<1> QED BY <1>5, <1>7, <1>8, <1>10, <1>11 DEF QueuesInv

\* A message is not given in part by the chunk unless it is on the way.
LEMMA DataEventWhole ==
  ASSUME NEW s \in Users, NEW n \in Nat, NEW c \in Nat,
         DataEventMoves(s, n, c), Gives(s, n, c),
         NEW u \in Users, NEW t \in Users, NEW m \in Nat, OnTheWay(u, t, m)' = {}
  PROVE  /\ OnTheWay(u, t, m) = {} /\ Given(u, t, m)' = Given(u, t, m)
         /\ Whole(u, t, m)' <=> Whole(u, t, m)
<1> DEFINE new == u \in Receivers(s) /\ t = s /\ m = n
<1>1. /\ Given(u, t, m)' = IF new THEN Given(u, t, m) \cup {c} ELSE Given(u, t, m)
      /\ OnTheWay(u, t, m)' = IF new THEN OnTheWay(u, t, m) \cup {c} ELSE OnTheWay(u, t, m)
  BY DEF Gives
<1>2. ~new /\ OnTheWay(u, t, m) = {} /\ Given(u, t, m)' = Given(u, t, m)
  BY <1>1
<1> QED BY <1>2 DEF Whole, DataEventMoves

\* The decoders hold what they held.
LEMMA DataEventContainers ==
  ASSUME QueuesInv, ContainerInv, NEW s \in Users, NEW n \in Nat, NEW c \in Nat,
         DataEventMoves(s, n, c), Gives(s, n, c)
  PROVE  ContainerInv'
<1>1. sent' = sent /\ containers' = containers /\ network' = network
  BY DEF DataEventMoves
<1>2. \A u, t \in Users : \A m \in Nat : Handled(u, t, m)' = Handled(u, t, m)
  BY DEF Gives
<1> SUFFICES ASSUME NEW u \in Users, NEW t \in Users, NEW m \in Nat \ {0},
                    Ready(u, t, m)', Latest(u, t, m)'
             PROVE  Holds(containers[<<Via(t), u>>], t, m, sent[t][m], Handled(u, t, m))
  BY <1>1, <1>2 DEF ContainerInv, Via
<1>3. Ready(u, t, m)
  <2> SUFFICES ASSUME NEW k \in 1..(m - 1), SameId(k, m)
               PROVE  OnTheWay(u, t, k) = {} /\ Whole(u, t, k)
    BY DEF Ready
  <2>1. OnTheWay(u, t, k)' = {} /\ Whole(u, t, k)' /\ k \in Nat
    BY DEF Ready
  <2> QED BY <2>1, DataEventWhole
<1>4. Latest(u, t, m)
  BY <1>2 DEF Latest
<1> QED BY <1>3, <1>4 DEF ContainerInv

\* A message that has arrived stays in the list.
LEMMA DataEventDone ==
  ASSUME QueuesInv, DoneInv, NEW s \in Users, NEW n \in Nat, NEW c \in Nat,
         NextChunk(s, n, c), DataEventMoves(s, n, c), Gives(s, n, c)
  PROVE  DoneInv'
<1>1. sent' = sent /\ list' = list /\ StateInv
  BY DEF DataEventMoves, QueuesInv
<1> SUFFICES ASSUME NEW u \in Users, NEW t \in Users, NEW m \in 1..Len(sent[t]),
                    Clean(u, t, m)', Given(u, t, m)' = Full(sent[t][m]),
                    OnTheWay(u, t, m)' = {}
             PROVE  Listed(u, t, m)
  BY <1>1 DEF DoneInv, Listed, Data
<1>2. m \in Nat \ {0} /\ 0 \in Full(sent[t][m])
  BY <1>1, SizeOf
<1>3. OnTheWay(u, t, m) = {} /\ Given(u, t, m) = Full(sent[t][m])
  BY <1>2, DataEventWhole
<1>4. <<t, m, 0>> \in got[u]
  BY <1>1, <1>2, <1>3, GivenIs
<1>5. Clean(u, t, m)
  <2> SUFFICES ASSUME NEW k \in 1..(m - 1), SameId(k, m) PROVE Whole(u, t, k)
    BY DEF Clean
  <2>1. Whole(u, t, k)' /\ k \in Nat /\ k < m
    BY DEF Clean
  <2>2. ~(t = s /\ k = n)
    <3> SUFFICES ASSUME t = s, k = n PROVE FALSE
      OBVIOUS
    <3>1. Earlier(m, 0, n, c)
      BY <1>2, <1>4 DEF NextChunk
    <3> QED BY <1>2, <2>1, <3>1 DEF Earlier
  <2>3. Given(u, t, k)' = Given(u, t, k)
    BY <2>1, <2>2 DEF Gives
  <2> QED BY <1>1, <2>1, <2>3 DEF Whole
<1> QED BY <1>3, <1>5 DEF DoneInv

\* No message in a list comes again.
LEMMA DataEventLists ==
  ASSUME QueuesInv, ListInv, InOrder, NEW s \in Users, NEW n \in Nat, NEW c \in Nat,
         NextChunk(s, n, c), DataEventMoves(s, n, c)
  PROVE  ListInv' /\ InOrder'
<1>1. sent' = sent /\ list' = list /\ network' = network /\ StateInv
  BY DEF DataEventMoves, QueuesInv
<1>2. InOrder'
  BY <1>1 DEF InOrder
<1>3. ASSUME NEW u \in Users, NEW t \in Users, NEW m \in Nat, Shown(u, t, m)
      PROVE  Shown(u, t, m)'
  <2>1. ASSUME Past(u, t, m), NEW i \in 1..Len(outbox'[t]) PROVE m < outbox'[t][i].n
    <3>1. PICK j \in 1..Len(outbox[t]) : outbox'[t][i] = outbox[t][j]
      BY DataEventOutbox
    <3> QED BY <2>1, <3>1 DEF Past
  <2>2. ASSUME Past(u, t, m), NEW i \in 1..Len(Queue(t, u)'), Queue(t, u)'[i].senderId = t
        PROVE  m < Queue(t, u)'[i].n
    <3> DEFINE x == ChunkOf(s, n, sent[s][n], c)
    <3>1. <<Via(t), u>> \in Links /\ Queue(t, u)' = channel'[<<Via(t), u>>]
      BY <1>1, LinkOf DEF Queue, Via
    <3>2. CASE /\ i \in 1..Len(channel[<<Via(t), u>>])
               /\ channel'[<<Via(t), u>>][i] = channel[<<Via(t), u>>][i]
      <4>1. i \in 1..Len(Queue(t, u)) /\ Queue(t, u)'[i] = Queue(t, u)[i]
        BY <3>1, <3>2 DEF Queue
      <4> QED BY <2>2, <4>1 DEF Past
    <3>3. CASE channel'[<<Via(t), u>>][i] = x
      <4>1. Queue(t, u)'[i].senderId = s /\ Queue(t, u)'[i].n = n
        BY <3>1, <3>3 DEF ChunkOf
      <4>2. 1 \in 1..Len(outbox[s]) /\ outbox[s][1].n = n
        BY DEF NextChunk
      <4> QED BY <2>2, <4>1, <4>2 DEF Past
    <3> QED BY <1>1, <3>1, <3>2, <3>3, DataEventChannel
  <2>3. Past(u, t, m) => Past(u, t, m)'
    BY <2>1, <2>2 DEF Past
  <2> QED BY <1>1, <1>3, <2>3 DEF Shown
<1>4. ListInv'
  <2>1. \A t, m : Data(t, m)' = Data(t, m)
    BY <1>1 DEF Data
  <2> QED BY <1>1, <1>3, <2>1 DEF ListInv
<1> QED BY <1>2, <1>4

\* DataEvent keeps the invariant.
LEMMA DataEventStep ==
  ASSUME ChatInv, NEW s \in Users, DataEvent(s)
  PROVE  ChatInv'
<1>0. QueuesInv /\ ContainerInv /\ DoneInv /\ ListInv /\ InOrder
  BY DEF ChatInv
<1>1. PICK n \in Nat, c \in Nat : NextChunk(s, n, c)
  BY <1>0, DataEventChunk
<1>2. DataEventMoves(s, n, c)
  BY <1>1, DataEventChanges
<1>3. Gives(s, n, c)
  BY <1>0, <1>1, <1>2, DataEventGives
<1>4. QueuesInv'
  BY <1>0, <1>1, <1>2, <1>3, DataEventQueues
<1>5. ContainerInv'
  BY <1>0, <1>2, <1>3, DataEventContainers
<1>6. DoneInv'
  BY <1>0, <1>1, <1>2, <1>3, DataEventDone
<1>7. ListInv' /\ InOrder'
  BY <1>0, <1>1, <1>2, DataEventLists
<1> QED BY <1>4, <1>5, <1>6, <1>7 DEF ChatInv

-----------------------------------------------------------------------------
(* Connect, Close and SendFile *)

\* The connection through which u hears t is the one that closes.
Cut(pair, u, t) == {u, Via(t)} = pair

\* What is left of the connections when one closes.
CloseCuts(pair) ==
  \A u, t \in Users :
    /\ Cut(pair, u, t) =>
         /\ Queue(t, u)' = <<>> /\ containers'[<<Via(t), u>>] = EmptyMap
         /\ \A m \in Nat : /\ Given(u, t, m)' = {} /\ OnTheWay(u, t, m)' = {}
                           /\ Handled(u, t, m)' = {}
    /\ ~Cut(pair, u, t) =>
         /\ Queue(t, u)' = Queue(t, u)
         /\ containers'[<<Via(t), u>>] = containers[<<Via(t), u>>]
         /\ \A m \in Nat : /\ Given(u, t, m)' = Given(u, t, m)
                           /\ OnTheWay(u, t, m)' = OnTheWay(u, t, m)
                           /\ Handled(u, t, m)' = Handled(u, t, m)

\* The variables that Close changes.
CloseMoves(pair) ==
  /\ open' = open \ {pair}
  /\ channel' = [l \in Links |-> IF {l[1], l[2]} = pair THEN <<>> ELSE channel[l]]
  /\ containers' = [l \in Links |-> IF {l[1], l[2]} = pair THEN EmptyMap ELSE containers[l]]
  /\ got' = [r \in Users |-> {x \in got[r] : {r, Via(x[1])} # pair}]
  /\ network' = network /\ counter' = counter /\ reading' = reading
  /\ outbox' = outbox /\ list' = list /\ sent' = sent

\* Of what goes over the connection nothing is left, the rest stays.
LEMMA CloseMakesCuts ==
  ASSUME StateInv, NEW pair, CloseMoves(pair)
  PROVE  CloseCuts(pair)
<1>1. network' = network
  BY DEF CloseMoves
<1> SUFFICES ASSUME NEW u \in Users, NEW t \in Users
             PROVE  /\ Cut(pair, u, t) =>
                         /\ Queue(t, u)' = <<>> /\ containers'[<<Via(t), u>>] = EmptyMap
                         /\ \A m \in Nat : /\ Given(u, t, m)' = {} /\ OnTheWay(u, t, m)' = {}
                                           /\ Handled(u, t, m)' = {}
                    /\ ~Cut(pair, u, t) =>
                         /\ Queue(t, u)' = Queue(t, u)
                         /\ containers'[<<Via(t), u>>] = containers[<<Via(t), u>>]
                         /\ \A m \in Nat : /\ Given(u, t, m)' = Given(u, t, m)
                                           /\ OnTheWay(u, t, m)' = OnTheWay(u, t, m)
                                           /\ Handled(u, t, m)' = Handled(u, t, m)
  BY DEF CloseCuts
<1> DEFINE l == <<Via(t), u>>
<1>2. /\ l \in Links /\ l[1] = Via(t) /\ l[2] = u
      /\ Queue(t, u)' = channel'[l] /\ Queue(t, u) = channel[l]
  BY <1>1, LinkOf DEF Queue, Via
<1>3. {l[1], l[2]} = pair <=> Cut(pair, u, t)
  BY <1>2 DEF Cut
<1> HIDE DEF l
<1>4. /\ channel'[l] = IF Cut(pair, u, t) THEN <<>> ELSE channel[l]
      /\ containers'[l] = IF Cut(pair, u, t) THEN EmptyMap ELSE containers[l]
  BY <1>2, <1>3 DEF CloseMoves
<1>5. \A m : OnTheWay(u, t, m)' = Numbers(channel'[l], t, m)
  BY <1>2 DEF OnTheWay, Numbers
<1>6. \A m : Numbers(<<>>, t, m) = {}
  BY DEF Numbers
<1>7. \A m : OnTheWay(u, t, m)' = IF Cut(pair, u, t) THEN {} ELSE OnTheWay(u, t, m)
  BY <1>2, <1>4, <1>5, <1>6 DEF OnTheWay
<1>8. ASSUME NEW m \in Nat
      PROVE  Given(u, t, m)' = IF Cut(pair, u, t) THEN {} ELSE Given(u, t, m)
  <2> DEFINE Of(x) == x[1] = t /\ x[2] = m
  <2>1. got'[u] = {x \in got[u] : {u, Via(x[1])} # pair}
    BY DEF CloseMoves
  <2>2. {x \in got'[u] : Of(x)} = IF Cut(pair, u, t) THEN {} ELSE {x \in got[u] : Of(x)}
    BY <2>1 DEF Cut
  <2> HIDE DEF Of
  <2>3. /\ Given(u, t, m)' = {x[3] : x \in {y \in got'[u] : Of(y)}}
        /\ Given(u, t, m) = {x[3] : x \in {y \in got[u] : Of(y)}}
    BY DEF Given, Of
  <2> QED BY <2>2, <2>3
<1>9. \A m \in Nat : Handled(u, t, m)' = IF Cut(pair, u, t) THEN {} ELSE Handled(u, t, m)
  BY <1>7, <1>8 DEF Handled
<1> QED BY <1>2, <1>4, <1>7, <1>8, <1>9 DEF l

\* The queues stay in order.
LEMMA CloseQueues ==
  ASSUME QueuesInv, NEW pair, CloseMoves(pair), CloseCuts(pair)
  PROVE  QueuesInv'
<1>0. StateInv /\ GotInv /\ OutboxInv /\ ChannelInv /\ HandledInv
  BY DEF QueuesInv
<1>1. /\ network' = network /\ sent' = sent /\ outbox' = outbox
      /\ \A r \in Users : got'[r] \subseteq got[r]
  BY DEF CloseMoves
<1>2. StateInv'
  <2>1. channel' \in [Links -> Seq(Chunks)]
    BY <1>0 DEF StateInv, CloseMoves
  <2>2. got' \in [Users -> SUBSET (Users \X Nat \X Nat)]
    BY <1>0 DEF StateInv, CloseMoves
  <2>3. IsMap(EmptyMap, Keys, Containers)
    BY DEF IsMap, EmptyMap
  <2>4. /\ containers' = [l \in Links |-> containers'[l]]
        /\ \A l \in Links : IsMap(containers'[l], Keys, Containers)
    <3>1. \A l \in Links : IsMap(containers[l], Keys, Containers)
      BY <1>0 DEF StateInv
    <3>2. containers' = [l \in Links |-> IF {l[1], l[2]} = pair THEN EmptyMap ELSE containers[l]]
      BY DEF CloseMoves
    <3> QED BY <2>3, <3>1, <3>2
  <2>5. open' \subseteq Possible'
    BY <1>0 DEF StateInv, CloseMoves, Possible
  <2> QED BY <1>0, <2>1, <2>2, <2>4, <2>5 DEF StateInv, CloseMoves
<1>3. GotInv'
  BY <1>0, <1>1 DEF GotInv
<1>4. OutboxInv'
  BY <1>0, <1>1 DEF OutboxInv
<1>5. ChannelInv'
  <2> SUFFICES ASSUME NEW l \in Links
               PROVE  /\ Sorted(channel'[l])
                      /\ \A i \in 1..Len(channel'[l]) :
                           /\ IsChunk(channel'[l][i], sent)
                           /\ Via(channel'[l][i].senderId) = l[1]
                           /\ <<channel'[l][i].senderId, channel'[l][i].n,
                                channel'[l][i].header.chunkNum>> \in got'[l[2]]
    BY <1>1 DEF ChannelInv, Via
  <2>0. l[2] \in Users
    BY DEF Links
  <2>1. CASE {l[1], l[2]} = pair
    <3>1. channel'[l] = <<>>
      BY <2>1 DEF CloseMoves
    <3>2. Sorted(<<>>)
      BY DEF Sorted
    <3> QED BY <3>1, <3>2
  <2>2. CASE {l[1], l[2]} # pair
    <3>1. channel'[l] = channel[l]
      BY <2>2 DEF CloseMoves
    <3>2. ASSUME NEW i \in 1..Len(channel[l])
          PROVE  /\ IsChunk(channel[l][i], sent)
                 /\ Via(channel[l][i].senderId) = l[1]
                 /\ <<channel[l][i].senderId, channel[l][i].n,
                      channel[l][i].header.chunkNum>> \in got'[l[2]]
      <4> DEFINE x == channel[l][i]
                 y == <<x.senderId, x.n, x.header.chunkNum>>
      <4>1. IsChunk(x, sent) /\ Via(x.senderId) = l[1] /\ y \in got[l[2]]
        BY <1>0 DEF ChannelInv
      <4>2. y[1] = x.senderId
        OBVIOUS
      <4> HIDE DEF x, y
      <4>3. {l[2], Via(y[1])} # pair
        BY <2>2, <4>1, <4>2
      <4>4. y \in got'[l[2]]
        BY <2>0, <4>1, <4>3 DEF CloseMoves
      <4> QED BY <4>1, <4>4 DEF x, y
    <3> QED BY <1>0, <3>1, <3>2 DEF ChannelInv
  <2> QED BY <2>1, <2>2
<1>6. HandledInv'
  <2> SUFFICES ASSUME NEW u \in Users, NEW t \in Users, NEW m \in Nat,
                      NEW b \in Handled(u, t, m)', NEW i \in 1..Len(Queue(t, u)'),
                      Queue(t, u)'[i].senderId = t
               PROVE  Earlier(m, b, Queue(t, u)'[i].n, Queue(t, u)'[i].header.chunkNum)
    BY DEF HandledInv
  <2>1. ~Cut(pair, u, t)
    BY DEF CloseCuts
  <2>2. Queue(t, u)' = Queue(t, u) /\ b \in Handled(u, t, m)
    BY <2>1 DEF CloseCuts
  <2> QED BY <1>0, <2>2 DEF HandledInv
<1> QED BY <1>2, <1>3, <1>4, <1>5, <1>6 DEF QueuesInv

\* The decoder of the connection is gone, the others hold what they held.
LEMMA CloseContainers ==
  ASSUME ContainerInv, NEW pair, CloseMoves(pair), CloseCuts(pair)
  PROVE  ContainerInv'
<1>1. network' = network /\ sent' = sent
  BY DEF CloseMoves
<1> SUFFICES ASSUME NEW u \in Users, NEW t \in Users, NEW m \in Nat \ {0},
                    Ready(u, t, m)', Latest(u, t, m)'
             PROVE  Holds(containers'[<<Via(t), u>>], t, m, sent[t][m], Handled(u, t, m)')
  BY <1>1 DEF ContainerInv, Via
<1>2. CASE Cut(pair, u, t)
  <2>1. containers'[<<Via(t), u>>] = EmptyMap /\ Handled(u, t, m)' = {}
    BY <1>2 DEF CloseCuts
  <2>2. DOMAIN EmptyMap = {}
    BY DEF EmptyMap
  <2> QED BY <2>1, <2>2 DEF Holds
<1>3. CASE ~Cut(pair, u, t)
  <2>1. /\ containers'[<<Via(t), u>>] = containers[<<Via(t), u>>]
        /\ \A k \in Nat : /\ Given(u, t, k)' = Given(u, t, k)
                          /\ OnTheWay(u, t, k)' = OnTheWay(u, t, k)
                          /\ Handled(u, t, k)' = Handled(u, t, k)
    BY <1>3 DEF CloseCuts
  <2>2. \A k \in Nat : Whole(u, t, k)' <=> Whole(u, t, k)
    BY <1>1, <2>1 DEF Whole
  <2>3. Ready(u, t, m)
    BY <2>1, <2>2 DEF Ready
  <2>4. Latest(u, t, m)
    BY <2>1 DEF Latest
  <2> QED BY <2>1, <2>3, <2>4 DEF ContainerInv
<1> QED BY <1>2, <1>3

\* The lists stay faithful and in order.
LEMMA CloseLists ==
  ASSUME ChatInv, NEW pair, CloseMoves(pair), CloseCuts(pair)
  PROVE  DoneInv' /\ ListInv' /\ InOrder'
<1>0. StateInv /\ DoneInv /\ ListInv /\ InOrder
  BY DEF ChatInv, QueuesInv
<1>1. list' = list /\ sent' = sent /\ outbox' = outbox
  BY DEF CloseMoves
<1>2. InOrder'
  BY <1>0, <1>1 DEF InOrder
<1>3. ListInv'
  <2>1. ASSUME NEW u \in Users, NEW t \in Users, NEW m \in Nat, Past(u, t, m)
        PROVE  Past(u, t, m)'
    <3>1. Queue(t, u)' = <<>> \/ Queue(t, u)' = Queue(t, u)
      BY DEF CloseCuts
    <3> QED BY <1>1, <2>1, <3>1 DEF Past
  <2>2. \A u, t \in Users : \A m \in Nat : Shown(u, t, m) => Shown(u, t, m)'
    BY <1>1, <2>1 DEF Shown
  <2>3. \A t, m : Data(t, m)' = Data(t, m)
    BY <1>1 DEF Data
  <2> QED BY <1>0, <1>1, <2>2, <2>3 DEF ListInv
<1>4. DoneInv'
  <2> SUFFICES ASSUME NEW u \in Users, NEW t \in Users, NEW m \in 1..Len(sent[t]),
                      Clean(u, t, m)', Given(u, t, m)' = Full(sent[t][m]),
                      OnTheWay(u, t, m)' = {}
               PROVE  Listed(u, t, m)
    BY <1>1 DEF DoneInv, Listed, Data
  <2>1. m \in Nat \ {0} /\ 0 \in Full(sent[t][m])
    BY <1>0, SizeOf
  <2>2. ~Cut(pair, u, t)
    <3>1. Cut(pair, u, t) => Given(u, t, m)' = {}
      BY <2>1 DEF CloseCuts
    <3> QED BY <2>1, <3>1
  <2>3. \A k \in Nat : /\ Given(u, t, k)' = Given(u, t, k)
                       /\ OnTheWay(u, t, k)' = OnTheWay(u, t, k)
    BY <2>2 DEF CloseCuts
  <2>4. \A k \in Nat : Whole(u, t, k)' <=> Whole(u, t, k)
    BY <1>1, <2>3 DEF Whole
  <2>5. Clean(u, t, m)
    BY <2>4 DEF Clean
  <2> QED BY <1>0, <2>1, <2>3, <2>5 DEF DoneInv
<1> QED BY <1>2, <1>3, <1>4

\* Close keeps the invariant.
LEMMA CloseStep ==
  ASSUME ChatInv, NEW pair, Close(pair)
  PROVE  ChatInv'
<1>1. CloseMoves(pair)
  BY DEF Close, CloseMoves
<1>2. CloseCuts(pair)
  BY <1>1, CloseMakesCuts DEF ChatInv, QueuesInv
<1>3. QueuesInv'
  BY <1>1, <1>2, CloseQueues DEF ChatInv
<1>4. ContainerInv'
  BY <1>1, <1>2, CloseContainers DEF ChatInv
<1>5. DoneInv' /\ ListInv' /\ InOrder'
  BY <1>1, <1>2, CloseLists
<1> QED BY <1>3, <1>4, <1>5 DEF ChatInv

\* A step that changes only what is being read, or which connections are open.
LEMMA OtherStep ==
  ASSUME ChatInv, SendKeeps, counter' = counter, outbox' = outbox, list' = list, sent' = sent,
         reading' \in [Users -> SUBSET FileSizes], open' \subseteq Possible
  PROVE  ChatInv'
<1>1. network' = network /\ channel' = channel /\ containers' = containers /\ got' = got
  BY DEF SendKeeps
<1>2. \A u, t : /\ Via(t)' = Via(t) /\ Queue(t, u)' = Queue(t, u)
                /\ \A m : /\ Given(u, t, m)' = Given(u, t, m)
                          /\ OnTheWay(u, t, m)' = OnTheWay(u, t, m)
                          /\ Handled(u, t, m)' = Handled(u, t, m)
                          /\ Whole(u, t, m)' <=> Whole(u, t, m)
  BY SendSame DEF Whole
<1>3. StateInv'
  BY <1>1 DEF ChatInv, QueuesInv, StateInv, Possible
<1>4. GotInv' /\ OutboxInv'
  BY <1>1 DEF ChatInv, QueuesInv, GotInv, OutboxInv
<1>5. ChannelInv'
  BY <1>1 DEF ChatInv, QueuesInv, ChannelInv, Via
<1>6. HandledInv'
  BY <1>2 DEF ChatInv, QueuesInv, HandledInv
<1>7. ContainerInv'
  <2> SUFFICES ASSUME NEW u \in Users, NEW t \in Users, NEW m \in Nat \ {0},
                      Ready(u, t, m)', Latest(u, t, m)'
               PROVE  Holds(containers[<<Via(t), u>>], t, m, sent[t][m], Handled(u, t, m))
    BY <1>1, <1>2 DEF ContainerInv
  <2>1. Ready(u, t, m)
    BY <1>2 DEF Ready
  <2>2. Latest(u, t, m)
    BY <1>2 DEF Latest
  <2> QED BY <2>1, <2>2 DEF ChatInv, ContainerInv
<1>8. InOrder'
  BY DEF ChatInv, InOrder
<1>9. \A t, m : Data(t, m)' = Data(t, m)
  BY DEF Data
<1>10. ListInv'
  <2>1. \A u, t : \A m : Shown(u, t, m) => Shown(u, t, m)'
    BY <1>2 DEF Shown, Past
  <2> QED BY <1>9, <2>1 DEF ChatInv, ListInv
<1>11. DoneInv'
  <2> SUFFICES ASSUME NEW u \in Users, NEW t \in Users, NEW m \in 1..Len(sent[t]),
                      Clean(u, t, m)', Given(u, t, m) = Full(sent[t][m]),
                      OnTheWay(u, t, m) = {}
               PROVE  Listed(u, t, m)
    BY <1>2, <1>9 DEF DoneInv, Listed
  <2>1. Clean(u, t, m)
    BY <1>2 DEF Clean
  <2> QED BY <2>1 DEF ChatInv, DoneInv
<1> QED BY <1>3, <1>4, <1>5, <1>6, <1>7, <1>8, <1>10, <1>11 DEF ChatInv, QueuesInv

-----------------------------------------------------------------------------
(* The invariant holds. *)

\* The invariant holds at first.
LEMMA ChatInvInit == Init => ChatInv
<1> SUFFICES ASSUME Init PROVE ChatInv
  OBVIOUS
<1>1. \A r, s \in Users : \A n : /\ Queue(s, r) = <<>> /\ Given(r, s, n) = {}
                                 /\ OnTheWay(r, s, n) = {} /\ Handled(r, s, n) = {}
  <2>1. \A r, s \in Users : <<Via(s), r>> \in Links
    BY DEF Init, Links, Ends, Via
  <2>2. \A r, s \in Users : Queue(s, r) = <<>>
    BY <2>1 DEF Init, Queue
  <2>3. \A r, s \in Users : \A n : Given(r, s, n) = {}
    BY DEF Init, Given
  <2>4. \A r, s \in Users : \A n : OnTheWay(r, s, n) = {}
    BY <2>2 DEF OnTheWay, Numbers
  <2> QED BY <2>2, <2>3, <2>4 DEF Handled
<1>2. StateInv
  <2>1. IsMap(EmptyMap, Keys, Containers)
    BY DEF IsMap, EmptyMap
  <2> QED BY <2>1 DEF StateInv, Init
<1>3. GotInv
  BY DEF GotInv, Init
<1>4. OutboxInv
  BY DEF OutboxInv, Init, Sorted
<1>5. ChannelInv
  BY DEF ChannelInv, Init, Sorted
<1>6. HandledInv
  BY <1>1 DEF HandledInv
<1>7. ContainerInv
  <2> SUFFICES ASSUME NEW r \in Users, NEW s \in Users, NEW n \in Nat \ {0}
               PROVE  Holds(containers[<<Via(s), r>>], s, n, sent[s][n], Handled(r, s, n))
    BY DEF ContainerInv
  <2>1. <<Via(s), r>> \in Links
    BY <1>2, LinkOf
  <2>2. containers[<<Via(s), r>>] = EmptyMap /\ DOMAIN EmptyMap = {}
    BY <2>1 DEF Init, EmptyMap
  <2> QED BY <1>1, <2>2 DEF Holds
<1>8. DoneInv
  BY DEF DoneInv, Init
<1>9. ListInv /\ InOrder
  BY DEF ListInv, InOrder, Init
<1> QED BY <1>2, <1>3, <1>4, <1>5, <1>6, <1>7, <1>8, <1>9 DEF ChatInv, QueuesInv

\* Every step keeps the invariant.
LEMMA ChatInvNext == ChatInv /\ [Next]_vars => ChatInv'
<1> SUFFICES ASSUME ChatInv, [Next]_vars PROVE ChatInv'
  OBVIOUS
<1>0. /\ reading \in [Users -> SUBSET FileSizes] /\ open \subseteq Possible
      /\ TextSizes \subseteq Sizes /\ FileSizes \subseteq Sizes
  BY DEF ChatInv, QueuesInv, StateInv, Sizes
<1>1. ASSUME NEW s \in Users, NEW size \in TextSizes, SendText(s, size) PROVE ChatInv'
  <2>1. SendMessage(s, size) /\ reading' = reading
    BY <1>1 DEF SendText
  <2> QED BY <1>0, <2>1, SendStep
<1>2. ASSUME NEW s \in Users, NEW size \in FileSizes, SendFile(s, size) PROVE ChatInv'
  <2>1. /\ SendKeeps /\ counter' = counter /\ outbox' = outbox /\ list' = list /\ sent' = sent
        /\ open' = open /\ reading' = [reading EXCEPT ![s] = @ \cup {size}]
    BY <1>2 DEF SendFile, SendKeeps
  <2>2. reading' \in [Users -> SUBSET FileSizes]
    BY <1>0, <2>1
  <2> QED BY <1>0, <2>1, <2>2, OtherStep
<1>3. ASSUME NEW s \in Users, NEW size \in FileSizes, FileRead(s, size) PROVE ChatInv'
  <2>1. SendMessage(s, size) /\ reading' = [reading EXCEPT ![s] = @ \ {size}]
    BY <1>3 DEF FileRead
  <2>2. reading' \in [Users -> SUBSET FileSizes]
    BY <1>0, <2>1
  <2> QED BY <1>0, <2>1, <2>2, SendStep
<1>4. ASSUME NEW s \in Users, DataEvent(s) PROVE ChatInv'
  BY <1>4, DataEventStep
<1>5. ASSUME NEW p \in Ends, NEW r \in Users, HandleData(p, r) PROVE ChatInv'
  BY <1>5, HandleDataStep
<1>6. ASSUME NEW pair \in Pairs, Connect(pair) PROVE ChatInv'
  <2>1. /\ SendKeeps /\ counter' = counter /\ outbox' = outbox /\ list' = list /\ sent' = sent
        /\ reading' = reading /\ open' \subseteq Possible
    BY <1>0, <1>6 DEF Connect, SendKeeps
  <2> QED BY <1>0, <2>1, OtherStep
<1>7. ASSUME NEW pair \in Pairs, Close(pair) PROVE ChatInv'
  BY <1>7, CloseStep
<1>8. CASE UNCHANGED vars
  <2>1. /\ SendKeeps /\ counter' = counter /\ outbox' = outbox /\ list' = list /\ sent' = sent
        /\ reading' = reading /\ open' = open
    BY <1>8 DEF vars, SendKeeps
  <2> QED BY <1>0, <2>1, OtherStep
<1> QED BY <1>1, <1>2, <1>3, <1>4, <1>5, <1>6, <1>7, <1>8 DEF Next

(***************************************************************************)
(* In every run of the chat, for any users, sizes and connections, chunks  *)
(* travel in the order in which the worker made them (encoder.on('data')   *)
(* and ordered data channels), and a decoder holds exactly the chunks that *)
(* handleData gave it, unless a message with the same ID was cut short.    *)
(***************************************************************************)
THEOREM DecodersHoldWhatArrived == Spec => []ChatInv
BY ChatInvInit, ChatInvNext, PTL DEF Spec

-----------------------------------------------------------------------------
(* What the invariant says of the lists. *)

\* The invariant implies the types.
LEMMA ChatTypes == ChatInv => TypeOK
<1> SUFFICES ASSUME ChatInv PROVE TypeOK
  OBVIOUS
<1>0. StateInv /\ OutboxInv
  BY DEF ChatInv, QueuesInv
<1>1. network \in {"mesh", "sfu"} /\ open \subseteq Possible
  BY <1>0 DEF StateInv
<1>2. ASSUME NEW u \in Users
      PROVE  counter[u] \in 0..(MaxMessageId - 1) /\ reading[u] \subseteq FileSizes
  <2>1. /\ Len(sent[u]) \in Nat /\ reading[u] \subseteq FileSizes
        /\ counter[u] = IF Len(sent[u]) = 0 THEN 0 ELSE IdOf(Len(sent[u]))
    BY <1>0 DEF StateInv
  <2>2. MaxMessageId \in Nat /\ MaxMessageId > 1
    BY ChatAssumption
  <2>3. Len(sent[u]) # 0 => IdOf(Len(sent[u])) \in 1..(MaxMessageId - 1)
    BY <2>1, MessageIds
  <2> QED BY <2>1, <2>2, <2>3
<1>3. ASSUME NEW u \in Users, NEW i \in 1..Len(outbox[u])
      PROVE  /\ outbox[u][i].header.messageId \in 1..(MaxMessageId - 1)
             /\ outbox[u][i].header.chunkNum < outbox[u][i].header.totalChunks
             /\ Len(outbox[u][i].data) \in 1..DataBytesInChunk
  <2> DEFINE x == outbox[u][i]
             n == x.n
             c == x.header.chunkNum
             size == sent[u][n]
  <2>1. x.senderId = u /\ IsChunk(x, sent)
    BY <1>0 DEF OutboxInv
  <2> HIDE DEF x
  <2>2. n \in 1..Len(sent[u]) /\ c \in Full(size) /\ x = ChunkOf(u, n, size, c)
    BY <2>1 DEF IsChunk
  <2> HIDE DEF n, c
  <2>3. size \in Sizes /\ n \in Nat \ {0}
    BY <1>0, <2>2, SizeOf
  <2> HIDE DEF size
  <2>4. /\ x.header.messageId = IdOf(n) /\ x.header.chunkNum = c
        /\ x.header.totalChunks = TotalChunks(size)
    BY <2>2 DEF ChunkOf
  <2>5. IdOf(n) \in 1..(MaxMessageId - 1)
    BY <2>3, MessageIds
  <2>6. c < TotalChunks(size) /\ ChunkLength(size, c) \in 1..D
    BY <2>2, <2>3, ChunkPlace
  <2>7. Len(x.data) = ChunkLength(size, c)
    BY <2>2, <2>3, ChunkOfIsChunk
  <2> QED BY <2>4, <2>5, <2>6, <2>7 DEF x, D
<1>4. ASSUME NEW u \in Users, NEW i \in 1..Len(list[u])
      PROVE  list[u][i].user \in Users /\ IsData(list[u][i].data)
  <2>1. list[u] \in Seq(Entries)
    BY <1>0 DEF StateInv
  <2>2. list[u][i] \in Entries
    BY <2>1
  <2> QED BY <2>2 DEF Entries, Datas, IsData
<1>5. ASSUME NEW l \in Links, NEW key \in DOMAIN containers[l]
      PROVE  key \in Users \X (1..(MaxMessageId - 1)) /\ IsData(containers[l][key].data)
  <2>1. IsMap(containers[l], Keys, Containers)
    BY <1>0 DEF StateInv
  <2>2. key \in Keys /\ containers[l][key] \in Containers
    BY <2>1 DEF IsMap
  <2> QED BY <2>2 DEF Keys, Containers, Datas, IsData
<1> QED BY <1>1, <1>2, <1>3, <1>4, <1>5 DEF TypeOK

\* The invariant implies that what is in a list was sent.
LEMMA ChatIntact == ChatInv => Intact
<1> SUFFICES ASSUME ChatInv, NEW r \in Users, NEW i \in 1..Len(list[r]), ~list[r][i].stale
             PROVE  \E n \in 1..Len(sent[list[r][i].user]) :
                      list[r][i].data = Data(list[r][i].user, n)
  BY DEF Intact
<1>1. list[r][i].user \in Users
  BY ChatTypes DEF TypeOK
<1>2. PICK n \in Nat : Shown(r, list[r][i].user, n) /\ list[r][i].data = Data(list[r][i].user, n)
  BY <1>1 DEF ChatInv, ListInv
<1> QED BY <1>2 DEF Shown

(***************************************************************************)
(* What handleData and MESSAGE_SEND put into the list of a user are, of    *)
(* each sender, messages that were sent, byte for byte, in order and none  *)
(* twice, for any number of users and connections, any sizes that fit the  *)
(* 16 bit chunk numbers, and message IDs that wrap around; the exception   *)
(* is a message whose ID still has the remains of another in the decoder.  *)
(***************************************************************************)
THEOREM ListsStayFaithful == Spec => []ListsAreFaithful
<1>1. ChatInv => ListsAreFaithful
  BY ChatTypes, ChatIntact DEF ListsAreFaithful, ChatInv
<1> QED BY <1>1, DecodersHoldWhatArrived, PTL

(***************************************************************************)
(* A message all chunks of which were sent to a user and handled there by  *)
(* handleData is in the list of that user: the decoder's count of received *)
(* chunks becomes the total exactly when the message is whole, unless the  *)
(* remains of another message with its ID were in the way.                 *)
(***************************************************************************)
THEOREM NoMessageLost == Spec => []NothingLost
<1>1. ASSUME ChatInv, NEW r \in Users, NEW s \in Users, NEW n \in 1..Len(sent[s]),
             \A c \in 0..(TotalChunks(sent[s][n]) - 1) : <<s, n, c>> \in got[r],
             \A i \in 1..Len(channel[<<Via(s), r>>]) :
               <<channel[<<Via(s), r>>][i].senderId, channel[<<Via(s), r>>][i].n>> # <<s, n>>,
             ~Listed(r, s, n)
      PROVE  Partial(r, s, IdOf(n))
  <2>0. StateInv /\ GotInv /\ OutboxInv /\ DoneInv
    BY <1>1 DEF ChatInv, QueuesInv
  <2>1. n \in Nat \ {0} /\ 0 \in Full(sent[s][n]) /\ sent[s][n] \in Sizes
    BY <2>0, SizeOf
  <2>2. Given(r, s, n) = Full(sent[s][n])
    <3>1. \A c \in Full(sent[s][n]) : c \in Nat /\ <<s, n, c>> \in got[r]
      BY <1>1, <2>1, ChunkPlace DEF Full
    <3>2. Full(sent[s][n]) \subseteq Given(r, s, n)
      BY <2>0, <2>1, <3>1, GivenIs
    <3>3. Given(r, s, n) \subseteq Full(sent[s][n])
      BY <2>0, <2>1, GivenIsSent
    <3> QED BY <3>2, <3>3
  <2>3. OnTheWay(r, s, n) = {}
    <3> SUFFICES ASSUME NEW c \in OnTheWay(r, s, n) PROVE FALSE
      OBVIOUS
    <3>1. PICK i \in 1..Len(Queue(s, r)) : Queue(s, r)[i].senderId = s /\ Queue(s, r)[i].n = n
      BY NumbersIs DEF OnTheWay
    <3> QED BY <1>1, <3>1 DEF Queue
  <2>4. ~Clean(r, s, n)
    BY <1>1, <2>0, <2>2, <2>3 DEF DoneInv
  <2>5. PICK m \in 1..(n - 1) : SameId(m, n) /\ ~Whole(r, s, m)
    BY <2>4 DEF Clean
  <2>6. Len(sent[s]) \in Nat
    BY <2>0 DEF StateInv
  <2>7. m \in 1..Len(sent[s]) /\ IdOf(m) = IdOf(n) /\ m < n /\ m \in Nat
    BY <2>1, <2>5, <2>6 DEF SameId
  <2>8. ~\E i \in 1..Len(outbox[s]) : outbox[s][i].n = m
    <3> SUFFICES ASSUME NEW i \in 1..Len(outbox[s]), outbox[s][i].n = m PROVE FALSE
      OBVIOUS
    <3>1. <<s, n, 0>> \in got[r]
      BY <1>1, <2>1 DEF Full
    <3>2. Earlier(n, 0, m, outbox[s][i].header.chunkNum)
      BY <2>0, <2>1, <3>1 DEF OutboxInv
    <3> QED BY <2>1, <2>7, <3>2 DEF Earlier
  <2>9. Given(r, s, m) \notin {{}, 0..(TotalChunks(sent[s][m]) - 1)}
    BY <2>5 DEF Whole, Full
  <2> QED BY <2>7, <2>8, <2>9 DEF Partial, Given
<1>2. ChatInv => NothingLost
  BY <1>1 DEF NothingLost, Listed
<1> QED BY <1>2, DecodersHoldWhatArrived, PTL
=============================================================================
