----------------------- MODULE EncryptionWorkerProofs -----------------------
(***************************************************************************)
(* Proofs about EncryptionWorker for any passwords, users, mids and        *)
(* senders, however many messages are posted: the key of a decryption      *)
(* context fits it, received frames are decrypted once the keys are there, *)
(* and frames are protected while a password is set.                       *)
(***************************************************************************)
EXTENDS EncryptionWorker, TLAPS

AllContexts == [user : Users, password : AllPasswords,
                key : {NoKey} \cup (Passwords \X Users)]
AllTasks == [mid : Mids, key : Passwords \X Users, current : BOOLEAN]

TaskOf(mid, c) == [mid |-> mid, key |-> Key(c.password, c.user), current |-> TRUE]

(***************************************************************************)
(* Contexts and tasks that belong together.  A context has the key that    *)
(* fits it, or no key and a task that creates it; a task that is not late  *)
(* creates the key of the context that there is.                           *)
(***************************************************************************)
ContextFits(mid, c, tasks) ==
  /\ c.key # NoKey => c.key = Key(c.password, c.user)
  /\ c.password = NoPassword => c.key = NoKey
  /\ c.password # NoPassword => c.key # NoKey \/ TaskOf(mid, c) \in tasks

TaskFits(t, contexts) ==
  t.current => /\ t.mid \in DOMAIN contexts
               /\ t.key = Key(contexts[t.mid].password, contexts[t.mid].user)

Matched(contexts, tasks) ==
  /\ IsMap(contexts, Mids, AllContexts)
  /\ tasks \subseteq AllTasks
  /\ \A mid \in DOMAIN contexts : ContextFits(mid, contexts[mid], tasks)
  /\ \A t \in tasks : TaskFits(t, contexts)

PlainTypes ==
  /\ password \in AllPasswords
  /\ encryptContext \in [password : AllPasswords, key : AllPasswords]
  /\ encryptTasks \in [Passwords -> Nat]
  /\ \A p \in Passwords : encryptTasks[p] <= messages
  /\ IsMap(metadata, Mids, Users)
  /\ senders \in [Senders -> {"new", "piped", "bypassed"}]
  /\ receivers \subseteq Mids
  /\ messages \in 0..MaxMessages

\* A key for encryption is being created.
Creating == \E p \in Passwords : encryptTasks[p] > 0

\* The decryption contexts have the password, or will get it with the next key.
ContextsFollow ==
  Creating \/ \A mid \in DOMAIN decryptContext : decryptContext[mid].password = password

(***************************************************************************)
(* The encryption context has the password unless that is empty, and its   *)
(* key is the one of its password or about to be replaced by it.           *)
(***************************************************************************)
EncryptionFollows ==
  /\ password # NoPassword => encryptContext.password = password
  /\ encryptContext.key # NoPassword =>
       /\ encryptContext.password # NoPassword
       /\ \/ encryptContext.key = encryptContext.password
          \/ encryptTasks[encryptContext.password] > 0

WorkerInv ==
  /\ PlainTypes
  /\ Matched(decryptContext, decryptTasks)
  /\ MetadataDecides
  /\ ContextsFollow
  /\ EncryptionFollows

-----------------------------------------------------------------------------
(* updateDecryptContext *)

\* What decryptContext' is: the contexts that are asked for have the user and the password
\* they are to have, and the others are those that there were.
Updated(contexts, md, user, p) ==
  /\ DOMAIN decryptContext' = DOMAIN contexts \cup DOMAIN user
  /\ \A mid \in DOMAIN user :
       /\ decryptContext'[mid].user = UserOf(md, mid, user[mid])
       /\ decryptContext'[mid].password = p
  /\ \A mid \in DOMAIN contexts \ DOMAIN user : decryptContext'[mid] = contexts[mid]

\* Contexts and tasks still belong together after updateDecryptContext.
LEMMA UpdateKeepsMatch ==
  ASSUME NEW contexts, NEW tasks, Matched(contexts, tasks),
         NEW md, IsMap(md, Mids, Users),
         NEW user, IsMap(user, Mids, Users),
         NEW p \in AllPasswords,
         UpdateDecryptContexts(contexts, tasks, md, user, p)
  PROVE  Matched(decryptContext', decryptTasks') /\ Updated(contexts, md, user, p)
<1> DEFINE New(mid) == [user |-> UserOf(md, mid, user[mid]), password |-> p, key |-> NoKey]
           Fits(mid) == /\ mid \in DOMAIN contexts
                        /\ contexts[mid].user = New(mid).user
                        /\ contexts[mid].password = p
           Replaced == {mid \in DOMAIN user : ~Fits(mid)}
           Old == {[t EXCEPT !.current = @ /\ t.mid \notin Replaced] : t \in tasks}
           Created == {[mid |-> mid, key |-> Key(p, New(mid).user), current |-> TRUE] :
                         mid \in IF NeedsKey(p) THEN Replaced ELSE {}}
<1>1. /\ decryptContext' = [mid \in DOMAIN contexts \cup Replaced |->
                              IF mid \in Replaced THEN New(mid) ELSE contexts[mid]]
      /\ decryptTasks' = Old \cup Created
  BY DEF UpdateDecryptContexts
<1>2. \A mid \in DOMAIN user : mid \in Mids /\ New(mid) \in AllContexts
  BY DEF IsMap, UserOf, Get, AllContexts
<1>3. DOMAIN decryptContext' = DOMAIN contexts \cup DOMAIN user
  BY <1>1
<1>4. \A mid \in DOMAIN user : /\ decryptContext'[mid].user = UserOf(md, mid, user[mid])
                               /\ decryptContext'[mid].password = p
  BY <1>1
<1>5. \A mid \in DOMAIN contexts \ DOMAIN user : decryptContext'[mid] = contexts[mid]
  BY <1>1
<1>6. IsMap(decryptContext', Mids, AllContexts)
  <2>1. \A mid \in DOMAIN contexts : mid \in Mids /\ contexts[mid] \in AllContexts
    BY DEF Matched, IsMap
  <2> QED BY <1>1, <1>2, <2>1 DEF IsMap
<1>7. decryptTasks' \subseteq AllTasks
  <2>1. Old \subseteq AllTasks
    BY DEF Matched, AllTasks
  <2>2. ASSUME NEW t \in Created PROVE t \in AllTasks
    <3>1. PICK mid \in Replaced :
             t = [mid |-> mid, key |-> Key(p, New(mid).user), current |-> TRUE]
      OBVIOUS
    <3>2. p \in Passwords
      BY DEF NeedsKey, AllPasswords
    <3>3. mid \in Mids /\ New(mid).user \in Users
      BY <1>2 DEF AllContexts
    <3> QED BY <3>1, <3>2, <3>3 DEF AllTasks, Key
  <2> QED BY <1>1, <2>1, <2>2
<1>8. ASSUME NEW mid \in DOMAIN decryptContext'
      PROVE  ContextFits(mid, decryptContext'[mid], decryptTasks')
  <2>1. CASE mid \in Replaced
    BY <1>1, <2>1 DEF ContextFits, TaskOf, NeedsKey, Key, NoKey
  <2>2. CASE mid \notin Replaced
    <3>1. mid \in DOMAIN contexts /\ decryptContext'[mid] = contexts[mid]
      BY <1>1, <2>2
    <3>2. ContextFits(mid, contexts[mid], tasks)
      BY <3>1 DEF Matched
    <3>3. ASSUME NEW t \in tasks, t = TaskOf(mid, contexts[mid])
          PROVE  t \in decryptTasks'
      <4>1. t.mid = mid /\ t.current = TRUE
        BY <3>3 DEF TaskOf
      <4>2. [t EXCEPT !.current = @ /\ t.mid \notin Replaced] = t
        BY <4>1, <2>2, <3>3 DEF TaskOf
      <4> QED BY <1>1, <4>2
    <3> QED BY <3>1, <3>2, <3>3 DEF ContextFits
  <2> QED BY <2>1, <2>2
<1>9. ASSUME NEW t \in decryptTasks'
      PROVE  TaskFits(t, decryptContext')
  <2>1. CASE t \in Created
    BY <1>1, <2>1 DEF TaskFits, Key
  <2>2. CASE t \in Old
    <3>1. PICK u \in tasks : t = [u EXCEPT !.current = @ /\ u.mid \notin Replaced]
      BY <2>2
    <3>2. u \in AllTasks
      BY DEF Matched
    <3>3. t.mid = u.mid /\ t.key = u.key /\ (t.current => u.current /\ u.mid \notin Replaced)
      BY <3>1, <3>2 DEF AllTasks
    <3>4. TaskFits(u, contexts)
      BY DEF Matched
    <3> QED BY <1>1, <3>3, <3>4 DEF TaskFits
  <2> QED BY <1>1, <2>1, <2>2
<1> QED BY <1>3, <1>4, <1>5, <1>6, <1>7, <1>8, <1>9 DEF Matched, Updated
-----------------------------------------------------------------------------
(* The steps of the worker *)

\* updateEncryptContext with the password that is set.
LEMMA EncryptionUpdated ==
  ASSUME PlainTypes, EncryptionFollows, NEW p \in AllPasswords, UpdateEncryptContext(p),
         password' = p,
         messages' = messages + 1 \/ (messages' = messages /\ p = password)
  PROVE  /\ encryptContext' \in [password : AllPasswords, key : AllPasswords]
         /\ encryptTasks' \in [Passwords -> Nat]
         /\ \A q \in Passwords : encryptTasks'[q] <= messages'
         /\ EncryptionFollows'
         /\ Creating \/ CreatesKey(p) => Creating'
<1>1. CASE p = encryptContext.password
  BY <1>1 DEF UpdateEncryptContext, CreatesKey, PlainTypes, EncryptionFollows, Creating
<1>2. CASE p # encryptContext.password /\ p = NoPassword
  BY <1>2 DEF UpdateEncryptContext, CreatesKey, PlainTypes, EncryptionFollows, Creating,
              AllPasswords
<1>3. CASE p # encryptContext.password /\ p # NoPassword
  <2>1. p \in Passwords /\ messages' = messages + 1
    BY <1>3 DEF AllPasswords, EncryptionFollows
  <2>2. /\ encryptContext' = [encryptContext EXCEPT !.password = p]
        /\ encryptTasks' = [encryptTasks EXCEPT ![p] = @ + 1]
    BY <1>3 DEF UpdateEncryptContext, CreatesKey
  <2>3. encryptTasks'[p] > 0
    BY <2>1, <2>2 DEF PlainTypes
  <2>4. /\ encryptTasks' \in [Passwords -> Nat]
        /\ \A q \in Passwords : encryptTasks'[q] <= messages'
    BY <2>1, <2>2 DEF PlainTypes
  <2> QED BY <1>3, <2>1, <2>2, <2>3, <2>4 DEF PlainTypes, EncryptionFollows, Creating
<1> QED BY <1>1, <1>2, <1>3

\* A new password, or a finished key, brings every decryption context up to date.
LEMMA AllUpdated ==
  ASSUME Matched(decryptContext, decryptTasks), IsMap(metadata, Mids, Users),
         NEW p \in AllPasswords, UpdateAllDecryptContexts(p), metadata' = metadata
  PROVE  /\ Matched(decryptContext', decryptTasks')
         /\ \A mid \in DOMAIN decryptContext' : decryptContext'[mid].password = p
         /\ MetadataDecides'
<1> DEFINE user == [mid \in DOMAIN decryptContext |-> decryptContext[mid].user]
<1>1. IsMap(user, Mids, Users)
  BY DEF Matched, IsMap, AllContexts
<1>2. UpdateDecryptContexts(decryptContext, decryptTasks, metadata, user, p)
  BY DEF UpdateAllDecryptContexts
<1> HIDE DEF user
<1>3. Matched(decryptContext', decryptTasks') /\ Updated(decryptContext, metadata, user, p)
  BY <1>1, <1>2, UpdateKeepsMatch
<1>4. DOMAIN user = DOMAIN decryptContext
  BY DEF user
<1> QED BY <1>3, <1>4 DEF Updated, MetadataDecides, UserOf, Get

LEMMA HandlePasswordKeeps ==
  ASSUME WorkerInv, NEW p \in AllPasswords, HandlePassword(p)
  PROVE  WorkerInv'
<1>1. /\ password' = p /\ messages' = messages + 1 /\ messages < MaxMessages
      /\ UpdateEncryptContext(p)
      /\ UNCHANGED <<metadata, senders, receivers>>
  BY DEF HandlePassword, SetPassword, Post, streamVars
<1>2. /\ encryptContext' \in [password : AllPasswords, key : AllPasswords]
      /\ encryptTasks' \in [Passwords -> Nat]
      /\ \A q \in Passwords : encryptTasks'[q] <= messages'
      /\ EncryptionFollows'
      /\ Creating \/ CreatesKey(p) => Creating'
  BY <1>1, EncryptionUpdated DEF WorkerInv
<1>3. PlainTypes'
  BY <1>1, <1>2, PasswordsAssumption DEF WorkerInv, PlainTypes
<1>4. CASE CreatesKey(p)
  <2>1. UNCHANGED <<decryptContext, decryptTasks>>
    BY <1>4 DEF HandlePassword
  <2> QED BY <1>1, <1>2, <1>3, <1>4, <2>1 DEF WorkerInv, MetadataDecides, ContextsFollow
<1>5. CASE ~CreatesKey(p)
  <2>1. UpdateAllDecryptContexts(p)
    BY <1>5 DEF HandlePassword
  <2>2. /\ Matched(decryptContext', decryptTasks')
        /\ \A mid \in DOMAIN decryptContext' : decryptContext'[mid].password = p
        /\ MetadataDecides'
    BY <1>1, <2>1, AllUpdated DEF WorkerInv, PlainTypes
  <2> QED BY <1>1, <1>2, <1>3, <2>2 DEF WorkerInv, ContextsFollow
<1> QED BY <1>4, <1>5

LEMMA HandleEncryptKeeps ==
  ASSUME WorkerInv, NEW s \in Senders, HandleEncrypt(s)
  PROVE  WorkerInv'
<1>1. /\ password' = password /\ messages' = messages + 1 /\ messages < MaxMessages
      /\ UpdateEncryptContext(password)
      /\ senders' = [senders EXCEPT ![s] = "piped"]
      /\ UNCHANGED <<decryptContext, decryptTasks, metadata, receivers>>
  BY DEF HandleEncrypt, EncryptSender, Post
<1>2. /\ encryptContext' \in [password : AllPasswords, key : AllPasswords]
      /\ encryptTasks' \in [Passwords -> Nat]
      /\ \A q \in Passwords : encryptTasks'[q] <= messages'
      /\ EncryptionFollows'
      /\ Creating \/ CreatesKey(password) => Creating'
  BY <1>1, EncryptionUpdated DEF WorkerInv, PlainTypes
<1>3. PlainTypes'
  BY <1>1, <1>2, PasswordsAssumption DEF WorkerInv, PlainTypes
<1> QED BY <1>1, <1>2, <1>3 DEF WorkerInv, MetadataDecides, ContextsFollow

LEMMA HandleDecryptKeeps ==
  ASSUME WorkerInv, NEW mid \in Mids, NEW user \in Users, HandleDecrypt(mid, user)
  PROVE  WorkerInv'
<1> DEFINE users == [m \in {mid} |-> user]
<1>1. /\ messages' = messages + 1 /\ messages < MaxMessages
      /\ receivers' = receivers \cup {mid}
      /\ UpdateDecryptContexts(decryptContext, decryptTasks, metadata, users, password)
      /\ UNCHANGED <<password, encryptContext, encryptTasks, metadata, senders>>
  BY DEF HandleDecrypt, DecryptReceiver, Post
<1>2. IsMap(users, Mids, Users) /\ DOMAIN users = {mid}
  BY DEF IsMap
<1> HIDE DEF users
<1>3. /\ Matched(decryptContext, decryptTasks)
      /\ IsMap(metadata, Mids, Users)
      /\ password \in AllPasswords
      /\ UpdateDecryptContexts(decryptContext, decryptTasks, metadata, users, password)
  BY <1>1 DEF WorkerInv, PlainTypes
<1>4. /\ Matched(decryptContext', decryptTasks')
      /\ Updated(decryptContext, metadata, users, password)
  BY <1>2, <1>3, UpdateKeepsMatch
<1>5. PlainTypes'
  BY <1>1, PasswordsAssumption DEF WorkerInv, PlainTypes
<1>6. MetadataDecides'
  BY <1>1, <1>2, <1>4 DEF Updated, WorkerInv, MetadataDecides, UserOf, Get
<1>7. ContextsFollow'
  BY <1>1, <1>2, <1>4 DEF Updated, WorkerInv, ContextsFollow, Creating
<1>8. EncryptionFollows'
  BY <1>1 DEF WorkerInv, EncryptionFollows
<1> QED BY <1>4, <1>5, <1>6, <1>7, <1>8 DEF WorkerInv

LEMMA HandleMetadataKeeps ==
  ASSUME WorkerInv, NEW md, IsMap(md, Mids, Users), HandleMetadata(md)
  PROVE  WorkerInv'
<1> DEFINE kept == DOMAIN decryptContext \cap DOMAIN md
           contexts == [mid \in kept |-> decryptContext[mid]]
           tasks == {[t EXCEPT !.current = @ /\ t.mid \in kept] : t \in decryptTasks}
           user == [mid \in kept |-> md[mid]]
<1>1. /\ messages' = messages + 1 /\ messages < MaxMessages /\ metadata' = md
      /\ UpdateDecryptContexts(contexts, tasks, md, user, password)
      /\ UNCHANGED <<password, encryptContext, encryptTasks, senders, receivers>>
  BY DEF HandleMetadata, Post, streamVars
<1>2. IsMap(user, Mids, Users) /\ DOMAIN user = kept /\ DOMAIN contexts = kept
  BY DEF IsMap
<1>3. Matched(contexts, tasks)
  <2>1. IsMap(contexts, Mids, AllContexts)
    BY DEF WorkerInv, Matched, IsMap
  <2>2. tasks \subseteq AllTasks
    BY DEF WorkerInv, Matched, AllTasks
  <2>3. ASSUME NEW mid \in kept PROVE ContextFits(mid, contexts[mid], tasks)
    <3>1. ContextFits(mid, decryptContext[mid], decryptTasks)
          /\ contexts[mid] = decryptContext[mid]
      BY DEF WorkerInv, Matched
    <3>2. ASSUME NEW t \in decryptTasks, t = TaskOf(mid, contexts[mid])
          PROVE  t \in tasks
      <4>1. t.mid = mid /\ t.current = TRUE
        BY <3>2 DEF TaskOf
      <4>2. [t EXCEPT !.current = @ /\ t.mid \in kept] = t
        BY <4>1, <3>2 DEF TaskOf
      <4> QED BY <4>2
    <3> QED BY <3>1, <3>2 DEF ContextFits
  <2>4. ASSUME NEW t \in tasks PROVE TaskFits(t, contexts)
    <3>1. PICK u \in decryptTasks : t = [u EXCEPT !.current = @ /\ u.mid \in kept]
      OBVIOUS
    <3>2. u \in AllTasks /\ TaskFits(u, decryptContext)
      BY DEF WorkerInv, Matched
    <3>3. t.mid = u.mid /\ t.key = u.key /\ (t.current => u.current /\ u.mid \in kept)
      BY <3>1, <3>2 DEF AllTasks
    <3> QED BY <3>2, <3>3 DEF TaskFits
  <2> QED BY <1>2, <2>1, <2>2, <2>3, <2>4 DEF Matched
<1>4. \A mid \in kept : user[mid] = md[mid]
  OBVIOUS
<1> HIDE DEF contexts, tasks, user
<1>5. /\ password \in AllPasswords
      /\ UpdateDecryptContexts(contexts, tasks, md, user, password)
  BY <1>1 DEF WorkerInv, PlainTypes
<1>6. Matched(decryptContext', decryptTasks') /\ Updated(contexts, md, user, password)
  BY <1>2, <1>3, <1>5, UpdateKeepsMatch
<1>7. PlainTypes'
  BY <1>1, PasswordsAssumption DEF WorkerInv, PlainTypes
<1>8. MetadataDecides'
  BY <1>1, <1>2, <1>4, <1>6 DEF Updated, MetadataDecides, UserOf, Get
<1>9. ContextsFollow'
  BY <1>1, <1>2, <1>6 DEF Updated, WorkerInv, ContextsFollow
<1>10. EncryptionFollows'
  BY <1>1 DEF WorkerInv, EncryptionFollows
<1> QED BY <1>6, <1>7, <1>8, <1>9, <1>10 DEF WorkerInv

LEMMA EncryptKeyCreatedKeeps ==
  ASSUME WorkerInv, NEW p \in Passwords, EncryptKeyCreated(p)
  PROVE  WorkerInv'
<1>1. /\ encryptTasks[p] > 0
      /\ encryptTasks' = [encryptTasks EXCEPT ![p] = @ - 1]
      /\ encryptContext' = IF encryptContext.password = p
                           THEN [encryptContext EXCEPT !.key = p] ELSE encryptContext
      /\ UpdateAllDecryptContexts(password)
      /\ UNCHANGED <<password, metadata, senders, receivers, messages>>
  BY DEF EncryptKeyCreated, streamVars
<1>2. /\ encryptTasks' \in [Passwords -> Nat]
      /\ \A q \in Passwords : encryptTasks'[q] <= messages'
      /\ \A q \in Passwords \ {p} : encryptTasks'[q] = encryptTasks[q]
  BY <1>1, PasswordsAssumption DEF WorkerInv, PlainTypes
<1>3. PlainTypes'
  BY <1>1, <1>2 DEF WorkerInv, PlainTypes, AllPasswords
<1>4. /\ Matched(decryptContext', decryptTasks')
      /\ \A mid \in DOMAIN decryptContext' : decryptContext'[mid].password = password
      /\ MetadataDecides'
  BY <1>1, AllUpdated DEF WorkerInv, PlainTypes
<1>5. EncryptionFollows'
  BY <1>1, <1>2, PasswordsAssumption DEF WorkerInv, PlainTypes, EncryptionFollows, AllPasswords
<1> QED BY <1>1, <1>3, <1>4, <1>5 DEF WorkerInv, ContextsFollow

LEMMA DecryptKeyCreatedKeeps ==
  ASSUME WorkerInv, NEW t \in decryptTasks, DecryptKeyCreated(t)
  PROVE  WorkerInv'
<1>1. /\ decryptTasks' = decryptTasks \ {t}
      /\ decryptContext' = IF t.current THEN [decryptContext EXCEPT ![t.mid].key = t.key]
                                        ELSE decryptContext
      /\ UNCHANGED <<password, encryptContext, encryptTasks, metadata, senders, receivers,
                     messages>>
  BY DEF DecryptKeyCreated, streamVars
<1>2. t \in AllTasks /\ TaskFits(t, decryptContext)
  BY DEF WorkerInv, Matched
<1>3. /\ DOMAIN decryptContext' = DOMAIN decryptContext
      /\ \A mid \in DOMAIN decryptContext :
           /\ decryptContext'[mid] \in AllContexts
           /\ decryptContext'[mid].user = decryptContext[mid].user
           /\ decryptContext'[mid].password = decryptContext[mid].password
           /\ IF t.current /\ mid = t.mid
              THEN decryptContext'[mid].key = t.key
              ELSE decryptContext'[mid] = decryptContext[mid]
  BY <1>1, <1>2 DEF WorkerInv, Matched, IsMap, AllContexts, AllTasks
<1>4. IsMap(decryptContext', Mids, AllContexts)
  BY <1>1, <1>3 DEF WorkerInv, Matched, IsMap
<1>5. ASSUME NEW mid \in DOMAIN decryptContext'
      PROVE  ContextFits(mid, decryptContext'[mid], decryptTasks')
  <2>1. ContextFits(mid, decryptContext[mid], decryptTasks)
    BY <1>3 DEF WorkerInv, Matched
  <2>2. CASE t.current /\ mid = t.mid
    <3>1. PICK a \in Passwords, u \in Users : t.key = <<a, u>>
      BY <1>2 DEF AllTasks
    <3>2. t.key \in Passwords \X Users /\ t.key # NoKey
      BY <3>1 DEF NoKey
    <3>3. /\ decryptContext'[mid].key = t.key
          /\ t.key = Key(decryptContext'[mid].password, decryptContext'[mid].user)
      BY <1>2, <1>3, <2>2 DEF TaskFits
    <3>4. decryptContext'[mid].password # NoPassword
      BY <3>1, <3>3, PasswordsAssumption DEF Key
    <3> QED BY <3>2, <3>3, <3>4 DEF ContextFits
  <2>3. CASE ~(t.current /\ mid = t.mid)
    <3>1. TaskOf(mid, decryptContext[mid]) # t
      BY <2>3 DEF TaskOf
    <3> QED BY <1>1, <1>3, <2>1, <2>3, <3>1 DEF ContextFits
  <2> QED BY <2>2, <2>3
<1>6. ASSUME NEW u \in decryptTasks' PROVE TaskFits(u, decryptContext')
  BY <1>1, <1>3 DEF WorkerInv, Matched, TaskFits
<1>7. Matched(decryptContext', decryptTasks')
  BY <1>1, <1>4, <1>5, <1>6 DEF WorkerInv, Matched
<1>8. MetadataDecides' /\ ContextsFollow'
  BY <1>1, <1>3 DEF WorkerInv, MetadataDecides, ContextsFollow, Creating
<1>9. PlainTypes' /\ EncryptionFollows'
  BY <1>1 DEF WorkerInv, PlainTypes, EncryptionFollows
<1> QED BY <1>7, <1>8, <1>9 DEF WorkerInv

LEMMA WorkerInvInit == Init => WorkerInv
BY PasswordsAssumption
   DEF Init, WorkerInv, PlainTypes, Matched, MetadataDecides, ContextsFollow,
       EncryptionFollows, IsMap, EmptyMap, AllPasswords

LEMMA WorkerInvNext == WorkerInv /\ [Next]_vars => WorkerInv'
<1> SUFFICES ASSUME WorkerInv, [Next]_vars PROVE WorkerInv'
  OBVIOUS
<1>1. CASE \E p \in AllPasswords : HandlePassword(p)
  BY <1>1, HandlePasswordKeeps
<1>2. CASE \E s \in Senders : HandleEncrypt(s)
  BY <1>2, HandleEncryptKeeps
<1>3. CASE \E s \in Senders : GetEncodedStreamsFails(s)
  BY <1>3 DEF GetEncodedStreamsFails, WorkerInv, PlainTypes, MetadataDecides,
              ContextsFollow, Creating, EncryptionFollows
<1>4. CASE \E p \in Passwords : EncryptKeyCreated(p)
  BY <1>4, EncryptKeyCreatedKeeps
<1>5. CASE \E mid \in Mids, user \in Users : HandleDecrypt(mid, user)
  BY <1>5, HandleDecryptKeeps
<1>6. CASE \E D \in SUBSET Mids : \E md \in [D -> Users] : HandleMetadata(md)
  BY <1>6, HandleMetadataKeeps DEF IsMap
<1>7. CASE \E t \in decryptTasks : DecryptKeyCreated(t)
  BY <1>7, DecryptKeyCreatedKeeps
<1>8. CASE UNCHANGED vars
  BY <1>8 DEF vars, streamVars, WorkerInv, PlainTypes, MetadataDecides, ContextsFollow,
              Creating, EncryptionFollows
<1> QED BY <1>1, <1>2, <1>3, <1>4, <1>5, <1>6, <1>7, <1>8 DEF Next, AllPasswords

-----------------------------------------------------------------------------
(* What follows from the invariant *)

LEMMA WorkerCorrect == Spec => []WorkerInv
BY WorkerInvInit, WorkerInvNext, PTL DEF Spec

(***************************************************************************)
(* The contexts are well formed, the key of each was derived from its      *)
(* password and its user, and its user is the one that the metadata names: *)
(* for keys that are finished late, out of order, or for mids that have    *)
(* changed hands.                                                          *)
(***************************************************************************)
THEOREM ContextsCorrect == Spec => []ContextsInv
<1>1. WorkerInv => ContextsInv
  <2> SUFFICES ASSUME WorkerInv PROVE ContextsInv
    OBVIOUS
  <2>1. TypeOK
    <3>1. encryptTasks \in [Passwords -> 0..MaxMessages]
      BY PasswordsAssumption DEF WorkerInv, PlainTypes
    <3> QED BY <3>1 DEF TypeOK, WorkerInv, PlainTypes, Matched, AllPasswords, AllContexts,
                        AllTasks
  <2>2. DecryptKeyFits
    BY DEF DecryptKeyFits, WorkerInv, Matched, ContextFits
  <2> QED BY <2>1, <2>2 DEF ContextsInv, WorkerInv
<1> QED BY <1>1, WorkerCorrect, PTL

(***************************************************************************)
(* Once no key is being created, what is received from a user who has set  *)
(* the same password is decrypted, whatever the order of passwords,        *)
(* metadata, tracks and keys was.                                          *)
(***************************************************************************)
THEOREM DecryptionSettles == Spec => []DecryptSettled
<1>1. WorkerInv => DecryptSettled
  <2> SUFFICES ASSUME WorkerInv, Settled, NEW mid \in receivers \cap DOMAIN decryptContext
               PROVE  /\ decryptContext[mid].password = password
                      /\ IF password = NoPassword THEN decryptContext[mid].key = NoKey
                         ELSE DecryptFrame(mid, Key(password, decryptContext[mid].user)) = NoKey
    BY DEF DecryptSettled
  <2>1. ~Creating
    BY DEF Settled, Creating
  <2>2. decryptContext[mid].password = password
    BY <2>1 DEF WorkerInv, ContextsFollow
  <2>3. ContextFits(mid, decryptContext[mid], {})
    BY DEF WorkerInv, Matched, Settled
  <2> QED BY <2>2, <2>3 DEF ContextFits, DecryptFrame
<1> QED BY <1>1, WorkerCorrect, PTL

(***************************************************************************)
(* While a password is set, a frame that passes the worker is dropped or   *)
(* encrypted, and once no key is being created it is not encrypted with    *)
(* the key of an earlier password.                                         *)
(***************************************************************************)
THEOREM FramesProtected == Spec => []FramesAreProtected
<1>1. WorkerInv => FramesAreProtected
  <2> SUFFICES ASSUME WorkerInv, password # NoPassword, NEW s \in Senders, senders[s] = "piped"
               PROVE  /\ EncryptFrame(s) # Plain
                      /\ Settled => EncryptFrame(s) \in {Dropped, EncryptedWith(password)}
    BY DEF FramesAreProtected
  <2>1. encryptContext.password = password /\ password \in Passwords
    BY DEF WorkerInv, EncryptionFollows, PlainTypes, AllPasswords
  <2>2. Settled /\ encryptContext.key # NoPassword => encryptContext.key = password
    BY <2>1 DEF WorkerInv, EncryptionFollows, Settled
  <2>3. CASE encryptContext.key = NoPassword
    BY <2>3 DEF EncryptFrame, Plain, Dropped
  <2>4. CASE encryptContext.key # NoPassword
    BY <2>2, <2>4 DEF EncryptFrame, Plain, EncryptedWith
  <2> QED BY <2>3, <2>4
<1> QED BY <1>1, WorkerCorrect, PTL
=============================================================================
