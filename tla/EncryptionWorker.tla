-------------------------- MODULE EncryptionWorker --------------------------
(***************************************************************************)
(* InsertableStreamsCodec and the web worker that encrypts and decrypts    *)
(* media frames for it (client/insertable-streams/index.ts).  Keys are     *)
(* derived from the password asynchronously; meanwhile the password, the   *)
(* metadata and the tracks change.                                         *)
(*                                                                         *)
(* A message of the main thread is handled in one step, with the promise   *)
(* callbacks that are ready at its end.  A call of createKey is a task     *)
(* that completes in a later step; tasks complete in any order.            *)
(*                                                                         *)
(* A key is the password and the user it was derived from: the url, the    *)
(* rest of the salt, never changes.                                        *)
(***************************************************************************)
EXTENDS Naturals, GoMaps

CONSTANTS
  Passwords,  \* passwords that the user may set, without the empty one
  Mids,       \* media line identifiers of the received tracks
  Users,      \* the other users
  Senders,    \* the RTCRtpSenders of the local tracks
  MaxMessages \* bound: messages that the main thread posts

\* An empty password or an undefined key.
NoPassword == ""
AllPasswords == Passwords \cup {NoPassword}

ASSUME PasswordsAssumption == NoPassword \notin Passwords /\ MaxMessages \in Nat

VARIABLES
  password,       \* context.password
  encryptContext, \* the password and the key (a password, or NoPassword)
  encryptTasks,   \* how many keys of each password are being created
  decryptContext, \* context.decryptContextByMid
  decryptTasks,   \* keys being created, and if their context is still the one of the mid
  metadata,       \* metadataByMid: the user of each mid
  senders,        \* sendersReceivers, and if the sender's frames go through encrypt
  receivers,      \* sendersReceivers: the mids whose frames go through decrypt
  messages        \* messages posted so far

streamVars == <<senders, receivers>>
vars == <<password, encryptContext, encryptTasks, decryptContext, decryptTasks,
          metadata, streamVars, messages>>

NoKey == <<>>
Key(p, u) == <<p, u>>

Init ==
  /\ password = NoPassword
  /\ encryptContext = [password |-> NoPassword, key |-> NoPassword]
  /\ encryptTasks = [p \in Passwords |-> 0]
  /\ decryptContext = EmptyMap
  /\ decryptTasks = {}
  /\ metadata = EmptyMap
  /\ senders = [s \in Senders |-> "new"]
  /\ receivers = {}
  /\ messages = 0

Post ==
  /\ messages < MaxMessages
  /\ messages' = messages + 1

-----------------------------------------------------------------------------
(* Decryption *)

\* getUserId
UserOf(md, mid, user) == Get(md, mid, user)

NeedsKeyAlways(p) == TRUE

\* There is nothing to derive a key from without a password.
NeedsKey(p) == p # NoPassword

(***************************************************************************)
(* updateDecryptContext for every mid in the domain of user, which says    *)
(* whom the caller takes the mid to belong to.  A context that fits is     *)
(* kept; otherwise a new one replaces it and, if there is a password, its  *)
(* key is created.  The tasks of a context that was replaced find that     *)
(* they are late.                                                          *)
(***************************************************************************)
UpdateDecryptContexts(contexts, tasks, md, user, p) ==
  LET New(mid) == [user |-> UserOf(md, mid, user[mid]), password |-> p, key |-> NoKey]
      Fits(mid) == /\ mid \in DOMAIN contexts
                   /\ contexts[mid].user = New(mid).user
                   /\ contexts[mid].password = p
      Replaced == {mid \in DOMAIN user : ~Fits(mid)}
  IN  /\ decryptContext' = [mid \in DOMAIN contexts \cup Replaced |->
                              IF mid \in Replaced THEN New(mid) ELSE contexts[mid]]
      /\ decryptTasks' =
           {[t EXCEPT !.current = @ /\ t.mid \notin Replaced] : t \in tasks}
             \cup {[mid |-> mid, key |-> Key(p, New(mid).user), current |-> TRUE] :
                     mid \in IF NeedsKey(p) THEN Replaced ELSE {}}

DecryptKeyUnchecked(t) ==
  /\ t \in decryptTasks
  /\ decryptTasks' = decryptTasks \ {t}
  /\ decryptContext' = IF t.mid \in DOMAIN decryptContext
                       THEN [decryptContext EXCEPT ![t.mid].key = t.key]
                       ELSE decryptContext
  /\ UNCHANGED <<password, encryptContext, encryptTasks, metadata, streamVars,
                 messages>>

\* The key of a decryption context is there: it is used if the context was not replaced.
DecryptKeyCreated(t) ==
  /\ t \in decryptTasks
  /\ decryptTasks' = decryptTasks \ {t}
  /\ decryptContext' = IF t.current THEN [decryptContext EXCEPT ![t.mid].key = t.key]
                                    ELSE decryptContext
  /\ UNCHANGED <<password, encryptContext, encryptTasks, metadata, streamVars,
                 messages>>

\* decrypt of InsertableStreamsCodec.  The streams of a receiver are asked for until
\* they are there; without them nothing is posted.
DecryptReceiver(mid) ==
  /\ Post
  /\ receivers' = receivers \cup {mid}

\* handleDecrypt: a track of the given mid; the main thread believes it is user's.
HandleDecrypt(mid, user) ==
  /\ DecryptReceiver(mid)
  /\ UpdateDecryptContexts(decryptContext, decryptTasks, metadata,
                           [m \in {mid} |-> user], password)
  /\ UNCHANGED <<password, encryptContext, encryptTasks, metadata, senders>>

HandleMetadataForNew(md) ==
  /\ Post
  /\ metadata' = md
  /\ UpdateDecryptContexts(
       decryptContext, decryptTasks, md,
       [mid \in {m \in DOMAIN decryptContext : m \in DOMAIN md \ DOMAIN metadata} |-> md[mid]],
       password)
  /\ UNCHANGED <<password, encryptContext, encryptTasks, streamVars>>

\* handleMetadata deletes the contexts of mids that are gone and updates the others.
HandleMetadata(md) ==
  /\ Post
  /\ metadata' = md
  /\ LET kept == DOMAIN decryptContext \cap DOMAIN md
     IN  UpdateDecryptContexts(
           [mid \in kept |-> decryptContext[mid]],
           {[t EXCEPT !.current = @ /\ t.mid \in kept] : t \in decryptTasks},
           md, [mid \in kept |-> md[mid]], password)
  /\ UNCHANGED <<password, encryptContext, encryptTasks, streamVars>>

(***************************************************************************)
(* What decrypt makes of a frame of the given mid that was sent with key   *)
(* k, or NoKey.  A frame that cannot be decrypted is passed on as it is.   *)
(***************************************************************************)
DecryptFrame(mid, k) ==
  IF mid \in DOMAIN decryptContext /\ decryptContext[mid].key = k THEN NoKey ELSE k

\* The end of handlePassword: every decryption context is brought up to date.
UpdateAllDecryptContexts(p) ==
  UpdateDecryptContexts(decryptContext, decryptTasks, metadata,
    [mid \in DOMAIN decryptContext |-> decryptContext[mid].user], p)

-----------------------------------------------------------------------------
(* Encryption *)

(***************************************************************************)
(* updateEncryptContext.  An empty password removes the key and leaves the *)
(* password of the context.                                                *)
(***************************************************************************)
CreatesKey(p) == p # encryptContext.password /\ p # NoPassword

UpdateEncryptContext(p) ==
  /\ encryptContext' = IF p = encryptContext.password THEN encryptContext
                       ELSE IF p = NoPassword THEN [encryptContext EXCEPT !.key = NoPassword]
                       ELSE [encryptContext EXCEPT !.password = p]
  /\ encryptTasks' = IF CreatesKey(p) THEN [encryptTasks EXCEPT ![p] = @ + 1]
                                      ELSE encryptTasks

\* Toolbar.setPassword: any password may be saved, also the empty one.
SetPassword(p) ==
  /\ Post
  /\ password' = p

(***************************************************************************)
(* handlePassword: the decryption contexts follow at once if no key has to *)
(* be created, and when it is created otherwise.                           *)
(***************************************************************************)
HandlePassword(p) ==
  /\ SetPassword(p)
  /\ UpdateEncryptContext(p)
  /\ IF CreatesKey(p) THEN UNCHANGED <<decryptContext, decryptTasks>>
                      ELSE UpdateAllDecryptContexts(p)
  /\ UNCHANGED <<metadata, streamVars>>

\* encrypt of InsertableStreamsCodec: a sender is handed over once.
EncryptSender(s) ==
  /\ senders[s] = "new"
  /\ Post
  /\ senders' = [senders EXCEPT ![s] = "piped"]

\* handleEncrypt: handlePassword has created, or is creating, the key it needs.
HandleEncrypt(s) ==
  /\ EncryptSender(s)
  /\ UpdateEncryptContext(password)
  /\ UNCHANGED <<password, decryptContext, decryptTasks, metadata, receivers>>

\* The browser refuses the streams of a sender, which is not asked again.
GetEncodedStreamsFails(s) ==
  /\ senders[s] = "new"
  /\ senders' = [senders EXCEPT ![s] = "bypassed"]
  /\ UNCHANGED <<password, encryptContext, encryptTasks, decryptContext,
                 decryptTasks, metadata, receivers, messages>>

(***************************************************************************)
(* What encrypt makes of a frame: it is dropped, encrypted with a key or   *)
(* passed on as it is.  The await between reading the key and passing the  *)
(* frame on is left out: a frame under way keeps the key it began with.    *)
(***************************************************************************)
Plain == <<"plain">>
Dropped == <<"dropped">>
EncryptedWith(k) == <<"encrypted", k>>

EncryptFrame(s) ==
  IF senders[s] # "piped" THEN Plain
  ELSE IF encryptContext.key # NoPassword THEN EncryptedWith(encryptContext.key)
  ELSE IF password = NoPassword THEN Plain ELSE Dropped

EncryptKeyUnchecked(p) ==
  /\ encryptTasks[p] > 0
  /\ encryptTasks' = [encryptTasks EXCEPT ![p] = @ - 1]
  /\ encryptContext' = [encryptContext EXCEPT !.key = p]
  /\ UpdateAllDecryptContexts(password)
  /\ UNCHANGED <<password, metadata, streamVars, messages>>

EncryptKeyOnly(p) ==
  /\ encryptTasks[p] > 0
  /\ encryptTasks' = [encryptTasks EXCEPT ![p] = @ - 1]
  /\ encryptContext' = IF encryptContext.password = p
                       THEN [encryptContext EXCEPT !.key = p] ELSE encryptContext
  /\ UNCHANGED <<password, decryptContext, decryptTasks, metadata, streamVars,
                 messages>>

\* The key for password p is there; handlePassword goes on with the current password.
EncryptKeyCreated(p) ==
  /\ encryptTasks[p] > 0
  /\ encryptTasks' = [encryptTasks EXCEPT ![p] = @ - 1]
  /\ encryptContext' = IF encryptContext.password = p
                       THEN [encryptContext EXCEPT !.key = p] ELSE encryptContext
  /\ UpdateAllDecryptContexts(password)
  /\ UNCHANGED <<password, metadata, streamVars, messages>>

Next ==
  \/ \E p \in AllPasswords : HandlePassword(p)
  \/ \E s \in Senders : HandleEncrypt(s) \/ GetEncodedStreamsFails(s)
  \/ \E p \in Passwords : EncryptKeyCreated(p)
  \/ \E mid \in Mids, user \in Users : HandleDecrypt(mid, user)
  \/ \E D \in SUBSET Mids : \E md \in [D -> Users] : HandleMetadata(md)
  \/ \E t \in decryptTasks : DecryptKeyCreated(t)

Spec == Init /\ [][Next]_vars

-----------------------------------------------------------------------------
(* Properties *)

\* The state is well formed.
TypeOK ==
  /\ password \in AllPasswords
  /\ encryptContext \in [password : AllPasswords, key : AllPasswords]
  /\ encryptTasks \in [Passwords -> 0..MaxMessages]
  /\ IsMap(decryptContext, Mids,
           [user : Users, password : AllPasswords,
            key : {NoKey} \cup (Passwords \X Users)])
  /\ decryptTasks \subseteq [mid : Mids, key : Passwords \X Users, current : BOOLEAN]
  /\ IsMap(metadata, Mids, Users)
  /\ senders \in [Senders -> {"new", "piped", "bypassed"}]
  /\ receivers \subseteq Mids
  /\ messages \in 0..MaxMessages

Settled == decryptTasks = {} /\ \A p \in Passwords : encryptTasks[p] = 0

(***************************************************************************)
(* The key of a decryption context was derived from the password and the   *)
(* user of that context, also when keys arrive late, out of order, or      *)
(* after the mid was given to another user.                                *)
(***************************************************************************)
DecryptKeyFits ==
  \A mid \in DOMAIN decryptContext :
    LET c == decryptContext[mid]
    IN  c.key # NoKey => c.key = Key(c.password, c.user)

\* The user of a decryption context is the one that the last metadata names.
MetadataDecides ==
  \A mid \in DOMAIN decryptContext \cap DOMAIN metadata :
    decryptContext[mid].user = metadata[mid]

(***************************************************************************)
(* Once no key is being created, every frame of a user who has set the     *)
(* same password is decrypted, in whatever order passwords, metadata and   *)
(* tracks came and keys were created, and without a password frames are    *)
(* passed on.                                                              *)
(***************************************************************************)
DecryptSettled ==
  Settled => \A mid \in receivers \cap DOMAIN decryptContext :
    LET c == decryptContext[mid]
    IN  /\ c.password = password
        /\ IF password = NoPassword THEN c.key = NoKey
           ELSE DecryptFrame(mid, Key(password, c.user)) = NoKey

(***************************************************************************)
(* While a password is set (the lock in the toolbar is shown) no frame     *)
(* that passes the worker leaves it in clear, and once no key is being     *)
(* created none leaves it with the key of an earlier password.             *)
(***************************************************************************)
FramesAreProtected ==
  password # NoPassword => \A s \in Senders :
    senders[s] = "piped" =>
      /\ EncryptFrame(s) # Plain
      /\ Settled => EncryptFrame(s) \in {Dropped, EncryptedWith(password)}

(***************************************************************************)
(* The comment in handlePassword, insertable-streams/index.ts:367:         *)
(* "Regenerate all keys".  Once no key is being created, the key of the    *)
(* password is there.                                                      *)
(***************************************************************************)
EncryptKeyRegenerated ==
  Settled /\ password # NoPassword => encryptContext.key = password

\* What the worker keeps up between all messages and keys: its contexts are well
\* formed, and each has the user that the metadata names and a key that fits.
ContextsInv == TypeOK /\ DecryptKeyFits /\ MetadataDecides
=============================================================================
