----------------------------- MODULE RnpPlugin ------------------------------
(***************************************************************************)
(* The Sailfish secrets plugin: RnpPlugin (secrets/rnp/plugin.cpp), which  *)
(* is at once the key storage RnpKeys (rnpkeys.cpp) and the cryptographic  *)
(* engine RnpFfi (rnpffi.cpp), both over one Rnp object.                   *)
(*                                                                         *)
(* The host calls one operation at a time and an operation reads at most   *)
(* one key file, so a call is one action: its reply, the keyring it may    *)
(* open and all that it changes.                                           *)
(***************************************************************************)
EXTENDS KeySearch, Signatures

CONSTANTS
  Import,      \* the name of the collection that stands for none, "import"
  CanSign,     \* the keys whose usage flags allow "sign"
  CanEncrypt,  \* the keys whose usage flags allow "encrypt"
  CryptoKeys,  \* the keys that callers name
  Messages,    \* the messages they submit: [to, sigs]
  Queries      \* the filters they search with

ASSUME PluginAssumption ==
  /\ Import \notin Key \cup {NoName}
  /\ CanSign \subseteq Key /\ CanEncrypt \subseteq Key
  /\ CryptoKeys \subseteq CryptoKey
  /\ Messages \subseteq [to : SUBSET Key, sigs : Seq(Signature)]
  /\ Queries \subseteq Query

VARIABLES
  reply,       \* the last call and its answer
  owed,        \* history: the keys that the public key file must go on holding
  deleted      \* history: the keys whose deletion was acknowledged

vars == <<ringsVars, reply, owed, deleted>>

Names       == Key \cup {NoName}
Collections == Names \cup {Import}

Codes == {"none", "Succeeded", "DatabaseError", "InvalidCollectionError",
          "OperationNotSupportedError", "SigningError", "EncryptionError",
          "DecryptionError", "VerificationError", "KeyGenerationError",
          "KeyImportError"}

\* The answer of the call just made; a step that is not a call has none.
Answer(op, code, names, verdict) ==
  reply' = [op |-> op, code |-> code, names |-> names, verdict |-> verdict]
Succeed(op, names) == Answer(op, "Succeeded", names, "Unknown")
Fail(op, code)     == Answer(op, code, {}, "Unknown")
NoCall             == Fail("none", "none")

(***************************************************************************)
(* History.  From the moment the public keyring is opened, what it loaded  *)
(* is owed; a deletion and a rewrite by another program end that.          *)
(***************************************************************************)
OwedOnce(o) ==
  IF ring[PUBLIC] = "null" /\ o.ring[PUBLIC] = "valid" THEN stored[PUBLIC] ELSE owed

\* The keys that removeSecret(c, n) names: the collection as a whole, or one
\* secret in it.
Asked(c, n) ==
  IF c \notin Key THEN {}
  ELSE IF n \in {NoName, c} THEN {c} \cup SubkeysOf(c)
  ELSE {n} \cap SubkeysOf(c)

\* A call that opens a keyring at most.
Reads(o) ==
  /\ ring' = o.ring
  /\ mem' = o.mem
  /\ owed' = OwedOnce(o)
  /\ UNCHANGED <<modified, deleted, fileVars, hostVars>>

ReadsNothing == UNCHANGED <<ringsVars, owed, deleted>>

(***************************************************************************)
(* RnpKeys: the storage.                                                   *)
(***************************************************************************)
CollectionNames ==
  /\ phase = "up"
  /\ \E o \in UsedRing(PUBLIC) :
       /\ Reads(o)
       /\ \/ /\ o.ring[PUBLIC] = "valid"
             /\ Succeed("collectionNames", KeyIds(o.mem) \cup {Import})
          \/ /\ o.ring[PUBLIC] # "valid"
             /\ Fail("collectionNames", "DatabaseError")

SecretNames(c) ==
  /\ phase = "up"
  /\ \/ c = Import /\ ReadsNothing /\ Succeed("secretNames", {})
     \/ /\ c # Import
        /\ \E o \in UsedRing(PUBLIC) :
             LET key == KeyAt(o.mem, c)
             IN  /\ Reads(o)
                 /\ \/ /\ o.ring[PUBLIC] # "valid"
                       /\ Fail("secretNames", "DatabaseError")
                    \/ /\ o.ring[PUBLIC] = "valid" /\ key = NoName
                       /\ Fail("secretNames", "InvalidCollectionError")
                    \/ /\ o.ring[PUBLIC] = "valid" /\ key # NoName
                       /\ Succeed("secretNames", Fingerprints(o.mem, key))

FindSecrets(c, query) ==
  /\ phase = "up"
  /\ \E o \in UsedRing(PUBLIC) :
       /\ Reads(o)
       /\ \/ /\ o.ring[PUBLIC] = "valid"
             /\ Succeed("findSecrets", FindSecretsIn(o.mem, c, query, Import))
          \/ /\ o.ring[PUBLIC] # "valid"
             /\ Fail("findSecrets", "DatabaseError")

\* Mutant: the keyring is not asked whether it is valid.
RemovableUnguarded(o, key) == key # NoName

\* The early returns of removeSecret.
Removable(o, key) == o.ring[PUBLIC] = "valid" /\ key # NoName

\* The key that the name n refers to in the collection of key.
RemovalTarget(m, key, n) ==
  IF n \in {key, NoName} THEN key ELSE SubkeyAt(m, key, n)

\* A name is compared as it is spelled: a fingerprint in another case is a name
\* of no key, as any other key of Key is that the collection does not hold.
RemoveSecret(c, n) ==
  /\ phase = "up"
  /\ \/ c = Import /\ ReadsNothing /\ Succeed("removeSecret", {})
     \/ /\ c # Import
        /\ UNCHANGED <<fileVars, hostVars>>
        /\ \E o \in UsedRing(PUBLIC) :
             LET key    == KeyAt(o.mem, c)
                 target == RemovalTarget(o.mem, key, n)
             IN  /\ ring' = o.ring
                 /\ \/ /\ ~Removable(o, key)
                       /\ mem' = o.mem
                       /\ owed' = OwedOnce(o)
                       /\ UNCHANGED <<modified, deleted>>
                       /\ Fail("removeSecret",
                               IF o.ring[PUBLIC] = "valid"
                               THEN "InvalidCollectionError" ELSE "DatabaseError")
                    \/ /\ Removable(o, key)
                       /\ mem' = AfterRemove(o.mem, target)
                       /\ \/ /\ ~RemoveOk(o.mem, target)
                             /\ owed' = OwedOnce(o)
                             /\ UNCHANGED <<modified, deleted>>
                             /\ Fail("removeSecret", "DatabaseError")
                          \/ /\ RemoveOk(o.mem, target)
                             /\ MarksModified
                             /\ owed' = OwedOnce(o) \ Asked(c, n)
                             /\ deleted' = deleted \cup Asked(c, n)
                             /\ Succeed("removeSecret", Asked(c, n))

RemoveCollection(c) == RemoveSecret(c, NoName)
RemoveStandaloneSecret(n) == RemoveSecret(NoName, n)

IsCollectionLocked ==
  /\ phase = "up"
  /\ ReadsNothing
  /\ Succeed("isCollectionLocked", {})

\* createCollection, deriveKeyFromCode, setEncryptionKey, reencrypt, setSecret,
\* getSecret, accessSecret and reencryptSecret.
UnsupportedStorage ==
  /\ phase = "up"
  /\ ReadsNothing
  /\ Fail("unsupported", "OperationNotSupportedError")

(***************************************************************************)
(* RnpFfi: keys.  Generating and importing are placeholders that answer    *)
(* and do nothing.                                                         *)
(***************************************************************************)
GenerateKey(inCollection, hasHome) ==
  /\ phase = "up"
  /\ ReadsNothing
  /\ \/ Fail("generateKey", "KeyGenerationError") /\ (inCollection => ~hasHome)
     \/ Succeed("generateKey", {}) /\ (inCollection => hasHome)

GenerateAndStoreKey ==
  /\ phase = "up"
  /\ ReadsNothing
  /\ Succeed("generateAndStoreKey", {})

ImportKey ==
  /\ phase = "up"
  /\ ReadsNothing
  /\ Succeed("importKey", {}) \/ Fail("importKey", "KeyImportError")

\* k is the key in the data to import.
ImportAndStoreKey(k) ==
  /\ phase = "up"
  /\ ReadsNothing
  /\ Succeed("importAndStoreKey", {k})

StoredKey ==
  /\ phase = "up"
  /\ ReadsNothing
  /\ Succeed("storedKey", {})

\* The validity of the keyring is not looked at, nor that of the key.
StoredKeyIdentifiers(c) ==
  /\ phase = "up"
  /\ \/ c = Import /\ ReadsNothing /\ Succeed("storedKeyIdentifiers", {})
     \/ /\ c # Import
        /\ \E o \in UsedRing(PUBLIC) :
             LET ids == IF c = NoName THEN KeyIds(o.mem) ELSE {c}
             IN  /\ Reads(o)
                 /\ Succeed("storedKeyIdentifiers",
                            UNION {Fingerprints(o.mem, KeyAt(o.mem, id)) : id \in ids})

(***************************************************************************)
(* RnpFfi: operations.  Signing and decrypting open the secret keyring     *)
(* only, encrypting and verifying the public one only; a key is looked for *)
(* in whatever is loaded.  librnp may fail at any step, and asks the user  *)
(* for a passphrase that may not come: every operation may fail.           *)
(***************************************************************************)
\* Rnp::sign: without a key nothing stops the operation before librnp does.
Signable(m, k) == k = NoName \/ (k \in CanSign /\ k \in m[SECRET])

Sign(ck) ==
  /\ phase = "up"
  /\ \/ ~ck.own /\ ReadsNothing /\ Fail("sign", "SigningError")
     \/ /\ ck.own
        /\ \E o \in UsedRing(SECRET) :
             LET k == NamedKey(o.mem, ck.coll, ck.name)
             IN  /\ Reads(o)
                 /\ \/ Fail("sign", "SigningError")
                    \/ Signable(o.mem, k) /\ Succeed("sign", {k})

\* Rnp::encrypt, for one recipient and no signer.
Encryptable(k) == k = NoName \/ k \in CanEncrypt

Encrypt(ck) ==
  /\ phase = "up"
  /\ \/ ~ck.own /\ ReadsNothing /\ Fail("encrypt", "EncryptionError")
     \/ /\ ck.own
        /\ \E o \in UsedRing(PUBLIC) :
             LET k == NamedKey(o.mem, ck.coll, ck.name)
             IN  /\ Reads(o)
                 /\ \/ Fail("encrypt", "EncryptionError")
                    \/ Encryptable(k) /\ Succeed("encrypt", {k})

\* A failed verification finds no signature, and is still a success.  It may
\* fail before it opens the keyring, as may the decryption.
Verify(msg, ck) ==
  /\ phase = "up"
  /\ \/ ~ck.own /\ ReadsNothing /\ Fail("verify", "VerificationError")
     \/ ck.own /\ ReadsNothing /\ Succeed("verify", {ck.name})
     \/ /\ ck.own
        /\ \E o \in UsedRing(PUBLIC) :
             /\ Reads(o)
             /\ \E found \in {<<>>, Findings(o.mem, msg.sigs)} :
                  Answer("verify", "Succeeded", {ck.name}, Verdict(ck, found))

\* A message for no key is protected by a passphrase alone.
Openable(m, to) == to = {} \/ to \cap m[SECRET] # {}

Decrypt(msg, ck) ==
  /\ phase = "up"
  /\ \/ ReadsNothing /\ Fail("decrypt", "DecryptionError")
     \/ /\ ck.own
        /\ \E o \in UsedRing(SECRET) :
             /\ Reads(o)
             /\ \/ Fail("decrypt", "DecryptionError")
                \/ /\ Openable(o.mem, msg.to)
                   /\ Answer("decrypt", "Succeeded", {ck.name},
                             Verdict(ck, Findings(o.mem, msg.sigs)))

\* Random data, initialisation vectors, digests and cipher sessions.
UnsupportedCrypto ==
  /\ phase = "up"
  /\ ReadsNothing
  /\ Fail("unsupported", "OperationNotSupportedError")

(***************************************************************************)
(* The life of the plugin object, and what happens around it.              *)
(***************************************************************************)
\* What a step that changes the public key file by accident, or fails to
\* change it, leaves of the promises made.
Spoils ==
  /\ owed' = owed \cap stored'[PUBLIC]
  /\ deleted' = deleted \ stored'[PUBLIC]

Load == Create /\ NoCall /\ UNCHANGED <<owed, deleted>>

Unload == Destroy /\ NoCall /\ UNCHANGED <<owed, deleted>>

CloseRing ==
  /\ SkipSave
  /\ NoCall
  /\ IF modified[cursor] THEN Spoils ELSE UNCHANGED <<owed, deleted>>

TruncateFile == OpenOutput /\ NoCall /\ UNCHANGED <<owed, deleted>>

WriteFile == Save /\ NoCall /\ UNCHANGED <<owed, deleted>>

WriteFails == SaveFails /\ NoCall /\ Spoils

HostCrash == Crash /\ NoCall /\ Spoils

Foreign(l, S) ==
  /\ ForeignWrite(l, S)
  /\ NoCall
  /\ owed' = IF l = PUBLIC THEN owed \cap S ELSE owed
  /\ deleted' = deleted \ (S \ stored[l])

Storage ==
  \/ CollectionNames
  \/ \E c \in Collections : SecretNames(c)
  \/ \E c \in Collections, query \in Queries : FindSecrets(c, query)
  \/ \E c \in Collections, n \in Names : RemoveSecret(c, n)
  \/ \E c \in Collections : RemoveCollection(c)
  \/ \E n \in Names : RemoveStandaloneSecret(n)
  \/ IsCollectionLocked
  \/ UnsupportedStorage

KeyManagement ==
  \/ \E inCollection, hasHome \in BOOLEAN : GenerateKey(inCollection, hasHome)
  \/ GenerateAndStoreKey
  \/ ImportKey
  \/ \E k \in Key : ImportAndStoreKey(k)
  \/ StoredKey
  \/ \E c \in Collections : StoredKeyIdentifiers(c)

Cryptography ==
  \/ \E ck \in CryptoKeys : Sign(ck) \/ Encrypt(ck)
  \/ \E ck \in CryptoKeys, msg \in Messages : Verify(msg, ck) \/ Decrypt(msg, ck)
  \/ UnsupportedCrypto

Life ==
  \/ Load
  \/ Unload
  \/ CloseRing
  \/ TruncateFile
  \/ WriteFile
  \/ WriteFails
  \/ HostCrash

Init ==
  /\ RingsInit
  /\ reply = [op |-> "none", code |-> "none", names |-> {}, verdict |-> "Unknown"]
  /\ owed = {}
  /\ deleted = {}

Next ==
  \/ Storage
  \/ KeyManagement
  \/ Cryptography
  \/ Life
  \/ \E l \in Level, S \in KeyBlocks : Foreign(l, S)

\* A destructor that was entered runs on, unless the process dies.
Closing == CloseRing \/ TruncateFile \/ WriteFile \/ WriteFails

Spec == Init /\ [][Next]_vars /\ WF_vars(Closing)

(***************************************************************************)
(* Properties.                                                             *)
(***************************************************************************)
Ops == {"none", "collectionNames", "secretNames", "findSecrets",
        "removeSecret", "isCollectionLocked", "unsupported", "generateKey",
        "generateAndStoreKey", "importKey", "importAndStoreKey", "storedKey",
        "storedKeyIdentifiers", "sign", "encrypt", "verify", "decrypt"}

Replies == [op : Ops, code : Codes, names : SUBSET Collections, verdict : Verdicts]

\* Every variable has its type.
TypeOK ==
  /\ RingsTypeOK
  /\ reply \in Replies
  /\ owed \in SUBSET Key
  /\ deleted \in SUBSET Key

\* A Keyring that ~Keyring will save is one that was loaded: m_modified is never
\* set on an invalid Keyring.  ~Keyring itself does not look at m_valid before
\* it truncates the file, so an unloadable public key file survives only
\* because every handler refuses to work on an invalid Keyring.
OnlyLoadedRingsAreSaved ==
  \A l \in Level : modified[l] => ring[l] = "valid"

\* No store and no key file ever holds a subkey whose primary key it does not:
\* a primary key goes with all its subkeys, in both stores (Key::remove).
NoOrphanSubkeys ==
  \A l \in Level : Closed(mem[l]) /\ Closed(stored[l])

\* A public key that the keyring loaded, that no caller deleted and no other
\* program took away, is in the key file whenever that is not being written,
\* whatever was called in between; a crash or a failure inside the write is the
\* only thing that can lose it (~Keyring truncates first).
NoKeyLost ==
  phase # "write" => owed \subseteq stored[PUBLIC]

\* A deletion that was acknowledged is not undone within the life of the
\* plugin, and the file it is still missing from will be written: deleted keys
\* may linger in the public key file only under a Keyring with m_modified set.
DeletionsArePending ==
  /\ deleted \cap mem[PUBLIC] = {}
  /\ deleted \cap stored[PUBLIC] # {} => modified[PUBLIC]

\* What makes the promises above inductive: the file that is being written is
\* that of a modified Keyring, which was loaded; the public Keyring is gone by
\* the time ~Rnp deletes the secret one; and what the public file owes is in the
\* public store too, so that a save restores what its truncation destroyed.
WritesBackWhatItOwes ==
  /\ phase = "write" => modified[cursor]
  /\ phase \in {"close", "write"} /\ cursor = SECRET => ring[PUBLIC] = "null"
  /\ ring[PUBLIC] = "valid" => owed \subseteq mem[PUBLIC]
  /\ ~(phase = "write" /\ cursor = PUBLIC) => owed \subseteq stored[PUBLIC]

IInv ==
  /\ TypeOK
  /\ OnlyLoadedRingsAreSaved
  /\ NoOrphanSubkeys
  /\ WritesBackWhatItOwes
  /\ DeletionsArePending

\* What the answer to a deletion leaves behind: nothing of a collection, in
\* neither store, its secret part going with its public part; and of a subkey
\* at most its secret part, when the loaded public part of its primary key does
\* not have it.
AcknowledgedKeyIsGone ==
  reply.op = "removeSecret" /\ reply.code = "Succeeded"
  => /\ reply.names \cap mem[PUBLIC] = {}
     /\ \A k \in reply.names \cap mem[SECRET] :
          k \in Subkey /\ reply.names = {k} /\ PrimaryOf[k] \in mem[PUBLIC]

\* A key whose deletion was acknowledged, and that no store holds since, comes
\* back only with the secret key file, when the secret keyring is opened for the
\* first time; neither a later call nor the public file, from which the deletion
\* may be missing still, brings it back.
DeletedKeysComeBackByLoading ==
  [][\A k \in deleted \cap deleted' :
       Locates(mem', k) /\ ~Locates(mem, k)
         => /\ ring[SECRET] = "null" /\ ring'[SECRET] = "valid"
            /\ k \in stored[SECRET]]_vars

\* A call that does not succeed destroys nothing: what the stores held they
\* still hold, and no Keyring becomes due for saving.
FailedCallsChangeNothing ==
  [][reply'.code \notin {"none", "Succeeded"}
       => /\ \A l \in Level : mem[l] \subseteq mem'[l]
          /\ modified' = modified]_vars

\* The secret key file is only ever read: whatever is called, fails or is cut
\* short by a crash, only another program changes it (publicKeyring alone has
\* its m_modified set), so no secret key is lost by an unload.
SecretFileIsOnlyRead ==
  [][\/ file'[SECRET] = file[SECRET] /\ stored'[SECRET] = stored[SECRET]
     \/ \E S \in KeyBlocks : Foreign(SECRET, S)]_vars

Listings == {"collectionNames", "secretNames", "findSecrets",
             "storedKeyIdentifiers"}

\* No listing offers a key that is not loaded, whatever it was asked for and
\* whether or not a keyring could be opened.
ListedKeysAreLoaded ==
  reply.op \in Listings
    => reply.names \cap Key \subseteq mem[PUBLIC] \cup mem[SECRET]

\* No verification succeeds about a key that is not loaded, and none about a
\* subkey: toSignature never names a subkey together with its primary's keyid.
SuccessNamesLoadedPrimary ==
  reply.verdict = "Succeeded"
    => reply.names \subseteq Primary \cap (mem[PUBLIC] \cup mem[SECRET])

\* A verification or a decryption succeeds only by a valid signature of the very
\* key that the caller named, by its keyid and by the fingerprint of its primary
\* key; and no earlier signature of that key was found otherwise: one that is not
\* valid decides, unless librnp fails to look for its key.
SuccessIsByTheNamedKey ==
  [][reply'.verdict = "Succeeded" =>
       \A ck \in CryptoKeys, msg \in Messages :
         Verify(msg, ck) \/ Decrypt(msg, ck) =>
           \E i \in DOMAIN msg.sigs :
             /\ msg.sigs[i].by = ck.coll /\ msg.sigs[i].truth = "VALID"
             /\ Owner(ck.coll) = ck.name
             /\ \A j \in 1..(i - 1) :
                  msg.sigs[j].by = ck.coll => msg.sigs[j].truth = "ERROR"]_vars

\* Once ~Rnp has begun it comes to its end, and then every acknowledged deletion
\* that no crash, failure or other program undid has reached the public file.
UnloadCommitsDeletions ==
  phase = "close" ~> phase = "down" /\ deleted \cap stored[PUBLIC] = {}

(***************************************************************************)
(* What the comments of the repository say, and the code does not do.      *)
(***************************************************************************)
\* "stored key deletion will occur through that API" (rnpffi.h:86): a key that
\* was deleted through RnpKeys is not offered any more.  It is, once the secret
\* keyring is opened for the first time after the deletion.
DeletedKeysAreNotListed ==
  reply.op \in Listings => reply.names \cap deleted = {}

\* The same comment, about the files: after an orderly unload no key file holds
\* a deleted key.  The secret key file does, as Keyring::remove marks only the
\* public Keyring as modified.
DeletionReachesFiles ==
  phase = "down" => \A l \in Level : deleted \cap stored[l] = {}

\* The same comment, about one subkey: once its deletion was acknowledged it is in
\* neither store.  removeSecret looks for it among the subkeys that the public part
\* of the key has, and takes the removal of none for a success (rnpkeys.cpp:241,
\* rnp.cpp:640): a subkey that only the secret keyring holds stays.
AcknowledgedSecretIsGone ==
  reply.op = "removeSecret" /\ reply.code = "Succeeded"
    => \A l \in Level : reply.names \cap mem[l] = {}

\* The "import" collection is there "to be able to import keys into a collection
\* that does not exist yet" (rnpkeys.cpp:37): a key whose import succeeded is
\* available.  importAndStoreKey answers Succeeded and imports nothing.
ImportedKeysAreAvailable ==
  reply.op = "importAndStoreKey" /\ reply.code = "Succeeded"
    => \A k \in reply.names : Locates(mem, k) \/ k \in stored[PUBLIC]

\* "Import is a fake collection name to allow to search in every collections"
\* (rnpkeys.cpp:181): a search in it finds every loaded subkey that the filter
\* selects.  The test is inverted: it searches in no collection at all, and a
\* search in one collection is made in all of them.
ImportSearchesEverywhere ==
  ring[PUBLIC] = "valid"
    => \A query \in Queries : \A k \in mem[PUBLIC] \cap Subkey :
         MatchQuery(query, k) => k \in FindSecretsIn(mem, Import, query, Import)
=============================================================================
