-------------------------- MODULE RnpPluginProofs ---------------------------
(***************************************************************************)
(* Proofs about RnpPlugin, for every set of keys, every set of messages,   *)
(* queries and crypto keys, and every combination of faults.               *)
(***************************************************************************)
EXTENDS RnpPlugin, TLAPS

USE DEF Level, PUBLIC, SECRET

(***************************************************************************)
(* Operators.                                                              *)
(***************************************************************************)
\* What opening a keyring (Rnp::publicKeyring, Rnp::secretKeyring) can do: it
\* concerns one level, an open Keyring stays as it is, and a new one is valid
\* only when it has taken all that its file holds.
LEMMA UsedRingEffect ==
  ASSUME RingsTypeOK, NEW l \in Level, NEW o \in UsedRing(l)
  PROVE  /\ o.ring \in [Level -> {"null", "invalid", "valid"}]
         /\ o.mem \in Stores
         /\ \A j \in Level :
              /\ ring[j] # "null" => o.ring[j] = ring[j]
              /\ o.mem[j] = mem[j] \/ o.mem[j] = mem[j] \cup stored[j]
              /\ o.mem[j] # mem[j] => ring[j] = "null" /\ o.ring[j] = "valid"
              /\ ring[j] = "null" /\ o.ring[j] = "valid"
                   => o.mem[j] = mem[j] \cup stored[j]
<1>1. CASE ring[l] # "null"
  BY <1>1 DEF UsedRing, RingsTypeOK, Stores
<1>2. CASE ring[l] = "null"
  <2>1. CASE o = Opened(l)
    BY <1>2, <2>1 DEF Opened, RingsTypeOK, Stores
  <2>2. CASE o = Refused(l)
    BY <1>2, <2>2 DEF Refused, RingsTypeOK, Stores
  <2>3. QED
    BY <1>2, <2>1, <2>2 DEF UsedRing
<1>3. QED
  BY <1>1, <1>2

\* A step is quiet, opens a keyring at most, is a deletion, or belongs to the
\* life of the plugin object and its files.
LEMMA StepKinds ==
  ASSUME Next
  PROVE  \/ ReadsNothing
         \/ \E l \in Level : \E o \in UsedRing(l) : Reads(o) /\ phase = "up"
         \/ \E c \in Collections, n \in Names : c # Import /\ RemoveSecret(c, n)
         \/ Life
         \/ \E l \in Level, S \in KeyBlocks : Foreign(l, S)
<1>1. ASSUME NEW c \in Collections, NEW n \in Names, RemoveSecret(c, n)
      PROVE  ReadsNothing \/ (c # Import /\ RemoveSecret(c, n))
  BY <1>1 DEF RemoveSecret
<1>2. CASE Storage
  <2>1. NoName \in Names /\ NoName \in Collections
    BY DEF Names, Collections
  <2>2. QED
    BY <1>1, <1>2, <2>1 DEF Storage, CollectionNames, SecretNames, FindSecrets,
       RemoveCollection, RemoveStandaloneSecret, IsCollectionLocked, UnsupportedStorage
<1>3. CASE KeyManagement
  BY <1>3 DEF KeyManagement, GenerateKey, GenerateAndStoreKey, ImportKey,
     ImportAndStoreKey, StoredKey, StoredKeyIdentifiers
<1>4. CASE Cryptography
  BY <1>4 DEF Cryptography, Sign, Encrypt, Verify, Decrypt, UnsupportedCrypto
<1>5. QED
  BY <1>2, <1>3, <1>4 DEF Next

\* The names that lookups give are names of keys, or the empty name.
LEMMA LookupNames ==
  ASSUME NEW m
  PROVE  /\ KeyIds(m) \subseteq Names
         /\ \A c \in Collections \ {Import} :
              Fingerprints(m, KeyAt(m, c)) \subseteq Names
         /\ \A k, n : SubkeyAt(m, k, n) \in Subkey \cup {NoName}
         /\ \A ck \in CryptoKey : NamedKey(m, ck.coll, ck.name) \in Names
<1>1. KeyIds(m) \subseteq Names
  BY DEF KeyIds, Names, Key
<1>2. \A c : KeyAt(m, c) \in {c, NoName}
  BY DEF KeyAt
<1>3. \A c \in Collections \ {Import} : Fingerprints(m, KeyAt(m, c)) \subseteq Names
  BY <1>2 DEF Fingerprints, SubkeysAt, SubkeysOf, Names, Key, Collections
<1>4. \A k, n : SubkeyAt(m, k, n) \in Subkey \cup {NoName}
  BY DEF SubkeyAt, SubkeysAt, SubkeysOf
<1>5. ASSUME NEW ck \in CryptoKey
      PROVE  NamedKey(m, ck.coll, ck.name) \in Names
  BY <1>2, <1>4 DEF NamedKey, CryptoKey, Names, Key
<1>6. QED
  BY <1>1, <1>3, <1>4, <1>5

\* A search finds subkeys, or the empty name.
LEMMA SearchNames ==
  ASSUME NEW m, NEW c, NEW query
  PROVE  FindSecretsIn(m, c, query, Import) \subseteq Names
<1>1. ASSUME NEW id
      PROVE  Candidates(m, id) \subseteq Names
  BY LookupNames DEF Candidates, Names, Key
<1>2. QED
  BY <1>1 DEF FindSecretsIn

\* toSignature gives a Finding for every signature.
LEMMA ToSignatureType ==
  ASSUME NEW m, NEW sig \in Signature
  PROVE  ToSignature(m, sig) \in Finding
<1>1. sig.by \in Key /\ sig.truth \in Truth
  BY DEF Signature
<1>2. Owner(sig.by) \in Key
  BY <1>1, KeysAssumption DEF Owner, Key
<1>3. sig.truth # "ERROR" => sig.truth \in Status
  BY <1>1 DEF Truth, Status
<1>4. QED
  BY <1>1, <1>2, <1>3 DEF ToSignature, Finding, Status

\* The verdict about any sequence of signatures is one of enum
\* VerificationStatus.
LEMMA VerdictType ==
  ASSUME NEW m, NEW sigs \in Seq(Signature), NEW ck,
         NEW found \in {<<>>, Findings(m, sigs)}
  PROVE  Verdict(ck, found) \in Verdicts
<1>1. \A i \in DOMAIN found : found[i] \in Finding
  BY ToSignatureType DEF Findings
<1>2. CASE \E i \in DOMAIN found : Decides(ck, found, i)
  <2> DEFINE d == CHOOSE i \in DOMAIN found : Decides(ck, found, i)
  <2>1. d \in DOMAIN found
    BY <1>2
  <2>2. found[d].status \in Status
    BY <1>1, <2>1 DEF Finding
  <2>3. VerdictOf(found[d].status) \in Verdicts
    BY <2>2 DEF VerdictOf, Verdicts, Status
  <2>4. QED
    BY <1>2, <2>3 DEF Verdict
<1>3. CASE ~\E i \in DOMAIN found : Decides(ck, found, i)
  BY <1>3 DEF Verdict, Verdicts
<1>4. QED
  BY <1>2, <1>3

\* Every step gives an answer that is one of Replies.
LEMMA ReplyType ==
  ASSUME Next
  PROVE  reply' \in Replies
<1> USE DEF Replies, Ops, Codes, Verdicts, Succeed, Fail, Answer
<1>1. NoName \in Names /\ Names \subseteq Collections /\ Import \in Collections
  BY DEF Names, Collections
<1>2. ASSUME NEW c \in Collections, NEW n \in Names, RemoveSecret(c, n)
      PROVE  reply' \in Replies
  <2>1. Asked(c, n) \subseteq Collections
    BY DEF Asked, SubkeysOf, Collections, Names, Key
  <2>2. QED
    BY <1>2, <2>1 DEF RemoveSecret
<1>3. CASE Storage
  <2>1. CASE CollectionNames
    BY <1>1, <2>1, LookupNames DEF CollectionNames
  <2>2. ASSUME NEW c \in Collections, SecretNames(c)
        PROVE  reply' \in Replies
    BY <1>1, <2>2, LookupNames DEF SecretNames
  <2>3. ASSUME NEW c \in Collections, NEW query \in Queries, FindSecrets(c, query)
        PROVE  reply' \in Replies
    BY <1>1, <2>3, SearchNames DEF FindSecrets
  <2>4. QED
    BY <1>1, <1>2, <1>3, <2>1, <2>2, <2>3
       DEF Storage, RemoveCollection, RemoveStandaloneSecret, IsCollectionLocked,
           UnsupportedStorage
<1>4. CASE KeyManagement
  <2>1. ASSUME NEW c \in Collections, StoredKeyIdentifiers(c)
        PROVE  reply' \in Replies
    <3> DEFINE ids(m) == IF c = NoName THEN KeyIds(m) ELSE {c}
               found(m) == UNION {Fingerprints(m, KeyAt(m, id)) : id \in ids(m)}
    <3>1. ASSUME c # Import, NEW m
          PROVE  found(m) \subseteq Names
      <4>1. ids(m) \subseteq Collections \ {Import}
        BY <3>1, PluginAssumption, LookupNames DEF Names, Collections
      <4>2. QED
        BY <4>1, LookupNames
    <3>2. QED
      BY <1>1, <2>1, <3>1 DEF StoredKeyIdentifiers
  <2>2. \A k \in Key : {k} \subseteq Collections
    BY DEF Collections, Names
  <2>3. QED
    BY <1>4, <2>1, <2>2
       DEF KeyManagement, GenerateKey, GenerateAndStoreKey, ImportKey,
           ImportAndStoreKey, StoredKey
<1>5. CASE Cryptography
  <2>1. ASSUME NEW ck \in CryptoKeys, Sign(ck) \/ Encrypt(ck)
        PROVE  reply' \in Replies
    <3>1. ck \in CryptoKey
      BY PluginAssumption
    <3>2. QED
      BY <1>1, <2>1, <3>1, LookupNames DEF Sign, Encrypt
  <2>2. ASSUME NEW ck \in CryptoKeys, NEW msg \in Messages,
               Verify(msg, ck) \/ Decrypt(msg, ck)
        PROVE  reply' \in Replies
    <3>1. {ck.name} \subseteq Collections /\ msg.sigs \in Seq(Signature)
      BY <1>1, PluginAssumption DEF CryptoKey, Names
    <3>2. CASE Verify(msg, ck)
      <4>1. ASSUME NEW m, NEW found \in {<<>>, Findings(m, msg.sigs)}
            PROVE  Verdict(ck, found) \in Verdicts
        BY <3>1, VerdictType
      <4>2. QED
        BY <3>1, <3>2, <4>1 DEF Verify
    <3>3. CASE Decrypt(msg, ck)
      BY <3>1, <3>3, VerdictType DEF Decrypt
    <3>4. QED
      BY <2>2, <3>2, <3>3
  <2>3. QED
    BY <1>5, <2>1, <2>2 DEF Cryptography, UnsupportedCrypto
<1>6. CASE Life \/ \E l \in Level, S \in KeyBlocks : Foreign(l, S)
  BY <1>6 DEF Life, Load, Unload, CloseRing, TruncateFile, WriteFile, WriteFails,
              HostCrash, Foreign, NoCall
<1>7. QED
  BY <1>3, <1>4, <1>5, <1>6 DEF Next

\* What Key::remove leaves: stores, that hold no more than before; a failed
\* removal leaves them as they are.
LEMMA RemoveEffect ==
  ASSUME NEW m \in Stores, NEW k
  PROVE  /\ AfterRemove(m, k) \in Stores
         /\ \A l \in Level : AfterRemove(m, k)[l] \subseteq m[l]
         /\ ~RemoveOk(m, k) => AfterRemove(m, k) = m
BY DEF AfterRemove, Removed, Stores

(***************************************************************************)
(* Type correctness.                                                       *)
(***************************************************************************)
LEMMA TypeInit == Init => TypeOK
<1> SUFFICES ASSUME Init PROVE TypeOK
  OBVIOUS
<1>1. RingsTypeOK
  <2>1. KeyBlocks \subseteq SUBSET Key
    BY DEF KeyBlocks
  <2>2. QED
    BY <2>1 DEF Init, RingsInit, RingsTypeOK, Stores, NoKeys
<1>2. QED
  BY <1>1 DEF Init, TypeOK, Replies, Ops, Codes, Verdicts

LEMMA TypeStep == TypeOK /\ [Next]_vars => TypeOK'
<1> SUFFICES ASSUME TypeOK, [Next]_vars PROVE TypeOK'
  OBVIOUS
<1> USE DEF TypeOK, fileVars, rnpVars, hostVars, ringsVars
<1>1. CASE UNCHANGED vars
  BY <1>1 DEF vars, RingsTypeOK
<1>2. CASE Next
  <2> DEFINE HistoryOK == owed \in SUBSET Key /\ deleted \in SUBSET Key
  <2>1. reply' \in Replies
    BY <1>2, ReplyType
  <2>2. CASE ReadsNothing
    BY <2>1, <2>2 DEF ReadsNothing, RingsTypeOK
  <2>3. ASSUME NEW l \in Level, NEW o \in UsedRing(l), Reads(o)
        PROVE  RingsTypeOK' /\ HistoryOK'
    <3>1. OwedOnce(o) \in SUBSET Key
      BY DEF OwedOnce, RingsTypeOK
    <3>2. QED
      BY <2>3, <3>1, UsedRingEffect DEF Reads, RingsTypeOK
  <2>4. ASSUME NEW c \in Collections, NEW n \in Names, c # Import, RemoveSecret(c, n)
        PROVE  RingsTypeOK' /\ HistoryOK'
    <3>1. Asked(c, n) \subseteq Key
      BY DEF Asked, SubkeysOf, Key
    <3>2. PICK o \in UsedRing(PUBLIC) :
            /\ ring' = o.ring
            /\ mem' = o.mem \/ \E k : mem' = AfterRemove(o.mem, k)
            /\ MarksModified \/ UNCHANGED modified
            /\ \/ owed' = OwedOnce(o) /\ UNCHANGED deleted
               \/ /\ owed' = OwedOnce(o) \ Asked(c, n)
                  /\ deleted' = deleted \cup Asked(c, n)
      BY <2>4 DEF RemoveSecret
    <3>3. OwedOnce(o) \in SUBSET Key
      BY DEF OwedOnce, RingsTypeOK
    <3>4. ring' \in [Level -> {"null", "invalid", "valid"}] /\ mem' \in Stores
      BY <3>2, UsedRingEffect, RemoveEffect
    <3>5. modified' \in [Level -> BOOLEAN]
      BY <3>2 DEF MarksModified, RingsTypeOK
    <3>6. HistoryOK'
      BY <3>1, <3>2, <3>3
    <3>7. QED
      BY <2>4, <3>4, <3>5, <3>6 DEF RemoveSecret, RingsTypeOK
  <2>5. CASE Life
    <3>1. Spoils => HistoryOK'
      BY DEF Spoils
    <3>2. HistoryOK'
      BY <2>5, <3>1 DEF Life, Load, Unload, CloseRing, TruncateFile, WriteFile,
         WriteFails, HostCrash
    <3>3. Release => /\ mem' \in Stores /\ ring' \in [Level -> {"null", "invalid", "valid"}]
                     /\ modified' \in [Level -> BOOLEAN]
                     /\ phase' \in {"close", "down"} /\ cursor' \in Level
      BY DEF Release, RingsTypeOK, Stores, NoKeys
    <3>4. \A l \in Level : CutShort(l) => /\ stored' \in [Level -> SUBSET Key]
                                          /\ file' \in [Level -> {"absent", "torn", "whole"}]
      BY DEF CutShort, KeyBlocks, RingsTypeOK
    <3>5. ASSUME Load \/ Unload \/ CloseRing
          PROVE  RingsTypeOK'
      BY <3>3, <3>5 DEF Load, Unload, CloseRing, Create, Destroy, SkipSave, RingsTypeOK
    <3>6. ASSUME TruncateFile \/ WriteFile
          PROVE  RingsTypeOK'
      BY <3>3, <3>6 DEF TruncateFile, WriteFile, OpenOutput, Save, RingsTypeOK, Stores
    <3>7. ASSUME WriteFails \/ HostCrash
          PROVE  RingsTypeOK'
      <4>1. cursor \in Level
        BY DEF RingsTypeOK
      <4>2. /\ stored' \in [Level -> SUBSET Key]
            /\ file' \in [Level -> {"absent", "torn", "whole"}]
        BY <3>4, <3>7, <4>1 DEF WriteFails, HostCrash, SaveFails, Crash, RingsTypeOK
      <4>3. QED
        BY <3>3, <3>7, <4>2 DEF WriteFails, HostCrash, SaveFails, Crash, RingsTypeOK,
           Stores, NoKeys
    <3>8. RingsTypeOK'
      BY <2>5, <3>5, <3>6, <3>7 DEF Life
    <3>9. QED
      BY <2>1, <3>2, <3>8
  <2>6. ASSUME NEW l \in Level, NEW S \in KeyBlocks, Foreign(l, S)
        PROVE  RingsTypeOK' /\ HistoryOK'
    <3>1. S \in SUBSET Key
      BY DEF KeyBlocks
    <3>2. HistoryOK'
      BY <2>6 DEF Foreign
    <3>3. QED
      BY <2>6, <3>1, <3>2 DEF Foreign, ForeignWrite, RingsTypeOK
  <2>7. QED
    BY <1>2, <2>1, <2>2, <2>3, <2>4, <2>5, <2>6, StepKinds
<1>3. QED
  BY <1>1, <1>2

\* Every variable has its type, whatever is called in whatever order.
THEOREM TypeCorrect == Spec => []TypeOK
BY TypeInit, TypeStep, PTL DEF Spec

(***************************************************************************)
(* The promises about the key files.                                       *)
(***************************************************************************)
\* What removeSecret takes from the stores when it succeeds: from the public
\* store exactly the keys that were asked for, from the secret one all but a
\* subkey that the public part of its primary key lacks; and never a primary key
\* without its subkeys.
LEMMA RemovalEffect ==
  ASSUME NEW m \in Stores, \A l \in Level : Closed(m[l]),
         NEW c, NEW n, KeyAt(m, c) # NoName,
         RemoveOk(m, RemovalTarget(m, KeyAt(m, c), n)),
         NEW m2, m2 = AfterRemove(m, RemovalTarget(m, KeyAt(m, c), n))
  PROVE  /\ \A l \in Level : Closed(m2[l])
         /\ m[PUBLIC] \ m2[PUBLIC] \subseteq Asked(c, n)
         /\ Asked(c, n) \cap m2[PUBLIC] = {}
         /\ \A k \in Asked(c, n) \cap m2[SECRET] :
              k \in Subkey /\ Asked(c, n) = {k} /\ PrimaryOf[k] \in m2[PUBLIC]
<1> DEFINE target == RemovalTarget(m, KeyAt(m, c), n)
           flags  == RemoveFlags(m, target)
           gone   == {target} \cup (IF "SUBKEYS" \in flags THEN SubkeysOf(target) ELSE {})
<1>1. Locates(m, c) /\ KeyAt(m, c) = c /\ c \in Key /\ c # NoName
  BY KeysAssumption DEF KeyAt, Locates, Stores, Key
<1>2. \A l \in Level : m[l] \subseteq Key
  BY DEF Stores
<1>3. target # NoName => m2 = [l \in Level |-> IF l \in flags THEN m[l] \ gone ELSE m[l]]
  BY DEF AfterRemove, Removed
<1>4. target \in Key => gone = {target} \cup SubkeysOf(target)
  BY KeysAssumption DEF RemoveFlags, SubkeysOf, Key
<1>5. PUBLIC \in flags /\ (SECRET \in flags <=> target \in m[SECRET])
  BY DEF RemoveFlags
<1>6. CASE n \in {c, NoName}
  <2>1. target = c
    BY <1>1, <1>6 DEF RemovalTarget
  <2>2. Asked(c, n) = gone
    BY <1>1, <1>4, <1>6, <2>1 DEF Asked
  <2>3. m2[PUBLIC] = m[PUBLIC] \ gone
    BY <1>1, <1>3, <1>5, <2>1
  <2>4. m2[SECRET] = IF c \in m[SECRET] THEN m[SECRET] \ gone ELSE m[SECRET]
    BY <1>1, <1>3, <1>5, <2>1
  <2>5. c \notin m[SECRET] => SubkeysOf(c) \cap m[SECRET] = {}
    BY DEF Closed, SubkeysOf
  <2>6. gone = {c} \cup SubkeysOf(c)
    BY <1>1, <1>4, <2>1
  <2>7. \A l \in Level : Closed(m2[l])
    <3>1. \A x \in Subkey : PrimaryOf[x] = c => x \in gone
      BY <2>6 DEF SubkeysOf
    <3>2. \A x \in Subkey : PrimaryOf[x] # c => PrimaryOf[x] \notin gone
      BY <2>6, KeysAssumption DEF SubkeysOf
    <3>3. \A S : Closed(S) => Closed(S \ gone)
      BY <3>1, <3>2 DEF Closed
    <3>4. QED
      BY <2>3, <2>4, <3>3
  <2>8. QED
    BY <2>2, <2>3, <2>4, <2>5, <2>6, <2>7
<1>7. CASE n \notin {c, NoName}
  <2>1. target = SubkeyAt(m, c, n)
    BY <1>1, <1>7 DEF RemovalTarget
  <2>2. Asked(c, n) = {n} \cap SubkeysOf(c)
    BY <1>1, <1>7 DEF Asked
  <2>4. CASE target = NoName
    <3>1. m2 = m
      BY <2>4 DEF AfterRemove
    <3>2. Asked(c, n) \cap m[PUBLIC] = {}
      <4>1. SUFFICES ASSUME n \in SubkeysOf(c), n \in m[PUBLIC] PROVE FALSE
        BY <2>2
      <4>2. c \in m[PUBLIC] /\ c \in Primary
        BY <4>1, KeysAssumption DEF Closed, SubkeysOf
      <4>3. n \in SubkeysAt(m, c)
        BY <4>1, <4>2 DEF SubkeysAt
      <4>4. QED
        BY <1>7, <2>1, <2>4, <4>2, <4>3 DEF SubkeyAt
    <3>3. ASSUME NEW k \in Asked(c, n) \cap m2[SECRET]
          PROVE  k \in Subkey /\ Asked(c, n) = {k} /\ PrimaryOf[k] \in m2[PUBLIC]
      <4>1. k = n /\ n \in SubkeysOf(c) /\ n \in m[SECRET] /\ c \in Primary
        BY <2>2, <3>1, <3>3, KeysAssumption DEF SubkeysOf
      <4>2. n \notin SubkeysAt(m, c)
        <5>1. n # NoName
          BY <1>7
        <5>2. QED
          BY <2>1, <2>4, <4>1, <5>1 DEF SubkeyAt
      <4>3. c \in m[PUBLIC]
        BY <4>1, <4>2 DEF SubkeysAt
      <4>4. QED
        BY <2>2, <3>1, <4>1, <4>3 DEF SubkeysOf
    <3>4. QED
      BY <3>1, <3>2, <3>3
  <2>5. CASE target # NoName
    <3>1. target = n /\ n \in SubkeysOf(c)
      BY <2>1, <2>5 DEF SubkeyAt, SubkeysAt
    <3>2. gone = {n}
      BY <1>4, <3>1, KeysAssumption DEF SubkeysOf, Key
    <3>3. m2[PUBLIC] = m[PUBLIC] \ {n}
      BY <1>3, <1>5, <2>5, <3>2
    <3>4. m2[SECRET] = m[SECRET] \ {n}
      BY <1>3, <1>5, <2>5, <3>1, <3>2
    <3>5. \A l \in Level : Closed(m2[l])
      BY <3>1, <3>3, <3>4, KeysAssumption DEF Closed, SubkeysOf
    <3>6. QED
      BY <2>2, <3>1, <3>3, <3>4, <3>5
  <2>6. QED
    BY <2>4, <2>5
<1>8. QED
  BY <1>6, <1>7

LEMMA InvInit == Init => IInv
<1> SUFFICES ASSUME Init PROVE IInv
  OBVIOUS
<1>1. TypeOK
  BY TypeInit
<1>2. OnlyLoadedRingsAreSaved
  BY DEF Init, RingsInit, OnlyLoadedRingsAreSaved
<1>3. NoOrphanSubkeys
  BY DEF Init, RingsInit, NoOrphanSubkeys, NoKeys, KeyBlocks, Closed
<1>4. WritesBackWhatItOwes
  BY DEF Init, RingsInit, WritesBackWhatItOwes
<1>5. DeletionsArePending
  BY DEF Init, RingsInit, DeletionsArePending
<1>6. QED
  BY <1>1, <1>2, <1>3, <1>4, <1>5 DEF IInv

\* What a call that opens a keyring leaves of the promises, whatever it does
\* with the keyring afterwards.
LEMMA ReadsKeepInv ==
  ASSUME IInv, phase = "up", NEW l \in Level, NEW o \in UsedRing(l)
  PROVE  /\ \A j \in Level : modified[j] => o.ring[j] = "valid"
         /\ \A j \in Level : Closed(o.mem[j])
         /\ OwedOnce(o) \subseteq stored[PUBLIC]
         /\ o.ring[PUBLIC] = "valid" => OwedOnce(o) \subseteq o.mem[PUBLIC]
         /\ deleted \cap o.mem[PUBLIC] = {}
<1> USE DEF IInv, TypeOK
<1>1. \A j \in Level :
        /\ ring[j] # "null" => o.ring[j] = ring[j]
        /\ o.mem[j] = mem[j] \/ o.mem[j] = mem[j] \cup stored[j]
        /\ o.mem[j] # mem[j] => ring[j] = "null" /\ o.ring[j] = "valid"
        /\ ring[j] = "null" /\ o.ring[j] = "valid" => o.mem[j] = mem[j] \cup stored[j]
  BY UsedRingEffect
<1>2. \A j \in Level : modified[j] => o.ring[j] = "valid"
  BY <1>1 DEF OnlyLoadedRingsAreSaved
<1>3. \A j \in Level : Closed(o.mem[j])
  BY <1>1 DEF NoOrphanSubkeys, Closed
<1>4. /\ OwedOnce(o) \subseteq stored[PUBLIC]
      /\ o.ring[PUBLIC] = "valid" => OwedOnce(o) \subseteq o.mem[PUBLIC]
  BY <1>1 DEF OwedOnce, WritesBackWhatItOwes
<1>5. deleted \cap o.mem[PUBLIC] = {}
  BY <1>1 DEF DeletionsArePending, OnlyLoadedRingsAreSaved
<1>6. QED
  BY <1>2, <1>3, <1>4, <1>5

LEMMA InvStep == IInv /\ [Next]_vars => IInv'
<1> SUFFICES ASSUME IInv, [Next]_vars PROVE IInv'
  OBVIOUS
<1> DEFINE Promises == /\ OnlyLoadedRingsAreSaved
                       /\ NoOrphanSubkeys
                       /\ WritesBackWhatItOwes
                       /\ DeletionsArePending
<1> USE DEF fileVars, rnpVars, hostVars, ringsVars
<1>1. TypeOK /\ TypeOK'
  BY TypeStep DEF IInv
<1>2. /\ modified \in [Level -> BOOLEAN] /\ ring \in [Level -> {"null", "invalid", "valid"}]
      /\ mem \in Stores /\ stored \in [Level -> SUBSET Key]
      /\ cursor \in Level
  BY <1>1 DEF TypeOK, RingsTypeOK
<1>3. CASE UNCHANGED <<ringsVars, owed, deleted>>
  BY <1>1, <1>3 DEF IInv, OnlyLoadedRingsAreSaved, NoOrphanSubkeys, WritesBackWhatItOwes,
     DeletionsArePending
<1>4. ASSUME NEW l \in Level, NEW o \in UsedRing(l), Reads(o), phase = "up"
      PROVE  Promises'
  BY <1>4, ReadsKeepInv DEF IInv, Reads, OnlyLoadedRingsAreSaved, NoOrphanSubkeys,
     WritesBackWhatItOwes, DeletionsArePending
<1>5. ASSUME NEW c \in Collections, NEW n \in Names, c # Import, RemoveSecret(c, n)
      PROVE  Promises'
  <2>1. phase = "up" /\ PUBLIC \in Level /\ UNCHANGED <<fileVars, hostVars>>
    BY <1>5 DEF RemoveSecret
  <2>2. PICK o \in UsedRing(PUBLIC) :
          LET key    == KeyAt(o.mem, c)
              target == RemovalTarget(o.mem, key, n)
          IN  /\ ring' = o.ring
              /\ \/ /\ mem' = o.mem
                    /\ owed' = OwedOnce(o)
                    /\ UNCHANGED <<modified, deleted>>
                 \/ /\ Removable(o, key)
                    /\ mem' = AfterRemove(o.mem, target)
                    /\ RemoveOk(o.mem, target)
                    /\ MarksModified
                    /\ owed' = OwedOnce(o) \ Asked(c, n)
                    /\ deleted' = deleted \cup Asked(c, n)
    <3>1. \A o \in UsedRing(PUBLIC) : o.mem \in Stores
      BY <1>1, UsedRingEffect DEF TypeOK
    <3>2. QED
      BY <1>5, <3>1, RemoveEffect DEF RemoveSecret
  <2>3. /\ \A j \in Level : modified[j] => o.ring[j] = "valid"
        /\ \A j \in Level : Closed(o.mem[j])
        /\ OwedOnce(o) \subseteq stored[PUBLIC]
        /\ o.ring[PUBLIC] = "valid" => OwedOnce(o) \subseteq o.mem[PUBLIC]
        /\ deleted \cap o.mem[PUBLIC] = {}
    BY <2>1, ReadsKeepInv
  <2>4. CASE /\ mem' = o.mem /\ owed' = OwedOnce(o)
             /\ UNCHANGED <<modified, deleted>>
    BY <2>1, <2>2, <2>3, <2>4 DEF IInv, OnlyLoadedRingsAreSaved, NoOrphanSubkeys,
       WritesBackWhatItOwes, DeletionsArePending
  <2>5. CASE /\ Removable(o, KeyAt(o.mem, c))
             /\ mem' = AfterRemove(o.mem, RemovalTarget(o.mem, KeyAt(o.mem, c), n))
             /\ RemoveOk(o.mem, RemovalTarget(o.mem, KeyAt(o.mem, c), n))
             /\ MarksModified
             /\ owed' = OwedOnce(o) \ Asked(c, n)
             /\ deleted' = deleted \cup Asked(c, n)
    <3>1. o.ring[PUBLIC] = "valid" /\ KeyAt(o.mem, c) # NoName
      BY <2>5 DEF Removable
    <3>2. o.mem \in Stores
      BY <1>1, UsedRingEffect DEF TypeOK
    <3>3. /\ \A l \in Level : Closed(mem'[l])
          /\ o.mem[PUBLIC] \ mem'[PUBLIC] \subseteq Asked(c, n)
          /\ Asked(c, n) \cap mem'[PUBLIC] = {}
          /\ mem'[PUBLIC] \subseteq o.mem[PUBLIC]
      BY <2>3, <2>5, <3>1, <3>2, RemovalEffect, RemoveEffect
    <3>4. modified' = [modified EXCEPT ![PUBLIC] = TRUE]
      BY <2>5 DEF MarksModified
    <3>5. OnlyLoadedRingsAreSaved'
      BY <1>2, <2>2, <2>3, <3>1, <3>4 DEF OnlyLoadedRingsAreSaved
    <3>6. NoOrphanSubkeys'
      BY <2>1, <3>3 DEF IInv, NoOrphanSubkeys
    <3>7. WritesBackWhatItOwes'
      BY <2>1, <2>3, <2>5, <3>1, <3>3 DEF WritesBackWhatItOwes
    <3>8. DeletionsArePending'
      BY <1>2, <2>1, <2>3, <2>5, <3>3, <3>4 DEF DeletionsArePending
    <3>9. QED
      BY <3>5, <3>6, <3>7, <3>8
  <2>6. QED
    BY <2>2, <2>4, <2>5
<1>6. ASSUME Life
      PROVE  Promises'
  <2>1. ASSUME Load \/ Unload
        PROVE  Promises'
    BY <2>1 DEF IInv, Load, Unload, Create, Destroy, OnlyLoadedRingsAreSaved,
       NoOrphanSubkeys, WritesBackWhatItOwes, DeletionsArePending
  <2>2. ASSUME TruncateFile
        PROVE  Promises'
    <3>1. /\ phase = "close" /\ modified[cursor]
          /\ stored' = [stored EXCEPT ![cursor] = {}]
          /\ phase' = "write"
          /\ UNCHANGED <<mem, ring, modified, cursor, owed, deleted>>
      BY <2>2 DEF TruncateFile, OpenOutput
    <3>2. WritesBackWhatItOwes'
      BY <1>2, <3>1 DEF IInv, WritesBackWhatItOwes
    <3>3. OnlyLoadedRingsAreSaved' /\ NoOrphanSubkeys' /\ DeletionsArePending'
      BY <1>2, <3>1 DEF IInv, OnlyLoadedRingsAreSaved, NoOrphanSubkeys, Closed,
         DeletionsArePending
    <3>4. QED
      BY <3>2, <3>3
  <2>3. ASSUME CloseRing \/ WriteFile \/ WriteFails
        PROVE  Promises'
    <3>1. phase \in {"close", "write"} /\ Release
      BY <2>3 DEF CloseRing, WriteFile, WriteFails, SkipSave, Save, SaveFails
    <3>2. /\ ring' = [ring EXCEPT ![cursor] = "null"]
          /\ modified' = [modified EXCEPT ![cursor] = FALSE]
          /\ ring'[PUBLIC] = "null"
          /\ \A l \in Level : mem'[l] \in {mem[l], {}}
          /\ phase' # "write" /\ (phase' = "close" => cursor = PUBLIC)
      BY <1>2, <3>1 DEF Release, IInv, WritesBackWhatItOwes, Stores, NoKeys
    <3>3. OnlyLoadedRingsAreSaved'
      BY <1>2, <3>2 DEF IInv, OnlyLoadedRingsAreSaved
    <3>4. \/ CloseRing /\ UNCHANGED <<stored, owed, deleted>> /\ ~modified[cursor]
          \/ (CloseRing \/ WriteFails) /\ Spoils
          \/ WriteFile /\ UNCHANGED <<owed, deleted>>
      BY <2>3 DEF CloseRing, WriteFile, WriteFails, SkipSave
    <3>5. \/ UNCHANGED stored
          \/ WriteFile /\ stored' = [stored EXCEPT ![cursor] = mem[cursor]]
          \/ \E S \in KeyBlocks : stored' = [stored EXCEPT ![cursor] = S]
      <4>1. {} \in KeyBlocks
        BY DEF KeyBlocks, Closed
      <4>2. QED
        BY <2>3, <4>1 DEF CloseRing, WriteFile, WriteFails, SkipSave, Save, SaveFails, CutShort
    <3>6. NoOrphanSubkeys'
      BY <1>2, <3>2, <3>5 DEF IInv, NoOrphanSubkeys, KeyBlocks, Closed
    <3>7. CASE WriteFile /\ UNCHANGED <<owed, deleted>>
      <4>1. phase = "write" /\ modified[cursor] /\ ring[cursor] = "valid"
        BY <1>2, <3>7 DEF WriteFile, Save, IInv, WritesBackWhatItOwes, OnlyLoadedRingsAreSaved
      <4>2. stored' = [stored EXCEPT ![cursor] = mem[cursor]]
        BY <3>7 DEF WriteFile, Save
      <4>3. owed \subseteq stored'[PUBLIC]
        BY <1>2, <4>1, <4>2 DEF IInv, WritesBackWhatItOwes
      <4>4. WritesBackWhatItOwes'
        BY <3>2, <3>7, <4>3 DEF WritesBackWhatItOwes
      <4>5. DeletionsArePending'
        BY <1>2, <3>2, <3>7, <4>1, <4>2 DEF IInv, DeletionsArePending
      <4>6. QED
        BY <3>3, <3>6, <4>4, <4>5
    <3>8. CASE Spoils
      <4>1. WritesBackWhatItOwes'
        BY <3>2, <3>8 DEF Spoils, WritesBackWhatItOwes
      <4>2. DeletionsArePending'
        BY <3>2, <3>8 DEF Spoils, IInv, DeletionsArePending
      <4>3. QED
        BY <3>3, <3>6, <4>1, <4>2
    <3>9. CASE CloseRing /\ UNCHANGED <<stored, owed, deleted>> /\ ~modified[cursor]
      <4>1. phase = "close"
        BY <3>9 DEF CloseRing, SkipSave
      <4>2. WritesBackWhatItOwes'
        BY <3>2, <3>9, <4>1 DEF IInv, WritesBackWhatItOwes
      <4>3. DeletionsArePending'
        BY <1>2, <3>2, <3>9 DEF IInv, DeletionsArePending
      <4>4. QED
        BY <3>3, <3>6, <4>2, <4>3
    <3>10. QED
      BY <3>4, <3>7, <3>8, <3>9
  <2>4. ASSUME HostCrash
        PROVE  Promises'
    <3>1. /\ mem' = NoKeys /\ ring' = [l \in Level |-> "null"]
          /\ modified' = [l \in Level |-> FALSE] /\ phase' = "down" /\ Spoils
          /\ UNCHANGED stored \/ \E S \in KeyBlocks : stored' = [stored EXCEPT ![cursor] = S]
      BY <2>4 DEF HostCrash, Crash, CutShort
    <3>2. NoOrphanSubkeys'
      BY <1>2, <3>1 DEF IInv, NoOrphanSubkeys, NoKeys, KeyBlocks, Closed
    <3>3. QED
      BY <3>1, <3>2 DEF Spoils, NoKeys, OnlyLoadedRingsAreSaved, WritesBackWhatItOwes,
         DeletionsArePending
  <2>5. QED
    BY <1>6, <2>1, <2>2, <2>3, <2>4 DEF Life
<1>7. ASSUME NEW l \in Level, NEW S \in KeyBlocks, Foreign(l, S)
      PROVE  Promises'
  <2>1. /\ stored' = [stored EXCEPT ![l] = S]
        /\ UNCHANGED <<mem, ring, modified, phase, cursor>>
        /\ owed' = IF l = PUBLIC THEN owed \cap S ELSE owed
        /\ deleted' = deleted \ (S \ stored[l])
    BY <1>7 DEF Foreign, ForeignWrite
  <2>2. NoOrphanSubkeys'
    BY <1>2, <2>1 DEF IInv, NoOrphanSubkeys, KeyBlocks
  <2>3. OnlyLoadedRingsAreSaved'
    BY <2>1 DEF IInv, OnlyLoadedRingsAreSaved
  <2>4. WritesBackWhatItOwes'
    BY <1>2, <2>1 DEF IInv, WritesBackWhatItOwes
  <2>5. DeletionsArePending'
    BY <1>2, <2>1 DEF IInv, DeletionsArePending
  <2>6. QED
    BY <2>2, <2>3, <2>4, <2>5
<1>8. QED
  <2>1. Next => \/ UNCHANGED <<ringsVars, owed, deleted>>
                \/ \E l \in Level : \E o \in UsedRing(l) : Reads(o) /\ phase = "up"
                \/ \E c \in Collections, n \in Names : c # Import /\ RemoveSecret(c, n)
                \/ Life
                \/ \E l \in Level, S \in KeyBlocks : Foreign(l, S)
    BY StepKinds DEF ReadsNothing
  <2>2. QED
    BY <1>1, <1>3, <1>4, <1>5, <1>6, <1>7, <2>1 DEF IInv, vars

THEOREM InvHolds == Spec => []IInv
BY InvInit, InvStep, PTL DEF Spec

\* ~Keyring never truncates a key file that it did not load: m_modified is set
\* on valid Keyrings only.
THEOREM LoadedRingsAreSaved == Spec => []OnlyLoadedRingsAreSaved
<1>1. IInv => OnlyLoadedRingsAreSaved
  BY DEF IInv
<1>2. QED
  BY <1>1, InvHolds, PTL

\* Neither a store nor a key file holds a subkey without its primary key.
THEOREM OrphansNeverAppear == Spec => []NoOrphanSubkeys
<1>1. IInv => NoOrphanSubkeys
  BY DEF IInv
<1>2. QED
  BY <1>1, InvHolds, PTL

\* What the public file owes is in the public store, so that the save of
\* ~Keyring restores what its truncation destroys; and only a modified Keyring
\* has its file open.
THEOREM SavesRestoreWhatIsOwed == Spec => []WritesBackWhatItOwes
<1>1. IInv => WritesBackWhatItOwes
  BY DEF IInv
<1>2. QED
  BY <1>1, InvHolds, PTL

\* Outside the write of a key file the public key file holds every key it owes.
THEOREM KeysAreKept == Spec => []NoKeyLost
<1>1. IInv => NoKeyLost
  BY DEF IInv, WritesBackWhatItOwes, NoKeyLost
<1>2. QED
  BY <1>1, InvHolds, PTL

\* A deletion that was acknowledged and has not reached the public key file is
\* due to be saved.
THEOREM DeletionsStayPending == Spec => []DeletionsArePending
<1>1. IInv => DeletionsArePending
  BY DEF IInv
<1>2. QED
  BY <1>1, InvHolds, PTL

(***************************************************************************)
(* The answers.                                                            *)
(***************************************************************************)
\* The steps that answer for removeSecret, and those that answer with a verdict.
LEMMA Answers ==
  ASSUME Next
  PROVE  /\ reply'.op = "removeSecret"
              => \E c \in Collections, n \in Names : RemoveSecret(c, n)
         /\ reply'.verdict # "Unknown"
              => \E ck \in CryptoKeys, msg \in Messages : Verify(msg, ck) \/ Decrypt(msg, ck)
<1> USE DEF Succeed, Fail, Answer, NoCall
<1>1. NoName \in Names /\ NoName \in Collections
  BY DEF Names, Collections
<1>2. CASE Storage
  BY <1>1, <1>2 DEF Storage, CollectionNames, SecretNames, FindSecrets, RemoveSecret,
     RemoveCollection, RemoveStandaloneSecret, IsCollectionLocked, UnsupportedStorage
<1>3. CASE KeyManagement
  BY <1>3 DEF KeyManagement, GenerateKey, GenerateAndStoreKey, ImportKey,
     ImportAndStoreKey, StoredKey, StoredKeyIdentifiers
<1>4. CASE Cryptography
  BY <1>4 DEF Cryptography, Sign, Encrypt, Verify, Decrypt, UnsupportedCrypto
<1>5. CASE Life \/ \E l \in Level, S \in KeyBlocks : Foreign(l, S)
  BY <1>5 DEF Life, Load, Unload, CloseRing, TruncateFile, WriteFile, WriteFails,
     HostCrash, Foreign
<1>6. QED
  BY <1>2, <1>3, <1>4, <1>5 DEF Next

LEMMA GoneStep == IInv /\ AcknowledgedKeyIsGone /\ [Next]_vars => AcknowledgedKeyIsGone'
<1> SUFFICES ASSUME IInv, AcknowledgedKeyIsGone, [Next]_vars
             PROVE  AcknowledgedKeyIsGone'
  OBVIOUS
<1>1. CASE UNCHANGED vars
  BY <1>1 DEF vars, ringsVars, rnpVars, AcknowledgedKeyIsGone
<1>2. ASSUME NEW c \in Collections, NEW n \in Names, RemoveSecret(c, n)
      PROVE  AcknowledgedKeyIsGone'
  <2>1. CASE c = Import
    BY <2>1, <1>2 DEF RemoveSecret, Succeed, Answer, AcknowledgedKeyIsGone
  <2>2. CASE c # Import
    <3> SUFFICES ASSUME reply'.code = "Succeeded"
                 PROVE  /\ reply'.names \cap mem'[PUBLIC] = {}
                        /\ \A k \in reply'.names \cap mem'[SECRET] :
                             k \in Subkey /\ reply'.names = {k} /\ PrimaryOf[k] \in mem'[PUBLIC]
      BY DEF AcknowledgedKeyIsGone
    <3>1. PICK o \in UsedRing(PUBLIC) :
            LET target == RemovalTarget(o.mem, KeyAt(o.mem, c), n)
            IN  /\ Removable(o, KeyAt(o.mem, c)) /\ RemoveOk(o.mem, target)
                /\ mem' = AfterRemove(o.mem, target)
                /\ reply'.names = Asked(c, n)
      BY <1>2, <2>2 DEF RemoveSecret, Succeed, Fail, Answer
    <3>2. phase = "up" /\ PUBLIC \in Level
      BY <1>2 DEF RemoveSecret
    <3>3. o.mem \in Stores /\ \A l \in Level : Closed(o.mem[l])
      BY <3>2, UsedRingEffect, ReadsKeepInv DEF IInv, TypeOK
    <3>4. QED
      BY <3>1, <3>3, RemovalEffect DEF Removable
  <2>3. QED
    BY <2>1, <2>2
<1>3. CASE Next
  BY <1>2, <1>3, Answers DEF AcknowledgedKeyIsGone
<1>4. QED
  BY <1>1, <1>3

\* A collection whose deletion was acknowledged is in neither store, and neither
\* are its subkeys; of a subkey only the secret part may stay, when the loaded
\* public part of its primary key lacks it.
THEOREM AcknowledgedMeansGone == Spec => []AcknowledgedKeyIsGone
<1>1. Init => AcknowledgedKeyIsGone
  BY DEF Init, AcknowledgedKeyIsGone
<1>2. QED
  BY <1>1, GoneStep, InvHolds, PTL DEF Spec

\* A finding that is VALID names the key that the signature was made by, which
\* is in a store, and the fingerprint of its primary key.
LEMMA ValidFinding ==
  ASSUME NEW m \in Stores, \A l \in Level : Closed(m[l]), NEW sig \in Signature,
         ToSignature(m, sig).status = "VALID"
  PROVE  ToSignature(m, sig).fingerprint \in Primary \cap (m[PUBLIC] \cup m[SECRET])
<1>1. sig.by \in Key
  BY DEF Signature
<1>2. Locates(m, sig.by) /\ ToSignature(m, sig).fingerprint = Owner(sig.by)
  BY DEF ToSignature
<1>3. Owner(sig.by) \in Primary
  BY <1>1, KeysAssumption DEF Owner, Key
<1>4. Owner(sig.by) \in m[PUBLIC] \cup m[SECRET]
  <2>1. CASE sig.by \in Primary
    BY <1>2, <2>1 DEF Owner, Locates
  <2>2. CASE sig.by \notin Primary
    <3>1. sig.by \in Subkey /\ Owner(sig.by) = PrimaryOf[sig.by]
      BY <1>1, <2>2 DEF Owner, Key
    <3>2. QED
      BY <1>2, <3>1 DEF Locates, Closed
  <2>3. QED
    BY <2>1, <2>2
<1>5. QED
  BY <1>2, <1>3, <1>4

LEMMA VerdictNamesLoaded ==
  ASSUME NEW m \in Stores, \A l \in Level : Closed(m[l]), NEW sigs \in Seq(Signature),
         NEW found \in {<<>>, Findings(m, sigs)}, NEW ck,
         Verdict(ck, found) = "Succeeded"
  PROVE  ck.name \in Primary \cap (m[PUBLIC] \cup m[SECRET])
<1> DEFINE d == CHOOSE i \in DOMAIN found : Decides(ck, found, i)
<1>1. \E i \in DOMAIN found : Decides(ck, found, i)
  BY DEF Verdict
<1>2. d \in DOMAIN found /\ Decides(ck, found, d)
  BY <1>1
<1>3. VerdictOf(found[d].status) = "Succeeded"
  BY <1>1 DEF Verdict
<1>4. found = Findings(m, sigs) /\ d \in DOMAIN sigs /\ found[d] = ToSignature(m, sigs[d])
  BY <1>2 DEF Findings
<1>5. sigs[d] \in Signature
  BY <1>4
<1>6. found[d] \in Finding
  BY <1>4, <1>5, ToSignatureType
<1>7. found[d].status = "VALID"
  BY <1>3, <1>6 DEF VerdictOf, Finding, Status
<1>8. ck.name = found[d].fingerprint
  BY <1>2 DEF Decides, Matches
<1>9. QED
  BY <1>4, <1>5, <1>7, <1>8, ValidFinding

LEMMA SuccessStep ==
  IInv /\ SuccessNamesLoadedPrimary /\ [Next]_vars => SuccessNamesLoadedPrimary'
<1> SUFFICES ASSUME IInv, SuccessNamesLoadedPrimary, [Next]_vars
             PROVE  SuccessNamesLoadedPrimary'
  OBVIOUS
<1>1. CASE UNCHANGED vars
  BY <1>1 DEF vars, ringsVars, rnpVars, SuccessNamesLoadedPrimary
<1>2. ASSUME NEW ck \in CryptoKeys, NEW msg \in Messages,
             Verify(msg, ck) \/ Decrypt(msg, ck), reply'.verdict = "Succeeded"
      PROVE  reply'.names \subseteq Primary \cap (mem'[PUBLIC] \cup mem'[SECRET])
  <2>1. phase = "up"
    BY <1>2 DEF Verify, Decrypt
  <2>2. msg.sigs \in Seq(Signature)
    BY PluginAssumption
  <2>3. PICK l \in Level : \E o \in UsedRing(l) :
          \E found \in {<<>>, Findings(o.mem, msg.sigs)} :
            /\ mem' = o.mem
            /\ reply'.names = {ck.name} /\ reply'.verdict = Verdict(ck, found)
    BY <1>2 DEF Verify, Decrypt, Reads, Succeed, Fail, Answer
  <2>4. PICK o \in UsedRing(l), found \in {<<>>, Findings(mem', msg.sigs)} :
            /\ mem' = o.mem
            /\ reply'.names = {ck.name} /\ reply'.verdict = Verdict(ck, found)
    BY <2>3
  <2>5. mem' \in Stores /\ \A j \in Level : Closed(mem'[j])
    BY <2>1, <2>4, UsedRingEffect, ReadsKeepInv DEF IInv, TypeOK
  <2>6. QED
    BY <1>2, <2>2, <2>4, <2>5, VerdictNamesLoaded
<1>3. CASE Next
  BY <1>2, <1>3, Answers DEF SuccessNamesLoadedPrimary
<1>4. QED
  BY <1>1, <1>3

\* A verification that succeeds is about a primary key that is loaded.
THEOREM SuccessIsAboutLoadedPrimary == Spec => []SuccessNamesLoadedPrimary
<1>1. Init => SuccessNamesLoadedPrimary
  BY DEF Init, SuccessNamesLoadedPrimary
<1>2. QED
  BY <1>1, SuccessStep, InvHolds, PTL DEF Spec

\* The signature that a verdict of success rests on: a valid one by the named key,
\* with none by that key before it that librnp could tell about.
LEMMA VerdictIsByNamedKey ==
  ASSUME NEW m \in Stores, \A l \in Level : Closed(m[l]), NEW sigs \in Seq(Signature),
         NEW found \in {<<>>, Findings(m, sigs)}, NEW ck,
         Verdict(ck, found) = "Succeeded"
  PROVE  \E i \in DOMAIN sigs :
           /\ sigs[i].by = ck.coll /\ sigs[i].truth = "VALID"
           /\ Owner(ck.coll) = ck.name
           /\ \A j \in 1..(i - 1) : sigs[j].by = ck.coll => sigs[j].truth = "ERROR"
<1> DEFINE d == CHOOSE i \in DOMAIN found : Decides(ck, found, i)
<1>1. \E i \in DOMAIN found : Decides(ck, found, i)
  BY DEF Verdict
<1>2. d \in DOMAIN found /\ Decides(ck, found, d)
  BY <1>1
<1>3. VerdictOf(found[d].status) = "Succeeded"
  BY <1>1 DEF Verdict
<1> HIDE DEF d
<1>4. /\ found = Findings(m, sigs) /\ d \in DOMAIN sigs
      /\ \A j \in DOMAIN sigs : found[j] = ToSignature(m, sigs[j])
  BY <1>2 DEF Findings
<1>5. \A j \in DOMAIN sigs : sigs[j] \in Signature
  OBVIOUS
<1>6. found[d].status = "VALID"
  <2>1. found[d] \in Finding
    BY <1>4, <1>5, ToSignatureType
  <2>2. QED
    BY <1>3, <2>1 DEF VerdictOf, Finding, Status
<1>7. ToSignature(m, sigs[d]).status = "VALID" /\ sigs[d] \in Signature
  BY <1>4, <1>5, <1>6
<1>8. sigs[d].by \in Key /\ Locates(m, sigs[d].by) /\ sigs[d].truth = "VALID"
  BY <1>7 DEF ToSignature, Signature
<1>9. Owner(sigs[d].by) \in m[PUBLIC] \cup m[SECRET]
  BY <1>7, <1>8, ValidFinding DEF ToSignature
<1>10. found[d].keyid = sigs[d].by /\ found[d].fingerprint = Owner(sigs[d].by)
  <2>1. found[d] = ToSignature(m, sigs[d])
    BY <1>4
  <2>2. Locates(m, Owner(sigs[d].by)) /\ sigs[d].truth # "ERROR"
    BY <1>8, <1>9 DEF Locates
  <2>3. QED
    BY <1>8, <2>1, <2>2 DEF ToSignature
<1>11. /\ ck.coll = sigs[d].by /\ ck.name = Owner(sigs[d].by)
       /\ (ck.upper \/ ck.coll = NoName) /\ (ck.upper \/ ck.name = NoName)
  BY <1>2, <1>10 DEF Decides, Matches
<1>12. ASSUME NEW j \in 1..(d - 1), sigs[j].by = ck.coll, sigs[j].truth # "ERROR"
       PROVE  FALSE
  <2>1. j \in DOMAIN sigs
    BY <1>4
  <2>2. found[j] = ToSignature(m, sigs[j])
    BY <1>4, <2>1
  <2>3. found[j].keyid = ck.coll /\ found[j].fingerprint = ck.name
    BY <1>8, <1>9, <1>11, <1>12, <2>2 DEF ToSignature, Locates
  <2>4. Matches(ck, found[j])
    BY <1>11, <2>3 DEF Matches
  <2>5. QED
    BY <1>2, <2>4 DEF Decides
<1>13. QED
  BY <1>4, <1>8, <1>11, <1>12

\* A verification or decryption succeeds by a valid signature of the named key,
\* the first of that key that librnp can tell about.
THEOREM SuccessRestsOnTheNamedKey == Spec => SuccessIsByTheNamedKey
<1> DEFINE Rests == reply'.verdict = "Succeeded" =>
       \A ck \in CryptoKeys, msg \in Messages :
         Verify(msg, ck) \/ Decrypt(msg, ck) =>
           \E i \in DOMAIN msg.sigs :
             /\ msg.sigs[i].by = ck.coll /\ msg.sigs[i].truth = "VALID"
             /\ Owner(ck.coll) = ck.name
             /\ \A j \in 1..(i - 1) :
                  msg.sigs[j].by = ck.coll => msg.sigs[j].truth = "ERROR"
<1>1. ASSUME IInv, reply'.verdict = "Succeeded", NEW ck \in CryptoKeys,
             NEW msg \in Messages, Verify(msg, ck) \/ Decrypt(msg, ck)
      PROVE  \E i \in DOMAIN msg.sigs :
               /\ msg.sigs[i].by = ck.coll /\ msg.sigs[i].truth = "VALID"
               /\ Owner(ck.coll) = ck.name
               /\ \A j \in 1..(i - 1) :
                    msg.sigs[j].by = ck.coll => msg.sigs[j].truth = "ERROR"
  <2>1. phase = "up"
    BY <1>1 DEF Verify, Decrypt
  <2>2. msg.sigs \in Seq(Signature)
    BY PluginAssumption
  <2>3. PICK l \in Level : \E o \in UsedRing(l) :
          \E found \in {<<>>, Findings(o.mem, msg.sigs)} : reply'.verdict = Verdict(ck, found)
    BY <1>1 DEF Verify, Decrypt, Succeed, Fail, Answer
  <2>4. PICK o \in UsedRing(l) :
          \E found \in {<<>>, Findings(o.mem, msg.sigs)} : reply'.verdict = Verdict(ck, found)
    BY <2>3
  <2>5. o.mem \in Stores /\ \A j \in Level : Closed(o.mem[j])
    BY <1>1, <2>1, UsedRingEffect, ReadsKeepInv DEF IInv, TypeOK
  <2>6. QED
    BY <1>1, <2>2, <2>4, <2>5, VerdictIsByNamedKey
<1>2. IInv /\ [Next]_vars => [Rests]_vars
  BY <1>1
<1>3. QED
  BY <1>2, InvHolds, PTL DEF Spec, SuccessIsByTheNamedKey

\* A call that does not succeed takes no key from the stores, and makes no
\* Keyring due for saving.
THEOREM FailuresChangeNothing == Spec => FailedCallsChangeNothing
<1> DEFINE Harmless == reply'.code \notin {"none", "Succeeded"}
                         => /\ \A l \in Level : mem[l] \subseteq mem'[l]
                            /\ modified' = modified
<1>1. ASSUME IInv, Next
      PROVE  Harmless
  <2>1. CASE ReadsNothing
    BY <2>1 DEF ReadsNothing, ringsVars, rnpVars
  <2>2. ASSUME NEW l \in Level, NEW o \in UsedRing(l), Reads(o)
        PROVE  Harmless
    <3>1. \A j \in Level : mem[j] \subseteq o.mem[j]
      BY <1>1, UsedRingEffect DEF IInv, TypeOK
    <3>2. QED
      BY <2>2, <3>1 DEF Reads
  <2>3. ASSUME NEW c \in Collections, NEW n \in Names, c # Import, RemoveSecret(c, n)
        PROVE  Harmless
    <3> SUFFICES ASSUME reply'.code # "Succeeded"
                 PROVE  (\A l \in Level : mem[l] \subseteq mem'[l]) /\ modified' = modified
      OBVIOUS
    <3>1. \A o \in UsedRing(PUBLIC) :
            o.mem \in Stores /\ \A j \in Level : mem[j] \subseteq o.mem[j]
      BY <1>1, UsedRingEffect DEF IInv, TypeOK
    <3>2. QED
      BY <2>3, <3>1, RemoveEffect DEF RemoveSecret, Succeed, Fail, Answer
  <2>4. CASE Life \/ \E l \in Level, S \in KeyBlocks : Foreign(l, S)
    BY <2>4 DEF Life, Load, Unload, CloseRing, TruncateFile, WriteFile, WriteFails,
       HostCrash, Foreign, NoCall, Fail, Answer
  <2>5. QED
    BY <1>1, <2>1, <2>2, <2>3, <2>4, StepKinds
<1>2. IInv /\ [Next]_vars => [Harmless]_vars
  BY <1>1
<1>3. QED
  BY <1>2, InvHolds, PTL DEF Spec, FailedCallsChangeNothing

\* A deleted key that no store holds is loaded again by the first opening of the
\* secret keyring only: the public Keyring that deleted it is loaded already.
THEOREM DeletedKeysStayAway == Spec => DeletedKeysComeBackByLoading
<1> DEFINE Away == \A k \in deleted \cap deleted' :
                     Locates(mem', k) /\ ~Locates(mem, k)
                       => /\ ring[SECRET] = "null" /\ ring'[SECRET] = "valid"
                          /\ k \in stored[SECRET]
<1>1. ASSUME IInv, Next
      PROVE  Away
  <2>1. CASE UNCHANGED mem \/ (\A l \in Level : mem'[l] \subseteq mem[l])
    BY <2>1 DEF Locates
  <2>2. ASSUME NEW l \in Level, NEW o \in UsedRing(l), phase = "up", ring' = o.ring,
               \A j \in Level : mem'[j] \subseteq o.mem[j]
        PROVE  Away
    <3>1. \A j \in Level :
            /\ o.mem[j] = mem[j] \/ o.mem[j] = mem[j] \cup stored[j]
            /\ o.mem[j] # mem[j] => ring[j] = "null" /\ o.ring[j] = "valid"
      BY <1>1, UsedRingEffect DEF IInv, TypeOK
    <3>2. deleted \cap o.mem[PUBLIC] = {}
      BY <1>1, <2>2, ReadsKeepInv
    <3> SUFFICES ASSUME NEW k \in deleted, Locates(mem', k), ~Locates(mem, k)
                 PROVE  /\ ring[SECRET] = "null" /\ ring'[SECRET] = "valid"
                        /\ k \in stored[SECRET]
      OBVIOUS
    <3>3. k \in o.mem[SECRET] /\ k \notin mem[SECRET]
      BY <2>2, <3>2 DEF Locates
    <3>4. QED
      BY <2>2, <3>1, <3>3
  <2>3. CASE ReadsNothing
    BY <2>1, <2>3 DEF ReadsNothing, ringsVars, rnpVars
  <2>4. ASSUME NEW l \in Level, NEW o \in UsedRing(l), Reads(o), phase = "up"
        PROVE  Away
    BY <2>2, <2>4 DEF Reads
  <2>5. ASSUME NEW c \in Collections, NEW n \in Names, c # Import, RemoveSecret(c, n)
        PROVE  Away
    <3>1. PICK o \in UsedRing(PUBLIC) :
            /\ ring' = o.ring
            /\ \/ mem' = o.mem
               \/ mem' = AfterRemove(o.mem, RemovalTarget(o.mem, KeyAt(o.mem, c), n))
      BY <2>5 DEF RemoveSecret
    <3>2. phase = "up" /\ PUBLIC \in Level
      BY <2>5 DEF RemoveSecret
    <3>3. o.mem \in Stores
      BY <1>1, <3>2, UsedRingEffect DEF IInv, TypeOK
    <3>4. \A j \in Level : mem'[j] \subseteq o.mem[j]
      BY <3>1, <3>3, RemoveEffect
    <3>5. QED
      BY <2>2, <3>1, <3>2, <3>4
  <2>6. CASE Life
    <3>1. UNCHANGED mem \/ Release \/ mem' = NoKeys
      BY <2>6 DEF Life, Load, Unload, CloseRing, TruncateFile, WriteFile, WriteFails,
         HostCrash, Create, Destroy, SkipSave, OpenOutput, Save, SaveFails, Crash, rnpVars
    <3>2. mem \in Stores
      BY <1>1 DEF IInv, TypeOK, RingsTypeOK
    <3>3. UNCHANGED mem \/ \A l \in Level : mem'[l] \subseteq mem[l]
      BY <3>1, <3>2 DEF Release, NoKeys, Stores
    <3>4. QED
      BY <2>1, <3>3
  <2>7. CASE \E l \in Level, S \in KeyBlocks : Foreign(l, S)
    BY <2>1, <2>7 DEF Foreign, ForeignWrite, rnpVars
  <2>8. QED
    BY <1>1, <2>3, <2>4, <2>5, <2>6, <2>7, StepKinds
<1>2. IInv /\ [Next]_vars => [Away]_vars
  BY <1>1
<1>3. QED
  BY <1>2, InvHolds, PTL DEF Spec, DeletedKeysComeBackByLoading

(***************************************************************************)
(* The secret key file.                                                    *)
(***************************************************************************)
\* Nothing sets m_modified of the secret Keyring.
SecretIsUnmodified == ~modified[SECRET]

LEMMA UnmodifiedStep ==
  TypeOK /\ SecretIsUnmodified /\ [Next]_vars => SecretIsUnmodified'
<1> SUFFICES ASSUME TypeOK, SecretIsUnmodified, [Next]_vars
             PROVE  SecretIsUnmodified'
  OBVIOUS
<1> USE DEF SecretIsUnmodified
<1>1. modified \in [Level -> BOOLEAN]
  BY DEF TypeOK, RingsTypeOK
<1>2. CASE UNCHANGED modified
  BY <1>2
<1>3. CASE ReadsNothing \/ \E l \in Level : \E o \in UsedRing(l) : Reads(o)
  BY <1>3 DEF ReadsNothing, Reads, ringsVars, rnpVars
<1>4. ASSUME NEW c \in Collections, NEW n \in Names, c # Import, RemoveSecret(c, n)
      PROVE  SecretIsUnmodified'
  <2>1. MarksModified \/ UNCHANGED modified
    BY <1>4 DEF RemoveSecret
  <2>2. QED
    BY <1>1, <2>1 DEF MarksModified
<1>5. CASE Life
  <2>1. \/ UNCHANGED modified
        \/ Release
        \/ modified' = [l \in Level |-> FALSE]
    BY <1>5 DEF Life, Load, Unload, CloseRing, TruncateFile, WriteFile, WriteFails,
       HostCrash, Create, Destroy, SkipSave, OpenOutput, Save, SaveFails, Crash, rnpVars
  <2>2. QED
    BY <1>1, <2>1 DEF Release
<1>6. CASE \E l \in Level, S \in KeyBlocks : Foreign(l, S)
  BY <1>6 DEF Foreign, ForeignWrite, rnpVars
<1>7. CASE UNCHANGED vars
  BY <1>7 DEF vars, ringsVars, rnpVars
<1>8. QED
  BY <1>3, <1>4, <1>5, <1>6, <1>7, StepKinds

\* The steps that change a key file: they write that of ~Keyring, or belong to
\* another program.
LEMMA FileChanges ==
  ASSUME Next
  PROVE  \/ UNCHANGED fileVars
         \/ phase = "write" /\ CutShort(cursor)
         \/ /\ phase = "write" \/ modified[cursor]
            /\ \E f, S : /\ file' = [file EXCEPT ![cursor] = f]
                          /\ stored' = [stored EXCEPT ![cursor] = S]
         \/ \E l \in Level, S \in KeyBlocks : Foreign(l, S)
<1>1. CASE ReadsNothing \/ \E l \in Level : \E o \in UsedRing(l) : Reads(o)
  BY <1>1 DEF ReadsNothing, Reads, ringsVars
<1>2. CASE \E c \in Collections, n \in Names : c # Import /\ RemoveSecret(c, n)
  BY <1>2 DEF RemoveSecret
<1>3. CASE Life
  <2>1. CASE Load \/ Unload \/ CloseRing
    BY <2>1 DEF Load, Unload, CloseRing, Create, Destroy, SkipSave
  <2>2. CASE TruncateFile \/ WriteFile
    BY <2>2 DEF TruncateFile, WriteFile, OpenOutput, Save
  <2>3. CASE WriteFails \/ HostCrash
    BY <2>3 DEF WriteFails, HostCrash, SaveFails, Crash
  <2>4. QED
    BY <1>3, <2>1, <2>2, <2>3 DEF Life
<1>4. QED
  BY <1>1, <1>2, <1>3, StepKinds

\* Deletions, unloads, failing saves and crashes leave the secret key file as
\* it is: ~Keyring opens the file of a modified Keyring only, and the secret one
\* is never modified.
THEOREM SecretFileIsNeverWritten == Spec => SecretFileIsOnlyRead
<1> DEFINE Kept == \/ file'[SECRET] = file[SECRET] /\ stored'[SECRET] = stored[SECRET]
                   \/ \E S \in KeyBlocks : Foreign(SECRET, S)
<1>1. Init => SecretIsUnmodified
  BY DEF Init, RingsInit, SecretIsUnmodified
<1>2. ASSUME IInv, SecretIsUnmodified, Next
      PROVE  Kept
  <2>1. cursor \in Level /\ file = [l \in Level |-> file[l]]
          /\ stored = [l \in Level |-> stored[l]]
    BY <1>2 DEF IInv, TypeOK, RingsTypeOK
  <2>2. phase = "write" \/ modified[cursor] => cursor = PUBLIC
    BY <1>2, <2>1 DEF IInv, WritesBackWhatItOwes, SecretIsUnmodified
  <2>3. CASE UNCHANGED fileVars
    BY <2>3 DEF fileVars
  <2>4. ASSUME NEW f, NEW S, cursor = PUBLIC,
               file' = [file EXCEPT ![cursor] = f], stored' = [stored EXCEPT ![cursor] = S]
        PROVE  Kept
    BY <2>1, <2>4
  <2>5. CASE phase = "write" /\ CutShort(cursor)
    BY <2>2, <2>4, <2>5 DEF CutShort
  <2>6. ASSUME NEW l \in Level, NEW S \in KeyBlocks, Foreign(l, S)
        PROVE  Kept
    <3>1. CASE l = SECRET
      BY <2>6, <3>1
    <3>2. CASE l = PUBLIC
      BY <2>1, <2>6, <3>2 DEF Foreign, ForeignWrite
    <3>3. QED
      BY <3>1, <3>2
  <2>7. QED
    BY <1>2, <2>2, <2>3, <2>4, <2>5, <2>6, FileChanges
<1>3. IInv /\ SecretIsUnmodified /\ [Next]_vars => [Kept]_vars
  BY <1>2
<1>4. IInv => TypeOK
  BY DEF IInv
<1>5. QED
  BY <1>1, <1>3, <1>4, UnmodifiedStep, InvHolds, PTL DEF Spec, SecretFileIsOnlyRead

(***************************************************************************)
(* The listings.                                                           *)
(***************************************************************************)
\* Lookups give keys that a store holds.
LEMMA LookupsAreLoaded ==
  ASSUME NEW m \in Stores
  PROVE  /\ KeyIds(m) \subseteq m[PUBLIC] \cup m[SECRET]
         /\ \A c : Fingerprints(m, KeyAt(m, c)) \cap Key \subseteq m[PUBLIC] \cup m[SECRET]
         /\ \A k, n : SubkeyAt(m, k, n) # NoName
                      => SubkeyAt(m, k, n) \in m[PUBLIC] \cup m[SECRET]
<1>1. KeyIds(m) \subseteq m[PUBLIC] \cup m[SECRET]
  BY DEF KeyIds, Locates
<1>2. \A k : SubkeysAt(m, k) \subseteq m[PUBLIC] \cup m[SECRET]
  BY DEF SubkeysAt
<1>3. \A c : KeyAt(m, c) \in Key => KeyAt(m, c) \in m[PUBLIC] \cup m[SECRET]
  BY KeysAssumption DEF KeyAt, Locates, Key
<1>4. \A c : Fingerprints(m, KeyAt(m, c)) \cap Key \subseteq m[PUBLIC] \cup m[SECRET]
  BY <1>2, <1>3 DEF Fingerprints
<1>5. \A k, n : SubkeyAt(m, k, n) # NoName
               => SubkeyAt(m, k, n) \in m[PUBLIC] \cup m[SECRET]
  BY <1>2 DEF SubkeyAt
<1>6. QED
  BY <1>1, <1>4, <1>5

\* What a search finds a store holds.
LEMMA SearchIsLoaded ==
  ASSUME NEW m \in Stores, NEW c, NEW query
  PROVE  FindSecretsIn(m, c, query, Import) \cap Key \subseteq m[PUBLIC] \cup m[SECRET]
<1>1. NoName \notin Key
  BY KeysAssumption DEF Key
<1>2. ASSUME NEW id
      PROVE  Candidates(m, id) \cap Key \subseteq m[PUBLIC] \cup m[SECRET]
  BY <1>1, LookupsAreLoaded DEF Candidates
<1>3. QED
  BY <1>2 DEF FindSecretsIn

\* The answer of a listing is read from the stores as the call leaves them.
LEMMA ListingAnswers ==
  ASSUME TypeOK, Next, reply'.op \in Listings
  PROVE  mem' \in Stores => reply'.names \cap Key \subseteq mem'[PUBLIC] \cup mem'[SECRET]
<1> SUFFICES ASSUME mem' \in Stores
             PROVE  reply'.names \cap Key \subseteq mem'[PUBLIC] \cup mem'[SECRET]
  OBVIOUS
<1> USE DEF Succeed, Fail, Answer, NoCall
<1>1. Import \notin Key
  BY PluginAssumption
<1>2. CASE CollectionNames
  BY <1>1, <1>2, LookupsAreLoaded DEF CollectionNames, Reads
<1>3. ASSUME NEW c \in Collections, SecretNames(c)
      PROVE  reply'.names \cap Key \subseteq mem'[PUBLIC] \cup mem'[SECRET]
  BY <1>3, LookupsAreLoaded DEF SecretNames, Reads
<1>4. ASSUME NEW c \in Collections, NEW query \in Queries, FindSecrets(c, query)
      PROVE  reply'.names \cap Key \subseteq mem'[PUBLIC] \cup mem'[SECRET]
  BY <1>4, SearchIsLoaded DEF FindSecrets, Reads
<1>5. ASSUME NEW c \in Collections, StoredKeyIdentifiers(c)
      PROVE  reply'.names \cap Key \subseteq mem'[PUBLIC] \cup mem'[SECRET]
  <2> DEFINE ids(m) == IF c = NoName THEN KeyIds(m) ELSE {c}
  <2>1. \/ reply'.names = {}
        \/ reply'.names = UNION {Fingerprints(mem', KeyAt(mem', id)) : id \in ids(mem')}
    BY <1>5 DEF StoredKeyIdentifiers, Reads
  <2>2. QED
    BY <2>1, LookupsAreLoaded
<1>6. CASE Storage
  <2>1. \A c \in Collections, n \in Names : RemoveSecret(c, n) => reply'.op = "removeSecret"
    BY DEF RemoveSecret
  <2>2. NoName \in Names /\ NoName \in Collections
    BY DEF Names, Collections
  <2>3. QED
    BY <1>2, <1>3, <1>4, <1>6, <2>1, <2>2 DEF Storage, RemoveCollection,
       RemoveStandaloneSecret, IsCollectionLocked, UnsupportedStorage, Listings
<1>7. CASE KeyManagement
  BY <1>5, <1>7 DEF KeyManagement, GenerateKey, GenerateAndStoreKey, ImportKey,
     ImportAndStoreKey, StoredKey, Listings
<1>8. CASE Cryptography
  BY <1>8 DEF Cryptography, Sign, Encrypt, Verify, Decrypt, UnsupportedCrypto, Listings
<1>9. CASE Life \/ \E l \in Level, S \in KeyBlocks : Foreign(l, S)
  BY <1>9 DEF Life, Load, Unload, CloseRing, TruncateFile, WriteFile, WriteFails,
     HostCrash, Foreign, Listings
<1>10. QED
  BY <1>6, <1>7, <1>8, <1>9 DEF Next

LEMMA ListedStep == IInv /\ ListedKeysAreLoaded /\ [Next]_vars => ListedKeysAreLoaded'
<1> SUFFICES ASSUME IInv, ListedKeysAreLoaded, [Next]_vars
             PROVE  ListedKeysAreLoaded'
  OBVIOUS
<1>1. CASE UNCHANGED vars
  BY <1>1 DEF vars, ringsVars, rnpVars, ListedKeysAreLoaded
<1>2. CASE Next
  <2>1. mem' \in Stores
    BY InvStep DEF IInv, TypeOK, RingsTypeOK
  <2>2. QED
    BY <1>2, <2>1, ListingAnswers DEF IInv, ListedKeysAreLoaded
<1>3. QED
  BY <1>1, <1>2

\* A listing offers loaded keys only.
THEOREM ListingsAreLoaded == Spec => []ListedKeysAreLoaded
<1>1. Init => ListedKeysAreLoaded
  BY DEF Init, ListedKeysAreLoaded, Listings
<1>2. QED
  BY <1>1, ListedStep, InvHolds, PTL DEF Spec
=============================================================================
