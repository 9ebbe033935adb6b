----------------------------- MODULE KeyHandles -----------------------------
(***************************************************************************)
(* Who owns the librnp key handles: the constructors, the moves and the    *)
(* destructor of Rnp::Key (rnp/rnp.cpp), and the functions that hold Keys  *)
(* in local variables.                                                     *)
(*                                                                         *)
(* A Key holds two handles.  It owns m_key, which ~Key destroys.  m_primary*)
(* is m_key itself for a primary key; for a subkey it is either a handle   *)
(* located for the occasion, which nothing ever destroys, or a copy of the *)
(* one that the Key of the primary key owns, and may destroy first.        *)
(*                                                                         *)
(* One call is followed at a time: no Key outlives the call that made it.  *)
(***************************************************************************)
EXTENDS Librnp, Naturals

CONSTANTS
  Handle,   \* the rnp_key_handle_t that librnp may give
  NULL,     \* the null handle
  Element,  \* the elements of the array of signers of a mail
  Requests  \* the calls that are made

\* The local variables that hold a Key:
\*   key    "key" or "primary" of RnpKeys and RnpFfi, "k" of Keyring::key
\*   sub    "sub" of Key::subkey
\*   found  what Key::subkey returns into: "k", "sub" or keys[0]
Variable == {"key", "sub", "found"} \cup Element

(***************************************************************************)
(* A request: what is called, the keyid it looks up, the fingerprint it is *)
(* after, the fingerprints of the signers, the keys in the stores.  A name *)
(* that no key has is NoName.                                              *)
(*   names    RnpKeys::secretNames, RnpFfi::storedKeyIdentifiers, and the  *)
(*            key that a message was decrypted with (Rnp::decrypt)         *)
(*   find     RnpKeys::findSecrets, for one of the keyids it goes through  *)
(*   remove   RnpKeys::removeSecret                                        *)
(*   operate  RnpFfi::operation                                            *)
(*   mail     QMailCryptoRNP::sign                                         *)
(***************************************************************************)
Name    == Key \cup {NoName}
Request == [call : {"names", "find", "remove", "operate", "mail"},
            id : Name, name : Name, signers : [Element -> Name],
            keys : SUBSET Key]

ASSUME RequestsAssumption ==
  /\ NULL \notin Handle
  /\ Element \cap {"key", "sub", "found"} = {}
  /\ Requests \subseteq Request

VARIABLES
  request,    \* the call under way, or the last one
  pc,         \* what it does next, or "idle"
  keys,       \* keys[v]: the m_key and the m_primary of the variable v
  about,      \* about[h]: the key that h is a handle of, NoName if destroyed
  known,      \* the keys that the stores hold
  listed,     \* the fingerprints that findSecrets has not come to yet
  wanted,     \* the fingerprint that Key::subkey compares with
  left,       \* the subkeys, or the array elements, that a loop has not come to
  used,       \* the handles that the last step gave to librnp
  destroyed   \* the handles that it destroyed

handleVars ==
  <<request, pc, keys, about, known, listed, wanted, left, used, destroyed>>

Null       == [m_key |-> NULL, m_primary |-> NULL]
IsValid(v) == keys[v].m_key # NULL
Given(S)   == S \ {NULL}

\* Mutant: an invalid Key has a fingerprint that is not a string.
FingerprintOrNull(v) == IF IsValid(v) THEN about[keys[v].m_key] ELSE NULL

\* Key::fingerprint.
Fingerprint(v) == IF IsValid(v) THEN about[keys[v].m_key] ELSE NoName

\* A new handle is none of those that exist or that a Key still points to.
Fresh == {h \in Handle : about[h] = NoName
                           /\ \A v \in Variable : h \notin {keys[v].m_key, keys[v].m_primary}}

\* Key::Key(rnp, "keyid" or "fingerprint", k): the Key it may make.  Each of the
\* two rnp_locate_key may fail.
Located(k) ==
  {[key |-> Null, about |-> about]}
  \cup {[key |-> [m_key |-> h, m_primary |-> h], about |-> [about EXCEPT ![h] = k]] :
          h \in {h \in Fresh : k \in known \cap Primary}}
  \cup {[key |-> [m_key |-> h, m_primary |-> NULL], about |-> [about EXCEPT ![h] = k]] :
          h \in {h \in Fresh : k \in known \cap Subkey}}
  \cup {[key   |-> [m_key |-> hg[1], m_primary |-> hg[2]],
         about |-> [about EXCEPT ![hg[1]] = k, ![hg[2]] = PrimaryOf[k]]] :
          hg \in {hg \in Fresh \X Fresh : hg[1] # hg[2] /\ k \in known \cap Subkey
                                            /\ PrimaryOf[k] \in known}}

\* Mutant: only a Key that is its own primary destroys its handle.
DestroysPrimary(v) ==
  /\ destroyed' = Given({keys[v].m_key} \cap {keys[v].m_primary})
  /\ about' = [h \in Handle |-> IF h \in destroyed' THEN NoName ELSE about[h]]

\* Key::~Key: m_primary is left alone.
Destroys(v) ==
  /\ destroyed' = Given({keys[v].m_key})
  /\ about' = [h \in Handle |-> IF h = keys[v].m_key THEN NoName ELSE about[h]]

\* The subkeys that rnp_key_get_subkey_count counts: none for a subkey.
SubkeysOfKey == IF Fingerprint("key") \in Primary
                THEN SubkeysOf(Fingerprint("key")) \cap known ELSE {}

Starts(r) ==
  /\ request' = r
  /\ known' = r.keys
  /\ pc' = IF r.call = "mail" THEN "fetch" ELSE "locate"
  /\ left' = IF r.call = "mail" THEN Element ELSE {}
  /\ listed' = {} /\ wanted' = NoName
  /\ keys' = [v \in Variable |-> Null]
  /\ about' = [h \in Handle |-> NoName]
  /\ used' = {} /\ destroyed' = {}

\* Another call is made.  What the last one left behind is not looked at again.
Call(r) == pc = "idle" /\ Starts(r)

\* Where a call goes once it has located the key it was given.
After(k, valid) ==
  IF request.call \in {"names", "find"} THEN "list"
  ELSE IF request.call = "operate" THEN (IF k = request.name THEN "take" ELSE "seek")
  ELSE IF ~valid THEN "exit"
  ELSE IF request.name \in {k, NoName} THEN "remove" ELSE "seek"

\* Keyring::key(const QString &), and the comparison of its fingerprint.
Locate ==
  /\ pc = "locate"
  /\ \E c \in Located(request.id) :
       /\ keys' = [keys EXCEPT !["key"] = c.key]
       /\ about' = c.about
       /\ LET valid == c.key.m_key # NULL
          IN  pc' = After(IF valid THEN request.id ELSE NoName, valid)
  /\ wanted' = request.name
  /\ used' = {} /\ destroyed' = {}
  /\ UNCHANGED <<request, known, listed, left>>

\* Key::fingerprints.  The handles of the subkeys are destroyed one by one.
List ==
  /\ pc = "list"
  /\ listed' = {Fingerprint("key")}
                 \cup (IF keys["key"].m_key = keys["key"].m_primary THEN SubkeysOfKey ELSE {})
  /\ pc' = IF request.call = "find" THEN "each" ELSE "exit"
  /\ used' = Given({keys["key"].m_key}) /\ destroyed' = {}
  /\ UNCHANGED <<request, keys, about, known, wanted, left>>

\* The loop of findSecrets over the fingerprints.
Each ==
  /\ pc = "each"
  /\ \E n \in listed : wanted' = n /\ listed' = listed \ {n}
  /\ pc' = "seek"
  /\ used' = {} /\ destroyed' = {}
  /\ UNCHANGED <<request, keys, about, known, left>>

AllListed ==
  /\ pc = "each" /\ listed = {}
  /\ pc' = "exit"
  /\ used' = {} /\ destroyed' = {}
  /\ UNCHANGED <<request, keys, about, known, listed, wanted, left>>

\* Key::subkey begins.
Seek ==
  /\ pc = "seek"
  /\ left' = SubkeysOfKey
  /\ pc' = "scan"
  /\ used' = Given({keys["key"].m_key}) /\ destroyed' = {}
  /\ UNCHANGED <<request, keys, about, known, listed, wanted>>

\* Key::Key(const Key &, size_t): m_primary is copied, and m_key is its own,
\* or null when rnp_key_get_subkey_at fails.
TrySub ==
  /\ pc = "scan"
  /\ \E s \in left, h \in Fresh \cup {NULL} :
       /\ h # NULL => keys["key"].m_primary # NULL
       /\ keys' = [keys EXCEPT !["sub"] = [m_key     |-> h,
                                           m_primary |-> keys["key"].m_primary]]
       /\ about' = [g \in Handle |-> IF g = h THEN s ELSE about[g]]
       /\ left' = left \ {s}
  /\ pc' = "compare"
  /\ used' = Given({keys["key"].m_primary}) /\ destroyed' = {}
  /\ UNCHANGED <<request, known, listed, wanted>>

\* Not the one: the Key of this iteration is destroyed.
NotThisSub ==
  /\ pc = "compare" /\ Fingerprint("sub") # wanted
  /\ Destroys("sub")
  /\ keys' = [keys EXCEPT !["sub"] = Null]
  /\ pc' = "scan"
  /\ used' = Given({keys["sub"].m_key})
  /\ UNCHANGED <<request, known, listed, wanted, left>>

\* Mutant: the Key moved from keeps its handles.
Copied(v, w) == [keys EXCEPT ![w] = keys[v]]

\* Key::Key(Key &&) and operator=: whatever w held is overwritten.
Moved(v, w) == [keys EXCEPT ![w] = keys[v], ![v] = Null]

\* Where a call goes with what Key::subkey returned.
WithSub ==
  IF request.call = "find" THEN "describe"
  ELSE IF request.call = "operate" THEN "drop" ELSE "remove"

ThisSub ==
  /\ pc = "compare" /\ Fingerprint("sub") = wanted
  /\ keys' = Moved("sub", "found")
  /\ pc' = WithSub
  /\ used' = Given({keys["sub"].m_key}) /\ destroyed' = {}
  /\ UNCHANGED <<request, about, known, listed, wanted, left>>

NoSuchSub ==
  /\ pc = "scan" /\ left = {}
  /\ keys' = [keys EXCEPT !["found"] = Null]
  /\ pc' = WithSub
  /\ used' = {} /\ destroyed' = {}
  /\ UNCHANGED <<request, about, known, listed, wanted, left>>

\* Keyring::key(const Sailfish::Crypto::Key &) returns its own Key ...
TakeKey ==
  /\ pc = "take"
  /\ keys' = Moved("key", "found")
  /\ pc' = "use"
  /\ used' = {} /\ destroyed' = {}
  /\ UNCHANGED <<request, about, known, listed, wanted, left>>

\* ... or that of a subkey, and destroys its own, with the m_primary of both.
DropKey ==
  /\ pc = "drop"
  /\ Destroys("key")
  /\ keys' = [keys EXCEPT !["key"] = Null]
  /\ pc' = "use"
  /\ used' = {}
  /\ UNCHANGED <<request, known, listed, wanted, left>>

\* Key::toCryptoKey, and the end of the body of the loop of findSecrets.
Describe ==
  /\ pc = "describe"
  /\ used' = Given(IF IsValid("found") THEN {keys["found"].m_key, keys["found"].m_primary} ELSE {})
  /\ Destroys("found")
  /\ keys' = [keys EXCEPT !["found"] = Null]
  /\ pc' = "each"
  /\ UNCHANGED <<request, known, listed, wanted, left>>

\* What is left of a Key that was removed.
RemovedKey(v) == [keys EXCEPT ![v].m_key = NULL]

\* Keyring::remove: m_primary is left as it is, and points nowhere if it was m_key.
Remove(v) ==
  /\ pc = "remove"
  /\ v = IF wanted \in {Fingerprint("key"), NoName} THEN "key" ELSE "found"
  /\ IsValid(v)
  /\ Destroys(v)
  /\ keys' = RemovedKey(v)
  /\ known' = known \ ({Fingerprint(v)} \cup SubkeysOf(Fingerprint(v)))
  /\ pc' = "exit"
  /\ used' = {keys[v].m_key}
  /\ UNCHANGED <<request, listed, wanted, left>>

\* rnp_key_remove refuses, or it is given the null handle.
RemoveFails ==
  /\ pc = "remove"
  /\ used' = Given({IF wanted \in {Fingerprint("key"), NoName} THEN keys["key"].m_key
                                                              ELSE keys["found"].m_key})
  /\ pc' = "exit" /\ destroyed' = {}
  /\ UNCHANGED <<request, keys, about, known, listed, wanted, left>>

\* signers[i] = fromFingerprint(fp): the first that is not valid ends the call.
Fetch(e) ==
  /\ pc = "fetch" /\ e \in left
  /\ \E c \in Located(request.signers[e]) :
       /\ keys' = [keys EXCEPT ![e] = c.key]
       /\ about' = c.about
       /\ pc' = IF c.key.m_key = NULL THEN "exit"
                ELSE IF left = {e} THEN "use" ELSE "fetch"
  /\ left' = left \ {e}
  /\ used' = {} /\ destroyed' = {}
  /\ UNCHANGED <<request, known, listed, wanted>>

\* Mutant: the keys are described as well, with the handles of their primary keys.
PassedOnWhole == UNION {{keys[v].m_key, keys[v].m_primary} : v \in Element \cup {"found"}}

\* The handles that an array of Keys is turned into (operator rnp_key_handle_t).
PassedOn == {keys[v].m_key : v \in Element \cup {"found"}}

\* Rnp::sign and Rnp::encrypt.
Operate ==
  /\ pc = "use"
  /\ used' = Given(PassedOn)
  /\ pc' = "exit" /\ destroyed' = {}
  /\ UNCHANGED <<request, keys, about, known, listed, wanted, left>>

\* The call returns: its variables are destroyed one after the other.
Unwind(v) ==
  /\ pc = "exit" /\ keys[v] # Null
  /\ Destroys(v)
  /\ keys' = [keys EXCEPT ![v] = Null]
  /\ used' = {}
  /\ UNCHANGED <<request, pc, known, listed, wanted, left>>

Return ==
  /\ pc = "exit" /\ \A v \in Variable : keys[v] = Null
  /\ pc' = "idle"
  /\ used' = {} /\ destroyed' = {}
  /\ UNCHANGED <<request, keys, about, known, listed, wanted, left>>

HandleInit ==
  /\ request \in Requests
  /\ pc = "idle" /\ known = request.keys
  /\ keys = [v \in Variable |-> Null]
  /\ about = [h \in Handle |-> NoName]
  /\ listed = {} /\ wanted = NoName /\ left = {}
  /\ used = {} /\ destroyed = {}

HandleNext ==
  \/ \E r \in Requests : Call(r)
  \/ Locate \/ List \/ Each \/ AllListed
  \/ Seek \/ TrySub \/ NotThisSub \/ ThisSub \/ NoSuchSub
  \/ TakeKey \/ DropKey \/ Describe
  \/ \E v \in {"key", "found"} : Remove(v)
  \/ RemoveFails
  \/ \E e \in Element : Fetch(e)
  \/ Operate
  \/ \E v \in Variable : Unwind(v)
  \/ Return

HandleSpec == HandleInit /\ [][HandleNext]_handleVars

(***************************************************************************)
(* Properties.                                                             *)
(***************************************************************************)
HandleOrNull == Handle \cup {NULL}

\* Every variable has its type.
HandleTypeOK ==
  /\ request \in Requests
  /\ pc \in {"idle", "locate", "fetch", "list", "each", "seek", "scan", "compare",
             "take", "drop", "describe", "remove", "use", "exit"}
  /\ keys \in [Variable -> [m_key : HandleOrNull, m_primary : HandleOrNull]]
  /\ about \in [Handle -> Name]
  /\ known \in SUBSET Key
  /\ listed \in SUBSET Name /\ wanted \in Name
  /\ left \in SUBSET (IF request.call = "mail" THEN Element ELSE Subkey)
  /\ used \in SUBSET Handle /\ destroyed \in SUBSET Handle

\* No two Keys own the same handle, whatever was moved and copied, and a handle
\* that a Key owns exists: ~Key never destroys one twice.
EachHandleHasOneOwner ==
  \A v \in Variable : IsValid(v) =>
    /\ about[keys[v].m_key] # NoName
    /\ \A w \in Variable \ {v} : keys[w].m_key # keys[v].m_key

\* librnp is never given a handle that was destroyed, nor asked anything about a
\* key that was removed: m_primary is not used after its owner is gone, although
\* the Key of a subkey may outlive that of its primary key.
UsesLiveHandles ==
  [][/\ \A h \in used' : about[h] \in known
     /\ \A h \in destroyed' : about[h] # NoName]_handleVars

\* The names that a call locates keys by.
LookedUp == IF request.call = "mail" THEN {request.signers[e] : e \in Element}
            ELSE {request.id}

\* The only handles that nothing owns, and that are still there when the call
\* has returned, are those of the primary keys of subkeys that were looked up by
\* their own names: a call that goes by primary keys, as every name from
\* Keyring::keyids does, leaves none.
OnlyPrimariesAreLeftBehind ==
  \A h \in Handle : about[h] # NoName =>
    \/ \E v \in Variable : keys[v].m_key = h
    \/ \E s \in LookedUp \cap Subkey : about[h] = PrimaryOf[s]
=============================================================================
