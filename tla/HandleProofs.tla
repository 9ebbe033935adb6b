---------------------------- MODULE HandleProofs ----------------------------
(***************************************************************************)
(* Theorems about KeyHandles: for every set of keys, handles and requests, *)
(* each handle has one owner, librnp is given none that was destroyed, and *)
(* what is left behind are handles of primary keys.                        *)
(***************************************************************************)
EXTENDS KeyHandles, TLAPS

\* A Key that is made, or filled, was empty: what a move overwrites is nothing.
EmptyWhenFilled ==
  /\ pc = "locate" => ~IsValid("key")
  /\ pc \in {"locate", "list", "each", "seek", "scan", "take"} =>
       ~IsValid("sub") /\ ~IsValid("found")
  /\ pc = "compare" => ~IsValid("found")
  /\ pc = "describe" => ~IsValid("sub")
  /\ pc = "fetch" => \A e \in left : ~IsValid(e)

\* The calls that fill an array, and no others, fetch.
OnlyMailFetches ==
  /\ request.call = "mail" => pc \in {"fetch", "use", "exit", "idle"}
  /\ pc = "fetch" => request.call = "mail"

\* Before the call returns, the Keys are about keys that the stores hold.
HeldAreKnown ==
  pc # "exit" => \A v \in Variable : IsValid(v) => about[keys[v].m_key] \in known

\* The m_primary of the Key that was located belongs to it, or to nobody.
PrimaryIsThere ==
  pc # "exit" /\ IsValid("key") /\ keys["key"].m_primary # NULL =>
    /\ about[keys["key"].m_primary] \in known
    /\ \A w \in Variable \ {"key"} : keys[w].m_key # keys["key"].m_primary

\* The Key of a subkey is used while that of its primary key lives.
SharesPrimary ==
  /\ pc = "scan" /\ left # {} => IsValid("key")
  /\ pc = "compare" => IsValid("key") /\ keys["sub"].m_primary = keys["key"].m_primary
  /\ pc = "describe" /\ IsValid("found") =>
       IsValid("key") /\ keys["found"].m_primary = keys["key"].m_primary

\* Key::subkey goes through subkeys that the stores hold.
SubkeysAreKnown == pc \in {"scan", "compare"} => left \subseteq known

HandleInv ==
  /\ HandleTypeOK
  /\ EachHandleHasOneOwner
  /\ OnlyPrimariesAreLeftBehind
  /\ EmptyWhenFilled
  /\ OnlyMailFetches
  /\ HeldAreKnown
  /\ PrimaryIsThere
  /\ SharesPrimary
  /\ SubkeysAreKnown

\* The variables are distinct, and no name is a key's.
LEMMA Distinct ==
  /\ "key" \in Variable /\ "sub" \in Variable /\ "found" \in Variable
  /\ \A e \in Element : e \in Variable /\ e # "key" /\ e # "sub" /\ e # "found"
  /\ NoName \notin Key /\ NULL \notin Handle
  /\ \A s \in Subkey : PrimaryOf[s] \in Primary
  /\ Primary \cap Subkey = {}
BY RequestsAssumption, KeysAssumption DEF Variable, Key

\* The part of the invariant that ~Key could break.
Owned == HandleTypeOK /\ EachHandleHasOneOwner /\ OnlyPrimariesAreLeftBehind

\* ~Key destroys a handle that exists, once, and disturbs no other Key.
LEMMA Destruction ==
  ASSUME Owned, NEW v \in Variable, Destroys(v), request' = request,
         keys' \in [Variable -> [m_key : HandleOrNull, m_primary : HandleOrNull]],
         keys'[v].m_key = NULL,
         \A w \in Variable \ {v} : keys'[w] = keys[w]
  PROVE  /\ about' \in [Handle -> Name] /\ destroyed' \in SUBSET Handle
         /\ EachHandleHasOneOwner' /\ OnlyPrimariesAreLeftBehind'
         /\ \A h \in destroyed' : about[h] # NoName
         /\ \A h \in Handle : h # keys[v].m_key => about'[h] = about[h]
<1>1. about' \in [Handle -> Name] /\ destroyed' \in SUBSET Handle
  BY DEF Owned, HandleTypeOK, Destroys, Name, Given, HandleOrNull
<1>2. \A h \in Handle : h # keys[v].m_key => about'[h] = about[h]
  BY DEF Destroys
<1>3. \A h \in destroyed' : about[h] # NoName
  BY DEF Owned, HandleTypeOK, Destroys, Given, EachHandleHasOneOwner, IsValid
<1>4. EachHandleHasOneOwner'
  BY <1>2 DEF Owned, HandleTypeOK, EachHandleHasOneOwner, IsValid, HandleOrNull
<1>5. OnlyPrimariesAreLeftBehind'
  <2>1. \A h \in Handle : about'[h] # NoName => h # keys[v].m_key
    BY DEF Destroys
  <2>2. LookedUp' = LookedUp
    BY DEF LookedUp
  <2> QED
    BY <2>1, <2>2, <1>2 DEF Owned, OnlyPrimariesAreLeftBehind
<1> QED
  BY <1>1, <1>2, <1>3, <1>4, <1>5

\* What a constructor makes of new handles.
LEMMA Construction ==
  ASSUME Owned, NEW k \in Name, NEW c \in Located(k)
  PROVE  /\ c.key \in [m_key : HandleOrNull, m_primary : HandleOrNull]
         /\ c.about \in [Handle -> Name]
         /\ c.key.m_key # NULL =>
              /\ c.key.m_key \in Fresh
              /\ c.about[c.key.m_key] = k /\ k \in known
         /\ c.key.m_primary # NULL =>
              /\ c.key.m_primary \in Fresh
              /\ c.about[c.key.m_primary] \in known
         /\ \A h \in Handle : h \notin {c.key.m_key, c.key.m_primary} =>
              c.about[h] = about[h]
         /\ c.key.m_primary \notin {NULL, c.key.m_key} =>
              k \in Subkey /\ c.about[c.key.m_primary] = PrimaryOf[k]
<1> USE Distinct DEF HandleOrNull
<1>0. about \in [Handle -> Name] /\ Fresh \subseteq Handle /\ Key \subseteq Name
  BY DEF Owned, HandleTypeOK, Fresh, Name
<1>1. CASE c = [key |-> Null, about |-> about]
  BY <1>0, <1>1 DEF Null
<1>2. ASSUME NEW h \in Fresh, k \in known \cap Primary,
             c = [key |-> [m_key |-> h, m_primary |-> h], about |-> [about EXCEPT ![h] = k]]
      PROVE  c.key = [m_key |-> h, m_primary |-> h] /\ c.about = [about EXCEPT ![h] = k]
  BY <1>2
<1>3. ASSUME NEW h \in Fresh, k \in known \cap Subkey,
             c = [key |-> [m_key |-> h, m_primary |-> NULL], about |-> [about EXCEPT ![h] = k]]
      PROVE  c.key = [m_key |-> h, m_primary |-> NULL] /\ c.about = [about EXCEPT ![h] = k]
  BY <1>3
<1>4. ASSUME NEW h \in Fresh, NEW g \in Fresh, h # g, k \in known \cap Subkey,
             PrimaryOf[k] \in known, 
             c.key = [m_key |-> h, m_primary |-> g],
             c.about = [about EXCEPT ![h] = k, ![g] = PrimaryOf[k]]
      PROVE  /\ c.about \in [Handle -> Name] /\ c.about[h] = k /\ c.about[g] = PrimaryOf[k]
             /\ \A x \in Handle : x \notin {h, g} => c.about[x] = about[x]
  BY <1>0, <1>4 DEF Name, Key
<1>5. CASE \E h \in Fresh : k \in known \cap Primary /\
             c = [key |-> [m_key |-> h, m_primary |-> h], about |-> [about EXCEPT ![h] = k]]
  BY <1>0, <1>2, <1>5
<1>6. CASE \E h \in Fresh : k \in known \cap Subkey /\
             c = [key |-> [m_key |-> h, m_primary |-> NULL], about |-> [about EXCEPT ![h] = k]]
  BY <1>0, <1>3, <1>6
<1>7. CASE \E hg \in Fresh \X Fresh :
             /\ hg[1] # hg[2] /\ k \in known \cap Subkey /\ PrimaryOf[k] \in known
             /\ c = [key   |-> [m_key |-> hg[1], m_primary |-> hg[2]],
                     about |-> [about EXCEPT ![hg[1]] = k, ![hg[2]] = PrimaryOf[k]]]
  <2>1. PICK h \in Fresh, g \in Fresh :
             /\ h # g /\ k \in known \cap Subkey /\ PrimaryOf[k] \in known
             /\ c = [key   |-> [m_key |-> h, m_primary |-> g],
                     about |-> [about EXCEPT ![h] = k, ![g] = PrimaryOf[k]]]
    BY <1>7
  <2>2. /\ c.about \in [Handle -> Name] /\ c.about[h] = k /\ c.about[g] = PrimaryOf[k]
        /\ \A x \in Handle : x \notin {h, g} => c.about[x] = about[x]
    BY <1>4, <2>1
  <2> QED
    BY <1>0, <2>1, <2>2
<1> QED
  BY <1>1, <1>5, <1>6, <1>7 DEF Located

\* A new Key in an empty variable leaves the others as they are.
LEMMA Filling ==
  ASSUME Owned, NEW k \in LookedUp, k \in Name, NEW c \in Located(k),
         NEW v \in Variable, ~IsValid(v),
         keys' = [keys EXCEPT ![v] = c.key], about' = c.about, request' = request
  PROVE  /\ keys' \in [Variable -> [m_key : HandleOrNull, m_primary : HandleOrNull]]
         /\ about' \in [Handle -> Name]
         /\ EachHandleHasOneOwner' /\ OnlyPrimariesAreLeftBehind'
         /\ \A w \in Variable \ {v} : keys'[w] = keys[w]
         /\ keys'[v] = c.key
         /\ \A h \in Handle : about[h] # NoName => about'[h] = about[h]
<1> USE Distinct DEF HandleOrNull
<1>0. /\ keys \in [Variable -> [m_key : HandleOrNull, m_primary : HandleOrNull]]
      /\ about \in [Handle -> Name] /\ EachHandleHasOneOwner /\ OnlyPrimariesAreLeftBehind
  BY DEF Owned, HandleTypeOK
<1>1. /\ keys' \in [Variable -> [m_key : HandleOrNull, m_primary : HandleOrNull]]
      /\ about' \in [Handle -> Name]
      /\ \A w \in Variable \ {v} : keys'[w] = keys[w]
      /\ keys'[v] = c.key
  BY <1>0, Construction
<1>2. \A h \in Fresh : about[h] = NoName /\ \A w \in Variable : h # keys[w].m_key
  BY DEF Fresh
<1>3. \A h \in Handle : about[h] # NoName => about'[h] = about[h]
  BY <1>2, Construction
<1>4. EachHandleHasOneOwner'
  <2>1. ASSUME NEW w \in Variable, IsValid(w)'
        PROVE  /\ about'[keys'[w].m_key] # NoName
               /\ \A u \in Variable \ {w} : keys'[u].m_key # keys'[w].m_key
    <3>1. CASE w = v
      <4>1. keys'[w].m_key = c.key.m_key /\ c.key.m_key # NULL
        BY <1>1, <2>1, <3>1 DEF IsValid
      <4>2. c.key.m_key \in Fresh /\ about'[c.key.m_key] = k /\ k \in known
        BY <4>1, Construction
      <4>3. k # NoName
        BY <4>2 DEF Owned, HandleTypeOK
      <4> QED
        BY <1>1, <1>2, <3>1, <4>1, <4>2, <4>3
    <3>2. CASE w # v
      <4>1. keys'[w] = keys[w] /\ IsValid(w) /\ keys[w].m_key \in Handle
        BY <1>0, <1>1, <2>1, <3>2 DEF IsValid
      <4>2. about[keys[w].m_key] # NoName
        BY <1>0, <4>1 DEF EachHandleHasOneOwner
      <4>3. \A u \in Variable \ {w, v} : keys'[u].m_key # keys'[w].m_key
        BY <1>0, <1>1, <4>1 DEF EachHandleHasOneOwner
      <4>4. keys'[v].m_key # keys'[w].m_key
        BY <1>1, <1>2, <4>1, Construction
      <4> QED
        BY <1>3, <4>1, <4>2, <4>3, <4>4
    <3> QED
      BY <3>1, <3>2
  <2> QED
    BY <2>1 DEF EachHandleHasOneOwner
<1>5. OnlyPrimariesAreLeftBehind'
  <2>1. ASSUME NEW h \in Handle, about'[h] # NoName
        PROVE  \/ \E w \in Variable : keys'[w].m_key = h
               \/ \E s \in LookedUp \cap Subkey : about'[h] = PrimaryOf[s]
    <3>1. CASE h = c.key.m_key
      BY <1>1, <3>1
    <3>2. CASE h # c.key.m_key /\ h = c.key.m_primary
      BY <3>2, Construction
    <3>3. CASE h \notin {c.key.m_key, c.key.m_primary}
      <4>1. about'[h] = about[h]
        BY <3>3, Construction
      <4>2. \A w \in Variable : keys[w].m_key = h => keys'[w].m_key = h
        BY <1>1 DEF IsValid
      <4> QED
        BY <1>0, <2>1, <4>1, <4>2 DEF OnlyPrimariesAreLeftBehind
    <3> QED
      BY <3>1, <3>2, <3>3
  <2>2. LookedUp' = LookedUp
    BY DEF LookedUp
  <2> QED
    BY <2>1, <2>2 DEF OnlyPrimariesAreLeftBehind
<1> QED
  BY <1>1, <1>3, <1>4, <1>5

\* A move takes the handle to an empty variable.
LEMMA Moving ==
  ASSUME Owned, NEW v \in Variable, NEW w \in Variable, v # w, ~IsValid(w),
         keys' = Moved(v, w), UNCHANGED <<about, request>>
  PROVE  /\ keys' \in [Variable -> [m_key : HandleOrNull, m_primary : HandleOrNull]]
         /\ EachHandleHasOneOwner' /\ OnlyPrimariesAreLeftBehind'
         /\ keys'[v] = Null /\ keys'[w] = keys[v]
         /\ \A u \in Variable \ {v, w} : keys'[u] = keys[u]
<1> USE Distinct DEF HandleOrNull
<1>0. /\ keys \in [Variable -> [m_key : HandleOrNull, m_primary : HandleOrNull]]
      /\ EachHandleHasOneOwner /\ OnlyPrimariesAreLeftBehind
  BY DEF Owned, HandleTypeOK
<1>1. /\ keys' \in [Variable -> [m_key : HandleOrNull, m_primary : HandleOrNull]]
      /\ keys'[v] = Null /\ keys'[w] = keys[v]
      /\ \A u \in Variable \ {v, w} : keys'[u] = keys[u]
  BY <1>0 DEF Moved, Null
<1>2. EachHandleHasOneOwner'
  <2>1. keys'[v].m_key = NULL
    BY <1>1 DEF Null
  <2>2. ASSUME NEW u \in Variable \ {v}, keys'[u].m_key # NULL
        PROVE  /\ about[keys'[u].m_key] # NoName
               /\ \A x \in Variable \ {u} : keys'[x].m_key # keys'[u].m_key
    <3>1. CASE u = w
      BY <1>0, <1>1, <2>1, <2>2, <3>1 DEF EachHandleHasOneOwner, IsValid
    <3>2. CASE u # w
      BY <1>0, <1>1, <2>1, <2>2, <3>2 DEF EachHandleHasOneOwner, IsValid
    <3> QED
      BY <3>1, <3>2
  <2> QED
    BY <2>1, <2>2 DEF EachHandleHasOneOwner, IsValid
<1>3. OnlyPrimariesAreLeftBehind'
  <2>1. \A h \in Handle : \A u \in Variable : keys[u].m_key = h =>
          \E x \in Variable : keys'[x].m_key = h
    BY <1>0, <1>1 DEF IsValid
  <2>2. LookedUp' = LookedUp
    BY DEF LookedUp
  <2> QED
    BY <1>0, <2>1, <2>2 DEF OnlyPrimariesAreLeftBehind
<1> QED
  BY <1>1, <1>2, <1>3

\* The types that the next state takes from the requests.
LEMMA RequestTypes ==
  ASSUME HandleTypeOK
  PROVE  /\ request.call \in {"names", "find", "remove", "operate", "mail"}
         /\ request.id \in Name /\ request.name \in Name
         /\ \A e \in Element : request.signers[e] \in Name
         /\ \A v \in Variable : Fingerprint(v) \in Name
         /\ SubkeysOfKey \in SUBSET (Subkey \cap known)
<1>1. request \in Request
  BY RequestsAssumption DEF HandleTypeOK
<1>2. \A v \in Variable : Fingerprint(v) \in Name
  BY DEF HandleTypeOK, Fingerprint, IsValid, HandleOrNull, Name
<1>3. SubkeysOfKey \in SUBSET (Subkey \cap known)
  BY DEF SubkeysOfKey, SubkeysOf
<1> QED
  BY <1>1, <1>2, <1>3 DEF Request

\* A step that touches no Key keeps what is said about them.
LEMMA KeysUntouched ==
  ASSUME HandleInv, UNCHANGED <<keys, about, request, known>>,
         pc = "exit" => pc' = "exit" \/ \A v \in Variable : keys[v] = Null
  PROVE  /\ EachHandleHasOneOwner' /\ OnlyPrimariesAreLeftBehind'
         /\ HeldAreKnown' /\ PrimaryIsThere'
<1>1. EachHandleHasOneOwner'
  BY DEF HandleInv, EachHandleHasOneOwner, IsValid
<1>2. OnlyPrimariesAreLeftBehind'
  BY DEF HandleInv, OnlyPrimariesAreLeftBehind, LookedUp
<1>3. HeldAreKnown'
  BY DEF HandleInv, HeldAreKnown, IsValid, Null
<1>4. PrimaryIsThere'
  BY Distinct DEF HandleInv, PrimaryIsThere, IsValid, Null
<1> QED
  BY <1>1, <1>2, <1>3, <1>4

LEMMA InitHoldsInv == HandleInit => HandleInv
<1> SUFFICES ASSUME HandleInit PROVE HandleInv
  OBVIOUS
<1>0. request \in Request
  BY RequestsAssumption DEF HandleInit
<1>1. HandleTypeOK
  BY <1>0 DEF HandleInit, HandleTypeOK, Null, HandleOrNull, Name, Request
<1>2. \A v \in Variable : ~IsValid(v)
  BY DEF HandleInit, IsValid, Null
<1>3. EachHandleHasOneOwner /\ OnlyPrimariesAreLeftBehind
  BY <1>2 DEF HandleInit, EachHandleHasOneOwner, OnlyPrimariesAreLeftBehind
<1>4. EmptyWhenFilled /\ OnlyMailFetches /\ HeldAreKnown /\ PrimaryIsThere /\ SharesPrimary
        /\ SubkeysAreKnown
  BY <1>2, Distinct DEF HandleInit, SubkeysAreKnown, EmptyWhenFilled, OnlyMailFetches, HeldAreKnown,
     PrimaryIsThere, SharesPrimary
<1> QED
  BY <1>1, <1>3, <1>4 DEF HandleInv

LEMMA CallKeepsInv == ASSUME HandleInv, NEW r \in Requests, Call(r) PROVE HandleInv'
<1>0. r \in Request /\ request' = r
  BY RequestsAssumption DEF Call, Starts
<1>1. HandleTypeOK'
  BY <1>0 DEF Call, Starts, HandleTypeOK, Null, HandleOrNull, Name, Request
<1>2. \A v \in Variable : ~IsValid(v)'
  BY DEF Call, Starts, IsValid, Null
<1>3. EachHandleHasOneOwner' /\ OnlyPrimariesAreLeftBehind'
  BY <1>2 DEF Call, Starts, EachHandleHasOneOwner, OnlyPrimariesAreLeftBehind
<1>4. EmptyWhenFilled' /\ OnlyMailFetches' /\ HeldAreKnown' /\ PrimaryIsThere' /\ SharesPrimary'
        /\ SubkeysAreKnown'
  BY <1>2, Distinct DEF Call, SubkeysAreKnown, Starts, EmptyWhenFilled, OnlyMailFetches, HeldAreKnown,
     PrimaryIsThere, SharesPrimary
<1> QED
  BY <1>1, <1>3, <1>4 DEF HandleInv

\* The steps that make, move and destroy no Key that lasts.
LEMMA QuietKeepsInv ==
  ASSUME HandleInv, List \/ Each \/ AllListed \/ Seek \/ RemoveFails \/ Operate \/ Return
  PROVE  HandleInv'
<1> USE Distinct, RequestTypes
<1>1. EachHandleHasOneOwner' /\ OnlyPrimariesAreLeftBehind' /\ HeldAreKnown' /\ PrimaryIsThere'
  BY KeysUntouched DEF List, Each, AllListed, Seek, RemoveFails, Operate, Return
<1>2. HandleTypeOK'
  <2>1. \A v \in Variable : keys[v].m_key \in HandleOrNull
    BY DEF HandleInv, HandleTypeOK
  <2>2. Given(PassedOn) \in SUBSET Handle
    BY <2>1 DEF Given, PassedOn, HandleOrNull, Variable
  <2>3. \A v \in Variable : Given({keys[v].m_key}) \in SUBSET Handle
    BY <2>1 DEF Given, HandleOrNull
  <2>4. CASE List
    BY <2>3, <2>4 DEF List, HandleInv, HandleTypeOK, Name, Key
  <2>5. CASE Each
    BY <2>5 DEF Each, HandleInv, HandleTypeOK
  <2>6. CASE AllListed
    BY <2>6 DEF AllListed, HandleInv, HandleTypeOK
  <2>7. CASE Seek
    BY <2>3, <2>7 DEF Seek, HandleInv, HandleTypeOK, OnlyMailFetches
  <2>8. CASE RemoveFails
    BY <2>3, <2>8 DEF RemoveFails, HandleInv, HandleTypeOK
  <2>9. CASE Operate
    BY <2>2, <2>9 DEF Operate, HandleInv, HandleTypeOK
  <2>10. CASE Return
    BY <2>10 DEF Return, HandleInv, HandleTypeOK
  <2> QED
    BY <2>4, <2>5, <2>6, <2>7, <2>8, <2>9, <2>10
<1>3. EmptyWhenFilled' /\ OnlyMailFetches'
  BY DEF HandleInv, EmptyWhenFilled, OnlyMailFetches, IsValid,
     List, Each, AllListed, Seek, RemoveFails, Operate, Return
<1>4. SharesPrimary' /\ SubkeysAreKnown'
  <2>1. SubkeysOfKey # {} => IsValid("key")
    BY DEF SubkeysOfKey, Fingerprint, Key
  <2> QED
    BY <2>1 DEF HandleInv, SharesPrimary, SubkeysAreKnown, IsValid,
       List, Each, AllListed, Seek, RemoveFails, Operate, Return
<1> QED
  BY <1>1, <1>2, <1>3, <1>4 DEF HandleInv

LEMMA LocateKeepsInv == ASSUME HandleInv, Locate PROVE HandleInv'
<1> USE Distinct, RequestTypes
<1>0. Owned /\ ~IsValid("key") /\ ~IsValid("sub") /\ ~IsValid("found")
        /\ request.call # "mail" /\ pc = "locate"
  BY DEF HandleInv, Owned, Locate, EmptyWhenFilled, OnlyMailFetches
<1>1. PICK c \in Located(request.id) :
        /\ keys' = [keys EXCEPT !["key"] = c.key] /\ about' = c.about
        /\ pc' = After(IF c.key.m_key # NULL THEN request.id ELSE NoName, c.key.m_key # NULL)
  BY DEF Locate
<1>2. request.id \in LookedUp /\ request.id \in Name /\ request' = request
  BY <1>0 DEF LookedUp, Locate, HandleInv
<1>3. /\ keys' \in [Variable -> [m_key : HandleOrNull, m_primary : HandleOrNull]]
      /\ about' \in [Handle -> Name]
      /\ EachHandleHasOneOwner' /\ OnlyPrimariesAreLeftBehind'
      /\ \A w \in Variable \ {"key"} : keys'[w] = keys[w]
      /\ keys'["key"] = c.key
      /\ \A h \in Handle : about[h] # NoName => about'[h] = about[h]
  BY <1>0, <1>1, <1>2, Filling
<1>4. pc' \in {"list", "take", "seek", "exit", "remove"}
  BY <1>1 DEF After
<1>5. HandleTypeOK'
  BY <1>0, <1>2, <1>3, <1>4 DEF HandleInv, HandleTypeOK, Locate
<1>6. EmptyWhenFilled' /\ OnlyMailFetches' /\ SharesPrimary' /\ SubkeysAreKnown'
  BY <1>0, <1>2, <1>3, <1>4 DEF SubkeysAreKnown, EmptyWhenFilled, OnlyMailFetches, SharesPrimary, IsValid
<1>7. HeldAreKnown'
  <2>1. c.key.m_key # NULL => about'[c.key.m_key] \in known
    BY <1>0, <1>1, <1>2, Construction
  <2>2. \A w \in Variable \ {"key"} : IsValid(w) =>
          about'[keys[w].m_key] = about[keys[w].m_key] /\ about[keys[w].m_key] \in known
    BY <1>0, <1>3 DEF HandleInv, HeldAreKnown, EachHandleHasOneOwner, HandleTypeOK,
       HandleOrNull, IsValid
  <2> QED
    BY <1>3, <2>1, <2>2 DEF HeldAreKnown, IsValid, Locate
<1>8. PrimaryIsThere'
  <2>1. c.key.m_primary # NULL => about'[c.key.m_primary] \in known /\ c.key.m_primary \in Fresh
    BY <1>0, <1>1, <1>2, Construction
  <2> QED
    BY <1>3, <2>1 DEF PrimaryIsThere, Fresh, Locate
<1> QED
  BY <1>3, <1>5, <1>6, <1>7, <1>8 DEF HandleInv

LEMMA FetchKeepsInv == ASSUME HandleInv, NEW e \in Element, Fetch(e) PROVE HandleInv'
<1> USE Distinct, RequestTypes
<1>0. Owned /\ ~IsValid(e) /\ request.call = "mail" /\ pc = "fetch"
  BY DEF HandleInv, Owned, Fetch, EmptyWhenFilled, OnlyMailFetches
<1>1. PICK c \in Located(request.signers[e]) :
        /\ keys' = [keys EXCEPT ![e] = c.key] /\ about' = c.about
        /\ pc' \in {"exit", "use", "fetch"}
  BY DEF Fetch
<1>2. request.signers[e] \in LookedUp /\ request.signers[e] \in Name /\ request' = request
  BY <1>0 DEF LookedUp, Fetch, HandleInv
<1>3. /\ keys' \in [Variable -> [m_key : HandleOrNull, m_primary : HandleOrNull]]
      /\ about' \in [Handle -> Name]
      /\ EachHandleHasOneOwner' /\ OnlyPrimariesAreLeftBehind'
      /\ \A w \in Variable \ {e} : keys'[w] = keys[w]
      /\ keys'[e] = c.key
      /\ \A h \in Handle : about[h] # NoName => about'[h] = about[h]
  BY <1>0, <1>1, <1>2, Filling
<1>4. HandleTypeOK'
  BY <1>0, <1>1, <1>2, <1>3 DEF HandleInv, HandleTypeOK, Fetch
<1>5. EmptyWhenFilled' /\ OnlyMailFetches' /\ SharesPrimary' /\ SubkeysAreKnown'
  <2>1. \A x \in left' : x \in Element /\ x # e /\ x \in left
    BY <1>0 DEF Fetch, HandleInv, HandleTypeOK
  <2>2. \A x \in left' : ~IsValid(x)'
    BY <1>0, <1>3, <2>1 DEF HandleInv, EmptyWhenFilled, IsValid
  <2> QED
    BY <1>0, <1>1, <1>2, <2>2 DEF EmptyWhenFilled, OnlyMailFetches, SharesPrimary, SubkeysAreKnown
<1>6. HeldAreKnown'
  <2>1. c.key.m_key # NULL => about'[c.key.m_key] \in known
    BY <1>0, <1>1, <1>2, Construction
  <2>2. \A w \in Variable \ {e} : IsValid(w) =>
          about'[keys[w].m_key] = about[keys[w].m_key] /\ about[keys[w].m_key] \in known
    BY <1>0, <1>3 DEF HandleInv, HeldAreKnown, EachHandleHasOneOwner, HandleTypeOK,
       HandleOrNull, IsValid
  <2> QED
    BY <1>3, <2>1, <2>2 DEF HeldAreKnown, IsValid, Fetch
<1>7. PrimaryIsThere'
  <2>1. SUFFICES ASSUME IsValid("key"), keys["key"].m_primary # NULL
                 PROVE  /\ about'[keys["key"].m_primary] \in known
                        /\ \A w \in Variable \ {"key"} :
                             keys'[w].m_key # keys["key"].m_primary
    BY <1>3 DEF PrimaryIsThere, IsValid, Fetch
  <2>2. /\ about[keys["key"].m_primary] \in known /\ keys["key"].m_primary \in Handle
        /\ \A w \in Variable \ {"key"} : keys[w].m_key # keys["key"].m_primary
    BY <1>0, <2>1 DEF HandleInv, PrimaryIsThere, HandleTypeOK, HandleOrNull
  <2>3. about'[keys["key"].m_primary] \in known
    BY <1>3, <2>2 DEF HandleInv, HandleTypeOK
  <2>4. c.key.m_key # keys["key"].m_primary
    BY <1>0, <1>1, <1>2, <2>1, Construction DEF Fresh
  <2> QED
    BY <1>3, <2>2, <2>3, <2>4
<1> QED
  BY <1>3, <1>4, <1>5, <1>6, <1>7 DEF HandleInv

LEMMA TrySubKeepsInv == ASSUME HandleInv, TrySub PROVE HandleInv'
<1> USE Distinct, RequestTypes
<1>0. /\ keys \in [Variable -> [m_key : HandleOrNull, m_primary : HandleOrNull]]
      /\ about \in [Handle -> Name] /\ EachHandleHasOneOwner /\ OnlyPrimariesAreLeftBehind
      /\ ~IsValid("sub") /\ ~IsValid("found") /\ request.call # "mail" /\ pc = "scan"
  BY DEF HandleInv, HandleTypeOK, TrySub, EmptyWhenFilled, OnlyMailFetches
<1>1. PICK s \in left, h \in Fresh \cup {NULL} :
        /\ h # NULL => keys["key"].m_primary # NULL
        /\ keys' = [keys EXCEPT !["sub"] = [m_key |-> h, m_primary |-> keys["key"].m_primary]]
        /\ about' = [g \in Handle |-> IF g = h THEN s ELSE about[g]]
        /\ left' = left \ {s}
  BY DEF TrySub
<1>2. s \in Subkey /\ s \in Name /\ s # NoName /\ IsValid("key") /\ Fresh \subseteq Handle
  BY <1>0, <1>1 DEF HandleInv, HandleTypeOK, SharesPrimary, Name, Key, Fresh
<1>3. /\ keys' \in [Variable -> [m_key : HandleOrNull, m_primary : HandleOrNull]]
      /\ about' \in [Handle -> Name]
      /\ keys'["sub"] = [m_key |-> h, m_primary |-> keys["key"].m_primary]
      /\ \A w \in Variable \ {"sub"} : keys'[w] = keys[w]
      /\ \A g \in Handle : g # h => about'[g] = about[g]
      /\ h # NULL => about'[h] = s
  BY <1>0, <1>1, <1>2 DEF HandleOrNull
<1>4. \A w \in Variable : h # NULL => h # keys[w].m_key /\ h # keys[w].m_primary
  BY <1>1 DEF Fresh
<1>5. \A w \in Variable \ {"sub"} : IsValid(w) => about'[keys[w].m_key] = about[keys[w].m_key]
  BY <1>0, <1>3, <1>4 DEF IsValid, HandleOrNull
<1>6. HandleTypeOK'
  <2>1. Given({keys["key"].m_primary}) \in SUBSET Handle
    BY <1>0 DEF Given, HandleOrNull
  <2> QED
    BY <1>1, <1>3, <2>1 DEF TrySub, HandleInv, HandleTypeOK
<1>7. EachHandleHasOneOwner'
  <2>1. ASSUME NEW w \in Variable, keys'[w].m_key # NULL
        PROVE  /\ about'[keys'[w].m_key] # NoName
               /\ \A u \in Variable \ {w} : keys'[u].m_key # keys'[w].m_key
    <3>1. CASE w = "sub"
      BY <1>2, <1>3, <1>4, <2>1, <3>1
    <3>2. CASE w # "sub"
      BY <1>0, <1>3, <1>4, <1>5, <2>1, <3>2 DEF EachHandleHasOneOwner, IsValid
    <3> QED
      BY <3>1, <3>2
  <2> QED
    BY <2>1 DEF EachHandleHasOneOwner, IsValid
<1>8. OnlyPrimariesAreLeftBehind'
  <2>1. ASSUME NEW g \in Handle, about'[g] # NoName
        PROVE  \/ \E w \in Variable : keys'[w].m_key = g
               \/ \E x \in LookedUp \cap Subkey : about'[g] = PrimaryOf[x]
    <3>1. CASE g = h
      BY <1>3, <3>1
    <3>2. CASE g # h
      <4>1. about'[g] = about[g]
        BY <1>3, <3>2
      <4>2. \A w \in Variable : keys[w].m_key = g => keys'[w].m_key = g
        BY <1>0, <1>3 DEF IsValid
      <4> QED
        BY <1>0, <2>1, <4>1, <4>2 DEF OnlyPrimariesAreLeftBehind
    <3> QED
      BY <3>1, <3>2
  <2>2. LookedUp' = LookedUp
    BY DEF LookedUp, TrySub
  <2> QED
    BY <2>1, <2>2 DEF OnlyPrimariesAreLeftBehind
<1>9. EmptyWhenFilled' /\ OnlyMailFetches' /\ SharesPrimary'
  BY <1>0, <1>2, <1>3 DEF TrySub, EmptyWhenFilled, OnlyMailFetches, SharesPrimary, IsValid
<1>10. HeldAreKnown' /\ PrimaryIsThere'
  <2>1. s \in known
    BY <1>1 DEF HandleInv, SubkeysAreKnown, TrySub
  <2>2. HeldAreKnown'
    BY <1>0, <1>3, <1>5, <2>1 DEF HandleInv, HeldAreKnown, IsValid, TrySub
  <2>3. PrimaryIsThere'
    <3>1. keys["key"].m_primary # NULL => about'[keys["key"].m_primary] = about[keys["key"].m_primary]
      BY <1>0, <1>3, <1>4 DEF HandleOrNull
    <3> QED
      BY <1>0, <1>2, <1>3, <1>4, <3>1 DEF HandleInv, PrimaryIsThere, IsValid, TrySub
  <2> QED
    BY <2>2, <2>3
<1>11. SubkeysAreKnown'
  BY <1>1 DEF TrySub, HandleInv, SubkeysAreKnown
<1> QED
  BY <1>6, <1>7, <1>8, <1>9, <1>10, <1>11 DEF HandleInv

LEMMA MoveKeepsInv == ASSUME HandleInv, ThisSub \/ NoSuchSub \/ TakeKey PROVE HandleInv'
<1> USE Distinct, RequestTypes
<1>0. Owned /\ ~IsValid("found") /\ request' = request /\ about' = about /\ known' = known
  BY DEF HandleInv, Owned, ThisSub, NoSuchSub, TakeKey, EmptyWhenFilled
<1>1. ASSUME NEW v \in {"key", "sub"}, keys' = Moved(v, "found"), pc # "exit"
      PROVE  HeldAreKnown' /\ (v = "sub" \/ ~IsValid("key")' => PrimaryIsThere')
  <2>1. /\ keys'[v] = Null /\ keys'["found"] = keys[v]
        /\ \A u \in Variable \ {v, "found"} : keys'[u] = keys[u]
    BY <1>0, <1>1, Moving
  <2>2. HeldAreKnown'
    BY <1>0, <1>1, <2>1 DEF HandleInv, HeldAreKnown, IsValid, Null
  <2>3. v = "sub" => PrimaryIsThere'
    BY <1>0, <1>1, <2>1 DEF HandleInv, PrimaryIsThere, IsValid, Null
  <2>4. ~IsValid("key")' => PrimaryIsThere'
    BY DEF PrimaryIsThere
  <2> QED
    BY <2>2, <2>3, <2>4
<1>2. CASE ThisSub
  <2>1. keys' = Moved("sub", "found") /\ pc = "compare" /\ pc' \in {"describe", "drop", "remove"}
    BY <1>2 DEF ThisSub, WithSub
  <2>2. /\ keys' \in [Variable -> [m_key : HandleOrNull, m_primary : HandleOrNull]]
        /\ EachHandleHasOneOwner' /\ OnlyPrimariesAreLeftBehind'
        /\ keys'["sub"] = Null /\ keys'["found"] = keys["sub"] /\ keys'["key"] = keys["key"]
    BY <1>0, <2>1, Moving
  <2>3. HandleTypeOK'
    <3>1. Given({keys["sub"].m_key}) \in SUBSET Handle
      BY DEF HandleInv, HandleTypeOK, Given, HandleOrNull
    <3> QED
      BY <1>2, <2>1, <2>2, <3>1 DEF ThisSub, HandleInv, HandleTypeOK
  <2>4. EmptyWhenFilled' /\ OnlyMailFetches' /\ SharesPrimary' /\ SubkeysAreKnown'
    BY <1>0, <2>1, <2>2 DEF HandleInv, EmptyWhenFilled, OnlyMailFetches, SharesPrimary,
       SubkeysAreKnown, IsValid, Null
  <2> QED
    BY <1>1, <2>1, <2>2, <2>3, <2>4 DEF HandleInv
<1>3. CASE TakeKey
  <2>1. keys' = Moved("key", "found") /\ pc = "take" /\ pc' = "use"
    BY <1>3 DEF TakeKey
  <2>2. /\ keys' \in [Variable -> [m_key : HandleOrNull, m_primary : HandleOrNull]]
        /\ EachHandleHasOneOwner' /\ OnlyPrimariesAreLeftBehind'
        /\ keys'["key"] = Null
    BY <1>0, <2>1, Moving
  <2>3. HandleTypeOK'
    BY <1>3, <2>2 DEF TakeKey, HandleInv, HandleTypeOK
  <2>4. EmptyWhenFilled' /\ OnlyMailFetches' /\ SharesPrimary' /\ SubkeysAreKnown'
    BY <1>0, <2>1 DEF HandleInv, EmptyWhenFilled, OnlyMailFetches, SharesPrimary, SubkeysAreKnown
  <2>5. ~IsValid("key")'
    BY <2>2 DEF IsValid, Null
  <2> QED
    BY <1>1, <2>1, <2>2, <2>3, <2>4, <2>5 DEF HandleInv
<1>4. CASE NoSuchSub
  <2>1. /\ keys' = [keys EXCEPT !["found"] = Null] /\ pc = "scan"
        /\ pc' \in {"describe", "drop", "remove"}
    BY <1>4 DEF NoSuchSub, WithSub
  <2>2. /\ keys' \in [Variable -> [m_key : HandleOrNull, m_primary : HandleOrNull]]
        /\ \A u \in Variable : keys'[u].m_key = keys[u].m_key
        /\ keys'["key"] = keys["key"]
    BY <1>0, <2>1 DEF Owned, HandleTypeOK, HandleOrNull, Null, IsValid
  <2>3. EachHandleHasOneOwner' /\ HeldAreKnown' /\ PrimaryIsThere'
    BY <1>0, <2>1, <2>2 DEF HandleInv, EachHandleHasOneOwner, HeldAreKnown, PrimaryIsThere, IsValid
  <2>4. OnlyPrimariesAreLeftBehind'
    <3>1. LookedUp' = LookedUp
      BY <1>0 DEF LookedUp
    <3> QED
      BY <1>0, <2>2, <3>1 DEF HandleInv, OnlyPrimariesAreLeftBehind
  <2>5. HandleTypeOK'
    BY <1>4, <2>1, <2>2 DEF NoSuchSub, HandleInv, HandleTypeOK
  <2>6. EmptyWhenFilled' /\ OnlyMailFetches' /\ SharesPrimary' /\ SubkeysAreKnown'
    BY <1>0, <2>1, <2>2 DEF HandleInv, EmptyWhenFilled, OnlyMailFetches, SharesPrimary,
       SubkeysAreKnown, IsValid
  <2> QED
    BY <2>3, <2>4, <2>5, <2>6 DEF HandleInv
<1> QED
  BY <1>2, <1>3, <1>4

\* The steps that destroy a Key, and leave the others as they are.
LEMMA DestroyKeepsInv ==
  ASSUME HandleInv, NEW v \in Variable, Destroys(v), keys' = [keys EXCEPT ![v] = Null],
         \/ NotThisSub /\ v = "sub"
         \/ DropKey /\ v = "key"
         \/ Describe /\ v = "found"
         \/ Unwind(v)
  PROVE  HandleInv'
<1> USE Distinct, RequestTypes
<1>0. /\ Owned /\ UNCHANGED <<request, known, listed, wanted, left>>
      /\ keys \in [Variable -> [m_key : HandleOrNull, m_primary : HandleOrNull]]
  BY DEF HandleInv, Owned, HandleTypeOK, NotThisSub, DropKey, Describe, Unwind
<1>1. /\ keys' \in [Variable -> [m_key : HandleOrNull, m_primary : HandleOrNull]]
      /\ keys'[v] = Null /\ keys'[v].m_key = NULL
      /\ \A w \in Variable \ {v} : keys'[w] = keys[w]
  BY <1>0 DEF Null, HandleOrNull
<1>2. /\ about' \in [Handle -> Name] /\ destroyed' \in SUBSET Handle
      /\ EachHandleHasOneOwner' /\ OnlyPrimariesAreLeftBehind'
      /\ \A h \in Handle : h # keys[v].m_key => about'[h] = about[h]
  BY <1>0, <1>1, Destruction
<1>3. HandleTypeOK'
  <2>1. \A w \in Variable : Given({keys[w].m_key}) \in SUBSET Handle
                           /\ Given({keys[w].m_key, keys[w].m_primary}) \in SUBSET Handle
    BY <1>0 DEF Given, HandleOrNull
  <2>2. used' \in SUBSET Handle
    BY <2>1 DEF NotThisSub, DropKey, Describe, Unwind, Given
  <2>3. pc' \in {"scan", "use", "each", "exit"}
    BY DEF NotThisSub, DropKey, Describe, Unwind
  <2> QED
    BY <1>0, <1>1, <1>2, <2>2, <2>3 DEF HandleInv, HandleTypeOK
<1>4. EmptyWhenFilled' /\ OnlyMailFetches'
  BY <1>0, <1>1 DEF HandleInv, EmptyWhenFilled, OnlyMailFetches, IsValid, Null,
     NotThisSub, DropKey, Describe, Unwind
<1>5. SharesPrimary' /\ SubkeysAreKnown'
  BY <1>0, <1>1 DEF HandleInv, SharesPrimary, SubkeysAreKnown, IsValid, Null,
     NotThisSub, DropKey, Describe, Unwind
<1>6. HeldAreKnown'
  <2>1. pc' # "exit" => pc # "exit"
    BY DEF NotThisSub, DropKey, Describe, Unwind
  <2>2. ASSUME NEW w \in Variable, keys'[w].m_key # NULL, pc # "exit"
        PROVE  about'[keys'[w].m_key] \in known
    BY <1>0, <1>1, <1>2, <2>2 DEF HandleInv, HeldAreKnown, EachHandleHasOneOwner, IsValid,
       HandleOrNull
  <2> QED
    BY <1>0, <2>1, <2>2 DEF HeldAreKnown, IsValid
<1>7. PrimaryIsThere'
  <2>1. CASE v = "key" \/ pc' = "exit"
    BY <1>1, <2>1 DEF PrimaryIsThere, IsValid, Null
  <2>2. CASE v # "key" /\ pc' # "exit"
    <3>1. pc # "exit" /\ keys'["key"] = keys["key"]
      BY <1>1, <2>2 DEF NotThisSub, DropKey, Describe, Unwind
    <3>2. SUFFICES ASSUME IsValid("key"), keys["key"].m_primary # NULL
                   PROVE  /\ about'[keys["key"].m_primary] \in known
                          /\ \A w \in Variable \ {"key"} :
                               keys'[w].m_key # keys["key"].m_primary
      BY <1>0, <3>1 DEF PrimaryIsThere, IsValid
    <3> QED
      BY <1>0, <1>1, <1>2, <2>2, <3>1, <3>2 DEF HandleInv, PrimaryIsThere, HandleOrNull
  <2> QED
    BY <2>1, <2>2
<1> QED
  BY <1>2, <1>3, <1>4, <1>5, <1>6, <1>7 DEF HandleInv

LEMMA RemoveKeepsInv == ASSUME HandleInv, NEW v \in {"key", "found"}, Remove(v) PROVE HandleInv'
<1> USE Distinct, RequestTypes
<1>0. /\ Owned /\ UNCHANGED <<request, listed, wanted, left>> /\ v \in Variable
      /\ keys \in [Variable -> [m_key : HandleOrNull, m_primary : HandleOrNull]]
      /\ Destroys(v) /\ pc = "remove" /\ pc' = "exit" /\ IsValid(v)
  BY DEF HandleInv, Owned, HandleTypeOK, Remove
<1>1. /\ keys' \in [Variable -> [m_key : HandleOrNull, m_primary : HandleOrNull]]
      /\ keys'[v].m_key = NULL
      /\ \A w \in Variable \ {v} : keys'[w] = keys[w]
  BY <1>0 DEF Remove, RemovedKey, HandleOrNull
<1>2. /\ about' \in [Handle -> Name] /\ destroyed' \in SUBSET Handle
      /\ EachHandleHasOneOwner' /\ OnlyPrimariesAreLeftBehind'
  BY <1>0, <1>1, Destruction
<1>3. HandleTypeOK'
  <2>1. used' \in SUBSET Handle /\ known' \in SUBSET Key
    BY <1>0 DEF Remove, HandleInv, HandleTypeOK, IsValid, HandleOrNull
  <2> QED
    BY <1>0, <1>1, <1>2, <2>1 DEF HandleInv, HandleTypeOK
<1>4. /\ EmptyWhenFilled' /\ OnlyMailFetches' /\ SharesPrimary' /\ SubkeysAreKnown'
      /\ HeldAreKnown' /\ PrimaryIsThere'
  BY <1>0 DEF HandleInv, EmptyWhenFilled, OnlyMailFetches, SharesPrimary, SubkeysAreKnown,
     HeldAreKnown, PrimaryIsThere
<1> QED
  BY <1>2, <1>3, <1>4 DEF HandleInv

\* What a step gives to librnp, and destroys, is there.
GivesWhatExists ==
  /\ \A h \in used' : about[h] \in known
  /\ \A h \in destroyed' : about[h] # NoName

LEMMA StepGivesWhatExists == ASSUME HandleInv, HandleNext PROVE GivesWhatExists
<1> USE Distinct
<1>1. \A v \in Variable : pc # "exit" =>
        \A h \in Given({keys[v].m_key}) : about[h] \in known
  BY DEF HandleInv, HeldAreKnown, IsValid, Given
<1>2. ASSUME NEW v \in Variable, Destroys(v)
      PROVE  \A h \in destroyed' : about[h] # NoName
  BY <1>2 DEF HandleInv, EachHandleHasOneOwner, Destroys, Given, IsValid
<1>3. CASE \E r \in Requests : Call(r)
  BY <1>3 DEF GivesWhatExists, Call, Starts
<1>4. CASE Locate \/ Each \/ AllListed \/ NoSuchSub \/ TakeKey \/ Return
  BY <1>4 DEF GivesWhatExists, Locate, Each, AllListed, NoSuchSub, TakeKey, Return
<1>5. CASE \E e \in Element : Fetch(e)
  BY <1>5 DEF GivesWhatExists, Fetch
<1>6. CASE List \/ Seek \/ ThisSub
  BY <1>1, <1>6 DEF GivesWhatExists, List, Seek, ThisSub
<1>7. CASE TrySub
  BY <1>7 DEF GivesWhatExists, TrySub, HandleInv, SharesPrimary, PrimaryIsThere, Given
<1>8. CASE NotThisSub
  BY <1>1, <1>2, <1>8 DEF GivesWhatExists, NotThisSub
<1>9. CASE DropKey
  BY <1>2, <1>9 DEF GivesWhatExists, DropKey
<1>10. CASE Describe
  <2>1. \A h \in used' : about[h] \in known
    BY <1>1, <1>10 DEF Describe, HandleInv, SharesPrimary, PrimaryIsThere, Given
  <2> QED
    BY <1>2, <1>10, <2>1 DEF GivesWhatExists, Describe
<1>11. CASE \E v \in {"key", "found"} : Remove(v)
  BY <1>1, <1>2, <1>11 DEF GivesWhatExists, Remove, Given, IsValid
<1>12. CASE RemoveFails
  BY <1>1, <1>12 DEF GivesWhatExists, RemoveFails
<1>13. CASE Operate
  BY <1>1, <1>13 DEF GivesWhatExists, Operate, PassedOn, Given, Variable
<1>14. CASE \E v \in Variable : Unwind(v)
  BY <1>2, <1>14 DEF GivesWhatExists, Unwind
<1> QED
  BY <1>3, <1>4, <1>5, <1>6, <1>7, <1>8, <1>9, <1>10, <1>11, <1>12, <1>13, <1>14 DEF HandleNext

LEMMA NextKeepsInv == ASSUME HandleInv, [HandleNext]_handleVars PROVE HandleInv'
<1>1. CASE \E r \in Requests : Call(r)
  BY <1>1, CallKeepsInv
<1>2. CASE Locate
  BY <1>2, LocateKeepsInv
<1>3. CASE List \/ Each \/ AllListed \/ Seek \/ RemoveFails \/ Operate \/ Return
  BY <1>3, QuietKeepsInv
<1>4. CASE TrySub
  BY <1>4, TrySubKeepsInv
<1>5. CASE ThisSub \/ NoSuchSub \/ TakeKey
  BY <1>5, MoveKeepsInv
<1>6. CASE NotThisSub
  BY <1>6, DestroyKeepsInv, Distinct DEF NotThisSub
<1>7. CASE DropKey
  BY <1>7, DestroyKeepsInv, Distinct DEF DropKey
<1>8. CASE Describe
  BY <1>8, DestroyKeepsInv, Distinct DEF Describe
<1>9. CASE \E v \in {"key", "found"} : Remove(v)
  BY <1>9, RemoveKeepsInv
<1>10. CASE \E e \in Element : Fetch(e)
  BY <1>10, FetchKeepsInv
<1>11. CASE \E v \in Variable : Unwind(v)
  BY <1>11, DestroyKeepsInv DEF Unwind
<1>12. CASE UNCHANGED handleVars
  BY <1>12 DEF handleVars, HandleInv, HandleTypeOK, EachHandleHasOneOwner,
     OnlyPrimariesAreLeftBehind, LookedUp, EmptyWhenFilled, OnlyMailFetches, HeldAreKnown,
     PrimaryIsThere, SharesPrimary, SubkeysAreKnown, IsValid
<1> QED
  BY <1>1, <1>2, <1>3, <1>4, <1>5, <1>6, <1>7, <1>8, <1>9, <1>10, <1>11, <1>12 DEF HandleNext

\* The inductive invariant holds in every state.
THEOREM HandleInvHolds == HandleSpec => []HandleInv
<1>1. HandleInit => HandleInv
  BY InitHoldsInv
<1>2. HandleInv /\ [HandleNext]_handleVars => HandleInv'
  BY NextKeepsInv
<1> QED
  BY <1>1, <1>2, PTL DEF HandleSpec

\* Every variable keeps its type, whatever is looked up and whatever fails.
THEOREM HandlesTyped == HandleSpec => []HandleTypeOK
<1>1. HandleInv => HandleTypeOK
  BY DEF HandleInv
<1> QED
  BY <1>1, HandleInvHolds, PTL

\* A handle is owned by one Key at most, and exists while it is (~Key, the
\* moves): it is never destroyed twice.
THEOREM OwnersAreUnique == HandleSpec => []EachHandleHasOneOwner
<1>1. HandleInv => EachHandleHasOneOwner
  BY DEF HandleInv
<1> QED
  BY <1>1, HandleInvHolds, PTL

\* What a call leaves behind are the handles of primary keys whose subkeys were
\* looked up by their own names (rnp.cpp:520), and nothing else.
THEOREM LeavesPrimariesOnly == HandleSpec => []OnlyPrimariesAreLeftBehind
<1>1. HandleInv => OnlyPrimariesAreLeftBehind
  BY DEF HandleInv
<1> QED
  BY <1>1, HandleInvHolds, PTL

\* librnp is given no handle that was destroyed and asked nothing about a key
\* that was removed, although m_primary may point to a handle that is gone.
THEOREM HandlesAreLive == HandleSpec => UsesLiveHandles
<1>1. HandleInv /\ [HandleNext]_handleVars =>
        [GivesWhatExists]_handleVars
  BY StepGivesWhatExists
<1>2. [GivesWhatExists]_handleVars =>
        [/\ \A h \in used' : about[h] \in known
         /\ \A h \in destroyed' : about[h] # NoName]_handleVars
  BY DEF GivesWhatExists
<1> QED
  BY <1>1, <1>2, HandleInvHolds, PTL DEF HandleSpec, UsesLiveHandles
=============================================================================
