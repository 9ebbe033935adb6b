------------------------ MODULE RnpRefinementProofs -------------------------
(***************************************************************************)
(* RnpPlugin implements KeyStorePromise: initial states map to initial     *)
(* states, and every step to a step of the promise or to a stutter.        *)
(***************************************************************************)
EXTENDS RnpPluginProofs, RnpPluginRefinement

USE DEF Level, PUBLIC, SECRET

\* A public store that was not loaded is empty: a keyring that could not be
\* opened offers nothing and, deleted, takes nothing away.
UnreadStoreIsEmpty == ring[PUBLIC] # "valid" => mem[PUBLIC] = {}

MapInv == IInv /\ UnreadStoreIsEmpty

\* The reads of a call: a session is opened or refused, or nothing happens to it.
LEMMA ReadsMap ==
  ASSUME MapInv, phase = "up", NEW l \in Level, NEW o \in UsedRing(l),
         ring' = o.ring, mem' = o.mem, UNCHANGED <<modified, fileVars, hostVars>>
  PROVE  [PublicKeys!Next]_(PublicKeys!promiseVars) /\ UnreadStoreIsEmpty'
<1> USE DEF fileVars, hostVars
<1>1. /\ ring[PUBLIC] # "null" => o.ring[PUBLIC] = ring[PUBLIC]
      /\ o.mem[PUBLIC] # mem[PUBLIC] => ring[PUBLIC] = "null" /\ o.ring[PUBLIC] = "valid"
      /\ ring[PUBLIC] = "null" /\ o.ring[PUBLIC] = "valid"
           => o.mem[PUBLIC] = mem[PUBLIC] \cup stored[PUBLIC]
  BY UsedRingEffect DEF MapInv, IInv, TypeOK
<1>2. ~Writing /\ ~Writing'
  BY DEF Writing
<1>3. CASE ring[PUBLIC] = "null" /\ o.ring[PUBLIC] = "valid"
  <2>1. mem[PUBLIC] = {} /\ ~modified[PUBLIC]
    BY <1>3 DEF MapInv, IInv, UnreadStoreIsEmpty, OnlyLoadedRingsAreSaved
  <2>2. PublicKeys!Open
    BY <1>1, <1>2, <1>3, <2>1
       DEF PublicKeys!Open, PublicKeys!Held, OnDisk, Session, SessionOf, Copy, Dirty
  <2>3. QED
    BY <1>3, <2>2 DEF PublicKeys!Next, UnreadStoreIsEmpty
<1>4. CASE ~(ring[PUBLIC] = "null" /\ o.ring[PUBLIC] = "valid")
  <2>1. mem'[PUBLIC] = mem[PUBLIC] /\ (ring'[PUBLIC] = "valid" <=> ring[PUBLIC] = "valid")
    BY <1>1, <1>4
  <2>2. UnreadStoreIsEmpty'
    BY <2>1 DEF MapInv, UnreadStoreIsEmpty
  <2>3. CASE ring'[PUBLIC] = ring[PUBLIC]
    <3>1. UNCHANGED PublicKeys!promiseVars
      BY <1>2, <2>1, <2>3 DEF PublicKeys!promiseVars, OnDisk, Session, SessionOf, Copy, Dirty
    <3>2. QED
      BY <2>2, <3>1
  <2>4. CASE ring'[PUBLIC] # ring[PUBLIC]
    <3>1. ring[PUBLIC] = "null" /\ ring'[PUBLIC] = "invalid"
      BY <1>1, <1>4, <2>4, UsedRingEffect DEF MapInv, IInv, TypeOK
    <3>2. PublicKeys!Refuse
      BY <1>2, <2>1, <3>1 DEF PublicKeys!Refuse, OnDisk, Session, SessionOf, Copy, Dirty
    <3>3. QED
      BY <2>2, <3>2 DEF PublicKeys!Next
  <2>5. QED
    BY <2>3, <2>4
<1>5. QED
  BY <1>3, <1>4

\* A deletion that is acknowledged takes from the public store what one
\* deletion of the promise takes.
LEMMA RemovalMaps ==
  ASSUME NEW m \in Stores, NEW target, target = NoName \/ Locates(m, target),
         RemoveOk(m, target)
  PROVE  \E D \in PublicKeys!Deletions : AfterRemove(m, target)[PUBLIC] = m[PUBLIC] \ D
<1>1. CASE target = NoName
  BY <1>1 DEF AfterRemove, PublicKeys!Deletions
<1>2. CASE target # NoName
  <2> DEFINE D == {target} \cup SubkeysOf(target)
  <2>1. target \in Key
    BY <1>2 DEF Locates, Stores
  <2>2. D \in PublicKeys!Deletions
    BY <2>1 DEF PublicKeys!Deletions, PublicKeys!SubkeysOf, SubkeysOf, PublicKeys!Key, Key
  <2>3. "SUBKEYS" \notin RemoveFlags(m, target) => SubkeysOf(target) = {}
    BY <2>1, KeysAssumption DEF RemoveFlags, SubkeysOf, Key
  <2>4. AfterRemove(m, target)[PUBLIC] = m[PUBLIC] \ D
    BY <1>2, <2>3 DEF AfterRemove, Removed, RemoveFlags
  <2>5. QED
    BY <2>2, <2>4
<1>3. QED
  BY <1>1, <1>2

LEMMA RemoveMaps ==
  ASSUME MapInv, NEW c \in Collections, NEW n \in Names, c # Import, RemoveSecret(c, n)
  PROVE  [PublicKeys!Next]_(PublicKeys!promiseVars) /\ UnreadStoreIsEmpty'
<1> USE DEF fileVars, hostVars
<1>1. phase = "up" /\ PUBLIC \in Level /\ UNCHANGED <<fileVars, hostVars>>
  BY DEF RemoveSecret
<1>2. \A o \in UsedRing(PUBLIC) : o.mem \in Stores
  BY UsedRingEffect DEF MapInv, IInv, TypeOK
<1>3. PICK o \in UsedRing(PUBLIC) :
        LET key    == KeyAt(o.mem, c)
            target == RemovalTarget(o.mem, key, n)
        IN  /\ ring' = o.ring
            /\ \/ mem' = o.mem /\ UNCHANGED modified
               \/ /\ Removable(o, key)
                  /\ mem' = AfterRemove(o.mem, target)
                  /\ RemoveOk(o.mem, target)
                  /\ MarksModified
  BY <1>2, RemoveEffect DEF RemoveSecret
<1>4. CASE mem' = o.mem /\ UNCHANGED modified
  BY <1>1, <1>3, <1>4, ReadsMap
<1>5. CASE /\ Removable(o, KeyAt(o.mem, c))
           /\ mem' = AfterRemove(o.mem, RemovalTarget(o.mem, KeyAt(o.mem, c), n))
           /\ RemoveOk(o.mem, RemovalTarget(o.mem, KeyAt(o.mem, c), n))
           /\ MarksModified
  <2> DEFINE target == RemovalTarget(o.mem, KeyAt(o.mem, c), n)
  <2>1. /\ ring[PUBLIC] # "null" => o.ring[PUBLIC] = ring[PUBLIC]
        /\ o.mem[PUBLIC] # mem[PUBLIC] => ring[PUBLIC] = "null"
        /\ ring[PUBLIC] = "null" /\ o.ring[PUBLIC] = "valid"
             => o.mem[PUBLIC] = mem[PUBLIC] \cup stored[PUBLIC]
    BY UsedRingEffect DEF MapInv, IInv, TypeOK
  <2>2. o.ring[PUBLIC] = "valid" /\ ring'[PUBLIC] = "valid" /\ KeyAt(o.mem, c) # NoName
    BY <1>3, <1>5 DEF Removable
  <2>3. target = NoName \/ Locates(o.mem, target)
    BY <2>2 DEF RemovalTarget, KeyAt, SubkeyAt, SubkeysAt, Locates
  <2>4. PICK D \in PublicKeys!Deletions : mem'[PUBLIC] = o.mem[PUBLIC] \ D
    BY <1>2, <1>5, <2>3, RemovalMaps
  <2>5. ring[PUBLIC] = "null" => mem[PUBLIC] = {}
    BY DEF MapInv, UnreadStoreIsEmpty
  <2>6. o.mem[PUBLIC] = IF ring[PUBLIC] = "valid" THEN mem[PUBLIC] ELSE stored[PUBLIC]
    BY <2>1, <2>2, <2>5 DEF MapInv, IInv, TypeOK, RingsTypeOK
  <2>7. modified'[PUBLIC] = TRUE
    BY <1>1, <1>5 DEF MarksModified, MapInv, IInv, TypeOK, RingsTypeOK
  <2>8. PublicKeys!Delete(D)
    BY <1>1, <2>1, <2>2, <2>4, <2>6, <2>7
       DEF PublicKeys!Delete, PublicKeys!Held, Writing, OnDisk, Session, SessionOf, Copy, Dirty
  <2>9. QED
    BY <2>2, <2>4, <2>8 DEF PublicKeys!Next, UnreadStoreIsEmpty
<1>6. QED
  BY <1>3, <1>4, <1>5

\* The end of ~Keyring, for the public Keyring and for the secret one.
LEMMA ReleaseMaps ==
  ASSUME MapInv, phase \in {"close", "write"}, Release
  PROVE  /\ UnreadStoreIsEmpty'
         /\ ~Writing'
         /\ cursor = PUBLIC
              => mem'[PUBLIC] = {} /\ ring'[PUBLIC] = "null" /\ ~modified'[PUBLIC]
         /\ cursor = SECRET
              => /\ mem'[PUBLIC] = mem[PUBLIC]
                 /\ ring'[PUBLIC] = ring[PUBLIC]
                 /\ modified'[PUBLIC] = modified[PUBLIC]
<1>1. /\ modified \in [Level -> BOOLEAN] /\ ring \in [Level -> {"null", "invalid", "valid"}]
      /\ mem \in Stores /\ cursor \in Level
  BY DEF MapInv, IInv, TypeOK, RingsTypeOK
<1>2. /\ ~Writing' /\ ring' = [ring EXCEPT ![cursor] = "null"]
      /\ modified' = [modified EXCEPT ![cursor] = FALSE]
  BY DEF Release, Writing
<1>3. CASE cursor = PUBLIC
  <2>1. mem'[PUBLIC] = {}
    BY <1>1, <1>3 DEF Release, MapInv, UnreadStoreIsEmpty, Stores
  <2>2. QED
    BY <1>1, <1>2, <1>3, <2>1 DEF UnreadStoreIsEmpty
<1>4. CASE cursor = SECRET
  <2>1. ring[PUBLIC] = "null" /\ mem[PUBLIC] = {} /\ mem'[PUBLIC] = {}
    BY <1>4 DEF Release, MapInv, IInv, WritesBackWhatItOwes, UnreadStoreIsEmpty, NoKeys
  <2>2. QED
    BY <1>1, <1>2, <1>4, <2>1 DEF UnreadStoreIsEmpty
<1>5. QED
  BY <1>1, <1>3, <1>4

\* The truncation commits, the write settles; a Keyring that is destroyed
\* without a save abandons its session, and so does the end of the process.
LEMMA LifeMaps ==
  ASSUME MapInv, Life
  PROVE  [PublicKeys!Next]_(PublicKeys!promiseVars) /\ UnreadStoreIsEmpty'
<1> USE DEF fileVars, rnpVars, hostVars
<1>1. /\ modified \in [Level -> BOOLEAN] /\ ring \in [Level -> {"null", "invalid", "valid"}]
      /\ mem \in Stores /\ stored \in [Level -> SUBSET Key] /\ cursor \in Level
      /\ PUBLIC \in Level /\ SECRET \in Level
  BY DEF MapInv, IInv, TypeOK, RingsTypeOK
<1>2. /\ modified[PUBLIC] => ring[PUBLIC] = "valid"
      /\ ring[PUBLIC] # "valid" => mem[PUBLIC] = {}
      /\ Writing => modified[PUBLIC]
      /\ Closed(mem[PUBLIC])
  BY <1>1 DEF MapInv, IInv, OnlyLoadedRingsAreSaved, UnreadStoreIsEmpty, WritesBackWhatItOwes,
     NoOrphanSubkeys, Writing
<1>3. KeyBlocks = PublicKeys!KeyBlocks
  BY DEF KeyBlocks, PublicKeys!KeyBlocks, Closed, PublicKeys!Closed, Key, PublicKeys!Key
<1>4. CASE Load \/ Unload
  <2>1. /\ ~Writing /\ ~Writing' /\ UnreadStoreIsEmpty'
        /\ UNCHANGED <<fileVars, rnpVars>>
    BY <1>2, <1>4 DEF Load, Unload, Create, Destroy, Writing, UnreadStoreIsEmpty
  <2>2. QED
    BY <2>1 DEF PublicKeys!promiseVars, OnDisk, Session, SessionOf, Copy, Dirty
<1>5. CASE TruncateFile
  <2>1. /\ phase = "close" /\ phase' = "write" /\ modified[cursor]
        /\ stored' = [stored EXCEPT ![cursor] = {}]
        /\ UNCHANGED <<mem, ring, modified, cursor>>
    BY <1>5 DEF TruncateFile, OpenOutput
  <2>2. ~Writing /\ UnreadStoreIsEmpty' /\ (Writing' <=> cursor = PUBLIC)
    BY <1>2, <2>1 DEF Writing, UnreadStoreIsEmpty
  <2>3. CASE cursor = PUBLIC
    <3>1. PublicKeys!Commit
      BY <1>2, <2>1, <2>2, <2>3
         DEF PublicKeys!Commit, PublicKeys!EndSession, OnDisk, Session, SessionOf, Copy, Dirty
    <3>2. QED
      BY <2>2, <3>1 DEF PublicKeys!Next
  <2>4. CASE cursor = SECRET
    <3>1. UNCHANGED PublicKeys!promiseVars
      BY <1>1, <2>1, <2>2, <2>4 DEF PublicKeys!promiseVars, OnDisk, Session, SessionOf, Copy, Dirty
    <3>2. QED
      BY <2>2, <3>1
  <2>5. QED
    BY <1>1, <2>3, <2>4
<1>6. CASE CloseRing
  <2>1. phase = "close" /\ Release /\ UNCHANGED stored
    BY <1>6 DEF CloseRing, SkipSave
  <2>2. ~Writing
    BY <2>1 DEF Writing
  <2>3. CASE cursor = PUBLIC /\ ring[PUBLIC] # "null"
    <3>1. PublicKeys!Abandon
      BY <1>1, <2>1, <2>2, <2>3, ReleaseMaps
         DEF PublicKeys!Abandon, PublicKeys!EndSession, OnDisk, Session, SessionOf, Copy, Dirty
    <3>2. QED
      BY <2>1, <3>1, ReleaseMaps DEF PublicKeys!Next
  <2>4. CASE cursor = SECRET \/ ring[PUBLIC] = "null"
    <3>1. UNCHANGED PublicKeys!promiseVars
      BY <1>1, <1>2, <2>1, <2>2, <2>4, ReleaseMaps
         DEF PublicKeys!promiseVars, OnDisk, Session, SessionOf, Copy, Dirty
    <3>2. QED
      BY <2>1, <3>1, ReleaseMaps
  <2>5. QED
    BY <1>1, <2>3, <2>4
<1>7. CASE WriteFile
  <2>1. phase = "write" /\ Release /\ stored' = [stored EXCEPT ![cursor] = mem[cursor]]
    BY <1>7 DEF WriteFile, Save
  <2>2. CASE cursor = PUBLIC
    <3>1. PublicKeys!Settle
      BY <1>1, <2>1, <2>2, ReleaseMaps
         DEF PublicKeys!Settle, Writing, OnDisk, Session, SessionOf, Copy, Dirty
    <3>2. QED
      BY <2>1, <3>1, ReleaseMaps DEF PublicKeys!Next
  <2>3. CASE cursor = SECRET
    <3>1. UNCHANGED PublicKeys!promiseVars
      BY <1>1, <2>1, <2>3, ReleaseMaps
         DEF PublicKeys!promiseVars, Writing, OnDisk, Session, SessionOf, Copy, Dirty
    <3>2. QED
      BY <2>1, <3>1, ReleaseMaps
  <2>4. QED
    BY <1>1, <2>2, <2>3
<1>8. CASE WriteFails
  <2>1. /\ phase = "write" /\ Release
        /\ \E S \in KeyBlocks : S \subseteq mem[cursor] /\ stored' = [stored EXCEPT ![cursor] = S]
    <3>1. {} \in KeyBlocks
      BY DEF KeyBlocks, Closed
    <3>2. QED
      BY <1>8, <3>1 DEF WriteFails, SaveFails, CutShort
  <2>2. CASE cursor = PUBLIC
    <3>1. PublicKeys!Lose
      BY <1>1, <1>3, <2>1, <2>2, ReleaseMaps
         DEF PublicKeys!Lose, Writing, OnDisk, Session, SessionOf, Copy, Dirty
    <3>2. QED
      BY <2>1, <3>1, ReleaseMaps DEF PublicKeys!Next
  <2>3. CASE cursor = SECRET
    <3>1. UNCHANGED PublicKeys!promiseVars
      BY <1>1, <2>1, <2>3, ReleaseMaps
         DEF PublicKeys!promiseVars, Writing, OnDisk, Session, SessionOf, Copy, Dirty
    <3>2. QED
      BY <2>1, <3>1, ReleaseMaps
  <2>4. QED
    BY <1>1, <2>2, <2>3
<1>9. CASE HostCrash
  <2>1. /\ mem'[PUBLIC] = {} /\ ring'[PUBLIC] = "null" /\ ~modified'[PUBLIC] /\ phase' = "down"
        /\ IF phase = "write"
           THEN \E S \in KeyBlocks :
                  S \subseteq mem[cursor] /\ stored' = [stored EXCEPT ![cursor] = S]
           ELSE UNCHANGED stored
    BY <1>9 DEF HostCrash, Crash, CutShort, NoKeys
  <2>2. ~Writing' /\ UnreadStoreIsEmpty'
    BY <2>1 DEF Writing, UnreadStoreIsEmpty
  <2>3. CASE Writing
    <3>1. PublicKeys!Lose
      BY <1>1, <1>3, <2>1, <2>2, <2>3
         DEF PublicKeys!Lose, Writing, OnDisk, Session, SessionOf, Copy, Dirty
    <3>2. QED
      BY <2>2, <3>1 DEF PublicKeys!Next
  <2>4. CASE ~Writing
    <3>1. stored'[PUBLIC] = stored[PUBLIC]
      BY <1>1, <2>1, <2>4 DEF Writing
    <3>2. CASE ring[PUBLIC] # "null"
      <4>1. PublicKeys!Abandon
        BY <1>1, <2>1, <2>2, <2>4, <3>1, <3>2
           DEF PublicKeys!Abandon, PublicKeys!EndSession, OnDisk, Session, SessionOf, Copy, Dirty
      <4>2. QED
        BY <2>2, <4>1 DEF PublicKeys!Next
    <3>3. CASE ring[PUBLIC] = "null"
      <4>1. UNCHANGED PublicKeys!promiseVars
        BY <1>1, <1>2, <2>1, <2>2, <2>4, <3>1, <3>3
           DEF PublicKeys!promiseVars, OnDisk, Session, SessionOf, Copy, Dirty
      <4>2. QED
        BY <2>2, <4>1
    <3>4. QED
      BY <3>2, <3>3
  <2>5. QED
    BY <2>3, <2>4
<1>10. QED
  BY <1>4, <1>5, <1>6, <1>7, <1>8, <1>9 DEF Life

LEMMA ForeignMaps ==
  ASSUME MapInv, NEW l \in Level, NEW S \in KeyBlocks, Foreign(l, S)
  PROVE  [PublicKeys!Next]_(PublicKeys!promiseVars) /\ UnreadStoreIsEmpty'
<1>1. /\ ~(phase = "write" /\ cursor = l)
      /\ stored' = [stored EXCEPT ![l] = S]
      /\ UNCHANGED <<mem, ring, modified, phase, cursor>>
  BY DEF Foreign, ForeignWrite, rnpVars, hostVars
<1>2. stored \in [Level -> SUBSET Key] /\ PUBLIC \in Level
  BY DEF MapInv, IInv, TypeOK, RingsTypeOK
<1>3. UnreadStoreIsEmpty' /\ (Writing' <=> Writing)
  BY <1>1 DEF MapInv, UnreadStoreIsEmpty, Writing
<1>4. CASE l = PUBLIC
  <2>1. S \in PublicKeys!KeyBlocks
    BY DEF KeyBlocks, PublicKeys!KeyBlocks, Closed, PublicKeys!Closed, Key, PublicKeys!Key
  <2>2. PublicKeys!Replace
    BY <1>1, <1>2, <1>4, <2>1 DEF PublicKeys!Replace, Writing, OnDisk, Session, SessionOf, Copy, Dirty
  <2>3. QED
    BY <1>3, <2>2 DEF PublicKeys!Next
<1>5. CASE l = SECRET
  BY <1>1, <1>2, <1>3, <1>5 DEF PublicKeys!promiseVars, OnDisk, Session, SessionOf, Copy, Dirty
<1>6. QED
  BY <1>4, <1>5

\* An initial state of the plugin is one of the promise.
LEMMA InitMaps == Init => PublicKeys!Init /\ MapInv
<1> SUFFICES ASSUME Init PROVE PublicKeys!Init /\ MapInv
  OBVIOUS
<1>1. MapInv
  BY InvInit DEF MapInv, UnreadStoreIsEmpty, Init, RingsInit, NoKeys
<1>2. stored[PUBLIC] \in PublicKeys!KeyBlocks
  BY DEF Init, RingsInit, KeyBlocks, PublicKeys!KeyBlocks, Closed, PublicKeys!Closed,
     Key, PublicKeys!Key
<1>3. PublicKeys!Init
  BY <1>2 DEF PublicKeys!Init, Init, RingsInit, NoKeys, Writing, OnDisk, Session, SessionOf, Copy, Dirty
<1>4. QED
  BY <1>1, <1>3

\* Every step of the plugin is a step of the promise, or concerns it not.
LEMMA StepMaps ==
  MapInv /\ [Next]_vars => MapInv' /\ [PublicKeys!Next]_(PublicKeys!promiseVars)
<1> SUFFICES ASSUME MapInv, [Next]_vars
             PROVE  UnreadStoreIsEmpty' /\ [PublicKeys!Next]_(PublicKeys!promiseVars)
  BY InvStep DEF MapInv
<1>1. CASE UNCHANGED ringsVars
  BY <1>1 DEF MapInv, UnreadStoreIsEmpty, ringsVars, fileVars, rnpVars, hostVars,
     PublicKeys!promiseVars, Writing, OnDisk, Session, SessionOf, Copy, Dirty
<1>2. ASSUME NEW l \in Level, NEW o \in UsedRing(l), Reads(o), phase = "up"
      PROVE  UnreadStoreIsEmpty' /\ [PublicKeys!Next]_(PublicKeys!promiseVars)
  <2>1. ring' = o.ring /\ mem' = o.mem /\ UNCHANGED <<modified, fileVars, hostVars>>
    BY <1>2 DEF Reads
  <2>2. QED
    BY <1>2, <2>1, ReadsMap
<1>3. CASE UNCHANGED vars
  BY <1>1, <1>3 DEF vars
<1>4. QED
  BY <1>1, <1>2, <1>3, StepKinds, RemoveMaps, LifeMaps, ForeignMaps DEF ReadsNothing

\* The public keys behave as KeyStorePromise says, for every set of keys and
\* every combination of faults: they are read once, changed by acknowledged
\* deletions only, committed by the truncation in ~Keyring, lost only before
\* that commit has settled.
THEOREM PromiseIsKept == Spec => KeepsPromise
BY InitMaps, StepMaps, PTL DEF Spec, KeepsPromise, PublicKeys!Promise
=============================================================================
