------------------------------ MODULE RnpRings ------------------------------
(***************************************************************************)
(* The classes Rnp, Rnp::Keyring and Rnp::Key of rnp/rnp.cpp: one Rnp      *)
(* object, its two lazily opened keyrings, and the two key files under     *)
(* ~/.gnupg that it reads when a keyring is first used and writes back     *)
(* only when the object is destroyed.                                      *)
(*                                                                         *)
(* Opening a keyring is part of the call that first needs it, so it is an  *)
(* operator here (UsedRing) and a part of each handler's action in         *)
(* RnpPlugin.  Destroying the Rnp object is several actions, because other *)
(* programs and a crash can come between them.                             *)
(***************************************************************************)
EXTENDS Librnp

CONSTANTS
  Faults      \* what may go wrong: a subset of {"crash", "io", "foreign"}

ASSUME FaultsAssumption == Faults \subseteq {"crash", "io", "foreign"}

VARIABLES
  file,       \* file[l]: the key file of level l: "absent", "torn" or "whole"
  stored,     \* stored[l]: the keys that can be read from it
  mem,        \* mem[l]: the keys in the store of level l of m_ffi
  ring,       \* ring[l]: "null" (no Keyring yet), "invalid" or "valid" (m_valid)
  modified,   \* modified[l]: m_modified of that Keyring
  phase,      \* "down", "up", "close" (in ~Keyring), "write" (its file is open)
  cursor      \* the level whose Keyring ~Rnp is deleting

fileVars == <<file, stored>>
rnpVars  == <<mem, ring, modified>>
hostVars == <<phase, cursor>>
ringsVars == <<fileVars, rnpVars, hostVars>>

RingsTypeOK ==
  /\ file     \in [Level -> {"absent", "torn", "whole"}]
  /\ stored   \in [Level -> SUBSET Key]
  /\ mem      \in Stores
  /\ ring     \in [Level -> {"null", "invalid", "valid"}]
  /\ modified \in [Level -> BOOLEAN]
  /\ phase    \in {"down", "up", "close", "write"}
  /\ cursor   \in Level

\* No Rnp object exists; the files hold whatever GnuPG left in them.
RingsInit ==
  /\ file   \in [Level -> {"absent", "whole"}]
  /\ stored \in [Level -> KeyBlocks]
  /\ \A l \in Level : file[l] = "absent" => stored[l] = {}
  /\ mem = NoKeys
  /\ ring = [l \in Level |-> "null"]
  /\ modified = [l \in Level |-> FALSE]
  /\ phase = "down"
  /\ cursor = PUBLIC

(***************************************************************************)
(* Keyring::Keyring.  A missing file, or one that cannot be loaded, leaves *)
(* an invalid Keyring; nothing tries again as long as the Rnp object lives.*)
(* What is left of a torn file may or may not load; rnp_load_keys adds all *)
(* of a file to a store, or nothing.                                       *)
(***************************************************************************)
\* Mutant: the Keyring is valid although rnp_load_keys loaded nothing.
OpenedUnread(l) == [ring |-> [ring EXCEPT ![l] = "valid"], mem |-> mem]

Opened(l)  == [ring |-> [ring EXCEPT ![l] = "valid"],
               mem  |-> [mem EXCEPT ![l] = @ \cup stored[l]]]
Refused(l) == [ring |-> [ring EXCEPT ![l] = "invalid"], mem |-> mem]

CanOpen(l)   == file[l] \in {"torn", "whole"}
CanRefuse(l) == file[l] \in {"torn", "absent"} \/ "io" \in Faults

\* Mutant: the file is loaded anew by every call.
UsedRingReloaded(l) ==
  {o \in {Opened(l), Refused(l)} :
     \/ o = Opened(l)  /\ CanOpen(l)
     \/ o = Refused(l) /\ CanRefuse(l)}

\* Mutant: a keyring that could not be opened is tried again.
UsedRingRetried(l) ==
  IF ring[l] = "valid"
  THEN {[ring |-> ring, mem |-> mem]}
  ELSE {o \in {Opened(l), Refused(l)} :
          \/ o = Opened(l)  /\ CanOpen(l)
          \/ o = Refused(l) /\ CanRefuse(l)}

\* Rnp::publicKeyring and Rnp::secretKeyring: what ring and mem may be when
\* the call returns.
UsedRing(l) ==
  IF ring[l] # "null"
  THEN {[ring |-> ring, mem |-> mem]}
  ELSE {o \in {Opened(l), Refused(l)} :
          \/ o = Opened(l)  /\ CanOpen(l)
          \/ o = Refused(l) /\ CanRefuse(l)}

(***************************************************************************)
(* Keyring and Key lookups.  A handle is the key it refers to, or NoName   *)
(* when the Key object is not valid: NoName is also what fingerprint()     *)
(* returns for it.                                                         *)
(***************************************************************************)
\* Keyring::keyids: the primary keys of both stores, whichever level is asked.
KeyIds(m) == {k \in Primary : Locates(m, k)}

\* Mutant: a Key that is not valid is taken for the key that was asked for.
KeyAtUnchecked(m, id) == id

\* Keyring::key(const QString &).
KeyAt(m, id) == IF Locates(m, id) THEN id ELSE NoName

\* Key::fingerprints.
Fingerprints(m, k) ==
  {k} \cup (IF k \in Primary THEN SubkeysAt(m, k) ELSE {})

\* Mutant: a name that no subkey has stands for the key itself.
SubkeyOrPrimary(m, k, name) ==
  IF k \in Primary /\ name \in SubkeysAt(m, k) THEN name ELSE k

\* Key::subkey: only the subkeys of k are searched, never k itself.
SubkeyAt(m, k, name) ==
  IF k \in Primary /\ name \in SubkeysAt(m, k) THEN name ELSE NoName

\* Keyring::key(const Sailfish::Crypto::Key &).
NamedKey(m, coll, name) ==
  LET k == KeyAt(m, coll)
  IN  IF k = name THEN k ELSE SubkeyAt(m, k, name)

\* Mutants: the subkeys, or the secret part, are left behind.
FlagsWithoutSubkeys(m, k) == {PUBLIC} \cup (IF k \in m[SECRET] THEN {SECRET} ELSE {})
FlagsWithoutSecret(m, k)  == {PUBLIC} \cup (IF k \in Primary THEN {"SUBKEYS"} ELSE {})

\* The flags that Key::remove asks librnp for.
RemoveFlags(m, k) ==
  {PUBLIC} \cup (IF k \in m[SECRET] THEN {SECRET} ELSE {})
           \cup (IF k \in Primary THEN {"SUBKEYS"} ELSE {})

\* Key::remove: a Key that is not valid counts as removed.
RemoveOk(m, k) == k = NoName \/ CanRemove(m, k, RemoveFlags(m, k))

\* Mutant: each store is asked on its own, and what one of them does stays done.
RemovedPiecemeal(m, k) ==
  Removed(m, k, {l \in RemoveFlags(m, k) : l \in Level => k \in m[l]})

AfterRemove(m, k) ==
  IF k # NoName /\ RemoveOk(m, k) THEN Removed(m, k, RemoveFlags(m, k)) ELSE m

\* Mutant: the deletion is not marked.
MarksNothing == UNCHANGED modified

\* Mutant: the deletion marks the secret Keyring as well.
MarksBoth == modified' = [l \in Level |-> TRUE]

\* Keyring::remove, of the public Keyring: it marks itself, and no other.
MarksModified == modified' = [modified EXCEPT ![PUBLIC] = TRUE]

(***************************************************************************)
(* Rnp::Rnp and Rnp::~Rnp.  The destructor deletes the public Keyring,     *)
(* then the secret one, then the rnp_ffi_t.                                *)
(***************************************************************************)
Create ==
  /\ phase = "down"
  /\ phase' = "up"
  /\ UNCHANGED <<fileVars, rnpVars, cursor>>

Destroy ==
  /\ phase = "up"
  /\ phase' = "close"
  /\ cursor' = PUBLIC
  /\ UNCHANGED <<fileVars, rnpVars>>

\* The end of ~Keyring (rnp_unload_keys) and what follows it in ~Rnp.
Release ==
  /\ ring' = [ring EXCEPT ![cursor] = "null"]
  /\ modified' = [modified EXCEPT ![cursor] = FALSE]
  /\ \/ /\ cursor = PUBLIC
        /\ mem' = IF ring[PUBLIC] = "valid" THEN [mem EXCEPT ![PUBLIC] = {}] ELSE mem
        /\ phase' = "close"
        /\ cursor' = SECRET
     \/ /\ cursor = SECRET
        /\ mem' = NoKeys
        /\ phase' = "down"
        /\ cursor' = PUBLIC

\* ~Keyring without a save: nothing was modified, or rnp_output_to_path failed.
SkipSave ==
  /\ phase = "close"
  /\ ~modified[cursor] \/ "io" \in Faults
  /\ Release
  /\ UNCHANGED fileVars

\* rnp_output_to_path truncates the key file before anything is written to it.
OpenOutput ==
  /\ phase = "close"
  /\ modified[cursor]
  /\ file' = [file EXCEPT ![cursor] = "torn"]
  /\ stored' = [stored EXCEPT ![cursor] = {}]
  /\ phase' = "write"
  /\ UNCHANGED <<rnpVars, cursor>>

\* rnp_save_keys and rnp_output_destroy, when both succeed ...
Save ==
  /\ phase = "write"
  /\ file' = [file EXCEPT ![cursor] = "whole"]
  /\ stored' = [stored EXCEPT ![cursor] = mem[cursor]]
  /\ Release

\* What a write that was cut short can leave in the file of level l.
CutShort(l) ==
  \E S \in KeyBlocks :
    /\ S \subseteq mem[l]
    /\ stored' = [stored EXCEPT ![l] = S]
    /\ file' = [file EXCEPT ![l] = "torn"]

\* ... and when rnp_save_keys fails, which ~Keyring does not look at: librnp
\* leaves a partial file, or deletes it.
SaveFails ==
  /\ phase = "write"
  /\ "io" \in Faults
  /\ \/ CutShort(cursor)
     \/ /\ file' = [file EXCEPT ![cursor] = "absent"]
        /\ stored' = [stored EXCEPT ![cursor] = {}]
  /\ Release

\* The host process dies: the Rnp object is gone without ~Rnp.
Crash ==
  /\ "crash" \in Faults
  /\ phase # "down"
  /\ IF phase = "write" THEN CutShort(cursor) ELSE UNCHANGED fileVars
  /\ mem' = NoKeys
  /\ ring' = [l \in Level |-> "null"]
  /\ modified' = [l \in Level |-> FALSE]
  /\ phase' = "down"
  /\ cursor' = PUBLIC

\* Another program (GnuPG, which owns these files) replaces a key file as a
\* whole, by renaming: a rename inside the "write" window leaves the file that
\* the same rename just after it would leave, so it is not taken there.
ForeignWrite(l, S) ==
  /\ "foreign" \in Faults
  /\ ~(phase = "write" /\ cursor = l)
  /\ file' = [file EXCEPT ![l] = "whole"]
  /\ stored' = [stored EXCEPT ![l] = S]
  /\ UNCHANGED <<rnpVars, hostVars>>
=============================================================================
