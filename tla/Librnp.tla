------------------------------- MODULE Librnp -------------------------------
(***************************************************************************)
(* OpenPGP keys and the part of librnp the plugins rely on.                *)
(*                                                                         *)
(* librnp is not part of this repository: what is written here is what     *)
(* rnp/rnp.cpp depends on when it calls it.  An rnp_ffi_t holds two key    *)
(* stores, a public one and a secret one; a key handle gives access to     *)
(* whatever either store knows about the key.                              *)
(*                                                                         *)
(* A key is one value: its keyid and its fingerprint are two names of it,  *)
(* and no two keys share either.                                           *)
(***************************************************************************)
CONSTANTS
  Primary,    \* the primary keys
  Subkey,     \* the subkeys
  PrimaryOf,  \* PrimaryOf[s] is the primary key that subkey s is bound to
  NoName      \* the empty QString, where a keyid or a fingerprint is expected

ASSUME KeysAssumption ==
  /\ Primary \cap Subkey = {}
  /\ PrimaryOf \in [Subkey -> Primary]
  /\ NoName \notin Primary \cup Subkey

Key == Primary \cup Subkey

\* enum Rnp::Keyring::Level, which also names the two stores of an rnp_ffi_t.
PUBLIC == "PUBLIC"
SECRET == "SECRET"
Level  == {PUBLIC, SECRET}

\* The contents of the two stores of an rnp_ffi_t.
Stores == [Level -> SUBSET Key]
NoKeys == [l \in Level |-> {}]

SubkeysOf(p) == {s \in Subkey : PrimaryOf[s] = p}

\* rnp_key_get_primary_fprint, extended to primary keys.
Owner(k) == IF k \in Primary THEN k ELSE PrimaryOf[k]

\* In an OpenPGP key file every subkey packet follows its primary key: a file
\* never holds a subkey without the primary it is bound to.
Closed(S) == \A s \in S \cap Subkey : PrimaryOf[s] \in S
KeyBlocks == {S \in SUBSET Key : Closed(S)}

\* rnp_locate_key finds a key that either store holds; it gives a null handle,
\* and no error, for any other.
Locates(m, k) == k \in m[PUBLIC] \cup m[SECRET]

\* rnp_key_get_subkey_count and rnp_key_get_subkey_at: the subkeys known to the
\* public part of a key when there is one, to its secret part otherwise.
SubkeysAt(m, k) ==
  SubkeysOf(k) \cap (IF k \in m[PUBLIC] THEN m[PUBLIC] ELSE m[SECRET])

\* rnp_key_remove: "flags" names the stores to remove the key from (RNP_KEY_-
\* REMOVE_PUBLIC, RNP_KEY_REMOVE_SECRET) and may hold "SUBKEYS".  It refuses a
\* store that does not hold the key.
CanRemove(m, k, flags) == \A l \in Level \cap flags : k \in m[l]
Removed(m, k, flags) ==
  LET gone == {k} \cup (IF "SUBKEYS" \in flags THEN SubkeysOf(k) ELSE {})
  IN  [l \in Level |-> IF l \in flags THEN m[l] \ gone ELSE m[l]]
=============================================================================
