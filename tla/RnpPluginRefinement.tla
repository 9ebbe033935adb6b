------------------------ MODULE RnpPluginRefinement -------------------------
(***************************************************************************)
(* RnpPlugin keeps the promise of KeyStorePromise about the public keys.   *)
(*                                                                         *)
(* The save of ~Keyring is a truncation and a write.  It commits with the  *)
(* truncation: while the file is being written, the keys on disk are those *)
(* of the store.                                                           *)
(***************************************************************************)
EXTENDS RnpPlugin

Writing == phase = "write" /\ cursor = PUBLIC

OnDisk == IF Writing THEN mem[PUBLIC] ELSE stored[PUBLIC]

\* The session that each state of the public Keyring stands for.
SessionOf(r) ==
  IF r = "valid" THEN "open" ELSE IF r = "invalid" THEN "refused" ELSE "closed"

Session == IF Writing THEN "saving" ELSE SessionOf(ring[PUBLIC])

Copy == IF Writing THEN {} ELSE mem[PUBLIC]

Dirty == ~Writing /\ modified[PUBLIC]

PublicKeys ==
  INSTANCE KeyStorePromise WITH
    disk <- OnDisk, session <- Session, copy <- Copy, dirty <- Dirty

\* Whatever is called, whatever fails and whoever else writes the files, the
\* public keys behave as KeyStorePromise says: read, or refused, once, and
\* changed by deletions
\* that RnpKeys::removeSecret acknowledged only, written back as a whole by
\* ~Keyring only if one was, and lost only inside that write.
KeepsPromise == PublicKeys!Promise
=============================================================================
