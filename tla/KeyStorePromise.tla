-------------------------- MODULE KeyStorePromise ---------------------------
(***************************************************************************)
(* What the storage promises about the public keys, without keyrings,      *)
(* stores, destructors or result codes: a set of keys on disk, and a       *)
(* session that reads it once, deletes from its own copy, and writes that  *)
(* copy back at its end if anything was deleted.  A session that could not *)
(* read the keys is without keys to its end.                               *)
(*                                                                         *)
(* The write is one step, Commit.  Until it has settled, and only then, a  *)
(* failure can lose keys; what is left still holds no subkey without its   *)
(* primary key.                                                            *)
(***************************************************************************)
EXTENDS Librnp

VARIABLES
  disk,     \* the keys on disk; as committed, while a commit is not settled
  session,  \* "closed", "open", "refused" (the keys could not be read) or "saving"
  copy,     \* the keys of the open session, {} when there is none
  dirty     \* whether the copy is due to be written back

promiseVars == <<disk, session, copy, dirty>>

\* What one deletion takes: a primary key with its subkeys, a subkey alone, or
\* nothing, when the name is that of no key.
Deletions == {{}} \cup {{k} \cup SubkeysOf(k) : k \in Key}

Init ==
  /\ disk \in KeyBlocks
  /\ session = "closed"
  /\ copy = {}
  /\ dirty = FALSE

\* What a session works on: the keys it has read, or reads now.
Held == IF session = "open" THEN copy ELSE disk

Open ==
  /\ session = "closed"
  /\ session' = "open"
  /\ copy' = Held
  /\ UNCHANGED <<disk, dirty>>

Refuse ==
  /\ session = "closed"
  /\ session' = "refused"
  /\ UNCHANGED <<disk, copy, dirty>>

\* The first call of a session may be a deletion.
Delete(D) ==
  /\ session \in {"closed", "open"}
  /\ session' = "open"
  /\ copy' = Held \ D
  /\ dirty' = TRUE
  /\ UNCHANGED disk

EndSession == copy' = {} /\ dirty' = FALSE

Commit ==
  /\ session = "open" /\ dirty
  /\ disk' = copy
  /\ session' = "saving"
  /\ EndSession

\* A session that ends without a commit: nothing was deleted, the file could
\* not be opened for writing, or the process died.
Abandon ==
  /\ session \in {"open", "refused"}
  /\ session' = "closed"
  /\ EndSession
  /\ UNCHANGED disk

Settle ==
  /\ session = "saving"
  /\ session' = "closed"
  /\ UNCHANGED <<disk, copy, dirty>>

\* The process dies before the commit has settled, or the write fails.
Lose ==
  /\ session = "saving"
  /\ session' = "closed"
  /\ disk' \in KeyBlocks /\ disk' \subseteq disk
  /\ UNCHANGED <<copy, dirty>>

\* Another program replaces the keys on disk.
Replace ==
  /\ session # "saving"
  /\ disk' \in KeyBlocks
  /\ UNCHANGED <<session, copy, dirty>>

Next ==
  \/ Open
  \/ Refuse
  \/ \E D \in Deletions : Delete(D)
  \/ Commit
  \/ Abandon
  \/ Settle
  \/ Lose
  \/ Replace

Promise == Init /\ [][Next]_promiseVars
=============================================================================
