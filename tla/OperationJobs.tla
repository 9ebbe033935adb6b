--------------------------- MODULE OperationJobs ----------------------------
(***************************************************************************)
(* What Rnp::sign, Rnp::verify, Rnp::encrypt and Rnp::decrypt of           *)
(* rnp/rnp.cpp are called with, and which keys they are to use.            *)
(***************************************************************************)
EXTENDS Librnp, Sequences, Naturals

CONSTANTS
  MayUse,     \* MayUse[u]: the keys that librnp allows the usage u
  Protected,  \* the keys whose secret part is under a passphrase
  Jobs        \* the operations that callers ask for

Handles == Key \cup {NoName}

\* What the user is asked the passphrase of: a key, or a message, for which unlock
\* is called with a null key.
Locked == Protected \cup {NoName}

(***************************************************************************)
(* A job is what an operation is called with:                              *)
(*   recipients, signers  arrays of Rnp::Key, <<>> where there is none     *)
(*   to                   the keys that the message is encrypted to, and   *)
(*                        NoName if it has a passphrase of its own         *)
(*   sigs                 how many signatures the message carries          *)
(***************************************************************************)
Job == [op : {"sign", "verify", "encrypt", "decrypt"},
        recipients : Seq(Handles), signers : Seq(Handles),
        to : SUBSET Handles, sigs : Nat]

\* The arrays in which an operation looks for keys.
Arrays(op) ==
  IF op = "sign" THEN {"signers"}
  ELSE IF op = "encrypt" THEN {"recipients", "signers"} ELSE {}

\* Every array that a caller passes ends with an invalid Key: the local arrays
\* of RnpFfi::operation and QMailCryptoRNP::sign have one element too many.
Ended(list) == \E n \in DOMAIN list : list[n] = NoName

\* The usage that the keys of an array must allow.
UsageOf(a) == IF a = "recipients" THEN "encrypt" ELSE "sign"

\* The keys that an array names: those before its first invalid one.
Named(list) == {list[n] : n \in {n \in DOMAIN list : \A m \in 1..n : list[m] # NoName}}

ASSUME JobsAssumption ==
  /\ MayUse \in [{"sign", "encrypt"} -> SUBSET Key]
  /\ Protected \subseteq Key
  /\ Jobs \subseteq Job
  /\ \A j \in Jobs : \A a \in Arrays(j.op) : Ended(j[a])
=============================================================================
