----------------------------- MODULE Signatures -----------------------------
(***************************************************************************)
(* How a signature found by librnp becomes an answer for the caller:       *)
(* toSignature in rnp/rnp.cpp, and the loop that RnpFfi::verify and        *)
(* RnpFfi::decrypt share.                                                  *)
(*                                                                         *)
(* A signature, as a message carries it, is                                *)
(*   by     the key that made it                                           *)
(*   fpr    whether it names the fingerprint of that key, besides its keyid*)
(*   truth  what librnp finds when it has the key: "VALID", "EXPIRED",     *)
(*          "INVALID", "UNKNOWN" (any other status); or "ERROR" when       *)
(*          looking for the key fails otherwise than by not finding it     *)
(***************************************************************************)
EXTENDS Librnp, Sequences, Naturals

Truth     == {"VALID", "EXPIRED", "INVALID", "UNKNOWN", "ERROR"}
Signature == [by : Key, fpr : BOOLEAN, truth : Truth]

\* struct Rnp::Signature.
Status == {"VALID", "EXPIRED", "KEY_NOT_FOUND", "INVALID", "UNKNOWN"}
Finding == [status : Status, keyid : Key \cup {NoName},
            fingerprint : Key \cup {NoName}]

\* Mutant: the keyid of the primary key and the fingerprint of the signer.
ToSignatureOfSigner(m, sig) ==
  [status |-> IF Locates(m, sig.by) THEN sig.truth ELSE "KEY_NOT_FOUND",
   keyid |-> Owner(sig.by), fingerprint |-> sig.by]

\* toSignature.  For a subkey the primary key must be located too, but the keyid
\* is read from the subkey; the fingerprint is overwritten with the primary's.
ToSignature(m, sig) ==
  IF sig.truth = "ERROR"
  THEN [status |-> "UNKNOWN", keyid |-> NoName, fingerprint |-> NoName]
  ELSE IF ~Locates(m, sig.by)
  THEN [status |-> "KEY_NOT_FOUND", keyid |-> sig.by,
        fingerprint |-> IF sig.fpr THEN sig.by ELSE NoName]
  ELSE [status |-> sig.truth,
        keyid |-> IF Locates(m, Owner(sig.by)) THEN sig.by ELSE NoName,
        fingerprint |-> Owner(sig.by)]

Findings(m, sigs) == [i \in DOMAIN sigs |-> ToSignature(m, sigs[i])]

(***************************************************************************)
(* The caller names the key it asks about with a Sailfish::Crypto::Key:    *)
(*   own    whether its storage plugin is this one                         *)
(*   coll   its collection name, name  its name                            *)
(*   upper  whether both are spelled in upper case, as librnp prints them  *)
(***************************************************************************)
CryptoKey == [own : BOOLEAN, coll : Key \cup {NoName}, name : Key \cup {NoName},
              upper : BOOLEAN]

\* enum CryptoManager::VerificationStatus, as far as it is used.
Verdicts == {"Unknown", "Succeeded", "KeyExpired", "KeyInvalid", "Failed"}

\* The names are compared as they are spelled.
Matches(ck, found) ==
  /\ ck.coll = found.keyid /\ (ck.upper \/ ck.coll = NoName)
  /\ ck.name = found.fingerprint /\ (ck.upper \/ ck.name = NoName)

\* Mutant: the status is passed on as it is.
VerdictUntranslated(status) == status

VerdictOf(status) ==
  CASE status = "VALID"         -> "Succeeded"
    [] status = "EXPIRED"       -> "KeyExpired"
    [] status = "KEY_NOT_FOUND" -> "KeyInvalid"
    [] status = "INVALID"       -> "Failed"
    [] status = "UNKNOWN"       -> "Unknown"

\* Mutant: the last finding about the named key decides.
DecidesLast(ck, found, i) ==
  /\ Matches(ck, found[i])
  /\ \A j \in (i + 1)..Len(found) : ~Matches(ck, found[j])

\* The first finding about the named key decides.
Decides(ck, found, i) ==
  /\ Matches(ck, found[i])
  /\ \A j \in 1..(i - 1) : ~Matches(ck, found[j])

Verdict(ck, found) ==
  IF \E i \in DOMAIN found : Decides(ck, found, i)
  THEN VerdictOf(found[CHOOSE i \in DOMAIN found : Decides(ck, found, i)].status)
  ELSE "Unknown"
=============================================================================
