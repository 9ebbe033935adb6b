----------------------------- MODULE MailCrypto -----------------------------
(***************************************************************************)
(* QMailCryptoRNP, the plugin of qmf/rnp/plugin.cpp that signs, verifies   *)
(* and decrypts the parts of mail messages.                                *)
(*                                                                         *)
(* It runs in another process than the storage plugin, keeps nothing       *)
(* between two calls, and reads the key files each time with an Rnp object *)
(* of its own.  The file of the public keys changes meanwhile as           *)
(* KeyStorePromise says, which is what the storage plugin keeps to; the    *)
(* file of the secret keys changes in any way.  A message part changes by  *)
(* the plugin, and by what happens to it on its way.                       *)
(***************************************************************************)
EXTENDS Signatures

CONSTANTS
  Words,       \* what the text of a part says
  Serialised,  \* Serialised[w]: what QMF writes for a part that says w
  Nothing,     \* the data of an empty message
  Garbage,     \* data that is not a message
  Expiring,    \* the keys whose signatures have expired
  Signings,    \* the lists of fingerprints that callers sign with
  Arrivals     \* the parts that the plugin is given

(***************************************************************************)
(* A text is what it says and how its lines end, which a mail server may   *)
(* change.  A signature is made by a key over a text.  An encrypted part   *)
(* is to the keys that open it, and to NoName if it opens without a key:   *)
(* with a passphrase of its own, or because it is not encrypted.           *)
(***************************************************************************)
Text == [words : Words, eol : {"LF", "CRLF", "mixed"}]
Made == [by : Key, over : Text]

Plain     == [kind : {"plain"}, text : Text]
Signed    == [kind : {"signed"}, text : Text, sigs : Seq(Made)]
Encrypted == [kind : {"encrypted"}, text : Text, pgp : BOOLEAN,
              to : SUBSET (Key \cup {NoName}),
              inside : Plain \cup Signed \cup {Nothing, Garbage}]
Part      == Plain \cup Signed \cup Encrypted

ASSUME MailAssumption ==
  /\ Serialised \in [Words -> Words]
  /\ {Nothing, Garbage} \cap (Plain \cup Signed) = {} /\ Nothing # Garbage
  /\ Expiring \subseteq Key
  /\ Signings \subseteq Seq(Key) \ {<<>>}
  /\ Arrivals \subseteq Part

VARIABLES
  disk, session, copy, dirty,  \* the public keys, as in KeyStorePromise
  secret,     \* the keys in the file of the secret keys
  part,       \* the message part
  available,  \* whether its content has been retrieved
  op,         \* the operation that waits for librnp, or Idle
  answer,     \* what the last operation returned
  faithful    \* whether the part was signed here, and if it was signed before, as
              \* QMF writes it; and has kept its words since

publicVars == <<disk, session, copy, dirty>>
partVars   == <<part, available, faithful>>
mailVars   == <<publicVars, secret, partVars, op, answer>>

Storage == INSTANCE KeyStorePromise

(***************************************************************************)
(* Reading a key file.  While the storage plugin writes it, any part of it *)
(* may be there; it may not be readable at all.                            *)
(***************************************************************************)
SecretRead == {secret, {}}

PublicRead == IF session = "saving" THEN {S \in KeyBlocks : S \subseteq disk} ELSE {disk, {}}

\* canonicalizeStr.
Canon(text) == [text EXCEPT !.eol = "CRLF"]

(***************************************************************************)
(* verifySignature.                                                        *)
(***************************************************************************)
PartHasSignature(p) == p.kind = "signed"

\* What librnp may find of a signature when it has its key: what is true of it,
\* or something else that keeps it from knowing.
TruthsOf(made, text) ==
  {"UNKNOWN", "ERROR",
   IF made.over # text THEN "INVALID" ELSE IF made.by \in Expiring THEN "EXPIRED" ELSE "VALID"}

\* toSignatureResult, UNKNOWN by its default.
ToSignatureResult ==
  [VALID |-> "SignatureValid", EXPIRED |-> "SignatureExpired", KEY_NOT_FOUND |-> "MissingKey",
   INVALID |-> "BadSignature", UNKNOWN |-> "UnknownError"]

\* What librnp may find of the signatures of p, for those that it lists.
Findable(p, listed) ==
  {truths \in [listed -> Truth] : \A n \in listed : truths[n] \in TruthsOf(p.sigs[n], Canon(p.text))}

\* The key results, for what librnp has found.
KeyResults(p, keys, truths) ==
  LET finding == [n \in DOMAIN truths |->
        ToSignature([PUBLIC |-> keys, SECRET |-> {}],
                    [by |-> p.sigs[n].by, fpr |-> TRUE, truth |-> truths[n]])]
  IN  [n \in DOMAIN truths |->
        [key |-> IF finding[n].fingerprint = NoName THEN finding[n].keyid ELSE finding[n].fingerprint,
         status |-> ToSignatureResult[finding[n].status]]]

\* Mutant: each result overwrites the summary.
SummaryOfLast(results) ==
  IF DOMAIN results = {} THEN "BadSignature"
  ELSE results[CHOOSE n \in DOMAIN results : \A m \in DOMAIN results : m <= n].status

\* The last result that is not valid.
Summary(results) ==
  LET flawed == {n \in DOMAIN results : results[n].status # "SignatureValid"}
  IN  IF DOMAIN results = {} THEN "BadSignature"
      ELSE IF flawed = {} THEN "SignatureValid"
      ELSE results[CHOOSE n \in flawed : \A m \in flawed : m <= n].status

NoResults == [n \in {} |-> NoName]
Answer(of, status) == [of |-> of, status |-> status, results |-> NoResults, read |-> {}]

Idle == [of |-> "none"]

Verify ==
  /\ op = Idle
  /\ \/ /\ ~PartHasSignature(part)
        /\ answer' = Answer("verify", "MissingSignature")
     \/ /\ PartHasSignature(part) /\ ~available
        /\ answer' = Answer("verify", "default")
     \/ /\ PartHasSignature(part) /\ available
        /\ \E keys \in PublicRead, listed \in SUBSET DOMAIN part.sigs :
             \E truths \in Findable(part, listed) :
               LET results == KeyResults(part, keys, truths)
               IN  answer' = [of |-> "verify", status |-> Summary(results),
                              results |-> results, read |-> keys]
  /\ UNCHANGED <<publicVars, secret, partVars, op>>

(***************************************************************************)
(* sign.                                                                   *)
(***************************************************************************)
\* QMailMessagePart::toRfc2822.
Serialise(text) == [text EXCEPT !.words = Serialised[@]]

\* The keys are read and looked up, and the text prepared, before librnp asks
\* for passphrases.
BeginSign(keys) ==
  /\ op = Idle
  /\ \E held \in SecretRead :
       IF \A n \in DOMAIN keys : keys[n] \in held
       THEN /\ op' = [of |-> "sign", keys |-> keys, text |-> Serialise(part.text)]
            /\ UNCHANGED answer
       ELSE /\ answer' = Answer("sign", "MissingKey")
            /\ UNCHANGED op
  /\ UNCHANGED <<publicVars, secret, partVars>>

MadeBy(keys, text) == [n \in DOMAIN keys |-> [by |-> keys[n], over |-> text]]

\* Mutant: what is appended to the part is not what was signed.
WrappedAsItWas(p, keys, text) ==
  IF PartHasSignature(p) THEN [p EXCEPT !.sigs = MadeBy(keys, Canon(text))]
  ELSE [kind |-> "signed", text |-> p.text, sigs |-> MadeBy(keys, Canon(text))]

\* The two parts of a signed one: the text as it was signed, and the signature.
\* A part that is signed already keeps its text and gets another signature.
Wrapped(p, keys, text) ==
  IF PartHasSignature(p) THEN [p EXCEPT !.sigs = MadeBy(keys, Canon(text))]
  ELSE [kind |-> "signed", text |-> text, sigs |-> MadeBy(keys, Canon(text))]

SignSucceeds ==
  /\ op.of = "sign"
  /\ part' = Wrapped(part, op.keys, op.text)
  /\ answer' = Answer("sign", "SignatureValid")
  /\ faithful' = (PartHasSignature(part) => Serialise(part.text) = part.text)
  /\ op' = Idle
  /\ UNCHANGED <<publicVars, secret, available>>

\* Mutant: the part is wrapped before librnp signs.
SignFailsWrapped ==
  /\ op.of = "sign"
  /\ part' = Wrapped(part, <<>>, op.text)
  /\ answer' = Answer("sign", "UnknownError")
  /\ op' = Idle
  /\ UNCHANGED <<publicVars, secret, available, faithful>>

\* A key that cannot sign, a dialogue that is cancelled, a failure of librnp.
SignFails ==
  /\ op.of = "sign"
  /\ answer' = Answer("sign", "UnknownError")
  /\ op' = Idle
  /\ UNCHANGED <<publicVars, secret, partVars>>

(***************************************************************************)
(* decrypt.                                                                *)
(***************************************************************************)
CanDecrypt(p) == p.kind = "encrypted" /\ p.pgp

BeginDecrypt ==
  /\ op = Idle
  /\ \/ /\ ~CanDecrypt(part)
        /\ answer' = Answer("decrypt", "UnsupportedProtocol")
        /\ UNCHANGED op
     \/ /\ CanDecrypt(part) /\ ~available
        /\ answer' = Answer("decrypt", "default")
        /\ UNCHANGED op
     \/ /\ CanDecrypt(part) /\ available
        /\ \E held \in SecretRead : op' = [of |-> "decrypt", held |-> held]
        /\ UNCHANGED answer
  /\ UNCHANGED <<publicVars, secret, partVars>>

Opens(held, p) == p.to \cap (held \cup {NoName}) # {}

\* QMailMessage::fromRfc2822, which makes a message of any data.
ReadAs(data) == IF data = Garbage THEN Plain ELSE {data}

\* Mutant: an empty message replaces the part.
DecryptSucceedsAnyway ==
  /\ op.of = "decrypt"
  /\ Opens(op.held, part)
  /\ part' \in ReadAs(part.inside)
  /\ answer' = Answer("decrypt", "Decrypted")
  /\ op' = Idle
  /\ UNCHANGED <<publicVars, secret, available, faithful>>

\* The part becomes the message that was inside, parts or body; nobody looks
\* whether it is one.
DecryptSucceeds ==
  /\ op.of = "decrypt"
  /\ Opens(op.held, part) /\ part.inside # Nothing
  /\ part' \in ReadAs(part.inside)
  /\ answer' = Answer("decrypt", "Decrypted")
  /\ op' = Idle
  /\ UNCHANGED <<publicVars, secret, available, faithful>>

\* No key, no passphrase, no message inside, a failure of librnp: the data that
\* Rnp::decrypt returns is empty.
DecryptFails ==
  /\ op.of = "decrypt"
  /\ answer' = Answer("decrypt", "UnknownCryptError")
  /\ op' = Idle
  /\ UNCHANGED <<publicVars, secret, partVars>>

(***************************************************************************)
(* The surroundings.                                                       *)
(***************************************************************************)
\* The storage plugin and GnuPG.
StorageSteps ==
  /\ Storage!Next
  /\ UNCHANGED <<secret, partVars, op, answer>>

SecretChanges ==
  /\ secret' \in KeyBlocks
  /\ UNCHANGED <<publicVars, partVars, op, answer>>

\* The rest of the part is retrieved.
Retrieve ==
  /\ op = Idle /\ ~available
  /\ available' = TRUE
  /\ UNCHANGED <<publicVars, secret, part, op, answer, faithful>>

\* The part is sent and comes back with other line ends ...
Travel(eol) ==
  /\ op = Idle
  /\ part' = [part EXCEPT !.text.eol = eol]
  /\ UNCHANGED <<publicVars, secret, available, op, answer, faithful>>

\* ... or saying something else.
Alter(w) ==
  /\ op = Idle
  /\ part' = [part EXCEPT !.text.words = w]
  /\ faithful' = FALSE
  /\ UNCHANGED <<publicVars, secret, available, op, answer>>

MailInit ==
  /\ Storage!Init
  /\ secret \in KeyBlocks
  /\ part \in Arrivals
  /\ available \in BOOLEAN
  /\ op = Idle
  /\ answer = Answer("none", "none")
  /\ faithful = FALSE

Calls ==
  \/ Verify
  \/ \E keys \in Signings : BeginSign(keys)
  \/ BeginDecrypt

Returns ==
  \/ SignSucceeds
  \/ SignFails
  \/ DecryptSucceeds
  \/ DecryptFails

Handling ==
  \/ Retrieve
  \/ \E eol \in {"LF", "CRLF", "mixed"} : Travel(eol)
  \/ \E w \in Words : Alter(w)

MailNext ==
  \/ Calls
  \/ Returns
  \/ Handling
  \/ SecretChanges
  \/ StorageSteps

MailSpec == MailInit /\ [][MailNext]_mailVars

(***************************************************************************)
(* Properties.                                                             *)
(***************************************************************************)

\* Every variable has its type.
MailTypeOK ==
  /\ disk \in KeyBlocks /\ copy \in KeyBlocks /\ dirty \in BOOLEAN
  /\ session \in {"closed", "open", "refused", "saving"}
  /\ secret \in KeyBlocks
  /\ part \in Part /\ available \in BOOLEAN /\ faithful \in BOOLEAN
  /\ op \in {Idle} \cup [of : {"sign"}, keys : Signings, text : Text]
              \cup [of : {"decrypt"}, held : SUBSET Key]
  /\ answer.of \in {"none", "verify", "sign", "decrypt"}

\* An operation that fails leaves the part as it was, to be shown, sent or
\* tried again; and none touches it before librnp has succeeded.
FailureKeepsThePart ==
  [][(op # Idle \/ op' # Idle \/ answer' # answer) /\ part' # part =>
       op' = Idle /\ answer'.status \in {"SignatureValid", "Decrypted"}]_mailVars

\* A verification gives its answer.
Verified == answer' # answer /\ answer'.of = "verify"

\* The summary of a verification is that the signature is valid if and only if
\* some signature was found and each one that was found is known to be by a key
\* that is on disk and was read, over the text of the part as it is now, and not
\* expired.  A file that was half written, a bad signature before a good one or
\* one that librnp cannot tell about never makes it valid.
ValidIffAllValid ==
  [][Verified =>
       (answer'.status = "SignatureValid" <=>
          /\ DOMAIN answer'.results # {}
          /\ \A n \in DOMAIN answer'.results :
               /\ part.sigs[n].over = Canon(part.text)
               /\ part.sigs[n].by \in (answer'.read \cap disk) \ Expiring
               /\ answer'.results[n].status # "UnknownError")]_mailVars

\* A signature made here is never reported as bad, wherever the part has been,
\* as long as it still says what was signed; one that was signed again must
\* have been as QMF writes it.
OwnSignaturesAreNeverBad ==
  [][Verified /\ faithful =>
       /\ \A n \in DOMAIN answer'.results : answer'.results[n].status # "BadSignature"
       /\ answer'.status = "BadSignature" => DOMAIN answer'.results = {}]_mailVars
=============================================================================
