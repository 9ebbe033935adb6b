----------------------------- MODULE MailProofs -----------------------------
(***************************************************************************)
(* Proofs about MailCrypto, for every set of keys, of words, of parts and  *)
(* of lists of fingerprints, and everything KeyStorePromise allows the     *)
(* storage plugin to do to the key files meanwhile.                        *)
(*                                                                         *)
(* The invariant adds to the types what an operation that waits for librnp *)
(* relies on (the part is still what it was when it began), and what       *)
(* faithful is there to remember.                                          *)
(***************************************************************************)
EXTENDS MailCrypto, FiniteSetTheorems, TLAPS

USE DEF Level, PUBLIC, SECRET

WaitingInv ==
  /\ op.of = "sign" => op.text = Serialise(part.text)
  /\ op.of = "decrypt" => CanDecrypt(part)

FaithfulInv ==
  faithful => /\ PartHasSignature(part)
              /\ \A n \in DOMAIN part.sigs : part.sigs[n].over = Canon(part.text)

MailInv == MailTypeOK /\ WaitingInv /\ FaithfulInv

\* The answer of a verification with results.
Judged ==
  \E keys \in PublicRead, listed \in SUBSET DOMAIN part.sigs :
    \E truths \in Findable(part, listed) :
      LET results == KeyResults(part, keys, truths)
      IN  answer' = [of |-> "verify", status |-> Summary(results),
                     results |-> results, read |-> keys]

(***************************************************************************)
(* Operators.                                                              *)
(***************************************************************************)
\* A set of natural numbers below a bound has a largest element.
LEMMA LargestExists ==
  ASSUME NEW S \in SUBSET Nat, S # {}, NEW b \in Nat, \A n \in S : n <= b
  PROVE  \E n \in S : \A m \in S : m <= n
<1> DEFINE From(n) == {m \in S : n <= m}
           F == {From(n) : n \in S}
<1>1. IsFiniteSet(S)
  BY FS_BoundedSetOfNaturals
<1>2. IsWellFoundedOn(StrictSubsetOrdering(S), SUBSET S)
  BY <1>1, FS_StrictSubsetOrderingWellFounded, FS_FiniteSubsetsOfFinite
<1>3. F \subseteq SUBSET S /\ F # {}
  OBVIOUS
<1>4. PICK T \in F : \A U \in F : ~ (<<U, T>> \in StrictSubsetOrdering(S))
  <2> HIDE DEF F
  <2>1. QED
    BY <1>2, <1>3, WFMin
<1>5. PICK n \in S : T = From(n)
  OBVIOUS
<1>6. ASSUME NEW m \in S, ~(m <= n) PROVE FALSE
  <2>1. From(m) \in F /\ From(m) \subseteq From(n) /\ n \in From(n) /\ n \notin From(m)
    <3>1. n \in Nat /\ m \in Nat /\ n < m
      BY <1>6
    <3>2. From(m) \in F
      BY <1>6
    <3>3. \A k \in S : k \in Nat /\ (m <= k => n <= k)
      BY <3>1
    <3>4. From(m) \subseteq From(n)
      BY <3>3
    <3>5. n <= n /\ ~(m <= n)
      BY <3>1
    <3>6. QED
      BY <3>2, <3>4, <3>5
  <2>2. <<From(m), T>> \in StrictSubsetOrdering(S)
    BY <1>5, <2>1 DEF StrictSubsetOrdering
  <2>3. QED
    BY <1>4, <2>1, <2>2
<1>7. QED
  BY <1>6

\* The status of a key result, for what librnp has found of a signature.
LEMMA ResultIs ==
  ASSUME NEW p \in Signed, NEW keys \in SUBSET Key, NEW listed \in SUBSET DOMAIN p.sigs,
         NEW truths \in Findable(p, listed)
  PROVE  LET results == KeyResults(p, keys, truths)
         IN  /\ DOMAIN results = listed
             /\ \A n \in listed :
                  /\ results[n].status = "SignatureValid" <=>
                       /\ p.sigs[n].over = Canon(p.text)
                       /\ p.sigs[n].by \in keys \ Expiring
                       /\ results[n].status # "UnknownError"
                  /\ results[n].status = "BadSignature" => p.sigs[n].over # Canon(p.text)
<1> DEFINE results == KeyResults(p, keys, truths)
<1>1. DOMAIN truths = listed /\ \A n \in listed : truths[n] \in TruthsOf(p.sigs[n], Canon(p.text))
  BY DEF Findable
<1>2. DOMAIN results = listed
  BY <1>1 DEF KeyResults
<1>3. ASSUME NEW n \in listed
      PROVE  /\ results[n].status = "SignatureValid" <=>
                  /\ p.sigs[n].over = Canon(p.text)
                  /\ p.sigs[n].by \in keys \ Expiring
                  /\ results[n].status # "UnknownError"
             /\ results[n].status = "BadSignature" => p.sigs[n].over # Canon(p.text)
  <2> DEFINE m == [PUBLIC |-> keys, SECRET |-> {}]
             sig == [by |-> p.sigs[n].by, fpr |-> TRUE, truth |-> truths[n]]
  <2>1. results[n].status = ToSignatureResult[ToSignature(m, sig).status]
    BY <1>1, <1>3 DEF KeyResults
  <2>2. ToSignature(m, sig).status =
          IF truths[n] = "ERROR" THEN "UNKNOWN"
          ELSE IF p.sigs[n].by \notin keys THEN "KEY_NOT_FOUND" ELSE truths[n]
    BY DEF ToSignature, Locates
  <2>3. truths[n] \in TruthsOf(p.sigs[n], Canon(p.text))
    BY <1>1, <1>3
  <2>4. CASE truths[n] \in {"UNKNOWN", "ERROR"}
    BY <2>1, <2>2, <2>4 DEF ToSignatureResult
  <2>5. CASE truths[n] \notin {"UNKNOWN", "ERROR"}
    <3>1. truths[n] = IF p.sigs[n].over # Canon(p.text) THEN "INVALID"
                      ELSE IF p.sigs[n].by \in Expiring THEN "EXPIRED" ELSE "VALID"
      BY <2>3, <2>5 DEF TruthsOf
    <3>2. ToSignature(m, sig).status =
            IF p.sigs[n].by \notin keys THEN "KEY_NOT_FOUND" ELSE truths[n]
      BY <2>2, <2>5
    <3> HIDE DEF results, m, sig
    <3>3. QED
      BY <2>1, <3>1, <3>2 DEF ToSignatureResult
  <2>6. QED
    BY <2>4, <2>5
<1>4. QED
  BY <1>2, <1>3

\* The summary says valid only of results that there are and that are all valid.
LEMMA SummaryIs ==
  ASSUME NEW results, NEW b \in Nat, DOMAIN results \subseteq 1..b
  PROVE  /\ Summary(results) = "SignatureValid" <=>
              /\ DOMAIN results # {}
              /\ \A n \in DOMAIN results : results[n].status = "SignatureValid"
         /\ Summary(results) = "BadSignature" => 
              \/ DOMAIN results = {}
              \/ \E n \in DOMAIN results : results[n].status = "BadSignature"
<1> DEFINE flawed == {n \in DOMAIN results : results[n].status # "SignatureValid"}
           last   == CHOOSE n \in flawed : \A m \in flawed : m <= n
<1>1. CASE DOMAIN results = {} \/ flawed = {}
  BY <1>1 DEF Summary
<1>2. CASE DOMAIN results # {} /\ flawed # {}
  <2>1. flawed \in SUBSET Nat /\ \A n \in flawed : n <= b
    OBVIOUS
  <2>2. \E n \in flawed : \A m \in flawed : m <= n
    <3> HIDE DEF flawed
    <3>1. QED
      BY <1>2, <2>1, LargestExists
  <2>3. last \in flawed
    <3> HIDE DEF flawed
    <3>1. QED
      BY <2>2
  <2>4. Summary(results) = results[last].status
    BY <1>2 DEF Summary
  <2>5. QED
    BY <1>2, <2>3, <2>4
<1>3. QED
  BY <1>1, <1>2

\* The parts of a signed text.
LEMMA TextIs ==
  ASSUME NEW text \in Text
  PROVE  Canon(text) \in Text /\ Serialise(text) \in Text
BY MailAssumption DEF Text, Canon, Serialise

LEMMA WrappedIs ==
  ASSUME NEW p \in Part, NEW keys \in Seq(Key), NEW text \in Text
  PROVE  LET w == Wrapped(p, keys, text)
         IN  /\ w \in Signed /\ DOMAIN w.sigs = DOMAIN keys
             /\ \A n \in DOMAIN keys : w.sigs[n].over = Canon(text)
             /\ w.text = IF PartHasSignature(p) THEN p.text ELSE text
<1>1. MadeBy(keys, Canon(text)) \in Seq(Made) /\ DOMAIN MadeBy(keys, Canon(text)) = DOMAIN keys
  <2>1. \A n \in 1..Len(keys) : [by |-> keys[n], over |-> Canon(text)] \in Made
    BY TextIs DEF Made
  <2>2. DOMAIN keys = 1..Len(keys) /\ Len(keys) \in Nat
    OBVIOUS
  <2>3. QED
    BY <2>1, <2>2 DEF MadeBy
<1>2. CASE p.kind = "signed"
  <2>1. p \in Signed
    BY <1>2 DEF Part, Plain, Encrypted
  <2>2. QED
    BY <1>1, <1>2, <2>1 DEF Wrapped, PartHasSignature, MadeBy, Signed
<1>3. CASE p.kind # "signed"
  BY <1>1, <1>3 DEF Wrapped, PartHasSignature, MadeBy, Signed
<1>4. QED
  BY <1>2, <1>3

(***************************************************************************)
(* The invariant.                                                          *)
(***************************************************************************)
\* The instance of KeyStorePromise has the same keys.
LEMMA SameKeys ==
  /\ KeyBlocks = Storage!KeyBlocks /\ Key = Storage!Key
  /\ \A k : SubkeysOf(k) = Storage!SubkeysOf(k)
BY DEF KeyBlocks, Storage!KeyBlocks, Closed, Storage!Closed, Key, Storage!Key,
   SubkeysOf, Storage!SubkeysOf

\* A deletion leaves no subkey without its primary key.
LEMMA DeletionIsClosed ==
  ASSUME NEW S \in KeyBlocks, NEW D \in Storage!Deletions
  PROVE  S \ D \in KeyBlocks
<1>1. S \subseteq Key /\ Closed(S)
  BY DEF KeyBlocks
<1>2. CASE D = {}
  BY <1>1, <1>2 DEF KeyBlocks, Closed
<1>3. CASE \E k \in Key : D = {k} \cup SubkeysOf(k)
  BY <1>1, <1>3, KeysAssumption DEF KeyBlocks, Closed, SubkeysOf, Key
<1>4. QED
  BY <1>2, <1>3, SameKeys DEF Storage!Deletions

\* What the storage plugin does to the key files keeps the types.
LEMMA StorageKeepsTypes ==
  ASSUME MailTypeOK, Storage!Next
  PROVE  /\ disk' \in KeyBlocks /\ copy' \in KeyBlocks /\ dirty' \in BOOLEAN
         /\ session' \in {"closed", "open", "refused", "saving"}
<1>1. /\ disk \in KeyBlocks /\ copy \in KeyBlocks /\ dirty \in BOOLEAN
      /\ session \in {"closed", "open", "refused", "saving"}
      /\ Storage!Held \in KeyBlocks
  BY DEF MailTypeOK, Storage!Held
<1>2. {} \in KeyBlocks
  BY DEF KeyBlocks, Closed
<1>3. CASE \E D \in Storage!Deletions : Storage!Delete(D)
  BY <1>1, <1>3, DeletionIsClosed DEF Storage!Delete
<1>4. CASE Storage!Open \/ Storage!Refuse \/ Storage!Settle
  BY <1>1, <1>4 DEF Storage!Open, Storage!Refuse, Storage!Settle
<1>5. CASE Storage!Commit \/ Storage!Abandon
  BY <1>1, <1>2, <1>5 DEF Storage!Commit, Storage!Abandon, Storage!EndSession
<1>6. CASE Storage!Lose \/ Storage!Replace
  BY <1>1, <1>6, SameKeys DEF Storage!Lose, Storage!Replace
<1>7. QED
  BY <1>3, <1>4, <1>5, <1>6 DEF Storage!Next

\* The calls leave the part alone, and remember its text.
LEMMA CallsKeep ==
  ASSUME MailInv, Calls
  PROVE  MailInv' /\ UNCHANGED partVars /\ UNCHANGED publicVars
<1> SUFFICES /\ UNCHANGED <<publicVars, secret, partVars>>
             /\ op' \in {Idle} \cup [of : {"sign"}, keys : Signings, text : Text]
                          \cup [of : {"decrypt"}, held : SUBSET Key]
             /\ answer'.of \in {"none", "verify", "sign", "decrypt"}
             /\ WaitingInv'
  BY DEF MailInv, MailTypeOK, FaithfulInv, publicVars, partVars
<1>1. CASE Verify
  BY <1>1 DEF Verify, MailInv, MailTypeOK, WaitingInv, Idle, Answer
<1>2. CASE \E keys \in Signings : BeginSign(keys)
  <2>1. PICK keys \in Signings : BeginSign(keys)
    BY <1>2
  <2>2. part.text \in Text
    BY DEF MailInv, MailTypeOK, Part, Plain, Signed, Encrypted
  <2>3. QED
    BY <2>1, <2>2, TextIs DEF BeginSign, MailInv, MailTypeOK, WaitingInv, partVars, Answer, Idle
<1>3. CASE BeginDecrypt
  <2>1. secret \subseteq Key
    BY DEF MailInv, MailTypeOK, KeyBlocks
  <2>2. QED
    BY <1>3, <2>1 DEF BeginDecrypt, SecretRead, MailInv, MailTypeOK, WaitingInv, partVars, Answer, Idle
<1>4. QED
  BY <1>1, <1>2, <1>3 DEF Calls

LEMMA ReturnsKeep ==
  ASSUME MailInv, Returns
  PROVE  MailInv'
<1> USE DEF MailInv, MailTypeOK
<1>1. CASE SignSucceeds
  <2>1. op.keys \in Seq(Key) /\ op.text \in Text /\ op.text = Serialise(part.text)
    BY <1>1, MailAssumption DEF SignSucceeds, WaitingInv, Idle
  <2>2. /\ part' \in Signed /\ DOMAIN part'.sigs = DOMAIN op.keys
        /\ \A n \in DOMAIN op.keys : part'.sigs[n].over = Canon(op.text)
        /\ part'.text = IF PartHasSignature(part) THEN part.text ELSE op.text
    BY <1>1, <2>1, WrappedIs DEF SignSucceeds
  <2>3. FaithfulInv'
    BY <1>1, <2>1, <2>2 DEF SignSucceeds, FaithfulInv, PartHasSignature, Signed
  <2>4. MailTypeOK'
    BY <1>1, <2>2 DEF SignSucceeds, publicVars, Answer, Part
  <2>5. WaitingInv'
    BY <1>1 DEF SignSucceeds, WaitingInv, Idle
  <2>6. QED
    BY <2>3, <2>4, <2>5
<1>2. CASE SignFails \/ DecryptFails
  BY <1>2 DEF SignFails, DecryptFails, WaitingInv, FaithfulInv, publicVars, partVars, Answer, Idle
<1>3. CASE DecryptSucceeds
  <2>1. part \in Encrypted /\ ~faithful
    BY <1>3 DEF DecryptSucceeds, WaitingInv, CanDecrypt, FaithfulInv, PartHasSignature,
       Part, Plain, Signed
  <2>2. part' \in Part
    BY <1>3, <2>1 DEF DecryptSucceeds, ReadAs, Encrypted, Part
  <2>3. QED
    BY <1>3, <2>1, <2>2 DEF DecryptSucceeds, WaitingInv, FaithfulInv, publicVars, Answer, Idle
<1>4. QED
  BY <1>1, <1>2, <1>3 DEF Returns

\* Its way may change the line ends of a text, which the canonical form ignores.
LEMMA HandlingKeeps ==
  ASSUME MailInv, Handling
  PROVE  MailInv'
<1> USE DEF MailInv, MailTypeOK
<1>1. CASE Retrieve
  BY <1>1 DEF Retrieve, WaitingInv, FaithfulInv, publicVars
<1>2. ASSUME NEW eol \in {"LF", "CRLF", "mixed"}, Travel(eol)
      PROVE  MailInv'
  <2>1. part' = [part EXCEPT !.text.eol = eol] /\ op = Idle
    BY <1>2 DEF Travel
  <2>2. part' \in Part /\ part'.kind = part.kind
    BY <2>1 DEF Part, Plain, Signed, Encrypted, Text
  <2>3. Canon(part'.text) = Canon(part.text)
    BY <2>1 DEF Part, Plain, Signed, Encrypted, Text, Canon
  <2>4. PartHasSignature(part) => PartHasSignature(part') /\ part'.sigs = part.sigs
    BY <2>1 DEF Part, Plain, Signed, Encrypted, PartHasSignature
  <2>5. QED
    BY <1>2, <2>2, <2>3, <2>4 DEF Travel, WaitingInv, FaithfulInv, publicVars, Idle
<1>3. ASSUME NEW w \in Words, Alter(w)
      PROVE  MailInv'
  <2>1. part' \in Part
    BY <1>3 DEF Alter, Part, Plain, Signed, Encrypted, Text
  <2>2. QED
    BY <1>3, <2>1 DEF Alter, WaitingInv, FaithfulInv, publicVars, Idle
<1>4. QED
  BY <1>1, <1>2, <1>3 DEF Handling

LEMMA MailInvInit == MailInit => MailInv
<1> SUFFICES ASSUME MailInit PROVE MailInv
  OBVIOUS
<1>1. {} \in KeyBlocks
  BY DEF KeyBlocks, Closed
<1>2. MailTypeOK
  BY <1>1, SameKeys, MailAssumption DEF MailInit, Storage!Init, MailTypeOK, Answer
<1>3. QED
  BY <1>2 DEF MailInit, MailInv, WaitingInv, FaithfulInv, Idle

LEMMA MailInvStep == MailInv /\ [MailNext]_mailVars => MailInv'
<1> SUFFICES ASSUME MailInv, [MailNext]_mailVars PROVE MailInv'
  OBVIOUS
<1>1. CASE SecretChanges
  BY <1>1 DEF SecretChanges, MailInv, MailTypeOK, WaitingInv, FaithfulInv, publicVars, partVars
<1>2. CASE StorageSteps
  BY <1>2, StorageKeepsTypes
     DEF StorageSteps, MailInv, MailTypeOK, WaitingInv, FaithfulInv, partVars
<1>3. CASE UNCHANGED mailVars
  BY <1>3 DEF mailVars, MailInv, MailTypeOK, WaitingInv, FaithfulInv, publicVars, partVars
<1>4. QED
  BY <1>1, <1>2, <1>3, CallsKeep, ReturnsKeep, HandlingKeeps DEF MailNext

LEMMA MailInvHolds == MailSpec => []MailInv
BY MailInvInit, MailInvStep, PTL DEF MailSpec

(***************************************************************************)
(* The theorems.                                                           *)
(***************************************************************************)
\* Every variable has its type.
THEOREM MailTyped == MailSpec => []MailTypeOK
<1>1. MailInv => MailTypeOK
  BY DEF MailInv
<1>2. QED
  BY <1>1, MailInvHolds, PTL

\* Only Verify answers a verification: with no result, or with those of some of
\* the signatures.
LEMMA VerifiedIs ==
  ASSUME MailInv, [MailNext]_mailVars, Verified
  PROVE  \/ answer'.results = NoResults /\ answer'.status \in {"MissingSignature", "default"}
         \/ part \in Signed /\ Judged
<1>1. Verify
  <2>1. answer' # answer /\ answer'.of = "verify"
    BY DEF Verified
  <2>2. ~StorageSteps /\ ~SecretChanges /\ ~Handling /\ ~UNCHANGED mailVars
    BY <2>1 DEF StorageSteps, SecretChanges, Handling, Retrieve, Travel, Alter, mailVars
  <2>3. ~Returns
    BY <2>1 DEF Returns, SignSucceeds, SignFails, DecryptSucceeds, DecryptFails, Answer
  <2>4. ~BeginDecrypt /\ \A keys \in Signings : ~BeginSign(keys)
    BY <2>1 DEF BeginDecrypt, BeginSign, Answer
  <2>5. QED
    BY <2>2, <2>3, <2>4 DEF MailNext, Calls
<1>2. PartHasSignature(part) => part \in Signed
  BY DEF MailInv, MailTypeOK, Part, Plain, Signed, Encrypted, PartHasSignature
<1>3. QED
  BY <1>1, <1>2 DEF Verify, Answer, Judged

\* What is read is a set of keys on disk, however much of the file is there.
LEMMA ReadsKeys == ASSUME MailInv PROVE PublicRead \subseteq SUBSET (Key \cap disk)
BY DEF MailInv, MailTypeOK, PublicRead, KeyBlocks

\* The results and the summary of a verification with results.
LEMMA VerdictIs ==
  ASSUME MailInv, part \in Signed, Judged
  PROVE  /\ DOMAIN answer'.results \subseteq DOMAIN part.sigs
         /\ answer'.status = "SignatureValid" <=>
              /\ DOMAIN answer'.results # {}
              /\ \A n \in DOMAIN answer'.results :
                   /\ part.sigs[n].over = Canon(part.text)
                   /\ part.sigs[n].by \in (answer'.read \cap disk) \ Expiring
                   /\ answer'.results[n].status # "UnknownError"
         /\ \A n \in DOMAIN answer'.results :
              answer'.results[n].status = "BadSignature" => part.sigs[n].over # Canon(part.text)
         /\ answer'.status = "BadSignature" =>
              \/ DOMAIN answer'.results = {}
              \/ \E n \in DOMAIN answer'.results : answer'.results[n].status = "BadSignature"
<1>1. PICK keys \in PublicRead, listed \in SUBSET DOMAIN part.sigs :
        \E truths \in Findable(part, listed) :
          LET results == KeyResults(part, keys, truths)
          IN  answer' = [of |-> "verify", status |-> Summary(results),
                         results |-> results, read |-> keys]
  BY DEF Judged
<1>2. PICK truths \in Findable(part, listed) :
        LET results == KeyResults(part, keys, truths)
        IN  answer' = [of |-> "verify", status |-> Summary(results),
                       results |-> results, read |-> keys]
  BY <1>1
<1> DEFINE results == KeyResults(part, keys, truths)
<1>3. answer'.status = Summary(results) /\ answer'.results = results /\ answer'.read = keys
  BY <1>2
<1>4. keys \in SUBSET Key /\ keys \cap disk = keys
  BY ReadsKeys
<1>5. /\ DOMAIN results = listed
      /\ \A n \in listed :
           /\ results[n].status = "SignatureValid" <=>
                /\ part.sigs[n].over = Canon(part.text)
                /\ part.sigs[n].by \in keys \ Expiring
                /\ results[n].status # "UnknownError"
           /\ results[n].status = "BadSignature" => part.sigs[n].over # Canon(part.text)
  BY <1>4, ResultIs
<1>6. DOMAIN part.sigs = 1..Len(part.sigs) /\ Len(part.sigs) \in Nat
  BY DEF Signed
<1>7. DOMAIN results \subseteq 1..Len(part.sigs)
  BY <1>5, <1>6
<1> HIDE DEF results
<1>8. /\ Summary(results) = "SignatureValid" <=>
           DOMAIN results # {} /\ \A n \in DOMAIN results : results[n].status = "SignatureValid"
      /\ Summary(results) = "BadSignature" =>
           DOMAIN results = {} \/ \E n \in DOMAIN results : results[n].status = "BadSignature"
  BY <1>6, <1>7, SummaryIs
<1>9. DOMAIN results \subseteq DOMAIN part.sigs
  BY <1>5
<1>10. \A n \in DOMAIN results :
         /\ results[n].status = "SignatureValid" <=>
              /\ part.sigs[n].over = Canon(part.text)
              /\ part.sigs[n].by \in (keys \cap disk) \ Expiring
              /\ results[n].status # "UnknownError"
         /\ results[n].status = "BadSignature" => part.sigs[n].over # Canon(part.text)
  BY <1>4, <1>5
<1>11. Summary(results) = "SignatureValid" <=>
         /\ DOMAIN results # {}
         /\ \A n \in DOMAIN results :
              /\ part.sigs[n].over = Canon(part.text)
              /\ part.sigs[n].by \in (keys \cap disk) \ Expiring
              /\ results[n].status # "UnknownError"
  BY <1>8, <1>10
<1>12. QED
  BY <1>3, <1>8, <1>9, <1>10, <1>11

\* The summary says valid exactly when all that was found is known to be.
THEOREM SummaryIsTrue == MailSpec => ValidIffAllValid
<1>1. ASSUME MailInv, [MailNext]_mailVars, Verified
      PROVE  answer'.status = "SignatureValid" <=>
               /\ DOMAIN answer'.results # {}
               /\ \A n \in DOMAIN answer'.results :
                    /\ part.sigs[n].over = Canon(part.text)
                    /\ part.sigs[n].by \in (answer'.read \cap disk) \ Expiring
                    /\ answer'.results[n].status # "UnknownError"
  <2>1. CASE answer'.results = NoResults /\ answer'.status \in {"MissingSignature", "default"}
    BY <2>1 DEF NoResults
  <2>2. CASE part \in Signed /\ Judged
    BY <1>1, <2>2, VerdictIs
  <2>3. QED
    BY <1>1, <2>1, <2>2, VerifiedIs
<1>2. QED
  BY <1>1, MailInvHolds, PTL DEF MailSpec, ValidIffAllValid

\* A signature made here is never found bad while the text says what it said.
THEOREM OwnSignaturesHold == MailSpec => OwnSignaturesAreNeverBad
<1>1. ASSUME MailInv, [MailNext]_mailVars, Verified /\ faithful
      PROVE  /\ \A n \in DOMAIN answer'.results : answer'.results[n].status # "BadSignature"
             /\ answer'.status = "BadSignature" => DOMAIN answer'.results = {}
  <2>1. CASE answer'.results = NoResults /\ answer'.status \in {"MissingSignature", "default"}
    BY <2>1 DEF NoResults
  <2>2. CASE part \in Signed /\ Judged
    <3>1. \A n \in DOMAIN part.sigs : part.sigs[n].over = Canon(part.text)
      BY <1>1 DEF MailInv, FaithfulInv
    <3>2. QED
      BY <1>1, <2>2, <3>1, VerdictIs
  <2>3. QED
    BY <1>1, <2>1, <2>2, VerifiedIs
<1>2. QED
  BY <1>1, MailInvHolds, PTL DEF MailSpec, OwnSignaturesAreNeverBad

\* What fails leaves the part as it was.
THEOREM FailuresChangeNothing == MailSpec => FailureKeepsThePart
<1>1. ASSUME MailInv, [MailNext]_mailVars,
             (op # Idle \/ op' # Idle \/ answer' # answer) /\ part' # part
      PROVE  op' = Idle /\ answer'.status \in {"SignatureValid", "Decrypted"}
  <2>1. CASE Calls
    BY <1>1, <2>1, CallsKeep DEF partVars
  <2>2. CASE Returns
    BY <1>1, <2>2 DEF Returns, SignSucceeds, SignFails, DecryptSucceeds, DecryptFails,
       Answer, partVars
  <2>3. CASE Handling
    BY <1>1, <2>3 DEF Handling, Retrieve, Travel, Alter
  <2>4. CASE SecretChanges \/ StorageSteps \/ UNCHANGED mailVars
    BY <1>1, <2>4 DEF SecretChanges, StorageSteps, mailVars, partVars
  <2>5. QED
    BY <1>1, <2>1, <2>2, <2>3, <2>4 DEF MailNext
<1>2. QED
  BY <1>1, MailInvHolds, PTL DEF MailSpec, FailureKeepsThePart
=============================================================================
