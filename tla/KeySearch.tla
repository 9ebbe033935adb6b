----------------------------- MODULE KeySearch ------------------------------
(***************************************************************************)
(* RnpKeys::findSecrets: which of the loaded keys a filter selects.        *)
(*                                                                         *)
(* A rule of a filter is one field and its value:                          *)
(*   field   "canSign", "canEncrypt", or "data" for an e-mail address and  *)
(*           for any other field of Key::toCryptoKey's filter data         *)
(*   keys    the keys whose data holds that value                          *)
(* A query is a set of rules and how they are combined, "And" or "Or".     *)
(***************************************************************************)
EXTENDS RnpRings

CONSTANTS
  UnnamedAlgorithm  \* the keys whose algorithm is neither "RSA" nor "DSA"

ASSUME SearchAssumption == UnnamedAlgorithm \subseteq Key

Rule  == [field : {"canSign", "canEncrypt", "data"}, keys : SUBSET Key]
Query == [rules : SUBSET Rule, op : {"And", "Or"}]

\* matchRule.  NoName stands for the crypto key of an invalid Key, which has no
\* data, and AlgorithmUnknown.
MatchRule(rule, k) ==
  \/ rule.field = "canSign"
  \/ rule.field = "canEncrypt" /\ k \in UnnamedAlgorithm \cup {NoName}
  \/ rule.field = "data" /\ k \in rule.keys

MatchQuery(query, k) ==
  \/ query.op = "And" /\ \A rule \in query.rules : MatchRule(rule, k)
  \/ query.op = "Or"  /\ \E rule \in query.rules : MatchRule(rule, k)

\* The collections that are searched, as the code selects them: all of them for
\* any name but the one that stands for all.
Searched(m, coll, import) == IF coll # import THEN KeyIds(m) ELSE {coll}

\* What is looked at in one collection: each of its fingerprints is looked for
\* among the subkeys.
Candidates(m, id) ==
  LET primary == KeyAt(m, id)
  IN  {SubkeyAt(m, primary, fp) : fp \in Fingerprints(m, primary)}

FindSecretsIn(m, coll, query, import) ==
  {k \in UNION {Candidates(m, id) : id \in Searched(m, coll, import)} :
     MatchQuery(query, k)}
=============================================================================
