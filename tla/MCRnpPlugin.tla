---------------------------- MODULE MCRnpPlugin -----------------------------
(***************************************************************************)
(* A small instance of RnpPlugin: two primary keys, one subkey.            *)
(***************************************************************************)
EXTENDS RnpPluginRefinement

CONSTANTS p, s, q   \* p has the subkey s, q has none

MCPrimary   == {p, q}
MCSubkey    == {s}
MCPrimaryOf == [k \in {s} |-> p]
MCCanSign    == {p, s}
MCCanEncrypt == {s, q}

\* One primary key and its subkey, where the key files are rewritten freely.
MCOnePrimary == {p}

Named(own, coll, name, upper) ==
  [own |-> own, coll |-> coll, name |-> name, upper |-> upper]

\* p and s as toCryptoKey names them, p in lower case, a key of another plugin.
MCCryptoKeys ==
  {Named(TRUE, p, p, TRUE), Named(TRUE, p, s, TRUE),
   Named(TRUE, p, p, FALSE), Named(FALSE, p, p, TRUE)}
MCOneCryptoKey == {Named(TRUE, p, p, TRUE)}

By(k, truth) == [by |-> k, fpr |-> TRUE, truth |-> truth]

\* For s, signed by p and s; for q, with two signatures by p; for nobody.
MCMessages ==
  {[to |-> {s}, sigs |-> <<By(s, "VALID"), By(p, "VALID")>>],
   [to |-> {q}, sigs |-> <<By(p, "INVALID"), By(p, "VALID")>>],
   [to |-> {},  sigs |-> <<By(p, "EXPIRED")>>]}
MCOneMessage == {[to |-> {p}, sigs |-> <<By(p, "VALID")>>]}

Field(name, keys) == [field |-> name, keys |-> keys]

\* By address, and for what encrypts or has it.
MCQueries ==
  {[rules |-> {Field("data", {s})}, op |-> "And"],
   [rules |-> {Field("canEncrypt", {}), Field("data", {p})}, op |-> "Or"]}
=============================================================================
