---------------------------- MODULE MCOperations ----------------------------
(***************************************************************************)
(* A small instance of Operations: two primary keys, one with a subkey;    *)
(* arrays of up to two keys.                                               *)
(***************************************************************************)
EXTENDS OperationRefinement

CONSTANTS p, s, q

MCPrimary   == {p, q}
MCSubkey    == {s}
MCPrimaryOf == [k \in {s} |-> p]

\* p signs, s encrypts, q does both; p and s are under a passphrase.
MCMayUse    == [u \in {"sign", "encrypt"} |-> IF u = "sign" THEN {p, q} ELSE {s, q}]
MCProtected == {p, s}

\* Arrays as callers build them: one key or two, or none because the first is
\* invalid; the last element is always invalid.
MCArrays ==
  {<<NoName>>} \cup {<<k, NoName>> : k \in {p, s, q}}
    \cup {<<p, q, NoName>>, <<q, p, NoName>>, <<s, q, NoName>>, <<NoName, NoName>>}

Called(op, recipients, signers, to, sigs) ==
  [op |-> op, recipients |-> recipients, signers |-> signers, to |-> to, sigs |-> sigs]

MCJobs ==
  {Called("sign", <<>>, list, {}, 0) : list \in MCArrays}
    \cup {Called("encrypt", r, l, {}, 0) : r \in MCArrays, l \in MCArrays}
    \cup {Called("verify", <<>>, <<>>, {}, n) : n \in 0..2}
    \cup {Called("decrypt", <<>>, <<>>, to, n) : to \in {{}, {NoName}, {s}, {s, q}, {s, NoName}}, n \in 0..2}
=============================================================================
