---------------------------- MODULE MCKeyHandles ----------------------------
(***************************************************************************)
(* A small instance of KeyHandles: a primary key with two subkeys and a    *)
(* primary key without; arrays of two signers; as many handles as a call   *)
(* can hold or point to at a time.                                         *)
(***************************************************************************)
EXTENDS KeyHandles, TLC

CONSTANTS p, s, t, q, e1, e2, h1, h2, h3, h4

MCPrimary   == {p, q}
MCSubkey    == {s, t}
MCPrimaryOf == [k \in {s, t} |-> p]
MCHandle    == {h1, h2, h3, h4}
MCElement   == {e1, e2}
MCHandles   == Permutations(MCHandle)

Asked(call, id, name, signers, held) ==
  [call |-> call, id |-> id, name |-> name, signers |-> signers, keys |-> held]

Nobody == [e \in MCElement |-> NoName]

\* What the stores hold: every key, all but a subkey, or one key.
MCStores == {{p, s, t, q}, {p, s, q}, {q}}

MCRequests ==
  {Asked(c, id, NoName, Nobody, held) :
     c \in {"names", "find"}, id \in {p, s, q, NoName}, held \in MCStores}
  \cup {Asked(c, id, n, Nobody, held) :
     c \in {"remove", "operate"}, id \in {p, s, q, NoName},
     n \in {p, s, q, NoName}, held \in MCStores}
  \cup {Asked("mail", NoName, NoName, f, held) :
     f \in [MCElement -> {p, s, q}], held \in MCStores}
=============================================================================
