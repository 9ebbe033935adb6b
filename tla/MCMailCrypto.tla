---------------------------- MODULE MCMailCrypto ----------------------------
(***************************************************************************)
(* A small instance of MailCrypto: a primary key and its subkey, whose     *)
(* signatures have expired.                                                *)
(***************************************************************************)
EXTENDS MailCrypto

CONSTANTS p, s

MCPrimary   == {p}
MCSubkey    == {s}
MCPrimaryOf == [k \in {s} |-> p]
MCExpiring  == {s}

\* QMF writes what "odd" says as "even".
MCWords      == {"even", "odd"}
MCSerialised == [w \in {"even", "odd"} |-> "even"]

MCSignings == {<<p>>, <<s, p>>}

Says(w)       == [words |-> w, eol |-> "LF"]
Unsigned(w)   == [kind |-> "plain", text |-> Says(w)]
By(k, w)      == [by |-> k, over |-> [words |-> w, eol |-> "CRLF"]]
SignedBy(w, sigs) == [kind |-> "signed", text |-> Says(w), sigs |-> sigs]
For(to, inside, pgp) ==
  [kind |-> "encrypted", text |-> Says("even"), pgp |-> pgp, to |-> to, inside |-> inside]

\* New parts, parts signed elsewhere, with a bad signature before an expired one
\* and before a good one, and encrypted parts: with a signed part inside, empty,
\* with what is not a message and opens without a key, and not of OpenPGP.
MCArrivals ==
  {Unsigned("odd"),
   SignedBy("odd", <<By(p, "even"), By(s, "odd")>>),
   SignedBy("odd", <<By(p, "even"), By(p, "odd")>>),
   For({s}, SignedBy("odd", <<By(p, "odd")>>), TRUE),
   For({p, s}, Nothing, TRUE),
   For({s, NoName}, Garbage, TRUE),
   For({p}, Unsigned("odd"), FALSE)}
=============================================================================
