----------------------------- MODULE Canonical ------------------------------
(***************************************************************************)
(* canonicalizeStr of qmf/rnp/plugin.cpp: what is signed of a text, and    *)
(* what its signature is verified against, is the text with every line     *)
(* end written CR LF.                                                      *)
(*                                                                         *)
(* The text is canonicalised when it is signed.  It is then carried to     *)
(* whoever verifies it, as it was or in canonical form, over servers that  *)
(* write line ends in their own way, and canonicalised again, any number   *)
(* of times.                                                               *)
(***************************************************************************)
EXTENDS Sequences, SequencesExt, Naturals

CONSTANTS
  Char, CR, LF,  \* the characters, and those that end a line
  NUL,           \* the one that ends a C string
  Texts,         \* what may be signed
  MaxLength      \* no server makes a text longer than this

ASSUME CharAssumption ==
  /\ CR \in Char /\ LF \in Char /\ NUL \in Char
  /\ CR # LF /\ CR # NUL /\ LF # NUL
  /\ Texts \subseteq Seq(Char)
  /\ MaxLength \in Nat

VARIABLES
  str,     \* the text
  p,       \* the place reached in it
  out,     \* what was written so far
  busy,    \* whether canonicalizeStr runs
  signed   \* what was written when the text was signed; {} before that

canonVars == <<str, p, out, busy, signed>>

\* Mutant: a CR ends the text.
AtEndOfLine == Append(str, NUL)[p] \in {NUL, CR}

\* A NUL follows the last character of a QByteArray.
AtEnd == Append(str, NUL)[p] = NUL

\* What is appended for a character other than CR.
Written(c) == IF c = LF THEN <<CR, LF>> ELSE <<c>>

\* Mutant: a CR is left as it is.
KeepCR ==
  /\ busy /\ ~AtEnd
  /\ str[p] = CR
  /\ p' = p + 1
  /\ out' = Append(out, CR)
  /\ UNCHANGED <<str, busy, signed>>

\* Mutant: what follows a CR is taken for its LF.
SkipTwo ==
  /\ busy /\ ~AtEnd
  /\ str[p] = CR
  /\ p' = IF p < Len(str) THEN p + 2 ELSE p + 1
  /\ UNCHANGED <<str, out, busy, signed>>

\* Mutant: the loop goes on with the same character.
SkipNothing ==
  /\ busy /\ ~AtEnd
  /\ str[p] = CR
  /\ UNCHANGED canonVars

SkipCR ==
  /\ busy /\ ~AtEnd
  /\ str[p] = CR
  /\ p' = p + 1
  /\ UNCHANGED <<str, out, busy, signed>>

Write ==
  /\ busy /\ ~AtEnd
  /\ str[p] # CR
  /\ p' = p + 1
  /\ out' = out \o Written(str[p])
  /\ UNCHANGED <<str, busy, signed>>

\* Mutant: the end is looked for one character too late.
ReturnPast ==
  /\ busy /\ AtEnd
  /\ p' = p + 1
  /\ busy' = FALSE
  /\ signed' = IF signed = {} THEN {out} ELSE signed
  /\ UNCHANGED <<str, out>>

Return ==
  /\ busy /\ AtEnd
  /\ busy' = FALSE
  /\ signed' = IF signed = {} THEN {out} ELSE signed
  /\ UNCHANGED <<str, p, out>>

\* A server drops the CR before a LF, or writes one there.
OtherEnd(i) ==
  {RemoveAt(str, j) : j \in {j \in {i - 1} : j > 0 /\ str[j] = CR}}
    \cup {InsertAt(str, i, CR) : j \in {j \in {i} : Len(str) < MaxLength}}

Carry(i) ==
  /\ ~busy
  /\ str[i] = LF
  /\ str' \in OtherEnd(i)
  /\ p' = 1 /\ out' = <<>> /\ busy' = TRUE
  /\ UNCHANGED signed

\* The text is sent on as it was signed, or verified.
Send ==
  /\ ~busy
  /\ str' = out
  /\ p' = 1 /\ out' = <<>> /\ busy' = TRUE
  /\ UNCHANGED signed

CanonInit ==
  /\ str \in Texts
  /\ p = 1 /\ out = <<>> /\ busy = TRUE
  /\ signed = {}

CanonNext ==
  \/ SkipCR
  \/ Write
  \/ Return
  \/ \E i \in DOMAIN str : Carry(i)
  \/ Send

CanonSpec == CanonInit /\ [][CanonNext]_canonVars /\ WF_canonVars(SkipCR \/ Write \/ Return)

(***************************************************************************)
(* Properties.                                                             *)
(***************************************************************************)
\* Every variable has its type.
CanonTypeOK ==
  /\ str \in Seq(Char)
  /\ p \in 1..(Len(str) + 1)
  /\ out \in Seq(Char)
  /\ busy \in BOOLEAN
  /\ \A s \in signed : s \in Seq(Char)

\* What is written has no line end but CR LF, no CR without its LF, no NUL.
CanonicalForm ==
  \A i \in DOMAIN out :
    /\ out[i] # NUL
    /\ out[i] = LF => i > 1 /\ out[i - 1] = CR
    /\ out[i] = CR => i < Len(out) /\ out[i + 1] = LF

\* Whatever the servers did to the line ends, what is verified is what was
\* signed.
VerifiesWhatWasSigned == ~busy => signed = {out}

\* Kept(s)[n] is what the first n characters of s say: all but the CRs.
Kept(s) ==
  LET kept[n \in 0..Len(s)] ==
        IF n = 0 THEN <<>>
        ELSE IF s[n] = CR THEN kept[n - 1] ELSE Append(kept[n - 1], s[n])
  IN  kept

\* Nothing of the text gets lost but CRs and what follows a NUL: the lines that
\* were written are those that were read.
LinesAreKept == Kept(out)[Len(out)] = Kept(str)[p - 1]

\* canonicalizeStr always returns.
CanonReturns == busy ~> ~busy
=============================================================================
