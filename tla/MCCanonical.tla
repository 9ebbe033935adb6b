---------------------------- MODULE MCCanonical -----------------------------
(***************************************************************************)
(* All texts of up to five characters, each a letter, CR, LF or NUL.       *)
(***************************************************************************)
EXTENDS Canonical

MCChar  == {"x", "CR", "LF", "NUL"}
MCTexts == BoundedSeq(MCChar, 5)
=============================================================================
