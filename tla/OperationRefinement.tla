------------------------ MODULE OperationRefinement -------------------------
(***************************************************************************)
(* Operations keeps the promise of OperationPromise: to a caller, an       *)
(* operation is its answer, which does not exist before it has returned.   *)
(***************************************************************************)
EXTENDS Operations

Returned == pc = "idle"

Atomic ==
  INSTANCE OperationPromise WITH
    busy <- ~Returned, given <- unlocked,
    output <- IF Returned THEN ret ELSE "empty",
    report <- IF Returned THEN found ELSE {}

\* Whatever librnp call fails, and however dialogues end, an operation is to its
\* caller and to the user what OperationPromise says: no dialogue is opened for
\* an operation that one of its keys will refuse, none twice for one key, and
\* what is returned at the end is complete or empty.
KeepsItsPromise == Atomic!Promise
=============================================================================
