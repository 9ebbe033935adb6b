-------------------------- MODULE OperationPromise --------------------------
(***************************************************************************)
(* What Rnp::sign, Rnp::verify, Rnp::encrypt and Rnp::decrypt promise to   *)
(* their callers and to the user, without librnp calls, objects or loops.  *)
(* An operation is called and answers, in one step each.  In between it    *)
(* may ask the user for passphrases, and it does so only when every key    *)
(* that it was given may be used.                                          *)
(***************************************************************************)
EXTENDS OperationJobs

VARIABLES
  job,     \* the operation under way, or the last one
  busy,    \* whether it is under way
  asking,  \* what the user is asked the passphrase of, {} for nothing
  asked,   \* what the user was asked for: keys, NoName for the message
  given,   \* those whose passphrase the user gave
  output,  \* what the last operation returned: "empty" or "data"
  report   \* the signatures it reported

callVars == <<job, busy, asking, asked, given, output, report>>

\* Every key that is named may be used for what it is named for.
Willing(j) == \A a \in Arrays(j.op) : Named(j[a]) \subseteq MayUse[UsageOf(a)]

Signers(j) == IF "signers" \in Arrays(j.op) THEN Named(j.signers) ELSE {}
Readers(j) == IF j.op = "decrypt" THEN j.to ELSE {}

\* An operation that answers with data has signed with all its signers, or read
\* its message with one of the keys that it is encrypted to, or its passphrase.
Complete(j, g) ==
  /\ Willing(j)
  /\ Signers(j) \cap Protected \subseteq g
  /\ Readers(j) = {} \/ Readers(j) \cap (g \cup (Key \ Protected)) # {}

Init ==
  /\ job \in Jobs
  /\ busy = FALSE
  /\ asking = {} /\ asked = {} /\ given = {}
  /\ output = "empty" /\ report = {}

Call(j) ==
  /\ ~busy
  /\ job' = j
  /\ busy' = TRUE
  /\ asking' = {} /\ asked' = {} /\ given' = {}
  /\ output' = "empty" /\ report' = {}

\* The user is asked once for a key or a message, and for one at a time.
Prompt(k) ==
  /\ busy /\ asking = {}
  /\ Willing(job)
  /\ k \in ((Signers(job) \cup Readers(job)) \cap Locked) \ asked
  /\ asking' = {k}
  /\ asked' = asked \cup {k}
  /\ UNCHANGED <<job, busy, given, output, report>>

Close ==
  /\ asking # {}
  /\ given' \in {given, given \cup asking}
  /\ asking' = {}
  /\ UNCHANGED <<job, busy, asked, output, report>>

\* A verification answers with signatures only, whatever they are worth.
Answer(data, sigs) ==
  /\ busy /\ asking = {}
  /\ data = "data" => job.op # "verify" /\ Complete(job, given)
  /\ sigs # {} => job.op = "verify" \/ (job.op = "decrypt" /\ Complete(job, given))
  /\ busy' = FALSE
  /\ output' = data /\ report' = sigs
  /\ UNCHANGED <<job, asking, asked, given>>

Next ==
  \/ \E j \in Jobs : Call(j)
  \/ \E k \in Handles : Prompt(k)
  \/ Close
  \/ \E data \in {"empty", "data"}, sigs \in SUBSET (1..job.sigs) : Answer(data, sigs)

Promise == Init /\ [][Next]_callVars
=============================================================================
