----------------------------- MODULE Operations -----------------------------
(***************************************************************************)
(* Rnp::sign, Rnp::verify, Rnp::encrypt and Rnp::decrypt of rnp/rnp.cpp,   *)
(* one librnp call after the other.                                        *)
(*                                                                         *)
(* Each of them acquires a few librnp objects and leaves by a single exit, *)
(* the label "out", where what it acquired must be destroyed.  Any call    *)
(* may fail.  While an operation executes, librnp calls unlock back, which *)
(* waits for the user to close a dialogue.                                 *)
(***************************************************************************)
EXTENDS OperationJobs

VARIABLES
  job,       \* the operation under way, or the last one
  pc,        \* its next call; "out"; or "idle"
  live,      \* the librnp objects that exist: "in", "sig", "out", "op"
  i,         \* the index into the array of keys
  added,     \* added[a]: the keys of the array a that librnp has accepted
  opened,    \* the keyrings that the operation has opened
  asked,     \* what a passphrase was asked for: keys, NoName for the message
  asking,    \* the one that a dialogue is open for, {} when none is
  unlocked,  \* those that librnp has the passphrase of
  ret,       \* what the operation returns: "empty" or "data"
  found      \* the signatures it reports

opVars == <<job, pc, live, i, added, opened, asked, asking, unlocked, ret, found>>

Calls == {"input", "signature", "output", "keyring", "create", "armor",
          "recipients", "signers", "execute", "buffer", "signatures"}

\* The order of the calls of each operation.
Following(op, c) ==
  CASE c = "input"      -> IF op = "verify" THEN "signature" ELSE "output"
    [] c = "signature"  -> "keyring"
    [] c = "output"     -> IF op = "decrypt" THEN "keyring" ELSE "create"
    [] c = "keyring"    -> "create"
    [] c = "create"     -> IF op \in {"sign", "encrypt"} THEN "armor" ELSE "execute"
    [] c = "armor"      -> IF op = "encrypt" THEN "recipients" ELSE "signers"
    [] c = "recipients" -> "signers"
    [] c = "signers"    -> "execute"
    [] c = "execute"    -> IF op = "verify" THEN "signatures" ELSE "buffer"
    [] c = "buffer"     -> IF op = "decrypt" THEN "signatures" ELSE "out"
    [] OTHER            -> "out"

\* What a call gives its caller to destroy ...
Acquires ==
  [input |-> {"in"}, signature |-> {"sig"}, output |-> {"out"}, create |-> {"op"}]

\* ... and what it is given.
Uses(op, c) ==
  IF c = "create" THEN {"in", IF op = "verify" THEN "sig" ELSE "out"}
  ELSE IF c \in {"armor", "recipients", "signers", "execute", "signatures"} THEN {"op"}
  ELSE IF c = "buffer" THEN {"out"} ELSE {}

Proceed == pc' = Following(job.op, pc)
Leave   == pc' = "out"

Begin(j) ==
  /\ pc = "idle"
  /\ job' = j
  /\ pc' = "input"
  /\ i' = 1
  /\ added' = [a \in {"recipients", "signers"} |-> {}]
  /\ opened' = {} /\ asked' = {} /\ asking' = {} /\ unlocked' = {}
  /\ ret' = "empty" /\ found' = {}
  /\ UNCHANGED live

Acquire ==
  /\ pc \in {"input", "signature", "output", "create"}
  /\ live' = live \cup Acquires[pc]
  /\ Proceed
  /\ UNCHANGED <<job, i, added, opened, asked, asking, unlocked, ret, found>>

SetArmor ==
  /\ pc = "armor"
  /\ Proceed
  /\ UNCHANGED <<job, live, i, added, opened, asked, asking, unlocked, ret, found>>

\* Mutant: the failure of the output is logged and not looked at.
CallFailsOnward ==
  /\ pc \in {"input", "signature", "output", "create", "armor", "buffer"}
  /\ IF pc = "output" THEN Proceed ELSE Leave
  /\ UNCHANGED <<job, live, i, added, opened, asked, asking, unlocked, ret, found>>

\* rnp_input_from_memory, rnp_output_to_memory, rnp_op_..._create, ..._set_armor
\* or rnp_output_memory_get_buf fails.
CallFails ==
  /\ pc \in {"input", "signature", "output", "create", "armor", "buffer"}
  /\ Leave
  /\ UNCHANGED <<job, live, i, added, opened, asked, asking, unlocked, ret, found>>

(***************************************************************************)
(* The loops over the arrays of keys, which stop at the first invalid one. *)
(***************************************************************************)
InLoop  == pc \in {"recipients", "signers"}
Current == job[pc][i]

\* Mutant: the loop over the recipients adds a signer.
AddKeyAsSigner ==
  /\ InLoop
  /\ Current # NoName /\ Current \in MayUse[UsageOf(pc)]
  /\ added' = [added EXCEPT !["signers"] = @ \cup {Current}]
  /\ i' = i + 1
  /\ UNCHANGED <<job, pc, live, opened, asked, asking, unlocked, ret, found>>

\* rnp_op_..._add_signature, rnp_op_encrypt_add_recipient.
AddKey ==
  /\ InLoop
  /\ Current # NoName /\ Current \in MayUse[UsageOf(pc)]
  /\ added' = [added EXCEPT ![pc] = @ \cup {Current}]
  /\ i' = i + 1
  /\ UNCHANGED <<job, pc, live, opened, asked, asking, unlocked, ret, found>>

\* Mutant: a key that cannot be used is passed over.
SkipKey ==
  /\ InLoop
  /\ Current # NoName
  /\ i' = i + 1
  /\ UNCHANGED <<job, pc, live, added, opened, asked, asking, unlocked, ret, found>>

\* The key does not allow the usage, or librnp refuses it.
RefuseKey ==
  /\ InLoop
  /\ Current # NoName
  /\ Leave
  /\ UNCHANGED <<job, live, i, added, opened, asked, asking, unlocked, ret, found>>

\* Mutant: the loop goes past the invalid key when it is the first.
EndOfArrayAfterOne ==
  /\ InLoop
  /\ Current = NoName
  /\ IF i = 1 THEN i' = 2 /\ UNCHANGED pc ELSE i' = 1 /\ Proceed
  /\ UNCHANGED <<job, live, added, opened, asked, asking, unlocked, ret, found>>

\* Mutant: the next loop begins before its array.
EndOfArrayAtZero ==
  /\ InLoop
  /\ Current = NoName
  /\ i' = 0
  /\ Proceed
  /\ UNCHANGED <<job, live, added, opened, asked, asking, unlocked, ret, found>>

\* Only an invalid key ends a loop.
EndOfArray ==
  /\ InLoop
  /\ Current = NoName
  /\ i' = 1
  /\ Proceed
  /\ UNCHANGED <<job, live, added, opened, asked, asking, unlocked, ret, found>>

\* Mutant: a signature is verified with the secret keyring.
OpenSecretKeyring ==
  /\ pc = "keyring"
  /\ opened' = opened \cup {SECRET}
  /\ Proceed
  /\ UNCHANGED <<job, live, i, added, asked, asking, unlocked, ret, found>>

\* Rnp::verify and Rnp::decrypt open the keyring they need when it is not open;
\* that it cannot be loaded does not stop them.
OpenKeyring ==
  /\ pc = "keyring"
  /\ opened' = opened \cup {IF job.op = "verify" THEN PUBLIC ELSE SECRET}
  /\ Proceed
  /\ UNCHANGED <<job, live, i, added, asked, asking, unlocked, ret, found>>

(***************************************************************************)
(* Execution.  librnp asks for the passphrase of a key once, for a signer  *)
(* or for a key that the message is encrypted to, and once for that of the *)
(* message.                                                                *)
(***************************************************************************)
Askable == added["signers"] \cup (IF job.op = "decrypt" THEN job.to ELSE {})

Ask(k) ==
  /\ pc = "execute" /\ asking = {}
  /\ k \in (Askable \cap Locked) \ asked
  /\ asking' = {k}
  /\ asked' = asked \cup {k}
  /\ UNCHANGED <<job, pc, live, i, added, opened, unlocked, ret, found>>

\* Mutant: the end of the dialogue does not end the wait for it.
AnswerUnheard(granted, fits, right) ==
  /\ asking # {}
  /\ unlocked' = IF granted /\ fits /\ right THEN unlocked \cup asking ELSE unlocked
  /\ UNCHANGED <<job, pc, live, i, added, opened, asked, asking, ret, found>>

\* unlock returns whether the dialogue succeeded.  Its buffer holds the
\* passphrase only if that fits; librnp tries what is in the buffer.
Answer(granted, fits, right) ==
  /\ asking # {}
  /\ unlocked' = IF granted /\ fits /\ right THEN unlocked \cup asking ELSE unlocked
  /\ asking' = {}
  /\ UNCHANGED <<job, pc, live, i, added, opened, asked, ret, found>>

Usable == unlocked \cup (Key \ Protected)

\* What librnp needs in order to succeed.
CanExecute ==
  /\ added["signers"] \subseteq Usable
  /\ job.op = "decrypt" /\ job.to # {} => job.to \cap Usable # {}

Execute ==
  /\ pc = "execute" /\ asking = {}
  /\ CanExecute
  /\ Proceed
  /\ UNCHANGED <<job, live, i, added, opened, asked, asking, unlocked, ret, found>>

\* Mutant: no operation looks whether it was executed.
ExecuteFailsOnward ==
  /\ pc = "execute" /\ asking = {}
  /\ Proceed
  /\ UNCHANGED <<job, live, i, added, opened, asked, asking, unlocked, ret, found>>

\* Rnp::verify goes on after a failure, with what librnp has found so far.
ExecuteFails ==
  /\ pc = "execute" /\ asking = {}
  /\ IF job.op = "verify" THEN Proceed ELSE Leave
  /\ UNCHANGED <<job, live, i, added, opened, asked, asking, unlocked, ret, found>>

\* A decrypted message may be empty; nothing else distinguishes its data from
\* the empty QByteArray of a failure.
TakeBuffer ==
  /\ pc = "buffer"
  /\ ret' \in {"empty", "data"}
  /\ Proceed
  /\ UNCHANGED <<job, live, i, added, opened, asked, asking, unlocked, found>>

\* A signature that cannot be read is left out.
ReadSignatures ==
  /\ pc = "signatures"
  /\ found' \in SUBSET (1..job.sigs)
  /\ Proceed
  /\ UNCHANGED <<job, live, i, added, opened, asked, asking, unlocked, ret>>

\* Mutant: the second input is forgotten.
ReleasedButSignature(op) == {"in", "out", "op"}

\* What the exit of each operation destroys, of what was acquired.
Released(op) == IF op = "verify" THEN {"in", "sig", "op"} ELSE {"in", "out", "op"}

Return ==
  /\ pc = "out"
  /\ live' = live \ Released(job.op)
  /\ pc' = "idle"
  /\ UNCHANGED <<job, i, added, opened, asked, asking, unlocked, ret, found>>

OpInit ==
  /\ job \in Jobs
  /\ pc = "idle" /\ live = {} /\ i = 1
  /\ added = [a \in {"recipients", "signers"} |-> {}]
  /\ opened = {} /\ asked = {} /\ asking = {} /\ unlocked = {}
  /\ ret = "empty" /\ found = {}

\* What the operation does by itself ...
Runs ==
  \/ Acquire
  \/ SetArmor
  \/ CallFails
  \/ AddKey
  \/ RefuseKey
  \/ EndOfArray
  \/ OpenKeyring
  \/ \E k \in Handles : Ask(k)
  \/ Execute
  \/ ExecuteFails
  \/ TakeBuffer
  \/ ReadSignatures
  \/ Return

\* ... and what it waits for.
UserAnswers == \E granted, fits, right \in BOOLEAN : Answer(granted, fits, right)

OpNext ==
  \/ \E j \in Jobs : Begin(j)
  \/ Runs
  \/ UserAnswers

\* The operations are straight-line code and run on.  unlock waits without a
\* time limit: that every dialogue is closed, by the user or by the daemon, is
\* what they rely on.
OpSpec == OpInit /\ [][OpNext]_opVars /\ WF_opVars(Runs) /\ WF_opVars(UserAnswers)

(***************************************************************************)
(* Properties.                                                             *)
(***************************************************************************)
Objects == {"in", "sig", "out", "op"}

\* Every variable has its type.
OpTypeOK ==
  /\ job \in Jobs
  /\ pc \in Calls \cup {"idle", "out"}
  /\ live \in SUBSET Objects
  /\ i \in Nat \ {0}
  /\ added \in [{"recipients", "signers"} -> SUBSET Key]
  /\ opened \in SUBSET Level
  /\ asked \in SUBSET Handles /\ asking \in SUBSET Handles /\ unlocked \in SUBSET Handles
  /\ ret \in {"empty", "data"}
  /\ found \in SUBSET (1..job.sigs)

\* Whatever failed, and wherever, an operation that has returned has destroyed
\* every librnp object that it acquired (the label "out").
NothingIsLeftBehind == pc = "idle" => live = {}

\* No librnp call is given an object that was not created before it: the exit
\* is taken as soon as one is missing.
UsesWhatExists == pc \in Calls => Uses(job.op, pc) \subseteq live

\* The loops over the arrays of keys, which only an invalid key ends, never
\* look behind the end of the array.
StaysInArray == InLoop => i \in DOMAIN job[pc]

\* What is returned was made for every recipient and by every signer that was
\* named; each allowed it; and each signer under a passphrase was unlocked.  One
\* key that is refused, or one dialogue that is cancelled, and nothing is
\* returned.
OutputIsByAllNamed ==
  ret = "data" =>
    \A a \in Arrays(job.op) :
      /\ Named(job[a]) = added[a]
      /\ added[a] \subseteq MayUse[UsageOf(a)]
      /\ a = "signers" => added[a] \cap Protected \subseteq unlocked

\* A message is read, and a signature judged, only after the keyring for it was
\* opened, and after its own keyring only: before that nothing is reported.  No
\* signature inside a message that could not be decrypted is reported.
ReportsWithItsKeyring ==
  /\ job.op = "verify" => ret = "empty" /\ opened \subseteq {PUBLIC}
  /\ job.op = "decrypt" => opened \subseteq {SECRET}
  /\ job.op \in {"sign", "encrypt"} => opened = {} /\ found = {}
  /\ job.op \in {"verify", "decrypt"} /\ (found # {} \/ ret = "data") => opened # {}

\* The passphrase of a key is asked for only to sign with a key that the caller
\* named, or to read a message that is encrypted to it; that of a message only to
\* read it; and none when a signature is verified or a message only encrypted.
AsksForNamedKeysOnly ==
  asked \subseteq IF job.op = "decrypt" THEN job.to
                  ELSE IF job.op = "verify" THEN {} ELSE Named(job.signers)

\* An operation always returns.
EveryOperationReturns == pc # "idle" ~> pc = "idle"
=============================================================================
