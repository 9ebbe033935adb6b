--------------------- MODULE OperationRefinementProofs ----------------------
(***************************************************************************)
(* Operations implements OperationPromise: initial states map to initial   *)
(* states, and every step to a step of the promise or to a stutter.        *)
(*                                                                         *)
(* The invariant carries what an execution has established, CompleteInv,   *)
(* to the return of the operation.                                         *)
(***************************************************************************)
EXTENDS OperationsProofs, OperationRefinement

(***************************************************************************)
(* The promise in the words of Operations.                                 *)
(***************************************************************************)
LEMMA SameJobs ==
  /\ Atomic!Key = Key /\ Atomic!Handles = Handles /\ Atomic!Locked = Locked
  /\ \A op : Atomic!Arrays(op) = Arrays(op)
  /\ \A list : Atomic!Named(list) = Named(list)
  /\ \A a : Atomic!UsageOf(a) = UsageOf(a)
BY DEF Atomic!Key, Key, Atomic!Handles, Handles, Atomic!Locked, Locked,
   Atomic!Arrays, Arrays, Atomic!Named, Named, Atomic!UsageOf, UsageOf

\* The operation has all that it needs in order to answer with data.
Executable == Atomic!Complete(job, unlocked)

CompleteInv ==
  /\ asking # {} => pc = "execute"
  /\ pc = "buffer" \/ (pc = "signatures" /\ job.op = "decrypt") \/ ret = "data" => Executable
  /\ found # {} => job.op = "verify" \/ (job.op = "decrypt" /\ Executable)
  /\ pc \in Calls => found = {}

MapInv == OpInv /\ CompleteInv

\* At the execution every array has been read to its end, and every key of it
\* has been accepted.
LEMMA AllAccepted ==
  ASSUME OpInv, pc = "execute"
  PROVE  /\ Atomic!Willing(job)
         /\ added["signers"] = Atomic!Signers(job)
         /\ Askable = Atomic!Signers(job) \cup Atomic!Readers(job)
<1>1. /\ \A a \in Arrays(job.op) : added[a] = Named(job[a])
      /\ \A a \in {"recipients", "signers"} : added[a] \subseteq MayUse[UsageOf(a)]
      /\ job.op \in {"verify", "decrypt"} => added["signers"] = {}
  BY DEF OpInv, LoopInv
<1>2. job.op \in {"sign", "verify", "encrypt", "decrypt"}
  BY JobIs DEF OpInv, OpTypeOK
<1>3. Arrays(job.op) \subseteq {"recipients", "signers"}
  BY DEF Arrays
<1>4. Atomic!Willing(job)
  BY <1>1, <1>3, SameJobs DEF Atomic!Willing
<1>5. added["signers"] = Atomic!Signers(job)
  <2>1. "signers" \in Arrays(job.op) => job.op \in {"sign", "encrypt"}
    BY <1>2 DEF Arrays
  <2>2. "signers" \notin Arrays(job.op) => job.op \in {"verify", "decrypt"}
    BY <1>2 DEF Arrays
  <2>3. QED
    BY <1>1, <2>1, <2>2, SameJobs DEF Atomic!Signers
<1>6. QED
  BY <1>4, <1>5 DEF Askable, Atomic!Readers

\* What librnp needs in order to succeed is what the promise needs.
LEMMA ExecutionCompletes ==
  ASSUME OpInv, pc = "execute", CanExecute
  PROVE  Executable
<1>1. /\ Atomic!Willing(job)
      /\ added["signers"] = Atomic!Signers(job)
  BY AllAccepted
<1>2. Atomic!Signers(job) \cap Protected \subseteq unlocked
  BY <1>1 DEF CanExecute, Usable
<1>3. Atomic!Readers(job) # {} => Atomic!Readers(job) \cap (unlocked \cup (Key \ Protected)) # {}
  BY DEF CanExecute, Usable, Atomic!Readers
<1>4. QED
  BY <1>1, <1>2, <1>3, SameJobs DEF Executable, Atomic!Complete

\* A passphrase more takes nothing away.
LEMMA MoreIsGiven ==
  ASSUME Executable, job' = job, unlocked \subseteq unlocked'
  PROVE  Executable'
<1>1. Atomic!Complete(job, unlocked')
  BY DEF Executable, Atomic!Complete
<1>2. QED
  BY <1>1 DEF Executable

(***************************************************************************)
(* The invariant.                                                          *)
(***************************************************************************)
\* A step before the execution.
LEMMA EarlyStep ==
  ASSUME MapInv, pc \in Calls \ {"execute", "buffer", "signatures"},
         UNCHANGED <<job, asking, unlocked, ret, found>>,
         pc' \in Calls \cup {"out"}, pc' \notin {"buffer", "signatures"}
  PROVE  CompleteInv'
<1>1. asking = {} /\ ret = "empty" /\ found = {}
  BY DEF MapInv, CompleteInv, OpInv, OutputInv
<1>2. QED
  BY <1>1 DEF CompleteInv

LEMMA CompleteStep ==
  ASSUME MapInv, [OpNext]_opVars
  PROVE  CompleteInv'
<1>1. CASE \E j \in Jobs : Begin(j)
  BY <1>1 DEF Begin, CompleteInv
<1>2. CASE UNCHANGED opVars
  BY <1>2 DEF opVars, MapInv, CompleteInv, Executable
<1>3. CASE UserAnswers
  <2>1. /\ asking' = {} /\ unlocked \subseteq unlocked'
        /\ UNCHANGED <<job, pc, ret, found>>
    BY <1>3 DEF UserAnswers, Answer
  <2>2. Executable => Executable'
    BY <2>1, MoreIsGiven
  <2>3. QED
    BY <2>1, <2>2 DEF MapInv, CompleteInv
<1>4. CASE Runs
  <2>1. CASE Acquire \/ SetArmor \/ OpenKeyring \/ AddKey \/ EndOfArray \/ RefuseKey
    <3>1. /\ pc \in Calls \ {"execute", "buffer", "signatures"}
          /\ UNCHANGED <<job, asking, unlocked, ret, found>>
      BY <2>1 DEF Acquire, SetArmor, OpenKeyring, AddKey, EndOfArray, RefuseKey, InLoop, Calls
    <3>2. pc' \in Calls \cup {"out"} /\ pc' \notin {"buffer", "signatures"}
      BY <2>1, Order
         DEF Acquire, SetArmor, OpenKeyring, AddKey, EndOfArray, RefuseKey, InLoop, Calls,
             Proceed, Leave
    <3>3. QED
      BY <3>1, <3>2, EarlyStep
  <2>2. CASE CallFails
    <3>1. /\ pc \in Calls \ {"execute"} /\ pc # "signatures" /\ pc' = "out"
          /\ UNCHANGED <<job, asking, unlocked, ret, found>>
      BY <2>2 DEF CallFails, Leave, Calls
    <3>2. asking = {} /\ ret = "empty" /\ found = {}
      BY <3>1 DEF MapInv, CompleteInv, OpInv, OutputInv
    <3>3. QED
      BY <3>1, <3>2 DEF CompleteInv, Calls
  <2>3. CASE \E k \in Handles : Ask(k)
    BY <2>3 DEF Ask, MapInv, CompleteInv, Executable
  <2>4. CASE Execute
    <3>1. /\ pc = "execute" /\ asking = {} /\ CanExecute
          /\ UNCHANGED <<job, asking, unlocked, ret, found>>
      BY <2>4 DEF Execute
    <3>2. Executable' /\ ret = "empty" /\ found = {}
      BY <3>1, ExecutionCompletes DEF MapInv, OpInv, OutputInv, Calls, Executable
    <3>3. QED
      BY <3>1, <3>2 DEF CompleteInv
  <2>5. CASE ExecuteFails
    <3>1. /\ pc = "execute" /\ asking = {}
          /\ (job.op = "verify" /\ pc' = "signatures") \/ pc' = "out"
          /\ UNCHANGED <<job, asking, unlocked, ret, found>>
      BY <2>5, Order DEF ExecuteFails, Proceed, Leave
    <3>2. ret = "empty" /\ found = {}
      BY <3>1 DEF MapInv, OpInv, OutputInv, Calls
    <3>3. QED
      BY <3>1, <3>2 DEF CompleteInv
  <2>6. CASE TakeBuffer
    <3>1. /\ pc = "buffer" /\ pc' \in {"signatures", "out"}
          /\ UNCHANGED <<job, asking, unlocked, found>>
      BY <2>6, Order DEF TakeBuffer, Proceed
    <3>2. asking = {} /\ Executable' /\ found = {}
      BY <3>1 DEF MapInv, CompleteInv, Executable, Calls
    <3>3. QED
      BY <3>1, <3>2 DEF CompleteInv
  <2>7. CASE ReadSignatures
    <3>1. /\ pc = "signatures" /\ pc' = "out"
          /\ UNCHANGED <<job, asking, unlocked, ret>>
      BY <2>7, Order DEF ReadSignatures, Proceed
    <3>2. job.op \in {"verify", "decrypt"} /\ asking = {}
      BY <3>1 DEF MapInv, CompleteInv, OpInv, HeldInv
    <3>3. Executable' = Executable /\ "out" \notin Calls
      BY <3>1 DEF Executable, Calls
    <3>4. QED
      BY <3>1, <3>2, <3>3 DEF MapInv, CompleteInv
  <2>8. CASE Return
    <3>1. /\ pc = "out" /\ pc' = "idle"
          /\ UNCHANGED <<job, asking, unlocked, ret, found>>
      BY <2>8 DEF Return
    <3>2. Executable' = Executable /\ "idle" \notin Calls
      BY <3>1 DEF Executable, Calls
    <3>3. QED
      BY <3>1, <3>2 DEF MapInv, CompleteInv
  <2>9. QED
    BY <1>4, <2>1, <2>2, <2>3, <2>4, <2>5, <2>6, <2>7, <2>8 DEF Runs
<1>5. QED
  BY <1>1, <1>2, <1>3, <1>4 DEF OpNext

(***************************************************************************)
(* The steps.                                                              *)
(***************************************************************************)
LEMMA InitMaps == OpInit => MapInv /\ Atomic!Init
<1> SUFFICES ASSUME OpInit PROVE MapInv /\ Atomic!Init
  OBVIOUS
<1>1. CompleteInv
  BY DEF OpInit, CompleteInv, Calls
<1>2. Atomic!Init
  BY DEF OpInit, Atomic!Init, Returned
<1>3. QED
  BY <1>1, <1>2, OpInvInit DEF MapInv

\* What happens between a call and its answer, but for the dialogues, is not
\* seen from outside.
LEMMA HiddenStep ==
  ASSUME ~Returned, ~Returned', UNCHANGED <<job, asking, asked, unlocked>>
  PROVE  UNCHANGED Atomic!callVars
BY DEF Atomic!callVars, Returned

LEMMA StepMaps ==
  ASSUME MapInv, [OpNext]_opVars
  PROVE  [Atomic!Next]_(Atomic!callVars)
<1>1. CASE \E j \in Jobs : Begin(j)
  <2>1. PICK j \in Jobs : Begin(j)
    BY <1>1
  <2>2. Atomic!Call(j)
    BY <2>1 DEF Begin, Atomic!Call, Returned
  <2>3. QED
    BY <2>2 DEF Atomic!Next
<1>2. CASE UNCHANGED opVars
  BY <1>2 DEF opVars, Atomic!callVars, Returned
<1>3. CASE UserAnswers
  <2>1. PICK granted, fits, right \in BOOLEAN : Answer(granted, fits, right)
    BY <1>3 DEF UserAnswers
  <2>2. pc = "execute"
    BY <2>1 DEF Answer, MapInv, CompleteInv
  <2>3. Atomic!Close
    BY <2>1, <2>2 DEF Answer, Atomic!Close, Returned
  <2>4. QED
    BY <2>3 DEF Atomic!Next
<1>4. CASE Runs /\ pc # "out" /\ ~(\E k \in Handles : Ask(k))
  <2>1. pc # "idle" /\ UNCHANGED <<job, asking, asked, unlocked>>
    BY <1>4
       DEF Runs, Acquire, SetArmor, CallFails, AddKey, RefuseKey, EndOfArray, OpenKeyring,
           Execute, ExecuteFails, TakeBuffer, ReadSignatures, Return, InLoop
  <2>2. pc \in Calls
    BY <1>4, <2>1 DEF MapInv, OpInv, OpTypeOK
  <2>3. pc' # "idle"
    <3>1. Proceed \/ Leave \/ pc' = pc
      BY <1>4
         DEF Runs, Acquire, SetArmor, CallFails, AddKey, RefuseKey, EndOfArray, OpenKeyring,
             Execute, ExecuteFails, TakeBuffer, ReadSignatures, Return
    <3>2. Following(job.op, pc) # "idle"
      BY <2>2, Order DEF Calls
    <3>3. QED
      BY <2>1, <3>1, <3>2 DEF Proceed, Leave
  <2>4. QED
    BY <2>1, <2>3, HiddenStep DEF Returned
<1>5. CASE \E k \in Handles : Ask(k)
  <2>1. PICK k \in Handles : Ask(k)
    BY <1>5
  <2>2. /\ pc = "execute" /\ asking = {} /\ k \in (Askable \cap Locked) \ asked
        /\ asking' = {k} /\ asked' = asked \cup {k}
        /\ UNCHANGED <<job, pc, unlocked, ret, found>>
    BY <2>1 DEF Ask
  <2>3. Atomic!Willing(job) /\ Askable = Atomic!Signers(job) \cup Atomic!Readers(job)
    BY <2>2, AllAccepted DEF MapInv
  <2>4. Atomic!Prompt(k)
    BY <2>2, <2>3, SameJobs DEF Atomic!Prompt, Returned
  <2>5. QED
    BY <2>4, SameJobs DEF Atomic!Next
<1>6. CASE Runs /\ pc = "out"
  <2>1. Return
    BY <1>6
       DEF Runs, Acquire, SetArmor, CallFails, AddKey, RefuseKey, EndOfArray, OpenKeyring,
           Ask, Execute, ExecuteFails, TakeBuffer, ReadSignatures, InLoop
  <2>2. /\ pc = "out" /\ pc' = "idle"
        /\ UNCHANGED <<job, asked, asking, unlocked, ret, found>>
    BY <2>1 DEF Return
  <2>3. /\ asking = {}
        /\ ret = "data" => job.op # "verify" /\ Atomic!Complete(job, unlocked)
        /\ found # {} => job.op = "verify" \/ (job.op = "decrypt" /\ Atomic!Complete(job, unlocked))
        /\ ret \in {"empty", "data"} /\ found \in SUBSET (1..job.sigs)
    BY <2>2 DEF MapInv, CompleteInv, Executable, OpInv, OpTypeOK, ReportsWithItsKeyring
  <2>4. Atomic!Answer(ret, found)
    BY <2>2, <2>3 DEF Atomic!Answer, Returned
  <2>5. QED
    BY <2>3, <2>4 DEF Atomic!Next
<1>7. QED
  BY <1>1, <1>2, <1>3, <1>4, <1>5, <1>6 DEF OpNext

\* For every set of keys, arrays of any length and any failures, an operation is
\* to its caller and to the user the single call and answer of OperationPromise:
\* no dialogue is opened before every named key is found usable, none twice for
\* a key, and an answer with data is complete.
THEOREM OperationsKeepPromise == OpSpec => KeepsItsPromise
<1>1. MapInv /\ [OpNext]_opVars => MapInv'
  BY OpInvStep, CompleteStep DEF MapInv
<1>2. QED
  BY <1>1, InitMaps, StepMaps, PTL DEF OpSpec, KeepsItsPromise, Atomic!Promise
=============================================================================
