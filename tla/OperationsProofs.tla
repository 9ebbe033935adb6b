-------------------------- MODULE OperationsProofs --------------------------
(***************************************************************************)
(* Proofs about Operations, for every set of keys, every keyring and every *)
(* set of jobs whose arrays end with an invalid key.                       *)
(*                                                                         *)
(* The inductive invariant says what the next call, pc, tells of the past: *)
(* the objects that were created (HeldInv), the part of the array that was *)
(* read (LoopInv), what the executed operation was given (OutputInv) and   *)
(* which keyring was opened (KeyringInv).                                  *)
(***************************************************************************)
EXTENDS Operations, TLAPS

USE DEF Level, PUBLIC, SECRET

\* The object that an operation creates after its input.
Second == IF job.op = "verify" THEN "sig" ELSE "out"

HeldInv ==
  /\ pc \in {"idle", "input"} => live = {}
  /\ pc = "signature" => job.op = "verify" /\ live = {"in"}
  /\ pc = "output" => job.op # "verify" /\ live = {"in"}
  /\ pc = "keyring" => job.op \in {"verify", "decrypt"}
  /\ pc \in {"keyring", "create"} => live = {"in", Second}
  /\ pc \in {"armor", "signers"} => job.op \in {"sign", "encrypt"}
  /\ pc = "recipients" => job.op = "encrypt"
  /\ pc = "buffer" => job.op # "verify"
  /\ pc = "signatures" => job.op \in {"verify", "decrypt"}
  /\ pc \in {"armor", "recipients", "signers", "execute", "buffer", "signatures"} =>
       live = {"in", Second, "op"}
  /\ pc = "out" => live \subseteq {"in", Second, "op"}

\* The keys of an array before its nth element.
Before(list, n) == {list[m] : m \in {m \in Nat \ {0} : m < n}}

Early == {"input", "signature", "output", "keyring", "create", "armor", "recipients"}

LoopInv ==
  /\ pc \in Calls \ {"recipients", "signers"} => i = 1
  /\ InLoop => /\ \A m \in Nat \ {0} : m < i => m \in DOMAIN job[pc] /\ job[pc][m] # NoName
               /\ added[pc] = Before(job[pc], i)
  /\ pc \in Early => added["signers"] = {}
  /\ pc \in Early \ {"recipients"} => added["recipients"] = {}
  /\ pc = "signers" /\ job.op = "encrypt" => added["recipients"] = Named(job.recipients)
  /\ pc \in {"execute", "buffer"} => \A a \in Arrays(job.op) : added[a] = Named(job[a])
  /\ \A a \in {"recipients", "signers"} : added[a] \subseteq MayUse[UsageOf(a)]
  /\ job.op \in {"sign", "encrypt"} => added["signers"] \subseteq Named(job.signers)
  /\ job.op \in {"verify", "decrypt"} => added["signers"] = {}

OutputInv ==
  /\ pc = "buffer" => added["signers"] \cap Protected \subseteq unlocked
  /\ ret = "data" => pc \in {"signatures", "out", "idle"}
  /\ pc \in Calls \ {"signatures"} => ret = "empty" /\ found = {}

KeyringInv ==
  /\ job.op \in {"verify", "decrypt"} /\ pc \in {"create", "execute", "buffer", "signatures"} =>
       opened # {}
  /\ asking \subseteq asked

OpInv ==
  /\ OpTypeOK
  /\ HeldInv
  /\ LoopInv
  /\ OutputInv
  /\ OutputIsByAllNamed
  /\ KeyringInv
  /\ ReportsWithItsKeyring
  /\ AsksForNamedKeysOnly

(***************************************************************************)
(* What follows what.                                                      *)
(***************************************************************************)
LEMMA Order ==
  ASSUME NEW op
  PROVE  /\ Following(op, "input") = IF op = "verify" THEN "signature" ELSE "output"
         /\ Following(op, "signature") = "keyring"
         /\ Following(op, "output") = IF op = "decrypt" THEN "keyring" ELSE "create"
         /\ Following(op, "keyring") = "create"
         /\ Following(op, "create") = IF op \in {"sign", "encrypt"} THEN "armor" ELSE "execute"
         /\ Following(op, "armor") = IF op = "encrypt" THEN "recipients" ELSE "signers"
         /\ Following(op, "recipients") = "signers"
         /\ Following(op, "signers") = "execute"
         /\ Following(op, "execute") = IF op = "verify" THEN "signatures" ELSE "buffer"
         /\ Following(op, "buffer") = IF op = "decrypt" THEN "signatures" ELSE "out"
         /\ Following(op, "signatures") = "out"
BY DEF Following

\* An array as a list of handles, and the arrays of each operation.
LEMMA JobIs ==
  ASSUME NEW j \in Jobs
  PROVE  /\ j.op \in {"sign", "verify", "encrypt", "decrypt"}
         /\ j.recipients \in Seq(Handles) /\ j.signers \in Seq(Handles)
         /\ j.to \in SUBSET Handles /\ j.sigs \in Nat
         /\ \A a \in Arrays(j.op) : Ended(j[a])
BY JobsAssumption DEF Job

\* Until its first invalid key, what an array names is what stands before.
LEMMA NamedBefore ==
  ASSUME NEW list \in Seq(Handles), NEW n \in DOMAIN list, list[n] = NoName,
         \A m \in Nat \ {0} : m < n => m \in DOMAIN list /\ list[m] # NoName
  PROVE  Named(list) = Before(list, n)
<1>1. DOMAIN list = 1..Len(list) /\ Len(list) \in Nat
  OBVIOUS
<1>2. ASSUME NEW k \in Named(list) PROVE k \in Before(list, n)
  <2>1. PICK m \in DOMAIN list : k = list[m] /\ \A l \in 1..m : list[l] # NoName
    BY <1>2 DEF Named
  <2>2. m < n
    BY <1>1, <2>1
  <2>3. QED
    BY <1>1, <2>1, <2>2 DEF Before
<1>3. ASSUME NEW k \in Before(list, n) PROVE k \in Named(list)
  <2>1. PICK m \in Nat \ {0} : m < n /\ k = list[m]
    BY <1>3 DEF Before
  <2>2. m \in DOMAIN list /\ \A l \in 1..m : list[l] # NoName
    BY <1>1, <2>1
  <2>3. QED
    BY <2>1, <2>2 DEF Named
<1>4. QED
  BY <1>2, <1>3

\* A loop that has met no invalid key yet is inside its array.
LEMMA InArray ==
  ASSUME NEW list \in Seq(Handles), Ended(list), NEW n \in Nat \ {0},
         \A m \in Nat \ {0} : m < n => m \in DOMAIN list /\ list[m] # NoName
  PROVE  n \in DOMAIN list
<1>1. DOMAIN list = 1..Len(list) /\ Len(list) \in Nat
  OBVIOUS
<1>2. PICK e \in DOMAIN list : list[e] = NoName
  BY DEF Ended
<1>3. ~(e < n)
  BY <1>1, <1>2
<1>4. QED
  BY <1>1, <1>2, <1>3

(***************************************************************************)
(* Each action preserves the invariant.                                    *)
(***************************************************************************)
LEMMA AcquireKeeps ==
  ASSUME OpInv, Acquire
  PROVE  OpInv'
<1>1. /\ pc \in {"input", "signature", "output", "create"}
      /\ live' = live \cup Acquires[pc] /\ pc' = Following(job.op, pc)
      /\ UNCHANGED <<job, i, added, opened, asked, asking, unlocked, ret, found>>
  BY DEF Acquire, Proceed
<1>2. job.op \in {"sign", "verify", "encrypt", "decrypt"}
  BY JobIs DEF OpInv, OpTypeOK
<1>3. OpTypeOK'
  <2>1. pc' \in Calls
    BY <1>1, Order DEF Calls
  <2>2. Acquires[pc] \subseteq Objects
    BY <1>1 DEF Acquires, Objects
  <2>3. QED
    BY <1>1, <2>1, <2>2 DEF OpInv, OpTypeOK
<1>4. HeldInv'
  <2>1. CASE pc = "input"
    BY <1>1, <1>2, <2>1, Order DEF OpInv, HeldInv, Second, Acquires
  <2>2. CASE pc = "signature"
    BY <1>1, <1>2, <2>2, Order DEF OpInv, HeldInv, Second, Acquires
  <2>3. CASE pc = "output"
    BY <1>1, <1>2, <2>3, Order DEF OpInv, HeldInv, Second, Acquires
  <2>4. CASE pc = "create"
    BY <1>1, <1>2, <2>4, Order DEF OpInv, HeldInv, Second, Acquires
  <2>5. QED
    BY <1>1, <2>1, <2>2, <2>3, <2>4
<1>5. LoopInv'
  BY <1>1, <1>2, Order DEF OpInv, OpTypeOK, HeldInv, LoopInv, Early, Calls, InLoop, Arrays
<1>6. OutputInv' /\ OutputIsByAllNamed' /\ AsksForNamedKeysOnly'
  BY <1>1, <1>2, Order DEF OpInv, HeldInv, OutputInv, OutputIsByAllNamed, AsksForNamedKeysOnly, Calls
<1>7. KeyringInv' /\ ReportsWithItsKeyring'
  BY <1>1, <1>2, Order DEF OpInv, HeldInv, KeyringInv, ReportsWithItsKeyring
<1>8. QED
  BY <1>3, <1>4, <1>5, <1>6, <1>7 DEF OpInv

LEMMA BeginKeeps ==
  ASSUME OpInv, NEW j \in Jobs, Begin(j)
  PROVE  OpInv'
<1>1. /\ job' = j /\ pc' = "input" /\ live' = {} /\ i' = 1
      /\ added' = [a \in {"recipients", "signers"} |-> {}]
      /\ opened' = {} /\ asked' = {} /\ asking' = {} /\ unlocked' = {}
      /\ ret' = "empty" /\ found' = {}
  BY DEF Begin, OpInv, HeldInv
<1>2. OpTypeOK'
  BY <1>1 DEF OpTypeOK, Calls, Handles
<1>3. HeldInv' /\ OutputInv' /\ KeyringInv' /\ ReportsWithItsKeyring'
  BY <1>1 DEF HeldInv, OutputInv, KeyringInv, ReportsWithItsKeyring
<1>4. LoopInv' /\ OutputIsByAllNamed' /\ AsksForNamedKeysOnly'
  BY <1>1 DEF LoopInv, InLoop, OutputIsByAllNamed, AsksForNamedKeysOnly
<1>5. QED
  BY <1>2, <1>3, <1>4 DEF OpInv

LEMMA SetArmorKeeps ==
  ASSUME OpInv, SetArmor
  PROVE  OpInv'
<1>1. /\ pc = "armor" /\ pc' = IF job.op = "encrypt" THEN "recipients" ELSE "signers"
      /\ UNCHANGED <<job, live, i, added, opened, asked, asking, unlocked, ret, found>>
  BY Order DEF SetArmor, Proceed
<1>2. job.op \in {"sign", "encrypt"} /\ i = 1 /\ added["recipients"] = {} /\ added["signers"] = {}
  BY <1>1 DEF OpInv, HeldInv, LoopInv, Calls, Early
<1>3. OpTypeOK' /\ HeldInv'
  BY <1>1, <1>2 DEF OpInv, OpTypeOK, HeldInv, Second, Calls
<1>4. LoopInv'
  BY <1>1, <1>2 DEF OpInv, OpTypeOK, LoopInv, InLoop, Before, Early, Calls
<1>5. OutputInv' /\ KeyringInv' /\ ReportsWithItsKeyring'
  BY <1>1, <1>2 DEF OpInv, OutputInv, KeyringInv, ReportsWithItsKeyring, Calls
<1>6. OutputIsByAllNamed' /\ AsksForNamedKeysOnly'
  BY <1>1 DEF OpInv, OutputIsByAllNamed, AsksForNamedKeysOnly
<1>7. QED
  BY <1>3, <1>4, <1>5, <1>6 DEF OpInv

\* The exit is reached from any call, with whatever was created until then.
LEMMA LeaveKeeps ==
  ASSUME OpInv, pc \in Calls, Leave,
         UNCHANGED <<job, live, i, added, opened, asked, asking, unlocked, ret, found>>
  PROVE  OpInv'
<1>1. pc' = "out"
  BY DEF Leave
<1>2. OpTypeOK' /\ HeldInv'
  BY <1>1 DEF OpInv, OpTypeOK, HeldInv, Second, Calls
<1>3. LoopInv'
  BY <1>1 DEF OpInv, LoopInv, InLoop, Calls, Early
<1>4. OutputInv' /\ KeyringInv' /\ ReportsWithItsKeyring'
  BY <1>1 DEF OpInv, OutputInv, KeyringInv, ReportsWithItsKeyring, Calls
<1>5. OutputIsByAllNamed' /\ AsksForNamedKeysOnly'
  BY DEF OpInv, OutputIsByAllNamed, AsksForNamedKeysOnly
<1>6. QED
  BY <1>2, <1>3, <1>4, <1>5 DEF OpInv

\* The array that a loop runs over is one of its operation.
LEMMA LoopArray ==
  ASSUME OpInv, InLoop
  PROVE  /\ job[pc] \in Seq(Handles) /\ i \in DOMAIN job[pc]
         /\ pc \in Arrays(job.op) /\ job.op \in {"sign", "encrypt"}
<1>1. /\ pc = "recipients" => job.op = "encrypt"
      /\ pc = "signers" => job.op \in {"sign", "encrypt"}
      /\ pc \in {"recipients", "signers"}
  BY DEF OpInv, HeldInv, InLoop
<1>2. pc \in Arrays(job.op) /\ job.op \in {"sign", "encrypt"}
  BY <1>1 DEF Arrays
<1>3. /\ job.recipients \in Seq(Handles) /\ job.signers \in Seq(Handles)
      /\ \A a \in Arrays(job.op) : Ended(job[a])
  BY JobIs DEF OpInv, OpTypeOK
<1>4. job[pc] \in Seq(Handles) /\ Ended(job[pc])
  BY <1>1, <1>2, <1>3
<1>5. i \in Nat \ {0} /\ \A m \in Nat \ {0} : m < i => m \in DOMAIN job[pc] /\ job[pc][m] # NoName
  BY DEF OpInv, OpTypeOK, LoopInv
<1>6. QED
  BY <1>2, <1>4, <1>5, InArray

LEMMA AddKeyKeeps ==
  ASSUME OpInv, AddKey
  PROVE  OpInv'
<1>1. /\ InLoop /\ Current # NoName /\ Current \in MayUse[UsageOf(pc)]
      /\ added' = [added EXCEPT ![pc] = @ \cup {Current}] /\ i' = i + 1
      /\ UNCHANGED <<job, pc, live, opened, asked, asking, unlocked, ret, found>>
  BY DEF AddKey
<1>2. /\ job[pc] \in Seq(Handles) /\ i \in DOMAIN job[pc]
      /\ pc \in Arrays(job.op) /\ job.op \in {"sign", "encrypt"}
  BY <1>1, LoopArray
<1>3. /\ pc \in {"recipients", "signers"} /\ i \in Nat \ {0}
      /\ added \in [{"recipients", "signers"} -> SUBSET Key]
  BY <1>1 DEF InLoop, OpInv, OpTypeOK
<1>4. Current \in Key
  BY <1>1, <1>2 DEF Current, Handles
<1>5. OpTypeOK'
  BY <1>1, <1>3, <1>4 DEF OpInv, OpTypeOK
<1>6. HeldInv' /\ KeyringInv' /\ ReportsWithItsKeyring' /\ AsksForNamedKeysOnly'
  BY <1>1 DEF OpInv, HeldInv, Second, KeyringInv, ReportsWithItsKeyring, AsksForNamedKeysOnly
<1>7. /\ \A m \in Nat \ {0} : m < i + 1 => m \in DOMAIN job[pc] /\ job[pc][m] # NoName
      /\ Before(job[pc], i + 1) = Before(job[pc], i) \cup {Current}
  <2>1. \A m \in Nat \ {0} : m < i => m \in DOMAIN job[pc] /\ job[pc][m] # NoName
    BY <1>1 DEF OpInv, LoopInv
  <2>2. \A m \in Nat \ {0} : m < i + 1 <=> m < i \/ m = i
    BY <1>3
  <2>3. QED
    BY <1>1, <1>2, <1>3, <2>1, <2>2 DEF Before, Current
<1>8. Current \in Named(job[pc])
  <2>1. \A m \in 1..i : job[pc][m] # NoName
    BY <1>3, <1>7
  <2>2. QED
    BY <1>2, <2>1 DEF Named, Current
<1>9. LoopInv'
  <2>1. added'[pc] = Before(job[pc], i + 1)
    BY <1>1, <1>3, <1>7 DEF OpInv, LoopInv
  <2>2. \A a \in {"recipients", "signers"} :
          /\ a # pc => added'[a] = added[a]
          /\ added'[a] \subseteq MayUse[UsageOf(a)]
    BY <1>1, <1>3 DEF OpInv, LoopInv
  <2>3. added'["signers"] \subseteq Named(job.signers)
    <3>1. added["signers"] \subseteq Named(job.signers)
      BY <1>2 DEF OpInv, LoopInv
    <3>2. QED
      BY <1>1, <1>3, <1>8, <3>1
  <2>4. QED
    BY <1>1, <1>2, <1>3, <1>7, <2>1, <2>2, <2>3 DEF OpInv, LoopInv, InLoop, Early
<1>10. ret = "empty" /\ OutputInv' /\ OutputIsByAllNamed'
  BY <1>1, <1>3 DEF OpInv, OpTypeOK, OutputInv, OutputIsByAllNamed
<1>11. QED
  BY <1>5, <1>6, <1>9, <1>10 DEF OpInv

LEMMA EndOfArrayKeeps ==
  ASSUME OpInv, EndOfArray
  PROVE  OpInv'
<1>1. /\ InLoop /\ Current = NoName /\ i' = 1
      /\ pc' = IF pc = "recipients" THEN "signers" ELSE "execute"
      /\ UNCHANGED <<job, live, added, opened, asked, asking, unlocked, ret, found>>
  BY Order DEF EndOfArray, Proceed, InLoop
<1>2. /\ job[pc] \in Seq(Handles) /\ i \in DOMAIN job[pc]
      /\ pc \in Arrays(job.op) /\ job.op \in {"sign", "encrypt"}
      /\ pc \in {"recipients", "signers"}
  BY <1>1, LoopArray DEF InLoop
<1>3. added[pc] = Named(job[pc])
  <2>1. /\ \A m \in Nat \ {0} : m < i => m \in DOMAIN job[pc] /\ job[pc][m] # NoName
        /\ added[pc] = Before(job[pc], i)
    BY <1>1 DEF OpInv, LoopInv
  <2>2. QED
    BY <1>1, <1>2, <2>1, NamedBefore DEF Current
<1>4. OpTypeOK' /\ HeldInv'
  BY <1>1, <1>2 DEF OpInv, OpTypeOK, HeldInv, Second, Calls
<1>5. LoopInv'
  <2>1. CASE pc = "recipients"
    BY <1>1, <1>2, <1>3, <2>1
       DEF OpInv, OpTypeOK, HeldInv, LoopInv, InLoop, Before, Early, Calls, Arrays
  <2>2. CASE pc = "signers"
    BY <1>1, <1>2, <1>3, <2>2 DEF OpInv, OpTypeOK, HeldInv, LoopInv, InLoop, Early, Arrays
  <2>3. QED
    BY <1>2, <2>1, <2>2
<1>6. ret = "empty" /\ OutputInv' /\ OutputIsByAllNamed'
  BY <1>1, <1>2 DEF OpInv, OutputInv, OutputIsByAllNamed, Calls
<1>7. KeyringInv' /\ ReportsWithItsKeyring' /\ AsksForNamedKeysOnly'
  BY <1>1, <1>2 DEF OpInv, KeyringInv, ReportsWithItsKeyring, AsksForNamedKeysOnly
<1>8. QED
  BY <1>4, <1>5, <1>6, <1>7 DEF OpInv

LEMMA OpenKeyringKeeps ==
  ASSUME OpInv, OpenKeyring
  PROVE  OpInv'
<1>1. /\ pc = "keyring" /\ pc' = "create"
      /\ opened' = opened \cup {IF job.op = "verify" THEN PUBLIC ELSE SECRET}
      /\ UNCHANGED <<job, live, i, added, asked, asking, unlocked, ret, found>>
  BY Order DEF OpenKeyring, Proceed
<1>2. OpTypeOK' /\ HeldInv'
  BY <1>1 DEF OpInv, OpTypeOK, HeldInv, Second, Calls
<1>3. LoopInv' /\ OutputInv'
  BY <1>1 DEF OpInv, OpTypeOK, HeldInv, LoopInv, InLoop, OutputInv, Early, Calls
<1>4. KeyringInv' /\ ReportsWithItsKeyring'
  BY <1>1 DEF OpInv, HeldInv, KeyringInv, ReportsWithItsKeyring
<1>5. OutputIsByAllNamed' /\ AsksForNamedKeysOnly'
  BY <1>1 DEF OpInv, OutputIsByAllNamed, AsksForNamedKeysOnly
<1>6. QED
  BY <1>2, <1>3, <1>4, <1>5 DEF OpInv

LEMMA AskKeeps ==
  ASSUME OpInv, NEW k \in Handles, Ask(k)
  PROVE  OpInv'
<1>1. /\ pc = "execute" /\ k \in Askable
      /\ asking' = {k} /\ asked' = asked \cup {k}
      /\ UNCHANGED <<job, pc, live, i, added, opened, unlocked, ret, found>>
  BY DEF Ask
<1>2. OpTypeOK' /\ HeldInv'
  BY <1>1 DEF OpInv, OpTypeOK, HeldInv, Second, Handles
<1>3. LoopInv' /\ OutputInv' /\ OutputIsByAllNamed'
  BY <1>1 DEF OpInv, LoopInv, InLoop, OutputInv, OutputIsByAllNamed
<1>4. KeyringInv' /\ ReportsWithItsKeyring'
  BY <1>1 DEF OpInv, KeyringInv, ReportsWithItsKeyring
<1>5. AsksForNamedKeysOnly'
  <2>1. job.op \in {"sign", "verify", "encrypt", "decrypt"}
    BY JobIs DEF OpInv, OpTypeOK
  <2>2. CASE job.op = "decrypt"
    BY <1>1, <2>2 DEF OpInv, LoopInv, Askable, AsksForNamedKeysOnly
  <2>3. CASE job.op = "verify"
    BY <1>1, <2>3 DEF OpInv, LoopInv, Askable
  <2>4. CASE job.op \in {"sign", "encrypt"}
    BY <1>1, <2>4 DEF OpInv, LoopInv, Askable, AsksForNamedKeysOnly
  <2>5. QED
    BY <2>1, <2>2, <2>3, <2>4
<1>6. QED
  BY <1>2, <1>3, <1>4, <1>5 DEF OpInv

\* An answer only ever adds to what is unlocked.
LEMMA AnswerKeeps ==
  ASSUME OpInv, NEW granted \in BOOLEAN, NEW fits \in BOOLEAN, NEW right \in BOOLEAN,
         Answer(granted, fits, right)
  PROVE  OpInv'
<1>1. /\ asking # {} /\ asking' = {}
      /\ unlocked \subseteq unlocked' /\ unlocked' \subseteq unlocked \cup asking
      /\ UNCHANGED <<job, pc, live, i, added, opened, asked, ret, found>>
  BY DEF Answer
<1>2. asking \subseteq Handles
  BY <1>1 DEF OpInv, OpTypeOK
<1>3. OpTypeOK' /\ HeldInv' /\ KeyringInv'
  BY <1>1, <1>2 DEF OpInv, OpTypeOK, HeldInv, Second, KeyringInv
<1>4. LoopInv' /\ OutputInv' /\ OutputIsByAllNamed'
  BY <1>1 DEF OpInv, LoopInv, InLoop, OutputInv, OutputIsByAllNamed
<1>5. ReportsWithItsKeyring' /\ AsksForNamedKeysOnly'
  BY <1>1 DEF OpInv, ReportsWithItsKeyring, AsksForNamedKeysOnly
<1>6. QED
  BY <1>3, <1>4, <1>5 DEF OpInv

\* What goes on past an execution: a success with every signer unlocked, or a
\* verification, which has no signer.
LEMMA ExecutedKeeps ==
  ASSUME OpInv, pc = "execute", Proceed,
         job.op = "verify" \/ added["signers"] \cap Protected \subseteq unlocked,
         UNCHANGED <<job, live, i, added, opened, asked, asking, unlocked, ret, found>>
  PROVE  OpInv'
<1>1. pc' = IF job.op = "verify" THEN "signatures" ELSE "buffer"
  BY Order DEF Proceed
<1>2. OpTypeOK' /\ HeldInv'
  BY <1>1 DEF OpInv, OpTypeOK, HeldInv, Second, Calls
<1>3. LoopInv' /\ OutputInv'
  BY <1>1 DEF OpInv, LoopInv, InLoop, OutputInv, Early, Calls
<1>4. KeyringInv' /\ ReportsWithItsKeyring'
  BY <1>1 DEF OpInv, KeyringInv, ReportsWithItsKeyring
<1>5. OutputIsByAllNamed' /\ AsksForNamedKeysOnly'
  BY DEF OpInv, OutputIsByAllNamed, AsksForNamedKeysOnly
<1>6. QED
  BY <1>2, <1>3, <1>4, <1>5 DEF OpInv

LEMMA ExecuteKeeps ==
  ASSUME OpInv, Execute \/ ExecuteFails
  PROVE  OpInv'
<1>1. CASE Execute
  <2>1. added["signers"] \cap Protected \subseteq unlocked
    BY <1>1 DEF Execute, CanExecute, Usable
  <2>2. QED
    BY <1>1, <2>1, ExecutedKeeps DEF Execute
<1>2. CASE ExecuteFails /\ job.op = "verify"
  BY <1>2, ExecutedKeeps DEF ExecuteFails
<1>3. CASE ExecuteFails /\ job.op # "verify"
  BY <1>3, LeaveKeeps DEF ExecuteFails, Calls
<1>4. QED
  BY <1>1, <1>2, <1>3

LEMMA TakeBufferKeeps ==
  ASSUME OpInv, TakeBuffer
  PROVE  OpInv'
<1>1. /\ pc = "buffer" /\ pc' = IF job.op = "decrypt" THEN "signatures" ELSE "out"
      /\ ret' \in {"empty", "data"}
      /\ UNCHANGED <<job, live, i, added, opened, asked, asking, unlocked, found>>
  BY Order DEF TakeBuffer, Proceed
<1>2. job.op \in {"sign", "encrypt", "decrypt"}
  BY <1>1, JobIs DEF OpInv, OpTypeOK, HeldInv
<1>3. OpTypeOK' /\ HeldInv'
  BY <1>1 DEF OpInv, OpTypeOK, HeldInv, Second, Calls
<1>4. LoopInv' /\ OutputInv'
  BY <1>1 DEF OpInv, LoopInv, InLoop, OutputInv, Early, Calls
<1>5. OutputIsByAllNamed'
  <2>1. \A a \in Arrays(job.op) : a \in {"recipients", "signers"}
    BY DEF Arrays
  <2>2. \A a \in Arrays(job.op) : Named(job[a]) = added[a] /\ added[a] \subseteq MayUse[UsageOf(a)]
    BY <1>1, <2>1 DEF OpInv, LoopInv
  <2>3. added["signers"] \cap Protected \subseteq unlocked
    BY <1>1 DEF OpInv, OutputInv
  <2>4. QED
    BY <1>1, <2>2, <2>3 DEF OutputIsByAllNamed
<1>6. KeyringInv' /\ ReportsWithItsKeyring' /\ AsksForNamedKeysOnly'
  BY <1>1, <1>2 DEF OpInv, OutputInv, KeyringInv, ReportsWithItsKeyring, AsksForNamedKeysOnly, Calls
<1>7. QED
  BY <1>3, <1>4, <1>5, <1>6 DEF OpInv

LEMMA ReadSignaturesKeeps ==
  ASSUME OpInv, ReadSignatures
  PROVE  OpInv'
<1>1. /\ pc = "signatures" /\ pc' = "out" /\ found' \in SUBSET (1..job.sigs)
      /\ UNCHANGED <<job, live, i, added, opened, asked, asking, unlocked, ret>>
  BY Order DEF ReadSignatures, Proceed
<1>2. OpTypeOK' /\ HeldInv'
  BY <1>1 DEF OpInv, OpTypeOK, HeldInv, Second, Calls
<1>3. LoopInv' /\ OutputInv' /\ OutputIsByAllNamed'
  BY <1>1 DEF OpInv, LoopInv, InLoop, OutputInv, OutputIsByAllNamed, Early, Calls
<1>4. KeyringInv' /\ ReportsWithItsKeyring' /\ AsksForNamedKeysOnly'
  BY <1>1 DEF OpInv, HeldInv, KeyringInv, ReportsWithItsKeyring, AsksForNamedKeysOnly
<1>5. QED
  BY <1>2, <1>3, <1>4 DEF OpInv

\* The exit destroys all that an operation may hold there.
LEMMA ReturnKeeps ==
  ASSUME OpInv, Return
  PROVE  OpInv'
<1>1. /\ pc = "out" /\ pc' = "idle" /\ live' = live \ Released(job.op)
      /\ UNCHANGED <<job, i, added, opened, asked, asking, unlocked, ret, found>>
  BY DEF Return
<1>2. live \subseteq Released(job.op)
  BY <1>1 DEF OpInv, HeldInv, Second, Released
<1>3. OpTypeOK' /\ HeldInv'
  BY <1>1, <1>2 DEF OpInv, OpTypeOK, HeldInv, Second, Calls
<1>4. LoopInv' /\ OutputInv' /\ OutputIsByAllNamed'
  BY <1>1 DEF OpInv, LoopInv, InLoop, OutputInv, OutputIsByAllNamed, Early, Calls
<1>5. KeyringInv' /\ ReportsWithItsKeyring' /\ AsksForNamedKeysOnly'
  BY <1>1 DEF OpInv, KeyringInv, ReportsWithItsKeyring, AsksForNamedKeysOnly
<1>6. QED
  BY <1>3, <1>4, <1>5 DEF OpInv

LEMMA OpInvInit == OpInit => OpInv
<1> SUFFICES ASSUME OpInit PROVE OpInv
  OBVIOUS
<1>1. OpTypeOK
  BY DEF OpInit, OpTypeOK, Calls, Handles
<1>2. HeldInv /\ OutputInv /\ KeyringInv /\ ReportsWithItsKeyring
  BY DEF OpInit, HeldInv, OutputInv, KeyringInv, ReportsWithItsKeyring, Calls
<1>3. LoopInv /\ OutputIsByAllNamed /\ AsksForNamedKeysOnly
  BY DEF OpInit, LoopInv, InLoop, OutputIsByAllNamed, AsksForNamedKeysOnly, Calls, Early
<1>4. QED
  BY <1>1, <1>2, <1>3 DEF OpInv

LEMMA OpInvStep == OpInv /\ [OpNext]_opVars => OpInv'
<1> SUFFICES ASSUME OpInv, [OpNext]_opVars PROVE OpInv'
  OBVIOUS
<1>1. CASE \E j \in Jobs : Begin(j)
  BY <1>1, BeginKeeps
<1>2. CASE Runs
  <2>1. CASE CallFails \/ RefuseKey
    BY <2>1, LeaveKeeps DEF CallFails, RefuseKey, InLoop, Calls
  <2>2. CASE \E k \in Handles : Ask(k)
    BY <2>2, AskKeeps
  <2>3. QED
    BY <1>2, <2>1, <2>2, AcquireKeeps, SetArmorKeeps, AddKeyKeeps, EndOfArrayKeeps,
       OpenKeyringKeeps, ExecuteKeeps, TakeBufferKeeps, ReadSignaturesKeeps, ReturnKeeps
       DEF Runs
<1>3. CASE UserAnswers
  BY <1>3, AnswerKeeps DEF UserAnswers
<1>4. CASE UNCHANGED opVars
  BY <1>4 DEF opVars, OpInv, OpTypeOK, HeldInv, Second, LoopInv, InLoop, OutputInv,
     OutputIsByAllNamed, KeyringInv, ReportsWithItsKeyring, AsksForNamedKeysOnly
<1>5. QED
  BY <1>1, <1>2, <1>3, <1>4 DEF OpNext

LEMMA OpInvHolds == OpSpec => []OpInv
BY OpInvInit, OpInvStep, PTL DEF OpSpec

(***************************************************************************)
(* The theorems.                                                           *)
(***************************************************************************)
\* Every variable has its type.
THEOREM OperationsTyped == OpSpec => []OpTypeOK
<1>1. OpInv => OpTypeOK
  BY DEF OpInv
<1>2. QED
  BY <1>1, OpInvHolds, PTL

\* Whatever call fails, an operation that has returned has destroyed every
\* librnp object that it acquired.
THEOREM ExitReleasesAll == OpSpec => []NothingIsLeftBehind
<1>1. OpInv => NothingIsLeftBehind
  BY DEF OpInv, HeldInv, NothingIsLeftBehind
<1>2. QED
  BY <1>1, OpInvHolds, PTL

\* No librnp call is given an object that was not created before it.
THEOREM CallsAreOrdered == OpSpec => []UsesWhatExists
<1>1. OpInv => UsesWhatExists
  BY DEF OpInv, HeldInv, Second, UsesWhatExists, Uses, Calls
<1>2. QED
  BY <1>1, OpInvHolds, PTL

\* The loops over the arrays of keys stay inside them, whatever their length.
THEOREM LoopsStayInside == OpSpec => []StaysInArray
<1>1. OpInv => StaysInArray
  BY LoopArray DEF StaysInArray
<1>2. QED
  BY <1>1, OpInvHolds, PTL

\* What is returned was made by and for every key that was named.
THEOREM OutputIsComplete == OpSpec => []OutputIsByAllNamed
<1>1. OpInv => OutputIsByAllNamed
  BY DEF OpInv
<1>2. QED
  BY <1>1, OpInvHolds, PTL

\* Nothing is read or judged before the keyring for it is open.
THEOREM KeyringComesFirst == OpSpec => []ReportsWithItsKeyring
<1>1. OpInv => ReportsWithItsKeyring
  BY DEF OpInv
<1>2. QED
  BY <1>1, OpInvHolds, PTL

\* No passphrase is asked for but to use a named key or to read a message that
\* is encrypted to it.
THEOREM NoOtherKeyIsAskedFor == OpSpec => []AsksForNamedKeysOnly
<1>1. OpInv => AsksForNamedKeysOnly
  BY DEF OpInv
<1>2. QED
  BY <1>1, OpInvHolds, PTL
=============================================================================
