-------------------------- MODULE CommandLineProofs --------------------------
(***************************************************************************)
(* Proofs about the command line, whose commands a kill may end at any     *)
(* step: the airdrop, the deployment and upgrades, and the commands that   *)
(* call the contracts.                                                     *)
(*                                                                         *)
(* Airdrop.  The resume file is true for any recipients, batch size and    *)
(* concurrency, and for any number of kills, refusals and lost answers.    *)
(* The argument: a batch that is being saved, or may be, is either still   *)
(* in the mempool under the nonce of its task, or was mined.  The          *)
(* payments beyond the first one of each line are bounded by a sum over    *)
(* the lines of the transfers that a later send would repeat: it rises     *)
(* only with a kill, and with an answer that is lost.                      *)
(*                                                                         *)
(* Deployment.  One invariant, DeploymentInvariant, for any configuration: *)
(* the process's copy is the address book, an entry stands for the         *)
(* deployments of the builds up to the one it hashes, a deployment without *)
(* need is paid for by the event that caused it, and a proxy that waits    *)
(* for an acceptance is counted with what left it so.                      *)
(*                                                                         *)
(* Contract and protocol commands.  Every command of the table either fits *)
(* the contracts or is one they left behind, and an approval of it is its  *)
(* only one that is reached, with the call that pulls it next.  From this, *)
(* for any number of processes and amounts: what the mempool holds, what a *)
(* command that ended has done, and whom an allowance belongs to.          *)
(***************************************************************************)
EXTENDS AirdropProperties, DeploymentProperties, CommandsProperties, SumProofs,
        FiniteSetTheorems, SequenceTheorems, TLAPS

-----------------------------------------------------------------------------
(* Airdrop                                                                 *)

Task == [st : {"queued", "sent", "saving", "done", "failed"},
         nonce : Nat, unsaved : SUBSET DOMAIN Lines]

RunOK ==
  /\ run = [pc |-> run.pc, batch |-> run.batch, task |-> run.task,
            next |-> run.next]
  /\ run.batch \in [DOMAIN run.batch -> SUBSET DOMAIN Lines]
  /\ run.task \in [DOMAIN run.batch -> Task]
  /\ run.next \in Nat

LinesOK ==
  /\ paid \in [DOMAIN Lines -> Nat]
  /\ reverted \subseteq DOMAIN Lines

\* One transaction for each nonce, and none for a nonce that is mined.
NoncesApart ==
  /\ nonce \in Nat
  /\ IsFiniteSet(pool)
  /\ \A tx \in pool : /\ tx.nonce \in Nat
                      /\ tx.nonce >= nonce
                      /\ tx.lines \subseteq DOMAIN Lines
  /\ \A t, u \in pool : t.nonce = u.nonce => t = u

Carried(lines) == \A i \in lines : paid[i] > 0 \/ i \in reverted

\* What a task is to save is in the mempool, or was mined.
TasksTrue ==
  \A k \in Active :
    /\ run.task[k].unsaved \subseteq run.batch[k]
    /\ \/ \E tx \in pool : /\ tx.nonce = run.task[k].nonce
                           /\ tx.lines = run.batch[k]
       \/ Carried(run.batch[k])

IInv == RunOK /\ LinesOK /\ NoncesApart /\ TasksTrue /\ ListedIsMined

-----------------------------------------------------------------------------
\* A pending nonce is a natural number past every mined transaction.
LEMMA PendingNonce ==
    ASSUME NoncesApart, NEW n \in PendingCounts
    PROVE  n \in Nat /\ n >= nonce /\ ~Taken(n)
<1>1. Cardinality(pool) \in Nat
  BY FS_CardinalityType DEF NoncesApart
<1>. QED
  BY <1>1 DEF NoncesApart, PendingCounts, Taken

\* Adding a transaction with a nonce that is not taken keeps them apart.
LEMMA AddedNonce ==
    ASSUME NoncesApart, NEW n \in Nat, ~Taken(n),
           NEW lines \in SUBSET DOMAIN Lines, NEW total,
           pool' = pool \union
             {[nonce |-> n, lines |-> lines, approves |-> total]},
           UNCHANGED nonce
    PROVE  NoncesApart'
<1>1. IsFiniteSet(pool')
  BY FS_AddElement DEF NoncesApart
<1>. QED
  BY <1>1 DEF NoncesApart, Taken

LEMMA OffIsOK == ASSUME run' = Off PROVE RunOK' /\ Active' = {}
BY DEF RunOK, Off, Active

LEMMA BeganOK ==
    ASSUME RunOK, NEW k \in DOMAIN run.task,
           NEW st \in {"sent", "failed"}, Began(k, st)
    PROVE  /\ RunOK'
           /\ run'.batch = run.batch
           /\ run'.task = [run.task EXCEPT ![k] =
                [st |-> st, nonce |-> run.next, unsaved |-> run.batch[k]]]
<1>. DEFINE t == [st |-> st, nonce |-> run.next, unsaved |-> run.batch[k]]
<1>1. t \in Task
  BY DEF RunOK, Task
<1>. HIDE DEF t
<1>2. run' = [run EXCEPT !.next = run.next + 1, !.task[k] = t]
  BY DEF Began, t, RunOK
<1>3. run' = [pc |-> run.pc, batch |-> run.batch,
              task |-> [run.task EXCEPT ![k] = t], next |-> run.next + 1]
  BY <1>2 DEF RunOK
<1>. QED
  BY <1>1, <1>3 DEF RunOK, t

-----------------------------------------------------------------------------
LEMMA InitIInv == Init => IInv
<1>. SUFFICES ASSUME Init PROVE IInv
  OBVIOUS
<1>1. IsFiniteSet({})
  BY FS_EmptySet
<1>2. Active = {} /\ RunOK
  BY DEF Init, Off, Active, RunOK
<1>. QED
  BY <1>1, <1>2 DEF Init, IInv, LinesOK, NoncesApart, TasksTrue, ListedIsMined

LEMMA StartIInv == ASSUME IInv, NEW n \in PendingCounts, Start(n) PROVE IInv'
<1>. DEFINE batches == Batches(Unpaid)
            total == Amount(Unpaid)
<1>1. n \in Nat /\ ~Taken(n)
  BY PendingNonce DEF IInv
<1>2. batches \in [DOMAIN batches -> SUBSET DOMAIN Lines]
  BY DEF Batches, Unpaid
<1>. HIDE DEF batches, total
<1>3. PICK pc : run' = [pc |-> pc, batch |-> batches,
                        task |-> [k \in DOMAIN batches |-> Queued], next |-> n]
  BY DEF Start, batches
<1>4. Queued \in Task
  BY DEF Queued, Task
<1>5. RunOK'
  BY <1>1, <1>2, <1>3, <1>4 DEF RunOK
<1>6. Active' = {}
  BY <1>3 DEF Active, Queued
<1>7. NoncesApart'
  <2>1. CASE UNCHANGED pool
    BY <2>1 DEF Start, IInv, NoncesApart
  <2>2. CASE pool' = pool \union {[nonce |-> n, lines |-> {}, approves |-> total]}
    BY <1>1, <2>2, AddedNonce DEF Start, IInv
  <2>. QED
    BY <2>1, <2>2 DEF Start, total
<1>8. LinesOK' /\ ListedIsMined'
  BY DEF Start, IInv, LinesOK, ListedIsMined
<1>. QED
  BY <1>5, <1>6, <1>7, <1>8 DEF IInv, TasksTrue

\* A task that began and sent nothing has ended.
LEMMA FailedIInv ==
    ASSUME IInv, NEW k \in DOMAIN run.task, Began(k, "failed"), NoncesApart',
           pool \subseteq pool', UNCHANGED <<paid, reverted, nonce, resumefile>>
    PROVE  IInv'
<1>1. /\ RunOK'
      /\ run'.batch = run.batch
      /\ run'.task = [run.task EXCEPT ![k] =
           [st |-> "failed", nonce |-> run.next, unsaved |-> run.batch[k]]]
  BY BeganOK DEF IInv
<1>2. TasksTrue'
  <2>. SUFFICES ASSUME NEW j \in Active'
                PROVE  /\ run'.task[j].unsaved \subseteq run'.batch[j]
                       /\ \/ \E tx \in pool' : /\ tx.nonce = run'.task[j].nonce
                                               /\ tx.lines = run'.batch[j]
                          \/ Carried(run.batch[j])
    BY <1>1 DEF TasksTrue, Carried
  <2>1. j # k /\ j \in Active /\ run'.task[j] = run.task[j]
    BY <1>1 DEF Active, IInv, RunOK
  <2>. QED
    BY <1>1, <2>1 DEF IInv, TasksTrue
<1>. QED
  BY <1>1, <1>2 DEF IInv, LinesOK, ListedIsMined

LEMMA SendIInv == ASSUME IInv, NEW k \in DOMAIN run.task, Send(k) PROVE IInv'
<1>. DEFINE tx == [nonce |-> run.next, lines |-> run.batch[k], approves |-> 0]
<1>1. /\ RunOK'
      /\ run'.batch = run.batch
      /\ run'.task = [run.task EXCEPT ![k] =
           [st |-> "sent", nonce |-> run.next, unsaved |-> run.batch[k]]]
  BY BeganOK DEF IInv, Send
<1>2. run.next \in Nat /\ run.batch[k] \in SUBSET DOMAIN Lines
  BY DEF IInv, RunOK
<1>3. NoncesApart'
  BY <1>2, AddedNonce DEF Send, Submitted, IInv
<1>4. pool' = pool \union {tx}
  BY DEF Send, Submitted
<1>5. TasksTrue'
  <2>. SUFFICES ASSUME NEW j \in Active'
                PROVE  /\ run'.task[j].unsaved \subseteq run'.batch[j]
                       /\ \/ \E u \in pool' : /\ u.nonce = run'.task[j].nonce
                                              /\ u.lines = run'.batch[j]
                          \/ Carried(run.batch[j])
    BY <1>1 DEF TasksTrue, Carried, Send
  <2>1. CASE j = k
    <3>1. run'.task[j] = [st |-> "sent", nonce |-> run.next,
                          unsaved |-> run.batch[k]]
      BY <1>1, <2>1
    <3>2. tx \in pool' /\ tx.nonce = run'.task[j].nonce /\ tx.lines = run'.batch[j]
      BY <1>1, <1>4, <2>1, <3>1
    <3>. QED
      BY <1>1, <2>1, <3>1, <3>2
  <2>2. CASE j # k
    <3>1. j \in Active /\ run'.task[j] = run.task[j]
      BY <1>1, <2>2 DEF Active, IInv, RunOK
    <3>. QED
      BY <1>1, <1>4, <3>1 DEF IInv, TasksTrue
  <2>. QED
    BY <2>1, <2>2
<1>. QED
  BY <1>1, <1>3, <1>5 DEF IInv, LinesOK, ListedIsMined, Send

LEMMA SaveIInv == ASSUME IInv, NEW k \in DOMAIN run.task, Save(k) PROVE IInv'
<1>1. k \in Active /\ run.task[k].nonce < nonce /\ Saved(k)
  BY DEF Save
<1>2. Carried(run.batch[k]) /\ run.task[k].unsaved \subseteq run.batch[k]
  BY <1>1 DEF IInv, TasksTrue, NoncesApart, RunOK, Task
<1>3. PICK i \in run.task[k].unsaved :
        /\ resumefile' = resumefile \union {Lines[i].address}
        /\ \E st \in {"done", "saving"} :
             run' = [run EXCEPT !.task[k] =
                       [st |-> st, nonce |-> run.task[k].nonce,
                        unsaved |-> run.task[k].unsaved \ {i}]]
        /\ UNCHANGED <<paid, reverted, nonce, pool>>
  BY <1>1 DEF Saved
<1>4. PICK st \in {"done", "saving"} :
        run' = [run EXCEPT !.task[k] =
                  [st |-> st, nonce |-> run.task[k].nonce,
                   unsaved |-> run.task[k].unsaved \ {i}]]
  BY <1>3
<1>. DEFINE t == [st |-> st, nonce |-> run.task[k].nonce,
                  unsaved |-> run.task[k].unsaved \ {i}]
<1>5. t \in Task
  BY DEF IInv, RunOK, Task
<1>. HIDE DEF t
<1>6. run' = [pc |-> run.pc, batch |-> run.batch,
              task |-> [run.task EXCEPT ![k] = t], next |-> run.next]
  BY <1>4 DEF IInv, RunOK, t
<1>7. RunOK'
  BY <1>5, <1>6 DEF IInv, RunOK
<1>8. TasksTrue'
  <2>. SUFFICES ASSUME NEW j \in Active'
                PROVE  /\ run'.task[j].unsaved \subseteq run'.batch[j]
                       /\ \/ \E u \in pool : /\ u.nonce = run'.task[j].nonce
                                             /\ u.lines = run'.batch[j]
                          \/ Carried(run.batch[j])
    BY <1>3, <1>6 DEF TasksTrue, Carried
  <2>1. CASE j = k
    BY <1>2, <1>6, <2>1 DEF t, IInv, RunOK
  <2>2. CASE j # k
    <3>1. j \in Active /\ run'.task[j] = run.task[j] /\ run'.batch = run.batch
      BY <1>6, <2>2 DEF Active, IInv, RunOK
    <3>. QED
      BY <3>1 DEF IInv, TasksTrue
  <2>. QED
    BY <2>1, <2>2
<1>9. i \in DOMAIN Lines /\ (paid[i] > 0 \/ i \in reverted)
  BY <1>1, <1>2 DEF Carried, IInv, RunOK, Active
<1>10. ListedIsMined'
  BY <1>3, <1>9 DEF ListedIsMined, IInv
<1>. QED
  BY <1>3, <1>7, <1>8, <1>10 DEF IInv, LinesOK, NoncesApart

\* A mined transaction leaves its lines paid or failed, and no other line
\* changes.
LEMMA MineIInv == ASSUME IInv, NEW tx \in pool, Mine(tx) PROVE IInv'
<1>. DEFINE pays == tx.approves = 0 /\ Covers(tx.lines)
<1>1. /\ tx.nonce = nonce
      /\ nonce' = nonce + 1
      /\ pool' = pool \ {tx}
      /\ paid' = [i \in DOMAIN Lines |->
                    IF pays /\ i \in tx.lines THEN paid[i] + 1 ELSE paid[i]]
      /\ reverted' = IF pays THEN reverted ELSE reverted \union tx.lines
      /\ UNCHANGED <<resumefile, run>>
  BY DEF Mine
<1>. HIDE DEF pays
<1>2. tx.lines \subseteq DOMAIN Lines
  BY DEF IInv, NoncesApart
<1>3. LinesOK'
  BY <1>1, <1>2 DEF IInv, LinesOK
<1>4. \A i \in DOMAIN Lines :
        paid[i] > 0 \/ i \in reverted \/ i \in tx.lines
          => paid'[i] > 0 \/ i \in reverted'
  BY <1>1 DEF IInv, LinesOK
<1>5. NoncesApart'
  <2>1. IsFiniteSet(pool')
    BY <1>1, FS_Subset DEF IInv, NoncesApart
  <2>. QED
    BY <1>1, <2>1 DEF IInv, NoncesApart
<1>6. RunOK' /\ Active' = Active
  BY <1>1 DEF IInv, RunOK, Active
<1>7. TasksTrue'
  <2>. SUFFICES ASSUME NEW k \in Active
                PROVE  \/ \E u \in pool' : /\ u.nonce = run.task[k].nonce
                                           /\ u.lines = run.batch[k]
                       \/ \A i \in run.batch[k] : paid'[i] > 0 \/ i \in reverted'
    BY <1>1, <1>6 DEF TasksTrue, Carried, IInv
  <2>1. run.batch[k] \subseteq DOMAIN Lines
    BY DEF Active, IInv, RunOK
  <2>2. CASE Carried(run.batch[k])
    BY <1>4, <2>1, <2>2 DEF Carried
  <2>3. CASE \E u \in pool : u.nonce = run.task[k].nonce /\ u.lines = run.batch[k]
    BY <1>1, <1>4, <2>1, <2>3
  <2>. QED
    BY <2>2, <2>3 DEF IInv, TasksTrue
<1>8. ListedIsMined'
  BY <1>1, <1>4 DEF ListedIsMined, IInv
<1>. QED
  BY <1>1, <1>3, <1>5, <1>6, <1>7, <1>8 DEF IInv

LEMMA StepIInv == IInv /\ [Next]_vars => IInv'
<1>. SUFFICES ASSUME IInv, [Next]_vars PROVE IInv'
  OBVIOUS
<1>1. CASE \E n \in PendingCounts : Start(n)
  BY <1>1, StartIInv
<1>2. CASE SomeApproved
  <2>1. PICK n \in PendingCounts : Approved(n)
    BY <1>2 DEF SomeApproved
  <2>2. n \in Nat
    BY PendingNonce DEF IInv
  <2>3. run' = [pc |-> "distribute", batch |-> run.batch,
                task |-> run.task, next |-> n]
    BY <2>1 DEF Approved, IInv, RunOK
  <2>4. RunOK' /\ Active' = Active
    BY <2>2, <2>3 DEF RunOK, IInv, Active
  <2>. QED
    BY <2>1, <2>3, <2>4 DEF Approved, IInv, LinesOK, NoncesApart, TasksTrue,
                            Carried, ListedIsMined
<1>3. CASE SomeSend
  <2>1. PICK k \in DOMAIN run.task : Send(k) \/ SendFails(k)
    BY <1>3 DEF SomeSend
  <2>2. CASE Send(k)
    BY <2>2, SendIInv
  <2>3. CASE SendFails(k)
    <3>1. NoncesApart'
      BY <2>3 DEF SendFails, IInv, NoncesApart
    <3>. QED
      BY <2>3, <3>1, FailedIInv DEF SendFails
  <2>. QED
    BY <2>1, <2>2, <2>3
<1>4. CASE SomeFault
  <2>1. PICK k \in DOMAIN run.task : SendRefused(k) \/ AnswerLost(k)
    BY <1>4 DEF SomeFault
  <2>2. CASE SendRefused(k)
    <3>1. NoncesApart'
      BY <2>2 DEF SendRefused, IInv, NoncesApart
    <3>. QED
      BY <2>2, <3>1, FailedIInv DEF SendRefused
  <2>3. CASE AnswerLost(k)
    <3>1. run.next \in Nat /\ run.batch[k] \in SUBSET DOMAIN Lines
      BY DEF IInv, RunOK
    <3>2. NoncesApart'
      BY <2>3, <3>1, AddedNonce DEF AnswerLost, Submitted, IInv
    <3>. QED
      BY <2>3, <3>2, FailedIInv DEF AnswerLost, Submitted
  <2>. QED
    BY <2>1, <2>2, <2>3
<1>5. CASE SomeSave
  BY <1>5, SaveIInv DEF SomeSave
<1>6. CASE Finish \/ Kill
  <2>1. RunOK' /\ Active' = {}
    BY <1>6, OffIsOK DEF Finish, Kill
  <2>. QED
    BY <1>6, <2>1 DEF Finish, Kill, IInv, LinesOK, NoncesApart, TasksTrue,
                      ListedIsMined
<1>7. CASE SomeMine
  BY <1>7, MineIInv DEF SomeMine
<1>8. CASE TopUp \/ UNCHANGED vars
  <2>1. UNCHANGED <<paid, reverted, nonce, pool, resumefile, run>>
    BY <1>8 DEF TopUp, vars
  <2>. QED
    BY <2>1 DEF IInv, RunOK, LinesOK, NoncesApart, TasksTrue, Active, Carried,
                ListedIsMined
<1>. QED
  BY <1>1, <1>2, <1>3, <1>4, <1>5, <1>6, <1>7, <1>8 DEF Next

-----------------------------------------------------------------------------
\* saveResumeList (airdrop.ts:126-133, 249): for any recipients and options of
\* the command, and whatever is killed, refused or lost, an address stands in
\* the resume file only if a transaction with a line of it was mined.
THEOREM ResumeFileTrue == Spec => []ListedIsMined
<1>1. IInv => ListedIsMined
  BY DEF IInv
<1>. QED
  BY InitIInv, StepIInv, <1>1, PTL DEF Spec
-----------------------------------------------------------------------------
(* Payments beyond the first *)

\* Transfers to a line that were made, or are in the mempool.
Copies(i) == paid[i] + Cardinality({tx \in pool : i \in tx.lines})

\* No task is to send the line, and no later run will unless this one is
\* killed: it is listed, or a task holds it until it is.
Safe(i) ==
  /\ \A k \in DOMAIN run.task : run.task[k].st = "queued" => i \notin run.batch[k]
  /\ \/ Lines[i].address \in resumefile
     \/ \E k \in Active : i \in run.task[k].unsaved

\* The transfers to a line that are one too many, or will be when it is sent
\* once more.
Debt(i) == IF Safe(i) /\ Copies(i) > 0 THEN Copies(i) - 1 ELSE Copies(i)
Debts == [i \in DOMAIN Lines |-> Debt(i)]

SpentOK == spent = [runs |-> spent.runs, kills |-> spent.kills,
                    refusals |-> spent.refusals, lost |-> spent.lost,
                    topups |-> spent.topups]
           /\ spent.kills \in Nat /\ spent.lost \in Nat

\* A run sends each line in one batch, of at most BatchSize lines.
BatchesApart ==
  \A k \in DOMAIN run.batch :
    /\ Cardinality(run.batch[k]) <= BatchSize
    /\ \A j \in DOMAIN run.batch : j # k => run.batch[j] \cap run.batch[k] = {}

FewActive == IsFiniteSet(Active) /\ Cardinality(Active) <= Concurrency

OffIsIdle == run.pc = "off" => DOMAIN run.task = {}

Allowed == BatchSize * (Concurrency * spent.kills + spent.lost)

DebtBounded == SumFunction(Debts) <= Allowed

BInv == SpentOK /\ BatchesApart /\ FewActive /\ OffIsIdle /\ DebtBounded

-----------------------------------------------------------------------------
\* The file is finite.
LEMMA LinesFinite == IsFiniteSet(DOMAIN Lines) /\ DOMAIN Lines \subseteq Nat
<1>1. DOMAIN Lines = 1 .. Len(Lines) /\ Len(Lines) \in Nat
  BY AirdropAssumption
<1>. QED
  BY <1>1, FS_Interval

\* Copies and debts are counted in natural numbers.
LEMMA CopiesNat ==
    ASSUME LinesOK, NoncesApart, NEW i \in DOMAIN Lines
    PROVE  Copies(i) \in Nat /\ Debt(i) \in Nat
<1>. DEFINE sent == {tx \in pool : i \in tx.lines}
<1>1. sent \in SUBSET pool
  OBVIOUS
<1>. HIDE DEF sent
<1>2. Cardinality(sent) \in Nat
  BY <1>1, FS_Subset, FS_CardinalityType DEF NoncesApart
<1>3. Copies(i) \in Nat
  BY <1>2 DEF Copies, LinesOK, sent
<1>. QED
  BY <1>3 DEF Debt

\* A new transaction is one more transfer to each of its lines.
LEMMA CopiesAdded ==
    ASSUME LinesOK, NoncesApart, NEW i \in DOMAIN Lines,
           NEW tx, ~Taken(tx.nonce), pool' = pool \union {tx}, UNCHANGED paid
    PROVE  Copies(i)' = Copies(i) + (IF i \in tx.lines THEN 1 ELSE 0)
<1>. DEFINE sent == {t \in pool : i \in t.lines}
            sentNext == {t \in pool' : i \in t.lines}
<1>1. tx \notin pool
  BY DEF Taken
<1>2. sent \in SUBSET pool /\ tx \notin sent
  BY <1>1
<1>3. sentNext = IF i \in tx.lines THEN sent \cup {tx} ELSE sent
  OBVIOUS
<1>. HIDE DEF sent, sentNext
<1>4. IsFiniteSet(sent)
  BY <1>2, FS_Subset DEF NoncesApart
<1>5. /\ Cardinality(sent) \in Nat
      /\ Cardinality(sent \cup {tx}) = Cardinality(sent) + 1
  BY <1>2, <1>4, FS_CardinalityType, FS_AddElement
<1>6. Cardinality(sentNext) = Cardinality(sent) + (IF i \in tx.lines THEN 1 ELSE 0)
  BY <1>3, <1>5
<1>7. Copies(i) = paid[i] + Cardinality(sent) /\ Copies(i)' = paid[i] + Cardinality(sentNext)
  BY DEF Copies, sent, sentNext
<1>. QED
  BY <1>5, <1>6, <1>7 DEF LinesOK

\* A mined one is at most a transfer instead of itself.
LEMMA CopiesMined ==
    ASSUME LinesOK, NoncesApart, NEW i \in DOMAIN Lines, NEW tx \in pool, Mine(tx)
    PROVE  Copies(i)' <= Copies(i)
<1>. DEFINE sent == {t \in pool : i \in t.lines}
            sentNext == {t \in pool' : i \in t.lines}
<1>1. pool' = pool \ {tx}
  BY DEF Mine
<1>2. sent \in SUBSET pool /\ sentNext = sent \ {tx}
  BY <1>1
<1>3. i \in tx.lines => tx \in sent
  OBVIOUS
<1>4. paid'[i] = paid[i] \/ (paid'[i] = paid[i] + 1 /\ tx \in sent)
  BY <1>3 DEF Mine
<1>5. /\ Copies(i) = paid[i] + Cardinality(sent)
      /\ Copies(i)' = paid'[i] + Cardinality(sentNext)
  BY DEF Copies
<1>. HIDE DEF sent, sentNext
<1>6. IsFiniteSet(sent)
  BY <1>2, FS_Subset DEF NoncesApart
<1>7. /\ Cardinality(sent) \in Nat
      /\ Cardinality(sentNext) = Cardinality(sent) - (IF tx \in sent THEN 1 ELSE 0)
  BY <1>2, <1>6, FS_CardinalityType, FS_RemoveElement
<1>. QED
  BY <1>4, <1>5, <1>7 DEF LinesOK

\* Where the debts of some lines rise by at most one, their sum rises by at
\* most the number of these lines.
LEMMA DebtsRaised ==
    ASSUME LinesOK, NoncesApart, LinesOK', NoncesApart', NEW B \in SUBSET DOMAIN Lines,
           \A i \in B : Debt(i)' <= Debt(i) + 1,
           \A i \in DOMAIN Lines \ B : Debt(i)' <= Debt(i)
    PROVE  /\ SumFunction(Debts)' <= SumFunction(Debts) + Cardinality(B)
           /\ SumFunction(Debts)' \in Int /\ SumFunction(Debts) \in Int
<1>1. \A i \in DOMAIN Lines : Debt(i) \in Nat
  BY CopiesNat
<1>2. \A i \in DOMAIN Lines : Debt(i)' \in Nat
  <2>. SUFFICES ASSUME NEW i \in DOMAIN Lines PROVE Debt(i)' \in Nat
    OBVIOUS
  <2>1. Cardinality({tx \in pool' : i \in tx.lines}) \in Nat
    BY FS_Subset, FS_CardinalityType DEF NoncesApart
  <2>2. Copies(i)' \in Nat
    BY <2>1 DEF Copies, LinesOK
  <2>. QED
    BY <2>2 DEF Debt
<1>. DEFINE f == Debts
            h == Debts'
<1>3. /\ DOMAIN f = DOMAIN Lines /\ DOMAIN h = DOMAIN Lines
      /\ \A i \in DOMAIN Lines : f[i] = Debt(i) /\ h[i] = Debt(i)'
  BY DEF Debts
<1>. HIDE DEF f, h
<1>4. /\ \A i \in DOMAIN Lines : f[i] \in Int /\ h[i] \in Int
      /\ \A i \in B : h[i] <= f[i] + 1
      /\ \A i \in DOMAIN Lines \ B : h[i] <= f[i]
  BY <1>1, <1>2, <1>3
<1>5. SumFunctionOnSet(h, DOMAIN Lines) <= SumFunctionOnSet(f, DOMAIN Lines) + Cardinality(B)
  BY <1>4, LinesFinite, SumRaisedOnPart
<1>6. SumFunctionOnSet(h, DOMAIN Lines) \in Int /\ SumFunctionOnSet(f, DOMAIN Lines) \in Int
  BY <1>4, LinesFinite, SumIsInt
<1>7. /\ SumFunction(Debts) = SumFunctionOnSet(f, DOMAIN Lines)
      /\ SumFunction(Debts)' = SumFunctionOnSet(h, DOMAIN Lines)
  BY <1>3 DEF SumFunction, f, h
<1>. QED
  BY <1>5, <1>6, <1>7

\* Where none rises, neither does their sum.
LEMMA DebtsNotRaised ==
    ASSUME LinesOK, NoncesApart, LinesOK', NoncesApart', DebtBounded,
           UNCHANGED <<spent.kills, spent.lost>>,
           \A i \in DOMAIN Lines : Debt(i)' <= Debt(i), Allowed \in Int
    PROVE  DebtBounded'
<1>1. Cardinality({}) = 0
  BY FS_EmptySet
<1>2. /\ SumFunction(Debts)' <= SumFunction(Debts) + Cardinality({})
      /\ SumFunction(Debts)' \in Int /\ SumFunction(Debts) \in Int
  BY DebtsRaised
<1>3. Allowed' = Allowed
  BY DEF Allowed
<1>. QED
  BY <1>1, <1>2, <1>3 DEF DebtBounded

\* The debt of a line that has no more copies, and is as safe as before.
LEMMA DebtKept ==
    ASSUME LinesOK, NoncesApart, NEW i \in DOMAIN Lines, Copies(i)' \in Nat,
           Copies(i)' <= Copies(i), Safe(i) => Safe(i)'
    PROVE  Debt(i)' <= Debt(i)
<1>1. Copies(i) \in Nat
  BY CopiesNat
<1>. QED
  BY <1>1 DEF Debt
-----------------------------------------------------------------------------
\* What a task that begins changes of the bound's parts.
LEMMA BeganTask ==
    ASSUME IInv, NEW k \in DOMAIN run.task, run.task[k].st = "queued",
           NEW st \in {"sent", "failed"}, Began(k, st)
    PROVE  /\ DOMAIN run'.task = DOMAIN run.task
           /\ run'.batch = run.batch /\ run'.pc = run.pc
           /\ run'.task[k].st = st /\ run'.task[k].unsaved = run.batch[k]
           /\ \A j \in DOMAIN run.task : j # k => run'.task[j] = run.task[j]
           /\ Active' = IF st = "sent" THEN Active \cup {k} ELSE Active
           /\ k \notin Active
<1>1. /\ run'.batch = run.batch
      /\ run'.task = [run.task EXCEPT ![k] =
           [st |-> st, nonce |-> run.next, unsaved |-> run.batch[k]]]
  BY BeganOK DEF IInv
<1>2. run'.pc = run.pc
  BY DEF Began, IInv, RunOK
<1>3. /\ DOMAIN run'.task = DOMAIN run.task
      /\ run'.task[k] = [st |-> st, nonce |-> run.next, unsaved |-> run.batch[k]]
      /\ \A j \in DOMAIN run.task : j # k => run'.task[j] = run.task[j]
  BY <1>1
<1>4. k \notin Active
  BY DEF Active
<1>5. Active' = IF st = "sent" THEN Active \cup {k} ELSE Active
  <2>. SUFFICES ASSUME NEW j
                PROVE  j \in Active' <=> (j \in Active \/ (st = "sent" /\ j = k))
    OBVIOUS
  <2>1. CASE j = k
    BY <1>3, <1>4, <2>1 DEF Active
  <2>2. CASE j # k
    BY <1>3, <2>2 DEF Active
  <2>. QED
    BY <2>1, <2>2
<1>. QED
  BY <1>1, <1>2, <1>3, <1>4, <1>5

\* The lines of a batch are not safe before it begins, and safe once it is
\* sent; the others stay safe.
LEMMA BeganSafe ==
    ASSUME IInv, BatchesApart, NEW k \in DOMAIN run.task, run.task[k].st = "queued",
           NEW st \in {"sent", "failed"}, Began(k, st), UNCHANGED resumefile,
           NEW i \in DOMAIN Lines
    PROVE  /\ i \in run.batch[k] => ~Safe(i)
           /\ i \in run.batch[k] /\ st = "sent" => Safe(i)'
           /\ i \notin run.batch[k] /\ Safe(i) => Safe(i)'
<1>1. /\ DOMAIN run'.task = DOMAIN run.task
      /\ run'.batch = run.batch
      /\ run'.task[k].st = st /\ run'.task[k].unsaved = run.batch[k]
      /\ \A j \in DOMAIN run.task : j # k => run'.task[j] = run.task[j]
      /\ Active' = IF st = "sent" THEN Active \cup {k} ELSE Active
      /\ k \notin Active
  BY BeganTask
<1>2. i \in run.batch[k] => ~Safe(i)
  BY DEF Safe
<1>3. ASSUME i \in run.batch[k], st = "sent" PROVE Safe(i)'
  <2>1. DOMAIN run.task = DOMAIN run.batch
    BY DEF IInv, RunOK
  <2>2. \A j \in DOMAIN run.task : j # k => i \notin run.batch[j]
    BY <1>3, <2>1 DEF BatchesApart
  <2>3. \A j \in DOMAIN run'.task : run'.task[j].st = "queued" => i \notin run'.batch[j]
    BY <1>1, <1>3, <2>2
  <2>4. k \in Active' /\ i \in run'.task[k].unsaved
    BY <1>1, <1>3
  <2>. QED
    BY <2>3, <2>4 DEF Safe
<1>4. ASSUME i \notin run.batch[k], Safe(i) PROVE Safe(i)'
  <2>1. \A j \in DOMAIN run'.task : run'.task[j].st = "queued" => i \notin run'.batch[j]
    BY <1>1, <1>4 DEF Safe
  <2>2. CASE Lines[i].address \in resumefile
    BY <2>1, <2>2 DEF Safe
  <2>3. CASE \E j \in Active : i \in run.task[j].unsaved
    <3>1. PICK j \in Active : i \in run.task[j].unsaved
      BY <2>3
    <3>2. j \in Active' /\ i \in run'.task[j].unsaved
      BY <1>1, <3>1 DEF Active
    <3>. QED
      BY <2>1, <3>2 DEF Safe
  <2>. QED
    BY <1>4, <2>2, <2>3 DEF Safe
<1>. QED
  BY <1>2, <1>3, <1>4

-----------------------------------------------------------------------------
(* createBatches *)

\* Lines of a set have places of their own in it.
LEMMA PlacesDiffer ==
    ASSUME NEW lines \in SUBSET DOMAIN Lines,
           NEW i \in lines, NEW j \in lines, i < j
    PROVE  Place(i, lines) < Place(j, lines) /\ Place(i, lines) \in Nat
           /\ Place(j, lines) \in Nat
<1>. DEFINE before(m) == {l \in lines : l <= m}
<1>1. IsFiniteSet(lines)
  BY LinesFinite, FS_Subset
<1>2. IsFiniteSet(before(i)) /\ IsFiniteSet(before(j))
  BY <1>1, FS_Subset
<1>3. lines \subseteq Nat
  BY LinesFinite
<1>4. before(i) \subseteq before(j) /\ j \in before(j) /\ j \notin before(i)
  BY <1>3
<1>5. Place(i, lines) = Cardinality(before(i)) /\ Place(j, lines) = Cardinality(before(j))
  BY DEF Place
<1>. HIDE DEF before
<1>6. /\ Cardinality(before(i)) \in Nat /\ Cardinality(before(j)) \in Nat
      /\ Cardinality(before(i)) <= Cardinality(before(j))
      /\ Cardinality(before(i)) # Cardinality(before(j))
  BY <1>2, <1>4, FS_CardinalityType, FS_Subset
<1>. QED
  BY <1>5, <1>6

\* Each batch has at most BatchSize lines, and no line is in two of them.
LEMMA BatchesAreSlices ==
    ASSUME NEW lines \in SUBSET DOMAIN Lines
    PROVE  \A k \in DOMAIN Batches(lines) :
             /\ Batches(lines)[k] \in SUBSET lines
             /\ Cardinality(Batches(lines)[k]) <= BatchSize
             /\ \A j \in DOMAIN Batches(lines) :
                  j # k => Batches(lines)[j] \cap Batches(lines)[k] = {}
<1>. DEFINE slice(k) == (k - 1) * BatchSize + 1 .. k * BatchSize
            batch(k) == {i \in lines : Place(i, lines) \in slice(k)}
            count == (Cardinality(lines) + BatchSize - 1) \div BatchSize
<1>1. BatchSize \in Nat \ {0} /\ lines \subseteq Nat /\ IsFiniteSet(lines)
  BY AirdropAssumption, LinesFinite, FS_Subset
<1>2. Cardinality(lines) \in Nat
  BY <1>1, FS_CardinalityType
<1>3. count \in Int
  BY <1>1, <1>2
<1>4. Batches(lines) = [k \in 1 .. count |-> batch(k)]
  BY DEF Batches
<1>. HIDE DEF count
<1>5. ASSUME NEW k \in 1 .. count
      PROVE  Cardinality(batch(k)) <= BatchSize
  <2>1. k \in Int /\ (k - 1) * BatchSize \in Int /\ k * BatchSize = (k - 1) * BatchSize + BatchSize
    BY <1>1, <1>3
  <2>2. IsFiniteSet(slice(k)) /\ Cardinality(slice(k)) = BatchSize
    <3>. DEFINE lo == (k - 1) * BatchSize
    <3>1. lo \in Int /\ slice(k) = lo + 1 .. lo + BatchSize
      BY <2>1
    <3>. HIDE DEF lo, slice
    <3>2. /\ IsFiniteSet(lo + 1 .. lo + BatchSize)
          /\ Cardinality(lo + 1 .. lo + BatchSize) = BatchSize
      BY <1>1, <3>1, FS_Interval
    <3>. QED
      BY <3>1, <3>2
  <2>. DEFINE place == [i \in batch(k) |-> Place(i, lines)]
  <2>3. ASSUME NEW i \in batch(k), NEW j \in batch(k), place[i] = place[j]
        PROVE  i = j
    <3>1. i \in lines /\ j \in lines /\ Place(i, lines) = Place(j, lines) /\ i \in Nat /\ j \in Nat
      BY <1>1, <2>3
    <3>2. ~(i < j) /\ ~(j < i)
      BY <3>1, PlacesDiffer
    <3>. QED
      BY <3>1, <3>2
  <2>4. place \in [batch(k) -> slice(k)]
    OBVIOUS
  <2>. HIDE DEF slice, batch, place
  <2>5. place \in Injection(batch(k), slice(k))
    BY <2>3, <2>4 DEF Injection, IsInjective
  <2>. QED
    BY <2>2, <2>5, FS_Injection
<1>6. ASSUME NEW k \in 1 .. count, NEW j \in 1 .. count, j < k
      PROVE  batch(j) \cap batch(k) = {}
  <2>1. j * BatchSize <= (k - 1) * BatchSize
    <3>1. j <= k - 1 /\ j \in Int /\ k \in Int
      BY <1>3, <1>6
    <3>. QED
      BY <1>1, <3>1
  <2>2. j \in Int /\ k \in Int /\ j * BatchSize \in Int /\ (k - 1) * BatchSize \in Int
    BY <1>1, <1>3
  <2>. QED
    BY <2>1, <2>2
<1>7. ASSUME NEW k \in 1 .. count, NEW j \in 1 .. count, j # k
      PROVE  batch(j) \cap batch(k) = {}
  <2>1. j < k \/ k < j
    BY <1>3, <1>7
  <2>2. CASE j < k
    BY <1>6, <2>2
  <2>3. CASE k < j
    BY <1>6, <2>3
  <2>. QED
    BY <2>1, <2>2, <2>3
<1>8. \A k \in 1 .. count : batch(k) \in SUBSET lines
  OBVIOUS
<1>. HIDE DEF batch
<1>. QED
  BY <1>4, <1>5, <1>7, <1>8
-----------------------------------------------------------------------------
(* The steps *)

\* The counters that the bound is made of.
LEMMA SpentSteps ==
    ASSUME SpentOK
    PROVE  /\ Allowed \in Int
           /\ \/ UNCHANGED spent
              \/ spent' = [spent EXCEPT !.runs = @ + 1]
              \/ spent' = [spent EXCEPT !.refusals = @ + 1]
              \/ spent' = [spent EXCEPT !.topups = @ + 1]
              => SpentOK' /\ UNCHANGED <<spent.kills, spent.lost>>
           /\ spent' = [spent EXCEPT !.kills = @ + 1]
              => SpentOK' /\ Allowed' = Allowed + BatchSize * Concurrency
           /\ spent' = [spent EXCEPT !.lost = @ + 1]
              => SpentOK' /\ Allowed' = Allowed + BatchSize
<1>. DEFINE kills == spent.kills
            lost == spent.lost
            Bound(a, b) == BatchSize * (Concurrency * a + b)
<1>1. kills \in Nat /\ lost \in Nat /\ BatchSize \in Nat /\ Concurrency \in Nat
  BY AirdropAssumption DEF SpentOK
<1>2. spent = [runs |-> spent.runs, kills |-> kills, refusals |-> spent.refusals,
               lost |-> lost, topups |-> spent.topups]
  BY DEF SpentOK
<1>3. Allowed = Bound(kills, lost) /\ Allowed' = Bound(spent'.kills, spent'.lost)
  BY DEF Allowed
<1>4. /\ Bound(kills, lost) \in Int
      /\ Bound(kills + 1, lost) = Bound(kills, lost) + BatchSize * Concurrency
      /\ Bound(kills, lost + 1) = Bound(kills, lost) + BatchSize
  <2>1. Concurrency * kills \in Int /\ Concurrency * (kills + 1) = Concurrency * kills + Concurrency
    BY <1>1
  <2>. DEFINE c == Concurrency * kills
  <2>2. c \in Int /\ Concurrency * (kills + 1) = c + Concurrency
    BY <2>1
  <2>. HIDE DEF kills, lost, c
  <2>3. /\ BatchSize * (c + lost) \in Int
        /\ BatchSize * ((c + Concurrency) + lost) = BatchSize * (c + lost) + BatchSize * Concurrency
        /\ BatchSize * (c + (lost + 1)) = BatchSize * (c + lost) + BatchSize
    BY <1>1, <2>2
  <2>. QED
    BY <2>2, <2>3 DEF c
<1>. HIDE DEF kills, lost, Bound
<1>5. spent' = [spent EXCEPT !.kills = @ + 1]
      => SpentOK' /\ spent'.kills = kills + 1 /\ spent'.lost = lost
  BY <1>1, <1>2 DEF SpentOK
<1>6. spent' = [spent EXCEPT !.lost = @ + 1]
      => SpentOK' /\ spent'.kills = kills /\ spent'.lost = lost + 1
  BY <1>1, <1>2 DEF SpentOK
<1>7. \/ UNCHANGED spent
      \/ spent' = [spent EXCEPT !.runs = @ + 1]
      \/ spent' = [spent EXCEPT !.refusals = @ + 1]
      \/ spent' = [spent EXCEPT !.topups = @ + 1]
      => SpentOK' /\ UNCHANGED <<spent.kills, spent.lost>>
  BY <1>1, <1>2 DEF SpentOK
<1>. QED
  BY <1>3, <1>4, <1>5, <1>6, <1>7

LEMMA InitBInv == Init => BInv
<1>. SUFFICES ASSUME Init PROVE BInv
  OBVIOUS
<1>1. SpentOK
  BY DEF Init, SpentOK
<1>2. DOMAIN run.task = {} /\ DOMAIN run.batch = {} /\ Active = {}
  BY DEF Init, Off, Active
<1>3. BatchesApart /\ OffIsIdle
  BY <1>2 DEF BatchesApart, OffIsIdle
<1>4. FewActive
  BY <1>2, FS_EmptySet, AirdropAssumption DEF FewActive
<1>5. \A i \in DOMAIN Lines : Debt(i) = 0
  <2>. SUFFICES ASSUME NEW i \in DOMAIN Lines PROVE Debt(i) = 0
    OBVIOUS
  <2>1. {tx \in pool : i \in tx.lines} = {} /\ paid[i] = 0
    BY DEF Init
  <2>2. Copies(i) = 0
    BY <2>1, FS_EmptySet DEF Copies
  <2>. QED
    BY <2>2 DEF Debt
<1>6. SumFunction(Debts) = 0
  <2>. DEFINE f == Debts
  <2>1. DOMAIN f = DOMAIN Lines /\ \A i \in DOMAIN Lines : f[i] = 0
    BY <1>5 DEF Debts
  <2>. HIDE DEF f
  <2>2. SumFunctionOnSet(f, DOMAIN Lines) = 0
    BY <2>1, LinesFinite, SumOfZeros
  <2>. QED
    BY <2>1, <2>2 DEF SumFunction, f
<1>7. 0 <= Allowed
  <2>1. spent.kills = 0 /\ spent.lost = 0
    BY DEF Init
  <2>. QED
    BY <2>1, AirdropAssumption DEF Allowed
<1>. QED
  BY <1>1, <1>3, <1>4, <1>6, <1>7 DEF BInv, DebtBounded

\* A step under which no line has more copies and every safe line stays safe.
LEMMA QuietStep ==
    ASSUME IInv, IInv', BInv, UNCHANGED <<spent.kills, spent.lost>>,
           \A i \in DOMAIN Lines :
             /\ Copies(i)' \in Nat => Copies(i)' <= Copies(i)
             /\ Safe(i) => Safe(i)'
    PROVE  DebtBounded'
<1>1. Allowed \in Int
  BY SpentSteps DEF BInv
<1>2. \A i \in DOMAIN Lines : Copies(i)' \in Nat
  <2>. SUFFICES ASSUME NEW i \in DOMAIN Lines PROVE Copies(i)' \in Nat
    OBVIOUS
  <2>1. Cardinality({tx \in pool' : i \in tx.lines}) \in Nat
    BY FS_Subset, FS_CardinalityType DEF IInv, NoncesApart
  <2>. QED
    BY <2>1 DEF Copies, IInv, LinesOK
<1>3. \A i \in DOMAIN Lines : Debt(i)' <= Debt(i)
  BY <1>2, DebtKept DEF IInv
<1>. QED
  BY <1>1, <1>3, DebtsNotRaised DEF IInv, BInv

LEMMA StartBInv ==
    ASSUME IInv, IInv', BInv, NEW n \in PendingCounts, Start(n)
    PROVE  BInv'
<1>. DEFINE batches == Batches(Unpaid)
            total == Amount(Unpaid)
            approval == [nonce |-> n, lines |-> {}, approves |-> total]
<1>1. SpentOK' /\ UNCHANGED <<spent.kills, spent.lost>>
  BY SpentSteps DEF Start, BInv
<1>2. PICK pc \in {"distribute", "approve"} :
        run' = [pc |-> pc, batch |-> batches,
                task |-> [k \in DOMAIN batches |-> Queued], next |-> n]
  BY DEF Start
<1>3. /\ \A k \in DOMAIN batches :
           /\ batches[k] \in SUBSET Unpaid
           /\ Cardinality(batches[k]) <= BatchSize
           /\ \A j \in DOMAIN batches : j # k => batches[j] \cap batches[k] = {}
  BY BatchesAreSlices DEF Unpaid
<1>4. UNCHANGED pool \/ pool' = pool \union {approval}
  BY DEF Start
<1>5. DOMAIN run.task = {}
  BY DEF Start, BInv, OffIsIdle
<1>6. ~Taken(n)
  BY PendingNonce DEF IInv
<1>7. UNCHANGED <<paid, resumefile>>
  BY DEF Start
<1>. HIDE DEF batches
<1>8. BatchesApart' /\ OffIsIdle'
  BY <1>2, <1>3 DEF BatchesApart, OffIsIdle
<1>9. Active' = {}
  BY <1>2 DEF Active, Queued
<1>10. FewActive'
  BY <1>9, FS_EmptySet, AirdropAssumption DEF FewActive
<1>11. ASSUME NEW i \in DOMAIN Lines, Safe(i) PROVE Safe(i)'
  <2>1. Lines[i].address \in resumefile
    BY <1>5, <1>11 DEF Safe, Active
  <2>2. \A k \in DOMAIN batches : i \notin batches[k]
    BY <1>3, <2>1 DEF Unpaid
  <2>. QED
    BY <1>2, <1>7, <2>1, <2>2 DEF Safe
<1>12. ASSUME NEW i \in DOMAIN Lines PROVE Copies(i)' = Copies(i)
  <2>1. CASE UNCHANGED pool
    BY <1>7, <2>1 DEF Copies
  <2>2. CASE pool' = pool \union {approval}
    <3>1. approval.nonce = n /\ approval.lines = {}
      OBVIOUS
    <3>. HIDE DEF approval
    <3>2. Copies(i)' = Copies(i) + (IF i \in approval.lines THEN 1 ELSE 0)
      BY <1>6, <1>7, <2>2, <3>1, CopiesAdded DEF IInv
    <3>3. Copies(i) \in Nat
      BY CopiesNat DEF IInv
    <3>. QED
      BY <3>1, <3>2, <3>3
  <2>. QED
    BY <1>4, <2>1, <2>2
<1>13. \A i \in DOMAIN Lines : Copies(i) \in Nat
  BY CopiesNat DEF IInv
<1>14. \A i \in DOMAIN Lines : Copies(i)' <= Copies(i)
  BY <1>12, <1>13
<1>15. DebtBounded'
  BY <1>1, <1>11, <1>14, QuietStep
<1>. QED
  BY <1>1, <1>8, <1>10, <1>15 DEF BInv
\* A task that begins leaves the batches, and is one active task more if its
\* transaction is sent.
LEMMA BeganParts ==
    ASSUME IInv, BInv, NEW k \in DOMAIN run.task, MayStart(k),
           NEW st \in {"sent", "failed"}, Began(k, st)
    PROVE  BatchesApart' /\ FewActive' /\ OffIsIdle'
<1>1. /\ DOMAIN run'.task = DOMAIN run.task
      /\ run'.batch = run.batch /\ run'.pc = run.pc
      /\ Active' = IF st = "sent" THEN Active \cup {k} ELSE Active
      /\ k \notin Active
  BY BeganTask DEF MayStart
<1>2. BatchesApart' /\ OffIsIdle'
  BY <1>1 DEF BInv, BatchesApart, OffIsIdle
<1>3. IsFiniteSet(Active) /\ Cardinality(Active) < Concurrency
  BY DEF MayStart, BInv, FewActive
<1>4. Cardinality(Active) \in Nat /\ Concurrency \in Nat
  BY <1>3, FS_CardinalityType, AirdropAssumption
<1>5. /\ IsFiniteSet(Active \cup {k})
      /\ Cardinality(Active \cup {k}) = Cardinality(Active) + 1
  BY <1>1, <1>3, FS_AddElement
<1>6. FewActive'
  <2>1. CASE st = "sent"
    <3>1. Active' = Active \cup {k}
      BY <1>1, <2>1
    <3>. QED
      BY <1>3, <1>4, <1>5, <3>1 DEF FewActive
  <2>2. CASE st # "sent"
    BY <1>1, <1>3, <1>4, <2>2 DEF FewActive
  <2>. QED
    BY <2>1, <2>2
<1>. QED
  BY <1>2, <1>6

\* A batch that is sent is one transfer more to each of its lines, which are
\* safe from then on.
LEMMA SendBInv ==
    ASSUME IInv, IInv', BInv, NEW k \in DOMAIN run.task, Send(k)
    PROVE  BInv'
<1>. DEFINE tx == [nonce |-> run.next, lines |-> run.batch[k], approves |-> 0]
<1>1. /\ MayStart(k) /\ run.task[k].st = "queued" /\ Began(k, "sent")
      /\ UNCHANGED <<paid, resumefile, spent>>
      /\ ~Taken(run.next) /\ pool' = pool \union {tx}
  BY DEF Send, MayStart, Submitted
<1>2. SpentOK' /\ UNCHANGED <<spent.kills, spent.lost>>
  BY <1>1, SpentSteps DEF BInv
<1>3. BatchesApart' /\ FewActive' /\ OffIsIdle'
  BY <1>1, BeganParts
<1>4. tx.nonce = run.next /\ tx.lines = run.batch[k]
  OBVIOUS
<1>. HIDE DEF tx
<1>5. ASSUME NEW i \in DOMAIN Lines PROVE Debt(i)' <= Debt(i)
  <2>1. Copies(i)' = Copies(i) + (IF i \in run.batch[k] THEN 1 ELSE 0)
    BY <1>1, <1>4, CopiesAdded DEF IInv
  <2>2. Copies(i) \in Nat
    BY CopiesNat DEF IInv
  <2>3. /\ i \in run.batch[k] => ~Safe(i) /\ Safe(i)'
        /\ i \notin run.batch[k] /\ Safe(i) => Safe(i)'
    BY <1>1, BeganSafe DEF BInv
  <2>4. CASE i \in run.batch[k]
    BY <2>1, <2>2, <2>3, <2>4 DEF Debt
  <2>5. CASE i \notin run.batch[k]
    BY <2>1, <2>2, <2>3, <2>5 DEF Debt
  <2>. QED
    BY <2>4, <2>5
<1>6. DebtBounded'
  BY <1>2, <1>5, DebtsNotRaised, SpentSteps DEF IInv, BInv
<1>. QED
  BY <1>2, <1>3, <1>6 DEF BInv

\* One that is not sent is no transfer.
LEMMA NotSentBInv ==
    ASSUME IInv, IInv', BInv, NEW k \in DOMAIN run.task, MayStart(k),
           Began(k, "failed"), UNCHANGED <<paid, pool, resumefile>>,
           SpentOK', UNCHANGED <<spent.kills, spent.lost>>
    PROVE  BInv'
<1>1. BatchesApart' /\ FewActive' /\ OffIsIdle'
  BY BeganParts
<1>2. \A i \in DOMAIN Lines : Copies(i)' <= Copies(i)
  <2>1. \A i \in DOMAIN Lines : Copies(i) \in Nat /\ Copies(i)' = Copies(i)
    BY CopiesNat DEF IInv, Copies
  <2>. QED
    BY <2>1
<1>3. \A i \in DOMAIN Lines : Safe(i) => Safe(i)'
  BY BeganSafe DEF BInv, MayStart
<1>4. DebtBounded'
  BY <1>2, <1>3, QuietStep
<1>. QED
  BY <1>1, <1>4 DEF BInv

\* One whose answer is lost is a transfer that a later run may repeat: each
\* line of the batch owes one more.
LEMMA LostBInv ==
    ASSUME IInv, IInv', BInv, NEW k \in DOMAIN run.task, AnswerLost(k)
    PROVE  BInv'
<1>. DEFINE tx == [nonce |-> run.next, lines |-> run.batch[k], approves |-> 0]
            batch == run.batch[k]
<1>1. /\ MayStart(k) /\ run.task[k].st = "queued" /\ Began(k, "failed")
      /\ UNCHANGED <<paid, resumefile>>
      /\ spent' = [spent EXCEPT !.lost = @ + 1]
      /\ ~Taken(run.next) /\ pool' = pool \union {tx}
  BY DEF AnswerLost, MayStart, Submitted
<1>2. SpentOK' /\ Allowed' = Allowed + BatchSize /\ Allowed \in Int
  BY <1>1, SpentSteps DEF BInv
<1>3. BatchesApart' /\ FewActive' /\ OffIsIdle'
  BY <1>1, BeganParts
<1>4. tx.nonce = run.next /\ tx.lines = batch
  OBVIOUS
<1>5. batch \in SUBSET DOMAIN Lines /\ Cardinality(batch) <= BatchSize
  BY DEF IInv, RunOK, BInv, BatchesApart
<1>. HIDE DEF tx, batch
<1>6. ASSUME NEW i \in DOMAIN Lines
      PROVE  Debt(i)' <= Debt(i) + (IF i \in batch THEN 1 ELSE 0)
  <2>1. Copies(i)' = Copies(i) + (IF i \in batch THEN 1 ELSE 0)
    BY <1>1, <1>4, CopiesAdded DEF IInv
  <2>2. Copies(i) \in Nat
    BY CopiesNat DEF IInv
  <2>3. /\ i \in batch => ~Safe(i)
        /\ i \notin batch /\ Safe(i) => Safe(i)'
    BY <1>1, BeganSafe DEF BInv, batch
  <2>4. CASE i \in batch
    BY <2>1, <2>2, <2>3, <2>4 DEF Debt
  <2>5. CASE i \notin batch
    BY <2>1, <2>2, <2>3, <2>5 DEF Debt
  <2>. QED
    BY <2>4, <2>5
<1>7. \A i \in DOMAIN Lines : Debt(i) \in Nat
  BY CopiesNat DEF IInv
<1>8. /\ \A i \in batch : Debt(i)' <= Debt(i) + 1
      /\ \A i \in DOMAIN Lines \ batch : Debt(i)' <= Debt(i)
  <2>1. ASSUME NEW i \in batch PROVE Debt(i)' <= Debt(i) + 1
    BY <1>5, <1>6
  <2>2. ASSUME NEW i \in DOMAIN Lines \ batch PROVE Debt(i)' <= Debt(i)
    <3>1. Debt(i)' <= Debt(i) + 0 /\ Debt(i) \in Nat
      BY <1>6, <1>7
    <3>. QED
      BY <3>1
  <2>. QED
    BY <2>1, <2>2
<1>9. /\ SumFunction(Debts)' <= SumFunction(Debts) + Cardinality(batch)
      /\ SumFunction(Debts)' \in Int /\ SumFunction(Debts) \in Int
  BY <1>5, <1>8, DebtsRaised DEF IInv
<1>10. Cardinality(batch) \in Nat /\ BatchSize \in Nat
  BY <1>5, LinesFinite, FS_Subset, FS_CardinalityType, AirdropAssumption
<1>11. DebtBounded'
  BY <1>2, <1>5, <1>9, <1>10 DEF DebtBounded, BInv
<1>. QED
  BY <1>2, <1>3, <1>11 DEF BInv

\* A line that a task has saved is listed.
LEMMA SaveBInv ==
    ASSUME IInv, IInv', BInv, NEW k \in DOMAIN run.task, Save(k)
    PROVE  BInv'
<1>1. PICK i \in run.task[k].unsaved, st \in {"done", "saving"} :
        /\ resumefile' = resumefile \union {Lines[i].address}
        /\ st = "done" <=> run.task[k].unsaved \ {i} = {}
        /\ run' = [run EXCEPT !.task[k] =
                     [st |-> st, nonce |-> run.task[k].nonce,
                      unsaved |-> run.task[k].unsaved \ {i}]]
        /\ UNCHANGED <<paid, pool, spent>>
  BY DEF Save, Saved
<1>. DEFINE t == [st |-> st, nonce |-> run.task[k].nonce,
                  unsaved |-> run.task[k].unsaved \ {i}]
<1>2. t.st = st /\ t.unsaved = run.task[k].unsaved \ {i}
  OBVIOUS
<1>. HIDE DEF t
<1>3. run' = [pc |-> run.pc, batch |-> run.batch,
              task |-> [run.task EXCEPT ![k] = t], next |-> run.next]
  BY <1>1 DEF IInv, RunOK, t
<1>4. /\ run'.batch = run.batch /\ run'.pc = run.pc
      /\ DOMAIN run'.task = DOMAIN run.task
      /\ run'.task[k] = t
      /\ \A j \in DOMAIN run.task : j # k => run'.task[j] = run.task[j]
  BY <1>3
<1>5. k \in Active
  BY DEF Save
<1>6. Active' \subseteq Active
  <2>. SUFFICES ASSUME NEW j \in Active' PROVE j \in Active
    OBVIOUS
  <2>1. j = k \/ j # k
    OBVIOUS
  <2>. QED
    BY <1>4, <1>5, <2>1 DEF Active
<1>7. \A j \in DOMAIN run'.task : run'.task[j].st = "queued"
        => j # k /\ run.task[j].st = "queued"
  BY <1>1, <1>2, <1>4
<1>8. BatchesApart' /\ OffIsIdle'
  BY <1>4 DEF BInv, BatchesApart, OffIsIdle
<1>9. FewActive'
  <2>1. IsFiniteSet(Active) /\ Cardinality(Active) \in Nat /\ Concurrency \in Nat
    BY FS_CardinalityType, AirdropAssumption DEF BInv, FewActive
  <2>2. IsFiniteSet(Active') /\ Cardinality(Active') <= Cardinality(Active)
    BY <1>6, <2>1, FS_Subset
  <2>3. Cardinality(Active') \in Nat
    BY <2>2, FS_CardinalityType
  <2>. QED
    BY <2>1, <2>2, <2>3 DEF BInv, FewActive
<1>10. ASSUME NEW l \in DOMAIN Lines, Safe(l) PROVE Safe(l)'
  <2>1. \A j \in DOMAIN run'.task : run'.task[j].st = "queued" => l \notin run'.batch[j]
    BY <1>4, <1>7, <1>10 DEF Safe
  <2>2. CASE Lines[l].address \in resumefile \/ l = i
    BY <1>1, <2>1, <2>2 DEF Safe
  <2>3. CASE l # i /\ \E j \in Active : l \in run.task[j].unsaved
    <3>1. PICK j \in Active : l \in run.task[j].unsaved
      BY <2>3
    <3>2. CASE j = k
      <4>1. l \in t.unsaved /\ st = "saving"
        BY <1>1, <1>2, <2>3, <3>1, <3>2
      <4>2. k \in Active' /\ l \in run'.task[k].unsaved
        BY <1>2, <1>4, <4>1 DEF Active
      <4>. QED
        BY <2>1, <4>2 DEF Safe
    <3>3. CASE j # k
      <4>1. j \in Active' /\ l \in run'.task[j].unsaved
        BY <1>4, <3>1, <3>3 DEF Active
      <4>. QED
        BY <2>1, <4>1 DEF Safe
    <3>. QED
      BY <3>2, <3>3
  <2>. QED
    BY <1>10, <2>2, <2>3 DEF Safe
<1>11. \A l \in DOMAIN Lines : Copies(l)' <= Copies(l)
  <2>1. \A l \in DOMAIN Lines : Copies(l) \in Nat /\ Copies(l)' = Copies(l)
    BY <1>1, CopiesNat DEF IInv, Copies
  <2>. QED
    BY <2>1
<1>12. SpentOK' /\ UNCHANGED <<spent.kills, spent.lost>>
  BY <1>1, SpentSteps DEF BInv
<1>13. DebtBounded'
  BY <1>10, <1>11, <1>12, QuietStep
<1>. QED
  BY <1>8, <1>9, <1>12, <1>13 DEF BInv
\* Without a process there is no batch and no task.
LEMMA OffParts ==
    ASSUME run' = Off
    PROVE  /\ BatchesApart' /\ FewActive' /\ OffIsIdle'
           /\ \A i \in DOMAIN Lines :
                Lines[i].address \in resumefile' => Safe(i)'
<1>1. DOMAIN run'.task = {} /\ DOMAIN run'.batch = {} /\ Active' = {}
  BY DEF Off, Active
<1>. QED
  BY <1>1, FS_EmptySet, AirdropAssumption
  DEF BatchesApart, FewActive, OffIsIdle, Safe

\* At the end of a run that is not killed, every safe line is listed.
LEMMA FinishBInv == ASSUME IInv, IInv', BInv, Finish PROVE BInv'
<1>1. UNCHANGED <<paid, pool, resumefile, spent>> /\ run' = Off
  BY DEF Finish
<1>2. SpentOK' /\ UNCHANGED <<spent.kills, spent.lost>>
  BY <1>1, SpentSteps DEF BInv
<1>3. Active = {}
  BY DEF Finish, Idle, Settled, Active
<1>4. \A i \in DOMAIN Lines : Safe(i) => Safe(i)'
  BY <1>1, <1>3, OffParts DEF Safe
<1>5. \A i \in DOMAIN Lines : Copies(i)' <= Copies(i)
  <2>1. \A i \in DOMAIN Lines : Copies(i) \in Nat /\ Copies(i)' = Copies(i)
    BY <1>1, CopiesNat DEF IInv, Copies
  <2>. QED
    BY <2>1
<1>6. DebtBounded'
  BY <1>2, <1>4, <1>5, QuietStep
<1>. QED
  BY <1>1, <1>2, <1>6, OffParts DEF BInv

\* A run that is killed leaves the lines that its active tasks had to save.
LEMMA KillBInv == ASSUME IInv, IInv', BInv, Kill PROVE BInv'
<1>. DEFINE held == [k \in Active |-> run.task[k].unsaved]
            left == UNION {held[k] : k \in Active}
<1>1. /\ UNCHANGED <<paid, pool, resumefile>> /\ run' = Off
      /\ spent' = [spent EXCEPT !.kills = @ + 1]
  BY DEF Kill
<1>2. SpentOK' /\ Allowed' = Allowed + BatchSize * Concurrency /\ Allowed \in Int
  BY <1>1, SpentSteps DEF BInv
<1>3. /\ IsFiniteSet(Active) /\ Cardinality(Active) \in Nat
      /\ Cardinality(Active) <= Concurrency
  BY FS_CardinalityType DEF BInv, FewActive
<1>4. BatchSize \in Nat /\ Concurrency \in Nat
  BY AirdropAssumption
<1>5. ASSUME NEW k \in Active
      PROVE  /\ held[k] \in SUBSET DOMAIN Lines /\ IsFiniteSet(held[k])
             /\ Cardinality(held[k]) <= BatchSize
  <2>1. /\ held[k] \in SUBSET run.batch[k] /\ run.batch[k] \in SUBSET DOMAIN Lines
        /\ Cardinality(run.batch[k]) <= BatchSize
    BY DEF IInv, TasksTrue, RunOK, Active, BInv, BatchesApart
  <2>. HIDE DEF held
  <2>2. IsFiniteSet(run.batch[k])
    BY <2>1, LinesFinite, FS_Subset
  <2>3. IsFiniteSet(held[k]) /\ Cardinality(held[k]) <= Cardinality(run.batch[k])
    BY <2>1, <2>2, FS_Subset
  <2>4. Cardinality(held[k]) \in Nat /\ Cardinality(run.batch[k]) \in Nat
    BY <2>2, <2>3, FS_CardinalityType
  <2>. QED
    BY <1>4, <2>1, <2>3, <2>4
<1>6. left \in SUBSET DOMAIN Lines
  BY <1>5
<1>7. Cardinality(left) <= BatchSize * Cardinality(Active)
  <2>. HIDE DEF held
  <2>. QED
    BY <1>3, <1>4, <1>5, UnionBound
<1>8. ASSUME NEW i \in DOMAIN Lines \ left, Safe(i) PROVE Safe(i)'
  <2>1. Lines[i].address \in resumefile
    BY <1>8 DEF Safe
  <2>. QED
    BY <1>1, <2>1, OffParts
<1>. HIDE DEF held, left
<1>9. \A i \in DOMAIN Lines : Copies(i) \in Nat /\ Copies(i)' = Copies(i)
  BY <1>1, CopiesNat DEF IInv, Copies
<1>10. \A i \in DOMAIN Lines \ left : Debt(i)' <= Debt(i)
  BY <1>8, <1>9, DebtKept DEF IInv
<1>11. \A i \in left : Debt(i)' <= Debt(i) + 1
  BY <1>6, <1>9 DEF Debt
<1>12. /\ SumFunction(Debts)' <= SumFunction(Debts) + Cardinality(left)
       /\ SumFunction(Debts)' \in Int /\ SumFunction(Debts) \in Int
  BY <1>6, <1>10, <1>11, DebtsRaised DEF IInv
<1>13. Cardinality(left) \in Nat
  BY <1>6, LinesFinite, FS_Subset, FS_CardinalityType
<1>14. Cardinality(left) <= BatchSize * Concurrency
  <2>1. BatchSize * Cardinality(Active) <= BatchSize * Concurrency
    BY <1>3, <1>4
  <2>. QED
    BY <1>3, <1>4, <1>7, <1>13, <2>1
<1>15. BatchSize * Concurrency \in Int
  BY <1>4
<1>16. DebtBounded'
  BY <1>2, <1>12, <1>13, <1>14, <1>15 DEF DebtBounded, BInv
<1>. QED
  BY <1>1, <1>2, <1>16, OffParts DEF BInv

\* A step that changes nothing the bound's parts speak of but the mempool and
\* what is paid.
LEMMA RunKept ==
    ASSUME IInv, IInv', BInv, run'.task = run.task, run'.batch = run.batch,
           run'.pc = "off" => run.pc = "off", UNCHANGED resumefile,
           SpentOK', UNCHANGED <<spent.kills, spent.lost>>,
           \A i \in DOMAIN Lines : Copies(i)' <= Copies(i)
    PROVE  BInv'
<1>1. Active' = Active
  BY DEF Active
<1>2. BatchesApart' /\ FewActive' /\ OffIsIdle'
  BY <1>1 DEF BInv, BatchesApart, FewActive, OffIsIdle
<1>3. \A i \in DOMAIN Lines : Safe(i) => Safe(i)'
  BY <1>1 DEF Safe
<1>4. DebtBounded'
  BY <1>3, QuietStep
<1>. QED
  BY <1>2, <1>4 DEF BInv

LEMMA StepBInv == IInv /\ BInv /\ [Next]_vars => BInv'
<1>. SUFFICES ASSUME IInv, BInv, [Next]_vars PROVE BInv'
  OBVIOUS
<1>i. IInv'
  BY StepIInv
<1>n. \A i \in DOMAIN Lines : Copies(i) \in Nat
  BY CopiesNat DEF IInv
<1>1. CASE \E n \in PendingCounts : Start(n)
  BY <1>i, <1>1, StartBInv
<1>2. CASE SomeApproved
  <2>1. PICK n \in PendingCounts : Approved(n)
    BY <1>2 DEF SomeApproved
  <2>2. run'.task = run.task /\ run'.batch = run.batch /\ run'.pc = "distribute"
    BY <2>1 DEF Approved, IInv, RunOK
  <2>3. UNCHANGED <<paid, pool, resumefile, spent>>
    BY <2>1 DEF Approved
  <2>4. SpentOK' /\ UNCHANGED <<spent.kills, spent.lost>>
    BY <2>3, SpentSteps DEF BInv
  <2>5. \A i \in DOMAIN Lines : Copies(i)' = Copies(i)
    BY <2>3 DEF Copies
  <2>6. \A i \in DOMAIN Lines : Copies(i)' <= Copies(i)
    BY <1>n, <2>5
  <2>. QED
    BY <1>i, <2>2, <2>3, <2>4, <2>6, RunKept
<1>3. CASE SomeSend
  <2>1. PICK k \in DOMAIN run.task : Send(k) \/ SendFails(k)
    BY <1>3 DEF SomeSend
  <2>2. CASE Send(k)
    BY <1>i, <2>2, SendBInv
  <2>3. CASE SendFails(k)
    <3>1. /\ MayStart(k) /\ Began(k, "failed")
          /\ UNCHANGED <<paid, pool, resumefile, spent>>
      BY <2>3 DEF SendFails
    <3>2. SpentOK' /\ UNCHANGED <<spent.kills, spent.lost>>
      BY <3>1, SpentSteps DEF BInv
    <3>. QED
      BY <1>i, <3>1, <3>2, NotSentBInv
  <2>. QED
    BY <2>1, <2>2, <2>3
<1>4. CASE SomeFault
  <2>1. PICK k \in DOMAIN run.task : SendRefused(k) \/ AnswerLost(k)
    BY <1>4 DEF SomeFault
  <2>2. CASE SendRefused(k)
    <3>1. /\ MayStart(k) /\ Began(k, "failed")
          /\ UNCHANGED <<paid, pool, resumefile>>
          /\ spent' = [spent EXCEPT !.refusals = @ + 1]
      BY <2>2 DEF SendRefused
    <3>2. SpentOK' /\ UNCHANGED <<spent.kills, spent.lost>>
      BY <3>1, SpentSteps DEF BInv
    <3>. QED
      BY <1>i, <3>1, <3>2, NotSentBInv
  <2>3. CASE AnswerLost(k)
    BY <1>i, <2>3, LostBInv
  <2>. QED
    BY <2>1, <2>2, <2>3
<1>5. CASE SomeSave
  BY <1>i, <1>5, SaveBInv DEF SomeSave
<1>6. CASE Finish
  BY <1>i, <1>6, FinishBInv
<1>7. CASE Kill
  BY <1>i, <1>7, KillBInv
<1>8. CASE SomeMine
  <2>1. PICK tx \in pool : Mine(tx)
    BY <1>8 DEF SomeMine
  <2>2. UNCHANGED <<run, resumefile, spent>>
    BY <2>1 DEF Mine
  <2>3. SpentOK' /\ UNCHANGED <<spent.kills, spent.lost>>
    BY <2>2, SpentSteps DEF BInv
  <2>4. \A i \in DOMAIN Lines : Copies(i)' <= Copies(i)
    BY <2>1, CopiesMined DEF IInv
  <2>. QED
    BY <1>i, <2>2, <2>3, <2>4, RunKept
<1>9. CASE TopUp \/ UNCHANGED vars
  <2>1. UNCHANGED <<paid, pool, run, resumefile>>
    BY <1>9 DEF TopUp, vars
  <2>2. SpentOK' /\ UNCHANGED <<spent.kills, spent.lost>>
    BY <1>9, SpentSteps DEF BInv, TopUp, vars
  <2>3. \A i \in DOMAIN Lines : Copies(i)' = Copies(i)
    BY <2>1 DEF Copies
  <2>4. \A i \in DOMAIN Lines : Copies(i)' <= Copies(i)
    BY <1>n, <2>3
  <2>. QED
    BY <1>i, <2>1, <2>2, <2>4, RunKept
<1>. QED
  BY <1>1, <1>2, <1>3, <1>4, <1>5, <1>6, <1>7, <1>8, <1>9 DEF Next

\* The debts cover what was paid beyond the first transfer of each line.
LEMMA BoundFollows == IInv /\ BInv => OverpaymentBounded
<1>. SUFFICES ASSUME IInv, BInv PROVE OverpaymentBounded
  OBVIOUS
<1>. DEFINE f == [i \in DOMAIN Lines |-> IF paid[i] > 1 THEN paid[i] - 1 ELSE 0]
            h == Debts
<1>1. ASSUME NEW i \in DOMAIN Lines
      PROVE  f[i] \in Int /\ h[i] \in Int /\ f[i] <= h[i]
  <2>1. paid[i] \in Nat /\ h[i] = Debt(i) /\ Debt(i) \in Nat /\ Copies(i) \in Nat
    BY CopiesNat DEF IInv, LinesOK, Debts
  <2>2. Cardinality({tx \in pool : i \in tx.lines}) \in Nat
    BY FS_Subset, FS_CardinalityType DEF IInv, NoncesApart
  <2>3. paid[i] <= Copies(i)
    BY <2>1, <2>2 DEF Copies
  <2>4. Copies(i) <= Debt(i) + 1 /\ (Copies(i) = 0 => Debt(i) = 0)
    BY <2>1 DEF Debt
  <2>5. f[i] = IF paid[i] > 1 THEN paid[i] - 1 ELSE 0
    OBVIOUS
  <2>. HIDE DEF f, h
  <2>. QED
    BY <2>1, <2>3, <2>4, <2>5
<1>2. DOMAIN f = DOMAIN Lines /\ DOMAIN h = DOMAIN Lines
  BY DEF Debts
<1>3. Overpaid = SumFunctionOnSet(f, DOMAIN Lines)
  BY <1>2 DEF Overpaid, SumFunction
<1>4. SumFunction(Debts) = SumFunctionOnSet(h, DOMAIN Lines)
  BY <1>2 DEF SumFunction
<1>. HIDE DEF f, h
<1>5. SumFunctionOnSet(f, DOMAIN Lines) <= SumFunctionOnSet(h, DOMAIN Lines)
  BY <1>1, LinesFinite, SumIsMonotonic
<1>6. SumFunctionOnSet(f, DOMAIN Lines) \in Int /\ SumFunctionOnSet(h, DOMAIN Lines) \in Int
  BY <1>1, LinesFinite, SumIsInt
<1>7. Allowed \in Int
  BY SpentSteps DEF BInv
<1>. QED
  BY <1>3, <1>4, <1>5, <1>6, <1>7 DEF BInv, DebtBounded, OverpaymentBounded, Allowed

\* airdrop.ts:224-260: for any recipients and options, and whatever is refused
\* or fails, the payments beyond the first of each line are no more than a
\* batch for each lost answer and Concurrency batches for each killed run;
\* runs that end by themselves pay nobody twice.
THEOREM OverpaymentsAreBounded == Spec => []OverpaymentBounded
<1>1. IInv /\ BInv /\ [Next]_vars => (IInv /\ BInv)'
  BY StepIInv, StepBInv
<1>. QED
  BY InitIInv, InitBInv, BoundFollows, <1>1, PTL DEF Spec

-----------------------------------------------------------------------------
(* Deployment: the types.  The functions' names and the commands are listed; *)
(* a contract's account is named by its artifact.                            *)

AccountStates ==
    [is : Artifacts \union {"library"}, build : Nat, admin : Nat, impl : Nat, pending : Nat]
BookEntries ==
    [address : Nat, creation : (Artifacts \union {""}) \X Nat, proxy : BOOLEAN, impl : Nat]
PutOffCalls == [of : Names, fn : Nat, to : Nat, refs : SUBSET Names]
Processes ==
    [pc : {"off", "check", "library", "contract", "save",
           "wrap", "accept", "print", "saveproxy", "calls"},
     cmd : {"", "migrate", "deploy", "deploy-save", "deploy-with-proxy",
            "deploy-with-proxy-save"},
     todo : Seq(Names), force : BOOLEAN, buildTx : BOOLEAN, book : [Names -> BookEntries],
     impl : Nat, proxy : Nat, pending : Seq(PutOffCalls), next : Nat \ {0}]
UpgradeProcesses ==
    [pc : {"off", "upgrade", "accept"}, name : Names, proxy : Nat, impl : Nat, admin : Nat]
HandedTransactions ==
    [fn : {"upgrade", "acceptProxy"}, proxy : Nat, impl : Nat, admin : Nat]
EventCounts ==
    [runs : Nat, single : Nat, forced : Nat, deploys : Nat, kills : Nat, builds : Nat,
     admins : Nat, upgrades : Nat]

DeploymentTypes ==
    /\ chain \in Seq(AccountStates)
    /\ book \in [Names -> BookEntries]
    /\ build \in [Artifacts -> Nat \ {0}]
    /\ handed \subseteq HandedTransactions
    /\ process \in Processes
    /\ up \in [Upgraders -> UpgradeProcesses]
    /\ events \in EventCounts

(* The process and the address book *)

\* The process's copy is the address book, a name is worked on once, and what a
\* step relies on was deployed.
ProcessSound ==
    /\ process.pc = "off" => process = NoProcess
    /\ process.pc # "off" => process.cmd # "" /\ process.book = book
    /\ process.pc \notin {"off", "calls"} => process.todo # <<>>
    /\ \A i, j \in DOMAIN process.todo : process.todo[i] = process.todo[j] => i = j
    /\ process.pc # "off" /\ ~Migrates =>
         Len(process.todo) <= 1 /\ process.pc # "check" /\ ~process.force
    /\ process.pc \in {"check", "library", "contract", "save", "wrap"} =>
         process.proxy = NoAddress
    /\ process.pc \in {"save", "wrap", "accept", "print", "saveproxy"} =>
         process.impl \in DOMAIN chain
    /\ process.pc \in {"accept", "print", "saveproxy"} => process.proxy \in DOMAIN chain
    /\ process.pc \in {"save", "saveproxy"} => Saves
    /\ process.pc \in {"library", "contract", "save"} /\ Wraps => Config[Name].proxy
    /\ Wrapping => Wraps /\ Config[Name].proxy

\* An entry names an account and a build there was of the artifact it hashes.
BookSound ==
    \A n \in Names : Known(book, n) =>
       /\ book[n].address \in DOMAIN chain
       /\ book[n].proxy => Config[n].proxy
       /\ LET a == IF book[n].proxy THEN "GraphProxy" ELSE n
          IN  book[n].creation[1] = a /\ book[n].creation[2] \in 1 .. build[a]

\* The proxy that is about to be saved runs, or its acceptance was printed.
RunsOrHanded(a) == chain[a].impl # NoAddress \/ \E tx \in handed : tx.proxy = a
ProxiesSound ==
    /\ SavedProxiesRun
    /\ process.pc = "saveproxy" => RunsOrHanded(process.proxy)

(* Deployments.  The entry of a contract stands for the deployments up to the *)
(* build it hashes (Level); one that is not up to date is below the Top.      *)

Extra(n) == IF Config[n].proxy THEN build["GraphProxy"] - 1 ELSE 0
Top(n) == build[n] + Extra(n)
Level(n) == IF ~Known(book, n) THEN 0
            ELSE IF book[n].proxy THEN build[n] + book[n].creation[2] - 1
            ELSE book[n].creation[2] + Extra(n)
Paid == events.forced + events.deploys + events.kills

\* The process is yet to deploy n, whether it needs to or not: that deployment
\* was paid for when the process started.
Ahead(n) == \E i \in DOMAIN process.todo :
               /\ process.todo[i] = n
               /\ i = 1 => process.pc \in {"check", "library", "contract"}
Prepaid(n) == process.pc # "off" /\ (process.force \/ ~Migrates) /\ Ahead(n)

\* A plain migrate deploys only what is below its top, and the entry that makes
\* up for it is written in the next step.
Unforced == Migrates /\ ~process.force
Unsaved(n) == process.pc = "save" /\ Unforced /\ n = Name

DeploymentsCounted ==
    /\ \A n \in Names : Cardinality(Addresses(n)) + One(Prepaid(n))
                           <= Level(n) + Paid + One(Unsaved(n))
    /\ process.pc \in {"library", "contract", "save"} /\ Unforced => Level(Name) < Top(Name)

(* Entries of bare implementations: a deploy-save is counted when it starts, *)
(* and a process that wraps is about to replace the one it wrote.            *)

Saving == process.cmd = "deploy-save" /\ process.pc \in {"library", "contract", "save"}
StrandedCounted ==
    /\ Cardinality(Stranded) + One(Saving)
         <= events.kills + events.deploys + One(Wrapping /\ Saves)
    /\ Wrapping /\ Saves => Name \in Stranded

(* Calls: they are addressed as the book says, and the process works on none *)
(* of their contracts any more.                                              *)

CallMade(call) == [of |-> call.of, fn |-> call.fn, to |-> book[call.of].address,
                   args |-> {<<r, book[r].address>> : r \in call.refs}]
CallsSound ==
    /\ \A i \in DOMAIN process.pending :
          /\ process.pending[i].to = book[process.pending[i].of].address
          /\ \A j \in DOMAIN process.todo : process.todo[j] # process.pending[i].of
    /\ process.pc # "calls" => process.next = 1
    /\ \A i \in DOMAIN process.pending :
          i < process.next => CallMade(process.pending[i]) \in called

(* Proxies with an implementation that waits: the one the process deployed,  *)
(* those of upgrades that can accept, and those that a kill or a change of   *)
(* admin left over.                                                          *)

Own(a) == process.pc \in {"accept", "print"} /\ a = process.proxy
Explained(a) == \E u \in Upgraders :
                   /\ up[u].pc = "accept" /\ up[u].proxy = a
                   /\ CanAccept(chain[a], up[u].impl, up[u].admin)
Left == {a \in Waiting : ~Own(a) /\ ~Explained(a)}
WaitingCounted == Cardinality(Left) <= events.kills + events.admins

DeploymentInvariant ==
    /\ DeploymentTypes
    /\ ProcessSound
    /\ BookSound
    /\ ProxiesSound
    /\ DeploymentsCounted
    /\ StrandedCounted
    /\ CallsSound
    /\ WaitingCounted

(* Values of these types *)

\* There are finitely many names, the proxy admin among them.
LEMMA NamesAre ==
    /\ IsFiniteSet(Names)
    /\ Order \in Seq(Names) /\ Order # <<>>
    /\ "GraphProxyAdmin" \in Names /\ "GraphProxy" \notin Names /\ "library" \notin Names
<1>1. Order \in Seq(STRING) /\ "GraphProxyAdmin" \in Names
  BY DeploymentAssumption
<1>2. Order \in [1 .. Len(Order) -> STRING] /\ Len(Order) \in Nat
  BY <1>1
<1>3. IsFiniteSet(Names)
  <2>1. Order \in Surjection(1 .. Len(Order), Names)
    BY <1>2 DEF Names, Surjection
  <2>2. IsFiniteSet(1 .. Len(Order))
    BY <1>2, FS_Interval
  <2>. QED
    BY <2>1, <2>2, FS_Surjection
<1>4. Order \in Seq(Names)
  BY <1>2 DEF Names
<1>5. Order # <<>>
  BY <1>1, <1>2 DEF Names
<1>6. "GraphProxy" \notin Names /\ "library" \notin Names
  BY DeploymentAssumption
<1>. QED
  BY <1>1, <1>3, <1>4, <1>5, <1>6

\* An event is counted under its own kind and no other.
LEMMA EventsHappen ==
    ASSUME DeploymentTypes
    PROVE  \A kind \in {"single", "forced", "deploys", "kills", "builds", "admins", "upgrades"} :
             Happens(kind) =>
               /\ events' \in EventCounts
               /\ kind = "forced"  => events' = [events EXCEPT !.forced = @ + 1]
               /\ kind = "deploys" => events' = [events EXCEPT !.deploys = @ + 1]
               /\ kind = "kills"   => events' = [events EXCEPT !.kills = @ + 1]
               /\ kind = "admins"  => events' = [events EXCEPT !.admins = @ + 1]
               /\ kind \notin {"forced", "deploys", "kills", "admins"} =>
                     /\ events'.forced = events.forced /\ events'.deploys = events.deploys
                     /\ events'.kills = events.kills /\ events'.admins = events.admins
<1>1. events \in EventCounts
  BY DEF DeploymentTypes
<1>2. ASSUME Happens("single") PROVE events' = [events EXCEPT !.single = @ + 1]
  BY <1>2 DEF Happens
<1>3. ASSUME Happens("forced") PROVE events' = [events EXCEPT !.forced = @ + 1]
  BY <1>3 DEF Happens
<1>4. ASSUME Happens("deploys") PROVE events' = [events EXCEPT !.deploys = @ + 1]
  BY <1>4 DEF Happens
<1>5. ASSUME Happens("kills") PROVE events' = [events EXCEPT !.kills = @ + 1]
  BY <1>5 DEF Happens
<1>6. ASSUME Happens("builds") PROVE events' = [events EXCEPT !.builds = @ + 1]
  BY <1>6 DEF Happens
<1>7. ASSUME Happens("admins") PROVE events' = [events EXCEPT !.admins = @ + 1]
  BY <1>7 DEF Happens
<1>8. ASSUME Happens("upgrades") PROVE events' = [events EXCEPT !.upgrades = @ + 1]
  BY <1>8 DEF Happens
<1>. QED
  BY <1>1, <1>2, <1>3, <1>4, <1>5, <1>6, <1>7, <1>8 DEF EventCounts

\* No process is a process without work.
LEMMA NoProcessIs ==
    /\ NoEntry \in BookEntries /\ NoEntry.address = NoAddress
    /\ NoProcess \in Processes
    /\ NoProcess.pc = "off" /\ NoProcess.cmd = "" /\ NoProcess.todo = <<>>
    /\ NoProcess.force = FALSE /\ NoProcess.buildTx = FALSE /\ NoProcess.pending = <<>>
    /\ NoProcess.impl = NoAddress /\ NoProcess.proxy = NoAddress /\ NoProcess.next = 1
<1>1. NoEntry \in BookEntries
  <2>. DEFINE c == <<"", 0>>
  <2>1. c \in (Artifacts \union {""}) \X Nat
    OBVIOUS
  <2>. HIDE DEF c
  <2>2. [address |-> 0, creation |-> c, proxy |-> FALSE, impl |-> 0] \in BookEntries
    BY <2>1 DEF BookEntries
  <2>. QED
    BY <2>2 DEF NoEntry, BookEntry, NoAddress, c
<1>2. NoProcess \in Processes
  BY <1>1 DEF NoProcess, Processes, NoAddress
<1>3. NoEntry.address = NoAddress
  BY DEF NoEntry, BookEntry
<1>. QED
  BY <1>1, <1>2, <1>3 DEF NoProcess

\* The types hold at first.
LEMMA StartTypes ==
    ASSUME DeploymentInit
    PROVE  DeploymentTypes
<1>1. NoEntry \in BookEntries /\ NoProcess \in Processes
  BY NoProcessIs
<1>3. NoUpgrade \in UpgradeProcesses
  BY NamesAre DEF NoUpgrade, UpgradeProcesses, NoAddress, Names
<1>4. chain \in Seq(AccountStates) /\ handed \subseteq HandedTransactions
  BY DEF DeploymentInit
<1>5. book \in [Names -> BookEntries] /\ up \in [Upgraders -> UpgradeProcesses]
  BY <1>1, <1>3 DEF DeploymentInit
<1>6. build \in [Artifacts -> Nat \ {0}]
  BY DEF DeploymentInit
<1>7. events \in EventCounts
  BY DEF DeploymentInit, EventCounts
<1>. QED
  BY <1>1, <1>4, <1>5, <1>6, <1>7 DEF DeploymentInit, DeploymentTypes

\* While the process works on a name, the name is one of the configuration.
LEMMA NameIs ==
    ASSUME DeploymentTypes, ProcessSound, process.pc \notin {"off", "calls"}
    PROVE  /\ Name \in Names /\ process.todo \in Seq(Names) /\ process.todo # <<>>
           /\ Len(process.todo) \in Nat \ {0} /\ Name = process.todo[1]
           /\ Config[Name].proxy \in BOOLEAN /\ Config[Name].linked \in BOOLEAN
<1>1. process.todo \in Seq(Names) /\ process.todo # <<>>
  BY DEF DeploymentTypes, Processes, ProcessSound
<1>. DEFINE todo == process.todo
<1>. HIDE DEF todo
<1>2. todo \in Seq(Names) /\ todo # <<>>
  BY <1>1 DEF todo
<1>3. Len(todo) \in Nat \ {0} /\ Head(todo) = todo[1] /\ Head(todo) \in Names
  BY <1>2
<1>4. Name = Head(todo)
  BY DEF Name, todo
<1>5. Config[Name].proxy \in BOOLEAN /\ Config[Name].linked \in BOOLEAN
  BY <1>3, <1>4, DeploymentAssumption
<1>. QED
  BY <1>1, <1>3, <1>4, <1>5 DEF todo

\* What a process goes on with: the names that remain, or the calls.
LEMMA NextContractIs ==
    ASSUME NEW r \in Processes, r.todo # <<>>
    PROVE  LET q == NextContract(r)
           IN  /\ q \in Processes
               /\ q.pc = IF Len(r.todo) = 1 THEN "calls" ELSE "check"
               /\ q.todo = Tail(r.todo) /\ q.impl = NoAddress /\ q.proxy = NoAddress
               /\ q.cmd = r.cmd /\ q.force = r.force /\ q.buildTx = r.buildTx
               /\ q.book = r.book /\ q.pending = r.pending /\ q.next = r.next
<1>. DEFINE rest == Tail(r.todo)
            pc   == IF Len(r.todo) = 1 THEN "calls" ELSE "check"
<1>1. rest \in Seq(Names)
  <2>1. r.todo \in Seq(Names)
    BY DEF Processes
  <2>. QED
    BY <2>1, HeadTailProperties
<1>. HIDE DEF rest
<1>2. NextContract(r) = [r EXCEPT !.pc = pc, !.todo = rest, !.impl = 0, !.proxy = 0]
  BY DEF NextContract, NoAddress, rest
<1>3. pc \in {"calls", "check"}
  OBVIOUS
<1>. HIDE DEF pc
<1>4. LET q == [r EXCEPT !.pc = pc, !.todo = rest, !.impl = 0, !.proxy = 0]
      IN  /\ q \in Processes
          /\ q.pc = pc /\ q.todo = rest /\ q.impl = 0 /\ q.proxy = 0
          /\ q.cmd = r.cmd /\ q.force = r.force /\ q.buildTx = r.buildTx
          /\ q.book = r.book /\ q.pending = r.pending /\ q.next = r.next
  BY <1>1, <1>3 DEF Processes
<1>. QED
  BY <1>2, <1>4 DEF NoAddress, rest, pc

\* The calls put off are addressed to the contract just deployed.
LEMMA CallsTyped ==
    ASSUME Name \in Names, Target \in Nat
    PROVE  /\ Calls \in Seq(PutOffCalls)
           /\ \A i \in DOMAIN Calls : Calls[i].of = Name /\ Calls[i].to = Target
<1>. DEFINE c == Config[Name].calls
            put(i) == [of |-> Name, fn |-> i, to |-> Target, refs |-> c[i].refs]
<1>1. CASE Migrates
  <2>1. /\ Len(c) \in Nat /\ DOMAIN c = 1 .. Len(c)
        /\ \A i \in 1 .. Len(c) : c[i].refs \in SUBSET Names
    <3>. DEFINE R == [refs : SUBSET Names]
    <3>1. c \in Seq(R)
      BY DeploymentAssumption
    <3>. HIDE DEF c, R
    <3>2. Len(c) \in Nat /\ DOMAIN c = 1 .. Len(c)
      BY <3>1
    <3>3. \A i \in 1 .. Len(c) : c[i] \in R
      BY <3>1
    <3>. QED
      BY <3>2, <3>3 DEF R
  <2>2. Calls = [i \in 1 .. Len(c) |-> put(i)]
    BY <1>1, <2>1 DEF Calls
  <2>3. \A i \in 1 .. Len(c) : put(i) \in PutOffCalls
    BY <2>1 DEF PutOffCalls
  <2>. HIDE DEF c
  <2>4. Calls \in Seq(PutOffCalls)
    BY <2>1, <2>2, <2>3
  <2>. QED
    BY <2>2, <2>4
<1>2. CASE ~Migrates
  BY <1>2 DEF Calls
<1>. QED
  BY <1>1, <1>2

\* A contract that is deployed is an account.
LEMMA AccountTyped ==
    ASSUME NEW name \in Artifacts \union {"library"}, NEW b \in Nat
    PROVE  Account(name, b) \in AccountStates
BY DEF Account, AccountStates, NoAddress

\* So is a proxy, which waits for its implementation.
LEMMA ProxyTyped ==
    ASSUME NEW b \in Nat, NEW impl \in Nat, NEW admin \in Nat
    PROVE  LET p == Proxy(b, impl, admin)
           IN  /\ p \in AccountStates /\ p.is = "GraphProxy" /\ p.impl = NoAddress
               /\ p.pending = impl /\ p.admin = admin
BY DEF Proxy, Account, AccountStates, NoAddress, Artifacts

\* What the admin contract and an implementation do to a proxy.
LEMMA ProxyMoves ==
    ASSUME NEW p \in AccountStates, NEW x \in Nat
    PROVE  /\ SetAdmin(p, x) \in AccountStates /\ UpgradeTo(p, x) \in AccountStates
           /\ Accepted(p) \in AccountStates
           /\ SetAdmin(p, x).is = p.is /\ UpgradeTo(p, x).is = p.is /\ Accepted(p).is = p.is
           /\ SetAdmin(p, x).impl = p.impl /\ UpgradeTo(p, x).impl = p.impl
           /\ Accepted(p).impl = p.pending /\ Accepted(p).pending = NoAddress
           /\ SetAdmin(p, x).pending = p.pending /\ UpgradeTo(p, x).pending = x
           /\ UpgradeTo(p, x).admin = p.admin /\ SetAdmin(p, x).admin = x
BY DEF SetAdmin, UpgradeTo, Accepted, AccountStates, NoAddress

\* The addresses are the numbers up to the newest.
LEMMA ChainIs ==
    ASSUME DeploymentTypes
    PROVE  /\ DOMAIN chain = 1 .. Len(chain) /\ Len(chain) \in Nat /\ Newest \in Nat \ {0}
           /\ Newest \notin DOMAIN chain
           /\ \A a \in DOMAIN chain : chain[a] \in AccountStates /\ a \in Nat \ {0}
BY DEF DeploymentTypes, Newest

\* A deployment adds one account.
LEMMA DeployedIs ==
    ASSUME DeploymentTypes, NEW account \in AccountStates, Deployed(account)
    PROVE  /\ chain' \in Seq(AccountStates)
           /\ DOMAIN chain' = DOMAIN chain \union {Newest}
           /\ chain'[Newest] = account
           /\ \A a \in DOMAIN chain : chain'[a] = chain[a]
BY DEF DeploymentTypes, Deployed, Newest

\* A call to a proxy changes it.
LEMMA CalledIs ==
    ASSUME DeploymentTypes, NEW a, NEW p, a \in DOMAIN chain => p \in AccountStates,
           chain' = [chain EXCEPT ![a] = p]
    PROVE  /\ chain' \in Seq(AccountStates)
           /\ DOMAIN chain' = DOMAIN chain
           /\ a \in DOMAIN chain => chain'[a] = p
           /\ \A x \in DOMAIN chain : x # a => chain'[x] = chain[x]
<1>1. chain \in [1 .. Len(chain) -> AccountStates] /\ Len(chain) \in Nat
  BY DEF DeploymentTypes
<1>2. chain' \in [1 .. Len(chain) -> AccountStates]
  BY <1>1
<1>3. chain' \in Seq(AccountStates)
  BY <1>1, <1>2
<1>. QED
  BY <1>1, <1>2, <1>3

\* The process starts a migration or a deployment.
Starts(pc, cmd, todo, force) ==
    /\ process' \in Processes
    /\ process'.pc = pc /\ process'.cmd = cmd /\ process'.todo = todo /\ process'.force = force
    /\ process'.book = book /\ process'.proxy = NoAddress /\ process'.next = 1
    /\ process'.pending = <<>>

\* A migrate starts with its names, and is counted if it is forced.
LEMMA MigrateStarts ==
    ASSUME DeploymentTypes, NEW todo \in Seq(Names), NEW force \in BOOLEAN,
           StartMigrate(todo, force)
    PROVE  /\ Starts("check", "migrate", todo, force)
           /\ events' \in EventCounts
           /\ events'.kills = events.kills /\ events'.deploys = events.deploys
           /\ events'.admins = events.admins
           /\ events'.forced = events.forced + (IF force THEN 1 ELSE 0)
<1>1. Starts("check", "migrate", todo, force)
  <2>1. PICK r : r = NoProcess
    OBVIOUS
  <2>2. process' = [r EXCEPT !.pc = "check", !.cmd = "migrate", !.todo = todo,
                             !.force = force, !.book = book]
    BY <2>1 DEF StartMigrate
  <2>3. r \in Processes /\ r.proxy = NoAddress /\ r.next = 1 /\ r.pending = <<>>
    BY <2>1, NoProcessIs
  <2>4. book \in [Names -> BookEntries]
    BY DEF DeploymentTypes
  <2>5. process' \in Processes
    BY <2>2, <2>3, <2>4 DEF Processes
  <2>. QED
    BY <2>2, <2>3, <2>5, ZenonT(30) DEF Starts, Processes
<1>2. events \in EventCounts
  BY DEF DeploymentTypes
<1>3. CASE force
  <2>1. events' = [events EXCEPT !.forced = @ + 1] /\ events' \in EventCounts
    BY <1>3, EventsHappen DEF StartMigrate
  <2>. QED
    BY <1>1, <1>2, <1>3, <2>1 DEF EventCounts
<1>4. CASE ~force /\ todo # Order
  <2>1. /\ events' \in EventCounts
        /\ events'.forced = events.forced /\ events'.deploys = events.deploys
        /\ events'.kills = events.kills /\ events'.admins = events.admins
    BY <1>4, EventsHappen DEF StartMigrate
  <2>. QED
    BY <1>1, <1>2, <1>4, <2>1 DEF EventCounts
<1>5. CASE ~force /\ todo = Order
  <2>1. events' = [events EXCEPT !.runs = @ + 1]
    BY <1>5 DEF StartMigrate
  <2>. QED
    BY <1>1, <1>2, <1>5, <2>1, SMTT(20) DEF EventCounts
<1>. QED
  BY <1>3, <1>4, <1>5

\* A deploy starts with its one name, and is counted.
LEMMA DeployStarts ==
    ASSUME DeploymentTypes, NEW n \in Names, NEW buildTx \in BOOLEAN,
           NEW cmd \in {"deploy", "deploy-save", "deploy-with-proxy", "deploy-with-proxy-save"},
           StartDeploy(cmd, n, buildTx)
    PROVE  /\ Starts(FirstStep(n), cmd, <<n>>, FALSE)
           /\ FirstStep(n) \in {"library", "contract"}
           /\ events' \in EventCounts
           /\ events'.kills = events.kills /\ events'.deploys = events.deploys + 1
           /\ events'.admins = events.admins /\ events'.forced = events.forced
<1>1. FirstStep(n) \in {"library", "contract"}
  BY DEF FirstStep
<1>4. Starts(FirstStep(n), cmd, <<n>>, FALSE)
  <2>. DEFINE first == FirstStep(n)
              todo == <<n>>
  <2>1. PICK r : r = NoProcess
    OBVIOUS
  <2>2. process' = [r EXCEPT !.pc = first, !.cmd = cmd, !.todo = todo,
                             !.buildTx = buildTx, !.book = book]
    BY <2>1 DEF StartDeploy
  <2>3. r \in Processes /\ r.proxy = NoAddress /\ r.next = 1 /\ r.pending = <<>>
        /\ r.force = FALSE
    BY <2>1, NoProcessIs
  <2>4. book \in [Names -> BookEntries] /\ todo \in Seq(Names)
    BY DEF DeploymentTypes
  <2>5. first \in {"library", "contract"}
    BY <1>1
  <2>. HIDE DEF first, todo
  <2>6. process' \in Processes
    BY <2>2, <2>3, <2>4, <2>5 DEF Processes
  <2>8. /\ process'.pc = first /\ process'.cmd = cmd /\ process'.todo = todo
        /\ process'.force = FALSE /\ process'.book = book /\ process'.proxy = NoAddress
        /\ process'.next = 1 /\ process'.pending = <<>>
    BY <2>2, <2>3 DEF Processes
  <2>7. Starts(first, cmd, todo, FALSE)
    BY <2>6, <2>8 DEF Starts
  <2>. QED
    BY <2>7 DEF first, todo
<1>5. events' = [events EXCEPT !.deploys = @ + 1] /\ events' \in EventCounts
  BY EventsHappen DEF StartDeploy
<1>6. events \in EventCounts
  BY DEF DeploymentTypes
<1>. QED
  BY <1>1, <1>4, <1>5, <1>6 DEF EventCounts

(* Steps that leave the process alone *)

\* They leave the address book too, and no proxy loses its implementation.
Outside ==
    /\ UNCHANGED <<called, book, build, process>>
    /\ handed \subseteq handed'
    /\ DOMAIN chain' = DOMAIN chain
    /\ \A a \in DOMAIN chain :
          /\ chain'[a].is = chain[a].is
          /\ chain[a].impl # NoAddress => chain'[a].impl # NoAddress
    /\ events'.forced = events.forced /\ events'.deploys = events.deploys
    /\ events'.kills >= events.kills /\ events'.admins >= events.admins

\* Finitely many proxies are left over.
LEMMA LeftIsFinite ==
    ASSUME DeploymentTypes
    PROVE  IsFiniteSet(Left) /\ Cardinality(Left) \in Nat
<1>1. Left \subseteq 1 .. Len(chain) /\ Len(chain) \in Nat
  BY ChainIs DEF Left, Waiting
<1>2. IsFiniteSet(1 .. Len(chain))
  BY <1>1, FS_Interval
<1>. QED
  BY <1>1, <1>2, FS_Subset, FS_CardinalityType

\* A step after which no more proxies are left over.
LEMMA NoneLeft ==
    ASSUME DeploymentTypes, WaitingCounted, Left' \subseteq Left, events' \in EventCounts,
           events'.kills >= events.kills, events'.admins >= events.admins
    PROVE  WaitingCounted'
<1>1. Cardinality(Left') <= Cardinality(Left) /\ Cardinality(Left') \in Nat
  BY LeftIsFinite, FS_Subset, FS_CardinalityType
<1>2. events \in EventCounts
  BY DEF DeploymentTypes
<1>. QED
  BY <1>1, <1>2, LeftIsFinite DEF WaitingCounted, EventCounts

\* A set with one more element.
LEMMA OneMore ==
    ASSUME NEW S, IsFiniteSet(S), NEW a
    PROVE  /\ IsFiniteSet(S \union {a})
           /\ Cardinality(S \union {a}) <= Cardinality(S) + 1
           /\ Cardinality(S \union {a}) \in Nat
<1>1. /\ IsFiniteSet(S \union {a})
      /\ Cardinality(S \union {a}) = IF a \in S THEN Cardinality(S) ELSE Cardinality(S) + 1
  BY FS_AddElement
<1>2. Cardinality(S) \in Nat
  BY FS_CardinalityType
<1>. QED
  BY <1>1, <1>2

\* A kill or a change of admin may leave one more proxy over.
LEMMA OneLeft ==
    ASSUME DeploymentTypes, WaitingCounted, NEW a, Left' \subseteq Left \union {a},
           events' \in EventCounts,
           events'.kills + events'.admins = events.kills + events.admins + 1
    PROVE  WaitingCounted'
<1>1. /\ IsFiniteSet(Left \union {a})
      /\ Cardinality(Left \union {a}) <= Cardinality(Left) + 1
      /\ Cardinality(Left \union {a}) \in Nat
  BY LeftIsFinite, OneMore
<1>2. /\ Cardinality(Left') <= Cardinality(Left \union {a})
      /\ Cardinality(Left') \in Nat
  BY <1>1, FS_Subset, FS_CardinalityType
<1>3. events \in EventCounts
  BY DEF DeploymentTypes
<1>4. /\ events.kills \in Nat /\ events.admins \in Nat
      /\ events'.kills \in Nat /\ events'.admins \in Nat
  BY <1>3 DEF EventCounts
<1>5. Cardinality(Left) \in Nat /\ Cardinality(Left) <= events.kills + events.admins
  BY LeftIsFinite DEF WaitingCounted
<1>6. Cardinality(Left') <= events'.kills + events'.admins
  BY <1>1, <1>2, <1>4, <1>5
<1>. QED
  BY <1>6 DEF WaitingCounted

\* A call to a proxy by someone other than the process.
LEMMA ProxyIsCalled ==
    ASSUME DeploymentTypes, NEW a, NEW p,
           a \in DOMAIN chain => /\ p \in AccountStates /\ p.is = chain[a].is
                                 /\ chain[a].impl # NoAddress => p.impl # NoAddress,
           chain' = [chain EXCEPT ![a] = p],
           UNCHANGED <<called, book, build, handed, process>>,
           events' \in EventCounts,
           up' \in [Upgraders -> UpgradeProcesses],
           events'.forced = events.forced, events'.deploys = events.deploys,
           events'.kills >= events.kills, events'.admins >= events.admins
    PROVE  Outside /\ DeploymentTypes'
<1>1. /\ chain' \in Seq(AccountStates)
      /\ DOMAIN chain' = DOMAIN chain
      /\ a \in DOMAIN chain => chain'[a] = p
      /\ \A x \in DOMAIN chain : x # a => chain'[x] = chain[x]
  BY CalledIs
<1>2. Outside
  BY <1>1 DEF Outside
<1>3. DeploymentTypes'
  BY <1>1 DEF DeploymentTypes
<1>. QED
  BY <1>2, <1>3

\* A step of one upgrade is none of another.
LEMMA UpgraderMoves ==
    ASSUME DeploymentTypes, NEW u \in Upgraders, NEW r \in UpgradeProcesses,
           up' = [up EXCEPT ![u] = r]
    PROVE  /\ up' \in [Upgraders -> UpgradeProcesses]
           /\ up'[u] = r
           /\ \A v \in Upgraders : v # u => up'[v] = up[v]
<1>1. up \in [Upgraders -> UpgradeProcesses]
  BY DEF DeploymentTypes
<1>. QED
  BY <1>1

\* No upgrade is one that is off.
LEMMA NoUpgradeIs == NoUpgrade \in UpgradeProcesses /\ NoUpgrade.pc = "off"
BY NamesAre DEF NoUpgrade, UpgradeProcesses, NoAddress, Names

\* Of one upgrader only the others explain what they explained.
LEMMA StillExplained ==
    ASSUME NEW u \in Upgraders, NEW a, chain'[a] = chain[a],
           \A v \in Upgraders : v # u => up'[v] = up[v],
           Explained(a),
           ~(/\ up[u].pc = "accept" /\ up[u].proxy = a
             /\ CanAccept(chain[a], up[u].impl, up[u].admin))
    PROVE  Explained(a)'
<1>1. PICK v \in Upgraders : /\ up[v].pc = "accept" /\ up[v].proxy = a
                             /\ CanAccept(chain[a], up[v].impl, up[v].admin)
  BY DEF Explained
<1>2. v # u /\ up'[v] = up[v]
  BY <1>1
<1>. QED
  BY <1>1, <1>2 DEF Explained, CanAccept, Answers, IsProxy

\* A proxy left over that was so before.
LEMMA WasLeft ==
    ASSUME DeploymentTypes, NEW a \in DOMAIN chain, chain'[a] = chain[a], a \in Left',
           Own(a) => Own(a)', handed \subseteq handed', Explained(a) => Explained(a)'
    PROVE  a \in Left
BY DEF Left, Waiting, IsProxy

\* An upgrade that starts, or that is handed to the multisig.
LEMMA StartUpgradeOutside ==
    ASSUME DeploymentTypes, WaitingCounted, NEW u \in Upgraders, NEW n \in Names,
           NEW buildTx \in BOOLEAN,
           NEW impl \in Addresses(n), StartUpgrade(u, n, impl, buildTx)
    PROVE  Outside /\ DeploymentTypes' /\ WaitingCounted'
<1>. DEFINE proxy == book[n].address
            admin == book["GraphProxyAdmin"].address
            new == [pc |-> "upgrade", name |-> n, proxy |-> proxy, impl |-> impl, admin |-> admin]
            tx(fn) == [fn |-> fn, proxy |-> proxy, impl |-> impl, admin |-> admin]
<1>1. book \in [Names -> BookEntries]
  BY DEF DeploymentTypes
<1>2. proxy \in Nat /\ admin \in Nat /\ impl \in Nat
  BY <1>1, NamesAre, ChainIs DEF BookEntries, Addresses
<1>3. /\ events' \in EventCounts
      /\ events'.forced = events.forced /\ events'.deploys = events.deploys
      /\ events'.kills = events.kills /\ events'.admins = events.admins
  BY EventsHappen DEF StartUpgrade
<1>e. events \in EventCounts
  BY DEF DeploymentTypes
<1>4. UNCHANGED <<chain, called, book, build, process>> /\ up[u].pc = "off"
  BY DEF StartUpgrade
<1>5. CASE buildTx
  <2>1. handed' = handed \union {tx("upgrade"), tx("acceptProxy")} /\ up' = up
    BY <1>5 DEF StartUpgrade
  <2>2. tx("upgrade") \in HandedTransactions /\ tx("acceptProxy") \in HandedTransactions
    BY <1>2 DEF HandedTransactions
  <2>. HIDE DEF tx
  <2>3. DeploymentTypes'
    BY <1>3, <1>4, <2>1, <2>2 DEF DeploymentTypes
  <2>4. Outside
    BY <1>3, <1>e, <1>4, <2>1 DEF Outside, EventCounts
  <2>5. Left' \subseteq Left
    BY <1>4, <2>1 DEF Left, Waiting, Own, Explained, CanAccept, Answers, IsProxy
  <2>6. WaitingCounted'
    BY <1>3, <1>e, <2>5, NoneLeft DEF EventCounts
  <2>. QED
    BY <2>3, <2>4, <2>6
<1>6. CASE ~buildTx
  <2>1. handed' = handed /\ up' = [up EXCEPT ![u] = new]
    BY <1>6 DEF StartUpgrade
  <2>2. new \in UpgradeProcesses /\ new.pc = "upgrade"
    BY <1>2 DEF UpgradeProcesses
  <2>. HIDE DEF new
  <2>3. /\ up' \in [Upgraders -> UpgradeProcesses]
        /\ up'[u] = new
        /\ \A v \in Upgraders : v # u => up'[v] = up[v]
    BY <2>1, <2>2, UpgraderMoves
  <2>4. DeploymentTypes'
    BY <1>3, <1>4, <2>1, <2>3 DEF DeploymentTypes
  <2>5. Outside
    BY <1>3, <1>e, <1>4, <2>1 DEF Outside, EventCounts
  <2>6. Left' \subseteq Left
    <3>1. \A a : Explained(a) => Explained(a)'
      BY <1>4, <2>3, StillExplained
    <3>2. \A a : Own(a) <=> Own(a)'
      BY <1>4 DEF Own
    <3>3. DOMAIN chain' = DOMAIN chain /\ \A a \in DOMAIN chain : chain'[a] = chain[a]
      BY <1>4
    <3>4. \A a \in Left' : a \in DOMAIN chain'
      BY DEF Left, Waiting
    <3>. QED
      BY <2>1, <3>1, <3>2, <3>3, <3>4, WasLeft
  <2>7. WaitingCounted'
    BY <1>3, <1>e, <2>6, NoneLeft DEF EventCounts
  <2>. QED
    BY <2>4, <2>5, <2>7
<1>. QED
  BY <1>5, <1>6

\* A killed upgrade leaves at most its own proxy over.
LEMMA KillUpgradeOutside ==
    ASSUME DeploymentTypes, WaitingCounted, NEW u \in Upgraders, KillUpgrade(u)
    PROVE  Outside /\ DeploymentTypes' /\ WaitingCounted'
<1>1. /\ events' = [events EXCEPT !.kills = @ + 1] /\ events' \in EventCounts
      /\ events \in EventCounts
  BY EventsHappen DEF KillUpgrade, DeploymentTypes
<1>2. UNCHANGED <<chain, called, book, build, handed, process>>
  BY DEF KillUpgrade
<1>3. /\ events'.forced = events.forced /\ events'.deploys = events.deploys
      /\ events'.kills = events.kills + 1 /\ events'.admins = events.admins
      /\ events.kills \in Nat /\ events.admins \in Nat
  BY <1>1 DEF EventCounts
<1>4. /\ up' \in [Upgraders -> UpgradeProcesses]
      /\ \A v \in Upgraders : v # u => up'[v] = up[v]
  BY NoUpgradeIs, UpgraderMoves DEF KillUpgrade
<1>5. DeploymentTypes'
  BY <1>1, <1>2, <1>4 DEF DeploymentTypes
<1>6. Outside
  BY <1>2, <1>3 DEF Outside
<1>7. Left' \subseteq Left \union {up[u].proxy}
  <2>1. \A a : Explained(a) /\ a # up[u].proxy => Explained(a)'
    BY <1>2, <1>4, StillExplained
  <2>2. \A a : Own(a) <=> Own(a)'
    BY <1>2 DEF Own
  <2>3. DOMAIN chain' = DOMAIN chain /\ \A a \in DOMAIN chain : chain'[a] = chain[a]
    BY <1>2
  <2>4. \A a \in Left' : a \in DOMAIN chain'
    BY DEF Left, Waiting
  <2>. QED
    BY <1>2, <2>1, <2>2, <2>3, <2>4, WasLeft
<1>8. events'.kills + events'.admins = events.kills + events.admins + 1
  BY <1>3
<1>9. WaitingCounted'
  BY <1>1, <1>7, <1>8, OneLeft
<1>. QED
  BY <1>5, <1>6, <1>9

\* A change of admin leaves at most the one proxy over.
LEMMA SetProxyAdminOutside ==
    ASSUME DeploymentTypes, WaitingCounted, NEW n \in Names, NEW admin \in Addresses("GraphProxyAdmin"),
           SetProxyAdmin(n, admin)
    PROVE  Outside /\ DeploymentTypes' /\ WaitingCounted'
<1>1. /\ events' = [events EXCEPT !.admins = @ + 1] /\ events' \in EventCounts
      /\ events \in EventCounts
  BY EventsHappen DEF SetProxyAdmin, DeploymentTypes
<1>2. UNCHANGED <<called, book, build, handed, process, up>>
  BY DEF SetProxyAdmin
<1>3. /\ events'.forced = events.forced /\ events'.deploys = events.deploys
      /\ events'.kills = events.kills /\ events'.admins = events.admins + 1
      /\ events.kills \in Nat /\ events.admins \in Nat
  BY <1>1 DEF EventCounts
<1>. DEFINE a == book[n].address
            p == SetAdmin(chain[a], admin)
<1>4. chain' = [chain EXCEPT ![a] = p]
  BY DEF SetProxyAdmin
<1>5. a \in DOMAIN chain => /\ p \in AccountStates /\ p.is = chain[a].is
                            /\ p.impl = chain[a].impl
  BY ChainIs, ProxyMoves, ZenonT(30) DEF Addresses
<1>. HIDE DEF a, p
<1>6. up' \in [Upgraders -> UpgradeProcesses]
  BY <1>2 DEF DeploymentTypes
<1>a. events'.kills >= events.kills /\ events'.admins >= events.admins
  BY <1>3
<1>b. a \in DOMAIN chain => /\ p \in AccountStates /\ p.is = chain[a].is
                            /\ chain[a].impl # NoAddress => p.impl # NoAddress
  BY <1>5
<1>7. Outside /\ DeploymentTypes'
  BY <1>1, <1>2, <1>3, <1>4, <1>b, <1>6, <1>a, ProxyIsCalled
<1>8. Left' \subseteq Left \union {a}
  <2>1. DOMAIN chain' = DOMAIN chain /\ \A x \in DOMAIN chain : x # a => chain'[x] = chain[x]
    BY <1>4, <1>5, CalledIs
  <2>2. \A x : Own(x) <=> Own(x)'
    BY <1>2 DEF Own
  <2>3. \A x \in DOMAIN chain : x # a => (Explained(x) <=> Explained(x)')
    BY <1>2, <2>1 DEF Explained, CanAccept, Answers, IsProxy
  <2>4. \A x \in Left' : x \in DOMAIN chain'
    BY DEF Left, Waiting
  <2>. QED
    BY <1>2, <2>1, <2>2, <2>3, <2>4, WasLeft
<1>9. events'.kills + events'.admins = events.kills + events.admins + 1
  BY <1>3
<1>10. WaitingCounted'
  BY <1>1, <1>8, <1>9, OneLeft
<1>. QED
  BY <1>7, <1>10

\* An upgrade that gave its proxy an implementation can accept it; those it
\* overwrote are no longer waited for.
LEMMA UpgradeOutside ==
    ASSUME DeploymentTypes, WaitingCounted, NEW u \in Upgraders, Upgrade(u)
    PROVE  Outside /\ DeploymentTypes' /\ WaitingCounted'
<1>1. UNCHANGED <<called, book, build, handed, process, events>>
  BY DEF Upgrade
<1>2. /\ events' \in EventCounts /\ up \in [Upgraders -> UpgradeProcesses]
      /\ events.kills \in Nat /\ events.admins \in Nat
  BY <1>1 DEF DeploymentTypes, EventCounts
<1>3. /\ events'.forced = events.forced /\ events'.deploys = events.deploys
      /\ events'.kills >= events.kills /\ events'.admins >= events.admins
  BY <1>1, <1>2
<1>4. up[u].pc = "upgrade" /\ up[u] \in UpgradeProcesses
  BY <1>2 DEF Upgrade
<1>. DEFINE a == up[u].proxy
            x == up[u].impl
<1>5. a \in Nat /\ x \in Nat
  BY <1>4 DEF UpgradeProcesses
<1>6. \A b : Own(b) <=> Own(b)'
  BY <1>1 DEF Own
<1>7. CASE UpgradeStatus(u)
  <2>. DEFINE p == UpgradeTo(chain[a], x)
  <2>1. /\ chain' = [chain EXCEPT ![a] = p]
        /\ up' = [up EXCEPT ![u].pc = "accept"]
    BY <1>7 DEF Upgrade, AfterUpgrade
  <2>2. /\ up' \in [Upgraders -> UpgradeProcesses]
        /\ up'[u].pc = "accept" /\ up'[u].proxy = a /\ up'[u].impl = x
        /\ up'[u].admin = up[u].admin
        /\ \A v \in Upgraders : v # u => up'[v] = up[v]
    BY <1>2, <1>4, <2>1 DEF UpgradeProcesses
  <2>3. a \in DOMAIN chain => /\ p \in AccountStates /\ p.is = chain[a].is
                              /\ chain[a].impl # NoAddress => p.impl # NoAddress
                              /\ p.pending = x /\ p.admin = chain[a].admin
    BY <1>5, ChainIs, ProxyMoves, ZenonT(30)
  <2>4. IsProxy(chain[a]) /\ chain[a].admin = up[u].admin
    BY <1>7 DEF UpgradeStatus, Answers
  <2>. HIDE DEF a, x, p
  <2>5. Outside /\ DeploymentTypes'
    BY <1>1, <1>2, <1>3, <2>1, <2>2, <2>3, ProxyIsCalled
  <2>6. /\ DOMAIN chain' = DOMAIN chain
        /\ a \in DOMAIN chain => chain'[a] = p
        /\ \A b \in DOMAIN chain : b # a => chain'[b] = chain[b]
    BY <2>1, <2>3, CalledIs
  <2>7. Left' \subseteq Left
    <3>1. ASSUME NEW b \in Left' PROVE b \in Left
      <4>1. b \in DOMAIN chain /\ chain'[b].pending # NoAddress /\ ~Explained(b)'
        BY <2>6 DEF Left, Waiting
      <4>2. b # a
        <5>1. SUFFICES ASSUME b = a PROVE FALSE
          OBVIOUS
        <5>2. chain'[a] = p /\ x # NoAddress
          BY <2>3, <2>6, <4>1, <5>1
        <5>3. CanAccept(chain'[a], x, up[u].admin)
          BY <2>3, <2>4, <4>1, <5>1, <5>2 DEF CanAccept, Answers, IsProxy
        <5>4. Explained(b)'
          BY <2>2, <5>1, <5>3 DEF Explained, CanAccept, Answers, IsProxy
        <5>. QED
          BY <4>1, <5>4
      <4>3. chain'[b] = chain[b] /\ up[u].pc # "accept"
        BY <1>4, <2>6, <4>1, <4>2
      <4>4. Explained(b) => Explained(b)'
        BY <2>2, <4>3, StillExplained
      <4>5. Own(b) => Own(b)'
        BY <1>6
      <4>. QED
        BY <1>1, <3>1, <4>1, <4>3, <4>4, <4>5, WasLeft
    <3>. QED
      BY <3>1
  <2>8. WaitingCounted'
    BY <1>2, <1>3, <2>7, NoneLeft
  <2>. QED
    BY <2>5, <2>8
<1>8. CASE ~UpgradeStatus(u)
  <2>1. chain' = chain /\ up' = [up EXCEPT ![u] = NoUpgrade]
    BY <1>8 DEF Upgrade
  <2>2. /\ up' \in [Upgraders -> UpgradeProcesses]
        /\ \A v \in Upgraders : v # u => up'[v] = up[v]
    BY <2>1, NoUpgradeIs, UpgraderMoves
  <2>3. DeploymentTypes'
    BY <1>1, <1>2, <2>1, <2>2 DEF DeploymentTypes
  <2>4. Outside
    BY <1>1, <1>3, <2>1 DEF Outside
  <2>5. \A b : Explained(b) => Explained(b)'
    BY <1>4, <2>1, <2>2, StillExplained
  <2>6. \A b \in Left' : b \in DOMAIN chain
    BY <2>1 DEF Left, Waiting
  <2>7. Left' \subseteq Left
    BY <1>1, <1>6, <2>1, <2>5, <2>6, WasLeft
  <2>8. WaitingCounted'
    BY <1>2, <1>3, <2>7, NoneLeft
  <2>. QED
    BY <2>3, <2>4, <2>8
<1>. QED
  BY <1>7, <1>8

\* An acceptance that fails explained nothing: another upgrade came between.
LEMMA AcceptOutside ==
    ASSUME DeploymentTypes, WaitingCounted, NEW u \in Upgraders, Accept(u)
    PROVE  Outside /\ DeploymentTypes' /\ WaitingCounted'
<1>1. UNCHANGED <<called, book, build, handed, process, events>>
  BY DEF Accept
<1>2. /\ events' \in EventCounts /\ up \in [Upgraders -> UpgradeProcesses]
      /\ events.kills \in Nat /\ events.admins \in Nat
  BY <1>1 DEF DeploymentTypes, EventCounts
<1>3. /\ events'.forced = events.forced /\ events'.deploys = events.deploys
      /\ events'.kills >= events.kills /\ events'.admins >= events.admins
  BY <1>1, <1>2
<1>4. up[u].pc = "accept" /\ up' = [up EXCEPT ![u] = NoUpgrade]
  BY DEF Accept
<1>5. /\ up' \in [Upgraders -> UpgradeProcesses]
      /\ \A v \in Upgraders : v # u => up'[v] = up[v]
  BY <1>4, NoUpgradeIs, UpgraderMoves
<1>6. \A b : Own(b) <=> Own(b)'
  BY <1>1 DEF Own
<1>. DEFINE a == up[u].proxy
            can == CanAccept(chain[a], up[u].impl, up[u].admin)
<1>7. CASE can
  <2>. DEFINE p == Accepted(chain[a])
  <2>1. chain' = [chain EXCEPT ![a] = p]
    BY <1>7 DEF Accept
  <2>2. a \in DOMAIN chain => /\ p \in AccountStates /\ p.is = chain[a].is
                              /\ p.impl # NoAddress
                              /\ p.pending = NoAddress
    BY <1>7, ChainIs, ProxyMoves DEF CanAccept
  <2>. HIDE DEF a, p
  <2>3. Outside /\ DeploymentTypes'
    BY <1>1, <1>2, <1>3, <1>5, <2>1, <2>2, ProxyIsCalled
  <2>4. /\ DOMAIN chain' = DOMAIN chain
        /\ a \in DOMAIN chain => chain'[a] = p
        /\ \A b \in DOMAIN chain : b # a => chain'[b] = chain[b]
    BY <2>1, <2>2, CalledIs
  <2>5. Left' \subseteq Left
    <3>1. ASSUME NEW b \in Left' PROVE b \in Left
      <4>1. b \in DOMAIN chain /\ chain'[b].pending # NoAddress
        BY <2>4 DEF Left, Waiting
      <4>2. b # a
        BY <2>2, <2>4, <4>1
      <4>3. Explained(b) => Explained(b)'
        BY <1>5, <2>4, <4>1, <4>2, StillExplained DEF a
      <4>. QED
        BY <1>1, <1>6, <2>4, <3>1, <4>1, <4>2, <4>3, WasLeft
    <3>. QED
      BY <3>1
  <2>6. WaitingCounted'
    BY <1>2, <1>3, <2>5, NoneLeft
  <2>. QED
    BY <2>3, <2>6
<1>8. CASE ~can
  <2>1. chain' = chain
    BY <1>8 DEF Accept
  <2>2. DeploymentTypes'
    BY <1>1, <1>2, <1>5, <2>1 DEF DeploymentTypes
  <2>3. Outside
    BY <1>1, <1>3, <2>1 DEF Outside
  <2>4. \A b : Explained(b) => Explained(b)'
    BY <1>5, <1>8, <2>1, StillExplained
  <2>5. \A b \in Left' : b \in DOMAIN chain
    BY <2>1 DEF Left, Waiting
  <2>6. Left' \subseteq Left
    BY <1>1, <1>6, <2>1, <2>4, <2>5, WasLeft
  <2>7. WaitingCounted'
    BY <1>2, <1>3, <2>6, NoneLeft
  <2>. QED
    BY <2>2, <2>3, <2>7
<1>. QED
  BY <1>7, <1>8

\* The multisig works on proxies that were handed to it.
LEMMA SendHandedOutside ==
    ASSUME DeploymentTypes, WaitingCounted, NEW tx \in handed, SendHanded(tx)
    PROVE  Outside /\ DeploymentTypes' /\ WaitingCounted'
<1>1. UNCHANGED <<called, book, build, handed, process, up, events>>
  BY DEF SendHanded
<1>2. /\ events' \in EventCounts /\ up' \in [Upgraders -> UpgradeProcesses]
      /\ events.kills \in Nat /\ events.admins \in Nat /\ tx \in HandedTransactions
  BY <1>1 DEF DeploymentTypes, EventCounts
<1>3. /\ events'.forced = events.forced /\ events'.deploys = events.deploys
      /\ events'.kills >= events.kills /\ events'.admins >= events.admins
  BY <1>1, <1>2
<1>4. \A b : Own(b) <=> Own(b)'
  BY <1>1 DEF Own
<1>. DEFINE a == tx.proxy
            sent == tx.fn = "upgrade" /\ Answers(chain[a], tx.admin)
            accepted == tx.fn = "acceptProxy" /\ CanAccept(chain[a], tx.impl, tx.admin)
            p == IF sent THEN UpgradeTo(chain[a], tx.impl)
                 ELSE IF accepted THEN Accepted(chain[a]) ELSE chain[a]
<1>5. chain' = [chain EXCEPT ![a] = p]
  <2>1. chain = [chain EXCEPT ![a] = chain[a]]
    BY DEF DeploymentTypes
  <2>. QED
    BY <2>1 DEF SendHanded
<1>6. a \in DOMAIN chain => /\ p \in AccountStates /\ p.is = chain[a].is
                            /\ chain[a].impl # NoAddress => p.impl # NoAddress
  BY <1>2, ChainIs, ProxyMoves, ZenonT(30) DEF HandedTransactions, CanAccept
<1>. HIDE DEF a, p
<1>7. Outside /\ DeploymentTypes'
  BY <1>1, <1>2, <1>3, <1>5, <1>6, ProxyIsCalled
<1>8. /\ DOMAIN chain' = DOMAIN chain
      /\ \A b \in DOMAIN chain : b # a => chain'[b] = chain[b]
  BY <1>5, <1>6, CalledIs
<1>9. Left' \subseteq Left
  <2>1. ASSUME NEW b \in Left' PROVE b \in Left
    <3>1. b \in DOMAIN chain /\ b # a
      BY <1>1, <1>8 DEF Left, Waiting, a
    <3>2. chain'[b] = chain[b]
      BY <1>8, <3>1
    <3>3. Explained(b) => Explained(b)'
      BY <1>1, <3>2 DEF Explained, CanAccept, Answers, IsProxy
    <3>. QED
      BY <1>1, <1>4, <2>1, <3>1, <3>2, <3>3, WasLeft
  <2>. QED
    BY <2>1
<1>10. WaitingCounted'
  BY <1>2, <1>3, <1>9, NoneLeft
<1>. QED
  BY <1>7, <1>10

\* A contract was deployed finitely often.
LEMMA AddressesAreFinite ==
    ASSUME DeploymentTypes, NEW n
    PROVE  IsFiniteSet(Addresses(n)) /\ Cardinality(Addresses(n)) \in Nat
<1>1. Addresses(n) \subseteq 1 .. Len(chain) /\ Len(chain) \in Nat
  BY ChainIs DEF Addresses
<1>2. IsFiniteSet(1 .. Len(chain))
  BY <1>1, FS_Interval
<1>. QED
  BY <1>1, <1>2, FS_Subset, FS_CardinalityType

\* No entry is above its top.
LEMMA LevelIs ==
    ASSUME DeploymentTypes, BookSound, NEW n \in Names
    PROVE  /\ Level(n) \in Int /\ Top(n) \in Int /\ Level(n) <= Top(n)
           /\ build[n] \in Nat \ {0} /\ build["GraphProxy"] \in Nat \ {0}
<1>1. /\ build[n] \in Nat \ {0} /\ build["GraphProxy"] \in Nat \ {0}
  BY DEF DeploymentTypes, Artifacts
<1>2. CASE Known(book, n) /\ book[n].proxy
  <2>1. Config[n].proxy /\ book[n].creation[2] \in 1 .. build["GraphProxy"]
    BY <1>2 DEF BookSound
  <2>. QED
    BY <1>1, <1>2, <2>1 DEF Level, Top, Extra
<1>3. CASE Known(book, n) /\ ~book[n].proxy
  <2>1. book[n].creation[2] \in 1 .. build[n]
    BY <1>3 DEF BookSound
  <2>. QED
    BY <1>1, <1>3, <2>1 DEF Level, Top, Extra
<1>4. CASE ~Known(book, n)
  BY <1>1, <1>4 DEF Level, Top, Extra
<1>. QED
  BY <1>1, <1>2, <1>3, <1>4

\* A larger allowance allows as much.
LEMMA RoomGrows ==
    ASSUME NEW c \in Int, NEW f \in Int, NEW l \in Int, NEW p \in Int, NEW q \in Int,
           NEW g \in Int, p <= q, c + f <= l + p + g
    PROVE  c + f <= l + q + g
OBVIOUS

\* A step that leaves the process alone keeps all but the count of the proxies
\* left over.
LEMMA OutsideKeeps ==
    ASSUME DeploymentInvariant, Outside, DeploymentTypes'
    PROVE  /\ ProcessSound' /\ BookSound' /\ ProxiesSound' /\ DeploymentsCounted'
           /\ StrandedCounted' /\ CallsSound'
<1>1. /\ DeploymentTypes /\ ProcessSound /\ BookSound /\ ProxiesSound /\ DeploymentsCounted
      /\ StrandedCounted /\ CallsSound
  BY DEF DeploymentInvariant
<1>2. called' = called /\ book' = book /\ build' = build /\ process' = process
  BY DEF Outside
<1>3. \A n : Known(book', n) <=> Known(book, n)
  BY <1>2
<1>4. Name' = Name /\ Saves' = Saves /\ Wraps' = Wraps /\ Migrates' = Migrates
  BY <1>2 DEF Name, Saves, Wraps, Migrates
<1>5. ProcessSound'
  BY <1>1, <1>2, <1>4 DEF ProcessSound, Outside, Wrapping
<1>6. BookSound'
  BY <1>1, <1>2, <1>3 DEF BookSound, Outside
<1>7. ProxiesSound'
  <2>1. \A a \in DOMAIN chain : RunsOrHanded(a) => RunsOrHanded(a)'
    BY DEF RunsOrHanded, Outside
  <2>2. SavedProxiesRun'
    BY <1>1, <1>2, <1>3, <2>1
       DEF ProxiesSound, SavedProxiesRun, BookSound, RunsOrHanded, Known
  <2>3. process.pc = "saveproxy" => process.proxy \in DOMAIN chain /\ RunsOrHanded(process.proxy)
    BY <1>1 DEF ProxiesSound, ProcessSound
  <2>4. process'.pc = "saveproxy" => RunsOrHanded(process.proxy)'
    BY <1>2, <2>1, <2>3 DEF RunsOrHanded
  <2>. QED
    BY <2>2, <2>4 DEF ProxiesSound
<1>8. DeploymentsCounted'
  <2>1. \A n \in Names : /\ Addresses(n)' = Addresses(n) /\ Level(n)' = Level(n)
                         /\ Prepaid(n)' = Prepaid(n) /\ Unsaved(n)' = Unsaved(n)
    <3>1. \A n \in Names : Addresses(n)' = Addresses(n)
      BY DEF Outside, Addresses
    <3>2. \A n \in Names : Level(n)' = Level(n)
      BY <1>2 DEF Level, Extra, Known
    <3>3. \A n \in Names : Prepaid(n)' = Prepaid(n)
      BY <1>2 DEF Prepaid, Ahead, Migrates
    <3>4. \A n \in Names : Unsaved(n)' = Unsaved(n)
      BY <1>2 DEF Unsaved, Unforced, Migrates, Name
    <3>. QED
      BY <3>1, <3>2, <3>3, <3>4
  <2>2. Paid <= Paid' /\ Paid \in Nat /\ Paid' \in Nat
    <3>1. /\ events.forced \in Nat /\ events.deploys \in Nat /\ events.kills \in Nat
          /\ events'.kills \in Nat
      BY <1>1 DEF DeploymentTypes, EventCounts
    <3>2. /\ events'.forced = events.forced /\ events'.deploys = events.deploys
          /\ events'.kills >= events.kills
      BY DEF Outside
    <3>. QED
      BY <3>1, <3>2 DEF Paid
  <2>3. ASSUME NEW n \in Names
        PROVE  Cardinality(Addresses(n)') + One(Prepaid(n)')
                           <= Level(n)' + Paid' + One(Unsaved(n)')
    <3>. DEFINE c == Cardinality(Addresses(n))
                l == Level(n)
                f == One(Prepaid(n))
                g == One(Unsaved(n))
    <3>1. c + f <= l + Paid + g
      BY <1>1 DEF DeploymentsCounted
    <3>2. c \in Nat /\ l \in Int
      BY <1>1, AddressesAreFinite, LevelIs
    <3>3. f \in {0, 1} /\ g \in {0, 1}
      BY DEF One
    <3>. HIDE DEF c, l, f, g
    <3>4. f \in Int /\ g \in Int
      BY <3>3
    <3>a. c \in Int /\ f \in Int /\ l \in Int /\ g \in Int
      BY <3>2, <3>4
    <3>b. Paid \in Int /\ Paid' \in Int /\ Paid <= Paid'
      BY <2>2
    <3>c. c + f <= l + Paid + g
      BY <3>1
    <3>5. c + f <= l + Paid' + g
      BY <3>a, <3>b, <3>c, RoomGrows
    <3>. QED
      BY <2>1, <3>5 DEF c, l, f, g, One
  <2>4. Unforced' = Unforced
    BY <1>2 DEF Unforced, Migrates
  <2>5. process'.pc \in {"library", "contract", "save"} /\ Unforced' => Level(Name)' < Top(Name)'
    <3>1. Level(Name)' = Level(Name) /\ Top(Name)' = Top(Name)
      BY <1>2 DEF Level, Top, Extra, Name, Known
    <3>. QED
      BY <1>1, <1>2, <2>4, <3>1 DEF DeploymentsCounted
  <2>. QED
    BY <2>3, <2>5 DEF DeploymentsCounted
<1>9. StrandedCounted'
  <2>1. /\ Stranded' = Stranded /\ Wrapping' = Wrapping /\ Saving' = Saving
    BY <1>2 DEF Stranded, Known, Wrapping, Saving
  <2>2. /\ events'.kills >= events.kills /\ events'.deploys = events.deploys
        /\ events.kills \in Nat /\ events.deploys \in Nat
        /\ events'.kills \in Nat /\ events'.deploys \in Nat
    BY <1>1 DEF Outside, DeploymentTypes, EventCounts
  <2>. DEFINE c == Cardinality(Stranded)
              f == One(Saving)
              g == One(Wrapping /\ Saves)
  <2>3. c + f <= events.kills + events.deploys + g
    BY <1>1 DEF StrandedCounted
  <2>4. c \in Nat /\ f \in {0, 1} /\ g \in {0, 1}
    BY NamesAre, FS_Subset, FS_CardinalityType DEF One, Stranded
  <2>5. c' = c /\ f' = f /\ g' = g
    BY <1>4, <2>1
  <2>6. c' + f' <= events'.kills + events'.deploys + g'
    <3>. HIDE DEF c, f, g
    <3>. QED
      BY <2>2, <2>3, <2>4, <2>5
  <2>7. (Wrapping /\ Saves)' => Name' \in Stranded'
    BY <1>1, <1>4, <2>1 DEF StrandedCounted
  <2>. QED
    BY <2>6, <2>7 DEF StrandedCounted
<1>10. CallsSound'
  BY <1>1, <1>2 DEF CallsSound, CallMade
<1>. QED
  BY <1>5, <1>6, <1>7, <1>8, <1>9, <1>10

\* What no step takes back.
Grows ==
    /\ handed \subseteq handed' /\ called \subseteq called'
    /\ DOMAIN chain \subseteq DOMAIN chain'
    /\ \A a \in DOMAIN chain :
          /\ chain'[a].is = chain[a].is
          /\ chain[a].impl # NoAddress => chain'[a].impl # NoAddress
    /\ \A a \in Artifacts : build[a] <= build'[a]

\* While the address book stays, its entries do.
LEMMA BookStays ==
    ASSUME DeploymentTypes, DeploymentTypes', BookSound, SavedProxiesRun, Grows, book' = book
    PROVE  BookSound' /\ SavedProxiesRun'
<1>1. \A n \in Names : Known(book', n) <=> Known(book, n)
  OBVIOUS
<1>2. BookSound'
  <2>1. \A a \in Artifacts : build[a] \in Nat /\ build'[a] \in Nat /\ build[a] <= build'[a]
    BY DEF DeploymentTypes, Grows
  <2>2. \A a \in Artifacts : \A i \in 1 .. build[a] : i \in 1 .. build'[a]
    BY <2>1
  <2>3. \A n \in Names : n \in Artifacts /\ "GraphProxy" \in Artifacts
    BY DEF Artifacts
  <2>. QED
    BY <1>1, <2>2, <2>3 DEF BookSound, Grows
<1>3. SavedProxiesRun'
  <2>1. \A n \in Names : Known(book, n) => book[n].address \in DOMAIN chain
    BY DEF BookSound
  <2>. QED
    BY <1>1, <2>1 DEF SavedProxiesRun, Grows
<1>. QED
  BY <1>2, <1>3

\* The counts of deployments, as numbers.
LEMMA CountedIs ==
    ASSUME DeploymentTypes, BookSound, DeploymentsCounted, NEW n \in Names
    PROVE  /\ Cardinality(Addresses(n)) \in Int /\ Level(n) \in Int /\ Paid \in Int
           /\ ~Prepaid(n) /\ ~Unsaved(n) => Cardinality(Addresses(n)) <= Level(n) + Paid
           /\ Prepaid(n) /\ ~Unsaved(n) => Cardinality(Addresses(n)) + 1 <= Level(n) + Paid
           /\ ~Prepaid(n) /\ Unsaved(n) => Cardinality(Addresses(n)) <= Level(n) + Paid + 1
           /\ Prepaid(n) /\ Unsaved(n) => Cardinality(Addresses(n)) <= Level(n) + Paid
<1>. DEFINE c == Cardinality(Addresses(n))
            l == Level(n)
            f == One(Prepaid(n))
            g == One(Unsaved(n))
<1>1. c + f <= l + Paid + g
  BY DEF DeploymentsCounted
<1>2. c \in Int /\ l \in Int
  BY AddressesAreFinite, LevelIs
<1>3. Paid \in Int
  BY DEF Paid, DeploymentTypes, EventCounts
<1>4. (Prepaid(n) => f = 1) /\ (~Prepaid(n) => f = 0) /\ (Unsaved(n) => g = 1) /\ (~Unsaved(n) => g = 0)
  BY DEF One
<1>. HIDE DEF c, l, f, g
<1>5. (f = 0 /\ g = 0 => c <= l + Paid) /\ (f = 1 /\ g = 0 => c + 1 <= l + Paid)
  BY <1>1, <1>2, <1>3
<1>6. (f = 0 /\ g = 1 => c <= l + Paid + 1) /\ (f = 1 /\ g = 1 => c <= l + Paid)
  BY <1>1, <1>2, <1>3
<1>. QED
  BY <1>2, <1>3, <1>4, <1>5, <1>6 DEF c, l

\* They are enough to bound them.
LEMMA CountedBy ==
    ASSUME NEW n, NEW c \in Int, NEW l \in Int, NEW p \in Int,
           c = Cardinality(Addresses(n)'), l = Level(n)', p = Paid',
           c <= l + p,
           Prepaid(n)' => c + 1 <= l + p
    PROVE  Cardinality(Addresses(n)') + One(Prepaid(n)') <= Level(n)' + Paid' + One(Unsaved(n)')
<1>. DEFINE f == One(Prepaid(n)')
            g == One(Unsaved(n)')
<1>1. g \in Int /\ 0 <= g
  BY DEF One
<1>2. f = 0 \/ (f = 1 /\ c + 1 <= l + p)
  BY DEF One
<1>. HIDE DEF f, g
<1>3. c + f <= l + p + g
  BY <1>1, <1>2
<1>. QED
  BY <1>3 DEF f, g

\* The count of stranded entries, as numbers.
LEMMA StrandedIs ==
    ASSUME DeploymentTypes, StrandedCounted
    PROVE  /\ Cardinality(Stranded) \in Int
           /\ events.kills \in Int /\ events.deploys \in Int
           /\ ~Saving /\ ~(Wrapping /\ Saves) =>
                Cardinality(Stranded) <= events.kills + events.deploys
           /\ Saving /\ ~(Wrapping /\ Saves) =>
                Cardinality(Stranded) + 1 <= events.kills + events.deploys
           /\ ~Saving /\ Wrapping /\ Saves =>
                Cardinality(Stranded) <= events.kills + events.deploys + 1
<1>. DEFINE c == Cardinality(Stranded)
            f == One(Saving)
            g == One(Wrapping /\ Saves)
            w == Wrapping /\ Saves
<1>1. c + f <= events.kills + events.deploys + g
  BY DEF StrandedCounted
<1>2. Stranded \subseteq Names
  BY DEF Stranded
<1>3. c \in Int
  BY <1>2, NamesAre, FS_Subset, FS_CardinalityType
<1>4. events.kills \in Int /\ events.deploys \in Int
  BY DEF DeploymentTypes, EventCounts
<1>5. (Saving => f = 1) /\ (~Saving => f = 0) /\ (w => g = 1) /\ (~w => g = 0)
  BY DEF One
<1>. HIDE DEF c, f, g, w
<1>6. /\ f = 0 /\ g = 0 => c <= events.kills + events.deploys
      /\ f = 1 /\ g = 0 => c + 1 <= events.kills + events.deploys
      /\ f = 0 /\ g = 1 => c <= events.kills + events.deploys + 1
  BY <1>1, <1>3, <1>4
<1>. QED
  BY <1>3, <1>4, <1>5, <1>6 DEF c, w

\* A new build raises what may be deployed, for entries up to date or not.
LEMMA RebuildKeeps ==
    ASSUME DeploymentInvariant, NEW r \in Artifacts, Rebuild(r)
    PROVE  DeploymentInvariant'
<1>1. /\ DeploymentTypes /\ ProcessSound /\ BookSound /\ ProxiesSound /\ DeploymentsCounted
      /\ StrandedCounted /\ CallsSound /\ WaitingCounted
  BY DEF DeploymentInvariant
<1>2. /\ chain' = chain /\ called' = called /\ book' = book /\ handed' = handed
      /\ process' = process /\ up' = up /\ process.pc = "off"
      /\ build' = [build EXCEPT ![r] = @ + 1]
  BY DEF Rebuild
<1>3. /\ events' \in EventCounts
      /\ events'.forced = events.forced /\ events'.deploys = events.deploys
      /\ events'.kills = events.kills /\ events'.admins = events.admins
  BY <1>1, EventsHappen DEF Rebuild
<1>4. /\ build' \in [Artifacts -> Nat \ {0}]
      /\ \A a \in Artifacts : build[a] \in Nat /\ build'[a] \in Nat /\ build[a] <= build'[a]
  BY <1>1, <1>2 DEF DeploymentTypes
<1>5. DeploymentTypes'
  BY <1>1, <1>2, <1>3, <1>4 DEF DeploymentTypes
<1>6. Grows
  BY <1>2, <1>4 DEF Grows
<1>7. ProcessSound'
  BY <1>1, <1>2 DEF ProcessSound, Wrapping
<1>8. BookSound' /\ SavedProxiesRun'
  BY <1>1, <1>2, <1>5, <1>6, BookStays DEF ProxiesSound
<1>9. ProxiesSound'
  BY <1>2, <1>8 DEF ProxiesSound
<1>10. DeploymentsCounted'
  <2>1. ASSUME NEW n \in Names
        PROVE  Cardinality(Addresses(n)') + One(Prepaid(n)') <= Level(n)' + Paid' + One(Unsaved(n)')
    <3>1. Addresses(n)' = Addresses(n) /\ Paid' = Paid
      BY <1>2, <1>3 DEF Addresses, Paid
    <3>2. ~Prepaid(n) /\ ~Unsaved(n) /\ ~Prepaid(n)'
      BY <1>2 DEF Prepaid, Unsaved
    <3>3. Level(n) <= Level(n)' /\ Level(n)' \in Int
      <4>1. Known(book', n) <=> Known(book, n)
        BY <1>2
      <4>2. Known(book, n) => book[n].creation[2] \in Nat
        BY <1>1 DEF BookSound, DeploymentTypes, BookEntries
      <4>3. n \in Artifacts /\ "GraphProxy" \in Artifacts
        BY DEF Artifacts
      <4>. QED
        BY <1>2, <1>4, <4>1, <4>2, <4>3 DEF Level, Extra
    <3>4. /\ Cardinality(Addresses(n)) \in Int /\ Level(n) \in Int /\ Paid \in Int
          /\ Cardinality(Addresses(n)) <= Level(n) + Paid
      BY <1>1, <3>2, CountedIs
    <3>5. Cardinality(Addresses(n)) <= Level(n)' + Paid
      BY <3>3, <3>4
    <3>. QED
      BY <3>1, <3>2, <3>3, <3>4, <3>5, CountedBy
  <2>. QED
    BY <1>2, <2>1 DEF DeploymentsCounted
<1>11. StrandedCounted'
  BY <1>1, <1>2, <1>3 DEF StrandedCounted, Stranded, Saving, Wrapping, Saves, Known
<1>12. CallsSound'
  BY <1>1, <1>2 DEF CallsSound, CallMade
<1>13. WaitingCounted'
  BY <1>1, <1>2, <1>3 DEF WaitingCounted, Left, Waiting, Own, Explained
<1>. QED
  BY <1>5, <1>7, <1>8, <1>9, <1>10, <1>11, <1>12, <1>13 DEF DeploymentInvariant

\* The process is gone: it is done, it threw, or it was killed.
LEMMA EndingKeeps ==
    ASSUME DeploymentInvariant, process' = NoProcess,
           UNCHANGED <<chain, called, book, build, handed, up>>,
           \/ process.pc \in {"check", "calls"} /\ events' = events
           \/ events' = [events EXCEPT !.kills = @ + 1]
    PROVE  DeploymentInvariant'
<1>1. /\ DeploymentTypes /\ ProcessSound /\ BookSound /\ ProxiesSound /\ DeploymentsCounted
      /\ StrandedCounted /\ CallsSound /\ WaitingCounted
  BY DEF DeploymentInvariant
<1>2. /\ process'.pc = "off" /\ process'.todo = <<>> /\ process'.pending = <<>>
      /\ process'.next = 1 /\ process' \in Processes /\ process'.cmd = ""
  BY NoProcessIs
<1>d. DOMAIN process'.todo = {} /\ DOMAIN process'.pending = {}
  <2>1. \A x : x = <<>> => DOMAIN x = {}
    OBVIOUS
  <2>. QED
    BY <1>2, <2>1
<1>e. events \in EventCounts
  BY <1>1 DEF DeploymentTypes
<1>3. /\ events' \in EventCounts
      /\ events'.forced = events.forced /\ events'.deploys = events.deploys
      /\ events'.admins = events.admins
      /\ events'.kills \in {events.kills, events.kills + 1}
      /\ process.pc \notin {"check", "calls"} => events'.kills = events.kills + 1
  BY <1>e DEF EventCounts
<1>4. /\ events.forced \in Int /\ events.deploys \in Int /\ events.kills \in Int
      /\ events.admins \in Int /\ events'.kills \in Int
  BY <1>e, <1>3 DEF EventCounts
<1>5. DeploymentTypes'
  BY <1>1, <1>2, <1>3 DEF DeploymentTypes
<1>6. Grows
  BY <1>1 DEF Grows, DeploymentTypes
<1>7. ProcessSound'
  BY <1>2, <1>d DEF ProcessSound, Wrapping
<1>8. BookSound' /\ SavedProxiesRun'
  BY <1>1, <1>5, <1>6, BookStays DEF ProxiesSound
<1>9. ProxiesSound'
  BY <1>2, <1>8 DEF ProxiesSound
<1>10. DeploymentsCounted'
  <2>1. ASSUME NEW n \in Names
        PROVE  Cardinality(Addresses(n)') + One(Prepaid(n)') <= Level(n)' + Paid' + One(Unsaved(n)')
    <3>1. Addresses(n)' = Addresses(n) /\ Level(n)' = Level(n)
      BY DEF Addresses, Level, Known, Extra
    <3>2. ~Prepaid(n)'
      BY <1>2 DEF Prepaid
    <3>3. /\ Cardinality(Addresses(n)) \in Int /\ Level(n) \in Int /\ Paid \in Int
          /\ ~Unsaved(n) => Cardinality(Addresses(n)) <= Level(n) + Paid
          /\ Cardinality(Addresses(n)) <= Level(n) + Paid + 1
      BY <1>1, CountedIs
    <3>4. /\ Paid' \in Int /\ Paid <= Paid'
          /\ Unsaved(n) => Paid' = Paid + 1
      BY <1>3, <1>4 DEF Paid, Unsaved
    <3>5. Cardinality(Addresses(n)) <= Level(n) + Paid'
      BY <3>3, <3>4
    <3>. QED
      BY <3>1, <3>2, <3>3, <3>4, <3>5, CountedBy
  <2>. QED
    BY <1>2, <2>1 DEF DeploymentsCounted
<1>11. StrandedCounted'
  <2>1. Stranded' = Stranded /\ ~Saving' /\ ~Wrapping'
    BY <1>2 DEF Stranded, Known, Saving, Wrapping
  <2>2. One(Saving') = 0 /\ One((Wrapping /\ Saves)') = 0
    BY <2>1 DEF One
  <2>3. /\ Cardinality(Stranded) \in Int
        /\ ~Wrapping => Cardinality(Stranded) <= events.kills + events.deploys
        /\ Cardinality(Stranded) <= events.kills + events.deploys + 1
    BY <1>1, <1>4, StrandedIs DEF Saving, Wrapping
  <2>4. Wrapping => events'.kills = events.kills + 1
    BY <1>3 DEF Wrapping
  <2>5. Cardinality(Stranded) <= events'.kills + events.deploys
    BY <1>3, <1>4, <2>3, <2>4
  <2>6. Cardinality(Stranded') + One(Saving') <= events'.kills + events'.deploys + One((Wrapping /\ Saves)')
    BY <1>3, <1>4, <2>1, <2>2, <2>3, <2>5
  <2>. QED
    BY <2>1, <2>6 DEF StrandedCounted
<1>12. CallsSound'
  BY <1>2, <1>d DEF CallsSound
<1>13. WaitingCounted'
  <2>1. \A a : Explained(a) => Explained(a)'
    BY DEF Explained
  <2>2. \A a : a # process.proxy => ~Own(a)
    BY DEF Own
  <2>3. \A a \in Left' : a \in DOMAIN chain
    BY DEF Left, Waiting
  <2>4. CASE events'.kills = events.kills + 1
    <3>1. Left' \subseteq Left \union {process.proxy}
      BY <1>1, <2>1, <2>2, <2>3, WasLeft
    <3>2. events'.kills + events'.admins = events.kills + events.admins + 1
      BY <1>3, <1>4, <2>4
    <3>. QED
      BY <1>1, <1>3, <3>1, <3>2, OneLeft
  <2>5. CASE process.pc \in {"check", "calls"}
    <3>1. \A a : ~Own(a)
      BY <2>5 DEF Own
    <3>2. Left' \subseteq Left
      BY <1>1, <2>1, <2>3, <3>1, WasLeft
    <3>. QED
      BY <1>1, <1>3, <1>4, <3>2, NoneLeft
  <2>. QED
    BY <1>3, <2>4, <2>5
<1>. QED
  BY <1>5, <1>7, <1>8, <1>9, <1>10, <1>11, <1>12, <1>13 DEF DeploymentInvariant

\* A process that starts copies the address book; what it will do without need
\* is paid for.
LEMMA StartingKeeps ==
    ASSUME DeploymentInvariant, process.pc = "off",
           UNCHANGED <<chain, called, book, build, handed, up>>,
           NEW pc, NEW cmd, NEW todo \in Seq(Names), NEW force \in BOOLEAN,
           Starts(pc, cmd, todo, force),
           todo # <<>>, \A i, j \in DOMAIN todo : todo[i] = todo[j] => i = j,
           \/ cmd = "migrate" /\ pc = "check"
           \/ /\ cmd \in {"deploy", "deploy-save", "deploy-with-proxy", "deploy-with-proxy-save"}
              /\ pc \in {"library", "contract"} /\ Len(todo) = 1 /\ ~force
              /\ cmd \in {"deploy-with-proxy", "deploy-with-proxy-save"} => Config[Head(todo)].proxy,
           events' \in EventCounts, events'.kills = events.kills, events'.admins = events.admins,
           events'.deploys = events.deploys + One(cmd # "migrate"),
           events'.forced = events.forced + One(force)
    PROVE  DeploymentInvariant'
<1>1. /\ DeploymentTypes /\ ProcessSound /\ BookSound /\ ProxiesSound /\ DeploymentsCounted
      /\ StrandedCounted /\ CallsSound /\ WaitingCounted
  BY DEF DeploymentInvariant
<1>2. /\ process' \in Processes
      /\ process'.pc = pc /\ process'.cmd = cmd /\ process'.todo = todo /\ process'.force = force
      /\ process'.book = book /\ process'.proxy = NoAddress /\ process'.next = 1
      /\ process'.pending = <<>>
  BY DEF Starts
<1>3. /\ chain' = chain /\ called' = called /\ book' = book /\ handed' = handed
      /\ build' = build /\ up' = up
  OBVIOUS
<1>4. events \in EventCounts
  BY <1>1 DEF DeploymentTypes
<1>5. /\ events.forced \in Int /\ events.deploys \in Int /\ events.kills \in Int
      /\ events.admins \in Int
  BY <1>4 DEF EventCounts
<1>6. DeploymentTypes'
  BY <1>1, <1>2, <1>3 DEF DeploymentTypes
<1>7. Grows
  BY <1>1, <1>3 DEF Grows, DeploymentTypes
<1>8. ProcessSound'
  <2>1. Name' = Head(todo) /\ Migrates' = (cmd = "migrate")
    BY <1>2 DEF Name, Migrates
  <2>2. pc \in {"library", "contract", "save"} /\ Wraps' => Config[Head(todo)].proxy
    BY <1>2, <2>1 DEF Wraps
  <2>3. process'.todo # <<>> /\ process'.pc # "off" /\ process'.cmd # "" /\ process'.book = book'
    BY <1>2, <1>3
  <2>4. \A i, j \in DOMAIN process'.todo : process'.todo[i] = process'.todo[j] => i = j
    BY <1>2
  <2>5. ~Migrates' => Len(process'.todo) <= 1 /\ process'.pc # "check" /\ ~process'.force
    <3>1. cmd # "migrate" => Len(todo) = 1 /\ pc # "check" /\ ~force
      OBVIOUS
    <3>2. \A k : k = 1 => k <= 1
      OBVIOUS
    <3>. QED
      BY <1>2, <2>1, <3>1, <3>2
  <2>6. process'.pc \notin {"save", "wrap", "accept", "print", "saveproxy"} /\ ~Wrapping'
    BY <1>2 DEF Wrapping
  <2>7. process'.pc \in {"library", "contract", "save"} /\ Wraps' => Config[Name'].proxy
    BY <1>2, <2>1, <2>2
  <2>. QED
    BY <1>2, <2>3, <2>4, <2>5, <2>6, <2>7 DEF ProcessSound
<1>9. BookSound' /\ SavedProxiesRun'
  BY <1>1, <1>3, <1>6, <1>7, BookStays DEF ProxiesSound
<1>10. ProxiesSound'
  BY <1>2, <1>9 DEF ProxiesSound
<1>11. DeploymentsCounted'
  <2>1. ASSUME NEW n \in Names
        PROVE  Cardinality(Addresses(n)') + One(Prepaid(n)') <= Level(n)' + Paid' + One(Unsaved(n)')
    <3>1. Addresses(n)' = Addresses(n) /\ Level(n)' = Level(n)
      BY <1>3 DEF Addresses, Level, Known, Extra
    <3>2. ~Prepaid(n) /\ ~Unsaved(n)
      BY DEF Prepaid, Unsaved
    <3>3. /\ Cardinality(Addresses(n)) \in Int /\ Level(n) \in Int /\ Paid \in Int
          /\ Cardinality(Addresses(n)) <= Level(n) + Paid
      BY <1>1, <3>2, CountedIs
    <3>4. /\ Paid' \in Int /\ Paid <= Paid'
          /\ Prepaid(n)' => Paid' = Paid + 1
      <4>1. Prepaid(n)' => force \/ cmd # "migrate"
        BY <1>2 DEF Prepaid, Migrates
      <4>2. ~(force /\ cmd # "migrate")
        OBVIOUS
      <4>3. events'.deploys = events.deploys + (IF cmd # "migrate" THEN 1 ELSE 0)
        BY DEF One
      <4>4. events'.forced = events.forced + (IF force THEN 1 ELSE 0)
        BY DEF One
      <4>5. /\ cmd # "migrate" /\ ~force => Paid' = Paid + 1
            /\ cmd = "migrate" /\ force => Paid' = Paid + 1
            /\ cmd = "migrate" /\ ~force => Paid' = Paid
        BY <1>5, <4>3, <4>4 DEF Paid
      <4>6. Paid \in Int
        BY <1>5 DEF Paid
      <4>. QED
        BY <4>1, <4>2, <4>5, <4>6
    <3>5. /\ Cardinality(Addresses(n)) <= Level(n) + Paid'
          /\ Prepaid(n)' => Cardinality(Addresses(n)) + 1 <= Level(n) + Paid'
      BY <3>3, <3>4
    <3>. QED
      BY <3>1, <3>3, <3>4, <3>5, CountedBy
  <2>2. ~(process'.pc \in {"library", "contract", "save"} /\ Unforced')
    BY <1>2 DEF Unforced, Migrates
  <2>. QED
    BY <2>1, <2>2 DEF DeploymentsCounted
<1>12. StrandedCounted'
  <2>1. Stranded' = Stranded /\ ~Wrapping' /\ ~Wrapping /\ ~Saving
    BY <1>2, <1>3 DEF Stranded, Known, Saving, Wrapping
  <2>2. Cardinality(Stranded) \in Int /\ Cardinality(Stranded) <= events.kills + events.deploys
    BY <1>1, <2>1, StrandedIs
  <2>3. Saving' => cmd # "migrate"
    BY <1>2 DEF Saving
  <2>4. Cardinality(Stranded) + One(Saving') <= events'.kills + events'.deploys
    BY <1>5, <2>2, <2>3 DEF One
  <2>5. One((Wrapping /\ Saves)') = 0
    BY <2>1 DEF One
  <2>6. events'.kills + events'.deploys \in Int
    BY <1>5 DEF One
  <2>7. events'.kills + events'.deploys + One((Wrapping /\ Saves)') = events'.kills + events'.deploys
    BY <2>5, <2>6
  <2>. QED
    BY <2>1, <2>4, <2>7 DEF StrandedCounted
<1>13. CallsSound'
  <2>1. \A x : x = <<>> => DOMAIN x = {}
    OBVIOUS
  <2>2. DOMAIN process'.pending = {}
    BY <1>2, <2>1
  <2>. QED
    BY <1>2, <2>2 DEF CallsSound
<1>14. WaitingCounted'
  <2>1. \A a : ~Own(a)
    BY DEF Own
  <2>2. \A a : Explained(a) => Explained(a)'
    BY <1>3 DEF Explained
  <2>3. \A a \in Left' : a \in DOMAIN chain
    BY <1>3 DEF Left, Waiting
  <2>4. Left' \subseteq Left
    BY <1>1, <1>3, <2>1, <2>2, <2>3, WasLeft
  <2>5. events'.kills >= events.kills /\ events'.admins >= events.admins
    BY <1>5
  <2>. QED
    BY <1>1, <2>4, <2>5, NoneLeft
<1>. QED
  BY <1>6, <1>8, <1>9, <1>10, <1>11, <1>12, <1>13, <1>14 DEF DeploymentInvariant

\* The commands start.
LEMMA SomeStartKeeps ==
    ASSUME DeploymentInvariant, SomeStart
    PROVE  DeploymentInvariant'
<1>1. DeploymentTypes
  BY DEF DeploymentInvariant
<1>2. \A n \in Names :
        LET s == <<n>> IN /\ s \in Seq(Names) /\ s # <<>> /\ Len(s) = 1 /\ Head(s) = n
                          /\ \A i, j \in DOMAIN s : s[i] = s[j] => i = j
  OBVIOUS
<1>3. ASSUME NEW todo \in Seq(Names), NEW force \in BOOLEAN, StartMigrate(todo, force),
             todo # <<>>, \A i, j \in DOMAIN todo : todo[i] = todo[j] => i = j
      PROVE  DeploymentInvariant'
  <2>1. /\ process.pc = "off"
        /\ UNCHANGED <<chain, called, book, build, handed, up>>
    BY <1>3 DEF StartMigrate
  <2>2. /\ Starts("check", "migrate", todo, force)
        /\ events' \in EventCounts
        /\ events'.kills = events.kills /\ events'.deploys = events.deploys
        /\ events'.admins = events.admins
        /\ events'.forced = events.forced + (IF force THEN 1 ELSE 0)
    BY <1>1, <1>3, MigrateStarts
  <2>3. /\ events'.deploys = events.deploys + One("migrate" # "migrate")
        /\ events'.forced = events.forced + One(force)
    BY <1>1, <2>2 DEF One, DeploymentTypes, EventCounts
  <2>. QED
    BY <1>3, <2>1, <2>2, <2>3, StartingKeeps
<1>4. ASSUME NEW n \in Names, NEW buildTx \in BOOLEAN,
             NEW cmd \in {"deploy", "deploy-save", "deploy-with-proxy", "deploy-with-proxy-save"},
             cmd \in {"deploy-with-proxy", "deploy-with-proxy-save"} => Config[n].proxy,
             StartDeploy(cmd, n, buildTx)
      PROVE  DeploymentInvariant'
  <2>. DEFINE todo == <<n>>
              first == FirstStep(n)
  <2>1. /\ process.pc = "off"
        /\ UNCHANGED <<chain, called, book, build, handed, up>>
    BY <1>4 DEF StartDeploy
  <2>2. /\ Starts(first, cmd, todo, FALSE)
        /\ first \in {"library", "contract"}
        /\ events' \in EventCounts
        /\ events'.kills = events.kills /\ events'.deploys = events.deploys + 1
        /\ events'.admins = events.admins /\ events'.forced = events.forced
    BY <1>1, <1>4, DeployStarts
  <2>3. /\ events'.deploys = events.deploys + One(cmd # "migrate")
        /\ events'.forced = events.forced + One(FALSE)
    BY <1>1, <2>2, SMTT(20) DEF One, DeploymentTypes, EventCounts
  <2>4. /\ todo \in Seq(Names) /\ todo # <<>> /\ Len(todo) = 1 /\ Head(todo) = n
        /\ \A i, j \in DOMAIN todo : todo[i] = todo[j] => i = j
    BY <1>2
  <2>. HIDE DEF todo, first
  <2>. QED
    BY <1>4, <2>1, <2>2, <2>3, <2>4, StartingKeeps
<1>5. Order \in Seq(Names) /\ Order # <<>> /\ \A i, j \in DOMAIN Order : Order[i] = Order[j] => i = j
  BY NamesAre, DeploymentAssumption
<1>. QED
  BY <1>2, <1>3, <1>4, <1>5 DEF SomeStart

\* The process changes no more than where it is and what it deployed.
SameTask ==
    /\ process'.cmd = process.cmd /\ process'.todo = process.todo
    /\ process'.force = process.force /\ process'.buildTx = process.buildTx
    /\ process'.book = process.book /\ process'.pending = process.pending

\* While the process stays with its contract, so do its calls.
LEMMA CallsStay ==
    ASSUME CallsSound, process.pc # "calls", SameTask, process'.next = process.next,
           book' = book, called \subseteq called'
    PROVE  CallsSound'
BY DEF CallsSound, SameTask, CallMade

\* While the address book stays, so do the stranded entries.
LEMMA StrandedStays ==
    ASSUME StrandedCounted, Stranded' = Stranded, Saving' <=> Saving,
           (Wrapping /\ Saves)' <=> (Wrapping /\ Saves), process'.todo = process.todo,
           events' = events
    PROVE  StrandedCounted'
<1>1. Name' = Name
  BY DEF Name
<1>2. One(Saving') = One(Saving) /\ One((Wrapping /\ Saves)') = One(Wrapping /\ Saves)
  BY DEF One
<1>. QED
  BY <1>1, <1>2 DEF StrandedCounted

\* An account that is deployed is no proxy left over.
LEMMA DeployedWaits ==
    ASSUME DeploymentTypes, WaitingCounted, NEW account \in AccountStates, Deployed(account),
           NEW fresh, fresh = Newest, IsProxy(account) => Own(fresh)',
           process.pc \notin {"accept", "print"},
           handed' = handed, up' = up, events' = events
    PROVE  WaitingCounted'
<1>1. /\ DOMAIN chain' = DOMAIN chain \union {Newest} /\ chain'[Newest] = account
      /\ \A a \in DOMAIN chain : chain'[a] = chain[a]
  BY DeployedIs
<1>2. ASSUME NEW a \in Left' PROVE a \in Left
  <2>1. a \in DOMAIN chain' /\ IsProxy(chain'[a]) /\ ~Own(a)'
    BY DEF Left, Waiting
  <2>2. a # Newest
    BY <1>1, <2>1
  <2>3. a \in DOMAIN chain /\ chain'[a] = chain[a]
    BY <1>1, <2>1, <2>2
  <2>4. Explained(a) => Explained(a)'
    BY <2>3 DEF Explained, CanAccept, Answers, IsProxy
  <2>5. ~Own(a)
    BY DEF Own
  <2>. QED
    BY <1>2, <2>3, <2>4, <2>5, WasLeft
<1>3. events \in EventCounts
  BY DEF DeploymentTypes
<1>. QED
  BY <1>2, <1>3, NoneLeft DEF EventCounts

\* It is counted for its own contract only.
LEMMA DeployedGrows ==
    ASSUME DeploymentTypes, NEW account \in AccountStates, Deployed(account),
           UNCHANGED <<called, book, build, handed, up, events>>, process' \in Processes
    PROVE  /\ Grows /\ DeploymentTypes'
           /\ \A n \in Names : n # account.is => Addresses(n)' = Addresses(n)
           /\ \A n \in Names : n = account.is =>
                 Cardinality(Addresses(n)') = Cardinality(Addresses(n)) + 1
<1>1. /\ chain' \in Seq(AccountStates)
      /\ DOMAIN chain' = DOMAIN chain \union {Newest} /\ chain'[Newest] = account
      /\ \A a \in DOMAIN chain : chain'[a] = chain[a]
      /\ Newest \notin DOMAIN chain
  BY DeployedIs, ChainIs
<1>2. DeploymentTypes'
  BY <1>1 DEF DeploymentTypes
<1>3. Grows
  BY <1>1 DEF Grows, DeploymentTypes
<1>4. \A n \in Names : n # account.is => Addresses(n)' = Addresses(n)
  BY <1>1 DEF Addresses
<1>5. ASSUME NEW n \in Names, n = account.is
      PROVE  Cardinality(Addresses(n)') = Cardinality(Addresses(n)) + 1
  <2>1. Addresses(n)' = Addresses(n) \union {Newest} /\ Newest \notin Addresses(n)
    BY <1>1, <1>5 DEF Addresses
  <2>2. IsFiniteSet(Addresses(n))
    BY AddressesAreFinite
  <2>. HIDE DEF Newest
  <2>. QED
    BY <2>1, <2>2, FS_AddElement
<1>. QED
  BY <1>2, <1>3, <1>4, <1>5

\* The parts of the invariant.
LEMMA Parts ==
    ASSUME DeploymentInvariant
    PROVE  /\ DeploymentTypes /\ ProcessSound /\ BookSound /\ ProxiesSound /\ SavedProxiesRun
           /\ DeploymentsCounted /\ StrandedCounted /\ CallsSound /\ WaitingCounted
BY DEF DeploymentInvariant, ProxiesSound

\* A library is no contract of the configuration.
LEMMA DeployLibraryKeeps ==
    ASSUME DeploymentInvariant, DeployLibrary
    PROVE  DeploymentInvariant'
<1>1. /\ process.pc = "library" /\ Deployed(Account("library", 1))
      /\ UNCHANGED <<called, book, build, handed, up, events>>
  BY DEF DeployLibrary
<1>2. process \in Processes
  BY Parts DEF DeploymentTypes
<1>3. /\ process' \in Processes /\ process'.pc = "contract" /\ SameTask
      /\ process'.next = process.next /\ process'.impl = process.impl
      /\ process'.proxy = process.proxy
  BY <1>2 DEF DeployLibrary, Processes, SameTask
<1>. DEFINE account == Account("library", 1)
<1>4. account \in AccountStates /\ account.is = "library"
  BY AccountTyped DEF Account
<1>. HIDE DEF account
<1>5. /\ Grows /\ DeploymentTypes'
      /\ \A n \in Names : Addresses(n)' = Addresses(n)
  BY <1>1, <1>3, <1>4, Parts, NamesAre, DeployedGrows DEF account
<1>6. Name' = Name /\ Saves' = Saves /\ Wraps' = Wraps /\ Migrates' = Migrates
  BY <1>3 DEF Name, Saves, Wraps, Migrates, SameTask
<1>7. ProcessSound'
  BY <1>1, <1>3, <1>6, Parts DEF ProcessSound, SameTask, Wrapping
<1>8. BookSound' /\ ProxiesSound'
  BY <1>1, <1>3, <1>5, Parts, BookStays DEF ProxiesSound
<1>9. DeploymentsCounted'
  <2>1. ASSUME NEW n \in Names
        PROVE  Cardinality(Addresses(n)') + One(Prepaid(n)') <= Level(n)' + Paid' + One(Unsaved(n)')
    <3>1. Addresses(n)' = Addresses(n) /\ Level(n)' = Level(n) /\ Paid' = Paid
      BY <1>1, <1>5 DEF Level, Known, Extra, Paid
    <3>2. ~Unsaved(n)
      BY <1>1 DEF Unsaved
    <3>3. Prepaid(n)' => Prepaid(n)
      BY <1>1, <1>3, <1>6 DEF Prepaid, Ahead, SameTask
    <3>4. /\ Cardinality(Addresses(n)) \in Int /\ Level(n) \in Int /\ Paid \in Int
          /\ ~Prepaid(n) => Cardinality(Addresses(n)) <= Level(n) + Paid
          /\ Prepaid(n) => Cardinality(Addresses(n)) + 1 <= Level(n) + Paid
      BY <3>2, Parts, CountedIs
    <3>5. Cardinality(Addresses(n)) <= Level(n) + Paid
      BY <3>4
    <3>. QED
      BY <3>1, <3>3, <3>4, <3>5, CountedBy
  <2>2. Unforced' = Unforced /\ Level(Name)' = Level(Name) /\ Top(Name)' = Top(Name)
    BY <1>1, <1>3, <1>6 DEF Unforced, SameTask, Level, Known, Extra, Top
  <2>. QED
    BY <1>1, <1>6, <2>1, <2>2, Parts DEF DeploymentsCounted
<1>10. StrandedCounted'
  <2>1. Stranded' = Stranded /\ (Saving' <=> Saving) /\ ~Wrapping' /\ ~Wrapping
    BY <1>1, <1>3 DEF Stranded, Known, Saving, Wrapping, SameTask
  <2>. QED
    BY <1>1, <1>3, <2>1, Parts, StrandedStays DEF SameTask
<1>11. CallsSound'
  BY <1>1, <1>3, Parts, CallsStay
<1>12. WaitingCounted'
  BY <1>1, <1>4, Parts, DeployedWaits DEF account, IsProxy
<1>. QED
  BY <1>5, <1>7, <1>8, <1>9, <1>10, <1>11, <1>12 DEF DeploymentInvariant

\* A deployment was paid for when the process started, or is owed by the entry
\* that is written next.
LEMMA DeployContractKeeps ==
    ASSUME DeploymentInvariant, DeployContract
    PROVE  DeploymentInvariant'
<1>1. /\ process.pc = "contract" /\ Deployed(Account(Name, build[Name]))
      /\ UNCHANGED <<called, book, build, handed, up, events>>
  BY DEF DeployContract
<1>2. process \in Processes
  BY Parts DEF DeploymentTypes
<1>. DEFINE pc == IF Saves THEN "save" ELSE IF Wraps THEN "wrap" ELSE "calls"
<1>3. /\ process' \in Processes /\ process'.pc = pc /\ SameTask
      /\ process'.next = process.next /\ process'.impl = Newest
      /\ process'.proxy = process.proxy
  <2>1. Newest \in Nat /\ pc \in {"save", "wrap", "calls"}
    BY Parts, ChainIs
  <2>2. process' = [process EXCEPT !.impl = Newest, !.pc = pc]
    BY DEF DeployContract
  <2>. HIDE DEF pc
  <2>. QED
    BY <1>2, <2>1, <2>2 DEF Processes, SameTask
<1>n. Name \in Names /\ Name = process.todo[1]
  BY <1>1, Parts, NameIs
<1>. DEFINE account == Account(Name, build[Name])
<1>4. account \in AccountStates /\ account.is = Name
  <2>1. build[Name] \in Nat /\ Name \in Artifacts
    BY <1>n, Parts DEF DeploymentTypes, Artifacts
  <2>. QED
    BY <2>1, AccountTyped DEF Account
<1>. HIDE DEF account
<1>5. /\ Grows /\ DeploymentTypes'
      /\ \A n \in Names : n # Name => Addresses(n)' = Addresses(n)
      /\ \A n \in Names : n = Name => Cardinality(Addresses(n)') = Cardinality(Addresses(n)) + 1
  BY <1>1, <1>3, <1>4, Parts, DeployedGrows DEF account
<1>6. Name' = Name /\ Saves' = Saves /\ Wraps' = Wraps /\ Migrates' = Migrates
  BY <1>3 DEF Name, Saves, Wraps, Migrates, SameTask
<1>7. ProcessSound'
  <2>1. Newest \in DOMAIN chain'
    BY <1>1, <1>4, Parts, DeployedIs DEF account
  <2>. HIDE DEF Newest
  <2>2. Wraps => Config[Name].proxy
    BY <1>1, Parts DEF ProcessSound
  <2>3. Wrapping' => Wraps /\ Config[Name].proxy
    BY <1>3, <2>2 DEF Wrapping
  <2>4. process'.pc \in {"save", "saveproxy"} => Saves
    BY <1>3
  <2>. HIDE DEF pc
  <2>5. pc \in {"save", "wrap", "calls"}
    BY DEF pc
  <2>. QED
    BY <1>1, <1>3, <1>6, <2>1, <2>2, <2>3, <2>4, <2>5, Parts DEF ProcessSound, SameTask
<1>8. BookSound' /\ ProxiesSound'
  BY <1>1, <1>3, <1>5, Parts, BookStays DEF ProxiesSound
<1>9. DeploymentsCounted'
  <2>1. ASSUME NEW n \in Names
        PROVE  Cardinality(Addresses(n)') + One(Prepaid(n)') <= Level(n)' + Paid' + One(Unsaved(n)')
    <3>1. Level(n)' = Level(n) /\ Paid' = Paid
      BY <1>1 DEF Level, Known, Extra, Paid
    <3>2. ~Unsaved(n)
      BY <1>1 DEF Unsaved
    <3>3. /\ Cardinality(Addresses(n)) \in Int /\ Level(n) \in Int /\ Paid \in Int
          /\ ~Prepaid(n) => Cardinality(Addresses(n)) <= Level(n) + Paid
          /\ Prepaid(n) => Cardinality(Addresses(n)) + 1 <= Level(n) + Paid
      BY <3>2, Parts, CountedIs
    <3>4. CASE n # Name
      <4>1. Prepaid(n)' => Prepaid(n)
        BY <1>1, <1>n, <1>3, <1>6, <3>4 DEF Prepaid, Ahead, SameTask
      <4>2. Cardinality(Addresses(n)) <= Level(n) + Paid
        BY <3>3
      <4>3. Addresses(n)' = Addresses(n)
        BY <1>5, <3>4
      <4>. QED
        BY <3>1, <3>3, <4>1, <4>2, <4>3, CountedBy
    <3>5. CASE n = Name
      <4>1. process.todo # <<>> /\ process.todo \in Seq(Names) /\ 1 \in DOMAIN process.todo
        BY <1>1, Parts, NameIs
      <4>2. ~Prepaid(n)'
        <5>1. \A i \in DOMAIN process.todo : process.todo[i] = n => i = 1
          BY <1>n, <3>5, <4>1, Parts DEF ProcessSound
        <5>2. process'.pc \notin {"check", "library", "contract"}
          BY <1>3
        <5>. QED
          BY <1>3, <5>1, <5>2 DEF Prepaid, Ahead, SameTask
      <4>3. Cardinality(Addresses(n)') = Cardinality(Addresses(n)) + 1
        BY <1>5, <3>5
      <4>4. CASE Prepaid(n)
        <5>1. Cardinality(Addresses(n)) + 1 <= Level(n) + Paid
          BY <3>3, <4>4
        <5>. QED
          BY <3>1, <3>3, <4>2, <4>3, <5>1, CountedBy
      <4>5. CASE ~Prepaid(n)
        <5>1. Ahead(n)
          BY <1>1, <1>n, <3>5, <4>1 DEF Ahead
        <5>2. Migrates /\ ~process.force
          BY <1>1, <4>5, <5>1 DEF Prepaid
        <5>3. Unsaved(n)'
          BY <1>3, <1>6, <3>5, <5>2 DEF Unsaved, Unforced, SameTask, Saves, Migrates
        <5>4. One(Unsaved(n)') = 1 /\ One(Prepaid(n)') = 0
          BY <4>2, <5>3 DEF One
        <5>5. Cardinality(Addresses(n)) <= Level(n) + Paid
          BY <3>3, <4>5
        <5>6. Cardinality(Addresses(n)) + 1 + 0 <= Level(n) + Paid + 1
          BY <3>3, <5>5
        <5>. QED
          BY <3>1, <4>3, <5>4, <5>6
      <4>. QED
        BY <4>4, <4>5
    <3>. QED
      BY <3>4, <3>5
  <2>2. Unforced' = Unforced /\ Level(Name)' = Level(Name) /\ Top(Name)' = Top(Name)
    BY <1>1, <1>3, <1>6 DEF Unforced, SameTask, Level, Known, Extra, Top
  <2>. QED
    BY <1>1, <1>6, <2>1, <2>2, Parts DEF DeploymentsCounted
<1>10. StrandedCounted'
  <2>1. Stranded' = Stranded /\ ~Wrapping
    BY <1>1 DEF Stranded, Known, Wrapping
  <2>2. ~(Wrapping' /\ Saves')
    BY <1>3, <1>6 DEF Wrapping
  <2>3. Saving' <=> Saving
    BY <1>1, <1>3 DEF Saving, Saves, SameTask
  <2>. QED
    BY <1>1, <1>3, <2>1, <2>2, <2>3, Parts, StrandedStays DEF SameTask
<1>11. CallsSound'
  BY <1>1, <1>3, Parts, CallsStay
<1>12. WaitingCounted'
  BY <1>1, <1>4, <1>n, Parts, NamesAre, DeployedWaits DEF account, IsProxy
<1>. QED
  BY <1>5, <1>7, <1>8, <1>9, <1>10, <1>11, <1>12 DEF DeploymentInvariant

\* A proxy is the process's own until it is accepted or printed.
LEMMA DeployProxyKeeps ==
    ASSUME DeploymentInvariant, DeployProxy
    PROVE  DeploymentInvariant'
<1>1. /\ process.pc = "wrap"
      /\ Deployed(Proxy(build["GraphProxy"], process.impl, AdminAddress))
      /\ UNCHANGED <<called, book, build, handed, up, events>>
  BY DEF DeployProxy
<1>2. process \in Processes
  BY Parts DEF DeploymentTypes
<1>. DEFINE pc == IF process.buildTx THEN "print" ELSE "accept"
<1>p. pc \in {"print", "accept"}
  OBVIOUS
<1>. HIDE DEF pc
<1>3. /\ process' \in Processes /\ process'.pc = pc /\ SameTask
      /\ process'.next = process.next /\ process'.impl = process.impl
      /\ process'.proxy = Newest
  <2>1. Newest \in Nat
    BY Parts, ChainIs
  <2>2. process' = [process EXCEPT !.proxy = Newest, !.pc = pc]
    BY DEF DeployProxy, AfterProxy, pc
  <2>. HIDE DEF Newest
  <2>. QED
    BY <1>2, <1>p, <2>1, <2>2 DEF Processes, SameTask
<1>. DEFINE account == Proxy(build["GraphProxy"], process.impl, AdminAddress)
<1>4. account \in AccountStates /\ account.is = "GraphProxy"
  <2>1. build["GraphProxy"] \in Nat
    BY Parts DEF DeploymentTypes, Artifacts
  <2>2. process.impl \in Nat /\ AdminAddress \in Nat
    BY <1>2, NamesAre DEF AdminAddress, Processes, BookEntries
  <2>. QED
    BY <2>1, <2>2, ProxyTyped
<1>. HIDE DEF account
<1>5. /\ Grows /\ DeploymentTypes'
      /\ \A n \in Names : Addresses(n)' = Addresses(n)
  BY <1>1, <1>3, <1>4, Parts, NamesAre, DeployedGrows DEF account
<1>6. Name' = Name /\ Saves' = Saves /\ Wraps' = Wraps /\ Migrates' = Migrates
  BY <1>3 DEF Name, Saves, Wraps, Migrates, SameTask
<1>7. ProcessSound'
  <2>1. Newest \in DOMAIN chain' /\ DOMAIN chain \subseteq DOMAIN chain'
    BY <1>1, <1>4, Parts, DeployedIs DEF account
  <2>. HIDE DEF Newest
  <2>2. Wraps /\ Config[Name].proxy
    BY <1>1, Parts DEF ProcessSound, Wrapping
  <2>. QED
    BY <1>1, <1>p, <1>3, <1>6, <2>1, <2>2, Parts, ZenonT(30) DEF ProcessSound, SameTask
<1>8. BookSound' /\ ProxiesSound'
  BY <1>1, <1>p, <1>3, <1>5, Parts, BookStays DEF ProxiesSound
<1>9. DeploymentsCounted'
  <2>1. ASSUME NEW n \in Names
        PROVE  Cardinality(Addresses(n)') + One(Prepaid(n)') <= Level(n)' + Paid' + One(Unsaved(n)')
    <3>1. Addresses(n)' = Addresses(n) /\ Level(n)' = Level(n) /\ Paid' = Paid
      BY <1>1, <1>5 DEF Level, Known, Extra, Paid
    <3>2. ~Unsaved(n)
      BY <1>1 DEF Unsaved
    <3>3. Prepaid(n)' => Prepaid(n)
      BY <1>1, <1>p, <1>3, <1>6 DEF Prepaid, Ahead, SameTask
    <3>4. /\ Cardinality(Addresses(n)) \in Int /\ Level(n) \in Int /\ Paid \in Int
          /\ ~Prepaid(n) => Cardinality(Addresses(n)) <= Level(n) + Paid
          /\ Prepaid(n) => Cardinality(Addresses(n)) + 1 <= Level(n) + Paid
      BY <3>2, Parts, CountedIs
    <3>5. Cardinality(Addresses(n)) <= Level(n) + Paid
      BY <3>4
    <3>. QED
      BY <3>1, <3>3, <3>4, <3>5, CountedBy
  <2>. QED
    BY <1>p, <1>3, <2>1 DEF DeploymentsCounted
<1>10. StrandedCounted'
  <2>1. Stranded' = Stranded /\ ~Saving' /\ ~Saving /\ Wrapping' /\ Wrapping
    BY <1>1, <1>p, <1>3 DEF Stranded, Known, Saving, Wrapping, SameTask
  <2>. QED
    BY <1>1, <1>3, <1>6, <2>1, Parts, StrandedStays DEF SameTask
<1>11. CallsSound'
  BY <1>1, <1>3, Parts, CallsStay
<1>12. WaitingCounted'
  <2>1. PICK fresh : fresh = Newest
    OBVIOUS
  <2>2. Own(fresh)'
    BY <1>p, <1>3, <2>1 DEF Own
  <2>. QED
    BY <1>1, <1>4, <2>1, <2>2, Parts, DeployedWaits DEF account
<1>. QED
  BY <1>5, <1>7, <1>8, <1>9, <1>10, <1>11, <1>12 DEF DeploymentInvariant

\* The process goes on after the acceptance, or after it was printed.
AcceptedNext ==
    /\ process.pc \in {"accept", "print"}
    /\ process' \in Processes /\ SameTask
    /\ process'.pc = (IF Saves THEN "saveproxy" ELSE "calls")
    /\ process'.next = process.next /\ process'.impl = process.impl
    /\ process'.proxy = process.proxy
    /\ UNCHANGED <<called, book, build, up, events>>
    /\ chain' \in Seq(AccountStates) /\ DOMAIN chain' = DOMAIN chain
    /\ \A a \in DOMAIN chain : /\ chain'[a].is = chain[a].is
                               /\ a # process.proxy => chain'[a] = chain[a]
                               /\ chain[a].impl # NoAddress => chain'[a].impl # NoAddress
    /\ handed \subseteq handed' /\ handed' \subseteq HandedTransactions
    /\ RunsOrHanded(process.proxy)'
    /\ process.proxy \notin Left'

\* After it, the proxy may be saved.
LEMMA AcceptedKeeps ==
    ASSUME DeploymentInvariant, AcceptedNext
    PROVE  DeploymentInvariant'
<1>1. /\ process.pc \in {"accept", "print"}
      /\ process' \in Processes /\ SameTask
      /\ process'.pc = (IF Saves THEN "saveproxy" ELSE "calls")
      /\ process'.next = process.next /\ process'.impl = process.impl
      /\ process'.proxy = process.proxy
      /\ called' = called /\ book' = book /\ build' = build /\ up' = up /\ events' = events
      /\ handed \subseteq handed'
  BY DEF AcceptedNext
<1>2. DeploymentTypes'
  BY <1>1, Parts DEF AcceptedNext, DeploymentTypes
<1>3. Grows
  BY <1>1, Parts DEF AcceptedNext, Grows, DeploymentTypes
<1>6. Name' = Name /\ Saves' = Saves /\ Wraps' = Wraps /\ Migrates' = Migrates
  BY <1>1 DEF Name, Saves, Wraps, Migrates, SameTask
<1>7. ProcessSound'
  <2>1. DOMAIN chain' = DOMAIN chain
    BY DEF AcceptedNext
  <2>2. Wraps /\ Config[Name].proxy
    BY <1>1, Parts DEF ProcessSound, Wrapping
  <2>3. (process'.pc = "saveproxy" /\ Saves) \/ process'.pc = "calls"
    BY <1>1
  <2>. QED
    BY <1>1, <1>6, <2>1, <2>2, <2>3, Parts, ZenonT(30) DEF ProcessSound, SameTask
<1>8. BookSound' /\ SavedProxiesRun'
  BY <1>1, <1>2, <1>3, Parts, BookStays
<1>9. ProxiesSound'
  <2>2. RunsOrHanded(process.proxy)'
    BY DEF AcceptedNext
  <2>. QED
    BY <1>8, <2>2 DEF ProxiesSound
<1>10. DeploymentsCounted'
  <2>1. ASSUME NEW n \in Names
        PROVE  Cardinality(Addresses(n)') + One(Prepaid(n)') <= Level(n)' + Paid' + One(Unsaved(n)')
    <3>1. Addresses(n)' = Addresses(n) /\ Level(n)' = Level(n) /\ Paid' = Paid
      BY <1>1 DEF AcceptedNext, Addresses, Level, Known, Extra, Paid
    <3>2. ~Unsaved(n)
      BY <1>1 DEF Unsaved
    <3>3. Prepaid(n)' => Prepaid(n)
      BY <1>1, <1>6 DEF Prepaid, Ahead, SameTask
    <3>4. /\ Cardinality(Addresses(n)) \in Int /\ Level(n) \in Int /\ Paid \in Int
          /\ ~Prepaid(n) => Cardinality(Addresses(n)) <= Level(n) + Paid
          /\ Prepaid(n) => Cardinality(Addresses(n)) + 1 <= Level(n) + Paid
      BY <3>2, Parts, CountedIs
    <3>5. Cardinality(Addresses(n)) <= Level(n) + Paid
      BY <3>4
    <3>. QED
      BY <3>1, <3>3, <3>4, <3>5, CountedBy
  <2>. QED
    BY <1>1, <2>1 DEF DeploymentsCounted
<1>11. StrandedCounted'
  <2>1. Stranded' = Stranded /\ ~Saving' /\ ~Saving
    BY <1>1 DEF Stranded, Known, Saving
  <2>2. (Wrapping /\ Saves)' <=> (Wrapping /\ Saves)
    BY <1>1, <1>6 DEF Wrapping
  <2>. QED
    BY <1>1, <2>1, <2>2, Parts, StrandedStays DEF SameTask
<1>12. CallsSound'
  BY <1>1, Parts, CallsStay
<1>13. WaitingCounted'
  <2>1. ASSUME NEW a \in Left' PROVE a \in Left
    <3>1. a # process.proxy /\ a \in DOMAIN chain
      BY <2>1 DEF AcceptedNext, Left, Waiting
    <3>2. chain'[a] = chain[a]
      BY <3>1 DEF AcceptedNext
    <3>3. Explained(a) => Explained(a)'
      BY <1>1, <3>2 DEF Explained, CanAccept, Answers, IsProxy
    <3>4. ~Own(a)
      BY <3>1 DEF Own
    <3>. QED
      BY <1>1, <2>1, <3>1, <3>2, <3>3, <3>4, Parts, WasLeft
  <2>2. events \in EventCounts
    BY Parts DEF DeploymentTypes
  <2>. QED
    BY <1>1, <2>1, <2>2, Parts, NoneLeft DEF EventCounts
<1>. QED
  BY <1>2, <1>7, <1>8, <1>9, <1>10, <1>11, <1>12, <1>13 DEF DeploymentInvariant

\* Acceptance gives the proxy its implementation.
LEMMA AcceptProxyKeeps ==
    ASSUME DeploymentInvariant, AcceptProxy
    PROVE  DeploymentInvariant'
<1>1. /\ process.pc = "accept"
      /\ CanAccept(chain[process.proxy], process.impl, AdminAddress)
      /\ chain' = [chain EXCEPT ![process.proxy] = Accepted(@)]
      /\ UNCHANGED <<called, book, build, handed, up, events>>
  BY DEF AcceptProxy
<1>2. process \in Processes
  BY Parts DEF DeploymentTypes
<1>3. /\ process' \in Processes /\ SameTask
      /\ process'.pc = (IF Saves THEN "saveproxy" ELSE "calls")
      /\ process'.next = process.next /\ process'.impl = process.impl
      /\ process'.proxy = process.proxy
  BY <1>2 DEF AcceptProxy, Processes, SameTask
<1>. DEFINE a == process.proxy
            p == Accepted(chain[a])
<1>4. a \in DOMAIN chain
  BY <1>1, Parts DEF ProcessSound
<1>5. p \in AccountStates /\ p.is = chain[a].is /\ p.impl # NoAddress /\ p.pending = NoAddress
  BY <1>1, <1>4, Parts, ChainIs, ProxyMoves DEF CanAccept
<1>6. chain' = [chain EXCEPT ![a] = p]
  BY <1>1
<1>. HIDE DEF p
<1>7. /\ chain' \in Seq(AccountStates) /\ DOMAIN chain' = DOMAIN chain /\ chain'[a] = p
      /\ \A x \in DOMAIN chain : x # a => chain'[x] = chain[x]
  BY <1>4, <1>5, <1>6, Parts, CalledIs
<1>8. RunsOrHanded(process.proxy)'
  BY <1>3, <1>5, <1>7 DEF RunsOrHanded
<1>9. process.proxy \notin Left'
  BY <1>5, <1>7 DEF Left, Waiting
<1>10. handed' \subseteq HandedTransactions
  BY <1>1, Parts DEF DeploymentTypes
<1>11. AcceptedNext
  BY <1>1, <1>3, <1>5, <1>7, <1>8, <1>9, <1>10 DEF AcceptedNext
<1>. QED
  BY <1>11, AcceptedKeeps

\* Printing hands the proxy to the multisig.
LEMMA PrintAcceptKeeps ==
    ASSUME DeploymentInvariant, PrintAccept
    PROVE  DeploymentInvariant'
<1>. DEFINE tx == [fn |-> "acceptProxy", proxy |-> process.proxy, impl |-> process.impl,
                   admin |-> AdminAddress]
<1>1. /\ process.pc = "print"
      /\ handed' = handed \union {tx}
      /\ UNCHANGED <<chain, called, book, build, up, events>>
  BY DEF PrintAccept
<1>2. process \in Processes
  BY Parts DEF DeploymentTypes
<1>3. /\ process' \in Processes /\ SameTask
      /\ process'.pc = (IF Saves THEN "saveproxy" ELSE "calls")
      /\ process'.next = process.next /\ process'.impl = process.impl
      /\ process'.proxy = process.proxy
  BY <1>2 DEF PrintAccept, Processes, SameTask
<1>4. tx \in HandedTransactions /\ tx.proxy = process.proxy
  <2>1. process.proxy \in Nat /\ process.impl \in Nat /\ AdminAddress \in Nat
    BY <1>2, NamesAre DEF AdminAddress, Processes, BookEntries
  <2>. QED
    BY <2>1 DEF HandedTransactions
<1>. HIDE DEF tx
<1>5. handed' \subseteq HandedTransactions
  BY <1>1, <1>4, Parts DEF DeploymentTypes
<1>6. RunsOrHanded(process.proxy)'
  BY <1>1, <1>3, <1>4 DEF RunsOrHanded
<1>7. process.proxy \notin Left'
  BY <1>1, <1>4 DEF Left, Waiting
<1>8. chain' \in Seq(AccountStates)
  BY <1>1, Parts DEF DeploymentTypes
<1>9. AcceptedNext
  BY <1>1, <1>3, <1>5, <1>6, <1>7, <1>8 DEF AcceptedNext
<1>. QED
  BY <1>9, AcceptedKeeps

\* The names that remain when the first is done with.
LEMMA TailIs ==
    ASSUME NEW s \in Seq(Names), s # <<>>, \A i, j \in DOMAIN s : s[i] = s[j] => i = j
    PROVE  /\ Tail(s) \in Seq(Names) /\ Len(Tail(s)) = Len(s) - 1 /\ Len(s) \in Nat \ {0}
           /\ Len(s) # 1 => Tail(s) # <<>>
           /\ \A i, j \in DOMAIN Tail(s) : Tail(s)[i] = Tail(s)[j] => i = j
           /\ \A i \in DOMAIN Tail(s) :
                 Tail(s)[i] # s[1] /\ \E j \in DOMAIN s : j # 1 /\ s[j] = Tail(s)[i]
<1>1. Len(s) \in Nat \ {0} /\ DOMAIN s = 1 .. Len(s)
  BY LenProperties
<1>2. /\ Tail(s) \in Seq(Names) /\ Len(Tail(s)) = Len(s) - 1
      /\ \A i \in 1 .. Len(Tail(s)) : Tail(s)[i] = s[i + 1]
  BY HeadTailProperties
<1>. DEFINE t == Tail(s)
<1>. HIDE DEF t
<1>3. /\ t \in Seq(Names) /\ Len(t) = Len(s) - 1
      /\ \A i \in 1 .. Len(t) : t[i] = s[i + 1]
  BY <1>2 DEF t
<1>4. DOMAIN t = 1 .. (Len(s) - 1)
  BY <1>3, LenProperties
<1>5. Len(s) # 1 => t # <<>>
  BY <1>1, <1>3
<1>6. \A i \in DOMAIN t : i + 1 \in DOMAIN s /\ i + 1 # 1 /\ t[i] = s[i + 1] /\ i \in Int
  BY <1>1, <1>3, <1>4
<1>7. \A i, j \in DOMAIN t : t[i] = t[j] => i = j
  <2>1. ASSUME NEW i \in DOMAIN t, NEW j \in DOMAIN t, t[i] = t[j] PROVE i = j
    <3>1. i + 1 = j + 1
      BY <1>6, <2>1
    <3>. QED
      BY <1>6, <3>1
  <2>. QED
    BY <2>1
<1>8. \A i \in DOMAIN t : t[i] # s[1]
  BY <1>1, <1>6
<1>. QED
  BY <1>1, <1>3, <1>5, <1>6, <1>7, <1>8 DEF t

\* An entry that is not up to date is below its top.
LEMMA UpToDateIs ==
    ASSUME DeploymentTypes, ProcessSound, BookSound, process.pc = "check", ~UpToDate(Name)
    PROVE  Level(Name) < Top(Name)
<1>1. process.book = book /\ Name \in Names
  BY NameIs DEF ProcessSound
<1>2. /\ build[Name] \in Nat \ {0} /\ build["GraphProxy"] \in Nat \ {0}
  BY <1>1, LevelIs
<1>. DEFINE n == Name
            a == IF book[n].proxy THEN "GraphProxy" ELSE n
<1>3. CASE ~Known(book, n)
  BY <1>1, <1>2, <1>3 DEF Level, Top, Extra
<1>4. CASE Known(book, n)
  <2>1. /\ book[n].proxy => Config[n].proxy
        /\ book[n].creation[1] = a /\ book[n].creation[2] \in 1 .. build[a]
    BY <1>1, <1>4 DEF BookSound
  <2>2. book[n].creation # <<a, build[a]>>
    BY <1>1, <1>4 DEF UpToDate, Creation
  <2>3. book[n].creation \in (Artifacts \union {""}) \X Nat
    BY <1>1 DEF DeploymentTypes, BookEntries
  <2>4. book[n].creation = <<book[n].creation[1], book[n].creation[2]>>
    <3>1. \A A, B : \A c \in A \X B : c = <<c[1], c[2]>>
      OBVIOUS
    <3>. QED
      BY <2>3, <3>1
  <2>5. book[n].creation[2] # build[a]
    BY <2>1, <2>2, <2>4
  <2>6. /\ book[n].creation[2] \in Nat
        /\ book[n].proxy => book[n].creation[2] < build["GraphProxy"]
        /\ ~book[n].proxy => book[n].creation[2] < build[n]
    <3>1. \A k, m \in Nat : k \in 1 .. m /\ k # m => k < m
      OBVIOUS
    <3>2. build[a] \in Nat
      BY <1>2
    <3>. QED
      BY <2>1, <2>3, <2>5, <3>1, <3>2
  <2>. HIDE DEF n
  <2>7. Level(n) < Top(n)
    BY <1>2, <1>4, <2>1, <2>6 DEF Level, Top, Extra, n
  <2>. QED
    BY <2>7 DEF n
<1>. QED
  BY <1>3, <1>4

\* The chain and the address book stay, and the process goes on.
LEMMA QuietKeeps ==
    ASSUME DeploymentInvariant, process' \in Processes,
           UNCHANGED <<chain, book, build, handed, up, events>>, called \subseteq called',
           process.pc \in {"check", "calls"},
           process'.pc \in {"check", "library", "contract", "calls"},
           ProcessSound', CallsSound',
           \A n \in Names : Prepaid(n)' => Prepaid(n),
           process'.pc \in {"library", "contract"} /\ Unforced' => Level(Name)' < Top(Name)',
           Saving' => Saving
    PROVE  DeploymentInvariant'
<1>1. DeploymentTypes'
  BY Parts DEF DeploymentTypes
<1>2. Grows
  BY Parts DEF Grows, DeploymentTypes
<1>3. BookSound' /\ SavedProxiesRun'
  BY <1>1, <1>2, Parts, BookStays
<1>4. ProxiesSound'
  BY <1>3 DEF ProxiesSound
<1>5. DeploymentsCounted'
  <2>1. ASSUME NEW n \in Names
        PROVE  Cardinality(Addresses(n)') + One(Prepaid(n)') <= Level(n)' + Paid' + One(Unsaved(n)')
    <3>1. Addresses(n)' = Addresses(n) /\ Level(n)' = Level(n) /\ Paid' = Paid
      BY DEF Addresses, Level, Known, Extra, Paid
    <3>2. ~Unsaved(n)
      BY DEF Unsaved
    <3>3. Prepaid(n)' => Prepaid(n)
      OBVIOUS
    <3>4. /\ Cardinality(Addresses(n)) \in Int /\ Level(n) \in Int /\ Paid \in Int
          /\ ~Prepaid(n) => Cardinality(Addresses(n)) <= Level(n) + Paid
          /\ Prepaid(n) => Cardinality(Addresses(n)) + 1 <= Level(n) + Paid
      BY <3>2, Parts, CountedIs
    <3>5. Cardinality(Addresses(n)) <= Level(n) + Paid
      BY <3>4
    <3>. QED
      BY <3>1, <3>3, <3>4, <3>5, CountedBy
  <2>. QED
    BY <2>1 DEF DeploymentsCounted
<1>6. StrandedCounted'
  <2>1. Stranded' = Stranded /\ ~Saving /\ ~Saving' /\ ~Wrapping' /\ ~Wrapping
    BY DEF Stranded, Known, Saving, Wrapping
  <2>2. One(Saving') = One(Saving) /\ One((Wrapping /\ Saves)') = One(Wrapping /\ Saves)
    BY <2>1 DEF One
  <2>. QED
    BY <2>1, <2>2, Parts DEF StrandedCounted
<1>7. WaitingCounted'
  <2>1. \A a : ~Own(a) /\ ~Own(a)'
    BY DEF Own
  <2>2. Waiting' = Waiting /\ \A a : Explained(a)' <=> Explained(a)
    BY DEF Waiting, Explained
  <2>3. Left' = Left
    BY <2>1, <2>2 DEF Left
  <2>. QED
    BY <2>3, Parts DEF WaitingCounted
<1>. QED
  BY <1>1, <1>3, <1>4, <1>5, <1>6, <1>7 DEF DeploymentInvariant

\* A contract that is up to date is skipped; one that is not may be deployed.
LEMMA CheckKeeps ==
    ASSUME DeploymentInvariant, Check
    PROVE  DeploymentInvariant'
<1>1. /\ process.pc = "check"
      /\ UNCHANGED <<chain, called, book, build, handed, up, events>>
  BY DEF Check
<1>2. process \in Processes /\ process.book = book /\ Migrates /\ process.proxy = NoAddress
  BY <1>1, Parts DEF DeploymentTypes, ProcessSound
<1>3. /\ Name \in Names /\ process.todo \in Seq(Names) /\ process.todo # <<>>
      /\ Len(process.todo) \in Nat \ {0} /\ Name = process.todo[1]
  BY <1>1, Parts, NameIs
<1>4. CASE Throw
  BY <1>1, <1>4, EndingKeeps DEF Throw
<1>5. CASE UpToDate(Name) /\ ~process.force /\ process' = NextContract(process)
  <2>1. /\ process' \in Processes
        /\ process'.pc = IF Len(process.todo) = 1 THEN "calls" ELSE "check"
        /\ process'.todo = Tail(process.todo) /\ process'.proxy = NoAddress
        /\ process'.cmd = process.cmd /\ process'.force = process.force
        /\ process'.book = process.book /\ process'.pending = process.pending
        /\ process'.next = process.next
    BY <1>2, <1>3, <1>5, NextContractIs
  <2>2. \A i, j \in DOMAIN process.todo : process.todo[i] = process.todo[j] => i = j
    BY Parts DEF ProcessSound
  <2>3. /\ Len(process.todo) # 1 => process'.todo # <<>>
        /\ \A i, j \in DOMAIN process'.todo : process'.todo[i] = process'.todo[j] => i = j
        /\ \A i \in DOMAIN process'.todo : \E j \in DOMAIN process.todo :
              process.todo[j] = process'.todo[i]
    BY <1>3, <2>1, <2>2, TailIs
  <2>4. Migrates'
    BY <1>2, <2>1 DEF Migrates
  <2>5. process'.pc \in {"calls", "check"}
    BY <2>1
  <2>6. ProcessSound'
    BY <1>1, <1>2, <2>1, <2>3, <2>4, <2>5 DEF ProcessSound, Wrapping, Migrates
  <2>7. CallsSound'
    <3>1. /\ process.next = 1
          /\ \A i \in DOMAIN process.pending :
                /\ process.pending[i].to = book[process.pending[i].of].address
                /\ \A j \in DOMAIN process.todo : process.todo[j] # process.pending[i].of
                /\ i < process.next => CallMade(process.pending[i]) \in called
      BY <1>1, Parts DEF CallsSound
    <3>2. \A i \in DOMAIN process'.pending : i < process'.next => CallMade(process.pending[i])' \in called'
      BY <1>1, <2>1, <3>1 DEF CallMade
    <3>. QED
      BY <1>1, <2>1, <2>3, <3>1, <3>2 DEF CallsSound
  <2>8. \A n \in Names : ~Prepaid(n)'
    BY <1>5, <2>1, <2>4 DEF Prepaid
  <2>9. ~Saving'
    BY <2>5 DEF Saving
  <2>. QED
    BY <1>1, <2>1, <2>5, <2>6, <2>7, <2>8, <2>9, QuietKeeps
<1>6. CASE (~UpToDate(Name) \/ process.force) /\ process' = [process EXCEPT !.pc = FirstStep(Name)]
  <2>. DEFINE first == FirstStep(Name)
  <2>1. first \in {"library", "contract"}
    BY DEF FirstStep
  <2>. HIDE DEF first
  <2>2. process' = [process EXCEPT !.pc = first]
    BY <1>6 DEF first
  <2>3. /\ process' \in Processes /\ process'.pc = first /\ SameTask
        /\ process'.proxy = process.proxy /\ process'.impl = process.impl
        /\ process'.next = process.next
    BY <1>2, <2>1, <2>2 DEF Processes, SameTask
  <2>4. Name' = Name /\ Wraps' = Wraps /\ Migrates' = Migrates /\ Saves' = Saves
    BY <2>3 DEF Name, Wraps, Migrates, SameTask, Saves
  <2>5. Wraps => Config[Name].proxy
    BY <1>2, <1>3, NamesAre, DeploymentAssumption DEF Wraps
  <2>6. ProcessSound'
    BY <1>1, <1>2, <1>3, <2>1, <2>3, <2>4, <2>5, Parts, ZenonT(30) DEF ProcessSound, Wrapping, SameTask
  <2>7. CallsSound'
    BY <1>1, <2>3, Parts, CallsStay
  <2>8. \A n \in Names : Prepaid(n)' => Prepaid(n)
    BY <1>1, <2>3, <2>4 DEF Prepaid, Ahead, SameTask
  <2>9. Unforced' => Level(Name)' < Top(Name)'
    <3>1. Unforced' => ~process.force
      BY <2>3 DEF Unforced, SameTask
    <3>2. Level(Name)' = Level(Name) /\ Top(Name)' = Top(Name)
      BY <1>1, <2>4 DEF Level, Top, Known, Extra
    <3>3. ~UpToDate(Name) => Level(Name) < Top(Name)
      BY <1>1, Parts, UpToDateIs
    <3>. QED
      BY <1>6, <3>1, <3>2, <3>3
  <2>10. ~Saving'
    BY <1>2, <2>3 DEF Saving, SameTask, Migrates
  <2>. QED
    BY <1>1, <2>1, <2>3, <2>6, <2>7, <2>8, <2>9, <2>10, QuietKeeps
<1>. QED
  BY <1>4, <1>5, <1>6 DEF Check

\* A call reads the addresses the book gives when it is made, and the book does
\* not change from then on.
LEMMA CallKeeps ==
    ASSUME DeploymentInvariant, Call
    PROVE  DeploymentInvariant'
<1>1. /\ process.pc = "calls" /\ process.next <= Len(process.pending)
      /\ UNCHANGED <<chain, book, build, handed, up, events>>
  BY DEF Call
<1>2. process \in Processes /\ process.book = book /\ process.next \in Nat \ {0}
      /\ process.pending \in Seq(PutOffCalls)
  BY <1>1, Parts DEF DeploymentTypes, ProcessSound, Processes
<1>3. CASE Throw /\ called' = called
  BY <1>1, <1>3, EndingKeeps DEF Throw
<1>. DEFINE call == process.pending[process.next]
            made == [of |-> call.of, fn |-> call.fn, to |-> call.to, args |-> Args(call)]
<1>4. CASE called' = called \union {made} /\ process' = [process EXCEPT !.next = @ + 1]
  <2>1. /\ process' \in Processes /\ process'.pc = process.pc /\ SameTask
        /\ process'.proxy = process.proxy /\ process'.impl = process.impl
        /\ process'.next = process.next + 1
    <3>1. PICK k \in Nat \ {0} : k = process.next + 1
      BY <1>2
    <3>2. process' = [process EXCEPT !.next = k]
      BY <1>2, <1>4, <3>1 DEF Processes
    <3>. QED
      BY <1>2, <3>1, <3>2 DEF Processes, SameTask
  <2>2. Name' = Name /\ Wraps' = Wraps /\ Migrates' = Migrates /\ Saves' = Saves
    BY <2>1 DEF Name, Wraps, Migrates, SameTask, Saves
  <2>3. ProcessSound'
    BY <1>1, <1>2, <2>1, <2>2, Parts DEF ProcessSound, Wrapping, SameTask
  <2>4. CallsSound'
    <3>1. /\ \A i \in DOMAIN process.pending :
                /\ process.pending[i].to = book[process.pending[i].of].address
                /\ \A j \in DOMAIN process.todo : process.todo[j] # process.pending[i].of
                /\ i < process.next => CallMade(process.pending[i]) \in called
          /\ DOMAIN process.pending = 1 .. Len(process.pending) /\ Len(process.pending) \in Nat
      BY <1>2, Parts DEF CallsSound
    <3>2. made = CallMade(call)
      <4>1. process.next \in DOMAIN process.pending
        BY <1>1, <1>2, <3>1
      <4>2. call.to = book[call.of].address
        BY <3>1, <4>1
      <4>. QED
        BY <1>2, <4>2 DEF CallMade, Args
    <3>. HIDE DEF made
    <3>3. \A i \in DOMAIN process.pending : i < process.next + 1 => i < process.next \/ i = process.next
      BY <1>2, <3>1
    <3>4. \A i \in DOMAIN process.pending : i < process.next + 1 => CallMade(process.pending[i]) \in called'
      BY <1>4, <3>1, <3>2, <3>3
    <3>5. \A i \in DOMAIN process'.pending : i < process'.next => CallMade(process.pending[i])' \in called'
      BY <1>1, <2>1, <3>4 DEF CallMade, SameTask
    <3>. QED
      BY <1>1, <2>1, <3>1, <3>5 DEF CallsSound, SameTask
  <2>5. \A n \in Names : Prepaid(n)' => Prepaid(n)
    BY <2>1, <2>2 DEF Prepaid, Ahead, SameTask
  <2>6. Saving' => Saving
    BY <2>1 DEF Saving, SameTask
  <2>7. called \subseteq called'
    BY <1>4
  <2>. QED
    BY <1>1, <2>1, <2>3, <2>4, <2>5, <2>6, <2>7, QuietKeeps
<1>. QED
  BY <1>3, <1>4 DEF Call

\* The contract is done with: its calls are put off.
LEMMA PutsOff ==
    ASSUME process \in Processes, process.todo # <<>>, Calls \in Seq(PutOffCalls),
           NEW saved \in [Names -> BookEntries],
           process' = NextContract([process EXCEPT !.book = saved, !.pending = @ \o Calls])
    PROVE  /\ process' \in Processes
           /\ process'.pc = IF Len(process.todo) = 1 THEN "calls" ELSE "check"
           /\ process'.todo = Tail(process.todo) /\ process'.proxy = NoAddress
           /\ process'.cmd = process.cmd /\ process'.force = process.force
           /\ process'.book = saved /\ process'.pending = process.pending \o Calls
           /\ process'.next = process.next
<1>1. process.pending \in Seq(PutOffCalls)
  BY DEF Processes
<1>2. PICK s : s = process.pending \o Calls
  OBVIOUS
<1>3. s \in Seq(PutOffCalls)
  BY <1>1, <1>2, ConcatProperties
<1>. DEFINE r == [process EXCEPT !.book = saved, !.pending = s]
<1>4. process' = NextContract(r)
  BY <1>2
<1>5. /\ r \in Processes /\ r.pc = process.pc /\ r.todo = process.todo /\ r.cmd = process.cmd
      /\ r.force = process.force /\ r.book = saved /\ r.pending = s /\ r.next = process.next
  BY <1>3 DEF Processes
<1>. HIDE DEF r
<1>6. LET q == NextContract(r)
      IN  /\ q \in Processes
          /\ q.pc = IF Len(r.todo) = 1 THEN "calls" ELSE "check"
          /\ q.todo = Tail(r.todo) /\ q.proxy = NoAddress
          /\ q.cmd = r.cmd /\ q.force = r.force
          /\ q.book = r.book /\ q.pending = r.pending /\ q.next = r.next
  BY <1>5, NextContractIs
<1>. QED
  BY <1>2, <1>4, <1>5, <1>6

\* What the process goes on with after it wrote an entry.
GoesOn(e) ==
    /\ process' \in Processes
    /\ process'.cmd = process.cmd /\ process'.force = process.force
    /\ process'.next = process.next /\ process'.proxy = NoAddress
    /\ \/ /\ process'.pc = "wrap"
          /\ process'.todo = process.todo /\ process'.pending = process.pending
       \/ /\ process'.pc = IF Len(process.todo) = 1 THEN "calls" ELSE "check"
          /\ process'.todo = Tail(process.todo)
          /\ process'.pending = process.pending \o Calls
          /\ Target = e.address

\* An entry written for a build lifts the contract to its top, and is of no
\* contract whose calls are put off already.
LEMMA SavingKeeps ==
    ASSUME DeploymentInvariant, process.pc \in {"save", "saveproxy"},
           UNCHANGED <<chain, called, build, handed, up, events>>,
           NEW e \in BookEntries, book' = [book EXCEPT ![Name] = e],
           process'.book = book', GoesOn(e),
           e.address \in DOMAIN chain, e.proxy => Config[Name].proxy,
           e.creation[1] = (IF e.proxy THEN "GraphProxy" ELSE Name),
           e.creation[2] = build[IF e.proxy THEN "GraphProxy" ELSE Name],
           e.proxy => RunsOrHanded(e.address),
           ProcessSound', StrandedCounted'
    PROVE  DeploymentInvariant'
<1>1. /\ Name \in Names /\ process.todo \in Seq(Names) /\ process.todo # <<>>
      /\ Len(process.todo) \in Nat \ {0} /\ Name = process.todo[1]
      /\ \A i, j \in DOMAIN process.todo : process.todo[i] = process.todo[j] => i = j
  BY Parts, NameIs DEF ProcessSound
<1>2. /\ process' \in Processes
      /\ process'.cmd = process.cmd /\ process'.force = process.force
      /\ process'.next = process.next /\ process'.pc \in {"wrap", "calls", "check"}
  BY DEF GoesOn
<1>3. /\ book \in [Names -> BookEntries] /\ book' \in [Names -> BookEntries]
      /\ book'[Name] = e /\ \A n \in Names : n # Name => book'[n] = book[n]
  BY <1>1, Parts DEF DeploymentTypes
<1>4. DeploymentTypes'
  BY <1>2, <1>3, Parts DEF DeploymentTypes
<1>5. build["GraphProxy"] \in Nat \ {0} /\ build[Name] \in Nat \ {0}
  BY <1>1, Parts, LevelIs
<1>6. BookSound'
  <2>1. ASSUME NEW n \in Names, Known(book', n)
        PROVE  /\ book'[n].address \in DOMAIN chain
               /\ book'[n].proxy => Config[n].proxy
               /\ book'[n].creation[1] = IF book'[n].proxy THEN "GraphProxy" ELSE n
               /\ book'[n].creation[2] \in 1 .. build[IF book'[n].proxy THEN "GraphProxy" ELSE n]
    <3>1. CASE n = Name
      <4>1. \A k \in Nat \ {0} : k \in 1 .. k
        OBVIOUS
      <4>. QED
        BY <1>3, <1>5, <3>1, <4>1
    <3>2. CASE n # Name
      <4>1. book'[n] = book[n] /\ Known(book, n)
        BY <1>3, <2>1, <3>2 DEF Known
      <4>. QED
        BY <4>1, Parts DEF BookSound
    <3>. QED
      BY <3>1, <3>2
  <2>. QED
    BY <2>1 DEF BookSound
<1>7. SavedProxiesRun'
  BY <1>3, Parts DEF SavedProxiesRun, Known, RunsOrHanded
<1>8. ProxiesSound'
  BY <1>2, <1>7 DEF ProxiesSound
<1>. DEFINE rest == Tail(process.todo)
<1>9. /\ \A i, j \in DOMAIN rest : rest[i] = rest[j] => i = j
      /\ \A i \in DOMAIN rest : rest[i] # Name /\ \E j \in DOMAIN process.todo :
                                   j # 1 /\ process.todo[j] = rest[i]
  BY <1>1, TailIs
<1>10. DeploymentsCounted'
  <2>1. ASSUME NEW n \in Names
        PROVE  Cardinality(Addresses(n)') + One(Prepaid(n)') <= Level(n)' + Paid' + One(Unsaved(n)')
    <3>1. Addresses(n)' = Addresses(n) /\ Paid' = Paid
      BY DEF Addresses, Paid
    <3>2. Cardinality(Addresses(n)) \in Int /\ Level(n) \in Int /\ Paid \in Int
      BY Parts, CountedIs
    <3>3. CASE n # Name
      <4>1. Level(n)' = Level(n)
        BY <1>3, <3>3 DEF Level, Known, Extra
      <4>2. ~Unsaved(n)
        BY <3>3 DEF Unsaved
      <4>3. Prepaid(n)' => Prepaid(n)
        <5>1. CASE process'.todo = process.todo
          BY <1>1, <1>2, <3>3, <5>1 DEF Prepaid, Ahead, Migrates
        <5>2. CASE process'.todo = rest
          <6>1. SUFFICES ASSUME Prepaid(n)' PROVE Prepaid(n)
            OBVIOUS
          <6>2. PICK i \in DOMAIN rest : rest[i] = n
            BY <5>2, <6>1 DEF Prepaid, Ahead
          <6>3. \E j \in DOMAIN process.todo : j # 1 /\ process.todo[j] = n
            BY <1>9, <6>2
          <6>. HIDE DEF rest
          <6>. QED
            BY <1>2, <6>1, <6>3 DEF Prepaid, Ahead, Migrates
        <5>. QED
          BY <5>1, <5>2 DEF GoesOn
      <4>4. /\ ~Prepaid(n) => Cardinality(Addresses(n)) <= Level(n) + Paid
            /\ Prepaid(n) => Cardinality(Addresses(n)) + 1 <= Level(n) + Paid
        BY <4>2, Parts, CountedIs
      <4>5. Cardinality(Addresses(n)) <= Level(n) + Paid
        BY <3>2, <4>4
      <4>. QED
        BY <3>1, <3>2, <4>1, <4>3, <4>4, <4>5, CountedBy
    <3>4. CASE n = Name
      <4>1. Level(n)' = Top(n)
        <5>1. Known(book', n)
          <6>1. e.address # NoAddress
            BY Parts, ChainIs DEF NoAddress
          <6>. QED
            BY <1>3, <3>4, <6>1 DEF Known
        <5>2. CASE e.proxy
          BY <1>3, <1>5, <3>4, <5>1, <5>2 DEF Level, Top, Extra
        <5>3. CASE ~e.proxy
          BY <1>3, <1>5, <3>4, <5>1, <5>3 DEF Level, Top, Extra
        <5>. QED
          BY <5>2, <5>3
      <4>2. Level(n) <= Top(n) /\ Top(n) \in Int
        BY Parts, LevelIs
      <4>3. Unsaved(n) => Level(n) < Top(n)
        BY <3>4, Parts DEF Unsaved, DeploymentsCounted
      <4>4. ~Prepaid(n)'
        <5>1. CASE process'.todo = process.todo /\ process'.pc = "wrap"
          <6>1. \A i \in DOMAIN process.todo : process.todo[i] = n => i = 1
            <7>1. 1 \in DOMAIN process.todo
              BY <1>1
            <7>. QED
              BY <1>1, <3>4, <7>1
          <6>. QED
            BY <5>1, <6>1 DEF Prepaid, Ahead
        <5>2. CASE process'.todo = rest
          BY <1>9, <3>4, <5>2 DEF Prepaid, Ahead
        <5>. QED
          BY <5>1, <5>2 DEF GoesOn
      <4>5. /\ ~Unsaved(n) => Cardinality(Addresses(n)) <= Level(n) + Paid
            /\ Unsaved(n) => Cardinality(Addresses(n)) <= Level(n) + Paid + 1
        <5>1. /\ ~Unsaved(n) /\ ~Prepaid(n) => Cardinality(Addresses(n)) <= Level(n) + Paid
              /\ ~Unsaved(n) /\ Prepaid(n) => Cardinality(Addresses(n)) + 1 <= Level(n) + Paid
              /\ Unsaved(n) /\ ~Prepaid(n) => Cardinality(Addresses(n)) <= Level(n) + Paid + 1
              /\ Unsaved(n) /\ Prepaid(n) => Cardinality(Addresses(n)) <= Level(n) + Paid
          BY Parts, CountedIs
        <5>. QED
          BY <3>2, <5>1
      <4>6. Cardinality(Addresses(n)) <= Top(n) + Paid
        BY <3>2, <4>2, <4>3, <4>5
      <4>. QED
        BY <3>1, <3>2, <4>1, <4>2, <4>4, <4>6, CountedBy
    <3>. QED
      BY <3>3, <3>4
  <2>. QED
    BY <1>2, <2>1 DEF DeploymentsCounted
<1>11. CallsSound'
  <2>1. /\ process.next = 1 /\ process.pending \in Seq(PutOffCalls)
        /\ \A i \in DOMAIN process.pending :
              /\ process.pending[i].to = book[process.pending[i].of].address
              /\ process.pending[i].of \in Names /\ i \in Nat \ {0}
              /\ \A j \in DOMAIN process.todo : process.todo[j] # process.pending[i].of
    <3>1. process.pending \in Seq(PutOffCalls)
      BY Parts DEF DeploymentTypes, Processes
    <3>2. \A i \in DOMAIN process.pending : process.pending[i] \in PutOffCalls /\ i \in Nat \ {0}
      <4>1. \A S : \A s \in Seq(S) : \A i \in DOMAIN s : s[i] \in S /\ i \in Nat \ {0}
        OBVIOUS
      <4>. QED
        BY <3>1, <4>1
    <3>. QED
      BY <3>1, <3>2, Parts DEF CallsSound, PutOffCalls
  <2>2. 1 \in DOMAIN process.todo
    BY <1>1
  <2>3. \A i \in DOMAIN process.pending :
           process.pending[i].to = book'[process.pending[i].of].address
    BY <1>1, <1>3, <2>1, <2>2
  <2>4. /\ \A i \in DOMAIN process'.pending :
              /\ process'.pending[i].to = book'[process'.pending[i].of].address
              /\ \A j \in DOMAIN process'.todo : process'.todo[j] # process'.pending[i].of
              /\ i \in Nat \ {0}
    <3>1. CASE process'.todo = process.todo /\ process'.pending = process.pending
      BY <2>1, <2>3, <3>1
    <3>2. CASE process'.todo = rest /\ process'.pending = process.pending \o Calls /\ Target = e.address
      <4>1. /\ Calls \in Seq(PutOffCalls)
            /\ \A i \in DOMAIN Calls : Calls[i].of = Name /\ Calls[i].to = e.address
        <5>1. Target \in Nat
          BY <3>2 DEF BookEntries
        <5>. QED
          BY <1>1, <3>2, <5>1, CallsTyped
      <4>. DEFINE s == process.pending
                  t == Calls
      <4>2. s \in Seq(PutOffCalls) /\ t \in Seq(PutOffCalls)
        BY <2>1, <4>1
      <4>. HIDE DEF s, t, rest
      <4>3. \A i \in DOMAIN (s \o t) :
               /\ i \in Nat \ {0}
               /\ \/ i \in DOMAIN s /\ (s \o t)[i] = s[i]
                  \/ \E k \in DOMAIN t : (s \o t)[i] = t[k]
        <5>1. /\ DOMAIN s = 1 .. Len(s) /\ DOMAIN t = 1 .. Len(t) /\ Len(s) \in Nat /\ Len(t) \in Nat
              /\ Len(s \o t) = Len(s) + Len(t) /\ DOMAIN (s \o t) = 1 .. Len(s \o t)
              /\ \A i \in 1 .. Len(s) : (s \o t)[i] = s[i]
              /\ \A i \in Len(s) + 1 .. Len(s) + Len(t) : (s \o t)[i] = t[i - Len(s)]
          BY <4>2
        <5>2. ASSUME NEW i \in DOMAIN (s \o t), i \notin DOMAIN s
              PROVE  i - Len(s) \in DOMAIN t /\ (s \o t)[i] = t[i - Len(s)]
          BY <5>1, <5>2
        <5>. QED
          BY <5>1, <5>2
      <4>4. \A i \in DOMAIN s : \A j \in DOMAIN rest : rest[j] # s[i].of
        BY <1>9, <2>1 DEF s
      <4>5. \A k \in DOMAIN t : /\ t[k].to = book'[t[k].of].address
                                /\ \A j \in DOMAIN rest : rest[j] # t[k].of
        BY <1>3, <1>9, <4>1 DEF t
      <4>6. \A i \in DOMAIN s : s[i].to = book'[s[i].of].address
        BY <2>3 DEF s
      <4>7. process'.pending = s \o t /\ process'.todo = rest
        BY <3>2 DEF s, t
      <4>. QED
        BY <4>3, <4>4, <4>5, <4>6, <4>7
    <3>. QED
      BY <3>1, <3>2 DEF GoesOn
  <2>5. process'.next = 1
    BY <1>2, <2>1
  <2>6. \A i \in DOMAIN process'.pending : ~(i < process'.next)
    BY <2>4, <2>5
  <2>. QED
    BY <2>4, <2>5, <2>6 DEF CallsSound
<1>12. WaitingCounted'
  <2>1. \A a : ~Own(a) /\ ~Own(a)'
    BY <1>2 DEF Own
  <2>2. Waiting' = Waiting /\ \A a : Explained(a)' <=> Explained(a)
    BY DEF Waiting, Explained
  <2>3. Left' = Left
    BY <2>1, <2>2 DEF Left
  <2>. QED
    BY <2>3, Parts DEF WaitingCounted
<1>. QED
  BY <1>4, <1>6, <1>8, <1>10, <1>11, <1>12 DEF DeploymentInvariant

\* Done with a contract, the process is sound for the names that remain.
LEMMA PutOffSound ==
    ASSUME DeploymentInvariant, process.pc \in {"save", "saveproxy"},
           process' \in Processes, process'.cmd = process.cmd, process'.force = process.force,
           process'.pc = IF Len(process.todo) = 1 THEN "calls" ELSE "check",
           process'.todo = Tail(process.todo), process'.book = book', process'.proxy = NoAddress
    PROVE  ProcessSound'
<1>1. /\ process.todo \in Seq(Names) /\ process.todo # <<>> /\ Len(process.todo) \in Nat \ {0}
      /\ \A i, j \in DOMAIN process.todo : process.todo[i] = process.todo[j] => i = j
      /\ process.cmd # ""
      /\ ~Migrates => Len(process.todo) <= 1 /\ ~process.force
  BY Parts, NameIs DEF ProcessSound
<1>2. /\ Len(Tail(process.todo)) = Len(process.todo) - 1
      /\ Len(process.todo) # 1 => Tail(process.todo) # <<>>
      /\ \A i, j \in DOMAIN Tail(process.todo) :
            Tail(process.todo)[i] = Tail(process.todo)[j] => i = j
  BY <1>1, TailIs
<1>3. process'.pc \in {"calls", "check"} /\ Migrates' = Migrates
  BY DEF Migrates
<1>4. ~Migrates => Len(process.todo) = 1 /\ Len(Tail(process.todo)) <= 1
  <2>1. \A k \in Nat \ {0} : k <= 1 => k = 1 /\ k - 1 <= 1
    OBVIOUS
  <2>. QED
    BY <1>1, <1>2, <2>1
<1>. DEFINE todo == process'.todo
<1>5. /\ process'.pc = "check" => todo # <<>>
      /\ \A i, j \in DOMAIN todo : todo[i] = todo[j] => i = j
      /\ ~Migrates' => Len(todo) <= 1 /\ process'.pc # "check" /\ ~process'.force
  BY <1>1, <1>2, <1>3, <1>4
<1>6. process'.cmd # "" /\ process'.book = book' /\ process'.proxy = NoAddress
  BY <1>1
<1>. QED
  BY <1>3, <1>5, <1>6 DEF ProcessSound, Wrapping

\* There are finitely many entries.
LEMMA StrandedIsFinite ==
    /\ IsFiniteSet(Stranded) /\ Cardinality(Stranded) \in Nat
<1>1. Stranded \subseteq Names
  BY DEF Stranded
<1>. QED
  BY <1>1, NamesAre, FS_Subset, FS_CardinalityType

\* The entry of an implementation is stranded until the proxy's takes its place,
\* or for good after a deploy-save.
LEMMA SaveContractKeeps ==
    ASSUME DeploymentInvariant, SaveContract
    PROVE  DeploymentInvariant'
<1>1. /\ process.pc = "save"
      /\ UNCHANGED <<chain, called, build, handed, up, events>>
  BY DEF SaveContract
<1>2. process \in Processes /\ process.book = book /\ book \in [Names -> BookEntries]
  BY <1>1, Parts DEF DeploymentTypes, ProcessSound
<1>3. /\ Name \in Names /\ process.todo \in Seq(Names) /\ process.todo # <<>>
      /\ Config[Name].proxy \in BOOLEAN
  BY <1>1, Parts, NameIs
<1>4. /\ process.impl \in DOMAIN chain /\ process.proxy = NoAddress /\ Saves
      /\ Wraps => Config[Name].proxy
      /\ process.next = 1
  BY <1>1, Parts DEF ProcessSound, CallsSound
<1>. DEFINE e == BookEntry(process.impl, Creation(Name), FALSE, NoAddress)
            saved == [book EXCEPT ![Name] = e]
<1>5. /\ e \in BookEntries /\ e.address = process.impl /\ e.proxy = FALSE
      /\ e.creation[1] = Name /\ e.creation[2] = build[Name]
  <2>1. Name \in Artifacts /\ process.impl \in Nat /\ NoAddress \in Nat
    BY <1>2, <1>3 DEF Artifacts, Processes, NoAddress
  <2>2. build[Name] \in Nat
    BY <2>1, Parts DEF DeploymentTypes
  <2>. DEFINE c == <<Name, build[Name]>>
  <2>3. c \in (Artifacts \union {""}) \X Nat /\ c[1] = Name /\ c[2] = build[Name]
    BY <2>1, <2>2
  <2>4. Creation(Name) = c
    BY DEF Creation
  <2>. HIDE DEF c
  <2>. QED
    BY <2>1, <2>3, <2>4 DEF BookEntry, BookEntries
<1>. HIDE DEF e
<1>6. book' = saved /\ saved \in [Names -> BookEntries]
  BY <1>2, <1>3, <1>5 DEF SaveContract, SetEntry, e
<1>7. Target = e.address /\ Calls \in Seq(PutOffCalls)
  <2>1. Target = process.impl /\ process.impl \in Nat
    BY <1>2, <1>4 DEF Target, Processes
  <2>. QED
    BY <1>3, <1>5, <2>1, CallsTyped
<1>8. CASE Wraps
  <2>1. process' = [process EXCEPT !.pc = "wrap", !.book = saved]
    BY <1>2, <1>8 DEF SaveContract, SetEntry, e
  <2>2. /\ process' \in Processes /\ process'.pc = "wrap" /\ process'.book = saved
        /\ process'.cmd = process.cmd /\ process'.force = process.force
        /\ process'.todo = process.todo /\ process'.pending = process.pending
        /\ process'.next = process.next /\ process'.proxy = process.proxy
        /\ process'.impl = process.impl
    <3>. HIDE DEF saved
    <3>. QED
      BY <1>2, <1>6, <2>1 DEF Processes
  <2>3. GoesOn(e)
    BY <1>4, <2>2 DEF GoesOn
  <2>4. Name' = Name /\ Wraps' = Wraps /\ Migrates' = Migrates /\ Saves' = Saves
    BY <2>2 DEF Name, Wraps, Migrates, Saves
  <2>5. ProcessSound'
    <3>1. /\ process.cmd # ""
          /\ \A i, j \in DOMAIN process.todo : process.todo[i] = process.todo[j] => i = j
          /\ ~Migrates => Len(process.todo) <= 1 /\ ~process.force
      BY <1>1, Parts DEF ProcessSound
    <3>2. process'.impl \in DOMAIN chain' /\ process'.book = book' /\ Wraps' /\ Config[Name'].proxy
      BY <1>1, <1>4, <1>6, <1>8, <2>2, <2>4
    <3>. QED
      BY <1>3, <1>4, <2>2, <2>4, <3>1, <3>2, ZenonT(30) DEF ProcessSound
  <2>6. StrandedCounted'
    <3>1. Stranded' = Stranded \union {Name} /\ Name' = Name
      <4>1. e.address # NoAddress
        BY <1>4, <1>5, Parts, ChainIs DEF NoAddress
      <4>. QED
        BY <1>2, <1>3, <1>4, <1>5, <1>6, <1>8, <2>4, <4>1 DEF Stranded, Known
    <3>2. ~Saving' /\ Wrapping' /\ Saves' /\ ~Wrapping
      BY <1>1, <1>4, <2>2, <2>4 DEF Saving, Wrapping
    <3>3. /\ Cardinality(Stranded) \in Int
          /\ events.kills \in Int /\ events.deploys \in Int
          /\ ~Saving => Cardinality(Stranded) <= events.kills + events.deploys
          /\ Saving => Cardinality(Stranded) + 1 <= events.kills + events.deploys
      BY <3>2, Parts, StrandedIs
    <3>4. /\ Cardinality(Stranded') <= Cardinality(Stranded) + 1 /\ Cardinality(Stranded') \in Int
      BY <3>1, StrandedIsFinite, OneMore
    <3>5. Cardinality(Stranded') <= events.kills + events.deploys + 1
      BY <3>3, <3>4
    <3>6. One(Saving') = 0 /\ One((Wrapping /\ Saves)') = 1
      BY <3>2 DEF One
    <3>7. Cardinality(Stranded') + One(Saving') <= events'.kills + events'.deploys + One((Wrapping /\ Saves)')
      BY <1>1, <3>3, <3>4, <3>5, <3>6
    <3>8. Name' \in Stranded'
      BY <3>1
    <3>. QED
      BY <3>7, <3>8 DEF StrandedCounted
  <2>. QED
    BY <1>1, <1>4, <1>5, <1>6, <2>2, <2>3, <2>5, <2>6, SavingKeeps
<1>9. CASE ~Wraps
  <2>1. process' = NextContract([process EXCEPT !.book = saved, !.pending = @ \o Calls])
    BY <1>2, <1>9 DEF SaveContract, SetEntry, e
  <2>2. /\ process' \in Processes
        /\ process'.pc = IF Len(process.todo) = 1 THEN "calls" ELSE "check"
        /\ process'.todo = Tail(process.todo) /\ process'.proxy = NoAddress
        /\ process'.cmd = process.cmd /\ process'.force = process.force
        /\ process'.book = saved /\ process'.pending = process.pending \o Calls
        /\ process'.next = process.next
    <3>. HIDE DEF saved
    <3>. QED
      BY <1>2, <1>3, <1>6, <1>7, <2>1, PutsOff
  <2>3. GoesOn(e)
    BY <1>7, <2>2 DEF GoesOn
  <2>4. ProcessSound'
    BY <1>1, <1>6, <2>2, PutOffSound
  <2>5. StrandedCounted'
    <3>1. ~Saving' /\ ~Wrapping' /\ ~Wrapping
      BY <1>1, <2>2 DEF Saving, Wrapping
    <3>2. /\ Cardinality(Stranded) \in Int
          /\ events.kills \in Int /\ events.deploys \in Int
          /\ ~Saving => Cardinality(Stranded) <= events.kills + events.deploys
          /\ Saving => Cardinality(Stranded) + 1 <= events.kills + events.deploys
      BY <3>1, Parts, StrandedIs
    <3>3. Cardinality(Stranded') <= events.kills + events.deploys /\ Cardinality(Stranded') \in Int
      <4>1. CASE Migrates
        <5>1. Stranded' \subseteq Stranded
          BY <1>2, <1>3, <1>6, <1>9, <4>1 DEF Stranded, Known, Wraps
        <5>2. Cardinality(Stranded') <= Cardinality(Stranded) /\ Cardinality(Stranded') \in Int
          BY <5>1, StrandedIsFinite, FS_Subset, FS_CardinalityType
        <5>3. Cardinality(Stranded) <= events.kills + events.deploys
          BY <3>2
        <5>. QED
          BY <3>2, <5>2, <5>3
      <4>2. CASE ~Migrates
        <5>1. Saving
          BY <1>1, <1>4, <1>9, <4>2 DEF Saving, Saves, Wraps, Migrates
        <5>2. Stranded' \subseteq Stranded \union {Name}
          BY <1>2, <1>3, <1>6 DEF Stranded, Known
        <5>3. /\ IsFiniteSet(Stranded \union {Name})
              /\ Cardinality(Stranded \union {Name}) <= Cardinality(Stranded) + 1
              /\ Cardinality(Stranded \union {Name}) \in Nat
          BY StrandedIsFinite, OneMore
        <5>4. Cardinality(Stranded') <= Cardinality(Stranded \union {Name}) /\ Cardinality(Stranded') \in Nat
          BY <5>2, <5>3, FS_Subset, FS_CardinalityType
        <5>5. Cardinality(Stranded) + 1 <= events.kills + events.deploys
          BY <3>2, <5>1
        <5>. QED
          BY <3>2, <5>3, <5>4, <5>5
      <4>. QED
        BY <4>1, <4>2
    <3>4. One(Saving') = 0 /\ One((Wrapping /\ Saves)') = 0
      BY <3>1 DEF One
    <3>5. Cardinality(Stranded') + One(Saving') <= events'.kills + events'.deploys + One((Wrapping /\ Saves)')
      BY <1>1, <3>2, <3>3, <3>4
    <3>. QED
      BY <3>1, <3>5 DEF StrandedCounted
  <2>. QED
    BY <1>1, <1>4, <1>5, <1>6, <2>2, <2>3, <2>4, <2>5, SavingKeeps
<1>. QED
  BY <1>8, <1>9

\* The entry of a proxy ends that.
LEMMA SaveProxyKeeps ==
    ASSUME DeploymentInvariant, SaveProxy
    PROVE  DeploymentInvariant'
<1>1. /\ process.pc = "saveproxy"
      /\ UNCHANGED <<chain, called, build, handed, up, events>>
  BY DEF SaveProxy
<1>2. process \in Processes /\ process.book = book /\ book \in [Names -> BookEntries]
  BY <1>1, Parts DEF DeploymentTypes, ProcessSound
<1>3. /\ Name \in Names /\ process.todo \in Seq(Names) /\ process.todo # <<>>
  BY <1>1, Parts, NameIs
<1>4. /\ process.proxy \in DOMAIN chain /\ Saves /\ Wrapping
      /\ Config[Name].proxy
      /\ RunsOrHanded(process.proxy)
  BY <1>1, Parts DEF ProcessSound, ProxiesSound, Wrapping
<1>. DEFINE e == BookEntry(process.proxy, Creation("GraphProxy"), TRUE, process.impl)
            saved == [book EXCEPT ![Name] = e]
<1>5. /\ e \in BookEntries /\ e.address = process.proxy /\ e.proxy = TRUE
      /\ e.creation[1] = "GraphProxy" /\ e.creation[2] = build["GraphProxy"]
  <2>1. "GraphProxy" \in Artifacts /\ process.impl \in Nat /\ process.proxy \in Nat
    BY <1>2 DEF Artifacts, Processes
  <2>2. build["GraphProxy"] \in Nat
    BY <2>1, Parts DEF DeploymentTypes
  <2>. DEFINE c == <<"GraphProxy", build["GraphProxy"]>>
  <2>3. c \in (Artifacts \union {""}) \X Nat /\ c[1] = "GraphProxy" /\ c[2] = build["GraphProxy"]
    BY <2>1, <2>2
  <2>4. Creation("GraphProxy") = c
    BY DEF Creation
  <2>. HIDE DEF c
  <2>. QED
    BY <2>1, <2>3, <2>4 DEF BookEntry, BookEntries
<1>. HIDE DEF e
<1>6. book' = saved /\ saved \in [Names -> BookEntries]
  BY <1>2, <1>3, <1>5 DEF SaveProxy, SetEntry, ProxyEntry, e
<1>7. Target = e.address /\ Calls \in Seq(PutOffCalls)
  <2>1. process.proxy # NoAddress /\ process.proxy \in Nat
    BY <1>4, Parts, ChainIs DEF NoAddress
  <2>2. Target = process.proxy
    BY <2>1 DEF Target
  <2>. QED
    BY <1>3, <1>5, <2>1, <2>2, CallsTyped
<1>8. process' = NextContract([process EXCEPT !.book = saved, !.pending = @ \o Calls])
  BY <1>2 DEF SaveProxy, SetEntry, ProxyEntry, e
<1>9. /\ process' \in Processes
      /\ process'.pc = IF Len(process.todo) = 1 THEN "calls" ELSE "check"
      /\ process'.todo = Tail(process.todo) /\ process'.proxy = NoAddress
      /\ process'.cmd = process.cmd /\ process'.force = process.force
      /\ process'.book = saved /\ process'.pending = process.pending \o Calls
      /\ process'.next = process.next
  <2>. HIDE DEF saved
  <2>. QED
    BY <1>2, <1>3, <1>6, <1>7, <1>8, PutsOff
<1>10. GoesOn(e)
  BY <1>7, <1>9 DEF GoesOn
<1>11. ProcessSound'
  BY <1>1, <1>6, <1>9, PutOffSound
<1>12. StrandedCounted'
  <2>1. ~Saving' /\ ~Wrapping' /\ ~Saving
    BY <1>1, <1>9 DEF Saving, Wrapping
  <2>2. /\ Cardinality(Stranded) \in Int
        /\ events.kills \in Int /\ events.deploys \in Int
        /\ Cardinality(Stranded) <= events.kills + events.deploys + 1
    BY <1>4, <2>1, Parts, StrandedIs
  <2>3. Name \in Stranded
    BY <1>4, Parts DEF StrandedCounted
  <2>4. Stranded' = Stranded \ {Name}
    BY <1>2, <1>3, <1>5, <1>6 DEF Stranded, Known
  <2>5. Cardinality(Stranded') = Cardinality(Stranded) - 1
    BY <2>3, <2>4, StrandedIsFinite, FS_RemoveElement
  <2>6. One(Saving') = 0 /\ One((Wrapping /\ Saves)') = 0
    BY <2>1 DEF One
  <2>7. Cardinality(Stranded') + One(Saving') <= events'.kills + events'.deploys + One((Wrapping /\ Saves)')
    BY <1>1, <2>2, <2>5, <2>6
  <2>. QED
    BY <2>1, <2>7 DEF StrandedCounted
<1>. QED
  BY <1>1, <1>4, <1>5, <1>6, <1>9, <1>10, <1>11, <1>12, SavingKeeps

\* Nothing is deployed at first.
LEMMA StartKeeps ==
    ASSUME DeploymentInit
    PROVE  DeploymentInvariant
<1>1. DeploymentTypes
  BY StartTypes
<1>2. /\ chain = <<>> /\ called = {} /\ handed = {}
      /\ process.pc = "off" /\ process.cmd = "" /\ process.todo = <<>> /\ process.force = FALSE
      /\ process.pending = <<>> /\ process.proxy = NoAddress /\ process.next = 1
      /\ process = NoProcess
      /\ \A n \in Names : book[n] = NoEntry /\ ~Known(book, n)
      /\ events.forced = 0 /\ events.deploys = 0 /\ events.kills = 0 /\ events.admins = 0
  BY NoProcessIs DEF DeploymentInit, Known
<1>3. DOMAIN chain = {} /\ DOMAIN process.todo = {} /\ DOMAIN process.pending = {}
  <2>1. \A x : x = <<>> => DOMAIN x = {}
    OBVIOUS
  <2>. QED
    BY <1>2, <2>1
<1>e. events.kills + events.admins = 0 /\ events.kills + events.deploys = 0 /\ Paid = 0
  <2>1. 0 + 0 = 0 /\ 0 + 0 + 0 = 0
    OBVIOUS
  <2>. QED
    BY <1>2, <2>1 DEF Paid
<1>4. ProcessSound
  BY <1>2, <1>3 DEF ProcessSound, Wrapping
<1>5. BookSound /\ ProxiesSound
  BY <1>2 DEF BookSound, ProxiesSound, SavedProxiesRun
<1>6. DeploymentsCounted
  <2>1. ASSUME NEW n \in Names
        PROVE  Cardinality(Addresses(n)) + One(Prepaid(n)) <= Level(n) + Paid + One(Unsaved(n))
    <3>1. Addresses(n) = {} /\ ~Prepaid(n) /\ ~Unsaved(n)
      BY <1>2, <1>3 DEF Addresses, Prepaid, Unsaved
    <3>3. Level(n) = 0 /\ Paid = 0
      BY <1>2, <1>e DEF Level
    <3>2. Cardinality(Addresses(n)) = 0
      BY <3>1, FS_EmptySet
    <3>. QED
      BY <3>1, <3>2, <3>3 DEF One
  <2>. QED
    BY <1>2, <2>1 DEF DeploymentsCounted
<1>7. StrandedCounted
  <2>1. Stranded = {} /\ ~Saving /\ ~Wrapping
    BY <1>2 DEF Stranded, Saving, Wrapping
  <2>2. Cardinality(Stranded) = 0
    BY <2>1, FS_EmptySet
  <2>3. One(Saving) = 0 /\ One(Wrapping /\ Saves) = 0
    BY <2>1 DEF One
  <2>4. Cardinality(Stranded) + One(Saving) <= events.kills + events.deploys + One(Wrapping /\ Saves)
    BY <1>e, <2>2, <2>3
  <2>. QED
    BY <2>1, <2>4 DEF StrandedCounted
<1>8. CallsSound
  BY <1>2, <1>3 DEF CallsSound
<1>9. WaitingCounted
  <2>1. Left = {}
    BY <1>3 DEF Left, Waiting
  <2>2. Cardinality(Left) = 0
    BY <2>1, FS_EmptySet
  <2>. QED
    BY <1>e, <2>2 DEF WaitingCounted
<1>. QED
  BY <1>1, <1>4, <1>5, <1>6, <1>7, <1>8, <1>9 DEF DeploymentInvariant

\* Steps that leave the process alone, with the count of what they leave over.
LEMMA OutsideStepKeeps ==
    ASSUME DeploymentInvariant, Outside, DeploymentTypes', WaitingCounted'
    PROVE  DeploymentInvariant'
BY OutsideKeeps DEF DeploymentInvariant

\* Every step keeps the invariant.
LEMMA StepKeeps ==
    ASSUME DeploymentInvariant, DeploymentNext
    PROVE  DeploymentInvariant'
<1>1. CASE SomeStart
  BY <1>1, SomeStartKeeps
<1>2. CASE MigrateStep
  <2>1. CASE Check
    BY <2>1, CheckKeeps
  <2>2. CASE DeployLibrary
    BY <2>2, DeployLibraryKeeps
  <2>3. CASE DeployContract
    BY <2>3, DeployContractKeeps
  <2>4. CASE SaveContract
    BY <2>4, SaveContractKeeps
  <2>5. CASE DeployProxy
    BY <2>5, DeployProxyKeeps
  <2>6. CASE AcceptProxy
    BY <2>6, AcceptProxyKeeps
  <2>7. CASE PrintAccept
    BY <2>7, PrintAcceptKeeps
  <2>8. CASE SaveProxy
    BY <2>8, SaveProxyKeeps
  <2>9. CASE Call
    BY <2>9, CallKeeps
  <2>10. CASE EndProcess
    BY <2>10, EndingKeeps DEF EndProcess, Done
  <2>. QED
    BY <1>2, <2>1, <2>2, <2>3, <2>4, <2>5, <2>6, <2>7, <2>8, <2>9, <2>10 DEF MigrateStep
<1>3. CASE KillProcess
  <2>1. events' = [events EXCEPT !.kills = @ + 1]
    BY <1>3, Parts, EventsHappen DEF KillProcess
  <2>. QED
    BY <1>3, <2>1, EndingKeeps DEF KillProcess
<1>4. ASSUME NEW a \in Artifacts, Rebuild(a) PROVE DeploymentInvariant'
  BY <1>4, RebuildKeeps
<1>5. ASSUME NEW u \in Upgraders, UpgradeStep(u) PROVE DeploymentInvariant'
  <2>1. ASSUME NEW n \in Names, NEW b \in BOOLEAN, NEW impl \in Addresses(n),
               StartUpgrade(u, n, impl, b)
        PROVE  DeploymentInvariant'
    <3>1. Outside /\ DeploymentTypes' /\ WaitingCounted'
      BY <2>1, Parts, StartUpgradeOutside
    <3>. QED
      BY <3>1, OutsideStepKeeps
  <2>2. CASE Upgrade(u)
    BY <2>2, Parts, UpgradeOutside, OutsideStepKeeps
  <2>3. CASE Accept(u)
    BY <2>3, Parts, AcceptOutside, OutsideStepKeeps
  <2>4. CASE KillUpgrade(u)
    BY <2>4, Parts, KillUpgradeOutside, OutsideStepKeeps
  <2>. QED
    BY <1>5, <2>1, <2>2, <2>3, <2>4 DEF UpgradeStep
<1>6. ASSUME NEW n \in Names, NEW a \in Addresses("GraphProxyAdmin"), SetProxyAdmin(n, a)
      PROVE  DeploymentInvariant'
  BY <1>6, Parts, SetProxyAdminOutside, OutsideStepKeeps
<1>7. ASSUME NEW tx \in handed, SendHanded(tx) PROVE DeploymentInvariant'
  BY <1>7, Parts, SendHandedOutside, OutsideStepKeeps
<1>. QED
  BY <1>1, <1>2, <1>3, <1>4, <1>5, <1>6, <1>7 DEF DeploymentNext

\* Stuttering does, too.
LEMMA StutterKeeps ==
    ASSUME DeploymentInvariant, UNCHANGED deploymentVars
    PROVE  DeploymentInvariant'
<1>1. /\ chain' = chain /\ called' = called /\ book' = book /\ build' = build
      /\ handed' = handed /\ process' = process /\ up' = up /\ events' = events
  BY DEF deploymentVars
<1>2. DeploymentTypes'
  BY <1>1, Parts DEF DeploymentTypes
<1>3. Outside
  BY <1>1, Parts DEF Outside, DeploymentTypes, EventCounts
<1>4. WaitingCounted'
  BY <1>1, Parts DEF WaitingCounted, Left, Waiting, Own, Explained
<1>. QED
  BY <1>2, <1>3, <1>4, OutsideStepKeeps

\* The invariant of migrate, deploy and the upgrades that run beside them, for
\* any configuration, any number of upgrades and any bounds on the events.
THEOREM DeploymentIsSound == DeploymentSpec => []DeploymentInvariant
<1>1. DeploymentInit => DeploymentInvariant
  BY StartKeeps
<1>2. DeploymentInvariant /\ [DeploymentNext]_deploymentVars => DeploymentInvariant'
  BY StepKeeps, StutterKeeps
<1>. QED
  BY <1>1, <1>2, PTL DEF DeploymentSpec

\* However a process ends, a proxy in the address book runs an implementation, or
\* its acceptance was printed for the multisig (network.ts:258).
THEOREM SavedProxiesAlwaysRun == DeploymentSpec => []SavedProxiesRun
<1>1. DeploymentInvariant => SavedProxiesRun
  BY Parts
<1>. QED
  BY <1>1, DeploymentIsSound, PTL

\* A contract is deployed once for each build of it or of its proxy; every other
\* deployment has a --force, a `deploy` or a kill to answer for it.
THEOREM DeployedNoMoreThanNeeded == DeploymentSpec => []NoNeedlessDeployments
<1>1. DeploymentInvariant => NoNeedlessDeployments
  <2>1. SUFFICES ASSUME DeploymentInvariant, NEW n \in Names
                 PROVE  Cardinality(Addresses(n)) <=
                           build[n] + One(Config[n].proxy) * (build["GraphProxy"] - 1)
                           + events.forced + events.deploys + events.kills
    BY DEF NoNeedlessDeployments
  <2>2. /\ Cardinality(Addresses(n)) \in Int /\ Level(n) \in Int /\ Paid \in Int
        /\ ~Unsaved(n) => Cardinality(Addresses(n)) <= Level(n) + Paid
        /\ Cardinality(Addresses(n)) <= Level(n) + Paid + 1
    <3>1. /\ Cardinality(Addresses(n)) \in Int /\ Level(n) \in Int /\ Paid \in Int
          /\ ~Prepaid(n) /\ ~Unsaved(n) => Cardinality(Addresses(n)) <= Level(n) + Paid
          /\ Prepaid(n) /\ ~Unsaved(n) => Cardinality(Addresses(n)) + 1 <= Level(n) + Paid
          /\ ~Prepaid(n) /\ Unsaved(n) => Cardinality(Addresses(n)) <= Level(n) + Paid + 1
          /\ Prepaid(n) /\ Unsaved(n) => Cardinality(Addresses(n)) <= Level(n) + Paid
      BY <2>1, Parts, CountedIs
    <3>. QED
      BY <3>1
  <2>3. /\ Top(n) \in Int /\ Level(n) <= Top(n)
        /\ build[n] \in Nat \ {0} /\ build["GraphProxy"] \in Nat \ {0}
    BY <2>1, Parts, LevelIs
  <2>4. Unsaved(n) => Level(n) < Top(n)
    BY <2>1, Parts DEF Unsaved, DeploymentsCounted
  <2>5. Cardinality(Addresses(n)) <= Top(n) + Paid
    BY <2>2, <2>3, <2>4
  <2>6. Top(n) = build[n] + One(Config[n].proxy) * (build["GraphProxy"] - 1)
    <3>1. \A k \in Int : 1 * k = k /\ 0 * k = 0
      OBVIOUS
    <3>. QED
      BY <2>3, <3>1 DEF Top, Extra, One
  <2>7. events.forced \in Int /\ events.deploys \in Int /\ events.kills \in Int
    BY <2>1, Parts DEF DeploymentTypes, EventCounts
  <2>8. Top(n) + Paid = Top(n) + events.forced + events.deploys + events.kills
    BY <2>3, <2>7 DEF Paid
  <2>. QED
    BY <2>5, <2>6, <2>8
<1>. QED
  BY <1>1, DeploymentIsSound, PTL

\* Only a kill or a deploy-save leaves a bare implementation in the place of a
\* proxy, one each, beside the one a running process is about to replace.
THEOREM FewAreStranded == DeploymentSpec => []StrandedBounded
<1>1. DeploymentInvariant => StrandedBounded
  <2>1. SUFFICES ASSUME DeploymentInvariant PROVE StrandedBounded
    OBVIOUS
  <2>2. /\ Cardinality(Stranded) \in Int
        /\ events.kills \in Int /\ events.deploys \in Int
        /\ ~Wrapping => Cardinality(Stranded) <= events.kills + events.deploys
        /\ Cardinality(Stranded) <= events.kills + events.deploys + 1
    <3>1. /\ Cardinality(Stranded) \in Int
          /\ events.kills \in Int /\ events.deploys \in Int
          /\ ~Saving /\ ~(Wrapping /\ Saves) =>
               Cardinality(Stranded) <= events.kills + events.deploys
          /\ Saving /\ ~(Wrapping /\ Saves) =>
               Cardinality(Stranded) + 1 <= events.kills + events.deploys
          /\ ~Saving /\ Wrapping /\ Saves =>
               Cardinality(Stranded) <= events.kills + events.deploys + 1
      BY <2>1, Parts, StrandedIs
    <3>2. ~(Saving /\ Wrapping)
      BY DEF Saving, Wrapping
    <3>. QED
      BY <3>1, <3>2
  <2>. QED
    BY <2>2 DEF StrandedBounded, One
<1>. QED
  BY <1>1, DeploymentIsSound, PTL

\* A migrate that is done made each call to the address in the book, with the
\* addresses of the book: no entry changes after a call has read it.
THEOREM DoneCallsAlwaysReachTheBook == DeploymentSpec => []DoneCallsReachTheBook
<1>1. DeploymentInvariant => DoneCallsReachTheBook
  <2>1. SUFFICES ASSUME DeploymentInvariant, Done, NEW call \in ToSet(process.pending)
                 PROVE  CallMade(call) \in called
    BY DEF DoneCallsReachTheBook, CallMade
  <2>2. PICK i \in DOMAIN process.pending : call = process.pending[i]
    BY DEF ToSet
  <2>3. i < process.next
    <3>1. process.pending \in Seq(PutOffCalls) /\ process.next \in Nat /\ process.next > Len(process.pending)
      BY <2>1, Parts DEF DeploymentTypes, Processes, Done
    <3>. DEFINE s == process.pending
    <3>2. s \in Seq(PutOffCalls) /\ i \in DOMAIN s
      BY <3>1, <2>2
    <3>. HIDE DEF s
    <3>3. i \in Nat /\ i <= Len(s) /\ Len(s) \in Nat
      BY <3>2
    <3>. QED
      BY <3>1, <3>3 DEF s
  <2>. QED
    BY <2>1, <2>2, <2>3, Parts DEF CallsSound
<1>. QED
  BY <1>1, DeploymentIsSound, PTL

\* Overlapping upgrades sort themselves out: a proxy waits only for an upgrade
\* that can accept it, for the process that deployed it or for the multisig, or
\* was left by a kill or a change of admin.
THEOREM PendingIsAlwaysExplained == DeploymentSpec => []PendingIsExplained
<1>1. DeploymentInvariant => PendingIsExplained
  <2>1. SUFFICES ASSUME DeploymentInvariant PROVE PendingIsExplained
    OBVIOUS
  <2>. DEFINE U == {u \in Upgraders : up[u].pc = "accept"}
              E == {a \in DOMAIN chain : Explained(a)}
              O == {a \in DOMAIN chain : Own(a)}
              f == [a \in E |-> CHOOSE u \in U : up[u].proxy = a]
  <2>2. \A a \in E : \E u \in U : up[u].proxy = a
    BY DEF Explained
  <2>3. \A a \in E : f[a] \in U /\ up[f[a]].proxy = a
    BY <2>2
  <2>4. IsFiniteSet(U)
    BY DeploymentAssumption, FS_Subset
  <2>5. IsFiniteSet(E) /\ Cardinality(E) <= Cardinality(U)
    <3>1. f \in Injection(E, U)
      <4>1. f \in [E -> U]
        BY <2>3
      <4>2. \A a, b \in E : f[a] = f[b] => a = b
        BY <2>3
      <4>. HIDE DEF f, E, U
      <4>. QED
        BY <4>1, <4>2 DEF Injection, IsInjective
    <3>. HIDE DEF f, E, U
    <3>. QED
      BY <2>4, <3>1, FS_Injection
  <2>6. IsFiniteSet(O) /\ Cardinality(O) <= One(Wrapping)
    <3>1. CASE process.pc \in {"accept", "print"}
      <4>1. O \subseteq {process.proxy} /\ Wrapping
        BY <3>1 DEF Own, Wrapping
      <4>2. IsFiniteSet({process.proxy}) /\ Cardinality({process.proxy}) = 1
        BY FS_Singleton
      <4>3. IsFiniteSet(O) /\ Cardinality(O) <= 1
        BY <4>1, <4>2, FS_Subset
      <4>. QED
        BY <4>1, <4>3 DEF One
    <3>2. CASE process.pc \notin {"accept", "print"}
      <4>1. O = {}
        BY <3>2 DEF Own
      <4>2. IsFiniteSet(O) /\ Cardinality(O) = 0
        BY <4>1, FS_EmptySet
      <4>. QED
        BY <4>2 DEF One
    <3>. QED
      BY <3>1, <3>2
  <2>7. Waiting \subseteq (Left \union O) \union E
    BY DEF Left, Waiting
  <2>8. IsFiniteSet(Left) /\ Cardinality(Left) \in Nat /\ Cardinality(Left) <= events.kills + events.admins
    BY <2>1, Parts, LeftIsFinite DEF WaitingCounted
  <2>9. /\ IsFiniteSet(Left \union O) /\ IsFiniteSet((Left \union O) \union E)
        /\ Cardinality(Waiting) <= Cardinality(Left) + Cardinality(O) + Cardinality(E)
    <3>. HIDE DEF O, E
    <3>1. \A S, T : IsFiniteSet(S) /\ IsFiniteSet(T) =>
             /\ IsFiniteSet(S \union T) /\ Cardinality(S \union T) <= Cardinality(S) + Cardinality(T)
             /\ Cardinality(S) \in Nat /\ Cardinality(T) \in Nat /\ Cardinality(S \union T) \in Nat
      <4>1. SUFFICES ASSUME NEW S, NEW T, IsFiniteSet(S), IsFiniteSet(T)
            PROVE  /\ IsFiniteSet(S \union T)
                   /\ Cardinality(S \union T) <= Cardinality(S) + Cardinality(T)
                   /\ Cardinality(S) \in Nat /\ Cardinality(T) \in Nat
                   /\ Cardinality(S \union T) \in Nat
        OBVIOUS
      <4>2. /\ IsFiniteSet(S \union T)
            /\ Cardinality(S \union T) = Cardinality(S) + Cardinality(T) - Cardinality(S \cap T)
        BY <4>1, FS_Union
      <4>3. IsFiniteSet(S \cap T)
        BY <4>1, FS_Intersection
      <4>4. /\ Cardinality(S) \in Nat /\ Cardinality(T) \in Nat /\ Cardinality(S \cap T) \in Nat
            /\ Cardinality(S \union T) \in Nat
        BY <4>1, <4>2, <4>3, FS_CardinalityType
      <4>. QED
        BY <4>2, <4>4
    <3>2. /\ IsFiniteSet(Left \union O)
          /\ Cardinality(Left \union O) <= Cardinality(Left) + Cardinality(O)
          /\ Cardinality(Left \union O) \in Nat /\ Cardinality(O) \in Nat
      BY <2>6, <2>8, <3>1
    <3>3. /\ IsFiniteSet((Left \union O) \union E)
          /\ Cardinality((Left \union O) \union E) <= Cardinality(Left \union O) + Cardinality(E)
          /\ Cardinality((Left \union O) \union E) \in Nat /\ Cardinality(E) \in Nat
      BY <2>5, <3>1, <3>2
    <3>4. Cardinality(Waiting) <= Cardinality((Left \union O) \union E) /\ Cardinality(Waiting) \in Nat
      BY <2>7, <3>3, FS_Subset, FS_CardinalityType
    <3>5. Cardinality(Waiting) <= Cardinality(Left) + Cardinality(O) + Cardinality(E)
      BY <2>8, <3>2, <3>3, <3>4
    <3>. QED
      BY <3>2, <3>3, <3>5
  <2>10. /\ Cardinality(Waiting) \in Int /\ Cardinality(O) \in Int /\ Cardinality(E) \in Int
         /\ Cardinality(U) \in Int /\ One(Wrapping) \in Int
         /\ events.kills \in Int /\ events.admins \in Int
    <3>1. IsFiniteSet(Waiting)
      BY <2>7, <2>9, FS_Subset
    <3>2. Cardinality(Waiting) \in Nat /\ Cardinality(O) \in Nat /\ Cardinality(E) \in Nat /\ Cardinality(U) \in Nat
      BY <2>4, <2>5, <2>6, <3>1, FS_CardinalityType
    <3>3. events.kills \in Nat /\ events.admins \in Nat
      BY <2>1, Parts DEF DeploymentTypes, EventCounts
    <3>. QED
      BY <3>2, <3>3 DEF One
  <2>11. Cardinality(Waiting) <= Cardinality(U) + One(Wrapping) + events.kills + events.admins
    <3>. HIDE DEF U, E, O
    <3>. QED
      BY <2>5, <2>6, <2>8, <2>9, <2>10
  <2>. QED
    BY <2>11 DEF PendingIsExplained
<1>. QED
  BY <1>1, DeploymentIsSound, PTL

-----------------------------------------------------------------------------
(* Contract and protocol commands                                          *)

\* A step that the contracts still offer, or that asks none of them.
Fits(step) == step.kind = "pin" \/ Exists(step)
Reached(steps, i) == \A j \in 1 .. i - 1 : Fits(steps[j])

\* What is run: the commands, their names and their steps.
Offered == UNION {AllCommands(amount) : amount \in Amounts}
CommandIds == {<<c.group, c.name>> : c \in Offered} \union {<<"", "">>}
CommandSteps == UNION {ToSet(c.steps) : c \in Offered}
SessionStates == [pc : {"off", "on", "sent"}, id : CommandIds, steps : Seq(CommandSteps),
                  at : Nat \ {0}, unpinned : BOOLEAN, reverted : BOOLEAN, overtaken : BOOLEAN,
                  how : {"", "mismatch", "refused", "done", "killed"}]
Transactions == [by : Sessions \union {Nobody}, step : CommandSteps]
UseCounts == [runs : Nat, kills : Nat, cut : Nat]
CommandTypes ==
    /\ paused \in BOOLEAN
    /\ granted \in [Spenders -> Nat]
    /\ mempool \in Seq(Transactions)
    /\ session \in [Sessions -> SessionStates]
    /\ used \in UseCounts

\* An approval that a command gets to is its only one, and the next step pulls
\* all of it.
ApprovesAt(steps, i) ==
    /\ i + 1 \in DOMAIN steps
    /\ steps[i].kind = "tx" /\ steps[i].spender \in Spenders /\ steps[i].pulls = 0
    /\ steps[i + 1].kind = "tx" /\ steps[i + 1].spender = ""
    /\ steps[i + 1].to = steps[i].spender /\ steps[i + 1].pulls = steps[i].grants
    /\ \A j \in DOMAIN steps : Reached(steps, j) /\ steps[j].spender # "" => j = i
GoodCommand(id, steps) ==
    /\ \E S : steps \in Seq(S)
    /\ \A i \in DOMAIN steps : steps[i].grants \in Nat /\ steps[i].pulls \in Nat
    /\ id \in LeftBehind <=> \E i \in DOMAIN steps : ~Fits(steps[i])
    /\ \A i \in DOMAIN steps :
          Reached(steps, i) /\ steps[i].spender # "" => ApprovesAt(steps, i)

SoundSession(c) ==
    /\ GoodCommand(c.id, c.steps)
    /\ c.at <= Len(c.steps) + 1
    /\ Reached(c.steps, c.at)
    /\ c.pc = "sent" =>
          c.at <= Len(c.steps) /\ c.steps[c.at].kind = "tx" /\ Fits(c.steps[c.at])
    /\ c.how # "" => c.pc = "off"
    /\ c.how = "mismatch" => \E i \in DOMAIN c.steps : ~Fits(c.steps[i])
    /\ c.how = "done" => c.at = Len(c.steps) + 1
    /\ c.reverted => c.overtaken \/ \E i \in DOMAIN c.steps : c.steps[i].gasLimit
SessionsSound == \A p \in Sessions : SoundSession(session[p])

MempoolSound ==
    /\ \A i \in DOMAIN mempool : mempool[i].by \in Sessions =>
          LET p == mempool[i].by IN
          /\ session[p].pc = "sent" /\ mempool[i].step = Current(p)
          /\ session[p].overtaken \/ Estimated(mempool[i].step)
    /\ \A i, j \in DOMAIN mempool :
          mempool[i].by = mempool[j].by /\ mempool[i].by \in Sessions => i = j

\* The allowance of s that is left is p's to account for: what p approved is mined
\* and it has not pulled it yet, unless another approval replaced it with more,
\* or a transaction of p failed.
Owes(p, s) ==
    /\ session[p].pc # "off"
    /\ \E i \in DOMAIN session[p].steps :
          /\ session[p].steps[i].spender = s
          /\ \/ session[p].at = i /\ session[p].pc = "sent" /\ Received(p)
                /\ granted[s] <= session[p].steps[i].grants
             \/ session[p].at = i + 1 /\ ~(session[p].pc = "sent" /\ Received(p))
                /\ granted[s] <= session[p].steps[i].grants
             \/ session[p].at > i /\ session[p].reverted
Unowed == {s \in Spenders : granted[s] > 0 /\ \A p \in Sessions : ~Owes(p, s)}
Orphans == {i \in DOMAIN mempool : mempool[i].by = Nobody /\ mempool[i].step.spender # ""}
LeftoversCounted == Cardinality(Unowed) + Cardinality(Orphans) <= used.cut

CommandsInvariant ==
    /\ CommandTypes
    /\ SessionsSound
    /\ MempoolSound
    /\ LeftoversCounted

LEMMA FunctionsAre ==
    ASSUME NEW n, NEW fns, NEW f, NEW m
    PROVE  <<f, m>> \in Functions(n, fns) <=> m = n /\ f \in fns
BY DEF Functions

\* Steps without an allowance.
Plain(s) == s.spender = "" /\ s.grants \in Nat /\ s.pulls \in Nat

LEMMA TxIs ==
    ASSUME NEW to, NEW fn, NEW n
    PROVE  /\ Plain(Tx(to, fn, n)) /\ Plain(View(to, fn, n))
           /\ Fits(Tx(to, fn, n)) <=> <<fn, n>> \in Interface[to]
           /\ Fits(View(to, fn, n)) <=> <<fn, n>> \in Interface[to]
BY DEF Step, Tx, View, Fits, Exists, Plain

LEMMA PullingIs ==
    ASSUME NEW to, NEW fn, NEW n, NEW amount \in Nat
    PROVE  /\ Plain(Pulling(to, fn, n, amount))
           /\ Fits(Pulling(to, fn, n, amount)) <=> <<fn, n>> \in Interface[to]
BY DEF Step, Tx, Pulling, Fits, Exists, Plain

LEMMA PullingPulls ==
    ASSUME NEW to, NEW fn, NEW n, NEW amount
    PROVE  /\ Pulling(to, fn, n, amount).kind = "tx"
           /\ Pulling(to, fn, n, amount).to = to
           /\ Pulling(to, fn, n, amount).pulls = amount
BY DEF Step, Tx, Pulling

LEMMA ApproveIs ==
    ASSUME NEW spender \in Spenders, NEW amount \in Nat
    PROVE  /\ Fits(Approve(spender, amount)) <=> <<"approve", 2>> \in Interface["GraphToken"]
           /\ Approve(spender, amount).kind = "tx"
           /\ Approve(spender, amount).spender = spender
           /\ Approve(spender, amount).grants = amount /\ Approve(spender, amount).pulls = 0
BY DEF Step, Tx, Approve, Fits, Exists

LEMMA OddIs ==
    ASSUME NEW to, NEW fn
    PROVE  /\ Plain(Bare(to, fn)) /\ ~Fits(Bare(to, fn))
           /\ Plain(Spread(to, fn)) /\ ~Fits(Spread(to, fn))
BY DEF Step, Tx, Bare, Spread, Fits, Exists, Plain

LEMMA PinIs == Plain(Pin) /\ Fits(Pin)
BY DEF Step, Pin, Fits, Plain

\* A command that approves nothing is good if its name says whether it fits.
LEMMA PlainCommand ==
    ASSUME NEW id, NEW S, NEW steps \in Seq(S), \A i \in DOMAIN steps : Plain(steps[i]),
           id \in LeftBehind <=> \E i \in DOMAIN steps : ~Fits(steps[i])
    PROVE  GoodCommand(id, steps)
BY DEF GoodCommand, Plain

LEMMA OneStep ==
    ASSUME NEW id, NEW s, Plain(s), id \in LeftBehind <=> ~Fits(s)
    PROVE  GoodCommand(id, <<s>>)
<1>1. <<s>> \in Seq({s}) /\ DOMAIN <<s>> = {1}
  OBVIOUS
<1>2. <<s>>[1] = s
  OBVIOUS
<1>. QED
  BY <1>1, <1>2, PlainCommand

LEMMA TwoSteps ==
    ASSUME NEW id, NEW s, NEW t, Plain(s), Plain(t), Fits(s),
           id \in LeftBehind <=> ~Fits(t)
    PROVE  GoodCommand(id, <<s, t>>)
<1>. DEFINE c == <<s, t>>
<1>1. c \in Seq({s, t}) /\ DOMAIN c = {1, 2} /\ c[1] = s /\ c[2] = t
  OBVIOUS
<1>. HIDE DEF c
<1>2. \A i \in DOMAIN c : Plain(c[i])
  BY <1>1
<1>3. id \in LeftBehind <=> \E i \in DOMAIN c : ~Fits(c[i])
  BY <1>1
<1>4. GoodCommand(id, c)
  BY <1>1, <1>2, <1>3, PlainCommand
<1>. QED
  BY <1>4 DEF c

LEMMA ThreeSteps ==
    ASSUME NEW id, NEW s, NEW t, NEW u, Plain(s), Plain(t), Plain(u),
           Fits(s), Fits(t), id \in LeftBehind <=> ~Fits(u)
    PROVE  GoodCommand(id, <<s, t, u>>)
<1>. DEFINE c == <<s, t, u>>
<1>1. c \in Seq({s, t, u}) /\ DOMAIN c = {1, 2, 3} /\ c[1] = s /\ c[2] = t /\ c[3] = u
  OBVIOUS
<1>2. /\ \A i \in DOMAIN c : Plain(c[i])
      /\ id \in LeftBehind <=> \E i \in DOMAIN c : ~Fits(c[i])
  BY <1>1
<1>. HIDE DEF c
<1>3. GoodCommand(id, c)
  BY <1>1, <1>2, PlainCommand
<1>. QED
  BY <1>3 DEF c

\* A command of one transaction or view.
LEMMA TxCommand ==
    ASSUME NEW id, NEW to, NEW fn, NEW n,
           id \in LeftBehind <=> <<fn, n>> \notin Interface[to]
    PROVE  GoodCommand(id, <<Tx(to, fn, n)>>) /\ GoodCommand(id, <<View(to, fn, n)>>)
BY TxIs, OneStep

LEMMA PullingCommand ==
    ASSUME NEW id, NEW to, NEW fn, NEW n, NEW amount \in Nat,
           id \in LeftBehind <=> <<fn, n>> \notin Interface[to]
    PROVE  GoodCommand(id, <<Pulling(to, fn, n, amount)>>)
BY PullingIs, OneStep

LEMMA NoSteps ==
    ASSUME NEW id, id \notin LeftBehind
    PROVE  GoodCommand(id, <<>>)
<1>1. <<>> \in Seq({}) /\ DOMAIN <<>> = {}
  OBVIOUS
<1>. QED
  BY <1>1, PlainCommand

\* The commands of the table, group by group.
LEMMA StakingCommandsGood ==
    ASSUME NEW amount \in Nat, NEW n \in DOMAIN StakingCommands(amount)
    PROVE  GoodCommand(<<"staking", n>>, StakingCommands(amount)[n])
<1>1. Interface["Staking"] = StakingInterface
  BY DEF Interface
<1>2. /\ <<"stake", 1>> \in StakingInterface /\ <<"unstake", 1>> \in StakingInterface
      /\ <<"claim", 2>> \in StakingInterface /\ <<"delegate", 2>> \in StakingInterface
      /\ <<"undelegate", 2>> \in StakingInterface
      /\ <<"withdrawDelegated", 2>> \in StakingInterface
      /\ <<"setDelegationParameters", 3>> \in StakingInterface
      /\ <<"setOperator", 2>> \in StakingInterface
  BY FunctionsAre DEF StakingInterface
<1>3. <<"allocate", 4>> \notin StakingInterface /\ <<"close", 1>> \notin StakingInterface
  BY FunctionsAre DEF StakingInterface
<1>4. /\ \A x \in {"stake", "unstake", "collect", "claim", "delegate", "undelegate",
                   "withdrawDelegated", "setDelegationParameters", "setOperator"} :
            <<"staking", x>> \notin LeftBehind
      /\ <<"staking", "withdraw">> \in LeftBehind /\ <<"staking", "allocate">> \in LeftBehind
      /\ <<"staking", "closeAllocation">> \in LeftBehind
  BY DEF LeftBehind
<1>. DEFINE t == StakingCommands(amount)
<1>5. GoodCommand(<<"staking", "collect">>, t.collect)
  BY <1>4, NoSteps DEF StakingCommands
<1>6. /\ GoodCommand(<<"staking", "stake">>, t.stake)
      /\ GoodCommand(<<"staking", "delegate">>, t.delegate)
  BY <1>1, <1>2, <1>4, PullingCommand DEF StakingCommands
<1>7. GoodCommand(<<"staking", "withdraw">>, t.withdraw)
  BY <1>4, OneStep, OddIs DEF StakingCommands
<1>8. /\ GoodCommand(<<"staking", "allocate">>, t.allocate)
      /\ GoodCommand(<<"staking", "closeAllocation">>, t.closeAllocation)
  BY <1>1, <1>3, <1>4, TxCommand DEF StakingCommands
<1>9. /\ GoodCommand(<<"staking", "unstake">>, t.unstake)
      /\ GoodCommand(<<"staking", "claim">>, t.claim)
      /\ GoodCommand(<<"staking", "undelegate">>, t.undelegate)
      /\ GoodCommand(<<"staking", "withdrawDelegated">>, t.withdrawDelegated)
      /\ GoodCommand(<<"staking", "setDelegationParameters">>, t.setDelegationParameters)
      /\ GoodCommand(<<"staking", "setOperator">>, t.setOperator)
  BY <1>1, <1>2, <1>4, TxCommand DEF StakingCommands
<1>10. n \in {"stake", "unstake", "withdraw", "allocate", "closeAllocation", "collect", "claim",
              "delegate", "undelegate", "withdrawDelegated", "setDelegationParameters",
              "setOperator"}
  BY DEF StakingCommands
<1>. HIDE DEF t
<1>11. GoodCommand(<<"staking", n>>, t[n])
  BY <1>5, <1>6, <1>7, <1>8, <1>9, <1>10
<1>. QED
  BY <1>11 DEF t

LEMMA GNSCommandsGood ==
    ASSUME NEW amount \in Nat, NEW n \in DOMAIN GNSCommands(amount)
    PROVE  GoodCommand(<<"gns", n>>, GNSCommands(amount)[n])
<1>1. /\ <<"setDefaultName", 4>> \in Interface["GNS"]
      /\ <<"publishNewSubgraph", 3>> \in Interface["GNS"]
      /\ <<"publishNewVersion", 3>> \in Interface["GNS"]
      /\ <<"deprecateSubgraph", 1>> \in Interface["GNS"]
      /\ <<"updateSubgraphMetadata", 2>> \in Interface["GNS"]
      /\ <<"mintSignal", 3>> \in Interface["GNS"] /\ <<"burnSignal", 3>> \in Interface["GNS"]
      /\ <<"withdraw", 1>> \in Interface["GNS"]
  BY FunctionsAre DEF Interface
<1>2. \A x \in {"setDefaultName", "publishNewSubgraph", "publishNewVersion", "deprecate",
                "updateSubgraphMetadata", "mintSignal", "burnSignal", "withdraw"} :
         <<"gns", x>> \notin LeftBehind
  BY DEF LeftBehind
<1>. DEFINE t == GNSCommands(amount)
<1>3. /\ GoodCommand(<<"gns", "setDefaultName">>, t.setDefaultName)
      /\ GoodCommand(<<"gns", "deprecate">>, t.deprecate)
      /\ GoodCommand(<<"gns", "burnSignal">>, t.burnSignal)
      /\ GoodCommand(<<"gns", "withdraw">>, t.withdraw)
  BY <1>1, <1>2, TxCommand DEF GNSCommands
<1>4. GoodCommand(<<"gns", "mintSignal">>, t.mintSignal)
  BY <1>1, <1>2, PullingCommand DEF GNSCommands
<1>5. GoodCommand(<<"gns", "publishNewSubgraph">>, t.publishNewSubgraph)
  BY <1>1, <1>2, TxIs, PinIs, ThreeSteps DEF GNSCommands
<1>6. /\ GoodCommand(<<"gns", "publishNewVersion">>, t.publishNewVersion)
      /\ GoodCommand(<<"gns", "updateSubgraphMetadata">>, t.updateSubgraphMetadata)
  BY <1>1, <1>2, TxIs, PinIs, TwoSteps DEF GNSCommands
<1>7. n \in {"setDefaultName", "publishNewSubgraph", "publishNewVersion", "deprecate",
             "updateSubgraphMetadata", "mintSignal", "burnSignal", "withdraw"}
  BY DEF GNSCommands
<1>. HIDE DEF t
<1>8. GoodCommand(<<"gns", n>>, t[n])
  BY <1>3, <1>4, <1>5, <1>6, <1>7
<1>. QED
  BY <1>8 DEF t

Numbered(steps) == \A i \in DOMAIN steps : steps[i].grants \in Nat /\ steps[i].pulls \in Nat

\* setupIndexer is a part of two commands, and stops them at its allocate.
LEMMA JoinNumbered ==
    ASSUME NEW S, NEW a \in Seq(S), NEW b \in Seq(S), Numbered(a), Numbered(b)
    PROVE  /\ a \o b \in Seq(S) /\ Numbered(a \o b)
           /\ \A i \in DOMAIN a : i \in DOMAIN (a \o b) /\ (a \o b)[i] = a[i]
BY DEF Numbered

\* The commands that set up an indexer end at the fourth step.
SetupSteps(c, amount) ==
    /\ {1, 2, 3, 4} \subseteq DOMAIN c /\ Numbered(c)
    /\ c[1].spender = ""
    /\ c[2].kind = "tx" /\ c[2].spender = "Staking" /\ c[2].grants = amount /\ c[2].pulls = 0
    /\ c[3].kind = "tx" /\ c[3].spender = "" /\ c[3].to = "Staking" /\ c[3].pulls = amount
    /\ c[4].spender = "" /\ ~Fits(c[4])

LEMMA SetupIs ==
    ASSUME NEW amount \in Nat
    PROVE  SetupSteps(SetupIndexer(amount), amount) /\ \E S : SetupIndexer(amount) \in Seq(S)
<1>. DEFINE s1 == Tx("GraphToken", "transfer", 2)
            s2 == Approve("Staking", amount)
            s3 == Pulling("Staking", "stake", 1, amount)
            s4 == Tx("Staking", "allocate", 4)
            c == <<s1, s2, s3, s4>>
<1>1. <<"allocate", 4>> \notin Interface["Staking"]
  BY FunctionsAre DEF Interface, StakingInterface
<1>2. Plain(s1) /\ Plain(s4) /\ ~Fits(s4)
  BY <1>1, TxIs
<1>3. s3.kind = "tx" /\ s3.to = "Staking" /\ s3.pulls = amount
  BY PullingPulls
<1>p. Plain(s3)
  BY PullingIs
<1>4. s2.kind = "tx" /\ s2.spender = "Staking" /\ s2.grants = amount /\ s2.pulls = 0
  BY ApproveIs DEF Spenders
<1>5. SetupIndexer(amount) = c
  BY DEF SetupIndexer
<1>. HIDE DEF s1, s2, s3, s4
<1>6. /\ c \in Seq({s1, s2, s3, s4}) /\ DOMAIN c = 1 .. 4
      /\ c[1] = s1 /\ c[2] = s2 /\ c[3] = s3 /\ c[4] = s4
  OBVIOUS
<1>. HIDE DEF c
<1>7. Numbered(c)
  <2>1. /\ s1.grants \in Nat /\ s2.grants \in Nat /\ s3.grants \in Nat /\ s4.grants \in Nat
        /\ s1.pulls \in Nat /\ s2.pulls \in Nat /\ s3.pulls \in Nat /\ s4.pulls \in Nat
    <3>1. s1.grants \in Nat /\ s1.pulls \in Nat
      BY <1>2 DEF Plain
    <3>2. s4.grants \in Nat /\ s4.pulls \in Nat
      BY <1>2 DEF Plain
    <3>3. s3.grants \in Nat /\ s3.pulls \in Nat
      BY <1>p DEF Plain
    <3>4. s2.grants \in Nat
      BY <1>4
    <3>5. s2.pulls \in Nat
      BY <1>4
    <3>. QED
      BY <3>1, <3>2, <3>3, <3>4, <3>5
  <2>. QED
    BY <1>6, <2>1 DEF Numbered
<1>8. SetupSteps(c, amount)
  <2>1. s1.spender = "" /\ s3.spender = "" /\ s4.spender = ""
    BY <1>2, <1>p DEF Plain
  <2>. QED
    <3>1. {1, 2, 3, 4} \subseteq DOMAIN c
      BY <1>6
    <3>2. ~Fits(c[4]) /\ c[4].spender = "" /\ c[1].spender = ""
      BY <1>2, <1>6, <2>1
    <3>3. c[3].kind = "tx" /\ c[3].spender = "" /\ c[3].to = "Staking" /\ c[3].pulls = amount
      BY <1>3, <1>6, <2>1
    <3>4. c[2].kind = "tx" /\ c[2].spender = "Staking" /\ c[2].grants = amount /\ c[2].pulls = 0
      BY <1>4, <1>6
    <3>. QED
      BY <1>7, <3>1, <3>2, <3>3, <3>4 DEF SetupSteps
<1>. QED
  BY <1>5, <1>6, <1>8

LEMMA SetupCommand ==
    ASSUME NEW id, id \in LeftBehind, NEW amount \in Nat, NEW S, NEW c \in Seq(S),
           SetupSteps(c, amount)
    PROVE  GoodCommand(id, c)
<1>1. ASSUME NEW j \in DOMAIN c, Reached(c, j), c[j].spender # ""
      PROVE  j = 2
  <2>1. DOMAIN c \subseteq Nat \ {0}
    OBVIOUS
  <2>2. ~(4 \in 1 .. j - 1)
    BY <1>1 DEF Reached, SetupSteps
  <2>3. j = 1 \/ j = 2 \/ j = 3 \/ j = 4
    BY <2>1, <2>2
  <2>4. c[1].spender = "" /\ c[3].spender = "" /\ c[4].spender = ""
    BY DEF SetupSteps
  <2>. QED
    BY <1>1, <2>3, <2>4
<1>2. ApprovesAt(c, 2)
  <2>1. 2 + 1 = 3
    OBVIOUS
  <2>. QED
    BY <1>1, <2>1 DEF ApprovesAt, SetupSteps, Spenders
<1>. QED
  BY <1>1, <1>2 DEF GoodCommand, SetupSteps, Numbered

LEMMA SetupThen ==
    ASSUME NEW amount \in Nat, NEW S, NEW b \in Seq(S), NEW rest \in Seq(S),
           SetupSteps(b, amount), Numbered(rest)
    PROVE  SetupSteps(b \o rest, amount)
<1>1. /\ Numbered(b \o rest)
      /\ \A i \in DOMAIN b : i \in DOMAIN (b \o rest) /\ (b \o rest)[i] = b[i]
  BY JoinNumbered DEF SetupSteps
<1>. DEFINE c == b \o rest
<1>2. \A i \in {1, 2, 3, 4} : i \in DOMAIN c /\ c[i] = b[i]
  BY <1>1 DEF SetupSteps
<1>. HIDE DEF c
<1>4. SetupSteps(c, amount)
  BY <1>1, <1>2 DEF SetupSteps, c
<1>. QED
  BY <1>4 DEF c

LEMMA DisputeCommandsGood ==
    ASSUME NEW amount \in Nat, NEW n \in DOMAIN DisputeCommands(amount)
    PROVE  GoodCommand(<<"disputes", n>>, DisputeCommands(amount)[n])
<1>1. /\ <<"disputes", "createQueryConflict">> \in LeftBehind
      /\ <<"disputes", "createIndexing">> \in LeftBehind
      /\ <<"disputes", "accept">> \in LeftBehind /\ <<"disputes", "reject">> \in LeftBehind
      /\ <<"disputes", "draw">> \in LeftBehind
  BY DEF LeftBehind
<1>. DEFINE t == DisputeCommands(amount)
<1>2. /\ GoodCommand(<<"disputes", "accept">>, t.accept)
      /\ GoodCommand(<<"disputes", "reject">>, t.reject)
      /\ GoodCommand(<<"disputes", "draw">>, t.draw)
  BY <1>1, OneStep, OddIs DEF DisputeCommands
<1>. DEFINE b == SetupIndexer(amount)
            conflict == <<Tx("DisputeManager", "createQueryDisputeConflict", 2)>>
            s1 == Approve("DisputeManager", amount)
            s2 == Pulling("DisputeManager", "createIndexingDispute", 2, amount)
            dispute == <<s1, s2>>
<1>3. SetupSteps(b, amount) /\ \E S : b \in Seq(S)
  BY SetupIs
<1>4. PICK S : b \in Seq(S)
  BY <1>3
<1>5. Numbered(conflict) /\ \E R : conflict \in Seq(R)
  <2>. DEFINE s == Tx("DisputeManager", "createQueryDisputeConflict", 2)
  <2>1. Plain(s)
    BY TxIs
  <2>. HIDE DEF s
  <2>2. <<s>> \in Seq({s}) /\ DOMAIN <<s>> = {1} /\ <<s>>[1] = s
    OBVIOUS
  <2>3. conflict = <<s>>
    BY DEF s
  <2>. QED
    BY <2>1, <2>2, <2>3 DEF Numbered, Plain
<1>6. Numbered(dispute) /\ \E R : dispute \in Seq(R)
  <2>1. s1.grants \in Nat /\ s1.pulls \in Nat
    BY ApproveIs DEF Spenders
  <2>2. Plain(s2)
    BY PullingIs
  <2>. HIDE DEF s1, s2
  <2>3. /\ dispute \in Seq({s1, s2}) /\ DOMAIN dispute = {1, 2}
        /\ dispute[1] = s1 /\ dispute[2] = s2
    OBVIOUS
  <2>. QED
    BY <2>1, <2>2, <2>3 DEF Numbered, Plain
<1>7. t.createQueryConflict = b \o b \o conflict /\ t.createIndexing = b \o dispute
  BY DEF DisputeCommands
<1>. HIDE DEF b, conflict, dispute
<1>8. GoodCommand(<<"disputes", "createQueryConflict">>, t.createQueryConflict)
  <2>1. PICK R : conflict \in Seq(R)
    BY <1>5
  <2>2. b \in Seq(S \union R) /\ conflict \in Seq(S \union R)
    BY <1>4, <2>1
  <2>3. b \o b \in Seq(S \union R)
    BY <2>2
  <2>4. Numbered(b)
    BY <1>3 DEF SetupSteps
  <2>5. SetupSteps(b \o b, amount)
    BY <1>3, <2>2, <2>4, SetupThen
  <2>6. SetupSteps(b \o b \o conflict, amount)
    BY <1>5, <2>2, <2>3, <2>5, SetupThen
  <2>7. b \o b \o conflict \in Seq(S \union R)
    BY <2>2, <2>3
  <2>. QED
    BY <1>1, <1>7, <2>6, <2>7, SetupCommand
<1>9. GoodCommand(<<"disputes", "createIndexing">>, t.createIndexing)
  <2>1. PICK R : dispute \in Seq(R)
    BY <1>6
  <2>2. b \in Seq(S \union R) /\ dispute \in Seq(S \union R)
    BY <1>4, <2>1
  <2>3. SetupSteps(b \o dispute, amount) /\ b \o dispute \in Seq(S \union R)
    BY <1>3, <1>6, <2>2, SetupThen
  <2>. QED
    BY <1>1, <1>7, <2>3, SetupCommand
<1>10. n \in {"createQueryConflict", "createIndexing", "accept", "reject", "draw"}
  BY DEF DisputeCommands
<1>. HIDE DEF t
<1>11. GoodCommand(<<"disputes", n>>, t[n])
  BY <1>2, <1>8, <1>9, <1>10
<1>. QED
  BY <1>11 DEF t

LEMMA CurationCommandsGood ==
    ASSUME NEW amount \in Nat, NEW n \in DOMAIN CurationCommands(amount)
    PROVE  GoodCommand(<<"curation", n>>, CurationCommands(amount)[n])
<1>1. /\ <<"approve", 2>> \in Interface["GraphToken"]
      /\ <<"mint", 3>> \in Interface["Curation"] /\ <<"burn", 3>> \in Interface["Curation"]
  BY FunctionsAre DEF Interface
<1>2. <<"curation", "mint">> \notin LeftBehind /\ <<"curation", "burn">> \notin LeftBehind
  BY DEF LeftBehind
<1>. DEFINE t == CurationCommands(amount)
<1>3. GoodCommand(<<"curation", "burn">>, t.burn)
  BY <1>1, <1>2, TxCommand DEF CurationCommands
<1>. DEFINE s1 == Approve("Curation", amount)
            s2 == [Pulling("Curation", "mint", 3, amount) EXCEPT !.gasLimit = TRUE]
            c == <<s1, s2>>
<1>4. /\ s1.kind = "tx" /\ s1.spender = "Curation" /\ s1.grants = amount /\ s1.pulls = 0
      /\ Fits(s1)
  BY <1>1, ApproveIs DEF Spenders
<1>5. /\ s2.kind = "tx" /\ s2.spender = "" /\ s2.grants \in Nat /\ s2.to = "Curation"
      /\ s2.pulls = amount
  BY DEF Step, Tx, Pulling
<1>6. Fits(s2)
  BY <1>1 DEF Step, Tx, Pulling, Fits, Exists
<1>7. t.mint = c
  BY DEF CurationCommands, CurationMint
<1>. HIDE DEF s1, s2
<1>8. /\ c \in Seq({s1, s2}) /\ DOMAIN c = {1, 2} /\ c[1] = s1 /\ c[2] = s2
  OBVIOUS
<1>. HIDE DEF c
<1>9. ApprovesAt(c, 1)
  <2>1. 1 + 1 = 2
    OBVIOUS
  <2>2. \A j \in DOMAIN c : c[j].spender # "" => j = 1
    BY <1>5, <1>8
  <2>. QED
    BY <1>4, <1>5, <1>8, <2>1, <2>2 DEF ApprovesAt, Spenders
<1>10. Numbered(c)
  <2>1. s1.grants \in Nat /\ s2.grants \in Nat /\ s1.pulls \in Nat /\ s2.pulls \in Nat
    <3>1. s1.grants \in Nat /\ s1.pulls \in Nat
      BY <1>4
    <3>2. s2.grants \in Nat
      BY <1>5
    <3>3. s2.pulls \in Nat
      BY <1>5
    <3>. QED
      BY <3>1, <3>2, <3>3
  <2>. QED
    BY <1>8, <2>1 DEF Numbered
<1>11. \A i \in DOMAIN c : Fits(c[i]) /\ (c[i].spender # "" => i = 1)
  BY <1>4, <1>5, <1>6, <1>8
<1>12. GoodCommand(<<"curation", "mint">>, c)
  BY <1>2, <1>8, <1>9, <1>10, <1>11 DEF GoodCommand, Numbered
<1>13. n \in {"mint", "burn"}
  BY DEF CurationCommands
<1>. HIDE DEF t
<1>14. GoodCommand(<<"curation", n>>, t[n])
  BY <1>3, <1>7, <1>12, <1>13
<1>. QED
  BY <1>14 DEF t

LEMMA TokenCommandsGood ==
    ASSUME NEW n \in DOMAIN TokenCommands
    PROVE  GoodCommand(<<"token", n>>, TokenCommands[n])
<1>1. /\ <<"mint", 2>> \in Interface["GraphToken"] /\ <<"burn", 1>> \in Interface["GraphToken"]
      /\ <<"transfer", 2>> \in Interface["GraphToken"]
      /\ <<"approve", 2>> \in Interface["GraphToken"]
      /\ <<"allowance", 2>> \in Interface["GraphToken"]
  BY FunctionsAre DEF Interface
<1>2. \A x \in {"mint", "burn", "transfer", "approve", "allowance"} :
         <<"token", x>> \notin LeftBehind
  BY DEF LeftBehind
<1>. DEFINE t == TokenCommands
<1>3. /\ GoodCommand(<<"token", "mint">>, t.mint) /\ GoodCommand(<<"token", "burn">>, t.burn)
      /\ GoodCommand(<<"token", "transfer">>, t.transfer)
      /\ GoodCommand(<<"token", "approve">>, t.approve)
      /\ GoodCommand(<<"token", "allowance">>, t.allowance)
  BY <1>1, <1>2, TxCommand DEF TokenCommands
<1>4. n \in {"mint", "burn", "transfer", "approve", "allowance"}
  BY DEF TokenCommands
<1>. HIDE DEF t
<1>5. GoodCommand(<<"token", n>>, t[n])
  BY <1>3, <1>4
<1>. QED
  BY <1>5 DEF t

LEMMA TestnetCommandsGood ==
    ASSUME NEW n \in DOMAIN TestnetCommands
    PROVE  GoodCommand(<<"testnet", n>>, TestnetCommands[n])
<1>1. /\ <<"setGSR", 1>> \in Interface["GDAI"] /\ <<"setRate", 1>> \in Interface["GSRManager"]
      /\ <<"join", 1>> \in Interface["GSRManager"] /\ <<"mint", 2>> \in Interface["GDAI"]
      /\ <<"burn", 1>> \in Interface["GDAI"] /\ <<"transfer", 2>> \in Interface["GDAI"]
      /\ <<"approve", 2>> \in Interface["GDAI"]
  BY FunctionsAre DEF Interface
<1>2. \A x \in {"setGSR", "setRate", "join", "mint", "burn", "transfer", "approve"} :
         <<"testnet", x>> \notin LeftBehind
  BY DEF LeftBehind
<1>. DEFINE t == TestnetCommands
<1>3. /\ GoodCommand(<<"testnet", "setGSR">>, t.setGSR)
      /\ GoodCommand(<<"testnet", "setRate">>, t.setRate)
      /\ GoodCommand(<<"testnet", "join">>, t.join)
      /\ GoodCommand(<<"testnet", "mint">>, t.mint)
      /\ GoodCommand(<<"testnet", "burn">>, t.burn)
      /\ GoodCommand(<<"testnet", "transfer">>, t.transfer)
      /\ GoodCommand(<<"testnet", "approve">>, t.approve)
  BY <1>1, <1>2, TxCommand DEF TestnetCommands
<1>4. n \in {"setGSR", "setRate", "join", "mint", "burn", "transfer", "approve"}
  BY DEF TestnetCommands
<1>. HIDE DEF t
<1>5. GoodCommand(<<"testnet", n>>, t[n])
  BY <1>3, <1>4
<1>. QED
  BY <1>5 DEF t

LEMMA GovernanceCommandsGood ==
    ASSUME NEW n \in DOMAIN GovernanceCommands
    PROVE  GoodCommand(<<"governance", n>>, GovernanceCommands[n])
<1>1. /\ <<"createProposal", 4>> \in Interface["GraphGovernance"]
      /\ <<"upgradeProposal", 4>> \notin Interface["GraphGovernance"]
  BY FunctionsAre DEF Interface
<1>2. /\ <<"governance", "createProposal">> \notin LeftBehind
      /\ <<"governance", "upgradeProposal">> \in LeftBehind
  BY DEF LeftBehind
<1>. DEFINE t == GovernanceCommands
<1>3. /\ GoodCommand(<<"governance", "createProposal">>, t.createProposal)
      /\ GoodCommand(<<"governance", "upgradeProposal">>, t.upgradeProposal)
  BY <1>1, <1>2, TxCommand DEF GovernanceCommands
<1>4. n \in {"createProposal", "upgradeProposal"}
  BY DEF GovernanceCommands
<1>. HIDE DEF t
<1>5. GoodCommand(<<"governance", n>>, t[n])
  BY <1>3, <1>4
<1>. QED
  BY <1>5 DEF t

LEMMA RegistryCommandsGood ==
    ASSUME NEW n \in DOMAIN RegistryCommands
    PROVE  GoodCommand(<<"registry", n>>, RegistryCommands[n])
<1>1. <<"register", 2>> \in Interface["ServiceRegistry"]
  BY DEF Interface
<1>2. <<"registry", "register">> \notin LeftBehind /\ <<"registry", "unregister">> \in LeftBehind
  BY DEF LeftBehind
<1>. DEFINE t == RegistryCommands
<1>3. GoodCommand(<<"registry", "register">>, t.register)
  BY <1>1, <1>2, TxCommand DEF RegistryCommands
<1>4. GoodCommand(<<"registry", "unregister">>, t.unregister)
  BY <1>2, OneStep, OddIs DEF RegistryCommands
<1>5. n \in {"register", "unregister"}
  BY DEF RegistryCommands
<1>. HIDE DEF t
<1>6. GoodCommand(<<"registry", n>>, t[n])
  BY <1>3, <1>4, <1>5
<1>. QED
  BY <1>6 DEF t

LEMMA NameCommandsGood ==
    ASSUME NEW n \in DOMAIN NameCommands
    PROVE  GoodCommand(<<"names", n>>, NameCommands[n])
<1>1. <<"register", 2>> \in Interface["ITestRegistrar"] /\ <<"owner", 1>> \in Interface["IENS"]
  BY DEF Interface
<1>2. /\ <<"names", "registerTestName">> \notin LeftBehind
      /\ <<"names", "checkOwner">> \notin LeftBehind
  BY DEF LeftBehind
<1>. DEFINE t == NameCommands
<1>3. /\ GoodCommand(<<"names", "registerTestName">>, t.registerTestName)
      /\ GoodCommand(<<"names", "checkOwner">>, t.checkOwner)
  BY <1>1, <1>2, TxCommand DEF NameCommands
<1>4. n \in {"registerTestName", "checkOwner"}
  BY DEF NameCommands
<1>. HIDE DEF t
<1>5. GoodCommand(<<"names", n>>, t[n])
  BY <1>3, <1>4
<1>. QED
  BY <1>5 DEF t

LEMMA SetAttributeGood ==
    ASSUME NEW n \in DOMAIN SetAttribute
    PROVE  GoodCommand(<<"did", n>>, SetAttribute[n])
<1>1. <<"setAttribute", 4>> \in Interface["IEthereumDIDRegistry"]
  BY DEF Interface
<1>2. <<"did", "setAttribute">> \notin LeftBehind
  BY DEF LeftBehind
<1>3. GoodCommand(<<"did", "setAttribute">>, SetAttribute["setAttribute"])
  BY <1>1, <1>2, PinIs, TxIs, TwoSteps DEF SetAttribute
<1>4. n = "setAttribute"
  BY DEF SetAttribute
<1>. QED
  BY <1>3, <1>4

\* Of the setters and getters the contracts left one behind.
LEMMA SetLeft ==
    ASSUME NEW fn
    PROVE  <<"set", fn>> \in LeftBehind <=> fn = "acceptOwnership"
BY DEF LeftBehind

\* The setters of the protocol fit, but for those that take no parameter.
LEMMA SettersFit ==
    ASSUME NEW s \in SettersList
    PROVE  /\ s[2] = "acceptOwnership" => <<s[2], s[3]>> \notin Interface[s[1]]
           /\ s[2] # "acceptOwnership" => <<s[2], s[3]>> \in Interface[s[1]]
<1>1. CASE \E fn \in {"setThawingPeriod", "setChannelDisputeEpochs", "setMaxAllocationEpochs",
         "setProtocolPercentage", "setDelegationRatio", "setDelegationParametersCooldown",
         "setDelegationUnbondingPeriod", "setCurationPercentage"} : s = <<"Staking", fn, 1>>
  BY <1>1, FunctionsAre DEF Interface, StakingInterface
<1>2. CASE \E fn \in {"setDefaultReserveRatio", "setMinimumCurationDeposit",
         "setCurationTaxPercentage"} : s = <<"Curation", fn, 1>>
  BY <1>2, FunctionsAre DEF Interface
<1>3. CASE \E fn \in {"setArbitrator", "setMinimumDeposit", "setFishermanRewardPercentage"} :
              s = <<"DisputeManager", fn, 1>>
  BY <1>3, FunctionsAre DEF Interface
<1>4. CASE s = <<"EpochManager", "setEpochLength", 1>>
  BY <1>4, FunctionsAre DEF Interface
<1>5. CASE \E fn \in {"setIssuanceRate", "setSubgraphAvailabilityOracle"} :
              s = <<"RewardsManager", fn, 1>>
  BY <1>5, FunctionsAre DEF Interface
<1>6. CASE s = <<"GNS", "setOwnerTaxPercentage", 1>>
  BY <1>6, FunctionsAre DEF Interface
<1>7. CASE \E fn \in {"transferOwnership", "acceptOwnership", "addMinter", "removeMinter"} :
              s = <<"GraphToken", fn, 1>>
  BY <1>7, FunctionsAre DEF Interface
<1>8. CASE \E fn \in {"transferOwnership", "acceptOwnership", "setPaused", "setPartialPaused",
                      "setPauseGuardian"} : s = <<"Controller", fn, 1>>
  BY <1>8, FunctionsAre DEF Interface
<1>9. CASE s \in {<<"Staking", "setSlasher", 2>>, <<"DisputeManager", "setSlashingPercentage", 2>>,
                  <<"GraphToken", "mint", 2>>, <<"Controller", "setContractProxy", 2>>}
  BY <1>9, FunctionsAre DEF Interface, StakingInterface
<1>. QED
  BY <1>1, <1>2, <1>3, <1>4, <1>5, <1>6, <1>7, <1>8, <1>9 DEF SettersList, CurationPercentage

LEMMA SetCommandGood ==
    ASSUME NEW s \in SettersList, NEW word
    PROVE  GoodCommand(<<"set", s[2]>>, SetCommand(s, word))
<1>. DEFINE t == [Tx(s[1], s[2], s[3]) EXCEPT !.word = word]
<1>1. Plain(t)
  BY DEF Step, Tx, Plain
<1>2. Fits(t) <=> <<s[2], s[3]>> \in Interface[s[1]]
  BY DEF Step, Tx, Fits, Exists
<1>3. SetCommand(s, word) = <<t>>
  BY DEF SetCommand
<1>. HIDE DEF t
<1>4. <<"set", s[2]>> \in LeftBehind <=> ~Fits(t)
  BY <1>2, SettersFit, SetLeft
<1>5. GoodCommand(<<"set", s[2]>>, <<t>>)
  BY <1>1, <1>4, OneStep
<1>. QED
  BY <1>3, <1>5

\* Getters without parameters, each of its contract.
Offers(g) == \E to, fn : g = <<to, fn, 0>> /\ <<fn, 0>> \in Interface[to]
Asked(s) ==
    /\ \E S : s \in Seq(S)
    /\ \A i \in DOMAIN s : Offers(s[i])

LEMMA GettersAsked ==
    ASSUME NEW to, NEW S, NEW fns \in Seq(S), \A fn \in S : <<fn, 0>> \in Interface[to]
    PROVE  Asked(Getters(to, fns))
<1>. DEFINE g == Getters(to, fns)
            R == {<<to, fn, 0>> : fn \in S}
<1>1. g = [i \in 1 .. Len(fns) |-> <<to, fns[i], 0>>] /\ DOMAIN fns = 1 .. Len(fns)
  BY DEF Getters
<1>2. \A i \in 1 .. Len(fns) : g[i] = <<to, fns[i], 0>> /\ g[i] \in R
  BY <1>1
<1>3. g \in Seq(R)
  BY <1>1, <1>2
<1>4. \A i \in DOMAIN g : g[i] = <<to, fns[i], 0>> /\ <<fns[i], 0>> \in Interface[to]
  BY <1>1, <1>2
<1>. HIDE DEF g
<1>5. \A i \in DOMAIN g : Offers(g[i])
  BY <1>4 DEF Offers
<1>6. Asked(g)
  BY <1>3, <1>5 DEF Asked
<1>. QED
  BY <1>6 DEF g

LEMMA JoinAsked ==
    ASSUME NEW a, NEW b, Asked(a), Asked(b)
    PROVE  Asked(a \o b)
<1>1. PICK A : a \in Seq(A)
  BY DEF Asked
<1>2. PICK B : b \in Seq(B)
  BY DEF Asked
<1>3. a \in Seq(A \union B) /\ b \in Seq(A \union B)
  BY <1>1, <1>2
<1>4. a \o b \in Seq(A \union B)
  BY <1>3
<1>5. ASSUME NEW i \in DOMAIN (a \o b)
      PROVE  \/ i \in DOMAIN a /\ (a \o b)[i] = a[i]
             \/ i - Len(a) \in DOMAIN b /\ (a \o b)[i] = b[i - Len(a)]
  BY <1>3
<1>. QED
  BY <1>4, <1>5 DEF Asked

LEMMA PlainGettersAsked == Asked(PlainGetters)
<1>. DEFINE f1 == <<"governor", "paused", "partialPaused", "pauseGuardian">>
            f2 == <<"governor", "totalSupply">>
            f3 == <<"epochLength", "currentEpoch">>
            f4 == <<"thawingPeriod", "channelDisputeEpochs", "maxAllocationEpochs",
                    "delegationRatio", "delegationParametersCooldown",
                    "delegationUnbondingPeriod", "protocolPercentage", "curationPercentage">>
            f5 == <<"defaultReserveRatio", "minimumCurationDeposit", "curationTaxPercentage",
                    "bondingCurve">>
            f6 == <<"arbitrator", "minimumDeposit", "fishermanRewardPercentage">>
            f7 == <<"issuanceRate", "subgraphAvailabilityOracle">>
            f8 == <<"bondingCurve", "ownerTaxPercentage">>
<1>1. Asked(Getters("Controller", f1))
  <2>. DEFINE F == {"governor", "paused", "partialPaused", "pauseGuardian"}
  <2>1. \A x \in F : <<x, 0>> \in Interface["Controller"]
    BY FunctionsAre DEF Interface
  <2>2. f1 \in Seq(F)
    OBVIOUS
  <2>. HIDE DEF f1, F
  <2>. QED
    BY <2>1, <2>2, GettersAsked
<1>2. Asked(Getters("GraphToken", f2))
  <2>. DEFINE F == {"governor", "totalSupply"}
  <2>1. \A x \in F : <<x, 0>> \in Interface["GraphToken"]
    BY FunctionsAre DEF Interface
  <2>2. f2 \in Seq(F)
    OBVIOUS
  <2>. HIDE DEF f2, F
  <2>. QED
    BY <2>1, <2>2, GettersAsked
<1>3. Asked(Getters("EpochManager", f3))
  <2>. DEFINE F == {"epochLength", "currentEpoch"}
  <2>1. \A x \in F : <<x, 0>> \in Interface["EpochManager"]
    BY FunctionsAre DEF Interface
  <2>2. f3 \in Seq(F)
    OBVIOUS
  <2>. HIDE DEF f3, F
  <2>. QED
    BY <2>1, <2>2, GettersAsked
<1>4. Asked(Getters("Staking", f4))
  <2>. DEFINE F == {"thawingPeriod", "channelDisputeEpochs", "maxAllocationEpochs", "delegationRatio",
                    "delegationParametersCooldown", "delegationUnbondingPeriod",
                    "protocolPercentage", "curationPercentage"}
  <2>1. \A x \in F : <<x, 0>> \in Interface["Staking"]
    BY FunctionsAre DEF Interface, StakingInterface
  <2>2. f4 \in Seq(F)
    OBVIOUS
  <2>. HIDE DEF f4, F
  <2>. QED
    BY <2>1, <2>2, GettersAsked
<1>5. Asked(Getters("Curation", f5))
  <2>. DEFINE F == {"defaultReserveRatio", "minimumCurationDeposit", "curationTaxPercentage",
                    "bondingCurve"}
  <2>1. \A x \in F : <<x, 0>> \in Interface["Curation"]
    BY FunctionsAre DEF Interface
  <2>2. f5 \in Seq(F)
    OBVIOUS
  <2>. HIDE DEF f5, F
  <2>. QED
    BY <2>1, <2>2, GettersAsked
<1>6. Asked(Getters("DisputeManager", f6))
  <2>. DEFINE F == {"arbitrator", "minimumDeposit", "fishermanRewardPercentage"}
  <2>1. \A x \in F : <<x, 0>> \in Interface["DisputeManager"]
    BY FunctionsAre DEF Interface
  <2>2. f6 \in Seq(F)
    OBVIOUS
  <2>. HIDE DEF f6, F
  <2>. QED
    BY <2>1, <2>2, GettersAsked
<1>7. Asked(Getters("RewardsManager", f7))
  <2>. DEFINE F == {"issuanceRate", "subgraphAvailabilityOracle"}
  <2>1. \A x \in F : <<x, 0>> \in Interface["RewardsManager"]
    BY FunctionsAre DEF Interface
  <2>2. f7 \in Seq(F)
    OBVIOUS
  <2>. HIDE DEF f7, F
  <2>. QED
    BY <2>1, <2>2, GettersAsked
<1>8. Asked(Getters("GNS", f8))
  <2>. DEFINE F == {"bondingCurve", "ownerTaxPercentage"}
  <2>1. \A x \in F : <<x, 0>> \in Interface["GNS"]
    BY FunctionsAre DEF Interface
  <2>2. f8 \in Seq(F)
    OBVIOUS
  <2>. HIDE DEF f8, F
  <2>. QED
    BY <2>1, <2>2, GettersAsked
<1>. DEFINE g1 == Getters("Controller", f1)
            g2 == Getters("GraphToken", f2)
            g3 == Getters("EpochManager", f3)
            g4 == Getters("Staking", f4)
            g5 == Getters("Curation", f5)
            g6 == Getters("DisputeManager", f6)
            g7 == Getters("RewardsManager", f7)
            g8 == Getters("GNS", f8)
<1>9. PlainGetters = g1 \o g2 \o g3 \o g4 \o g5 \o g6 \o g7 \o g8
  BY DEF PlainGetters
<1>. HIDE DEF f1, f2, f3, f4, f5, f6, f7, f8, g1, g2, g3, g4, g5, g6, g7, g8
<1>10. Asked(g1) /\ Asked(g2) /\ Asked(g3) /\ Asked(g4)
  BY <1>1, <1>2, <1>3, <1>4 DEF g1, g2, g3, g4
<1>11. Asked(g5) /\ Asked(g6) /\ Asked(g7) /\ Asked(g8)
  BY <1>5, <1>6, <1>7, <1>8 DEF g5, g6, g7, g8
<1>12. Asked(g1 \o g2 \o g3 \o g4)
  BY <1>10, JoinAsked
<1>13. Asked(g1 \o g2 \o g3 \o g4 \o g5 \o g6 \o g7 \o g8)
  BY <1>11, <1>12, JoinAsked
<1>. QED
  BY <1>9, <1>13

LEMMA GetLeft ==
    ASSUME NEW fn
    PROVE  <<"get", fn>> \notin LeftBehind
BY DEF LeftBehind

LEMMA GetCommandGood ==
    ASSUME NEW g \in GettersList
    PROVE  GoodCommand(<<"get", g[2]>>, GetCommand(g))
<1>1. \E to, fn, n : g = <<to, fn, n>> /\ <<fn, n>> \in Interface[to]
  <2>1. CASE g \in ToSet(PlainGetters)
    <3>1. PICK i \in DOMAIN PlainGetters : g = PlainGetters[i]
      BY <2>1 DEF ToSet
    <3>2. Offers(g)
      BY <3>1, PlainGettersAsked DEF Asked
    <3>. QED
      BY <3>2 DEF Offers
  <2>2. CASE g = <<"Staking", "slashers", 1>>
    <3>1. <<"slashers", 1>> \in Interface["Staking"]
      BY FunctionsAre DEF Interface, StakingInterface
    <3>. QED
      BY <2>2, <3>1
  <2>3. CASE g = <<"Controller", "getContractProxy", 1>>
    <3>1. <<"getContractProxy", 1>> \in Interface["Controller"]
      BY FunctionsAre DEF Interface
    <3>. QED
      BY <2>3, <3>1
  <2>. QED
    BY <2>1, <2>2, <2>3 DEF GettersList
<1>2. <<g[2], g[3]>> \in Interface[g[1]]
  BY <1>1
<1>. QED
  BY <1>2, GetLeft, TxCommand DEF GetCommand

LEMMA ListCommandGood == GoodCommand(<<"protocol", "list">>, ListCommand)
<1>. DEFINE g == PlainGetters
            view(i) == View(g[i][1], g[i][2], 0)
            S == {view(i) : i \in DOMAIN g}
<1>1. PICK R : g \in Seq(R)
  BY PlainGettersAsked DEF Asked
<1>2. \A i \in DOMAIN g : <<g[i][2], 0>> \in Interface[g[i][1]]
  <2>1. ASSUME NEW x, Offers(x)
        PROVE  <<x[2], 0>> \in Interface[x[1]]
    BY <2>1 DEF Offers
  <2>. QED
    BY <2>1, PlainGettersAsked DEF Asked
<1>3. ListCommand = [i \in DOMAIN g |-> view(i)]
  BY DEF ListCommand
<1>4. \A i \in DOMAIN g : Plain(view(i)) /\ Fits(view(i))
  BY <1>2, TxIs
<1>. HIDE DEF g, view
<1>5. DOMAIN g = 1 .. Len(g) /\ Len(g) \in Nat
  BY <1>1
<1>6. ListCommand \in Seq(S)
  BY <1>3, <1>5
<1>7. \A i \in DOMAIN ListCommand : Plain(ListCommand[i]) /\ Fits(ListCommand[i])
  BY <1>3, <1>4
<1>8. <<"protocol", "list">> \notin LeftBehind
  BY DEF LeftBehind
<1>. QED
  BY <1>6, <1>7, <1>8, PlainCommand

\* Every command is good.
LEMMA CommandsGood ==
    ASSUME NEW c \in Offered
    PROVE  GoodCommand(<<c.group, c.name>>, c.steps)
<1>1. PICK amount \in Nat : c \in AllCommands(amount)
  BY CommandsAssumption DEF Offered
<1>2. ASSUME NEW group, NEW table, c \in Command(group, table),
             \A n \in DOMAIN table : GoodCommand(<<group, n>>, table[n])
      PROVE  GoodCommand(<<c.group, c.name>>, c.steps)
  BY <1>2 DEF Command
<1>3. CASE c \in Command("staking", StakingCommands(amount))
  BY <1>2, <1>3, StakingCommandsGood
<1>4. CASE c \in Command("gns", GNSCommands(amount))
  BY <1>2, <1>4, GNSCommandsGood
<1>5. CASE c \in Command("disputes", DisputeCommands(amount))
  BY <1>2, <1>5, DisputeCommandsGood
<1>6. CASE c \in Command("curation", CurationCommands(amount))
  BY <1>2, <1>6, CurationCommandsGood
<1>7. CASE c \in Command("token", TokenCommands)
  BY <1>2, <1>7, TokenCommandsGood
<1>8. CASE c \in Command("testnet", TestnetCommands)
  BY <1>2, <1>8, TestnetCommandsGood
<1>9. CASE c \in Command("governance", GovernanceCommands)
  BY <1>2, <1>9, GovernanceCommandsGood
<1>10. CASE c \in Command("registry", RegistryCommands)
  BY <1>2, <1>10, RegistryCommandsGood
<1>11. CASE c \in Command("names", NameCommands)
  BY <1>2, <1>11, NameCommandsGood
<1>12. CASE c \in Command("did", SetAttribute)
  BY <1>2, <1>12, SetAttributeGood
<1>13. CASE \E s \in SettersList : c = [group |-> "set", name |-> s[2], steps |-> SetCommand(s, "1")]
  BY <1>13, SetCommandGood
<1>14. CASE \E w \in Words : c = [group |-> "set", name |-> "setPaused",
                                  steps |-> SetCommand(<<"Controller", "setPaused", 1>>, w)]
  <2>1. <<"Controller", "setPaused", 1>> \in SettersList
    BY DEF SettersList
  <2>2. PICK w \in Words : c = [group |-> "set", name |-> "setPaused",
                                steps |-> SetCommand(<<"Controller", "setPaused", 1>>, w)]
    BY <1>14
  <2>3. GoodCommand(<<"set", "setPaused">>, SetCommand(<<"Controller", "setPaused", 1>>, w))
    BY <2>1, SetCommandGood
  <2>. QED
    BY <2>2, <2>3
<1>15. CASE \E g \in GettersList : c = [group |-> "get", name |-> g[2], steps |-> GetCommand(g)]
  BY <1>15, GetCommandGood
<1>16. CASE c = [group |-> "protocol", name |-> "list", steps |-> ListCommand]
  BY <1>16, ListCommandGood
<1>. QED
  BY <1>1, <1>3, <1>4, <1>5, <1>6, <1>7, <1>8, <1>9, <1>10, <1>11, <1>12, <1>13, <1>14, <1>15, <1>16
  DEF AllCommands

\* The steps that are run are those of the table.
LEMMA OfferedIs ==
    ASSUME NEW c \in Offered
    PROVE  /\ <<c.group, c.name>> \in CommandIds
           /\ c.steps \in Seq(CommandSteps)
<1>1. PICK S : c.steps \in Seq(S)
  BY CommandsGood DEF GoodCommand
<1>2. \A i \in DOMAIN c.steps : c.steps[i] \in CommandSteps
  BY DEF CommandSteps, ToSet
<1>3. c.steps \in Seq(CommandSteps)
  BY <1>1, <1>2
<1>. QED
  BY <1>3 DEF CommandIds

LEMMA StepNumbers ==
    ASSUME NEW s \in CommandSteps
    PROVE  s.grants \in Nat /\ s.pulls \in Nat
<1>1. PICK c \in Offered : s \in ToSet(c.steps)
  BY DEF CommandSteps
<1>2. PICK i \in DOMAIN c.steps : s = c.steps[i]
  BY <1>1 DEF ToSet
<1>. QED
  BY <1>2, CommandsGood DEF GoodCommand

LEMMA SessionIs ==
    ASSUME NEW c \in SessionStates
    PROVE  /\ c.steps \in Seq(CommandSteps) /\ Len(c.steps) \in Nat
           /\ DOMAIN c.steps = 1 .. Len(c.steps)
           /\ c.at \in Nat \ {0}
<1>1. c.steps \in Seq(CommandSteps) /\ c.at \in Nat \ {0}
  BY DEF SessionStates
<1>. QED
  BY <1>1

LEMMA Below ==
    ASSUME NEW m \in Nat
    PROVE  /\ \A j \in 1 .. m : j \in Nat
           /\ \A j \in Nat : j <= m => 1 .. j - 1 \subseteq 1 .. m - 1
OBVIOUS

\* Where a session is, and what it went through.
LEMMA ApproveIsOne ==
    ASSUME NEW c \in SessionStates, SoundSession(c), NEW i \in DOMAIN c.steps, i <= c.at,
           c.steps[i].spender # ""
    PROVE  /\ ApprovesAt(c.steps, i)
           /\ \A j \in DOMAIN c.steps : j <= c.at /\ c.steps[j].spender # "" => j = i
<1>1. /\ c.at \in Nat
      /\ \A j \in DOMAIN c.steps : j \in Nat
  <2>1. c.at \in Nat /\ Len(c.steps) \in Nat /\ DOMAIN c.steps = 1 .. Len(c.steps)
    BY SessionIs
  <2>2. \A j \in 1 .. Len(c.steps) : j \in Nat
    BY <2>1, Below
  <2>. QED
    BY <2>1, <2>2
<1>2. \A j \in DOMAIN c.steps : j <= c.at => Reached(c.steps, j)
  <2>1. \A k \in 1 .. c.at - 1 : Fits(c.steps[k])
    BY DEF SoundSession, Reached
  <2>2. \A j \in DOMAIN c.steps : j <= c.at => 1 .. j - 1 \subseteq 1 .. c.at - 1
    BY <1>1, Below
  <2>. QED
    BY <2>1, <2>2 DEF Reached
<1>3. ApprovesAt(c.steps, i)
  BY <1>2 DEF SoundSession, GoodCommand
<1>. QED
  BY <1>2, <1>3 DEF ApprovesAt

\* A session owes one allowance at most.
LEMMA OwesOne ==
    ASSUME CommandTypes, SessionsSound, NEW p \in Sessions, NEW s \in Spenders, Owes(p, s)
    PROVE  \A r \in Spenders : Owes(p, r) => r = s
<1>1. session[p] \in SessionStates /\ SoundSession(session[p])
  BY DEF CommandTypes, SessionsSound
<1>2. session[p].at \in Nat /\ \A i \in DOMAIN session[p].steps : i \in Nat
  BY <1>1, SessionIs
<1>3. \A r \in Spenders : Owes(p, r) =>
         \E i \in DOMAIN session[p].steps :
            session[p].steps[i].spender = r /\ i <= session[p].at
  BY <1>2 DEF Owes
<1>4. \A r \in Spenders : r # ""
  BY DEF Spenders
<1>5. PICK i \in DOMAIN session[p].steps :
         session[p].steps[i].spender = s /\ i <= session[p].at
  BY <1>3
<1>. QED
  BY <1>1, <1>3, <1>4, <1>5, ApproveIsOne

LEMMA UnowedIsFinite == IsFiniteSet(Unowed) /\ Cardinality(Unowed) \in Nat
<1>1. IsFiniteSet({"Staking", "GNS", "Curation", "DisputeManager"})
  <2>1. IsFiniteSet({}) /\ IsFiniteSet({} \union {"Staking"})
    BY FS_EmptySet, FS_AddElement
  <2>2. IsFiniteSet({} \union {"Staking"} \union {"GNS"})
    BY <2>1, FS_AddElement
  <2>3. IsFiniteSet({} \union {"Staking"} \union {"GNS"} \union {"Curation"})
    BY <2>2, FS_AddElement
  <2>4. IsFiniteSet({} \union {"Staking"} \union {"GNS"} \union {"Curation"}
                    \union {"DisputeManager"})
    BY <2>3, FS_AddElement
  <2>5. {} \union {"Staking"} \union {"GNS"} \union {"Curation"} \union {"DisputeManager"}
           = {"Staking", "GNS", "Curation", "DisputeManager"}
    OBVIOUS
  <2>. QED
    BY <2>4, <2>5
<1>2. Unowed \subseteq {"Staking", "GNS", "Curation", "DisputeManager"}
  BY DEF Unowed, Spenders
<1>. QED
  BY <1>1, <1>2, FS_Subset, FS_CardinalityType

LEMMA OrphansAreFinite ==
    ASSUME CommandTypes
    PROVE  IsFiniteSet(Orphans) /\ Cardinality(Orphans) \in Nat
<1>1. DOMAIN mempool = 1 .. Len(mempool) /\ Len(mempool) \in Nat
  BY DEF CommandTypes
<1>3. Orphans \subseteq 1 .. Len(mempool)
  BY <1>1 DEF Orphans
<1>2. IsFiniteSet(1 .. Len(mempool))
  BY <1>1, FS_Interval
<1>. QED
  BY <1>2, <1>3, FS_Subset, FS_CardinalityType

\* The count holds while nothing is added to it, and a command that is cut short
\* allows for one more.
LEMMA CountStays ==
    ASSUME CommandTypes, CommandTypes', LeftoversCounted, used'.cut >= used.cut,
           Unowed' \subseteq Unowed, Orphans' \subseteq Orphans
    PROVE  LeftoversCounted'
<1>1. Cardinality(Unowed') <= Cardinality(Unowed) /\ Cardinality(Unowed) \in Nat
      /\ Cardinality(Unowed') \in Nat
  BY UnowedIsFinite, FS_Subset, FS_CardinalityType
<1>2. Cardinality(Orphans') <= Cardinality(Orphans) /\ Cardinality(Orphans) \in Nat
      /\ Cardinality(Orphans') \in Nat
  BY OrphansAreFinite, FS_Subset, FS_CardinalityType
<1>3. used.cut \in Nat /\ used'.cut \in Nat
  BY DEF CommandTypes, UseCounts
<1>. QED
  BY <1>1, <1>2, <1>3 DEF LeftoversCounted

LEMMA CountGrows ==
    ASSUME CommandTypes, CommandTypes', LeftoversCounted, used'.cut = used.cut + 1, NEW x,
           \/ Unowed' \subseteq Unowed \union {x} /\ Orphans' \subseteq Orphans
           \/ Unowed' \subseteq Unowed /\ Orphans' \subseteq Orphans \union {x}
    PROVE  LeftoversCounted'
<1>1. /\ IsFiniteSet(Unowed) /\ Cardinality(Unowed) \in Nat
      /\ IsFiniteSet(Orphans) /\ Cardinality(Orphans) \in Nat
  BY UnowedIsFinite, OrphansAreFinite
<1>2. /\ IsFiniteSet(Unowed \union {x})
      /\ Cardinality(Unowed \union {x}) <= Cardinality(Unowed) + 1
      /\ Cardinality(Unowed \union {x}) \in Nat
  BY <1>1, OneMore
<1>3. /\ IsFiniteSet(Orphans \union {x})
      /\ Cardinality(Orphans \union {x}) <= Cardinality(Orphans) + 1
      /\ Cardinality(Orphans \union {x}) \in Nat
  BY <1>1, OneMore
<1>4. used.cut \in Nat /\ used'.cut \in Nat
  BY DEF CommandTypes, UseCounts
<1>5. CASE Unowed' \subseteq Unowed \union {x} /\ Orphans' \subseteq Orphans
  <2>1. Cardinality(Unowed') <= Cardinality(Unowed \union {x}) /\ Cardinality(Unowed') \in Nat
    BY <1>2, <1>5, FS_Subset, FS_CardinalityType
  <2>2. Cardinality(Orphans') <= Cardinality(Orphans) /\ Cardinality(Orphans') \in Nat
    BY <1>1, <1>5, FS_Subset, FS_CardinalityType
  <2>. QED
    BY <1>1, <1>2, <1>4, <2>1, <2>2 DEF LeftoversCounted
<1>6. CASE Unowed' \subseteq Unowed /\ Orphans' \subseteq Orphans \union {x}
  <2>1. Cardinality(Unowed') <= Cardinality(Unowed) /\ Cardinality(Unowed') \in Nat
    BY <1>1, <1>6, FS_Subset, FS_CardinalityType
  <2>2. Cardinality(Orphans') <= Cardinality(Orphans \union {x}) /\ Cardinality(Orphans') \in Nat
    BY <1>3, <1>6, FS_Subset, FS_CardinalityType
  <2>. QED
    BY <1>1, <1>3, <1>4, <2>1, <2>2 DEF LeftoversCounted
<1>. QED
  BY <1>5, <1>6

\* What a session owes, it owes while nothing happens to it and the allowance
\* does not grow.
LEMMA OwesStays ==
    ASSUME CommandTypes, NEW p \in Sessions, NEW s \in Spenders, Owes(p, s),
           session'[p].pc = session[p].pc, session'[p].at = session[p].at,
           session'[p].steps = session[p].steps, session'[p].reverted = session[p].reverted,
           Received(p)' <=> Received(p),
           granted'[s] \in Nat, granted'[s] <= granted[s]
    PROVE  Owes(p, s)'
<1>1. PICK i \in DOMAIN session[p].steps :
          /\ session[p].steps[i].spender = s
          /\ \/ session[p].at = i /\ session[p].pc = "sent" /\ Received(p)
                /\ granted[s] <= session[p].steps[i].grants
             \/ session[p].at = i + 1 /\ ~(session[p].pc = "sent" /\ Received(p))
                /\ granted[s] <= session[p].steps[i].grants
             \/ session[p].at > i /\ session[p].reverted
  BY DEF Owes
<1>2. granted[s] \in Nat /\ session[p].steps[i].grants \in Nat
  <2>1. session[p].steps \in Seq(CommandSteps)
    BY DEF CommandTypes, SessionStates
  <2>2. session[p].steps[i] \in CommandSteps
    BY <2>1
  <2>. QED
    BY <2>2, StepNumbers DEF CommandTypes
<1>3. granted[s] <= session[p].steps[i].grants => granted'[s] <= session'[p].steps[i].grants
  BY <1>2
<1>. QED
  BY <1>1, <1>3 DEF Owes

LEMMA NothingOfMine ==
    ASSUME MempoolSound, NEW p \in Sessions, session[p].pc # "sent"
    PROVE  Received(p)
BY DEF MempoolSound, Received

\* A step of p that sends nothing and mines nothing: p may owe less only if its
\* command is cut short.
LEMMA QuietSession ==
    ASSUME CommandsInvariant, NEW p \in Sessions, Received(p),
           granted' = granted, mempool' = mempool, paused' = paused,
           session' \in [Sessions -> SessionStates],
           \A q \in Sessions \ {p} : session'[q] = session[q],
           session'[p].pc # "sent", SoundSession(session'[p]), used' \in UseCounts,
           \/ used'.cut = used.cut + 1
           \/ used'.cut = used.cut /\ \A s \in Spenders : Owes(p, s) => Owes(p, s)'
    PROVE  CommandsInvariant'
<1>0. CommandTypes /\ SessionsSound /\ MempoolSound /\ LeftoversCounted
  BY DEF CommandsInvariant
<1>1. CommandTypes'
  BY <1>0 DEF CommandTypes, Transactions, CommandSteps, CommandIds, Offered
<1>2. SessionsSound'
  BY <1>0 DEF SessionsSound
<1>3. \A i \in DOMAIN mempool : mempool[i].by # p
  BY DEF Received
<1>4. MempoolSound'
  <2>1. \A i \in DOMAIN mempool : mempool[i].by \in Sessions =>
          /\ session'[mempool[i].by] = session[mempool[i].by]
          /\ session[mempool[i].by].pc = "sent"
          /\ mempool[i].step = Current(mempool[i].by)
          /\ session[mempool[i].by].overtaken \/ Estimated(mempool[i].step)
    BY <1>0, <1>3 DEF MempoolSound
  <2>2. \A s : Estimated(s) <=> Estimated(s)'
    BY DEF Estimated, Succeeds
  <2>3. \A i \in DOMAIN mempool : mempool[i].by \in Sessions =>
          /\ session'[mempool[i].by].pc = "sent"
          /\ mempool[i].step = session'[mempool[i].by].steps[session'[mempool[i].by].at]
          /\ session'[mempool[i].by].overtaken \/ Estimated(mempool[i].step)'
    BY <2>1, <2>2 DEF Current
  <2>4. \A i, j \in DOMAIN mempool :
          mempool[i].by = mempool[j].by /\ mempool[i].by \in Sessions => i = j
    BY <1>0 DEF MempoolSound
  <2>. QED
    BY <2>3, <2>4 DEF MempoolSound, Current, Estimated, Succeeds
<1>5. Orphans' = Orphans
  BY DEF Orphans
<1>6. \A q \in Sessions \ {p} : \A s \in Spenders : Owes(q, s) => Owes(q, s)'
  <2>1. \A q \in Sessions : Received(q)' <=> Received(q)
    BY DEF Received
  <2>2. \A s \in Spenders : granted'[s] \in Nat /\ granted'[s] <= granted[s]
    BY <1>0 DEF CommandTypes
  <2>. QED
    BY <1>0, <2>1, <2>2, OwesStays
<1>7. CASE used'.cut = used.cut /\ \A s \in Spenders : Owes(p, s) => Owes(p, s)'
  <2>1. Unowed' \subseteq Unowed
    BY <1>6, <1>7 DEF Unowed
  <2>2. used'.cut >= used.cut
    BY <1>0, <1>7 DEF CommandTypes, UseCounts
  <2>. QED
    BY <1>0, <1>1, <1>2, <1>4, <1>5, <2>1, <2>2, CountStays DEF CommandsInvariant
<1>8. CASE used'.cut = used.cut + 1
  <2>1. PICK x : \A s \in Spenders : Owes(p, s) => s = x
    BY <1>0, OwesOne
  <2>2. Unowed' \subseteq Unowed \union {x}
    BY <1>6, <2>1 DEF Unowed
  <2>. QED
    BY <1>0, <1>1, <1>2, <1>4, <1>5, <1>8, <2>2, CountGrows DEF CommandsInvariant
<1>. QED
  BY <1>7, <1>8

\* What a session does alone changes its own state only.
LEMMA SessionChanges ==
    ASSUME CommandTypes, NEW p \in Sessions, NEW c \in SessionStates,
           session' = [session EXCEPT ![p] = c]
    PROVE  /\ session' \in [Sessions -> SessionStates]
           /\ \A q \in Sessions \ {p} : session'[q] = session[q]
           /\ session'[p] = c
BY DEF CommandTypes

\* The step a session is at is a step of the table.
LEMMA CurrentIs ==
    ASSUME NEW c \in SessionStates, c.at <= Len(c.steps)
    PROVE  c.at \in DOMAIN c.steps /\ c.steps[c.at] \in CommandSteps
<1>1. c.steps \in Seq(CommandSteps) /\ Len(c.steps) \in Nat
      /\ DOMAIN c.steps = 1 .. Len(c.steps) /\ c.at \in Nat \ {0}
  BY SessionIs
<1>2. c.at \in DOMAIN c.steps
  BY <1>1
<1>. QED
  BY <1>1, <1>2

\* A step that fits is behind the session when it goes on to the next one.
LEMMA ReachesNext ==
    ASSUME NEW c \in SessionStates, Reached(c.steps, c.at), Fits(c.steps[c.at])
    PROVE  Reached(c.steps, c.at + 1)
<1>1. c.at \in Nat \ {0}
  BY SessionIs
<1>2. \A j \in 1 .. (c.at + 1) - 1 : j \in 1 .. c.at - 1 \/ j = c.at
  BY <1>1
<1>. QED
  BY <1>2 DEF Reached

\* The session that c becomes as it goes on to the next step.
LEMMA SessionGoesOn ==
    ASSUME NEW c \in SessionStates, SoundSession(c), c.at <= Len(c.steps),
           Fits(c.steps[c.at]), c.pc # "off", NEW u \in BOOLEAN
    PROVE  LET d == [c EXCEPT !.pc = "on", !.at = c.at + 1, !.unpinned = u] IN
           d \in SessionStates /\ SoundSession(d)
<1>1. c.steps \in Seq(CommandSteps) /\ Len(c.steps) \in Nat /\ c.at \in Nat \ {0}
  BY SessionIs
<1> DEFINE d == [c EXCEPT !.pc = "on", !.at = c.at + 1, !.unpinned = u]
<1>0. c.at + 1 \in Nat \ {0}
  BY <1>1
<1>2. d \in SessionStates
  BY <1>0 DEF SessionStates
<1>3. /\ d.pc = "on" /\ d.id = c.id /\ d.steps = c.steps /\ d.at = c.at + 1
      /\ d.reverted = c.reverted /\ d.overtaken = c.overtaken /\ d.how = c.how
  BY DEF SessionStates
<1>4. Reached(d.steps, d.at)
  BY <1>3, ReachesNext DEF SoundSession
<1>5. d.at <= Len(d.steps) + 1
  BY <1>1, <1>3
<1>6. d.how = ""
  BY <1>3 DEF SoundSession, SessionStates
<1>7. SoundSession(d)
  BY <1>3, <1>4, <1>5, <1>6 DEF SoundSession
<1>. QED
  BY <1>2, <1>7

\* The session that c becomes as it ends.
LEMMA Ends ==
    ASSUME NEW c \in SessionStates, SoundSession(c), c.pc # "off",
           NEW how \in {"mismatch", "refused", "done", "killed"},
           how = "mismatch" => \E i \in DOMAIN c.steps : ~Fits(c.steps[i]),
           how = "done" => c.at = Len(c.steps) + 1
    PROVE  LET d == [c EXCEPT !.pc = "off", !.how = how] IN
           d \in SessionStates /\ SoundSession(d)
<1> DEFINE d == [c EXCEPT !.pc = "off", !.how = how]
<1>2. d \in SessionStates
  BY DEF SessionStates
<1>3. /\ d.pc = "off" /\ d.id = c.id /\ d.steps = c.steps /\ d.at = c.at
      /\ d.reverted = c.reverted /\ d.overtaken = c.overtaken /\ d.how = how
  BY DEF SessionStates
<1>7. SoundSession(d)
  BY <1>3 DEF SoundSession
<1>. QED
  BY <1>2, <1>7

LEMMA CutIs ==
    ASSUME CommandTypes, NEW kills \in Nat, CutShort(kills)
    PROVE  used' \in UseCounts /\ used'.cut = used.cut + 1
<1>1. used \in [runs : Nat, kills : Nat, cut : Nat]
  BY DEF CommandTypes, UseCounts
<1>2. used.kills + kills \in Nat /\ used.cut + 1 \in Nat
  BY <1>1
<1>3. used' = [used EXCEPT !.kills = used.kills + kills, !.cut = used.cut + 1]
  BY DEF CutShort
<1>. QED
  BY <1>1, <1>2, <1>3 DEF UseCounts

LEMMA SessionParts ==
    ASSUME CommandsInvariant, NEW p \in Sessions
    PROVE  /\ CommandTypes /\ SessionsSound /\ MempoolSound /\ LeftoversCounted
           /\ session[p] \in SessionStates /\ SoundSession(session[p])
BY DEF CommandsInvariant, CommandTypes, SessionsSound

\* A session that has run no command.
LEMMA NoCommandIs ==
    /\ NoCommand \in SessionStates
    /\ NoCommand.pc = "off" /\ NoCommand.at = 1 /\ NoCommand.how = ""
    /\ NoCommand.reverted = FALSE /\ NoCommand.id = <<"", "">> /\ NoCommand.steps = <<>>
<1>1. NoCommand.steps \in Seq(CommandSteps) /\ NoCommand.id \in CommandIds
  BY DEF NoCommand, CommandIds
<1>2. /\ NoCommand.pc = "off" /\ NoCommand.at = 1 /\ NoCommand.at \in Nat \ {0}
      /\ NoCommand.unpinned = FALSE /\ NoCommand.reverted = FALSE
      /\ NoCommand.overtaken = FALSE /\ NoCommand.how = ""
  BY DEF NoCommand
<1>3. NoCommand.id = <<"", "">>
  BY DEF NoCommand
<1>4. NoCommand.steps = <<>>
  BY DEF NoCommand
<1>5. NoCommand = [pc |-> NoCommand.pc, id |-> NoCommand.id, steps |-> NoCommand.steps,
                   at |-> NoCommand.at, unpinned |-> NoCommand.unpinned,
                   reverted |-> NoCommand.reverted, overtaken |-> NoCommand.overtaken,
                   how |-> NoCommand.how]
  BY DEF NoCommand
<1> HIDE DEF NoCommand
<1>6. NoCommand \in SessionStates
  BY <1>1, <1>2, <1>5 DEF SessionStates
<1>. QED
  BY <1>2, <1>3, <1>4, <1>6

LEMMA StartCommandSound ==
    ASSUME CommandsInvariant, NEW p \in Sessions, NEW c \in Offered, StartCommand(p, c)
    PROVE  CommandsInvariant'
<1>1. CommandTypes /\ MempoolSound
  BY SessionParts
<1> DEFINE d == [NoCommand EXCEPT !.pc = "on", !.id = <<c.group, c.name>>, !.steps = c.steps]
<1>2. /\ d.pc = "on" /\ d.id = <<c.group, c.name>> /\ d.steps = c.steps /\ d.at = 1
      /\ d.unpinned = FALSE /\ d.reverted = FALSE /\ d.overtaken = FALSE /\ d.how = ""
  BY DEF NoCommand
<1>3. <<c.group, c.name>> \in CommandIds /\ c.steps \in Seq(CommandSteps)
  BY OfferedIs
<1>4. d \in SessionStates
  <2> HIDE DEF NoCommand
  <2>. QED
    BY <1>3, NoCommandIs DEF SessionStates
<1>5. SoundSession(d)
  <2>1. GoodCommand(d.id, d.steps)
    BY <1>2, CommandsGood
  <2>2. Reached(d.steps, d.at)
    <3>1. 1 .. 1 - 1 = {}
      OBVIOUS
    <3>. QED
      BY <1>2, <3>1 DEF Reached
  <2>3. d.at <= Len(d.steps) + 1
    <3>1. 1 <= Len(c.steps) + 1
      <4>1. Len(c.steps) \in Nat
        BY <1>3
      <4>. QED
        BY <4>1
    <3> HIDE DEF d
    <3>. QED
      BY <1>2, <3>1
  <2>. QED
    BY <1>2, <2>1, <2>2, <2>3 DEF SoundSession
<1>6. session' = [session EXCEPT ![p] = d] /\ session[p].pc = "off"
  BY DEF StartCommand
<1>7. used' \in UseCounts /\ used'.cut = used.cut
  BY <1>1 DEF StartCommand, CommandTypes, UseCounts
<1>8. Received(p)
  BY <1>1, <1>6, NothingOfMine
<1>9. /\ session' \in [Sessions -> SessionStates]
      /\ \A q \in Sessions \ {p} : session'[q] = session[q]
      /\ session'[p] = d
  <2> HIDE DEF d
  <2>. QED
    BY <1>1, <1>4, <1>6, SessionChanges
<1>10. \A s \in Spenders : ~Owes(p, s)
  BY <1>6 DEF Owes
<1>11. granted' = granted /\ mempool' = mempool /\ paused' = paused
  BY DEF StartCommand
<1>12. session'[p].pc # "sent" /\ SoundSession(session'[p])
  BY <1>2, <1>5, <1>9
<1>. QED
  BY <1>7, <1>8, <1>9, <1>10, <1>11, <1>12, QuietSession

\* A session that goes on after a transaction is mined, or from a step that
\* sends none, owes what it owed.
LEMMA OwesOn ==
    ASSUME CommandTypes, SessionsSound, NEW p \in Sessions, NEW s \in Spenders, Owes(p, s),
           session'[p].pc = "on", session'[p].at = session[p].at + 1,
           session'[p].steps = session[p].steps, session'[p].reverted = session[p].reverted,
           granted' = granted,
           \/ session[p].pc = "sent" /\ Received(p)
           \/ session[p].steps[session[p].at].kind # "tx"
    PROVE  Owes(p, s)'
<1>1. session[p] \in SessionStates /\ SoundSession(session[p])
  BY DEF CommandTypes, SessionsSound
<1>2. session[p].at \in Nat /\ \A i \in DOMAIN session[p].steps : i \in Nat
  BY <1>1, SessionIs
<1>3. PICK i \in DOMAIN session[p].steps :
          /\ session[p].steps[i].spender = s
          /\ \/ session[p].at = i /\ session[p].pc = "sent" /\ Received(p)
                /\ granted[s] <= session[p].steps[i].grants
             \/ session[p].at = i + 1 /\ ~(session[p].pc = "sent" /\ Received(p))
                /\ granted[s] <= session[p].steps[i].grants
             \/ session[p].at > i /\ session[p].reverted
  BY DEF Owes
<1>4. CASE session[p].at = i /\ session[p].pc = "sent" /\ Received(p)
           /\ granted[s] <= session[p].steps[i].grants
  <2>1. /\ session'[p].steps[i].spender = s /\ session'[p].at = i + 1
        /\ granted'[s] <= session'[p].steps[i].grants /\ i \in DOMAIN session'[p].steps
    BY <1>3, <1>4
  <2>. QED
    BY <2>1 DEF Owes
<1>5. CASE session[p].at = i + 1 /\ ~(session[p].pc = "sent" /\ Received(p))
  <2>1. i <= session[p].at
    BY <1>2, <1>5
  <2>2. s # ""
    BY DEF Spenders
  <2>3. ApprovesAt(session[p].steps, i)
    BY <1>1, <1>3, <2>1, <2>2, ApproveIsOne
  <2>4. session[p].steps[session[p].at].kind = "tx"
    BY <1>5, <2>3 DEF ApprovesAt
  <2>. QED
    BY <1>5, <2>4
<1>6. CASE session[p].at > i /\ session[p].reverted
  <2>1. /\ session'[p].steps[i].spender = s /\ session'[p].reverted
        /\ i \in DOMAIN session'[p].steps
    BY <1>3, <1>6
  <2>2. session'[p].at > i
    BY <1>2, <1>6
  <2>. QED
    BY <2>1, <2>2 DEF Owes
<1>. QED
  BY <1>3, <1>4, <1>5, <1>6

\* What all steps to the next one have in common.
LEMMA StepOn ==
    ASSUME CommandsInvariant, NEW p \in Sessions, NEW u \in BOOLEAN,
           session[p].pc # "off", session[p].at <= Len(session[p].steps),
           Fits(session[p].steps[session[p].at]), Received(p),
           \/ session[p].pc = "sent"
           \/ session[p].steps[session[p].at].kind # "tx",
           session' = [session EXCEPT ![p] = [session[p] EXCEPT !.pc = "on",
                                                !.at = session[p].at + 1, !.unpinned = u]],
           UNCHANGED <<paused, granted, mempool, used>>
    PROVE  CommandsInvariant'
<1>1. /\ CommandTypes /\ SessionsSound
      /\ session[p] \in SessionStates /\ SoundSession(session[p])
  BY SessionParts
<1> DEFINE d == [session[p] EXCEPT !.pc = "on", !.at = session[p].at + 1, !.unpinned = u]
<1>2. d \in SessionStates /\ SoundSession(d)
  BY <1>1, SessionGoesOn
<1>3. /\ d.pc = "on" /\ d.at = session[p].at + 1 /\ d.steps = session[p].steps
      /\ d.reverted = session[p].reverted
  BY <1>1 DEF SessionStates
<1>4. session' = [session EXCEPT ![p] = d]
  OBVIOUS
<1> HIDE DEF d
<1>5. /\ session' \in [Sessions -> SessionStates]
      /\ \A q \in Sessions \ {p} : session'[q] = session[q]
      /\ session'[p] = d
  BY <1>1, <1>2, <1>4, SessionChanges
<1>6. granted' = granted /\ mempool' = mempool /\ paused' = paused /\ used' = used
  OBVIOUS
<1>7. \A s \in Spenders : Owes(p, s) => Owes(p, s)'
  BY <1>1, <1>3, <1>5, <1>6, OwesOn
<1>8. used' \in UseCounts /\ used'.cut = used.cut
  BY <1>1, <1>6 DEF CommandTypes
<1>9. session'[p].pc # "sent" /\ SoundSession(session'[p])
  BY <1>2, <1>3, <1>5
<1>. QED
  BY <1>5, <1>6, <1>7, <1>8, <1>9, QuietSession

\* What all ends of a command have in common.
LEMMA StepEnds ==
    ASSUME CommandsInvariant, NEW p \in Sessions, session[p].pc = "on",
           NEW how \in {"mismatch", "refused", "done", "killed"}, Ended(p, how),
           how = "mismatch" => \E i \in DOMAIN session[p].steps : ~Fits(session[p].steps[i]),
           how = "done" => session[p].at = Len(session[p].steps) + 1,
           UNCHANGED <<paused, granted, mempool>>, used' \in UseCounts,
           \/ used'.cut = used.cut + 1
           \/ used'.cut = used.cut /\ \A s \in Spenders : ~Owes(p, s)
    PROVE  CommandsInvariant'
<1>1. /\ CommandTypes /\ MempoolSound
      /\ session[p] \in SessionStates /\ SoundSession(session[p])
  BY SessionParts
<1> DEFINE d == [session[p] EXCEPT !.pc = "off", !.how = how]
<1>2. d \in SessionStates /\ SoundSession(d)
  BY <1>1, Ends
<1>3. d.pc = "off"
  BY <1>1 DEF SessionStates
<1>4. session' = [session EXCEPT ![p] = d]
  BY <1>1 DEF Ended, CommandTypes
<1> HIDE DEF d
<1>5. /\ session' \in [Sessions -> SessionStates]
      /\ \A q \in Sessions \ {p} : session'[q] = session[q]
      /\ session'[p] = d
  BY <1>1, <1>2, <1>4, SessionChanges
<1>6. granted' = granted /\ mempool' = mempool /\ paused' = paused
  OBVIOUS
<1>7. Received(p)
  BY <1>1, NothingOfMine
<1>8. session'[p].pc # "sent" /\ SoundSession(session'[p])
  BY <1>2, <1>3, <1>5
<1>. QED
  BY <1>5, <1>6, <1>7, <1>8, QuietSession

LEMMA PinFileSound ==
    ASSUME CommandsInvariant, NEW p \in Sessions, PinFile(p)
    PROVE  CommandsInvariant'
<1>1. /\ CommandTypes /\ MempoolSound
      /\ session[p] \in SessionStates /\ SoundSession(session[p])
  BY SessionParts
<1>2. PICK failed \in BOOLEAN :
        session' = [session EXCEPT ![p].at = @ + 1, ![p].unpinned = @ \/ failed]
  BY DEF PinFile
<1>3. /\ session[p].pc = "on" /\ session[p].at <= Len(session[p].steps)
      /\ session[p].steps[session[p].at].kind = "pin"
  BY DEF PinFile, At, Current
<1>4. (session[p].unpinned \/ failed) \in BOOLEAN
  OBVIOUS
<1>5. session' = [session EXCEPT ![p] = [session[p] EXCEPT !.pc = "on",
                     !.at = session[p].at + 1, !.unpinned = session[p].unpinned \/ failed]]
  BY <1>1, <1>2, <1>3 DEF CommandTypes, SessionStates
<1>6. Received(p)
  BY <1>1, <1>3, NothingOfMine
<1>7. Fits(session[p].steps[session[p].at])
  BY <1>3 DEF Fits
<1>. QED
  BY <1>3, <1>4, <1>5, <1>6, <1>7, StepOn DEF PinFile

LEMMA NextStepIs ==
    ASSUME CommandTypes, NEW p \in Sessions, NextStep(p)
    PROVE  /\ session[p].unpinned \in BOOLEAN
           /\ session' = [session EXCEPT ![p] = [session[p] EXCEPT !.pc = "on",
                            !.at = session[p].at + 1, !.unpinned = session[p].unpinned]]
BY DEF CommandTypes, SessionStates, NextStep

LEMMA CallViewSound ==
    ASSUME CommandsInvariant, NEW p \in Sessions, CallView(p)
    PROVE  CommandsInvariant'
<1>1. CommandTypes /\ MempoolSound
  BY SessionParts
<1>3. /\ session[p].pc = "on" /\ session[p].at <= Len(session[p].steps)
      /\ session[p].steps[session[p].at].kind = "view"
      /\ Fits(session[p].steps[session[p].at])
  BY DEF CallView, At, Current, Fits
<1>5. /\ session[p].unpinned \in BOOLEAN
      /\ session' = [session EXCEPT ![p] = [session[p] EXCEPT !.pc = "on",
                       !.at = session[p].at + 1, !.unpinned = session[p].unpinned]]
  BY <1>1, NextStepIs DEF CallView
<1>6. Received(p)
  BY <1>1, <1>3, NothingOfMine
<1>. QED
  BY <1>3, <1>5, <1>6, StepOn DEF CallView

LEMMA ReceiveSound ==
    ASSUME CommandsInvariant, NEW p \in Sessions, Receive(p)
    PROVE  CommandsInvariant'
<1>1. CommandTypes /\ SoundSession(session[p])
  BY SessionParts
<1>3. session[p].pc = "sent" /\ Received(p)
  BY DEF Receive
<1>4. session[p].at <= Len(session[p].steps) /\ Fits(session[p].steps[session[p].at])
  BY <1>1, <1>3 DEF SoundSession
<1>5. /\ session[p].unpinned \in BOOLEAN
      /\ session' = [session EXCEPT ![p] = [session[p] EXCEPT !.pc = "on",
                       !.at = session[p].at + 1, !.unpinned = session[p].unpinned]]
  BY <1>1, NextStepIs DEF Receive
<1>. QED
  BY <1>3, <1>4, <1>5, StepOn DEF Receive

LEMMA MismatchSound ==
    ASSUME CommandsInvariant, NEW p \in Sessions, Mismatch(p)
    PROVE  CommandsInvariant'
<1>1. CommandTypes /\ session[p] \in SessionStates
  BY SessionParts
<1>3. /\ session[p].pc = "on" /\ session[p].at <= Len(session[p].steps)
      /\ ~Fits(session[p].steps[session[p].at])
  BY DEF Mismatch, At, Current, Fits
<1>4. session[p].at \in DOMAIN session[p].steps
  BY <1>1, <1>3, CurrentIs
<1>5. used' \in UseCounts /\ used'.cut = used.cut + 1
  BY <1>1, CutIs DEF Mismatch
<1>. QED
  BY <1>3, <1>4, <1>5, StepEnds DEF Mismatch

LEMMA RefusedSound ==
    ASSUME CommandsInvariant, NEW p \in Sessions, Refused(p)
    PROVE  CommandsInvariant'
<1>1. CommandTypes
  BY SessionParts
<1>3. session[p].pc = "on"
  BY DEF Refused, At
<1>5. used' \in UseCounts /\ used'.cut = used.cut + 1
  BY <1>1, CutIs DEF Refused
<1>. QED
  BY <1>3, <1>5, StepEnds DEF Refused

\* A command that comes to its end without a failed transaction owes nothing.
LEMMA FinishCommandSound ==
    ASSUME CommandsInvariant, NEW p \in Sessions, FinishCommand(p)
    PROVE  CommandsInvariant'
<1>1. /\ CommandTypes /\ session[p] \in SessionStates /\ SoundSession(session[p])
  BY SessionParts
<1>2. session[p].pc = "on" /\ session[p].at > Len(session[p].steps)
  BY DEF FinishCommand
<1>3. /\ session[p].at \in Nat /\ Len(session[p].steps) \in Nat
      /\ DOMAIN session[p].steps = 1 .. Len(session[p].steps)
  BY <1>1, SessionIs
<1>4. session[p].at = Len(session[p].steps) + 1
  <2>1. session[p].at <= Len(session[p].steps) + 1
    BY <1>1 DEF SoundSession
  <2>. QED
    BY <1>2, <1>3, <2>1
<1>5. ~session[p].reverted => \A s \in Spenders : ~Owes(p, s)
  <2> SUFFICES ASSUME ~session[p].reverted, NEW s \in Spenders, Owes(p, s)
               PROVE  FALSE
    OBVIOUS
  <2>1. PICK i \in DOMAIN session[p].steps :
           session[p].steps[i].spender = s /\ session[p].at = i + 1
    BY <1>2 DEF Owes
  <2>2. i \in Nat /\ i <= session[p].at
    BY <1>3, <2>1
  <2>3. s # ""
    BY DEF Spenders
  <2>4. i + 1 \in DOMAIN session[p].steps
    BY <1>1, <2>1, <2>2, <2>3, ApproveIsOne DEF ApprovesAt
  <2>. QED
    BY <1>2, <1>3, <2>1, <2>4
<1>6. /\ used' \in UseCounts
      /\ session[p].reverted => used'.cut = used.cut + 1
      /\ ~session[p].reverted => used'.cut = used.cut
  BY <1>1 DEF FinishCommand, CommandTypes, UseCounts
<1>. QED
  BY <1>2, <1>4, <1>5, <1>6, StepEnds DEF FinishCommand

LEMMA MempoolIs ==
    ASSUME CommandTypes
    PROVE  /\ mempool \in Seq(Transactions) /\ Len(mempool) \in Nat
           /\ DOMAIN mempool = 1 .. Len(mempool)
           /\ \A i \in DOMAIN mempool :
                /\ mempool[i].by \in Sessions \union {Nobody}
                /\ mempool[i].step \in CommandSteps
<1>1. mempool \in Seq(Transactions)
  BY DEF CommandTypes
<1>2. \A i \in DOMAIN mempool : mempool[i] \in Transactions
  BY <1>1
<1>. QED
  BY <1>1, <1>2 DEF Transactions

\* A transaction that is sent comes last.
LEMMA AppendIs ==
    ASSUME NEW S, NEW s \in Seq(S), NEW e \in S
    PROVE  /\ Append(s, e) \in Seq(S) /\ Len(Append(s, e)) = Len(s) + 1
           /\ DOMAIN Append(s, e) = 1 .. Len(s) + 1
           /\ \A i \in DOMAIN s : Append(s, e)[i] = s[i]
           /\ Append(s, e)[Len(s) + 1] = e
           /\ \A i \in DOMAIN Append(s, e) : i \in DOMAIN s \/ i = Len(s) + 1
           /\ DOMAIN s \subseteq DOMAIN Append(s, e)
           /\ Len(s) + 1 \notin DOMAIN s /\ Len(s) + 1 \in DOMAIN Append(s, e)
OBVIOUS

LEMMA SubmitSound ==
    ASSUME CommandsInvariant, NEW p \in Sessions, Submit(p)
    PROVE  CommandsInvariant'
<1>1. /\ CommandTypes /\ SessionsSound /\ MempoolSound /\ LeftoversCounted
      /\ session[p] \in SessionStates /\ SoundSession(session[p])
  BY SessionParts
<1>2. /\ session[p].pc = "on" /\ session[p].at <= Len(session[p].steps)
      /\ session[p].steps[session[p].at].kind = "tx"
      /\ Exists(session[p].steps[session[p].at])
      /\ Estimated(session[p].steps[session[p].at])
  BY DEF Submit, At, Current
<1> DEFINE tx == [by |-> p, step |-> session[p].steps[session[p].at]]
           d == [session[p] EXCEPT !.pc = "sent"]
<1>3. /\ mempool' = Append(mempool, tx) /\ session' = [session EXCEPT ![p] = d]
      /\ paused' = paused /\ granted' = granted /\ used' = used
  BY <1>1 DEF Submit, Current, CommandTypes
<1>4. tx.by = p /\ tx.step = session[p].steps[session[p].at]
  OBVIOUS
<1>5. tx \in Transactions
  <2>1. session[p].steps[session[p].at] \in CommandSteps
    BY <1>1, <1>2, CurrentIs
  <2>. QED
    BY <2>1 DEF Transactions
<1>6. /\ d.pc = "sent" /\ d.id = session[p].id /\ d.steps = session[p].steps
      /\ d.at = session[p].at /\ d.reverted = session[p].reverted
      /\ d.overtaken = session[p].overtaken /\ d.how = session[p].how
  BY <1>1 DEF SessionStates
<1>7. d \in SessionStates
  BY <1>1 DEF SessionStates
<1>8. SoundSession(d)
  <2>1. d.how = "" /\ Fits(session[p].steps[session[p].at])
    BY <1>1, <1>2, <1>6 DEF SoundSession, Fits
  <2> HIDE DEF d
  <2>. QED
    BY <1>1, <1>2, <1>6, <2>1 DEF SoundSession
<1> HIDE DEF d, tx
<1>9. /\ session' \in [Sessions -> SessionStates]
      /\ \A q \in Sessions \ {p} : session'[q] = session[q]
      /\ session'[p] = d
  BY <1>1, <1>3, <1>7, SessionChanges
<1>10. /\ mempool' \in Seq(Transactions)
       /\ \A i \in DOMAIN mempool : mempool'[i] = mempool[i]
       /\ \A i \in DOMAIN mempool' : i \in DOMAIN mempool \/ i = Len(mempool) + 1
       /\ mempool'[Len(mempool) + 1] = tx
       /\ DOMAIN mempool \subseteq DOMAIN mempool' /\ Len(mempool) + 1 \in DOMAIN mempool'
  BY <1>1, <1>3, <1>5, AppendIs DEF CommandTypes
<1>11. CommandTypes'
  BY <1>1, <1>3, <1>9, <1>10
     DEF CommandTypes, Transactions, CommandSteps, CommandIds, Offered
<1>12. SessionsSound'
  BY <1>1, <1>8, <1>9 DEF SessionsSound
<1>13. \A i \in DOMAIN mempool : mempool[i].by # p
  BY <1>1, <1>2, NothingOfMine DEF Received
<1>14. MempoolSound'
  <2>1. \A s : Estimated(s)' <=> Estimated(s)
    BY <1>3 DEF Estimated, Succeeds
  <2>2. \A i \in DOMAIN mempool : mempool[i].by \in Sessions =>
          /\ session'[mempool[i].by] = session[mempool[i].by]
          /\ session[mempool[i].by].pc = "sent"
          /\ mempool[i].step
               = session[mempool[i].by].steps[session[mempool[i].by].at]
          /\ session[mempool[i].by].overtaken \/ Estimated(mempool[i].step)
    BY <1>1, <1>9, <1>13 DEF MempoolSound, Current
  <2>3. /\ session'[tx.by].pc = "sent"
        /\ tx.step = session'[tx.by].steps[session'[tx.by].at]
        /\ Estimated(tx.step)
    BY <1>2, <1>4, <1>6, <1>9
  <2>4. ASSUME NEW i \in DOMAIN mempool', mempool'[i].by \in Sessions
        PROVE  /\ session'[mempool'[i].by].pc = "sent"
               /\ mempool'[i].step
                    = session'[mempool'[i].by].steps[session'[mempool'[i].by].at]
               /\ session'[mempool'[i].by].overtaken \/ Estimated(mempool'[i].step)
    <3>1. CASE i \in DOMAIN mempool
      BY <1>10, <2>2, <2>4, <3>1
    <3>2. CASE i = Len(mempool) + 1
      BY <1>10, <2>3, <3>2
    <3>. QED
      BY <1>10, <2>4, <3>1, <3>2
  <2>5. ASSUME NEW i \in DOMAIN mempool', NEW j \in DOMAIN mempool',
               mempool'[i].by = mempool'[j].by, mempool'[i].by \in Sessions
        PROVE  i = j
    <3>1. CASE i \in DOMAIN mempool /\ j \in DOMAIN mempool
      BY <1>1, <1>10, <2>5, <3>1 DEF MempoolSound
    <3>2. CASE i = Len(mempool) + 1 \/ j = Len(mempool) + 1
      BY <1>4, <1>10, <1>13, <2>5, <3>2
    <3>. QED
      BY <1>10, <2>5, <3>1, <3>2
  <2>6. \A i \in DOMAIN mempool' :
           Estimated(mempool'[i].step) => Estimated(mempool[i].step)'
    BY <1>3 DEF Estimated, Succeeds
  <2>. QED
    BY <2>4, <2>5, <2>6 DEF MempoolSound, Current
<1>15. Orphans' \subseteq Orphans
  <2>1. p # Nobody
    BY NobodyAssumption
  <2>2. \A i \in DOMAIN mempool' : mempool'[i].by = Nobody =>
           i \in DOMAIN mempool /\ mempool'[i] = mempool[i]
    BY <1>4, <1>10, <2>1
  <2>. QED
    BY <2>2 DEF Orphans
<1>16. ASSUME NEW q \in Sessions \ {p}
       PROVE  Received(q)' <=> Received(q)
  <2>1. \A i \in DOMAIN mempool' : mempool'[i].by = q =>
           i \in DOMAIN mempool /\ mempool'[i] = mempool[i]
    BY <1>4, <1>10
  <2>. QED
    BY <1>10, <2>1 DEF Received
<1>17. ~Received(p)'
  BY <1>4, <1>10 DEF Received
<1>18. \A q \in Sessions \ {p} : \A s \in Spenders : Owes(q, s) => Owes(q, s)'
  <2>2. \A s \in Spenders : granted'[s] \in Nat /\ granted'[s] <= granted[s]
    BY <1>1, <1>3 DEF CommandTypes
  <2>. QED
    BY <1>1, <1>9, <1>16, <2>2, OwesStays
<1>19. \A s \in Spenders : Owes(p, s) => Owes(p, s)'
  BY <1>2, <1>3, <1>6, <1>9, <1>17 DEF Owes
<1>20. Unowed' \subseteq Unowed
  BY <1>3, <1>18, <1>19 DEF Unowed
<1>21. used'.cut >= used.cut
  BY <1>1, <1>3 DEF CommandTypes, UseCounts
<1>. QED
  BY <1>1, <1>11, <1>12, <1>14, <1>15, <1>20, <1>21, CountStays DEF CommandsInvariant

\* A transaction of a killed process stays in the mempool, where nobody waits for
\* it: what it approves, or what its process approved before, is what the command
\* that was cut short may leave behind.
LEMMA KillSessionSound ==
    ASSUME CommandsInvariant, NEW p \in Sessions, KillSession(p)
    PROVE  CommandsInvariant'
<1>1. /\ CommandTypes /\ SessionsSound /\ MempoolSound /\ LeftoversCounted
      /\ session[p] \in SessionStates /\ SoundSession(session[p])
  BY SessionParts
<1>2. session[p].pc # "off" /\ paused' = paused /\ granted' = granted
  BY DEF KillSession
<1> DEFINE d == [session[p] EXCEPT !.pc = "off", !.how = "killed"]
<1>3. session' = [session EXCEPT ![p] = d]
  BY <1>1 DEF KillSession, Ended, CommandTypes
<1>4. d \in SessionStates /\ SoundSession(d) /\ d.pc = "off"
  BY <1>1, <1>2, Ends DEF SessionStates
<1> HIDE DEF d
<1>5. /\ session' \in [Sessions -> SessionStates]
      /\ \A q \in Sessions \ {p} : session'[q] = session[q]
      /\ session'[p] = d
  BY <1>1, <1>3, <1>4, SessionChanges
<1>6. used' \in UseCounts /\ used'.cut = used.cut + 1
  BY <1>1, CutIs DEF KillSession
<1>7. /\ DOMAIN mempool' = DOMAIN mempool
      /\ \A i \in DOMAIN mempool :
           mempool'[i] = IF mempool[i].by = p THEN [mempool[i] EXCEPT !.by = Nobody]
                         ELSE mempool[i]
  BY DEF KillSession
<1>8. p # Nobody
  BY NobodyAssumption
<1>9. \A i \in DOMAIN mempool :
        /\ mempool'[i].by = IF mempool[i].by = p THEN Nobody ELSE mempool[i].by
        /\ mempool'[i].step = mempool[i].step
        /\ mempool'[i] \in Transactions
  <2>1. \A e \in Transactions :
           /\ [e EXCEPT !.by = Nobody].by = Nobody /\ [e EXCEPT !.by = Nobody].step = e.step
           /\ [e EXCEPT !.by = Nobody] \in Transactions
    BY DEF Transactions
  <2>2. \A i \in DOMAIN mempool : mempool[i] \in Transactions
    BY <1>1 DEF CommandTypes
  <2>3. ASSUME NEW i \in DOMAIN mempool, mempool[i].by = p
        PROVE  mempool'[i] = [mempool[i] EXCEPT !.by = Nobody]
    BY <1>7, <2>3
  <2>4. ASSUME NEW i \in DOMAIN mempool, mempool[i].by # p
        PROVE  mempool'[i] = mempool[i]
    BY <1>7, <2>4
  <2>5. ASSUME NEW i \in DOMAIN mempool, mempool[i].by = p
        PROVE  /\ mempool'[i].by = Nobody /\ mempool'[i].step = mempool[i].step
               /\ mempool'[i] \in Transactions
    <3>1. PICK e \in Transactions : e = mempool[i]
      BY <2>2
    <3>2. mempool'[i] = [e EXCEPT !.by = Nobody]
      BY <2>3, <2>5, <3>1
    <3>3. /\ [e EXCEPT !.by = Nobody].by = Nobody /\ [e EXCEPT !.by = Nobody].step = e.step
          /\ [e EXCEPT !.by = Nobody] \in Transactions
      BY <2>1
    <3>. QED
      BY <3>1, <3>2, <3>3
  <2>. QED
    BY <2>2, <2>4, <2>5
<1>10. mempool' \in Seq(Transactions)
  <2>1. Len(mempool) \in Nat /\ DOMAIN mempool = 1 .. Len(mempool)
    BY <1>1, MempoolIs
  <2>2. mempool' \in [1 .. Len(mempool) -> Transactions]
    BY <1>7, <1>9, <2>1 DEF KillSession
  <2>. QED
    BY <2>1, <2>2, IsASeq
<1>11. CommandTypes'
  BY <1>1, <1>2, <1>5, <1>6, <1>10
     DEF CommandTypes, Transactions, CommandSteps, CommandIds, Offered
<1>12. SessionsSound'
  BY <1>1, <1>4, <1>5 DEF SessionsSound
<1>13. \A i \in DOMAIN mempool' : mempool'[i].by \in Sessions =>
          mempool[i].by \in Sessions \ {p} /\ mempool'[i].by = mempool[i].by
  BY <1>7, <1>8, <1>9, NobodyAssumption
<1>14. MempoolSound'
  <2>1. \A s : Estimated(s)' <=> Estimated(s)
    BY <1>2 DEF Estimated, Succeeds
  <2>2. \A i \in DOMAIN mempool : mempool[i].by \in Sessions \ {p} =>
          /\ session'[mempool[i].by] = session[mempool[i].by]
          /\ session[mempool[i].by].pc = "sent"
          /\ mempool[i].step
               = session[mempool[i].by].steps[session[mempool[i].by].at]
          /\ session[mempool[i].by].overtaken \/ Estimated(mempool[i].step)
    BY <1>1, <1>5 DEF MempoolSound, Current
  <2>4. \A i \in DOMAIN mempool' : mempool'[i].by \in Sessions =>
               /\ session'[mempool'[i].by].pc = "sent"
               /\ mempool'[i].step
                    = session'[mempool'[i].by].steps[session'[mempool'[i].by].at]
               /\ session'[mempool'[i].by].overtaken \/ Estimated(mempool'[i].step)
    BY <1>7, <1>9, <1>13, <2>2
  <2>5. \A i, j \in DOMAIN mempool' :
          mempool'[i].by = mempool'[j].by /\ mempool'[i].by \in Sessions => i = j
    BY <1>1, <1>7, <1>13 DEF MempoolSound
  <2>6. \A i \in DOMAIN mempool' :
           Estimated(mempool'[i].step) => Estimated(mempool[i].step)'
    BY <1>2 DEF Estimated, Succeeds
  <2>. QED
    BY <2>4, <2>5, <2>6 DEF MempoolSound, Current
<1>16. ASSUME NEW q \in Sessions \ {p}
       PROVE  Received(q)' <=> Received(q)
  <2>1. q # Nobody
    BY NobodyAssumption
  <2>. QED
    BY <1>7, <1>9, <2>1 DEF Received
<1>18. \A q \in Sessions \ {p} : \A s \in Spenders : Owes(q, s) => Owes(q, s)'
  <2>2. \A s \in Spenders : granted'[s] \in Nat /\ granted'[s] <= granted[s]
    BY <1>1, <1>2 DEF CommandTypes
  <2>. QED
    BY <1>1, <1>5, <1>16, <2>2, OwesStays
<1>19. CASE \E i \in DOMAIN mempool : mempool[i].by = p /\ mempool[i].step.spender # ""
  <2>1. PICK i \in DOMAIN mempool : mempool[i].by = p /\ mempool[i].step.spender # ""
    BY <1>19
  <2>2. Orphans' \subseteq Orphans \union {i}
    BY <1>1, <1>7, <1>9, <2>1 DEF Orphans, MempoolSound
  <2>3. /\ session[p].pc = "sent" /\ ~Received(p)
        /\ session[p].steps[session[p].at].spender # ""
    BY <1>1, <2>1 DEF MempoolSound, Current, Received
  <2>4. \A s \in Spenders : ~Owes(p, s)
    <3> SUFFICES ASSUME NEW s \in Spenders, Owes(p, s)
                 PROVE  FALSE
      OBVIOUS
    <3>1. /\ session[p].at \in Nat /\ session[p].at \in DOMAIN session[p].steps
          /\ \A k \in DOMAIN session[p].steps : k \in Nat
      <4>1. session[p].at <= Len(session[p].steps)
        BY <1>1, <2>3 DEF SoundSession
      <4>. QED
        BY <1>1, <4>1, SessionIs, CurrentIs
    <3>2. PICK k \in DOMAIN session[p].steps :
             /\ session[p].steps[k].spender = s
             /\ session[p].at = k + 1 \/ session[p].at > k
      BY <2>3 DEF Owes
    <3>3. k < session[p].at
      BY <3>1, <3>2
    <3>4. s # ""
      BY DEF Spenders
    <3>5. session[p].at <= session[p].at /\ k <= session[p].at
      BY <3>1, <3>3
    <3>6. k = session[p].at
      BY <1>1, <2>3, <3>1, <3>2, <3>4, <3>5, ApproveIsOne
    <3>. QED
      BY <3>1, <3>3, <3>6
  <2>5. Unowed' \subseteq Unowed
    BY <1>2, <1>18, <2>4 DEF Unowed
  <2>. QED
    BY <1>1, <1>6, <1>11, <1>12, <1>14, <2>2, <2>5, CountGrows DEF CommandsInvariant
<1>20. CASE ~\E i \in DOMAIN mempool : mempool[i].by = p /\ mempool[i].step.spender # ""
  <2>1. PICK x : \A s \in Spenders : Owes(p, s) => s = x
    BY <1>1, OwesOne
  <2>2. Unowed' \subseteq Unowed \union {x}
    BY <1>2, <1>18, <2>1 DEF Unowed
  <2>3. Orphans' \subseteq Orphans
    BY <1>7, <1>9, <1>20 DEF Orphans
  <2>. QED
    BY <1>1, <1>6, <1>11, <1>12, <1>14, <2>2, <2>3, CountGrows DEF CommandsInvariant
<1>. QED
  BY <1>19, <1>20

LEMMA HeadMined ==
    ASSUME NEW S, NEW s \in Seq(S), s # <<>>
    PROVE  /\ Tail(s) \in Seq(S) /\ Head(s) \in S /\ Head(s) = s[1] /\ 1 \in DOMAIN s
           /\ \A i \in DOMAIN Tail(s) :
                i \in Nat \ {0} /\ i + 1 \in DOMAIN s /\ i + 1 # 1 /\ Tail(s)[i] = s[i + 1]
           /\ \A i \in DOMAIN s : i = 1 \/ (i - 1 \in DOMAIN Tail(s) /\ Tail(s)[i - 1] = s[i])
<1>1. /\ Tail(s) \in Seq(S) /\ Len(Tail(s)) = Len(s) - 1
      /\ \A i \in 1 .. Len(s) - 1 : Tail(s)[i] = s[i + 1]
      /\ Head(s) \in S /\ Head(s) = s[1] /\ Len(s) \in Nat /\ Len(s) # 0
  BY HeadTailProperties, EmptySeq, LenProperties
<1>2. DOMAIN s = 1 .. Len(s) /\ DOMAIN Tail(s) = 1 .. Len(s) - 1
  BY <1>1
<1>3. \A n \in Nat : n # 0 =>
         /\ 1 \in 1 .. n
         /\ \A i \in 1 .. n - 1 : i \in Nat \ {0} /\ i + 1 \in 1 .. n /\ i + 1 # 1
         /\ \A i \in 1 .. n : i = 1 \/ (i - 1 \in 1 .. n - 1 /\ (i - 1) + 1 = i)
  OBVIOUS
<1>4. /\ 1 \in 1 .. Len(s)
      /\ \A i \in 1 .. Len(s) - 1 : i \in Nat \ {0} /\ i + 1 \in 1 .. Len(s) /\ i + 1 # 1
      /\ \A i \in 1 .. Len(s) : i = 1 \/ (i - 1 \in 1 .. Len(s) - 1 /\ (i - 1) + 1 = i)
  BY <1>1, <1>3
<1>5. \A i \in 1 .. Len(s) : i = 1 \/ (i - 1 \in 1 .. Len(s) - 1 /\ Tail(s)[i - 1] = s[i])
  <2> SUFFICES ASSUME NEW i \in 1 .. Len(s), i # 1
               PROVE  i - 1 \in 1 .. Len(s) - 1 /\ Tail(s)[i - 1] = s[i]
    OBVIOUS
  <2>1. i - 1 \in 1 .. Len(s) - 1 /\ (i - 1) + 1 = i
    BY <1>4
  <2>2. Tail(s)[i - 1] = s[(i - 1) + 1]
    BY <1>1, <2>1
  <2>. QED
    BY <2>1, <2>2
<1>. QED
  BY <1>1, <1>2, <1>4, <1>5

\* The orphans that stay in the mempool move up by one.
LEMMA OrphansMoveUp ==
    ASSUME CommandTypes, CommandTypes', mempool # <<>>, mempool' = Tail(mempool)
    PROVE  /\ Cardinality(Orphans') <= Cardinality(Orphans)
           /\ 1 \in Orphans => Cardinality(Orphans') <= Cardinality(Orphans) - 1
           /\ Cardinality(Orphans') \in Nat
<1>1. \A i \in DOMAIN mempool' :
         i \in Nat /\ i + 1 \in DOMAIN mempool /\ i + 1 # 1 /\ mempool'[i] = mempool[i + 1]
  BY HeadMined DEF CommandTypes
<1> DEFINE Later == Orphans \ {1}
           f == [i \in Orphans' |-> i + 1]
<1>2. \A i \in Orphans' : i \in Nat /\ i + 1 \in Later
  BY <1>1 DEF Orphans
<1>3. f \in Injection(Orphans', Later)
  <2>1. \A i, j \in Orphans' : i + 1 = j + 1 => i = j
    BY <1>2
  <2>2. f \in [Orphans' -> Later]
    BY <1>2
  <2>3. \A i, j \in Orphans' : f[i] = f[j] => i = j
    BY <2>1
  <2> HIDE DEF f, Later
  <2>. QED
    BY <2>2, <2>3 DEF Injection, IsInjective
<1>4. /\ IsFiniteSet(Later) /\ Cardinality(Orphans) \in Nat
      /\ Cardinality(Later) = IF 1 \in Orphans THEN Cardinality(Orphans) - 1
                              ELSE Cardinality(Orphans)
  BY OrphansAreFinite, FS_RemoveElement
<1>5. Cardinality(Orphans') <= Cardinality(Later) /\ Cardinality(Orphans') \in Nat
  <2> HIDE DEF Later, f
  <2>. QED
    BY <1>3, <1>4, FS_Injection, FS_CardinalityType
<1>. QED
  BY <1>4, <1>5

LEMMA MineTransactionSound ==
    ASSUME CommandsInvariant, MineTransaction
    PROVE  CommandsInvariant'
<1>1. CommandTypes /\ SessionsSound /\ MempoolSound /\ LeftoversCounted
  BY DEF CommandsInvariant
<1>a. PICK tx : tx = Head(mempool)
  OBVIOUS
<1>b. PICK ok \in BOOLEAN : ok <=> Succeeds(tx.step)
  OBVIOUS
<1>2. mempool # <<>> /\ mempool' = Tail(mempool) /\ used' = used
  BY DEF MineTransaction
<1>3. /\ tx = mempool[1] /\ 1 \in DOMAIN mempool /\ tx \in Transactions
      /\ mempool' \in Seq(Transactions)
      /\ \A i \in DOMAIN mempool' :
           i + 1 \in DOMAIN mempool /\ i + 1 # 1 /\ mempool'[i] = mempool[i + 1]
             /\ i \in Nat \ {0}
      /\ \A i \in DOMAIN mempool :
           i = 1 \/ (i - 1 \in DOMAIN mempool' /\ mempool'[i - 1] = mempool[i])
  BY <1>1, <1>2, <1>a, HeadMined DEF CommandTypes
<1>4. tx.by \in Sessions \union {Nobody} /\ tx.step \in CommandSteps
  BY <1>3 DEF Transactions
<1>5. tx.step.grants \in Nat /\ tx.step.pulls \in Nat
  BY <1>4, StepNumbers
<1>6. /\ paused' = IF tx.step.fn = "setPaused" THEN SwitchesOn(tx.step.word) ELSE paused
      /\ granted' = [s \in Spenders |->
           IF s = tx.step.spender THEN tx.step.grants
           ELSE IF s = tx.step.to /\ ok THEN granted[s] - tx.step.pulls
           ELSE granted[s]]
      /\ session' = [p \in Sessions |->
           IF p = tx.by THEN [session[p] EXCEPT !.reverted = @ \/ ~ok]
           ELSE [session[p] EXCEPT !.overtaken = @ \/ session[p].pc = "sent"]]
  BY <1>a, <1>b DEF MineTransaction
<1>7. ok => tx.step.pulls = 0 \/ granted[tx.step.to] >= tx.step.pulls
  BY <1>5, <1>b DEF Succeeds
<1>9. \A s \in Spenders : granted[s] \in Nat
  BY <1>1 DEF CommandTypes
<1>10. ASSUME NEW s \in Spenders
       PROVE  /\ granted'[s] \in Nat
              /\ s = tx.step.spender => granted'[s] = tx.step.grants
              /\ s # tx.step.spender => granted'[s] <= granted[s]
              /\ s # tx.step.spender /\ s = tx.step.to /\ ok
                   => granted'[s] = granted[s] - tx.step.pulls
  <2>1. CASE s = tx.step.spender
    BY <1>5, <1>6, <2>1
  <2>2. CASE s # tx.step.spender /\ s = tx.step.to /\ ok
    <3>1. granted'[s] = granted[s] - tx.step.pulls
      BY <1>6, <2>2
    <3>2. tx.step.pulls = 0 \/ granted[s] >= tx.step.pulls
      BY <1>7, <2>2
    <3>. QED
      BY <1>5, <1>9, <2>2, <3>1, <3>2
  <2>3. CASE s # tx.step.spender /\ ~(s = tx.step.to /\ ok)
    BY <1>6, <1>9, <2>3
  <2>. QED
    BY <2>1, <2>2, <2>3
<1>11. granted' \in [Spenders -> Nat] /\ paused' \in BOOLEAN
  <2>1. paused \in BOOLEAN
    BY <1>1 DEF CommandTypes
  <2>2. paused' \in BOOLEAN
    BY <1>6, <2>1 DEF SwitchesOn
  <2>. QED
    BY <1>6, <1>10, <2>2
<1>12. ASSUME NEW q \in Sessions
       PROVE  /\ session'[q] \in SessionStates
              /\ session'[q].pc = session[q].pc /\ session'[q].id = session[q].id
              /\ session'[q].steps = session[q].steps /\ session'[q].at = session[q].at
              /\ session'[q].how = session[q].how
              /\ q = tx.by => /\ session'[q].reverted <=> session[q].reverted \/ ~ok
                              /\ session'[q].overtaken = session[q].overtaken
              /\ q # tx.by => /\ session'[q].reverted = session[q].reverted
                              /\ session'[q].overtaken
                                   <=> session[q].overtaken \/ session[q].pc = "sent"
  <2>1. session[q] \in SessionStates
    BY <1>1 DEF CommandTypes
  <2>2. ASSUME NEW c \in SessionStates, NEW b \in BOOLEAN
        PROVE  /\ [c EXCEPT !.reverted = b] \in SessionStates
               /\ [c EXCEPT !.overtaken = b] \in SessionStates
    BY DEF SessionStates
  <2>3. CASE q = tx.by
    <3>1. session'[q] = [session[q] EXCEPT !.reverted = session[q].reverted \/ ~ok]
      BY <1>6, <2>3
    <3>2. (session[q].reverted \/ ~ok) \in BOOLEAN
      OBVIOUS
    <3>3. session'[q] \in SessionStates
      BY <2>1, <2>2, <3>1, <3>2
    <3>. QED
      BY <2>1, <2>3, <3>1, <3>3 DEF SessionStates
  <2>4. CASE q # tx.by
    <3>1. session'[q] = [session[q] EXCEPT !.overtaken =
                           session[q].overtaken \/ session[q].pc = "sent"]
      BY <1>6, <2>4
    <3>2. (session[q].overtaken \/ session[q].pc = "sent") \in BOOLEAN
      OBVIOUS
    <3>3. session'[q] \in SessionStates
      BY <2>1, <2>2, <3>1, <3>2
    <3>. QED
      BY <2>1, <2>4, <3>1, <3>3 DEF SessionStates
  <2>. QED
    BY <2>3, <2>4
<1>13. CommandTypes'
  <2>1. session' \in [Sessions -> SessionStates]
    BY <1>6, <1>12
  <2>. QED
    BY <1>1, <1>2, <1>3, <1>11, <2>1
       DEF CommandTypes, Transactions, CommandSteps, CommandIds, Offered
\* The session whose transaction is mined.
<1>14. tx.by \in Sessions =>
          /\ session[tx.by].pc = "sent"
          /\ tx.step = session[tx.by].steps[session[tx.by].at]
          /\ session[tx.by].overtaken \/ tx.step.gasLimit \/ ok
          /\ session[tx.by].at \in DOMAIN session[tx.by].steps
  <2> SUFFICES ASSUME tx.by \in Sessions
               PROVE  /\ session[tx.by].pc = "sent"
                      /\ tx.step = session[tx.by].steps[session[tx.by].at]
                      /\ session[tx.by].overtaken \/ tx.step.gasLimit \/ ok
                      /\ session[tx.by].at \in DOMAIN session[tx.by].steps
    OBVIOUS
  <2>1. /\ session[tx.by].pc = "sent"
        /\ tx.step = session[tx.by].steps[session[tx.by].at]
        /\ session[tx.by].overtaken \/ Estimated(tx.step)
    BY <1>1, <1>3 DEF MempoolSound, Current
  <2>2. session[tx.by].overtaken \/ tx.step.gasLimit \/ ok
    BY <1>b, <2>1 DEF Estimated
  <2>3. session[tx.by] \in SessionStates /\ session[tx.by].at <= Len(session[tx.by].steps)
    BY <1>1, <2>1 DEF CommandTypes, SessionsSound, SoundSession
  <2>. QED
    BY <2>1, <2>2, <2>3, CurrentIs
<1>15. SessionsSound'
  <2> SUFFICES ASSUME NEW q \in Sessions
               PROVE  SoundSession(session'[q])
    BY DEF SessionsSound
  <2>1. SoundSession(session[q])
    BY <1>1 DEF SessionsSound
  <2>2. session'[q].reverted => session'[q].overtaken
           \/ \E i \in DOMAIN session'[q].steps : session'[q].steps[i].gasLimit
    <3>1. CASE q = tx.by
      <4>1. session[q].reverted => session[q].overtaken
               \/ \E i \in DOMAIN session[q].steps : session[q].steps[i].gasLimit
        BY <2>1 DEF SoundSession
      <4>2. ~ok => session[q].overtaken
               \/ \E i \in DOMAIN session[q].steps : session[q].steps[i].gasLimit
        BY <1>14, <3>1
      <4>. QED
        BY <1>12, <3>1, <4>1, <4>2
    <3>2. CASE q # tx.by
      BY <1>12, <2>1, <3>2 DEF SoundSession
    <3>. QED
      BY <3>1, <3>2
  <2>. QED
    BY <1>12, <2>1, <2>2 DEF SoundSession
\* Its only transaction is the one that is mined.
<1>16. \A i \in DOMAIN mempool' : mempool'[i].by \in Sessions => mempool'[i].by # tx.by
  BY <1>1, <1>3 DEF MempoolSound
<1>17. MempoolSound'
  <2>1. ASSUME NEW i \in DOMAIN mempool', mempool'[i].by \in Sessions
        PROVE  /\ session'[mempool'[i].by].pc = "sent"
               /\ mempool'[i].step
                    = session'[mempool'[i].by].steps[session'[mempool'[i].by].at]
               /\ session'[mempool'[i].by].overtaken
    <3>1. /\ session[mempool'[i].by].pc = "sent"
          /\ mempool'[i].step
               = session[mempool'[i].by].steps[session[mempool'[i].by].at]
      BY <1>1, <1>3, <2>1 DEF MempoolSound, Current
    <3>2. mempool'[i].by # tx.by
      BY <1>16, <2>1
    <3>. QED
      BY <1>12, <2>1, <3>1, <3>2
  <2>2. ASSUME NEW i \in DOMAIN mempool', NEW j \in DOMAIN mempool',
               mempool'[i].by = mempool'[j].by, mempool'[i].by \in Sessions
        PROVE  i = j
    <3>1. /\ i + 1 \in DOMAIN mempool /\ j + 1 \in DOMAIN mempool
          /\ mempool[i + 1].by = mempool[j + 1].by /\ mempool[i + 1].by \in Sessions
          /\ i \in Nat /\ j \in Nat
      BY <1>3, <2>2
    <3>2. i + 1 = j + 1
      BY <1>1, <3>1 DEF MempoolSound
    <3>. QED
      BY <3>1, <3>2
  <2>. QED
    BY <2>1, <2>2 DEF MempoolSound, Current
<1>18. ASSUME NEW q \in Sessions, q # tx.by
       PROVE  Received(q)' <=> Received(q)
  <2>1. Received(q) => Received(q)'
    BY <1>3 DEF Received
  <2>2. ASSUME NEW i \in DOMAIN mempool, mempool[i].by = q
        PROVE  \E j \in DOMAIN mempool' : mempool'[j].by = q
    BY <1>3, <1>18, <2>2
  <2>3. Received(q)' => Received(q)
    BY <2>2 DEF Received
  <2>. QED
    BY <2>1, <2>3
<1>19. tx.by \in Sessions => Received(tx.by)' /\ ~Received(tx.by)
  BY <1>3, <1>16 DEF Received
\* Who owes an allowance still does, or it is used up.
<1>20. ASSUME NEW q \in Sessions, q # tx.by, NEW s \in Spenders, s # tx.step.spender,
              Owes(q, s)
       PROVE  Owes(q, s)'
  <2>1. /\ session'[q].pc = session[q].pc /\ session'[q].at = session[q].at
        /\ session'[q].steps = session[q].steps /\ session'[q].reverted = session[q].reverted
    BY <1>12, <1>20
  <2>2. granted'[s] \in Nat /\ granted'[s] <= granted[s]
    BY <1>10, <1>20
  <2>. QED
    BY <1>1, <1>18, <1>20, <2>1, <2>2, OwesStays
<1>21. ASSUME tx.by \in Sessions, NEW s \in Spenders, s # tx.step.spender, Owes(tx.by, s),
              granted'[s] > 0
       PROVE  Owes(tx.by, s)'
  <2>0. PICK b \in Sessions : b = tx.by
    BY <1>21
  <2>1. session[b] \in SessionStates /\ SoundSession(session[b])
    BY <1>1, <1>21, <2>0 DEF CommandTypes, SessionsSound
  <2>2. session[b].at \in Nat /\ \A i \in DOMAIN session[b].steps : i \in Nat
    BY <2>1, SessionIs
  <2>3. PICK i \in DOMAIN session[b].steps :
          /\ session[b].steps[i].spender = s
          /\ \/ session[b].at = i + 1 /\ granted[s] <= session[b].steps[i].grants
             \/ session[b].at > i /\ session[b].reverted
    BY <1>19, <1>21, <2>0 DEF Owes
  <2>4. session'[b].pc # "off"
    BY <1>12, <1>14, <1>21, <2>0
  <2>5. session'[b].steps = session[b].steps /\ session'[b].at = session[b].at
        /\ (session'[b].reverted <=> session[b].reverted \/ ~ok)
    BY <1>12, <1>21, <2>0
  <2>6. CASE session[b].at > i /\ session[b].reverted
    BY <2>0, <2>3, <2>4, <2>5, <2>6 DEF Owes
  <2>7. CASE session[b].at = i + 1 /\ granted[s] <= session[b].steps[i].grants
    <3>1. i <= session[b].at /\ session[b].at > i
      BY <2>2, <2>7
    <3>2. s # ""
      BY DEF Spenders
    <3>3. ApprovesAt(session[b].steps, i)
      <4>1. session[b].steps[i].spender # "" /\ i \in DOMAIN session[b].steps
        BY <2>3, <3>2
      <4>. QED
        BY <2>1, <3>1, <4>1, ApproveIsOne
    <3>4. /\ tx.step.to = s /\ tx.step.pulls = session[b].steps[i].grants
      <4>1. /\ session[b].steps[i + 1].to = session[b].steps[i].spender
            /\ session[b].steps[i + 1].pulls = session[b].steps[i].grants
        BY <3>3 DEF ApprovesAt
      <4>2. tx.step = session[b].steps[i + 1]
        BY <1>14, <2>0, <2>7
      <4>. QED
        BY <2>3, <4>1, <4>2
    <3>5. CASE ok
      <4>1. granted'[s] = granted[s] - tx.step.pulls
        BY <1>10, <1>21, <3>4, <3>5
      <4>. QED
        BY <1>5, <1>9, <1>10, <1>21, <2>7, <3>4, <4>1
    <3>6. CASE ~ok
      BY <2>0, <2>3, <2>4, <2>5, <3>1, <3>6 DEF Owes
    <3>. QED
      BY <3>5, <3>6
  <2>. QED
    BY <2>3, <2>6, <2>7
<1>22. \A s \in Unowed' : s # tx.step.spender => s \in Unowed
  <2> SUFFICES ASSUME NEW s \in Unowed', s # tx.step.spender
               PROVE  s \in Unowed
    OBVIOUS
  <2>1. s \in Spenders /\ granted'[s] > 0 /\ \A p \in Sessions : ~Owes(p, s)'
    BY DEF Unowed
  <2>2. granted[s] > 0
    BY <1>9, <1>10, <2>1
  <2>3. \A p \in Sessions : ~Owes(p, s)
    BY <1>20, <1>21, <2>1
  <2>. QED
    BY <2>1, <2>2, <2>3 DEF Unowed
<1>23. /\ IsFiniteSet(Unowed) /\ Cardinality(Unowed) \in Nat
       /\ Cardinality(Orphans) \in Nat /\ used.cut \in Nat
  BY <1>1, UnowedIsFinite, OrphansAreFinite DEF CommandTypes, UseCounts
<1>24. /\ Cardinality(Orphans') \in Nat /\ Cardinality(Orphans') <= Cardinality(Orphans)
       /\ 1 \in Orphans => Cardinality(Orphans') <= Cardinality(Orphans) - 1
  BY <1>1, <1>2, <1>13, OrphansMoveUp
<1>25. LeftoversCounted'
  <2>1. CASE Unowed' \subseteq Unowed
    <3>1. Cardinality(Unowed') <= Cardinality(Unowed) /\ Cardinality(Unowed') \in Nat
      BY <1>23, <2>1, FS_Subset, FS_CardinalityType
    <3>. QED
      BY <1>1, <1>2, <1>23, <1>24, <3>1 DEF LeftoversCounted
  <2>2. CASE tx.by = Nobody /\ tx.step.spender # ""
    <3>1. 1 \in Orphans
      BY <1>3, <2>2 DEF Orphans
    <3>2. Unowed' \subseteq Unowed \union {tx.step.spender}
      BY <1>22
    <3>3. /\ IsFiniteSet(Unowed \union {tx.step.spender})
          /\ Cardinality(Unowed \union {tx.step.spender}) <= Cardinality(Unowed) + 1
          /\ Cardinality(Unowed \union {tx.step.spender}) \in Nat
      BY <1>23, OneMore
    <3>4. /\ Cardinality(Unowed') <= Cardinality(Unowed \union {tx.step.spender})
          /\ Cardinality(Unowed') \in Nat
      BY <3>2, <3>3, FS_Subset, FS_CardinalityType
    <3>. QED
      BY <1>1, <1>2, <1>23, <1>24, <3>1, <3>3, <3>4 DEF LeftoversCounted
  <2>3. CASE tx.step.spender = ""
    <3>1. Unowed' \subseteq Unowed
      BY <1>22, <2>3 DEF Unowed, Spenders
    <3>. QED
      BY <2>1, <3>1
  <2>4. CASE tx.by \in Sessions /\ tx.step.spender # ""
    <3> DEFINE b == tx.by
    <3>1. session[b] \in SessionStates /\ SoundSession(session[b])
      BY <1>1, <2>4 DEF CommandTypes, SessionsSound
    <3>2. tx.step.spender \in Unowed' => tx.step.spender \in Spenders
      BY DEF Unowed
    <3>3. tx.step.spender \in Spenders => Owes(b, tx.step.spender)'
      <4> SUFFICES ASSUME tx.step.spender \in Spenders
                   PROVE  Owes(b, tx.step.spender)'
        OBVIOUS
      <4>1. /\ session'[b].at = session[b].at /\ session'[b].pc = "sent"
            /\ session'[b].steps = session[b].steps
        BY <1>12, <1>14, <2>4
      <4>2. granted'[tx.step.spender] <= tx.step.grants
        BY <1>5, <1>10
      <4>3. session'[b].pc # "off"
        BY <4>1
      <4>. QED
        BY <1>14, <1>19, <2>4, <4>1, <4>2, <4>3 DEF Owes
    <3>4. tx.step.spender \notin Unowed'
      BY <2>4, <3>2, <3>3 DEF Unowed
    <3>5. Unowed' \subseteq Unowed
      BY <1>22, <3>4
    <3>. QED
      BY <2>1, <3>5
  <2>. QED
    BY <1>4, <2>2, <2>3, <2>4
<1>. QED
  BY <1>13, <1>15, <1>17, <1>25 DEF CommandsInvariant

LEMMA CommandsInvariantStarts == CommandsInit => CommandsInvariant
<1> SUFFICES ASSUME CommandsInit
             PROVE  CommandsInvariant
  OBVIOUS
<1>1. SoundSession(NoCommand)
  <2> HIDE DEF NoCommand
  <2>1. <<"", "">> \notin LeftBehind
    BY DEF LeftBehind
  <2>2. GoodCommand(NoCommand.id, NoCommand.steps)
    BY <2>1, NoCommandIs, NoSteps
  <2>3. NoCommand.at <= Len(NoCommand.steps) + 1
    <3>1. 1 <= Len(<<>>) + 1
      OBVIOUS
    <3>. QED
      BY <3>1, NoCommandIs
  <2>4. Reached(NoCommand.steps, NoCommand.at)
    <3>1. 1 .. 1 - 1 = {}
      OBVIOUS
    <3>. QED
      BY <3>1, NoCommandIs DEF Reached
  <2>. QED
    BY <2>2, <2>3, <2>4, NoCommandIs DEF SoundSession
<1>2. CommandTypes
  <2>1. mempool \in Seq(Transactions)
    BY DEF CommandsInit
  <2>2. used \in UseCounts
    BY DEF CommandsInit, UseCounts
  <2>3. granted \in [Spenders -> Nat]
    BY DEF CommandsInit
  <2> HIDE DEF NoCommand
  <2>4. session \in [Sessions -> SessionStates]
    BY NoCommandIs DEF CommandsInit
  <2>. QED
    BY <2>1, <2>2, <2>3, <2>4 DEF CommandTypes, CommandsInit
<1>3. SessionsSound
  BY <1>1 DEF SessionsSound, CommandsInit
<1>4. DOMAIN mempool = {}
  <2>1. DOMAIN <<>> = {}
    OBVIOUS
  <2>. QED
    BY <2>1 DEF CommandsInit
<1>5. MempoolSound
  BY <1>4 DEF MempoolSound
<1>6. LeftoversCounted
  <2>1. Orphans = {}
    BY <1>4 DEF Orphans
  <2>2. \A s \in Spenders : granted[s] = 0
    BY DEF CommandsInit
  <2>3. Unowed = {}
    BY <2>2 DEF Unowed
  <2>4. used.cut = 0
    BY DEF CommandsInit
  <2>. QED
    BY <2>1, <2>3, <2>4, FS_EmptySet DEF LeftoversCounted
<1>. QED
  BY <1>2, <1>3, <1>5, <1>6 DEF CommandsInvariant

LEMMA CommandsInvariantSteps ==
    CommandsInvariant /\ [CommandsNext]_commandsVars => CommandsInvariant'
<1> SUFFICES ASSUME CommandsInvariant, [CommandsNext]_commandsVars
             PROVE  CommandsInvariant'
  OBVIOUS
<1>1. CASE MineTransaction
  BY <1>1, MineTransactionSound
<1>2. ASSUME NEW p \in Sessions, Run(p)
      PROVE  CommandsInvariant'
  <2>1. CASE \E amount \in Amounts : \E c \in AllCommands(amount) : StartCommand(p, c)
    <3>1. PICK c \in Offered : StartCommand(p, c)
      BY <2>1 DEF Offered
    <3>. QED
      BY <3>1, StartCommandSound
  <2>2. CASE PinFile(p)
    BY <2>2, PinFileSound
  <2>3. CASE CallView(p)
    BY <2>3, CallViewSound
  <2>4. CASE Mismatch(p)
    BY <2>4, MismatchSound
  <2>5. CASE Submit(p)
    BY <2>5, SubmitSound
  <2>6. CASE Refused(p)
    BY <2>6, RefusedSound
  <2>7. CASE Receive(p)
    BY <2>7, ReceiveSound
  <2>8. CASE FinishCommand(p)
    BY <2>8, FinishCommandSound
  <2>9. CASE KillSession(p)
    BY <2>9, KillSessionSound
  <2>. QED
    BY <1>2, <2>1, <2>2, <2>3, <2>4, <2>5, <2>6, <2>7, <2>8, <2>9 DEF Run
<1>3. CASE UNCHANGED commandsVars
  <2>1. /\ paused' = paused /\ granted' = granted /\ mempool' = mempool
        /\ session' = session /\ used' = used
    BY <1>3 DEF commandsVars
  <2>2. CommandTypes' /\ SessionsSound'
    BY <2>1 DEF CommandsInvariant, CommandTypes, SessionsSound, Transactions, CommandSteps,
                CommandIds, Offered
  <2>3. MempoolSound'
    BY <2>1 DEF CommandsInvariant, MempoolSound, Current, Estimated, Succeeds
  <2>4. LeftoversCounted'
    <3>1. \A p \in Sessions : \A s \in Spenders : Owes(p, s)' <=> Owes(p, s)
      BY <2>1 DEF Owes, Received
    <3>2. Unowed' = Unowed
      BY <2>1, <3>1 DEF Unowed
    <3>3. Orphans' = Orphans
      BY <2>1 DEF Orphans
    <3>. QED
      BY <2>1, <3>2, <3>3 DEF CommandsInvariant, LeftoversCounted
  <2>. QED
    BY <2>2, <2>3, <2>4 DEF CommandsInvariant
<1>. QED
  BY <1>1, <1>2, <1>3 DEF CommandsNext

\* However many sessions there are, those that run are as many as were started.
LEMMA RunningStaysFinite ==
    ASSUME CommandTypes, IsFiniteSet(Running), [CommandsNext]_commandsVars
    PROVE  IsFiniteSet(Running')
<1>1. ASSUME NEW p \in Sessions, \A q \in Sessions \ {p} : session'[q] = session[q]
      PROVE  IsFiniteSet(Running')
  <2>1. Running' \subseteq Running \union {p}
    BY <1>1 DEF Running
  <2>. QED
    BY <2>1, FS_AddElement, FS_Subset
<1>2. ASSUME \A q \in Sessions : session'[q].pc = session[q].pc
      PROVE  IsFiniteSet(Running')
  BY <1>2 DEF Running
<1>3. CASE MineTransaction
  <2>1. \A q \in Sessions : session'[q].pc = session[q].pc
    BY <1>3 DEF MineTransaction, CommandTypes, SessionStates
  <2>. QED
    BY <1>2, <2>1
<1>4. ASSUME NEW p \in Sessions, Run(p)
      PROVE  IsFiniteSet(Running')
  <2>1. \A q \in Sessions \ {p} : session'[q] = session[q]
    BY <1>4 DEF Run, StartCommand, PinFile, CallView, Mismatch, Submit, Refused, Receive,
                FinishCommand, KillSession, Ended, NextStep, CommandTypes
  <2>. QED
    BY <1>1, <2>1
<1>5. CASE UNCHANGED commandsVars
  BY <1>2, <1>5 DEF commandsVars
<1>. QED
  BY <1>3, <1>4, <1>5 DEF CommandsNext

\* The commands that are run keep to what the table says, the mempool holds what
\* running commands wait for, and what is left of the allowances is accounted for.
THEOREM CommandsStaySound == CommandsSpec => []CommandsInvariant
<1>1. CommandsInit => CommandsInvariant
  BY CommandsInvariantStarts
<1>2. CommandsInvariant /\ [CommandsNext]_commandsVars => CommandsInvariant'
  BY CommandsInvariantSteps
<1>. QED
  BY <1>1, <1>2, PTL DEF CommandsSpec

\* No command but those the contracts left behind stops at a call that does not
\* fit (network.ts:119), and none of these ends well.
THEOREM OnlyTheLeftBehindMismatch == CommandsSpec => []OnlyLeftBehindMismatch
<1>1. CommandsInvariant => OnlyLeftBehindMismatch
  <2> SUFFICES ASSUME CommandsInvariant, NEW p \in Sessions
               PROVE  /\ session[p].how = "mismatch" => session[p].id \in LeftBehind
                      /\ session[p].how = "done" => session[p].id \notin LeftBehind
    BY DEF OnlyLeftBehindMismatch
  <2>1. session[p] \in SessionStates /\ SoundSession(session[p])
    BY SessionParts
  <2>2. session[p].id \in LeftBehind
           <=> \E i \in DOMAIN session[p].steps : ~Fits(session[p].steps[i])
    BY <2>1 DEF SoundSession, GoodCommand
  <2>3. session[p].how = "mismatch" =>
           \E i \in DOMAIN session[p].steps : ~Fits(session[p].steps[i])
    BY <2>1 DEF SoundSession
  <2>4. session[p].how = "done" =>
           \A i \in DOMAIN session[p].steps : Fits(session[p].steps[i])
    <3> SUFFICES ASSUME session[p].how = "done"
                 PROVE  \A i \in DOMAIN session[p].steps : Fits(session[p].steps[i])
      OBVIOUS
    <3>1. session[p].at = Len(session[p].steps) + 1 /\ Reached(session[p].steps, session[p].at)
      BY <2>1 DEF SoundSession
    <3>2. /\ Len(session[p].steps) \in Nat
          /\ DOMAIN session[p].steps = 1 .. Len(session[p].steps)
      BY <2>1, SessionIs
    <3>3. (Len(session[p].steps) + 1) - 1 = Len(session[p].steps)
      BY <3>2
    <3>. QED
      BY <3>1, <3>2, <3>3 DEF Reached
  <2>. QED
    BY <2>2, <2>3, <2>4
<1>. QED
  BY <1>1, CommandsStaySound, PTL

\* waitTransaction waits for every transaction, and a command that ended without
\* an error saw one fail only if it was overtaken or not estimated.
THEOREM EndedCommandsAreDone == CommandsSpec => []EndedMeansDone
<1>1. CommandsInvariant => EndedMeansDone
  <2> SUFFICES ASSUME CommandsInvariant, NEW p \in Sessions, session[p].how = "done"
               PROVE  /\ \A i \in DOMAIN mempool : mempool[i].by # p
                      /\ session[p].reverted =>
                           \/ session[p].overtaken
                           \/ \E i \in DOMAIN session[p].steps : session[p].steps[i].gasLimit
    BY DEF EndedMeansDone
  <2>1. MempoolSound /\ SoundSession(session[p])
    BY SessionParts
  <2>2. session[p].pc # "sent"
    BY <2>1 DEF SoundSession
  <2>. QED
    BY <2>1, <2>2, NothingOfMine DEF Received, SoundSession
<1>. QED
  BY <1>1, CommandsStaySound, PTL

\* What commands approve, they pull: each allowance that is left has a command that
\* runs or that was cut short, also where two commands of a wallet overlap.
THEOREM LeftoversHaveACause == CommandsSpec => []LeftoverHasACause
<1> DEFINE Inv == CommandsInvariant /\ IsFiniteSet(Running)
<1>1. CommandsInit => IsFiniteSet(Running)
  <2>1. CommandsInit => Running = {}
    <3> HIDE DEF NoCommand
    <3>. QED
      BY NoCommandIs DEF CommandsInit, Running
  <2>. QED
    BY <2>1, FS_EmptySet
<1>2. CommandsInvariant /\ IsFiniteSet(Running) /\ [CommandsNext]_commandsVars
         => IsFiniteSet(Running')
  BY RunningStaysFinite DEF CommandsInvariant
<1>3. IsFiniteSet(Running') <=> IsFiniteSet(Running)'
  BY DEF Running
<1>4. CommandsInvariant /\ IsFiniteSet(Running) => LeftoverHasACause
  <2> SUFFICES ASSUME CommandsInvariant, IsFiniteSet(Running)
               PROVE  LeftoverHasACause
    OBVIOUS
  <2>1. CommandTypes /\ SessionsSound /\ LeftoversCounted
    BY DEF CommandsInvariant
  <2> DEFINE Positive == {s \in Spenders : granted[s] > 0}
             Owed == {s \in Positive : \E p \in Sessions : Owes(p, s)}
             Owing == [s \in Owed |-> CHOOSE p \in Sessions : Owes(p, s)]
  <2>2. \A s \in Owed : Owing[s] \in Sessions /\ Owes(Owing[s], s) /\ s \in Spenders
    OBVIOUS
  <2>3. \A s \in Owed : Owing[s] \in Running
    BY <2>2 DEF Owes, Running
  <2>4. \A s, r \in Owed : Owing[s] = Owing[r] => s = r
    BY <2>1, <2>2, OwesOne
  <2>5. Owing \in [Owed -> Running]
    BY <2>3
  <2>6. Owing \in Injection(Owed, Running)
    <3> HIDE DEF Owing, Owed
    <3>. QED
      BY <2>4, <2>5 DEF Injection, IsInjective
  <2>7. IsFiniteSet(Owed) /\ Cardinality(Owed) <= Cardinality(Running)
    <3> HIDE DEF Owing, Owed
    <3>. QED
      BY <2>6, FS_Injection
  <2>8. Positive \subseteq Unowed \union Owed
    BY DEF Unowed
  <2>9. /\ Cardinality(Owed) \in Nat /\ Cardinality(Running) \in Nat
        /\ IsFiniteSet(Unowed) /\ Cardinality(Unowed) \in Nat
        /\ Cardinality(Orphans) \in Nat /\ used.cut \in Nat
    BY <2>1, <2>7, UnowedIsFinite, OrphansAreFinite, FS_CardinalityType
       DEF CommandTypes, UseCounts
  <2> HIDE DEF Owing, Owed
  <2>10. /\ IsFiniteSet(Unowed \union Owed)
         /\ Cardinality(Unowed \union Owed) <= Cardinality(Unowed) + Cardinality(Owed)
         /\ Cardinality(Unowed \union Owed) \in Nat
    <3>1. /\ IsFiniteSet(Unowed \union Owed)
          /\ Cardinality(Unowed \union Owed)
               = Cardinality(Unowed) + Cardinality(Owed) - Cardinality(Unowed \intersect Owed)
      BY <2>7, <2>9, FS_Union
    <3>2. Cardinality(Unowed \intersect Owed) \in Nat
      BY <2>9, FS_Subset, FS_CardinalityType
    <3>3. Cardinality(Unowed \union Owed) \in Nat
      BY <3>1, FS_CardinalityType
    <3>. QED
      BY <2>9, <3>1, <3>2, <3>3
  <2>11. /\ Cardinality(Positive) <= Cardinality(Unowed \union Owed)
         /\ Cardinality(Positive) \in Nat
    <3> HIDE DEF Positive
    <3>. QED
      BY <2>8, <2>10, FS_Subset, FS_CardinalityType
  <2>12. Cardinality(Unowed) <= used.cut
    BY <2>1, <2>9 DEF LeftoversCounted
  <2>13. Cardinality(Positive) <= used.cut + Cardinality(Running)
    <3> HIDE DEF Positive
    <3>. QED
      BY <2>7, <2>9, <2>10, <2>11, <2>12
  <2>. QED
    BY <2>13 DEF LeftoverHasACause
<1>5. CommandsSpec => []IsFiniteSet(Running)
  BY <1>1, <1>2, <1>3, CommandsStaySound, PTL DEF CommandsSpec
<1>. QED
  BY <1>4, <1>5, CommandsStaySound, PTL
=============================================================================
