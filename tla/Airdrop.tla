------------------------------ MODULE Airdrop ------------------------------
(***************************************************************************)
(* `cli airdrop`: the wallet pays a list of recipients in batches through  *)
(* the Disperse contract, several transactions at a time, and appends the  *)
(* recipients of every mined batch to a resume file, so that a later run   *)
(* leaves them out.  The process may be killed at any step and run again;  *)
(* what it sent stays in the mempool and may be mined later.               *)
(*                                                                         *)
(* A line of the recipients file is a record of an address and an amount.  *)
(* A file with a line that cannot be parsed, or whose amount is zero, ends *)
(* the process before anything is sent, so Lines holds valid lines only.   *)
(***************************************************************************)
EXTENDS Integers, Sequences, FiniteSets, FiniteSetsExt

CONSTANTS Lines,        \* the recipients file: a sequence of [address, amount]
          BatchSize,    \* --batch-size
          Concurrency,  \* --concurrency
          Balance,      \* GRT the wallet holds at first
          MaxRuns,      \* bound: runs of the command
          MaxKills,     \* bound: runs killed half-way
          MaxRefusals,  \* bound: sends the node refuses for a passing reason
          MaxLost,      \* bound: sends whose answer is lost
          MaxTopUps     \* bound: times the wallet gets one more GRT

ASSUME AirdropAssumption ==
  /\ Lines \in Seq([address : STRING, amount : Nat \ {0}])
  /\ BatchSize \in Nat \ {0} /\ Concurrency \in Nat \ {0}
  /\ {Balance, MaxRuns, MaxKills, MaxRefusals, MaxLost, MaxTopUps} \subseteq Nat

VARIABLES paid,       \* transfers each line of the file has received
          reverted,   \* lines of the batches that were mined and failed
          allowance,  \* GRT the Disperse contract may pull from the wallet
          balance,    \* GRT the wallet holds
          nonce,      \* the wallet's next nonce to be mined
          pool,       \* its transactions that are not mined yet
          resumefile, \* the addresses in the resume file
          run,        \* the running process
          spent       \* how much of each bound is used
vars == <<paid, reverted, allowance, balance, nonce, pool, resumefile, run,
          spent>>

Amount(lines) == MapThenSumSet(LAMBDA i : Lines[i].amount, lines)
Covers(lines) == /\ allowance >= Amount(lines)
                 /\ balance >= Amount(lines)
Taken(n) == n < nonce \/ \E tx \in pool : tx.nonce = n

\* getTransactionCount("pending"): the first nonce after the mined
\* transactions and those pending right behind them.
PendingCounts == {n \in nonce .. nonce + Cardinality(pool) :
                    ~Taken(n) /\ \A m \in nonce .. n - 1 : Taken(m)}

\* The lines still to pay: those whose address is not in the resume file.  A run
\* that forgot to read it would pay everybody again.
UnpaidAll == DOMAIN Lines
Unpaid == {i \in DOMAIN Lines : Lines[i].address \notin resumefile}

\* createBatches: consecutive slices of BatchSize lines, the last one shorter.
Place(i, lines) == Cardinality({j \in lines : j <= i})
Batches(lines) ==
  [k \in 1 .. (Cardinality(lines) + BatchSize - 1) \div BatchSize |->
     {i \in lines : Place(i, lines) \in (k - 1) * BatchSize + 1 .. k * BatchSize}]

\* A task of the queue sends run.batch[k] and has the lines unsaved to save.
Queued == [st |-> "queued", nonce |-> 0, unsaved |-> {}]
Off == [pc |-> "off", batch |-> <<>>, task |-> <<>>, next |-> 0]
Active == {k \in DOMAIN run.task : run.task[k].st \in {"sent", "saving"}}

\* Faulty variant: only a task that saved its batch frees its place in the queue.
SettledDone(k) == run.task[k].st = "done"
\* A task has ended once it saved its batch or logged an error.
Settled(k) == run.task[k].st \in {"done", "failed"}

Init ==
  /\ paid = [i \in DOMAIN Lines |-> 0]
  /\ reverted = {}
  /\ allowance = 0 /\ balance = Balance
  /\ nonce = 0 /\ pool = {}
  /\ resumefile = {}
  /\ run = Off
  /\ spent = [runs |-> 0, kills |-> 0, refusals |-> 0, lost |-> 0, topups |-> 0]

\* The beginning of airdrop: load both files, give up on a distribution of
\* zero tokens, and have the allowance raised when it does not cover the total.
Start(n) ==
  LET batches == Batches(Unpaid)
      total == Amount(Unpaid)
      started(pc) == [pc |-> pc, batch |-> batches,
                      task |-> [k \in DOMAIN batches |-> Queued], next |-> n]
  IN /\ run.pc = "off"
     /\ spent.runs < MaxRuns
     /\ total # 0
     /\ spent' = [spent EXCEPT !.runs = @ + 1]
     /\ \/ /\ allowance >= total
           /\ run' = started("distribute")
           /\ UNCHANGED pool
        \/ /\ allowance < total
           /\ run' = started("approve")
           /\ pool' = pool \union {[nonce |-> n, lines |-> {}, approves |-> total]}
     /\ UNCHANGED <<paid, reverted, allowance, balance, nonce, resumefile>>

\* The approval is mined: a NonceManager is made for the distribution, and it
\* counts on from the pending nonce n.
Approved(n) ==
  /\ run.pc = "approve"
  /\ run.next < nonce
  /\ run' = [run EXCEPT !.pc = "distribute", !.next = n]
  /\ UNCHANGED <<paid, reverted, allowance, balance, nonce, pool, resumefile,
                 spent>>

\* The queue starts its tasks in order, Concurrency of them at a time.
MayStart(k) ==
  /\ run.pc = "distribute"
  /\ k \in DOMAIN run.task
  /\ run.task[k].st = "queued"
  /\ \A j \in 1 .. k - 1 : run.task[j].st # "queued"
  /\ Cardinality(Active) < Concurrency

\* NonceManager.sendTransaction counts the nonce as used before the wallet
\* estimates gas and submits, whatever becomes of the transaction.
Began(k, st) ==
  run' = [run EXCEPT !.next = @ + 1,
                     !.task[k] = [st |-> st, nonce |-> run.next,
                                   unsaved |-> run.batch[k]]]
Submitted(k) ==
  /\ Covers(run.batch[k])
  /\ ~Taken(run.next)
  /\ pool' = pool \union
       {[nonce |-> run.next, lines |-> run.batch[k], approves |-> 0]}

Send(k) ==
  /\ MayStart(k)
  /\ Submitted(k)
  /\ Began(k, "sent")
  /\ UNCHANGED <<paid, reverted, allowance, balance, nonce, resumefile, spent>>

\* The gas estimation finds that the transfer would fail, or the nonce is
\* taken: sendTransaction throws and the task logs the error.
SendFails(k) ==
  /\ MayStart(k)
  /\ ~Covers(run.batch[k]) \/ Taken(run.next)
  /\ Began(k, "failed")
  /\ UNCHANGED <<paid, reverted, allowance, balance, nonce, pool, resumefile,
                 spent>>

\* The node cannot be reached, or refuses for a reason of its own.
SendRefused(k) ==
  /\ MayStart(k)
  /\ spent.refusals < MaxRefusals
  /\ spent' = [spent EXCEPT !.refusals = @ + 1]
  /\ Began(k, "failed")
  /\ UNCHANGED <<paid, reverted, allowance, balance, nonce, pool, resumefile>>

\* The node takes the transaction and its answer is lost.
AnswerLost(k) ==
  /\ MayStart(k)
  /\ Submitted(k)
  /\ spent.lost < MaxLost
  /\ spent' = [spent EXCEPT !.lost = @ + 1]
  /\ Began(k, "failed")
  /\ UNCHANGED <<paid, reverted, allowance, balance, nonce, resumefile>>

\* waitTransaction returns the receipt of a mined transaction whatever its
\* status; saveResumeList appends the batch to the file line by line.
Saved(k) ==
  \E i \in run.task[k].unsaved :
    LET rest == run.task[k].unsaved \ {i}
    IN /\ \A j \in rest : i < j
       /\ resumefile' = resumefile \union {Lines[i].address}
       /\ run' = [run EXCEPT !.task[k] =
                    [st |-> IF rest = {} THEN "done" ELSE "saving",
                     nonce |-> run.task[k].nonce, unsaved |-> rest]]
       /\ UNCHANGED <<paid, reverted, allowance, balance, nonce, pool, spent>>
SaveUnmined(k) == k \in Active /\ Saved(k)
Save(k) ==
  /\ k \in Active
  /\ run.task[k].nonce < nonce
  /\ Saved(k)

\* queue.onIdle: every task has ended, and so does the process.
Idle == \A k \in DOMAIN run.task : Settled(k)
Finish ==
  /\ run.pc = "distribute"
  /\ Idle
  /\ run' = Off
  /\ UNCHANGED <<paid, reverted, allowance, balance, nonce, pool, resumefile,
                 spent>>

Kill ==
  /\ run.pc # "off"
  /\ spent.kills < MaxKills
  /\ spent' = [spent EXCEPT !.kills = @ + 1]
  /\ run' = Off
  /\ UNCHANGED <<paid, reverted, allowance, balance, nonce, pool, resumefile>>

\* The chain includes the wallet's next transaction: an approval, or a call of
\* disperseToken, which pays every line of the batch or none of them.
Mine(tx) ==
  LET pays == tx.approves = 0 /\ Covers(tx.lines)
  IN /\ tx.nonce = nonce
     /\ nonce' = nonce + 1
     /\ pool' = pool \ {tx}
     /\ paid' = [i \in DOMAIN Lines |->
                   IF pays /\ i \in tx.lines THEN paid[i] + 1 ELSE paid[i]]
     /\ reverted' = IF pays THEN reverted ELSE reverted \union tx.lines
     /\ balance' = IF pays THEN balance - Amount(tx.lines) ELSE balance
     /\ allowance' = IF tx.approves # 0 THEN tx.approves
                     ELSE IF pays THEN allowance - Amount(tx.lines) ELSE allowance
     /\ UNCHANGED <<resumefile, run, spent>>

\* Somebody sends the wallet one more GRT.
TopUp ==
  /\ spent.topups < MaxTopUps
  /\ spent' = [spent EXCEPT !.topups = @ + 1]
  /\ balance' = balance + 1
  /\ UNCHANGED <<paid, reverted, allowance, nonce, pool, resumefile, run>>

SomeApproved == \E n \in PendingCounts : Approved(n)
SomeSend == \E k \in DOMAIN run.task : Send(k) \/ SendFails(k)
SomeSave == \E k \in DOMAIN run.task : Save(k)
SomeMine == \E tx \in pool : Mine(tx)
SomeFault == \E k \in DOMAIN run.task : SendRefused(k) \/ AnswerLost(k)

Next == \/ \E n \in PendingCounts : Start(n)
        \/ SomeApproved \/ SomeSend \/ SomeFault \/ SomeSave \/ Finish
        \/ Kill \/ SomeMine \/ TopUp

\* A process that is not killed runs on, and the chain keeps including
\* transactions; nobody has to start a run, or to fund the wallet.
Fairness == /\ WF_vars(SomeApproved) /\ WF_vars(SomeSend) /\ WF_vars(SomeSave)
            /\ WF_vars(Finish) /\ WF_vars(SomeMine)

Spec == Init /\ [][Next]_vars /\ Fairness
=============================================================================
