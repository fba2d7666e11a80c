-------------------------- MODULE AirdropProperties --------------------------
(***************************************************************************)
(* What a resumed airdrop keeps, and how far it may go wrong.              *)
(***************************************************************************)
EXTENDS Airdrop, Functions

\* An address is written to the resume file only after a transaction that
\* carried one of its lines was mined: a run killed between sending a batch
\* and its receipt never makes the next one skip a recipient still to be paid.
\* (That the mined transaction failed is not looked at: airdrop.ts:249 saves
\* the batch whatever the status of the receipt.)
ListedIsMined ==
  \A a \in resumefile :
    \E i \in DOMAIN Lines : Lines[i].address = a /\ (paid[i] > 0 \/ i \in reverted)

\* Payments beyond the first one of each line.
Overpaid ==
  SumFunction([i \in DOMAIN Lines |-> IF paid[i] > 1 THEN paid[i] - 1 ELSE 0])

\* Runs that end by themselves never pay a line twice; a killed run leaves at
\* most Concurrency batches mined or in the mempool and not listed, and a lost
\* answer leaves one, so no more than these can be paid again.
OverpaymentBounded ==
  Overpaid <= BatchSize * (Concurrency * spent.kills + spent.lost)

\* A nonce nobody sent, with a transaction waiting behind it.
NonceGap == \E tx \in pool : \E n \in nonce .. tx.nonce - 1 : ~Taken(n)

\* A distribution ends by itself unless a task that failed to send left a gap
\* in the nonces, behind which the later batches wait (airdrop.ts:224).
EndsOrGap == run.pc = "distribute" ~> (run.pc = "off" \/ NonceGap)
=============================================================================
