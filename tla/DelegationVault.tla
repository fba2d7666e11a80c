-------------------------- MODULE DelegationVault --------------------------
(***************************************************************************)
(* What a delegator is promised, without the way Staking.sol keeps its     *)
(* books: every indexer has a pool of tokens owned in shares.  One enters  *)
(* at the current price or above, leaves at the current price or below,    *)
(* and what rewards add belongs to the shares that are there.  Nothing     *)
(* else ever touches the pool: no slash, tax or governance decision.       *)
(***************************************************************************)
EXTENDS Integers

CONSTANTS Indexers, Delegators

VARIABLE vault     \* indexer -> its pool

VaultPool == [tokens : Nat, shares : Nat, shareOf : [Delegators -> Nat]]

NobodyIn == [tokens |-> 0, shares |-> 0, shareOf |-> [d \in Delegators |-> 0]]

Init == vault = [i \in Indexers |-> NobodyIn]

\* p becomes q as d enters: the shares issued are worth the tokens paid at most.
Enters(p, q) ==
    \E d \in Delegators :
        LET issued == q.shareOf[d] - p.shareOf[d]
            paid   == q.tokens - p.tokens
        IN  /\ issued > 0
            /\ paid > 0
            /\ q.shares = p.shares + issued
            /\ q.shareOf = [p.shareOf EXCEPT ![d] = p.shareOf[d] + issued]
            /\ IF p.shares = 0 THEN issued = paid
               ELSE issued * p.tokens <= paid * p.shares

\* p becomes q as d leaves: the tokens received are worth the shares at most.
Leaves(p, q) ==
    \E d \in Delegators :
        LET returned == p.shareOf[d] - q.shareOf[d]
            received == p.tokens - q.tokens
        IN  /\ returned > 0
            /\ received > 0
            /\ q.shares = p.shares - returned
            /\ q.shareOf = [p.shareOf EXCEPT ![d] = p.shareOf[d] - returned]
            /\ received * p.shares <= returned * p.tokens

\* Rewards reach a pool only while someone has shares in it.
IsRewarded(p, q) == /\ p.shares > 0
                    /\ q.tokens > p.tokens
                    /\ q.shares = p.shares
                    /\ q.shareOf = p.shareOf

\* One transaction may reward several pools.
Next == \A i \in Indexers :
            LET p == vault[i]
                q == vault'[i]
            IN  Enters(p, q) \/ Leaves(p, q) \/ IsRewarded(p, q) \/ q = p

Spec == Init /\ [][Next]_vault
=============================================================================
