-------------------------- MODULE DelegationPools --------------------------
(***************************************************************************)
(* The delegation pool of IStakingData.sol and the share arithmetic that   *)
(* _delegate, _undelegate and the reward splits of Staking.sol do on it.   *)
(* A pool holds tokens owned by its delegators in proportion to shares.    *)
(***************************************************************************)
EXTENDS TokenMath

DelegationPool == [cooldownBlocks    : Nat,
                   indexingRewardCut : 0 .. MAX_PPM,
                   queryFeeCut       : 0 .. MAX_PPM,
                   updatedAtBlock    : Nat,
                   tokens            : Nat,
                   shares            : Nat]

Delegation == [shares : Nat, tokensLocked : Nat, tokensLockedUntil : Nat]

EmptyDelegationPool == [cooldownBlocks |-> 0, indexingRewardCut |-> 0,
                        queryFeeCut |-> 0, updatedAtBlock |-> 0,
                        tokens |-> 0, shares |-> 0]

EmptyDelegation == [shares |-> 0, tokensLocked |-> 0, tokensLockedUntil |-> 0]

\* Faulty variant: the quotient is rounded up, in favour of the newcomer.
SharesForRoundedUp(pool, tokens) ==
    IF pool.tokens = 0 THEN tokens
    ELSE (tokens * pool.shares + pool.tokens - 1) \div pool.tokens

\* Shares issued for a deposit.
SharesFor(pool, tokens) ==
    IF pool.tokens = 0 THEN tokens
    ELSE (tokens * pool.shares) \div pool.tokens

\* Tokens paid for shares; defined for a pool that has shares.
TokensFor(pool, shares) == (shares * pool.tokens) \div pool.shares

PoolEnter(pool, tokens) ==
    [pool EXCEPT !.tokens = @ + tokens, !.shares = @ + SharesFor(pool, tokens)]

\* Faulty variant: the shares stay in the pool's total.
PoolLeaveKeepingShares(pool, shares) ==
    [pool EXCEPT !.tokens = @ - TokensFor(pool, shares)]

PoolLeave(pool, shares) ==
    [pool EXCEPT !.tokens = @ - TokensFor(pool, shares), !.shares = @ - shares]

\* The tokens paid for shares thaw until an epoch, together with those locked
\* before.
DelegationLeave(delegation, shares, tokens, until) ==
    [delegation EXCEPT !.shares = @ - shares,
                       !.tokensLocked = @ + tokens,
                       !.tokensLockedUntil = until]

DelegationUnlock(delegation) ==
    [delegation EXCEPT !.tokensLocked = 0, !.tokensLockedUntil = 0]

\* Faulty variant: delegators are rewarded when there are none.
DelegationRewardsUnchecked(pool, cut, tokens) == tokens - Portion(cut, tokens)

\* The part of a reward that goes to the delegators: what the indexer's cut
\* leaves, and nothing while nobody delegates.
DelegationRewards(pool, cut, tokens) ==
    IF pool.tokens > 0 /\ cut < MAX_PPM THEN tokens - Portion(cut, tokens) ELSE 0

PoolReward(pool, tokens) == [pool EXCEPT !.tokens = @ + tokens]
=============================================================================
