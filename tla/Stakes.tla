------------------------------- MODULE Stakes -------------------------------
(***************************************************************************)
(* The indexer stake of staking/libs/Stakes.sol: a record of token amounts *)
(* and the block until which the locked ones thaw, with the operations the *)
(* library offers on it.  The block number is a parameter because the      *)
(* library reads block.number.                                             *)
(***************************************************************************)
EXTENDS TokenMath

Stake == [tokensStaked      : Nat,
          tokensAllocated   : Nat,
          tokensLocked      : Nat,
          tokensLockedUntil : Nat]

EmptyStake == [tokensStaked |-> 0, tokensAllocated |-> 0,
               tokensLocked |-> 0, tokensLockedUntil |-> 0]

Deposit(s, tokens)  == [s EXCEPT !.tokensStaked = @ + tokens]
Release(s, tokens)  == [s EXCEPT !.tokensStaked = @ - tokens]
StakeAllocate(s, tokens)   == [s EXCEPT !.tokensAllocated = @ + tokens]

\* Faulty variant: closing one allocation frees the stake of all of them.
StakeUnallocateAll(s, tokens) == [s EXCEPT !.tokensAllocated = 0]

StakeUnallocate(s, tokens) == [s EXCEPT !.tokensAllocated = @ - tokens]

TokensUsed(s) == s.tokensAllocated + s.tokensLocked

\* tokensSecureStake subtracts with a check: it reverts the transaction when
\* more tokens are locked than staked.
SecureStakeDefined(s) == s.tokensLocked <= s.tokensStaked
TokensSecureStake(s)  == s.tokensStaked - s.tokensLocked

TokensAvailableWithDelegation(s, delegatedCapacity) ==
    DiffOrZero(s.tokensStaked + delegatedCapacity, TokensUsed(s))

TokensAvailable(s) == TokensAvailableWithDelegation(s, 0)

\* Faulty variant: the block of the deadline is still too early.
TokensWithdrawableLate(s, block) ==
    IF s.tokensLockedUntil = 0 \/ block <= s.tokensLockedUntil
    THEN 0
    ELSE s.tokensLocked

TokensWithdrawable(s, block) ==
    IF s.tokensLockedUntil = 0 \/ block < s.tokensLockedUntil
    THEN 0
    ELSE s.tokensLocked

\* Further locked tokens thaw together with the earlier ones, after the average
\* of the two periods weighted by the amounts.
LockTokens(s, tokens, period, block) ==
    LET lockingPeriod == IF s.tokensLocked > 0
                         THEN WeightedAverage(DiffOrZero(s.tokensLockedUntil, block),
                                              s.tokensLocked, period, tokens)
                         ELSE period
    IN  [s EXCEPT !.tokensLocked = @ + tokens,
                  !.tokensLockedUntil = block + lockingPeriod]

UnlockTokens(s, tokens) ==
    [s EXCEPT !.tokensLocked = @ - tokens,
              !.tokensLockedUntil = IF s.tokensLocked = tokens THEN 0 ELSE @]

\* withdrawTokens: with nothing withdrawable the stake stays as it is.
WithdrawTokens(s, block) ==
    LET tokens == TokensWithdrawable(s, block)
    IN  IF tokens > 0 THEN Release(UnlockTokens(s, tokens), tokens) ELSE s
=============================================================================
