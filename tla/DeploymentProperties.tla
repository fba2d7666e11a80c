------------------------ MODULE DeploymentProperties ------------------------
(***************************************************************************)
(* What deployments keep when processes die half-way and upgrades overlap, *)
(* and how far the address book may be from what was asked for.            *)
(***************************************************************************)
EXTENDS Deployment, SequencesExt

\* A process between the entry of an implementation and that of its proxy, or
\* between a proxy and its acceptance.
Wrapping == process.pc \in {"wrap", "accept", "print", "saveproxy"}
One(condition) == IF condition THEN 1 ELSE 0

\* A proxy in the address book runs an implementation, or its acceptance was
\* printed for the multisig (network.ts:258): a process that ends on the way never
\* leaves an entry whose proxy forwards to nothing.
SavedProxiesRun ==
  \A n \in Names :
    Known(book, n) /\ book[n].proxy =>
      \/ chain[book[n].address].impl # NoAddress
      \/ \E tx \in handed : tx.proxy = book[n].address

\* DEPLOYMENT.md:21 "Check if contracts were already deployed and skip them":
\* a contract is deployed once for each build of it or of its proxy, and again
\* only for a --force, a `deploy`, or a process that ended before it saved the entry.
NoNeedlessDeployments ==
  \A n \in Names :
    Cardinality(Addresses(n)) <=
      build[n] + One(Config[n].proxy) * (build["GraphProxy"] - 1)
      + events.forced + events.deploys + events.kills

\* A contract configured with a proxy whose entry is a bare implementation.  The
\* next migrate takes it for deployed (network.ts:60), or throws if it is linked,
\* so only a process that ended early or a deploy-save may leave one.
Stranded == {n \in Names : Config[n].proxy /\ Known(book, n) /\ ~book[n].proxy}
StrandedBounded ==
  Cardinality(Stranded) <= events.kills + events.deploys + One(Wrapping)

\* When a migrate is done, every call it put off (migrate.ts:97) was made to the
\* address the book gives the contract, with the addresses it gives the others,
\* those deployed after the contract included.
DoneCallsReachTheBook ==
  Done => \A call \in ToSet(process.pending) :
            [of |-> call.of, fn |-> call.fn, to |-> book[call.of].address,
             args |-> {<<r, book[r].address>> : r \in call.refs}] \in called

\* A proxy is left with an implementation it has not accepted only while its
\* upgrade runs, for the multisig, by a process that ended early, or when its admin was
\* changed under the upgrade: overlapping upgrades of one proxy sort themselves
\* out, the one that was overtaken failing silently (upgrade.ts:116).
Waiting == {a \in DOMAIN chain : /\ IsProxy(chain[a]) /\ chain[a].pending # NoAddress
                                 /\ \A tx \in handed : tx.proxy # a}
PendingIsExplained ==
  Cardinality(Waiting) <=
    Cardinality({u \in Upgraders : up[u].pc = "accept"}) + One(Wrapping)
    + events.kills + events.admins

\* DEPLOYMENT.md:65 says the calls of the configuration "will be set at the end
\* of all the contracts deployment".  It does not hold: a contract deployed by
\* an earlier run that ended before its calls is skipped, and so are they.
DoneIsConfigured ==
  Done /\ process.cmd = "migrate" /\ (\A n \in Names : Known(book, n)) =>
    \A n \in Names : \A i \in DOMAIN Config[n].calls :
      \E c \in called : c.of = n /\ c.fn = i
=============================================================================
