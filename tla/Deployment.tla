----------------------------- MODULE Deployment -----------------------------
(***************************************************************************)
(* `cli migrate`, `cli deploy` and `cli proxy`: the contracts of the       *)
(* configuration are deployed in a fixed order, each recorded in the       *)
(* address book as it is deployed, and the calls the configuration asks    *)
(* for are made at the end.  A process may end early at any step and run   *)
(* again; artifacts may be rebuilt between runs; upgrades run beside it.   *)
(*                                                                         *)
(* The wallet and the multisig act as the one governor.  A transaction is  *)
(* sent and mined in one step; the process may die before it hears of it.  *)
(* One process at a time writes the address book.                          *)
(***************************************************************************)
EXTENDS Sequences, FiniteSets, GraphProxy

CONSTANTS Order,          \* allContracts: the names, in the order of deployment
          Config,         \* graph.config.yml: name |-> [proxy, linked, init, calls]
          Upgraders,      \* the `proxy upgrade` processes
          MaxMigrations,  \* bound: plain runs of migrate
          MaxEvents      \* bound: anything else that happens, all kinds together

Names == {Order[i] : i \in DOMAIN Order}
Artifacts == Names \union {"GraphProxy"}

\* init holds the contracts an init parameter takes the address of, and a call
\* has the contracts its parameters refer to.
ASSUME DeploymentAssumption ==
  /\ Order \in Seq(STRING)
  /\ \A i, j \in DOMAIN Order : Order[i] = Order[j] => i = j
  /\ "GraphProxyAdmin" \in Names /\ {"GraphProxy", "library"} \cap Names = {}
  /\ \A n \in Names :
       /\ Config[n].proxy \in BOOLEAN /\ Config[n].linked \in BOOLEAN
       /\ Config[n].init \subseteq Names
       /\ Config[n].calls \in Seq([refs : SUBSET Names])
  /\ IsFiniteSet(Upgraders) /\ MaxMigrations \in Nat /\ MaxEvents \in Nat

VARIABLES chain,   \* the accounts deployed so far: address |-> account
          called,  \* configuration calls made: [to, fn, args]
          book,    \* the address book file: name |-> entry
          build,   \* artifact |-> the build on disk
          handed,  \* transactions printed for the multisig, which may send them
          process, \* the process of migrate or deploy
          up,      \* upgrader |-> its process
          events   \* how often each kind of thing happened
deploymentVars == <<chain, called, book, build, handed, process, up, events>>

\* An address book entry; creation is the hash of its creation code.
BookEntry(address, creation, proxy, impl) ==
  [address |-> address, creation |-> creation, proxy |-> proxy, impl |-> impl]
NoEntry == BookEntry(NoAddress, <<"", 0>>, FALSE, NoAddress)
Creation(artifact) == <<artifact, build[artifact]>>
Known(b, n) == b[n].address # NoAddress

NoProcess ==
  [pc |-> "off", cmd |-> "", todo |-> <<>>, force |-> FALSE, buildTx |-> FALSE,
   book |-> [n \in Names |-> NoEntry], impl |-> NoAddress, proxy |-> NoAddress,
   pending |-> <<>>, next |-> 1]
NoUpgrade ==
  [pc |-> "off", name |-> Order[1], proxy |-> NoAddress, impl |-> NoAddress,
   admin |-> NoAddress]

DeploymentInit ==
  /\ chain = <<>> /\ called = {} /\ handed = {}
  /\ book = [n \in Names |-> NoEntry]
  /\ build = [a \in Artifacts |-> 1]
  /\ process = NoProcess
  /\ up = [u \in Upgraders |-> NoUpgrade]
  /\ events = [runs |-> 0, single |-> 0, forced |-> 0, deploys |-> 0, kills |-> 0,
               builds |-> 0, admins |-> 0, upgrades |-> 0]

-----------------------------------------------------------------------------
(* The name the process works on, and what it does with it.               *)

Name == Head(process.todo)
Migrates == process.cmd = "migrate"
Saves == process.cmd \in {"migrate", "deploy-save", "deploy-with-proxy-save"}
Wraps == IF Migrates THEN Config[Name].proxy
         ELSE process.cmd \in {"deploy-with-proxy", "deploy-with-proxy-save"}
AdminAddress == process.book["GraphProxyAdmin"].address

\* isContractDeployed: the entry's address has code, and the artifact did not
\* change since.  Behind a proxy the artifact looked at is GraphProxy.
UpToDate(n) ==
  /\ Known(process.book, n)
  /\ process.book[n].creation =
       Creation(IF process.book[n].proxy THEN "GraphProxy" ELSE n)

\* The bytecode of an artifact with libraries to link is not a hex string, and
\* hashing it throws.
HashThrows(n) == Known(process.book, n) /\ ~process.book[n].proxy /\ Config[n].linked

\* getContractConfig reads an attribute of an entry that is not there; the
\* proxy admin's entry is asked for before its implementation is deployed.
ConfigThrows(n) == \/ \E r \in Config[n].init : ~Known(process.book, r)
                   \/ Wraps /\ ~Known(process.book, "GraphProxyAdmin")

FirstStep(n) == IF Config[n].linked THEN "library" ELSE "contract"

\* A deployment appends an account to the chain.
Deployed(account) == chain' = Append(chain, account)
Newest == Len(chain) + 1

\* setEntry changes the process's copy of the book and writes all of it.
SetEntry(n, entry) == [process.book EXCEPT ![n] = entry]

\* The contract is done with: its calls are put off to the end, addressed to
\* the contract, which stands behind the proxy if there is one.
TargetBare == process.impl
Target == IF process.proxy # NoAddress THEN process.proxy ELSE process.impl
Calls == IF Migrates
         THEN [i \in DOMAIN Config[Name].calls |->
                 [of |-> Name, fn |-> i, to |-> Target, refs |-> Config[Name].calls[i].refs]]
         ELSE <<>>
NextContract(r) ==
  [r EXCEPT !.pc = IF Len(r.todo) = 1 THEN "calls" ELSE "check",
            !.todo = Tail(r.todo), !.impl = NoAddress, !.proxy = NoAddress]

Throw == process' = NoProcess

\* One more event of a kind: a run with -n, one with --force, a deploy, an early end,
\* a build, an upgrade or a change of admin.
Happens(kind) ==
  /\ events.single + events.forced + events.deploys + events.kills + events.builds
       + events.admins + events.upgrades < MaxEvents
  /\ events' = [events EXCEPT ![kind] = @ + 1]

-----------------------------------------------------------------------------
(* migrate and deploy                                                      *)

\* loadEnv reads the address book; -n names a single contract.
StartMigrate(todo, force) ==
  /\ process.pc = "off"
  /\ IF force THEN Happens("forced")
     ELSE IF todo # Order THEN Happens("single")
     ELSE events.runs < MaxMigrations /\ events' = [events EXCEPT !.runs = @ + 1]
  /\ process' = [NoProcess EXCEPT !.pc = "check", !.cmd = "migrate", !.todo = todo,
                                  !.force = force, !.book = book]
  /\ UNCHANGED <<chain, called, book, build, handed, up>>

StartDeploy(cmd, n, buildTx) ==
  /\ process.pc = "off"
  /\ cmd \in {"deploy-with-proxy", "deploy-with-proxy-save"} =>
       Known(book, "GraphProxyAdmin")
  /\ Happens("deploys")
  /\ process' = [NoProcess EXCEPT !.pc = FirstStep(n), !.cmd = cmd, !.todo = <<n>>,
                                  !.buildTx = buildTx, !.book = book]
  /\ UNCHANGED <<chain, called, book, build, handed, up>>

Check ==
  /\ process.pc = "check"
  /\ \/ HashThrows(Name) /\ Throw
     \/ /\ ~HashThrows(Name)
        /\ UpToDate(Name) /\ ~process.force
        /\ process' = NextContract(process)
     \/ /\ ~HashThrows(Name)
        /\ ~UpToDate(Name) \/ process.force
        /\ IF ConfigThrows(Name) THEN Throw
           ELSE process' = [process EXCEPT !.pc = FirstStep(Name)]
  /\ UNCHANGED <<chain, called, book, build, handed, up, events>>

\* deployContract deploys and links the libraries of the contract first, anew
\* each time.
DeployLibrary ==
  /\ process.pc = "library"
  /\ Deployed(Account("library", 1))
  /\ process' = [process EXCEPT !.pc = "contract"]
  /\ UNCHANGED <<called, book, build, handed, up, events>>

DeployContract ==
  /\ process.pc = "contract"
  /\ Deployed(Account(Name, build[Name]))
  /\ process' = [process EXCEPT !.impl = Newest,
                                !.pc = IF Saves THEN "save"
                                       ELSE IF Wraps THEN "wrap" ELSE "calls"]
  /\ UNCHANGED <<called, book, build, handed, up, events>>

\* deployContractAndSave: also the implementation of a proxy gets an entry,
\* under the contract's own name, until the proxy's entry takes its place.
SaveContract ==
  /\ process.pc = "save"
  /\ LET saved == SetEntry(Name, BookEntry(process.impl, Creation(Name), FALSE, NoAddress))
     IN /\ book' = saved
        /\ process' = IF Wraps THEN [process EXCEPT !.pc = "wrap", !.book = saved]
                      ELSE NextContract([process EXCEPT !.book = saved,
                                                        !.pending = @ \o Calls])
  /\ UNCHANGED <<chain, called, build, handed, up, events>>

\* deployProxy.
AfterProxySaving == "saveproxy"
AfterProxy == IF process.buildTx THEN "print" ELSE "accept"
DeployProxy ==
  /\ process.pc = "wrap"
  /\ Deployed(Proxy(build["GraphProxy"], process.impl, AdminAddress))
  /\ process' = [process EXCEPT !.proxy = Newest, !.pc = AfterProxy]
  /\ UNCHANGED <<called, book, build, handed, up, events>>

\* The implementation accepts the proxy, or the transaction is printed for the
\* multisig.  Nobody else knows of a new proxy, so the acceptance cannot fail.
AcceptProxy ==
  /\ process.pc = "accept"
  /\ CanAccept(chain[process.proxy], process.impl, AdminAddress)
  /\ chain' = [chain EXCEPT ![process.proxy] = Accepted(@)]
  /\ process' = [process EXCEPT !.pc = IF Saves THEN "saveproxy" ELSE "calls"]
  /\ UNCHANGED <<called, book, build, handed, up, events>>
PrintAccept ==
  /\ process.pc = "print"
  /\ handed' = handed \union
       {[fn |-> "acceptProxy", proxy |-> process.proxy, impl |-> process.impl,
         admin |-> AdminAddress]}
  /\ process' = [process EXCEPT !.pc = IF Saves THEN "saveproxy" ELSE "calls"]
  /\ UNCHANGED <<chain, called, book, build, up, events>>

\* deployContractWithProxyAndSave overwrites the entry of the implementation.
ProxyEntryHashingContract == BookEntry(process.proxy, Creation(Name), TRUE, process.impl)
ProxyEntryUnmarked == BookEntry(process.proxy, Creation(Name), FALSE, process.impl)
ProxyEntry == BookEntry(process.proxy, Creation("GraphProxy"), TRUE, process.impl)
SaveProxy ==
  /\ process.pc = "saveproxy"
  /\ LET saved == SetEntry(Name, ProxyEntry)
     IN /\ book' = saved
        /\ process' = NextContract([process EXCEPT !.book = saved, !.pending = @ \o Calls])
  /\ UNCHANGED <<chain, called, build, handed, up, events>>

\* One configuration call, its parameters read from the book now.
Args(call) == {<<r, process.book[r].address>> : r \in call.refs}
Call ==
  /\ process.pc = "calls" /\ process.next <= Len(process.pending)
  /\ LET call == process.pending[process.next]
     IN IF \E r \in call.refs : ~Known(process.book, r)
        THEN Throw /\ UNCHANGED called
        ELSE /\ called' = called \union
                  {[of |-> call.of, fn |-> call.fn, to |-> call.to, args |-> Args(call)]}
             /\ process' = [process EXCEPT !.next = @ + 1]
  /\ UNCHANGED <<chain, book, build, handed, up, events>>

\* "All done!"
Done == process.pc = "calls" /\ process.next > Len(process.pending)
EndProcess ==
  /\ Done
  /\ process' = NoProcess
  /\ UNCHANGED <<chain, called, book, build, handed, up, events>>

\* The process ends early, killed or by an error that nobody catches: a transaction
\* that reverts, such as the acceptance of the proxy, or a lost connection.
KillProcess ==
  /\ process.pc # "off"
  /\ Happens("kills")
  /\ process' = NoProcess
  /\ UNCHANGED <<chain, called, book, build, handed, up>>

\* An artifact is compiled anew, while nothing that reads it runs.
Rebuild(a) ==
  /\ process.pc = "off"
  /\ \A u \in Upgraders : up[u].pc = "off"
  /\ Happens("builds")
  /\ build' = [build EXCEPT ![a] = @ + 1]
  /\ UNCHANGED <<chain, called, book, handed, process, up>>

-----------------------------------------------------------------------------
(* proxy upgrade, proxy set-admin, and the multisig                       *)

\* upgradeProxy up to its question to the proxy: the book knows the contract
\* and its proxy, and the new implementation is not the current one.
StartUpgrade(u, n, impl, buildTx) ==
  LET proxy == book[n].address
      admin == book["GraphProxyAdmin"].address
      tx(fn) == [fn |-> fn, proxy |-> proxy, impl |-> impl, admin |-> admin]
  IN /\ up[u].pc = "off"
     /\ Known(book, n) /\ book[n].proxy
     /\ Answers(chain[proxy], admin)
     /\ chain[proxy].impl # impl
     /\ Happens("upgrades")
     /\ IF buildTx
        THEN handed' = handed \union {tx("upgrade"), tx("acceptProxy")} /\ UNCHANGED up
        ELSE /\ up' = [up EXCEPT ![u] = [pc |-> "upgrade", name |-> n, proxy |-> proxy,
                                         impl |-> impl, admin |-> admin]]
             /\ UNCHANGED handed
     /\ UNCHANGED <<chain, called, book, build, process>>

\* upgrade(): a failed one ends the command.
UpgradeStatus(u) == Answers(chain[up[u].proxy], up[u].admin)
AfterUpgradeReturning == "off"
AfterUpgrade == "accept"
Upgrade(u) ==
  /\ up[u].pc = "upgrade"
  /\ IF UpgradeStatus(u)
     THEN /\ chain' = [chain EXCEPT ![up[u].proxy] = UpgradeTo(@, up[u].impl)]
          /\ up' = [up EXCEPT ![u].pc = AfterUpgrade]
     ELSE up' = [up EXCEPT ![u] = NoUpgrade] /\ UNCHANGED chain
  /\ UNCHANGED <<called, book, build, handed, process, events>>

\* acceptProxy() or acceptProxyAndCall(): nothing is done about a failed one,
\* and the address book keeps naming the old implementation.
Accept(u) ==
  /\ up[u].pc = "accept"
  /\ chain' = IF CanAccept(chain[up[u].proxy], up[u].impl, up[u].admin)
              THEN [chain EXCEPT ![up[u].proxy] = Accepted(@)] ELSE chain
  /\ up' = [up EXCEPT ![u] = NoUpgrade]
  /\ UNCHANGED <<called, book, build, handed, process, events>>

KillUpgrade(u) ==
  /\ up[u].pc # "off"
  /\ Happens("kills")
  /\ up' = [up EXCEPT ![u] = NoUpgrade]
  /\ UNCHANGED <<chain, called, book, build, handed, process>>

SetProxyAdmin(n, admin) ==
  /\ Happens("admins")
  /\ Known(book, n) /\ book[n].proxy
  /\ Answers(chain[book[n].address], book["GraphProxyAdmin"].address)
  /\ chain' = [chain EXCEPT ![book[n].address] = SetAdmin(@, admin)]
  /\ UNCHANGED <<called, book, build, handed, process, up>>

\* The multisig sends what it was handed, in any order.
SendHanded(tx) ==
  /\ chain' = IF tx.fn = "upgrade" /\ Answers(chain[tx.proxy], tx.admin)
              THEN [chain EXCEPT ![tx.proxy] = UpgradeTo(@, tx.impl)]
              ELSE IF tx.fn = "acceptProxy" /\ CanAccept(chain[tx.proxy], tx.impl, tx.admin)
              THEN [chain EXCEPT ![tx.proxy] = Accepted(@)] ELSE chain
  /\ UNCHANGED <<called, book, build, handed, process, up, events>>

-----------------------------------------------------------------------------
Addresses(n) == {a \in DOMAIN chain : chain[a].is = n}

SomeStart ==
  \/ \E force \in BOOLEAN :
       StartMigrate(Order, force) \/ \E n \in Names : StartMigrate(<<n>>, force)
  \/ \E n \in Names :
       \/ \E cmd \in {"deploy", "deploy-save"} : StartDeploy(cmd, n, FALSE)
       \/ \E cmd \in {"deploy-with-proxy", "deploy-with-proxy-save"}, b \in BOOLEAN :
            Config[n].proxy /\ StartDeploy(cmd, n, b)

MigrateStep == \/ Check \/ DeployLibrary \/ DeployContract \/ SaveContract
               \/ DeployProxy \/ AcceptProxy \/ PrintAccept
               \/ SaveProxy \/ Call \/ EndProcess

UpgradeStep(u) ==
  \/ \E n \in Names, b \in BOOLEAN :
       \E impl \in Addresses(n) : StartUpgrade(u, n, impl, b)
  \/ Upgrade(u) \/ Accept(u) \/ KillUpgrade(u)

DeploymentNext ==
  \/ SomeStart \/ MigrateStep \/ KillProcess
  \/ \E a \in Artifacts : Rebuild(a)
  \/ \E u \in Upgraders : UpgradeStep(u)
  \/ \E n \in Names : \E a \in Addresses("GraphProxyAdmin") : SetProxyAdmin(n, a)
  \/ \E tx \in handed : SendHanded(tx)

DeploymentSpec == DeploymentInit /\ [][DeploymentNext]_deploymentVars
=============================================================================
