----------------------------- MODULE GraphProxy -----------------------------
(***************************************************************************)
(* The upgradeable proxy, its admin contract and what an implementation    *)
(* does when it accepts a proxy.  An account of the chain is a record; its *)
(* address is a positive number, and NoAddress is the zero address.        *)
(***************************************************************************)
EXTENDS Naturals

NoAddress == 0

\* A deployed contract of some build, and a proxy waiting for impl.
Account(name, build) ==
  [is |-> name, build |-> build, admin |-> NoAddress, impl |-> NoAddress,
   pending |-> NoAddress]
Proxy(build, impl, admin) ==
  [Account("GraphProxy", build) EXCEPT !.admin = admin, !.pending = impl]
IsProxy(account) == account.is = "GraphProxy"

\* implementation() and admin() answer the proxy's admin; for anyone else they
\* are forwarded to the implementation, which knows no such function.
Answers(proxy, caller) == IsProxy(proxy) /\ proxy.admin = caller

\* setAdmin and upgradeTo, sent through the admin contract.
SetAdmin(proxy, admin) == [proxy EXCEPT !.admin = admin]
UpgradeTo(proxy, impl) == [proxy EXCEPT !.pending = impl]

\* acceptProxy and acceptProxyAndCall: the admin contract asks the
\* implementation, which asks the proxy; only the pending one may.
CanAccept(proxy, impl, admin) ==
  /\ Answers(proxy, admin)
  /\ impl # NoAddress /\ proxy.pending = impl
Accepted(proxy) == [proxy EXCEPT !.impl = proxy.pending, !.pending = NoAddress]
=============================================================================
