--------------------------- MODULE MCPaymentHandler ---------------------------
(* Small instances of PaymentHandler for TLC. *)
EXTENDS PaymentHandler, TLC

Perms == Permutations(Handlers)

\* The in-memory store, and a store of another kind behind a gateway.
AnyDeployment ==
  [inMemory : {TRUE}, gateway : {FALSE}, settles : BOOLEAN]
    \cup [inMemory : {FALSE}, gateway : {TRUE}, settles : {FALSE}]
\* backend-kit: the default store, the platform's gateway, no callback.
BackendKit == [inMemory : {TRUE}, gateway : {TRUE}, settles : {FALSE}]
=============================================================================
