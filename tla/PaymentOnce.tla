----------------------------- MODULE PaymentOnce -----------------------------
(***************************************************************************)
(* What a payment session promises to the policies that ask for one: only  *)
(* a payment lets a guarded request through, and, where single use is      *)
(* promised, it lets one through and no more.                              *)
(***************************************************************************)
CONSTANT Requests    \* the requests that complete or verify the payment

VARIABLES
  once,       \* single use is promised
  receipts,   \* completions that signed a paid receipt
  granted     \* verifications that were accepted

vars == <<once, receipts, granted>>

Init ==
  /\ once \in BOOLEAN
  /\ receipts = {} /\ granted = {}

Pay(h) ==
  /\ receipts' = receipts \cup {h}
  /\ UNCHANGED <<once, granted>>

Grant(h) ==
  /\ receipts # {}
  /\ once => granted = {}
  /\ granted' = granted \cup {h}
  /\ UNCHANGED <<once, receipts>>

Next == \E h \in Requests : Pay(h) \/ Grant(h)

Spec == Init /\ [][Next]_vars
=============================================================================
