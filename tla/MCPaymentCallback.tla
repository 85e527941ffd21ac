-------------------------- MODULE MCPaymentCallback --------------------------
(* PaymentCallback for TLC: a tick is one minute.  Requests and callbacks  *)
(* are interchangeable, and so are orders.                                 *)
EXTENDS PaymentCallback, TLC

Symmetric == Permutations(Orders) \cup Permutations(Requests)
                \cup Permutations(Callbacks)
=============================================================================
