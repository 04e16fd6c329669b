----------------------------- MODULE MCPayments -----------------------------
(* Instances of Payments for TLC. *)
EXTENDS Payments

\* The exact amounts of both charges, each a wrong amount for the other one, and
\* a failure; or an event of a type that is not supported, and a foreign currency.
Local(type, amount) == [type |-> type, amount |-> amount, local |-> TRUE]
Successes == {Local("succeeded", 2), Local("succeeded", 1)}
SupportedMessages == Successes \union {Local("failed", 2)}
UnusualMessages ==
    Successes \union {Local("other", 2), [Local("succeeded", 2) EXCEPT !.local = FALSE]}
=============================================================================
