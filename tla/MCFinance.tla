----------------------------- MODULE MCFinance -----------------------------
(* Instance of Finance for TLC. *)
EXTENDS Finance, TLC

CONSTANTS r1, r2

\* The payments of both registrations; for the first also a refund of a part,
\* a dispute of a part, and one that does not match the payment.
Local(r, type, amount) == [registration |-> r, type |-> type, amount |-> amount, local |-> TRUE]
AllMessages ==
    {Local(r1, "succeeded", 2), Local(r2, "succeeded", 2), Local(r1, "refunded", 1),
     Local(r1, "disputed", 1), Local(r1, "disputed", 3)}
Interchangeable == Permutations(Staff)
=============================================================================
