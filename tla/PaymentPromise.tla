--------------------------- MODULE PaymentPromise ---------------------------
(***************************************************************************)
(* What payment reconciliation promises about the events of a payment      *)
(* provider: each is judged once, and a charge is served exactly when one  *)
(* event is credited for it, never twice.  An event that is not credited   *)
(* is flagged for the staff, or merely noted if it reports no payment.     *)
(***************************************************************************)
CONSTANTS
    Events,         \* identifiers of provider events
    Charges         \* what can be paid for

VARIABLES
    claims,         \* events that report a payment
    verdict,        \* event -> "none", "credited", "flagged" or "noted"
    served          \* charge -> whether the payer has got what the charge is for

PromiseInit ==
    /\ claims = {}
    /\ verdict = [e \in Events |-> "none"]
    /\ served \in [Charges -> BOOLEAN]

Claim(e) ==
    /\ verdict[e] = "none"
    /\ claims' = claims \union {e}
    /\ UNCHANGED <<verdict, served>>

Judge(e, v) ==
    /\ verdict[e] = "none"
    /\ verdict' = [verdict EXCEPT ![e] = v]
    /\ UNCHANGED claims

Credit(e, c) ==
    /\ Judge(e, "credited")
    /\ e \in claims
    /\ ~ served[c]
    /\ served' = [served EXCEPT ![c] = TRUE]

Flag(e) == Judge(e, "flagged") /\ UNCHANGED served

Note(e) == Judge(e, "noted") /\ e \notin claims /\ UNCHANGED served

PromiseNext ==
    \E e \in Events : Claim(e) \/ Flag(e) \/ Note(e) \/ \E c \in Charges : Credit(e, c)

PromiseSpec == PromiseInit /\ [][PromiseNext]_<<claims, verdict, served>>
=============================================================================
