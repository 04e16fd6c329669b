----------------------- MODULE MCRegistrationCapacity -----------------------
\* Small instances of RegistrationCapacity: a lower and a higher paid tier, and
\* in some of them a free one.
EXTENDS RegistrationCapacity, TLC

CONSTANTS free, low, high

MCPrice == (free :> 0) @@ (low :> 1) @@ (high :> 2)
MCCode == (free :> "entry") @@ (low :> "entry") @@ (high :> "sponsor")
MCCapacity == (free :> 1) @@ (low :> 1) @@ (high :> 1)
MCCeiling == (free :> 1) @@ (low :> 2) @@ (high :> 1)

OfProducts(f) == [p \in Products |-> f[p]]
ProductPrice == OfProducts(MCPrice)
ProductCode == OfProducts(MCCode)
ProductCapacity == OfProducts(MCCapacity)
ProductCeiling == OfProducts(MCCeiling)
AllWaitlists == [p \in Products |-> TRUE]
NoWaitlists == [p \in Products |-> FALSE]
AccountSymmetry == Permutations(Accounts \ Minors)
=============================================================================
