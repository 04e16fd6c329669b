--------------------------- MODULE MCEffectsOutbox ---------------------------
\* A small instance of EffectsOutbox: one event of one tenant with two
\* destinations, so that one claim can meet both deliveries.
EXTENDS EffectsOutbox, TLC

CONSTANTS m1, m2, t1

MCEventOf == (m1 :> "e1") @@ (m2 :> "e1")
MCTenantOf == (m1 :> t1) @@ (m2 :> t1)
=============================================================================
