--------------------------- MODULE MCEffectsWorker ---------------------------
\* Small instances of EffectsWorker: one tenant, every message an event of its own.
EXTENDS EffectsWorker, TLC

CONSTANTS t1

MCEventOf == [m \in Messages |-> m]
MCTenantOf == [m \in Messages |-> t1]
=============================================================================
