-------------------------- MODULE MCBurstObserved --------------------------
\* The burst bridge and its observer over the constants of MCBurst.
EXTENDS BurstObserved, MCBurst
=============================================================================
