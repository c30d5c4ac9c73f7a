-------------------------- MODULE MCSimpleObserved --------------------------
\* The single-beat bridge and its observer over the constants of MCSimple.
EXTENDS SimpleObserved, MCSimple
=============================================================================
