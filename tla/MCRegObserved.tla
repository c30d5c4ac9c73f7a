--------------------------- MODULE MCRegObserved ---------------------------
\* The register block and its observer over the constants of MCReg.
EXTENDS RegObserved, MCReg
=============================================================================
