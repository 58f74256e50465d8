----------------------------- MODULE MCActionLog -----------------------------
\* Small instances of ActionLog; writers are interchangeable.
EXTENDS ActionLog

MCSymmetry == Permutations(Writers)
=============================================================================
