---- MODULE MCEngineClaim ----
\* Model checking of EngineClaim: daemons are interchangeable and so are jobs.
EXTENDS EngineClaim, TLC

ClaimSymmetry == Permutations(Births) \cup Permutations(Jobs)
====
