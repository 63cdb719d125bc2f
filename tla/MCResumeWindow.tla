----------------------------- MODULE MCResumeWindow -----------------------------
EXTENDS ResumeWindow, TLC

\* The processes are interchangeable.
Symmetry == Permutations(Processes)
=============================================================================
