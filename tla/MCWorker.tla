------------------------------ MODULE MCWorker ------------------------------
\* Small instances of Worker for TLC.
EXTENDS Worker, TLC

\* Slots are interchangeable.
MCSymmetry == Permutations(Slots)
=============================================================================
