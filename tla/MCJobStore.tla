----------------------------- MODULE MCJobStore -----------------------------
\* Small instances of JobStore for TLC.
EXTENDS JobStore, TLC

\* One job with two attempts.
MCOneJob == {1}
MCTwoAttempts == [j \in {1} |-> 2]

\* Sessions, and workers, are interchangeable.
MCSymmetry == Permutations(Workers) \cup Permutations(Sessions)
=============================================================================
