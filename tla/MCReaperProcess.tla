--------------------------- MODULE MCReaperProcess ---------------------------
\* Small instances of ReaperProcess for TLC.
EXTENDS ReaperProcess

\* Two jobs: the younger may be attempted twice, the older once.
MCTwoJobs == {1, 2}
MCYoungerHasTwo == [j \in {1, 2} |-> j]
=============================================================================
