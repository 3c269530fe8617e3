--------------------------- MODULE MCQueueWakeup ---------------------------
\* Small instances of QueueWakeup for TLC.
EXTENDS QueueWakeup
=============================================================================
