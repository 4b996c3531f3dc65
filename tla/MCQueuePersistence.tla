------------------------- MODULE MCQueuePersistence -------------------------
EXTENDS QueuePersistence
=============================================================================
