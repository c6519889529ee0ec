--------------------------- MODULE MCDistributedLock ---------------------------
\* Instances of DistributedLock: three workers on one job.
EXTENDS DistributedLock
================================================================================
