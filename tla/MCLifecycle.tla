------------------------------ MODULE MCLifecycle ------------------------------
\* An instance of Lifecycle: a probe beside a request, a pool of one connection.
EXTENDS Lifecycle
================================================================================
