------------------------------ MODULE MCAuthTokens ------------------------------
\* Instances of AuthTokens: two requests that overlap, lifetimes of seconds.
EXTENDS AuthTokens, TLC

CONSTANTS r1, r2

Requests == {r1, r2}
Symmetry == Permutations(Requests)
================================================================================
