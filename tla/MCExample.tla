----------------------------- MODULE MCExample -----------------------------
EXTENDS Example
CONSTANTS c1, c2, c3
\* The suite, the test in it, the step in the test.
Chain == <<0, 1, 2>>
\* No object has an id of its own: these are never used.
OwnIds == <<c1, c2, c3>>
=============================================================================
