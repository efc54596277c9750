----------------------------- MODULE MCTransfer -----------------------------
EXTENDS Transfer
\* Bodies on both sides of one buffer, and of two.
Buffers == {3, 4}
=============================================================================
