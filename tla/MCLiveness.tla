----------------------------- MODULE MCLiveness ------------------------------
EXTENDS Liveness

\* Blocks whose mapping is one page with its header, and one that needs a
\* second page because of it.
MCSizes == {3, 4}
=============================================================================
