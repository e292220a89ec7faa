-------------------------- MODULE MCLeaseHandover --------------------------
\* LeaseHandover on a small instance: the successor and the one before it.
EXTENDS LeaseHandover
=============================================================================
