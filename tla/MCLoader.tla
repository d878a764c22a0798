------------------------------ MODULE MCLoader ------------------------------
\* Two clients, one of which runs in a terminal, and two pids.
EXTENDS Loader

CONSTANTS a, b, p, q
=============================================================================
