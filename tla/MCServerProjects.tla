-------------------------- MODULE MCServerProjects --------------------------
\* Three projects for two names below the projects directory, so that lashd
\* runs into its own names, and one directory outside of it.
EXTENDS ServerProjects

CONSTANTS p1, p2, p3, Outside
=============================================================================
