--------------------------- MODULE MCReplicaServer ---------------------------
EXTENDS ReplicaServer

CONSTANTS x, y

\* A marker of two characters: a report of two may hold it whole, and two
\* reports may hold half of it each.
MCChars == {x, y}
MCMarker == <<x, y>>
=============================================================================
