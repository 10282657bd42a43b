-------------------------- MODULE MCHeadController --------------------------
EXTENDS HeadController

\* The clock moves on between two snapshots, as time.time_ns() does while
\* nobody adjusts it.
OneStep == {1}

\* Or it is adjusted in between, and a snapshot may look no newer than the one
\* before it, or older.
AnyStep == {-1, 1}
=============================================================================
