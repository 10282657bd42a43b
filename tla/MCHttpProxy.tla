----------------------------- MODULE MCHttpProxy -----------------------------
EXTENDS HttpProxy, TLC

\* Sessions are interchangeable, and so are replicas.
Symmetry == Permutations(Sessions) \union Permutations(Replicas)
=============================================================================
