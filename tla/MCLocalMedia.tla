---------------------------- MODULE MCLocalMedia -----------------------------
EXTENDS LocalMedia, TLC

\* The other users are interchangeable.
Symmetry == Permutations(Peers)
=============================================================================
