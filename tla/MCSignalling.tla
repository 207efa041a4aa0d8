---------------------------- MODULE MCSignalling ----------------------------
EXTENDS Signalling, TLC

\* Tracks and candidates are interchangeable.
Symmetry == Permutations(Tracks) \cup Permutations(Candidates)
=============================================================================
