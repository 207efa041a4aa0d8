----------------------------- MODULE MCSFURoom -----------------------------
EXTENDS SFURoom, TLC

\* The clients that only watch and do not come back are alike.
Symmetry == Permutations(Clients \ (Senders \cup Rejoiners))
=============================================================================
