-------------------------- MODULE MCRemoteStreams --------------------------
(* RemoteStreams for TLC: users and stream IDs are interchangeable. *)
EXTENDS RemoteStreams, TLC

\* Two lines from the SFU, and one from each user in a mesh.
MCLines == ({Server} \X {1, 2}) \cup (Users \X {1})

Symmetry == Permutations(Users) \cup Permutations(StreamIds)
=============================================================================
