----------------------------- MODULE MCConnectLife -----------------------------
(* ConnectLife with interchangeable blocks, for its safety properties.     *)
EXTENDS ConnectLife
Symmetry == Permutations(Conns)
=============================================================================
