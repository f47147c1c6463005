----------------------------- MODULE MCRPCStore ------------------------------
(* Small instances of RPCStore for TLC.                                     *)
EXTENDS RPCStore, TLC

Symmetry == Permutations(Thread) \cup Permutations(Addr)

=============================================================================
