---------------------------- MODULE MCBufferPool ----------------------------
(***************************************************************************)
(* Instances of BufferPool for TLC: two frames for the pages of two files, *)
(* so that misses evict, and two clients, so that pages are shared.        *)
(***************************************************************************)
EXTENDS BufferPool, TLC

Files == {3, 4}
Symmetry == Permutations(Client)
=============================================================================
