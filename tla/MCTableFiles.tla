---------------------------- MODULE MCTableFiles ----------------------------
\* Two tables, the descriptors open(2) returns for them, and two frames.
EXTENDS TableFiles, TLC

Files == {3, 4}
Symmetry == Permutations(Path)
=============================================================================
