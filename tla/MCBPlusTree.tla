---------------------------- MODULE MCBPlusTree -----------------------------
\* Nodes of at most three keys, and keys enough for a tree of three levels.
EXTENDS BPlusTree

Keys == 1..9
=============================================================================
