----------------------------- MODULE BPlusTree ------------------------------
(***************************************************************************)
(* IxIndexHandle and IxNodeHandle: the B+ tree of one unique index, and    *)
(* IxScan over its leaves.                                                 *)
(*                                                                         *)
(* Nodes are pages of the index file, named by page number; what fetch_node*)
(* returns is what PageStore promises.  Keys are numbers in the order of   *)
(* ix_compare, and the rid stored under a key is told by RidOf.  Positions *)
(* count from 0, as in the code; the i-th key of a node is keys[i + 1].    *)
(***************************************************************************)
EXTENDS Integers, SequencesExt

CONSTANTS
  btree_order_,   \* IxFileHdr: keys a node may keep
  Key,            \* the keys inserted and searched
  MaxNodes,       \* bound: pages of the index file
  MaxDeletes      \* bound: delete_entry calls

ASSUME TreeAssumption ==
  /\ btree_order_ \in Nat /\ btree_order_ > 2   \* the assertion of create_index
  /\ Key \subseteq Nat
  /\ {MaxNodes, MaxDeletes} \subseteq Nat

VARIABLES
  tree,      \* the file header and the nodes
  entries,   \* the keys the index should hold
  deletes    \* delete_entry calls so far

vars == <<tree, entries, deletes>>

IX_NO_PAGE == -1
IX_LEAF_HEADER_PAGE == 1
IX_INIT_ROOT_PAGE == 2
IX_INIT_NUM_PAGES == 3
max_size == btree_order_ + 1
RidOf(k) == 100 + k

EmptyLeaf == [is_leaf |-> TRUE, parent |-> IX_NO_PAGE,
              prev_leaf |-> IX_LEAF_HEADER_PAGE, next_leaf |-> IX_LEAF_HEADER_PAGE,
              keys |-> << >>, rids |-> << >>]

\* IxManager::create_index: the root is an empty leaf.
Init ==
  /\ tree = [root_page |-> IX_INIT_ROOT_PAGE, num_pages |-> IX_INIT_NUM_PAGES,
             first_leaf |-> IX_INIT_ROOT_PAGE, last_leaf |-> IX_INIT_ROOT_PAGE,
             node |-> (IX_INIT_ROOT_PAGE :> EmptyLeaf)]
  /\ entries = {}
  /\ deletes = 0
-----------------------------------------------------------------------------
(***************************************************************************)
(* Positions in a node, by the binary searches of the code.  Bisect finds  *)
(* the first position whose key is not in the set before.                  *)
(***************************************************************************)
Bisect(keys, before) ==
  LET RECURSIVE Narrow(_, _)
      Narrow(left, right) ==
        LET mid == (left + right) \div 2 IN
        IF left >= right THEN left
        ELSE IF keys[mid + 1] \in before THEN Narrow(mid + 1, right)
        ELSE Narrow(left, mid)
  IN  Narrow(0, Len(keys))

lower_bound(keys, target) == Bisect(keys, {k \in Range(keys) : k < target})

upper_bound(keys, target) == Bisect(keys, {k \in Range(keys) : k <= target})

Holds(n, k) ==
  LET pos == lower_bound(n.keys, k) IN pos < Len(n.keys) /\ n.keys[pos + 1] = k

leaf_lookup(n, k) == n.rids[lower_bound(n.keys, k) + 1]

\* Mutant: the child is taken by lower_bound.
LookupLower(n, k) == n.rids[Max({lower_bound(n.keys, k) - 1, 0}) + 1]

internal_lookup(n, k) == n.rids[Max({upper_bound(n.keys, k) - 1, 0}) + 1]

insert_pair(n, pos, k, rid) ==
  [n EXCEPT !.keys = InsertAt(@, pos + 1, k), !.rids = InsertAt(@, pos + 1, rid)]

erase_pair(n, pos) ==
  [n EXCEPT !.keys = RemoveAt(@, pos + 1), !.rids = RemoveAt(@, pos + 1)]

find_child(n, p) == (CHOOSE i \in DOMAIN n.rids : n.rids[i] = p) - 1
-----------------------------------------------------------------------------
find_leaf_page(T, k) ==
  LET RECURSIVE Descend(_)
      Descend(p) == IF T.node[p].is_leaf THEN p
                    ELSE Descend(internal_lookup(T.node[p], k))
  IN  Descend(T.root_page)

get_value(T, k) ==
  LET leaf == T.node[find_leaf_page(T, k)] IN
  IF Holds(leaf, k) THEN {leaf_lookup(leaf, k)} ELSE {}

\* Mutant: the children that move keep their old parent.
NoAdoption(nodes, children, q) == nodes

\* maintain_child for every child of the new node q.
Adopt(nodes, children, q) ==
  [m \in DOMAIN nodes |->
     IF m \in children THEN [nodes[m] EXCEPT !.parent = q] ELSE nodes[m]]

\* Mutant: the leaf after the new one keeps its back link.
NoLinkBack(nodes, next, q) == nodes

LinkBack(nodes, next, q) ==
  [m \in DOMAIN nodes |->
     IF m = next THEN [nodes[m] EXCEPT !.prev_leaf = q] ELSE nodes[m]]

(***************************************************************************)
(* split: the upper half of node p moves to a new node, the next page of   *)
(* the file, which follows p in the chain of leaves or adopts the children *)
(* it takes along.                                                         *)
(***************************************************************************)
split(T, p) ==
  LET n == T.node[p]
      q == T.num_pages
      at == Len(n.keys) \div 2
      upper == [n EXCEPT !.keys = SubSeq(@, at + 1, Len(@)),
                         !.rids = SubSeq(@, at + 1, Len(@)),
                         !.prev_leaf = IF n.is_leaf THEN p ELSE 0,
                         !.next_leaf = IF n.is_leaf THEN @ ELSE 0]
      lower == [n EXCEPT !.keys = SubSeq(@, 1, at), !.rids = SubSeq(@, 1, at),
                         !.next_leaf = IF n.is_leaf THEN q ELSE @]
      others == IF n.is_leaf THEN LinkBack(T.node, n.next_leaf, q)
                             ELSE Adopt(T.node, Range(upper.rids), q)
  IN  [T EXCEPT !.num_pages = q + 1,
                !.last_leaf = IF @ = p THEN q ELSE @,
                !.node = (q :> upper) @@ (p :> lower) @@ others]

\* A root that splits: a new root over its two halves.
NewRoot(T, old, new) ==
  LET r == T.num_pages
      root == [is_leaf |-> FALSE, parent |-> IX_NO_PAGE,
               prev_leaf |-> IX_NO_PAGE, next_leaf |-> IX_NO_PAGE,
               keys |-> <<T.node[old].keys[1], T.node[new].keys[1]>>,
               rids |-> <<old, new>>]
  IN  [T EXCEPT !.num_pages = r + 1, !.root_page = r,
                !.node = (r :> root) @@ Adopt(@, {old, new}, r)]

RECURSIVE insert_into_parent(_, _, _)
insert_into_parent(T, old, new) ==
  LET p == T.node[old].parent
      parent == insert_pair(T.node[p], find_child(T.node[p], old) + 1,
                            T.node[new].keys[1], new)
      T1 == [T EXCEPT !.node[p] = parent, !.node[new].parent = p]
  IN
  IF p = IX_NO_PAGE THEN NewRoot(T, old, new)
  ELSE IF Len(parent.keys) >= max_size
    THEN insert_into_parent(split(T1, p), p, T1.num_pages)
  ELSE T1

\* The first key of a node is copied to its parent, as far up as it differs.
RECURSIVE maintain_parent(_, _)
maintain_parent(T, c) ==
  LET n == T.node[c]
      p == n.parent
      rank == find_child(T.node[p], c)
  IN
  IF p = IX_NO_PAGE THEN T
  ELSE IF n.keys = << >> \/ T.node[p].keys[rank + 1] = n.keys[1] THEN T
  ELSE maintain_parent([T EXCEPT !.node[p].keys[rank + 1] = n.keys[1]], p)

InsertEntry(T, k) ==
  LET p == find_leaf_page(T, k)
      leaf == insert_pair(T.node[p], lower_bound(T.node[p].keys, k), k, RidOf(k))
      T1 == [T EXCEPT !.node[p] = leaf]
  IN
  IF Len(leaf.keys) >= max_size
    THEN insert_into_parent(split(T1, p), p, T1.num_pages)
    ELSE maintain_parent(T1, p)

DeleteEntry(T, k) ==
  LET p == find_leaf_page(T, k)
      pos == lower_bound(T.node[p].keys, k)
      leaf == erase_pair(T.node[p], pos)
      T1 == [T EXCEPT !.node[p] = leaf]
  IN
  IF ~Holds(T.node[p], k) THEN T
  ELSE IF leaf.keys # << >> /\ pos = 0 THEN maintain_parent(T1, p)
  ELSE T1
-----------------------------------------------------------------------------
\* A duplicate key throws InternalError and changes nothing.
insert_entry(k) ==
  /\ get_value(tree, k) = {}
  /\ InsertEntry(tree, k).num_pages <= IX_INIT_ROOT_PAGE + MaxNodes
  /\ tree' = InsertEntry(tree, k)
  /\ entries' = entries \cup {k}
  /\ UNCHANGED deletes

delete_entry(k) ==
  /\ deletes < MaxDeletes
  /\ k \in entries
  /\ tree' = DeleteEntry(tree, k)
  /\ entries' = entries \ {k}
  /\ deletes' = deletes + 1

Next == \E k \in Key : insert_entry(k) \/ delete_entry(k)

Spec == Init /\ [][Next]_vars
-----------------------------------------------------------------------------
(***************************************************************************)
(* IxIndexHandle::lower_bound and upper_bound: the position in a leaf,     *)
(* moved on past the end of a leaf that has a successor.                   *)
(***************************************************************************)
Iid(p, s) == [page_no |-> p, slot_no |-> s]

RECURSIVE SkipToEntry(_, _)
SkipToEntry(T, iid) ==
  LET n == T.node[iid.page_no] IN
  IF iid.slot_no = Len(n.keys) /\ n.next_leaf # IX_LEAF_HEADER_PAGE
    THEN SkipToEntry(T, Iid(n.next_leaf, 0))
    ELSE iid

LowerBound(T, k) ==
  LET p == find_leaf_page(T, k) IN SkipToEntry(T, Iid(p, lower_bound(T.node[p].keys, k)))

UpperBound(T, k) ==
  LET p == find_leaf_page(T, k) IN SkipToEntry(T, Iid(p, upper_bound(T.node[p].keys, k)))

leaf_begin(T) == Iid(T.first_leaf, 0)
leaf_end(T) == Iid(T.last_leaf, Len(T.node[T.last_leaf].keys))

\* Mutant: the end of the leaf is noticed one entry late.
ScanNextLate(T, iid) ==
  IF iid.page_no # T.last_leaf /\ iid.slot_no = Len(T.node[iid.page_no].keys)
    THEN Iid(T.node[iid.page_no].next_leaf, 0)
    ELSE Iid(iid.page_no, iid.slot_no + 1)

\* IxScan::next.
ScanNext(T, iid) ==
  IF iid.page_no # T.last_leaf /\ iid.slot_no + 1 = Len(T.node[iid.page_no].keys)
    THEN Iid(T.node[iid.page_no].next_leaf, 0)
    ELSE Iid(iid.page_no, iid.slot_no + 1)

(***************************************************************************)
(* The rids an IxScan from lower to upper returns.  IxScan::rid throws     *)
(* IndexEntryNotFoundError at a position beyond the entries of its leaf.   *)
(***************************************************************************)
Thrown == -1

RECURSIVE Scan(_, _, _)
Scan(T, lower, upper) ==
  LET n == T.node[lower.page_no] IN
  IF lower = upper THEN << >>
  ELSE IF lower.slot_no >= Len(n.keys) THEN <<Thrown>>
  ELSE <<n.rids[lower.slot_no + 1]>> \o Scan(T, ScanNext(T, lower), upper)
-----------------------------------------------------------------------------
Leaves(T) == {p \in DOMAIN T.node : T.node[p].is_leaf}

\* The leaves in the order of their next_leaf links.
RECURSIVE ChainFrom(_, _)
ChainFrom(T, p) ==
  IF p = IX_LEAF_HEADER_PAGE THEN << >> ELSE <<p>> \o ChainFrom(T, T.node[p].next_leaf)

Chain(T) == ChainFrom(T, T.first_leaf)

Ascending(keys) == \A i, j \in DOMAIN keys : i < j => keys[i] < keys[j]

(***************************************************************************)
(* The chain of leaves, which IxScan follows, links every leaf once, in    *)
(* both directions, and lists the keys inserted and not deleted in order.  *)
(***************************************************************************)
LeafChainIsSorted ==
  LET chain == Chain(tree) IN
  /\ IsInjective(chain) /\ Range(chain) = Leaves(tree)
  /\ Last(chain) = tree.last_leaf
  /\ \A i \in 1..Len(chain) : tree.node[chain[i]].prev_leaf =
       IF i = 1 THEN IX_LEAF_HEADER_PAGE ELSE chain[i-1]
  /\ LET keys == FlattenSeq([i \in DOMAIN chain |-> tree.node[chain[i]].keys])
     IN  Ascending(keys) /\ Range(keys) = entries

(***************************************************************************)
(* get_value, descending by the separators, finds the rid of every key in  *)
(* the index and of no other, whatever splits and deletions came before.   *)
(***************************************************************************)
SearchIsExact ==
  \A k \in Key : get_value(tree, k) = IF k \in entries THEN {RidOf(k)} ELSE {}

(***************************************************************************)
(* Every node but the root is a child of the node its parent field names   *)
(* and of no other, so find_child's assertion holds; no node is so full    *)
(* that the next insert_pairs would trip its assertion.                    *)
(***************************************************************************)
ParentsAreRight ==
  \A p \in DOMAIN tree.node :
    /\ Len(tree.node[p].keys) < max_size
    /\ {q \in DOMAIN tree.node : ~tree.node[q].is_leaf /\ p \in Range(tree.node[q].rids)}
         = IF p = tree.root_page THEN {} ELSE {tree.node[p].parent}

\* rids are those of the keys from lo to hi, in the order of the keys.
RangeResult(rids, lo, hi) ==
  Ascending(rids) /\ Range(rids) = {RidOf(k) : k \in {e \in entries : lo <= e /\ e <= hi}}

NoEmptyLeaf == \A p \in Leaves(tree) : tree.node[p].keys # << >>

(***************************************************************************)
(* While no leaf has been emptied, a scan from lower_bound(lo) to          *)
(* upper_bound(hi) returns the entries of the range, in order.             *)
(***************************************************************************)
ScanIsExact ==
  NoEmptyLeaf =>
    \A lo, hi \in Key :
      lo <= hi => RangeResult(Scan(tree, LowerBound(tree, lo), UpperBound(tree, hi)), lo, hi)
=============================================================================
