----------------------------- MODULE PageStore ------------------------------
(***************************************************************************)
(* What the buffer pool promises its clients: an array of pages without a  *)
(* cache.  A client opens one page, reads and writes it in place, and      *)
(* closes it; a page changes only when a client that has it open writes    *)
(* it, and a page once allocated never disappears.                         *)
(***************************************************************************)
CONSTANTS Client, PageId, Data, Zero, Absent, NoPage

VARIABLES
  store,   \* page -> its contents, or Absent before it is allocated
  open     \* client -> the page it has open, or NoPage

store_vars == <<store, open>>

Init ==
  /\ store = [p \in PageId |-> Absent]
  /\ open = [c \in Client |-> NoPage]

Allocate(c, p) ==
  /\ open[c] = NoPage
  /\ store[p] = Absent
  /\ store' = [store EXCEPT ![p] = Zero]
  /\ open' = [open EXCEPT ![c] = p]

Open(c, p) ==
  /\ open[c] = NoPage
  /\ store[p] # Absent
  /\ open' = [open EXCEPT ![c] = p]
  /\ UNCHANGED store

Write(c, v) ==
  /\ open[c] # NoPage
  /\ store' = [store EXCEPT ![open[c]] = v]
  /\ UNCHANGED open

Close(c) ==
  /\ open[c] # NoPage
  /\ open' = [open EXCEPT ![c] = NoPage]
  /\ UNCHANGED store

Next ==
  \E c \in Client :
    \/ \E p \in PageId : Allocate(c, p) \/ Open(c, p)
    \/ \E v \in Data : Write(c, v)
    \/ Close(c)

Spec == Init /\ [][Next]_store_vars
=============================================================================
