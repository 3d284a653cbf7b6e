---------------------------- MODULE LRUReplacer ----------------------------
(***************************************************************************)
(* The operations of LRUReplacer on its list LRUlist_ of evictable frames. *)
(*                                                                         *)
(* LRUhash_ maps every frame of the list to its position and is updated    *)
(* with the list under the same latch, so the model keeps the list only:   *)
(* "frame_id is a key of LRUhash_" is "frame_id occurs in LRUlist_".       *)
(***************************************************************************)
EXTENDS Naturals, Sequences, Functions

(***************************************************************************)
(* victim: the frame at the front leaves the list.  It fails, returning    *)
(* false, on an empty list.                                                *)
(***************************************************************************)
HasVictim(LRUlist) == LRUlist # << >>
VictimFrame(LRUlist) == Head(LRUlist)
VictimRest(LRUlist) == Tail(LRUlist)

\* The position LRUhash_ holds for a frame of the list.
Position(LRUlist, frame_id) ==
  CHOOSE i \in DOMAIN LRUlist : LRUlist[i] = frame_id

\* std::list::erase of the element at position i.
Erase(list, i) == SubSeq(list, 1, i - 1) \o SubSeq(list, i + 1, Len(list))

\* Mutant: pin leaves the frame in the list.
PinForgotten(LRUlist, frame_id) == LRUlist

\* pin: the frame, wherever it is in the list, can no longer be evicted.
ReplacerPin(LRUlist, frame_id) ==
  IF frame_id \in Range(LRUlist)
    THEN Erase(LRUlist, Position(LRUlist, frame_id))
    ELSE LRUlist

\* Mutant: the capacity test is off by one.
UnpinShort(LRUlist, frame_id, max_size) ==
  IF frame_id \in Range(LRUlist) \/ Len(LRUlist) >= max_size - 1
    THEN LRUlist
    ELSE Append(LRUlist, frame_id)

(***************************************************************************)
(* unpin: the frame becomes evictable, last in line.  A frame already in   *)
(* the list and a list that holds max_size frames are left alone.          *)
(***************************************************************************)
ReplacerUnpin(LRUlist, frame_id, max_size) ==
  IF frame_id \in Range(LRUlist) \/ Len(LRUlist) >= max_size
    THEN LRUlist
    ELSE Append(LRUlist, frame_id)
=============================================================================
