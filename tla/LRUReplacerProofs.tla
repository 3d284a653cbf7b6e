------------------------- MODULE LRUReplacerProofs --------------------------
(***************************************************************************)
(* What the operations of LRUReplacer do to the set of evictable frames,   *)
(* for a list without repetitions over any set of frames.                  *)
(***************************************************************************)
EXTENDS LRUReplacer, SequenceTheorems, TLAPS

(***************************************************************************)
(* Taking the front element off a list (free_list_.pop_front and           *)
(* LRUReplacer::victim) removes exactly that element.                      *)
(***************************************************************************)
LEMMA PopFront ==
  ASSUME NEW S, NEW l \in Seq(S), IsInjective(l), l # << >>
  PROVE  /\ Head(l) \in Range(l)
         /\ Tail(l) \in Seq(S)
         /\ IsInjective(Tail(l))
         /\ Range(Tail(l)) = Range(l) \ {Head(l)}
<1>1. /\ Tail(l) \in Seq(S)
      /\ Len(Tail(l)) = Len(l) - 1
      /\ \A i \in 1..Len(Tail(l)) : Tail(l)[i] = l[i+1]
      /\ Len(l) \in Nat \ {0}
  BY HeadTailProperties, EmptySeq
<1>2. Head(l) = l[1] /\ 1 \in DOMAIN l
  BY <1>1
<1>3. DOMAIN l = 1..Len(l) /\ DOMAIN Tail(l) = 1..(Len(l) - 1)
  BY <1>1
<1>4. IsInjective(Tail(l))
  BY <1>1, <1>3 DEF IsInjective
<1>5. Range(Tail(l)) \subseteq Range(l) \ {Head(l)}
  BY <1>1, <1>2, <1>3 DEF Range, IsInjective
<1>6. Range(l) \ {Head(l)} \subseteq Range(Tail(l))
  <2>1. SUFFICES ASSUME NEW i \in 1..Len(l), l[i] # Head(l)
                 PROVE  \E j \in 1..(Len(l) - 1) : Tail(l)[j] = l[i]
    BY <1>3 DEF Range
  <2>2. i - 1 \in 1..(Len(l) - 1)
    BY <2>1, <1>2
  <2>3. Tail(l)[i - 1] = l[i]
    BY <2>2, <1>1
  <2>4. QED
    BY <2>2, <2>3
<1>7. QED
  BY <1>1, <1>2, <1>4, <1>5, <1>6 DEF Range

(***************************************************************************)
(* Erase keeps every other element, in order.                              *)
(***************************************************************************)
LEMMA EraseProperties ==
  ASSUME NEW S, NEW l \in Seq(S), NEW k \in 1..Len(l)
  PROVE  /\ Erase(l, k) \in Seq(S)
         /\ Len(Erase(l, k)) = Len(l) - 1
         /\ \A i \in 1..(Len(l) - 1) :
              Erase(l, k)[i] = IF i < k THEN l[i] ELSE l[i+1]
<1> DEFINE front == SubSeq(l, 1, k-1)
           back  == SubSeq(l, k+1, Len(l))
<1>1. Len(l) \in Nat /\ \A i \in 1..Len(l) : l[i] \in S
  OBVIOUS
<1>2. /\ front \in Seq(S)
      /\ Len(front) = k - 1
      /\ \A i \in 1..(k-1) : front[i] = l[i]
  <2>1. \A i \in 1..(k-1) : l[i] \in S
    BY <1>1
  <2>2. 1 \in Int /\ k-1 \in Int
    BY <1>1
  <2>3. /\ front \in Seq(S)
        /\ Len(front) = IF 1 <= k-1 THEN (k-1)-1+1 ELSE 0
        /\ \A i \in 1..((k-1)-1+1) : front[i] = l[1+i-1]
    BY <2>1, <2>2, SubSeqProperties
  <2>4. QED
    BY <2>3, <1>1
<1>3. /\ back \in Seq(S)
      /\ Len(back) = Len(l) - k
      /\ \A i \in 1..(Len(l) - k) : back[i] = l[k+i]
  <2>1. \A i \in (k+1)..Len(l) : l[i] \in S
    BY <1>1
  <2>2. k+1 \in Int /\ Len(l) \in Int
    BY <1>1
  <2>3. /\ back \in Seq(S)
        /\ Len(back) = IF k+1 <= Len(l) THEN Len(l)-(k+1)+1 ELSE 0
        /\ \A i \in 1..(Len(l)-(k+1)+1) : back[i] = l[(k+1)+i-1]
    BY <2>1, <2>2, SubSeqProperties
  <2>4. QED
    BY <2>3, <1>1
<1>4. Erase(l, k) = front \o back
  BY DEF Erase
<1> HIDE DEF front, back
<1>5. /\ front \o back \in Seq(S)
      /\ Len(front \o back) = (k - 1) + (Len(l) - k)
      /\ \A i \in 1..((k - 1) + (Len(l) - k)) :
           (front \o back)[i] = IF i <= k - 1 THEN front[i] ELSE back[i - (k - 1)]
  <2>1. /\ front \o back \in Seq(S)
        /\ Len(front \o back) = Len(front) + Len(back)
        /\ \A i \in 1..(Len(front) + Len(back)) :
             (front \o back)[i] = IF i <= Len(front) THEN front[i] ELSE back[i - Len(front)]
    BY <1>2, <1>3, ConcatProperties
  <2>2. Len(front) = k - 1 /\ Len(back) = Len(l) - k
    BY <1>2, <1>3
  <2>3. QED
    BY <2>1, <2>2
<1>6. (k - 1) + (Len(l) - k) = Len(l) - 1
  BY <1>1
<1>7. ASSUME NEW i \in 1..(Len(l) - 1)
      PROVE  (front \o back)[i] = IF i < k THEN l[i] ELSE l[i+1]
  <2>1. (front \o back)[i] = IF i <= k - 1 THEN front[i] ELSE back[i - (k - 1)]
    BY <1>5, <1>6
  <2>2. CASE i < k
    BY <2>1, <2>2, <1>1, <1>2
  <2>3. CASE ~(i < k)
    <3>1. i - (k - 1) \in 1..(Len(l) - k)
      BY <2>3, <1>1
    <3>2. back[i - (k - 1)] = l[k + (i - (k - 1))]
      BY <3>1, <1>3
    <3>3. k + (i - (k - 1)) = i + 1
      BY <1>1
    <3>4. QED
      BY <2>1, <2>3, <3>2, <3>3, <1>1
  <2>4. QED
    BY <2>2, <2>3
<1>8. QED
  BY <1>4, <1>5, <1>6, <1>7

(***************************************************************************)
(* LRUReplacer::pin removes the frame it is given and nothing else.        *)
(***************************************************************************)
LEMMA PinRemoves ==
  ASSUME NEW S, NEW l \in Seq(S), NEW f, IsInjective(l)
  PROVE  /\ ReplacerPin(l, f) \in Seq(S)
         /\ IsInjective(ReplacerPin(l, f))
         /\ Range(ReplacerPin(l, f)) = Range(l) \ {f}
<1>1. CASE f \notin Range(l)
  BY <1>1 DEF ReplacerPin
<1>2. CASE f \in Range(l)
  <2> DEFINE k == Position(l, f)
             r == Erase(l, k)
  <2>1. DOMAIN l = 1..Len(l) /\ Len(l) \in Nat
    OBVIOUS
  <2>2. \E i \in DOMAIN l : l[i] = f
    BY <1>2 DEF Range
  <2>3. k \in 1..Len(l) /\ l[k] = f
    BY <2>1, <2>2 DEF Position
  <2>4. ReplacerPin(l, f) = r
    BY <1>2 DEF ReplacerPin
  <2> HIDE DEF k
  <2>5. /\ r \in Seq(S)
        /\ Len(r) = Len(l) - 1
        /\ \A i \in 1..(Len(l) - 1) : r[i] = IF i < k THEN l[i] ELSE l[i+1]
    BY <2>3, EraseProperties
  <2> HIDE DEF r
  <2>6. DOMAIN r = 1..(Len(l) - 1)
    BY <2>5
  <2>7. IsInjective(r)
    <3> DEFINE from(i) == IF i < k THEN i ELSE i + 1
    <3>1. SUFFICES ASSUME NEW i \in 1..(Len(l) - 1), NEW j \in 1..(Len(l) - 1),
                          r[i] = r[j]
                   PROVE  i = j
      BY <2>6 DEF IsInjective
    <3>2. from(i) \in DOMAIN l /\ from(j) \in DOMAIN l
      BY <2>1, <2>3
    <3>3. r[i] = l[from(i)] /\ r[j] = l[from(j)]
      BY <2>5
    <3>4. from(i) = from(j)
      BY <3>1, <3>2, <3>3 DEF IsInjective
    <3>5. QED
      BY <3>4, <2>1, <2>3
  <2>8. Range(r) \subseteq Range(l) \ {f}
    BY <2>1, <2>3, <2>5, <2>6, SMTT(30) DEF IsInjective, Range
  <2>9. Range(l) \ {f} \subseteq Range(r)
    <3>1. SUFFICES ASSUME NEW i \in 1..Len(l), l[i] # f
                   PROVE  \E j \in 1..(Len(l) - 1) : r[j] = l[i]
      BY <2>1, <2>6 DEF Range
    <3>2. CASE i < k
      <4>1. i \in 1..(Len(l) - 1)
        BY <3>2, <2>3, <2>1
      <4>2. QED
        BY <4>1, <3>2, <2>5
    <3>3. CASE ~(i < k)
      <4>1. i - 1 \in 1..(Len(l) - 1) /\ ~(i - 1 < k)
        BY <3>1, <3>3, <2>3, <2>1
      <4>2. r[i - 1] = l[i]
        BY <4>1, <2>5
      <4>3. QED
        BY <4>1, <4>2
    <3>4. QED
      BY <3>2, <3>3
  <2>10. QED
    BY <2>4, <2>5, <2>7, <2>8, <2>9
<1>3. QED
  BY <1>1, <1>2

(***************************************************************************)
(* push_back of a frame that is not in the list adds exactly that frame.   *)
(***************************************************************************)
LEMMA PushBack ==
  ASSUME NEW S, NEW l \in Seq(S), NEW f \in S, IsInjective(l), f \notin Range(l)
  PROVE  /\ Append(l, f) \in Seq(S)
         /\ IsInjective(Append(l, f))
         /\ Range(Append(l, f)) = Range(l) \cup {f}
<1> DEFINE r == Append(l, f)
<1>1. DOMAIN l = 1..Len(l) /\ Len(l) \in Nat
  OBVIOUS
<1>2. /\ r \in Seq(S)
      /\ DOMAIN r = 1..(Len(l) + 1)
      /\ \A i \in 1..Len(l) : r[i] = l[i]
      /\ r[Len(l) + 1] = f
  BY <1>1
<1> HIDE DEF r
<1>3. \A i \in 1..(Len(l) + 1) : i \in 1..Len(l) \/ i = Len(l) + 1
  BY <1>1
<1>4. \A i \in 1..Len(l) : r[i] # f
  BY <1>1, <1>2 DEF Range
<1>5. IsInjective(r)
  BY <1>1, <1>2, <1>3, <1>4 DEF IsInjective
<1>6. Range(r) = Range(l) \cup {f}
  BY <1>1, <1>2, <1>3 DEF Range
<1>7. QED
  BY <1>2, <1>5, <1>6 DEF r
=============================================================================
