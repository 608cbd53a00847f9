----------------------------- MODULE HeapProofs -----------------------------
(***************************************************************************)
(* Theorems about Heap, for every heap size, every set of requests and     *)
(* every sequence of calls: first lemmas about the operators it is built   *)
(* from (the list operations, MEM_ALIGN, a split and a merge of a tiling), *)
(* then the invariant, the promise of HeapSpec, and the statistics.        *)
(***************************************************************************)
EXTENDS Heap, SequenceTheorems, FiniteSetTheorems, WellFoundedInduction, TLAPS

(* The elements of a list, and the order of the free list. *)
Elems(l) == {l[i] : i \in DOMAIN l}
Ascends(l) == \A i, j \in DOMAIN l : i < j => l[i] < l[j]

-----------------------------------------------------------------------------
(* The heap's bounds. *)

(* MEM_ALIGN yields a multiple of 64, and rounds up unless it wraps. *)
LEMMA AlignUp ==
  ASSUME NEW n \in 0 .. SizeMod - 1
  PROVE  /\ MEM_ALIGN(n) \in Nat
         /\ MEM_ALIGN(n) % 64 = 0
         /\ n + 63 < SizeMod => n <= MEM_ALIGN(n) /\ MEM_ALIGN(n) <= n + 63
<1> DEFINE up == (n + 63) % SizeMod
<1>1. SizeMod \in Nat /\ SizeMod > 0
  BY HeapConstants DEF MEM_ALIGNMENT
<1>2. up \in Nat
  BY <1>1
<1>3. n + 63 < SizeMod => up = n + 63
  BY <1>1
<1>4. MEM_ALIGN(n) = up - (up % 64)
  BY DEF MEM_ALIGN, MEM_ALIGNMENT
<1> HIDE DEF up
<1>5. QED
  BY <1>1, <1>2, <1>3, <1>4

(* Where the heap starts and ends. *)
LEMMA HeapFacts ==
  /\ heap_start \in Nat \ {0} /\ heap_start % 64 = 0
  /\ heap_total_size \in Nat /\ heap_total_size > 64
  /\ heap_end \in Nat /\ heap_end = heap_start + heap_total_size
  /\ heap_start \in Slot
  /\ Slot \subseteq Nat
  /\ \A a \in Slot : heap_start <= a /\ a < heap_end /\ a % 64 = 0
<1>1. /\ HeapFlag \in 0 .. SizeMod - 1 /\ HeapFlag > 0
      /\ HeapFlag + 63 < SizeMod
      /\ HeapSize \in Nat /\ HeapSize > 192
  BY HeapConstants DEF MEM_ALIGNMENT, HEADER
<1>2. /\ heap_start \in Nat /\ heap_start % 64 = 0
      /\ HeapFlag <= heap_start /\ heap_start <= HeapFlag + 63
  BY <1>1, AlignUp DEF heap_start
<1>3. /\ heap_total_size \in Nat /\ heap_total_size > 64
      /\ heap_end \in Nat /\ heap_end = heap_start + heap_total_size
  BY <1>1, <1>2 DEF heap_total_size, heap_end
<1>4. QED
  BY <1>1, <1>2, <1>3 DEF Slot, MEM_ALIGNMENT

(* A multiple of 64 inside the heap, counted from a slot, is a slot. *)
LEMMA SlotStep ==
  ASSUME NEW b \in Slot, NEW k \in Nat, k % 64 = 0, b + 64 + k < heap_end
  PROVE  b + 64 + k \in Slot
<1>1. b \in Nat /\ heap_start <= b /\ b % 64 = 0 /\ heap_start \in Nat
      /\ heap_end \in Nat
  BY HeapFacts
<1>2. (b + 64 + k) % 64 = 0
  BY <1>1
<1>3. QED
  BY <1>1, <1>2 DEF Slot, MEM_ALIGNMENT

-----------------------------------------------------------------------------
(* Lists. *)

(* What RemoveAt leaves at each position. *)
LEMMA RemoveAtIndex ==
  ASSUME NEW S, NEW l \in Seq(S), NEW i \in 1 .. Len(l)
  PROVE  /\ RemoveAt(l, i) \in Seq(S)
         /\ Len(RemoveAt(l, i)) = Len(l) - 1
         /\ \A j \in 1 .. Len(l) - 1 :
              RemoveAt(l, i)[j] = IF j < i THEN l[j] ELSE l[j + 1]
<1> DEFINE p == SubSeq(l, 1, i - 1)
           q == SubSeq(l, i + 1, Len(l))
<1>0. /\ Len(l) \in Nat /\ i \in Nat
      /\ \A j \in 1 .. Len(l) : l[j] \in S
  BY LenProperties, ElementOfSeq
<1>1. /\ p \in Seq(S) /\ Len(p) = i - 1
      /\ \A j \in 1 .. i - 1 : p[j] = l[j]
  <2>1. \A j \in 1 .. i - 1 : l[j] \in S
    BY <1>0
  <2>2. /\ p \in Seq(S)
        /\ Len(p) = IF 1 <= i - 1 THEN (i - 1) - 1 + 1 ELSE 0
        /\ \A j \in 1 .. (i - 1) - 1 + 1 : p[j] = l[1 + j - 1]
    BY <2>1, <1>0, SubSeqProperties
  <2>3. QED BY <2>2, <1>0
<1>2. /\ q \in Seq(S) /\ Len(q) = Len(l) - i
      /\ \A j \in 1 .. Len(l) - i : q[j] = l[i + j]
  <2>1. \A j \in i + 1 .. Len(l) : l[j] \in S
    BY <1>0
  <2>2. /\ q \in Seq(S)
        /\ Len(q) = IF i + 1 <= Len(l) THEN Len(l) - (i + 1) + 1 ELSE 0
        /\ \A j \in 1 .. Len(l) - (i + 1) + 1 : q[j] = l[(i + 1) + j - 1]
    BY <2>1, <1>0, SubSeqProperties
  <2>3. QED BY <2>2, <1>0
<1>5. RemoveAt(l, i) = p \o q
  BY DEF RemoveAt
<1> HIDE DEF p, q
<1>3. /\ p \o q \in Seq(S)
      /\ Len(p \o q) = Len(p) + Len(q)
      /\ \A j \in 1 .. Len(p) + Len(q) :
           (p \o q)[j] = IF j <= Len(p) THEN p[j] ELSE q[j - Len(p)]
  BY <1>1, <1>2, ConcatProperties
<1>4. ASSUME NEW j \in 1 .. Len(l) - 1
      PROVE  (p \o q)[j] = IF j < i THEN l[j] ELSE l[j + 1]
  <2>1. CASE j < i
    BY <2>1, <1>0, <1>1, <1>2, <1>3
  <2>2. CASE ~(j < i)
    <3>1. (p \o q)[j] = q[j - (i - 1)]
      BY <2>2, <1>0, <1>1, <1>2, <1>3
    <3>2. j - (i - 1) \in 1 .. Len(l) - i
      BY <2>2, <1>0
    <3>3. q[j - (i - 1)] = l[i + (j - (i - 1))]
      BY <3>2, <1>2
    <3>4. i + (j - (i - 1)) = j + 1
      BY <1>0
    <3>5. QED BY <3>1, <3>3, <3>4, <2>2
  <2>3. QED BY <2>1, <2>2
<1>6. Len(p \o q) = Len(l) - 1
  BY <1>0, <1>1, <1>2, <1>3
<1>7. QED
  BY <1>3, <1>4, <1>5, <1>6

(* What InsertAt leaves at each position. *)
LEMMA InsertAtIndex ==
  ASSUME NEW S, NEW l \in Seq(S), NEW e \in S, NEW i \in 1 .. Len(l) + 1
  PROVE  /\ InsertAt(l, i, e) \in Seq(S)
         /\ Len(InsertAt(l, i, e)) = Len(l) + 1
         /\ \A j \in 1 .. Len(l) + 1 :
              InsertAt(l, i, e)[j] = IF j < i THEN l[j]
                                     ELSE IF j = i THEN e ELSE l[j - 1]
<1> DEFINE p == SubSeq(l, 1, i - 1)
           q == SubSeq(l, i, Len(l))
           pe == p \o <<e>>
<1>0. /\ Len(l) \in Nat /\ i \in Nat
      /\ \A j \in 1 .. Len(l) : l[j] \in S
  BY LenProperties, ElementOfSeq
<1>1. /\ p \in Seq(S) /\ Len(p) = i - 1
      /\ \A j \in 1 .. i - 1 : p[j] = l[j]
  <2>1. \A j \in 1 .. i - 1 : l[j] \in S
    BY <1>0
  <2>2. /\ p \in Seq(S)
        /\ Len(p) = IF 1 <= i - 1 THEN (i - 1) - 1 + 1 ELSE 0
        /\ \A j \in 1 .. (i - 1) - 1 + 1 : p[j] = l[1 + j - 1]
    BY <2>1, <1>0, SubSeqProperties
  <2>3. QED BY <2>2, <1>0
<1>2. /\ q \in Seq(S) /\ Len(q) = Len(l) - i + 1
      /\ \A j \in 1 .. Len(l) - i + 1 : q[j] = l[i + j - 1]
  <2>1. \A j \in i .. Len(l) : l[j] \in S
    BY <1>0
  <2>2. /\ q \in Seq(S)
        /\ Len(q) = IF i <= Len(l) THEN Len(l) - i + 1 ELSE 0
        /\ \A j \in 1 .. Len(l) - i + 1 : q[j] = l[i + j - 1]
    BY <2>1, <1>0, SubSeqProperties
  <2>3. QED BY <2>2, <1>0
<1>3. /\ <<e>> \in Seq(S) /\ Len(<<e>>) = 1 /\ <<e>>[1] = e
  OBVIOUS
<1>4. /\ pe \in Seq(S)
      /\ Len(pe) = i
      /\ \A j \in 1 .. i : pe[j] = IF j < i THEN l[j] ELSE e
  <2>1. /\ pe \in Seq(S)
        /\ Len(pe) = Len(p) + Len(<<e>>)
        /\ \A j \in 1 .. Len(p) + Len(<<e>>) :
             pe[j] = IF j <= Len(p) THEN p[j] ELSE <<e>>[j - Len(p)]
    BY <1>1, <1>3, ConcatProperties
  <2> HIDE DEF p, pe
  <2>2. Len(pe) = i
    BY <2>1, <1>0, <1>1, <1>3
  <2>3. ASSUME NEW j \in 1 .. i
        PROVE  pe[j] = IF j < i THEN l[j] ELSE e
    <3>1. CASE j < i
      BY <3>1, <2>1, <1>0, <1>1, <1>3
    <3>2. CASE j = i
      <4>1. j - Len(p) = 1
        BY <3>2, <1>0, <1>1
      <4>2. pe[j] = <<e>>[j - Len(p)]
        BY <3>2, <2>1, <1>0, <1>1, <1>3
      <4>3. QED BY <4>1, <4>2, <1>3, <3>2
    <3>3. QED BY <3>1, <3>2, <1>0
  <2>4. QED BY <2>1, <2>2, <2>3
<1>5. InsertAt(l, i, e) = pe \o q
  BY DEF InsertAt
<1> HIDE DEF p, q, pe
<1>6. /\ pe \o q \in Seq(S)
      /\ Len(pe \o q) = Len(pe) + Len(q)
      /\ \A j \in 1 .. Len(pe) + Len(q) :
           (pe \o q)[j] = IF j <= Len(pe) THEN pe[j] ELSE q[j - Len(pe)]
  BY <1>2, <1>4, ConcatProperties
<1>7. Len(pe \o q) = Len(l) + 1
  BY <1>0, <1>2, <1>4, <1>6
<1>8. ASSUME NEW j \in 1 .. Len(l) + 1
      PROVE  (pe \o q)[j] = IF j < i THEN l[j]
                            ELSE IF j = i THEN e ELSE l[j - 1]
  <2>1. CASE j <= i
    <3>1. (pe \o q)[j] = pe[j]
      BY <2>1, <1>0, <1>2, <1>4, <1>6
    <3>2. pe[j] = IF j < i THEN l[j] ELSE e
      BY <2>1, <1>4, <1>0
    <3>3. QED BY <3>1, <3>2, <2>1, <1>0
  <2>2. CASE j > i
    <3>1. (pe \o q)[j] = q[j - i]
      BY <2>2, <1>0, <1>2, <1>4, <1>6
    <3>2. j - i \in 1 .. Len(l) - i + 1
      BY <2>2, <1>0
    <3>3. q[j - i] = l[i + (j - i) - 1]
      BY <3>2, <1>2
    <3>4. i + (j - i) - 1 = j - 1
      BY <1>0
    <3>5. QED BY <3>1, <3>3, <3>4, <2>2, <1>0
  <2>3. j <= i \/ j > i
    BY <1>0
  <2>4. QED BY <2>1, <2>2, <2>3
<1>9. QED
  BY <1>5, <1>6, <1>7, <1>8

(* Taking a node off an ascending list removes it and nothing else. *)
LEMMA RemoveAscends ==
  ASSUME NEW S, S \subseteq Nat, NEW l \in Seq(S), Ascends(l),
         NEW i \in 1 .. Len(l)
  PROVE  /\ RemoveAt(l, i) \in Seq(S)
         /\ Ascends(RemoveAt(l, i))
         /\ Elems(RemoveAt(l, i)) = Elems(l) \ {l[i]}
<1> DEFINE r == RemoveAt(l, i)
<1>1. /\ r \in Seq(S) /\ Len(r) = Len(l) - 1
      /\ \A j \in 1 .. Len(l) - 1 : r[j] = IF j < i THEN l[j] ELSE l[j + 1]
  BY RemoveAtIndex
<1>2. /\ DOMAIN l = 1 .. Len(l) /\ DOMAIN r = 1 .. Len(l) - 1
      /\ Len(l) \in Nat /\ \A j \in 1 .. Len(l) : l[j] \in Nat
  BY <1>1, LenProperties, ElementOfSeq
<1> HIDE DEF r
<1>3. Ascends(r)
  <2> SUFFICES ASSUME NEW j \in DOMAIN r, NEW k \in DOMAIN r, j < k
               PROVE  r[j] < r[k]
    BY DEF Ascends
  <2>1. CASE k < i
    <3>1. r[j] = l[j] /\ r[k] = l[k]
      BY <2>1, <1>1, <1>2
    <3>2. j \in DOMAIN l /\ k \in DOMAIN l
      BY <1>2
    <3>3. QED BY <3>1, <3>2 DEF Ascends
  <2>2. CASE ~(k < i) /\ j < i
    <3>1. r[j] = l[j] /\ r[k] = l[k + 1]
      BY <2>2, <1>1, <1>2
    <3>2. j < k + 1 /\ j \in DOMAIN l /\ k + 1 \in DOMAIN l
      BY <1>2
    <3>3. QED BY <3>1, <3>2 DEF Ascends
  <2>3. CASE ~(k < i) /\ ~(j < i)
    <3>1. r[j] = l[j + 1] /\ r[k] = l[k + 1]
      BY <2>3, <1>1, <1>2
    <3>2. j + 1 < k + 1 /\ j + 1 \in DOMAIN l /\ k + 1 \in DOMAIN l
      BY <1>2
    <3>3. QED BY <3>1, <3>2 DEF Ascends
  <2>4. QED BY <2>1, <2>2, <2>3
<1>4. Elems(r) = Elems(l) \ {l[i]}
  <2>1. ASSUME NEW j \in DOMAIN r
        PROVE  r[j] \in Elems(l) \ {l[i]}
    <3>1. CASE j < i
      <4>1. j \in DOMAIN l /\ i \in DOMAIN l /\ r[j] = l[j]
        BY <3>1, <1>1, <1>2
      <4>2. l[j] < l[i] /\ l[j] \in Nat /\ l[i] \in Nat
        BY <3>1, <4>1, <1>2 DEF Ascends
      <4>3. QED BY <4>1, <4>2 DEF Elems
    <3>2. CASE ~(j < i)
      <4>1. j + 1 \in DOMAIN l /\ i < j + 1
        BY <3>2, <1>2
      <4>2. r[j] = l[j + 1]
        BY <3>2, <1>1, <1>2
      <4>3. l[i] < l[j + 1]
        BY <4>1, <1>2 DEF Ascends
      <4>4. QED BY <4>1, <4>2, <4>3, <1>2 DEF Elems
    <3>3. QED BY <3>1, <3>2
  <2>2. ASSUME NEW j \in DOMAIN l, l[j] # l[i]
        PROVE  l[j] \in Elems(r)
    <3>1. CASE j < i
      BY <3>1, <1>1, <1>2 DEF Elems
    <3>2. CASE j > i
      <4>1. j - 1 \in DOMAIN r /\ ~(j - 1 < i) /\ (j - 1) + 1 = j
        BY <3>2, <1>2
      <4>2. r[j - 1] = l[j]
        BY <4>1, <1>1, <1>2
      <4>3. QED BY <4>1, <4>2 DEF Elems
    <3>3. QED BY <3>1, <3>2, <2>2, <1>2
  <2>3. QED BY <2>1, <2>2 DEF Elems
<1>5. QED
  BY <1>1, <1>3, <1>4 DEF r

(* The position of a node of the list. *)
LEMMA PosIndex ==
  ASSUME NEW S, NEW l \in Seq(S), NEW b \in Elems(l)
  PROVE  Pos(l, b) \in 1 .. Len(l) /\ l[Pos(l, b)] = b
<1>1. DOMAIN l = 1 .. Len(l)
  BY LenProperties
<1>2. \E i \in DOMAIN l : l[i] = b
  BY DEF Elems
<1>3. QED
  BY <1>1, <1>2 DEF Pos

(* Where the insertion walk stops: it always stops, at a position that is  *)
(* in front of the first node not below b.                                 *)
LEMMA InsertPosIndex ==
  ASSUME NEW S, S \subseteq Nat, NEW l \in Seq(S), NEW b \in Nat
  PROVE  /\ InsertPos(l, b) \in 1 .. Len(l) + 1
         /\ \A j \in 1 .. InsertPos(l, b) - 1 : l[j] < b
         /\ InsertPos(l, b) <= Len(l) => l[InsertPos(l, b)] >= b
<1> DEFINE T == {i \in 1 .. Len(l) + 1 : i <= Len(l) => l[i] >= b}
<1>1. /\ Len(l) \in Nat /\ \A j \in 1 .. Len(l) : l[j] \in Nat
  BY LenProperties, ElementOfSeq
<1>2. T \subseteq Nat /\ Len(l) + 1 \in T
  BY <1>1
<1>3. PICK i \in T : \A j \in T : ~(<<j, i>> \in OpToRel(<, Nat))
  <2>1. T # {}
    BY <1>2
  <2>2. QED
    BY <1>2, <2>1, NatLessThanWellFounded, WFMin
<1>4. \A j \in T : ~(j < i)
  <2>1. \A j \in T : j < i => <<j, i>> \in OpToRel(<, Nat)
    BY <1>2 DEF OpToRel
  <2>2. QED BY <2>1, <1>3
<1>5. i \in 1 .. Len(l) + 1 /\ (i <= Len(l) => l[i] >= b)
  OBVIOUS
<1>6. ASSUME NEW j \in 1 .. i - 1
      PROVE  l[j] < b
  <2>1. j \in 1 .. Len(l) /\ j < i
    BY <1>5, <1>1
  <2>2. j \notin T
    BY <2>1, <1>4
  <2>3. QED
    BY <2>1, <2>2, <1>1
<1> HIDE DEF T
<1>7. QED
  BY <1>5, <1>6 DEF InsertPos

(* add_to_free_list keeps the list ascending and adds just the block. *)
LEMMA AddSlot ==
  ASSUME NEW l \in Seq(Slot), Ascends(l), NEW b \in Slot, b \notin Elems(l),
         NEW a, a = add_to_free_list(l, b)
  PROVE  a \in Seq(Slot) /\ Ascends(a) /\ Elems(a) = Elems(l) \cup {b}
<1>0. Slot \subseteq Nat /\ b \in Nat
  BY HeapFacts
<1> DEFINE i == InsertPos(l, b)
           r == InsertAt(l, i, b)
<1>1. /\ i \in 1 .. Len(l) + 1
      /\ \A j \in 1 .. i - 1 : l[j] < b
      /\ i <= Len(l) => l[i] >= b
  BY <1>0, InsertPosIndex
<1> HIDE DEF i
<1>2. /\ r \in Seq(Slot) /\ Len(r) = Len(l) + 1
      /\ \A j \in 1 .. Len(l) + 1 :
           r[j] = IF j < i THEN l[j] ELSE IF j = i THEN b ELSE l[j - 1]
  BY <1>1, InsertAtIndex
<1>3. /\ DOMAIN l = 1 .. Len(l) /\ DOMAIN r = 1 .. Len(l) + 1
      /\ Len(l) \in Nat /\ \A j \in 1 .. Len(l) : l[j] \in Nat
      /\ b \in Nat
  BY <1>0, <1>2, LenProperties, ElementOfSeq
<1> HIDE DEF r
<1>4. \A j \in i .. Len(l) : l[j] > b
  <2>1. \A j \in DOMAIN l : l[j] # b
    BY DEF Elems
  <2>2. i <= Len(l) => l[i] > b
    BY <1>1, <1>3, <2>1
  <2>3. ASSUME NEW j \in i .. Len(l), j # i
        PROVE  l[j] > b
    <3>1. i < j /\ i \in DOMAIN l /\ j \in DOMAIN l
      BY <2>3, <1>1, <1>3
    <3>2. l[i] < l[j]
      BY <3>1 DEF Ascends
    <3>3. QED BY <3>1, <3>2, <2>2, <1>3
  <2>4. QED BY <2>2, <2>3
<1>5. Ascends(r)
  <2> SUFFICES ASSUME NEW j \in DOMAIN r, NEW k \in DOMAIN r, j < k
               PROVE  r[j] < r[k]
    BY DEF Ascends
  <2>1. CASE k < i
    <3>1. r[j] = l[j] /\ r[k] = l[k]
      BY <2>1, <1>1, <1>2, <1>3
    <3>2. j \in DOMAIN l /\ k \in DOMAIN l
      BY <2>1, <1>1, <1>3
    <3>3. QED BY <3>1, <3>2 DEF Ascends
  <2>2. CASE k = i
    BY <2>2, <1>1, <1>2, <1>3
  <2>3. CASE k > i /\ j < i
    <3>1. r[j] = l[j] /\ r[k] = l[k - 1]
      BY <2>3, <1>1, <1>2, <1>3
    <3>2. l[j] < b /\ l[k - 1] > b /\ j \in 1 .. Len(l) /\ k - 1 \in 1 .. Len(l)
      BY <2>3, <1>1, <1>3, <1>4
    <3>3. QED BY <3>1, <3>2, <1>3
  <2>4. CASE k > i /\ j = i
    <3>1. r[j] = b /\ r[k] = l[k - 1]
      BY <2>4, <1>1, <1>2, <1>3
    <3>2. l[k - 1] > b /\ k - 1 \in 1 .. Len(l)
      BY <2>4, <1>1, <1>3, <1>4
    <3>3. QED BY <3>1, <3>2, <1>3
  <2>5. CASE k > i /\ j > i
    <3>1. r[j] = l[j - 1] /\ r[k] = l[k - 1]
      BY <2>5, <1>1, <1>2, <1>3
    <3>2. j - 1 < k - 1 /\ j - 1 \in DOMAIN l /\ k - 1 \in DOMAIN l
      BY <2>5, <1>1, <1>3
    <3>3. QED BY <3>1, <3>2 DEF Ascends
  <2>6. QED BY <2>1, <2>2, <2>3, <2>4, <2>5, <1>1, <1>3
<1>6. Elems(r) = Elems(l) \cup {b}
  <2>1. ASSUME NEW j \in DOMAIN r
        PROVE  r[j] \in Elems(l) \cup {b}
    <3>1. CASE j < i
      BY <3>1, <1>1, <1>2, <1>3 DEF Elems
    <3>2. CASE j = i
      BY <3>2, <1>2, <1>3
    <3>3. CASE j > i
      <4>1. j - 1 \in DOMAIN l /\ r[j] = l[j - 1]
        BY <3>3, <1>1, <1>2, <1>3
      <4>2. QED BY <4>1 DEF Elems
    <3>4. QED BY <3>1, <3>2, <3>3, <1>1, <1>3
  <2>2. b \in Elems(r)
    BY <1>1, <1>2, <1>3 DEF Elems
  <2>3. ASSUME NEW j \in DOMAIN l
        PROVE  l[j] \in Elems(r)
    <3>1. CASE j < i
      BY <3>1, <1>2, <1>3 DEF Elems
    <3>2. CASE ~(j < i)
      <4>0. j \in 1 .. Len(l) /\ i \in 1 .. Len(l) + 1 /\ ~(j < i)
        BY <3>2, <1>1, <1>3
      <4>1. j + 1 \in DOMAIN r /\ ~(j + 1 < i) /\ j + 1 # i /\ (j + 1) - 1 = j
        BY <4>0, <1>3
      <4>2. r[j + 1] = l[j]
        BY <4>1, <1>2, <1>3
      <4>3. QED BY <4>1, <4>2 DEF Elems
    <3>3. QED BY <3>1, <3>2
  <2>4. QED BY <2>1, <2>2, <2>3 DEF Elems
<1>7. QED
  BY <1>2, <1>5, <1>6 DEF add_to_free_list, r, i

-----------------------------------------------------------------------------
(* Tilings of the heap. *)

(* Blocks of a tiling end inside the heap and after their header. *)
LEMMA TileEnds ==
  ASSUME NEW B, B \subseteq Slot, NEW sz \in [Slot -> Nat], Tiles(B, sz),
         NEW b \in B
  PROVE  /\ End(sz, b) \in Nat /\ b + 64 <= End(sz, b)
         /\ End(sz, b) <= heap_end
         /\ End(sz, b) < heap_end => End(sz, b) \in B
<1>1. b \in Nat /\ sz[b] \in Nat /\ heap_end \in Nat
  BY HeapFacts
<1>2. End(sz, b) = heap_end \/ End(sz, b) \in B
  BY DEF Tiles
<1>3. End(sz, b) = b + 64 + sz[b]
  BY DEF End, HEADER
<1>4. \A c \in B : c < heap_end
  BY HeapFacts
<1>5. QED
  BY <1>1, <1>2, <1>3, <1>4

(* Absorbing the next physical block keeps the heap tiled. *)
LEMMA MergeTiles ==
  ASSUME NEW B, B \subseteq Slot, NEW sz \in [Slot -> Nat], Tiles(B, sz),
         NEW b \in B, NEW n \in B, n = End(sz, b),
         NEW m \in [Slot -> Nat], m[b] = sz[b] + HEADER + sz[n],
         \A c \in Slot : c # b => m[c] = sz[c]
  PROVE  /\ Tiles(B \ {n}, m)
         /\ End(m, b) = End(sz, n)
         /\ \A c \in Slot : c # b => End(m, c) = End(sz, c)
<1>1. /\ n \in Nat /\ b \in Nat /\ sz[b] \in Nat /\ sz[n] \in Nat
      /\ b + 64 <= n
  BY TileEnds, HeapFacts
<1>2. m \in [Slot -> Nat] /\ m[b] = sz[b] + 64 + sz[n]
      /\ \A c \in Slot : c # b => m[c] = sz[c]
  BY <1>1 DEF HEADER
<1>3. End(m, b) = End(sz, n)
  BY <1>1, <1>2 DEF End, HEADER
<1>4. \A c \in Slot : c # b => End(m, c) = End(sz, c)
  BY <1>2 DEF End
<1>5. \A c \in B : End(sz, c) \in Nat /\ c \in Nat /\ c + 64 <= End(sz, c)
  BY TileEnds, HeapFacts
<1>6. heap_start \in B \ {n}
  <2>1. heap_start <= b
    BY HeapFacts
  <2>2. QED BY <2>1, <1>1, HeapFacts DEF Tiles
<1>7. ASSUME NEW c \in B \ {n}
      PROVE  End(m, c) = heap_end \/ End(m, c) \in B \ {n}
  <2>1. CASE c = b
    <3>1. End(m, c) = End(sz, n) /\ End(sz, n) # n
      BY <2>1, <1>3, <1>5
    <3>2. QED BY <3>1 DEF Tiles
  <2>2. CASE c # b
    <3>1. End(m, c) = End(sz, c)
      BY <2>2, <1>4
    <3>2. End(sz, c) # n
      <4>1. CASE c < b
        BY <4>1, <1>1, <1>5 DEF Tiles
      <4>2. CASE c > b
        <5>1. n <= c
          BY <4>2 DEF Tiles
        <5>2. QED BY <5>1, <1>1, <1>5
      <4>3. QED BY <4>1, <4>2, <2>2, <1>1, <1>5
    <3>3. QED BY <3>1, <3>2 DEF Tiles
  <2>3. QED BY <2>1, <2>2
<1>8. ASSUME NEW c \in B \ {n}, NEW d \in B \ {n}, c < d
      PROVE  End(m, c) <= d
  <2>1. CASE c = b
    <3>1. n <= d
      BY <2>1, <1>8 DEF Tiles
    <3>2. n < d
      BY <3>1, <1>1, <1>5
    <3>3. End(sz, n) <= d
      BY <3>2 DEF Tiles
    <3>4. QED BY <3>3, <2>1, <1>3
  <2>2. CASE c # b
    BY <2>2, <1>4, <1>8 DEF Tiles
  <2>3. QED BY <2>1, <2>2
<1>9. Tiles(B \ {n}, m)
  BY <1>6, <1>7, <1>8 DEF Tiles
<1>10. QED
  BY <1>2, <1>3, <1>4, <1>9

(* Block b of B is cut to k bytes, the rest becomes block n; the size words *)
(* go from sz to m.                                                        *)
SplitInto(B, sz, b, k, n, m) ==
  /\ B \subseteq Slot /\ sz \in [Slot -> Nat] /\ Tiles(B, sz)
  /\ b \in B /\ k \in Nat /\ k % 64 = 0 /\ sz[b] - k > 128
  /\ n = b + 64 + k
  /\ m \in [Slot -> Int] /\ m[n] = sz[b] - k - 64 /\ m[b] = k
  /\ \A c \in Slot : c # b /\ c # n => m[c] = sz[c]

(* Cutting a block in two keeps the heap tiled. *)
LEMMA SplitTiles ==
  ASSUME NEW B, NEW sz, NEW b, NEW k, NEW n, NEW m,
         SplitInto(B, sz, b, k, n, m)
  PROVE  /\ n \in Slot \ B /\ b < n /\ n < End(sz, b)
         /\ m \in [Slot -> Nat]
         /\ Tiles(B \cup {n}, m)
         /\ End(m, b) = n
         /\ End(m, n) = End(sz, b)
<1>0. /\ B \subseteq Slot /\ sz \in [Slot -> Nat] /\ Tiles(B, sz)
      /\ b \in B /\ k \in Nat /\ k % 64 = 0 /\ sz[b] - k > 128
      /\ n = b + 64 + k
      /\ m \in [Slot -> Int] /\ m[n] = sz[b] - k - 64 /\ m[b] = k
      /\ \A c \in Slot : c # b /\ c # n => m[c] = sz[c]
  BY DEF SplitInto
<1>1. /\ b \in Nat /\ sz[b] \in Nat /\ End(sz, b) = b + 64 + sz[b]
      /\ End(sz, b) <= heap_end /\ heap_end \in Nat
  BY <1>0, TileEnds, HeapFacts DEF End, HEADER
<1>2. n = b + 64 + k /\ n < End(sz, b) /\ b < n /\ n \in Nat
  BY <1>0, <1>1 DEF HEADER
<1>3. n \in Slot
  <2>1. b \in Slot /\ b + 64 + k < heap_end
    BY <1>0, <1>1, <1>2
  <2>2. b + 64 + k \in Slot
    BY <1>0, <2>1, SlotStep
  <2>3. QED BY <1>0, <2>2, <1>2
<1>4. n \notin B
  <2>1. SUFFICES ASSUME n \in B PROVE FALSE
    OBVIOUS
  <2>2. End(sz, b) <= n
    BY <1>0, <2>1, <1>2 DEF Tiles
  <2>3. QED BY <1>0, <2>2, <1>1, <1>2
<1>5. sz[b] - k - 64 \in Nat
  BY <1>0, <1>1 DEF HEADER
<1>6. m \in [Slot -> Nat] /\ m[n] = sz[b] - k - 64 /\ m[b] = k
      /\ \A c \in Slot : c # b /\ c # n => m[c] = sz[c]
  BY <1>0, <1>2, <1>3, <1>5
<1>7. End(m, b) = n
  BY <1>0, <1>1, <1>2, <1>6 DEF End, HEADER
<1>8. End(m, n) = End(sz, b)
  BY <1>0, <1>1, <1>2, <1>6 DEF End, HEADER
<1>9. \A c \in B : c # b => End(m, c) = End(sz, c)
  BY <1>0, <1>6, <1>4 DEF End
<1>10. heap_start \in B \cup {n}
  BY <1>0 DEF Tiles
<1>11. ASSUME NEW c \in B \cup {n}
       PROVE  End(m, c) = heap_end \/ End(m, c) \in B \cup {n}
  <2>1. CASE c = b
    BY <1>0, <2>1, <1>7
  <2>2. CASE c = n
    BY <1>0, <2>2, <1>8 DEF Tiles
  <2>3. CASE c \in B /\ c # b
    BY <1>0, <2>3, <1>9 DEF Tiles
  <2>4. QED BY <1>0, <2>1, <2>2, <2>3
<1>12. ASSUME NEW c \in B \cup {n}, NEW d \in B \cup {n}, c < d
       PROVE  End(m, c) <= d
  <2>0. \A e \in B : e \in Nat /\ End(sz, e) \in Nat
    BY <1>0, TileEnds, HeapFacts
  <2>1. CASE c = b /\ d = n
    BY <1>0, <2>1, <1>7, <1>2
  <2>2. CASE c = b /\ d # n
    <3>1. End(sz, b) <= d
      BY <1>0, <2>2, <1>12 DEF Tiles
    <3>2. QED BY <1>0, <3>1, <2>2, <2>0, <1>7, <1>2, <1>1
  <2>3. CASE c = n
    <3>1. d \in B /\ b < d
      BY <1>0, <2>3, <1>12, <1>2, <2>0
    <3>2. End(sz, b) <= d
      BY <1>0, <3>1 DEF Tiles
    <3>3. QED BY <1>0, <3>2, <2>3, <1>8
  <2>4. CASE c \in B /\ c # b /\ d = n
    <3>1. c < b
      <4>1. CASE b < c
        <5>1. End(sz, b) <= c
          BY <1>0, <4>1, <2>4 DEF Tiles
        <5>2. QED BY <1>0, <5>1, <2>4, <1>12, <1>2, <1>1, <2>0
      <4>2. QED BY <1>0, <4>1, <2>4, <2>0, <1>1
    <3>2. End(sz, c) <= b
      BY <1>0, <3>1, <2>4 DEF Tiles
    <3>3. End(m, c) = End(sz, c) /\ End(sz, c) \in Nat
      BY <1>0, <2>4, <2>0, <1>9
    <3>4. QED BY <1>0, <3>2, <3>3, <2>4, <1>1, <1>2
  <2>5. CASE c \in B /\ c # b /\ d \in B
    BY <1>0, <2>5, <1>9, <1>12 DEF Tiles
  <2>6. QED BY <1>0, <2>1, <2>2, <2>3, <2>4, <2>5
<1>13. Tiles(B \cup {n}, m)
  BY <1>0, <1>10, <1>11, <1>12 DEF Tiles
<1>14. QED
  BY <1>0, <1>2, <1>3, <1>4, <1>6, <1>7, <1>8, <1>13

-----------------------------------------------------------------------------
(* A block-wise view of the heap.                                          *)

(* A heap whose callers hold the blocks of L, with the free list l.        *)
WellFormed(L, l, sz, fr) ==
  /\ L \subseteq Slot
  /\ l \in Seq(Slot)
  /\ sz \in [Slot -> Nat]
  /\ fr \in [Slot -> BOOLEAN]
  /\ Ascends(l)
  /\ \A b \in Elems(l) : fr[b]
  /\ \A b \in L : ~fr[b]
  /\ Tiles(L \cup Elems(l), sz)

LEMMA ElemsType ==
  ASSUME NEW S, NEW l \in Seq(S)
  PROVE  Elems(l) \subseteq S
<1>1. DOMAIN l = 1 .. Len(l) /\ \A j \in 1 .. Len(l) : l[j] \in S
  BY LenProperties, ElementOfSeq
<1>2. QED BY <1>1 DEF Elems

LEMMA RemoveSlot ==
  ASSUME NEW l \in Seq(Slot), Ascends(l), NEW i \in 1 .. Len(l),
         NEW b, b = l[i], NEW r, r = RemoveAt(l, i)
  PROVE  /\ r \in Seq(Slot) /\ Ascends(r) /\ Elems(r) = Elems(l) \ {b}
<1>1. Slot \subseteq Nat
  BY HeapFacts
<1>2. QED BY <1>1, RemoveAscends

(* A block b was just linked in: it is the only listed block that can have *)
(* a listed neighbour.                                                     *)
ReadyNext(L, l, sz, fr, b) ==
  /\ WellFormed(L, l, sz, fr)
  /\ b \in Elems(l)
  /\ \A c, d \in Elems(l) : End(sz, c) = d => c = b \/ d = b

(* Only the block below b can still be a listed neighbour. *)
ReadyPrev(L, l, sz, fr, b) ==
  /\ WellFormed(L, l, sz, fr)
  /\ b \in Elems(l)
  /\ \A c, d \in Elems(l) : End(sz, c) = d => d = b

(* The first half of merge_free_blocks leaves b no listed block above. *)
LEMMA MergeNext ==
  ASSUME NEW L, NEW l, NEW sz, NEW fr, NEW b, ReadyNext(L, l, sz, fr, b)
  PROVE  LET m == merge_next(l, sz, fr, b)
         IN ReadyPrev(L, m.list, m.size, fr, b) /\ \A c \in L : m.size[c] = sz[c]
<1> DEFINE m == merge_next(l, sz, fr, b)
           n == End(sz, b)
           B == L \cup Elems(l)
<1>0. /\ WellFormed(L, l, sz, fr) /\ b \in Elems(l)
      /\ \A c, d \in Elems(l) : End(sz, c) = d => c = b \/ d = b
  BY DEF ReadyNext
<1>1. /\ L \subseteq Slot /\ Elems(l) \subseteq Slot /\ B \subseteq Slot
      /\ b \in B /\ Tiles(B, sz) /\ sz \in [Slot -> Nat] /\ fr[b]
      /\ l \in Seq(Slot) /\ Ascends(l)
      /\ L \cap Elems(l) = {}
  BY <1>0, ElemsType DEF WellFormed
<1>2. /\ n \in Nat /\ b \in Nat /\ b < n /\ n <= heap_end /\ heap_end \in Nat
      /\ n < heap_end => n \in B
  <2>1. b \in Nat /\ heap_end \in Nat
    BY <1>0, <1>1, HeapFacts
  <2> HIDE DEF B
  <2>2. /\ End(sz, b) \in Nat /\ b + 64 <= End(sz, b)
        /\ End(sz, b) <= heap_end
        /\ End(sz, b) < heap_end => End(sz, b) \in B
    BY <1>0, <1>1, TileEnds
  <2>3. QED BY <1>0, <2>1, <2>2 DEF ReadyPrev
<1>3. CASE n < heap_end /\ fr[n]
  <2>1. n \in Elems(l) /\ n # b
    BY <1>0, <1>2, <1>3 DEF WellFormed
  <2>2. /\ m.list = RemoveAt(l, Pos(l, n))
        /\ m.size = [sz EXCEPT ![b] = @ + HEADER + sz[n]]
    BY <1>0, <1>3 DEF merge_next, remove_from_free_list
  <2>3. /\ m.list \in Seq(Slot) /\ Ascends(m.list)
        /\ Elems(m.list) = Elems(l) \ {n}
    <3> HIDE DEF m, n
    <3>1. Pos(l, n) \in 1 .. Len(l) /\ l[Pos(l, n)] = n
      BY <1>0, <2>1, <1>1, PosIndex
    <3>2. QED BY <1>0, <3>1, <2>2, <1>1, RemoveSlot
  <2>4. /\ m.size \in [Slot -> Nat]
        /\ Tiles(B \ {n}, m.size)
        /\ End(m.size, b) = End(sz, n)
        /\ \A c \in Slot : c # b => End(m.size, c) = End(sz, c)
    <3>1. n = End(sz, b) /\ n \in B /\ b \in B
      BY <1>0, <2>1
    <3> HIDE DEF m, n, B
    <3>2. /\ m.size \in [Slot -> Nat]
          /\ m.size[b] = sz[b] + HEADER + sz[n]
          /\ \A c \in Slot : c # b => m.size[c] = sz[c]
      BY <1>0, <3>1, <2>2, <1>1 DEF HEADER
    <3>3. B \subseteq Slot /\ sz \in [Slot -> Nat] /\ Tiles(B, sz)
      BY <1>0, <1>1
    <3> DEFINE z == m.size
    <3> HIDE DEF z
    <3>4. /\ z \in [Slot -> Nat]
          /\ z[b] = sz[b] + HEADER + sz[n]
          /\ \A c \in Slot : c # b => z[c] = sz[c]
      BY <1>0, <3>2 DEF z
    <3>5. /\ Tiles(B \ {n}, z)
          /\ End(z, b) = End(sz, n)
          /\ \A c \in Slot : c # b => End(z, c) = End(sz, c)
      BY <1>0, <3>1, <3>3, <3>4, MergeTiles
    <3>6. QED BY <1>0, <3>2, <3>5 DEF z
  <2>5. \A c \in L : m.size[c] = sz[c]
    <3>1. b \notin L
      BY <1>0, <1>1
    <3>2. QED BY <1>0, <3>1, <2>2, <1>1
  <2>6. B \ {n} = L \cup Elems(m.list)
    BY <1>0, <2>1, <2>3, <1>1
  <2>7. WellFormed(L, m.list, m.size, fr)
    BY <1>0, <2>3, <2>4, <2>6 DEF WellFormed
  <2>8. ASSUME NEW c \in Elems(m.list), NEW d \in Elems(m.list),
               End(m.size, c) = d
        PROVE  d = b
    <3>1. CASE c = b
      <4>1. End(sz, n) = d
        BY <1>0, <3>1, <2>4, <2>8
      <4>2. QED BY <1>0, <4>1, <2>1, <2>3
    <3>2. CASE c # b
      <4>1. End(sz, c) = d
        BY <1>0, <3>2, <2>4, <2>8, <2>3, <1>1
      <4>2. QED BY <1>0, <4>1, <3>2, <2>3
    <3>3. QED BY <1>0, <3>1, <3>2
  <2>9. QED BY <1>0, <2>1, <2>3, <2>5, <2>7, <2>8 DEF ReadyPrev
<1>4. CASE ~(n < heap_end /\ fr[n])
  <2>1. m.list = l /\ m.size = sz
    BY <1>0, <1>4 DEF merge_next
  <2>2. ASSUME NEW c \in Elems(l), NEW d \in Elems(l), End(sz, c) = d
        PROVE  d = b
    <3>1. d < heap_end /\ fr[d]
      BY <1>0, <1>1, HeapFacts DEF WellFormed
    <3>2. QED BY <1>0, <3>1, <2>2, <1>4
  <2>3. QED BY <1>0, <2>1, <2>2 DEF ReadyPrev
<1>5. QED BY <1>3, <1>4 DEF ReadyPrev

(* The second half: no two listed blocks are neighbours any more. *)
LEMMA MergePrev ==
  ASSUME NEW L, NEW l, NEW sz, NEW fr, NEW b, ReadyPrev(L, l, sz, fr, b)
  PROVE  LET p == merge_prev(l, sz, fr, b)
         IN /\ WellFormed(L, p.list, p.size, fr)
            /\ \A c \in L : p.size[c] = sz[c]
            /\ \A c, d \in Elems(p.list) : End(p.size, c) # d
<1> DEFINE p == merge_prev(l, sz, fr, b)
           i == Pos(l, b)
           v == l[i - 1]
           B == L \cup Elems(l)
<1>0. /\ WellFormed(L, l, sz, fr) /\ b \in Elems(l)
      /\ \A c, d \in Elems(l) : End(sz, c) = d => d = b
  BY DEF ReadyPrev
<1>1. /\ L \subseteq Slot /\ Elems(l) \subseteq Slot /\ B \subseteq Slot
      /\ b \in B /\ Tiles(B, sz) /\ sz \in [Slot -> Nat]
      /\ l \in Seq(Slot) /\ Ascends(l)
      /\ L \cap Elems(l) = {}
  BY <1>0, ElemsType DEF WellFormed
<1>2. /\ i \in 1 .. Len(l) /\ l[i] = b /\ Len(l) \in Nat
      /\ DOMAIN l = 1 .. Len(l)
  BY <1>0, <1>1, PosIndex, LenProperties
<1> HIDE DEF i
<1>3. CASE i > 1 /\ fr[v] /\ End(sz, v) = b
  <2>1. i - 1 \in DOMAIN l /\ v \in Elems(l)
    BY <1>0, <1>2, <1>3 DEF Elems
  <2>2. /\ p.list = RemoveAt(l, i)
        /\ p.size = [sz EXCEPT ![v] = @ + HEADER + sz[b]]
    BY <1>0, <1>3 DEF merge_prev, i
  <2>3. /\ p.list \in Seq(Slot) /\ Ascends(p.list)
        /\ Elems(p.list) = Elems(l) \ {b}
    <3> HIDE DEF p
    <3>1. QED BY <1>0, <2>2, <1>1, <1>2, RemoveSlot
  <2>4. /\ p.size \in [Slot -> Nat]
        /\ Tiles(B \ {b}, p.size)
        /\ End(p.size, v) = End(sz, b)
        /\ \A c \in Slot : c # v => End(p.size, c) = End(sz, c)
    <3>1. v \in B /\ b = End(sz, v) /\ b \in B
      BY <1>0, <2>1, <1>3
    <3> HIDE DEF v, B, p
    <3>2. /\ p.size \in [Slot -> Nat]
          /\ p.size[v] = sz[v] + HEADER + sz[b]
          /\ \A c \in Slot : c # v => p.size[c] = sz[c]
      BY <1>0, <3>1, <2>2, <1>1 DEF HEADER
    <3>3. B \subseteq Slot /\ sz \in [Slot -> Nat] /\ Tiles(B, sz)
      BY <1>0, <1>1
    <3> DEFINE z == p.size
    <3> HIDE DEF z
    <3>4. /\ z \in [Slot -> Nat]
          /\ z[v] = sz[v] + HEADER + sz[b]
          /\ \A c \in Slot : c # v => z[c] = sz[c]
      BY <1>0, <3>2 DEF z
    <3>5. /\ Tiles(B \ {b}, z)
          /\ End(z, v) = End(sz, b)
          /\ \A c \in Slot : c # v => End(z, c) = End(sz, c)
      BY <1>0, <3>1, <3>3, <3>4, MergeTiles
    <3>6. QED BY <1>0, <3>2, <3>5 DEF z
  <2>5. \A c \in L : p.size[c] = sz[c]
    <3>1. v \notin L
      BY <1>0, <1>1, <2>1
    <3>2. QED BY <1>0, <3>1, <2>2, <1>1
  <2>6. B \ {b} = L \cup Elems(p.list)
    BY <1>0, <2>3, <1>1
  <2>7. WellFormed(L, p.list, p.size, fr)
    BY <1>0, <2>3, <2>4, <2>6 DEF WellFormed
  <2>8. ASSUME NEW c \in Elems(p.list), NEW d \in Elems(p.list),
               End(p.size, c) = d
        PROVE  FALSE
    <3>1. c \in Elems(l) /\ d \in Elems(l) /\ d # b
      BY <1>0, <2>3
    <3>2. CASE c = v
      BY <1>0, <3>1, <3>2, <2>4, <2>8
    <3>3. CASE c # v
      BY <1>0, <3>1, <3>3, <2>4, <2>8, <1>1
    <3>4. QED BY <1>0, <3>2, <3>3
  <2>9. QED BY <1>0, <2>5, <2>7, <2>8
<1>4. CASE ~(i > 1 /\ fr[v] /\ End(sz, v) = b)
  <2>1. p.list = l /\ p.size = sz
    BY <1>0, <1>4 DEF merge_prev, i
  <2>2. ASSUME NEW c \in Elems(l), End(sz, c) = b
        PROVE  FALSE
    <3>1. PICK j \in 1 .. Len(l) : l[j] = c
      BY <1>0, <1>2 DEF Elems
    <3>2. /\ c \in Nat /\ b \in Nat /\ End(sz, c) \in Nat
          /\ c < End(sz, c)
      <4>1. c \in B /\ c \in Slot /\ b \in Slot
        BY <1>1
      <4> HIDE DEF B
      <4>2. End(sz, c) \in Nat /\ c + 64 <= End(sz, c)
        BY <4>1, <1>1, TileEnds
      <4>3. QED BY <4>1, <4>2, HeapFacts
    <3>3. j < i
      <4>1. CASE i < j
        <5>1. b < c
          BY <1>0, <4>1, <3>1, <1>1, <1>2 DEF Ascends
        <5>2. QED BY <1>0, <5>1, <3>2, <2>2
      <4>2. CASE i = j
        BY <1>0, <4>2, <3>1, <3>2, <1>2, <2>2
      <4>3. QED BY <1>0, <4>1, <4>2, <1>2
    <3>4. /\ i > 1 /\ i - 1 \in 1 .. Len(l) /\ v \in Elems(l) /\ fr[v]
      <4>1. i > 1 /\ i - 1 \in DOMAIN l
        BY <1>0, <3>3, <1>2
      <4>2. QED BY <1>0, <4>1, <1>2 DEF Elems, WellFormed
    <3>5. v \in Nat /\ v < b
      <4>1. i - 1 \in DOMAIN l /\ i \in DOMAIN l /\ i - 1 < i
        BY <1>0, <3>4, <1>2
      <4>2. l[i - 1] < l[i]
        BY <1>0, <4>1, <1>1 DEF Ascends
      <4>3. QED BY <1>0, <4>2, <3>4, <1>1, <1>2, HeapFacts
    <3>6. CASE j = i - 1
      BY <1>0, <3>6, <3>1, <3>4, <2>2, <1>4
    <3>7. CASE j < i - 1
      <4>1. c < v
        BY <1>0, <3>7, <3>1, <3>4, <1>1, <1>2 DEF Ascends
      <4>2. End(sz, c) <= v
        BY <1>0, <4>1, <3>4, <1>1 DEF Tiles
      <4>3. QED BY <1>0, <4>2, <3>5, <3>2, <2>2
    <3>8. QED BY <1>0, <3>3, <3>6, <3>7, <1>2
  <2>3. QED BY <1>0, <2>1, <2>2
<1>5. QED BY <1>3, <1>4

-----------------------------------------------------------------------------
(* The invariant. *)

(* Inductive: the callers' blocks and the listed ones make a well-formed   *)
(* heap, no two listed blocks are adjacent, and a stale pointer still      *)
(* points at a header that says free.                                      *)
HeapInv ==
  /\ WellFormed(DOMAIN live, free_list, size, is_free)
  /\ \A c, d \in Elems(free_list) : End(size, c) # d
  /\ \A c \in DOMAIN live : live[c] \in Requests
  /\ stale \subseteq Slot
  /\ \A c \in stale : is_free[c]

LEMMA InvImplies ==
  ASSUME HeapInv
  PROVE  TypeOK /\ ListAscends /\ FlagsAgree /\ Tiled /\ Coalesced
         /\ StaleDetected
<1>1. FreeBlocks = Elems(free_list)
  BY DEF FreeBlocks, Elems
<1>2. TypeOK
  BY DEF HeapInv, WellFormed, TypeOK
<1>3. ListAscends
  BY DEF HeapInv, WellFormed, ListAscends, Ascends
<1>4. FlagsAgree
  BY <1>1 DEF HeapInv, WellFormed, FlagsAgree
<1>5. Tiled
  BY <1>1 DEF HeapInv, WellFormed, Tiled, Blocks
<1>6. Coalesced
  BY <1>1 DEF HeapInv, Coalesced
<1>7. StaleDetected
  BY DEF HeapInv, StaleDetected
<1>8. QED BY <1>2, <1>3, <1>4, <1>5, <1>6, <1>7

LEMMA InitInv == Init => HeapInv
<1> SUFFICES ASSUME Init PROVE HeapInv
  OBVIOUS
<1>1. /\ heap_start \in Slot /\ heap_start \in Nat /\ heap_end \in Nat
      /\ heap_total_size \in Nat /\ heap_total_size > 64
      /\ heap_end = heap_start + heap_total_size
  BY HeapFacts
<1>2. /\ free_list = <<heap_start>> /\ stale = {} /\ live = << >>
      /\ DOMAIN free_list = {1} /\ Elems(free_list) = {heap_start}
  BY DEF Init, Elems
<1>3. DOMAIN live = {}
  BY <1>2
<1>4. /\ size \in [Slot -> Nat] /\ size[heap_start] = heap_total_size - 64
      /\ is_free \in [Slot -> BOOLEAN] /\ is_free[heap_start]
  <2>1. heap_total_size - HEADER \in Nat
    BY <1>1 DEF HEADER
  <2>2. size \in [Slot -> Nat] /\ size[heap_start] = heap_total_size - 64
    BY <1>1, <2>1 DEF Init, HEADER
  <2>3. is_free \in [Slot -> BOOLEAN]
    BY DEF Init
  <2>4. is_free[heap_start]
    BY <1>1 DEF Init
  <2>5. QED BY <2>2, <2>3, <2>4
<1>5. End(size, heap_start) = heap_end
  BY <1>1, <1>4 DEF End, HEADER
<1>6. Tiles({heap_start}, size)
  BY <1>1, <1>5 DEF Tiles
<1>7. free_list \in Seq(Slot) /\ Ascends(free_list)
  BY <1>1, <1>2 DEF Ascends
<1>8. WellFormed(DOMAIN live, free_list, size, is_free)
  <2>1. DOMAIN live \cup Elems(free_list) = {heap_start}
    BY <1>2, <1>3
  <2>2. QED BY <2>1, <1>2, <1>3, <1>4, <1>6, <1>7 DEF WellFormed
<1>9. \A c, d \in Elems(free_list) : End(size, c) # d
  BY <1>1, <1>2, <1>5
<1>10. QED BY <1>2, <1>3, <1>8, <1>9 DEF HeapInv

(* What a successful search returns. *)
LEMMA BestFitBlock ==
  ASSUME HeapInv, NEW n \in Requests, NEW i \in DOMAIN free_list,
         BestFit(MEM_ALIGN(n), i)
  PROVE  /\ free_list[i] \in Elems(free_list)
         /\ free_list[i] \in Slot
         /\ i \in 1 .. Len(free_list)
         /\ size[free_list[i]] >= MEM_ALIGN(n)
         /\ MEM_ALIGN(n) \in Nat /\ MEM_ALIGN(n) % 64 = 0
<1>1. n \in 0 .. SizeMod - 1
  BY HeapConstants
<1>2. free_list \in Seq(Slot) /\ DOMAIN free_list = 1 .. Len(free_list)
  BY LenProperties DEF HeapInv, WellFormed
<1>3. QED
  BY <1>1, <1>2, AlignUp, ElemsType DEF BestFit, Fits, Elems

(* Handing out b leaves no stale header inside it. *)
LEMMA HandOutStale ==
  ASSUME NEW b \in Slot, NEW n, NEW sz, HandOut(b, n, sz),
         stale \subseteq Slot, End(sz, b) \in Nat, b < End(sz, b)
  PROVE  /\ stale' \subseteq stale
         /\ b \notin stale'
         /\ \A a \in stale' : a < b \/ a >= End(sz, b)
         /\ DOMAIN live' = DOMAIN live \cup {b}
         /\ live'[b] = n
         /\ \A c \in DOMAIN live : c # b => live'[c] = live[c]
BY HeapFacts DEF HandOut

(* Handing out the whole best fit keeps the invariant. *)
LEMMA AllocWholeInv ==
  ASSUME HeapInv, NEW n \in Requests, AllocWhole(n)
  PROVE  /\ HeapInv'
         /\ \A c \in DOMAIN live : size'[c] = size[c]
         /\ \E b \in DOMAIN live' \ DOMAIN live :
              /\ live' = [c \in DOMAIN live \cup {b} |->
                            IF c = b THEN n ELSE live[c]]
              /\ size'[b] >= MEM_ALIGN(n) /\ n # 0
<1>1. PICK i \in DOMAIN free_list :
        /\ BestFit(MEM_ALIGN(n), i)
        /\ free_list' = RemoveAt(free_list, i)
        /\ is_free' = [is_free EXCEPT ![free_list[i]] = FALSE]
        /\ size' = size
        /\ HandOut(free_list[i], n, size)
  BY DEF AllocWhole
<1> DEFINE b == free_list[i]
           L == DOMAIN live
<1>2. /\ b \in Elems(free_list) /\ b \in Slot /\ i \in 1 .. Len(free_list)
      /\ size[b] >= MEM_ALIGN(n) /\ n # 0
  BY <1>1, BestFitBlock DEF AllocWhole
<1>3. /\ L \subseteq Slot /\ Elems(free_list) \subseteq Slot
      /\ free_list \in Seq(Slot) /\ Ascends(free_list)
      /\ size \in [Slot -> Nat] /\ is_free \in [Slot -> BOOLEAN]
      /\ Tiles(L \cup Elems(free_list), size)
      /\ \A c \in Elems(free_list) : is_free[c]
      /\ \A c \in L : ~is_free[c]
  BY ElemsType DEF HeapInv, WellFormed
<1>4. b \notin L
  BY <1>2, <1>3
<1>5. /\ free_list' \in Seq(Slot) /\ Ascends(free_list')
      /\ Elems(free_list') = Elems(free_list) \ {b}
  BY <1>1, <1>2, <1>3, RemoveSlot
<1>6. End(size, b) \in Nat /\ b < End(size, b)
  <2>1. b \in L \cup Elems(free_list) /\ L \cup Elems(free_list) \subseteq Slot
    BY <1>2, <1>3
  <2>2. End(size, b) \in Nat /\ b + 64 <= End(size, b) /\ b \in Nat
    BY <2>1, <1>2, <1>3, TileEnds, HeapFacts
  <2>3. QED BY <2>2
<1>7. /\ stale' \subseteq stale /\ b \notin stale'
      /\ DOMAIN live' = L \cup {b} /\ live'[b] = n
      /\ \A c \in L : c # b => live'[c] = live[c]
  BY <1>1, <1>2, <1>6, HandOutStale DEF HeapInv
<1> HIDE DEF b, L
<1>8. /\ is_free' \in [Slot -> BOOLEAN] /\ ~is_free'[b]
      /\ \A c \in Slot : c # b => is_free'[c] = is_free[c]
  BY <1>1, <1>2, <1>3 DEF b
<1>9. WellFormed(DOMAIN live, free_list, size, is_free)'
  <2>1. DOMAIN live' \cup Elems(free_list') = L \cup Elems(free_list)
    BY <1>2, <1>5, <1>7
  <2>2. DOMAIN live' \subseteq Slot
    BY <1>2, <1>3, <1>7
  <2>3. \A c \in Elems(free_list') : is_free'[c]
    BY <1>3, <1>5, <1>8
  <2>4. \A c \in DOMAIN live' : ~is_free'[c]
    BY <1>3, <1>7, <1>8
  <2>5. QED
    BY <1>1, <1>3, <1>5, <1>8, <2>1, <2>2, <2>3, <2>4 DEF WellFormed
<1>10. \A c, d \in Elems(free_list') : End(size', c) # d
  BY <1>1, <1>5 DEF HeapInv
<1>11. \A c \in DOMAIN live' : live'[c] \in Requests
  BY <1>7 DEF HeapInv, L
<1>12. stale' \subseteq Slot /\ \A c \in stale' : is_free'[c]
  BY <1>7, <1>8 DEF HeapInv
<1>13. HeapInv'
  <2>1. (\A c, d \in Elems(free_list) : End(size, c) # d)'
    BY <1>10
  <2>2. QED BY <1>9, <2>1, <1>11, <1>12 DEF HeapInv
<1>14. live' = [c \in DOMAIN live \cup {b} |-> IF c = b THEN n ELSE live[c]]
  BY <1>1 DEF HandOut, b
<1>15. QED
  BY <1>1, <1>2, <1>4, <1>7, <1>13, <1>14 DEF L

(* Cutting the best fit keeps the invariant: the rest cannot be adjacent   *)
(* to a free block, because the block it was cut from was not.             *)
LEMMA AllocSplitsInv ==
  ASSUME HeapInv, NEW n \in Requests, AllocSplits(n)
  PROVE  /\ HeapInv'
         /\ \A c \in DOMAIN live : size'[c] = size[c]
         /\ \E b \in DOMAIN live' \ DOMAIN live :
              /\ live' = [c \in DOMAIN live \cup {b} |->
                            IF c = b THEN n ELSE live[c]]
              /\ size'[b] >= MEM_ALIGN(n) /\ n # 0
<1> DEFINE k == MEM_ALIGN(n)
<1>1. PICK i \in DOMAIN free_list :
        LET b == free_list[i]
            r == b + HEADER + k
            sz == [size EXCEPT ![r] = size[b] - k - HEADER, ![b] = k]
        IN /\ BestFit(k, i)
           /\ Splits(b, k)
           /\ size' = sz
           /\ free_list' = add_to_free_list(RemoveAt(free_list, i), r)
           /\ is_free' = [is_free EXCEPT ![r] = TRUE, ![b] = FALSE]
           /\ HandOut(b, n, sz)
  BY DEF AllocSplits
<1> DEFINE b == free_list[i]
           r == b + HEADER + k
           L == DOMAIN live
           F == Elems(free_list)
<1>2. /\ b \in F /\ b \in Slot /\ i \in 1 .. Len(free_list)
      /\ k \in Nat /\ k % 64 = 0 /\ n # 0
  BY <1>1, BestFitBlock DEF AllocSplits
<1>3. /\ L \subseteq Slot /\ F \subseteq Slot /\ L \cup F \subseteq Slot
      /\ free_list \in Seq(Slot) /\ Ascends(free_list)
      /\ size \in [Slot -> Nat] /\ is_free \in [Slot -> BOOLEAN]
      /\ Tiles(L \cup F, size)
      /\ \A c \in F : is_free[c]
      /\ \A c \in L : ~is_free[c]
      /\ \A c, d \in F : End(size, c) # d
  BY ElemsType DEF HeapInv, WellFormed
<1>4. b \notin L /\ b \in L \cup F
  BY <1>2, <1>3
<1>5. size[b] - k > 128
  BY <1>1 DEF Splits, HEADER, MIN_BLOCK_SIZE
<1>6. /\ End(size, b) = b + 64 + size[b] /\ End(size, b) <= heap_end
      /\ b \in Nat /\ size[b] \in Nat /\ heap_end \in Nat
      /\ r = b + 64 + k /\ r < heap_end
  <2> HIDE DEF k, F, L
  <2>1. /\ End(size, b) = b + 64 + size[b] /\ r = b + 64 + k
        /\ b \in Nat /\ size[b] \in Nat /\ heap_end \in Nat
    BY <1>2, <1>3, HeapFacts DEF End, HEADER
  <2>2. End(size, b) <= heap_end
    BY <1>3, <1>4, TileEnds
  <2>3. QED BY <2>1, <2>2, <1>2, <1>5
<1> HIDE DEF b, k, L, F
<1>7. r \in Slot /\ r # b
  <2>1. b + 64 + k < heap_end /\ b < b + 64 + k
    BY <1>2, <1>6
  <2>2. b + 64 + k \in Slot
    BY <2>1, <1>2, SlotStep
  <2>3. QED BY <2>1, <2>2, <1>6
<1>8. /\ size' \in [Slot -> Int] /\ size'[r] = size[b] - k - HEADER
      /\ size'[b] = k
      /\ \A c \in Slot : c # b /\ c # r => size'[c] = size[c]
  <2>1. size[b] - k - HEADER \in Int
    BY <1>2, <1>6 DEF HEADER
  <2>2. size' = [size EXCEPT ![r] = size[b] - k - HEADER, ![b] = k]
    BY <1>1 DEF b
  <2> HIDE DEF r
  <2>3. QED BY <2>1, <2>2, <1>2, <1>3, <1>7
<1>9. /\ r \in Slot \ (L \cup F) /\ b < r /\ r < End(size, b)
      /\ size' \in [Slot -> Nat]
      /\ Tiles((L \cup F) \cup {r}, size')
      /\ End(size', b) = r
      /\ End(size', r) = End(size, b)
  <2> DEFINE B == L \cup F
  <2>1. r = b + 64 + k /\ b \in B /\ B \subseteq Slot /\ Tiles(B, size)
    BY <1>3, <1>4, <1>6
  <2> HIDE DEF r, B
  <2>2. /\ r \in Slot \ B /\ b < r /\ r < End(size, b)
        /\ size' \in [Slot -> Nat]
        /\ Tiles(B \cup {r}, size')
        /\ End(size', b) = r
        /\ End(size', r) = End(size, b)
    <3> DEFINE z == size'
    <3>1. /\ z \in [Slot -> Int] /\ z[r] = size[b] - k - 64 /\ z[b] = k
          /\ \A c \in Slot : c # b /\ c # r => z[c] = size[c]
          /\ k \in Nat /\ k % 64 = 0 /\ size \in [Slot -> Nat]
      BY <1>8, <1>2, <1>3 DEF HEADER
    <3> HIDE DEF z
    <3>2. /\ r \in Slot \ B /\ b < r /\ r < End(size, b)
          /\ z \in [Slot -> Nat]
          /\ Tiles(B \cup {r}, z)
          /\ End(z, b) = r
          /\ End(z, r) = End(size, b)
      <4>1. SplitInto(B, size, b, k, r, z)
        BY <1>5, <2>1, <3>1 DEF SplitInto
      <4>2. QED BY <4>1, SplitTiles
    <3>3. QED BY <3>2 DEF z
  <2>3. QED BY <2>2 DEF B
<1>10. /\ free_list' \in Seq(Slot) /\ Ascends(free_list')
       /\ Elems(free_list') = (F \ {b}) \cup {r}
  <2> DEFINE q == RemoveAt(free_list, i)
  <2>1. q \in Seq(Slot) /\ Ascends(q) /\ Elems(q) = F \ {b}
    BY <1>2, <1>3, RemoveSlot DEF b, F
  <2>2. free_list' = add_to_free_list(q, r)
    BY <1>1 DEF b
  <2> HIDE DEF q, r
  <2>3. r \notin Elems(q) /\ r \in Slot
    BY <2>1, <1>9
  <2>4. QED BY <2>1, <2>2, <2>3, AddSlot
<1>11. /\ is_free' \in [Slot -> BOOLEAN] /\ ~is_free'[b] /\ is_free'[r]
       /\ \A c \in Slot : c # b /\ c # r => is_free'[c] = is_free[c]
  <2>1. is_free' = [is_free EXCEPT ![r] = TRUE, ![b] = FALSE]
    BY <1>1 DEF b
  <2> HIDE DEF r
  <2>2. QED BY <2>1, <1>2, <1>3, <1>7
<1>12. /\ stale' \subseteq stale /\ b \notin stale'
       /\ DOMAIN live' = L \cup {b} /\ live'[b] = n
       /\ \A c \in L : c # b => live'[c] = live[c]
       /\ HandOut(b, n, size')
  <2>1. HandOut(b, n, size')
    BY <1>1 DEF b
  <2>2. End(size', b) \in Nat /\ b < End(size', b) /\ stale \subseteq Slot
    BY <1>9, <1>6, HeapFacts DEF HeapInv
  <2>3. QED BY <2>1, <2>2, <1>2, HandOutStale DEF L
<1> HIDE DEF r
<1>13. WellFormed(DOMAIN live, free_list, size, is_free)'
  <2>1. DOMAIN live' \cup Elems(free_list') = (L \cup F) \cup {r}
    BY <1>2, <1>10, <1>12
  <2>2. DOMAIN live' \subseteq Slot
    BY <1>2, <1>3, <1>12
  <2>3. \A c \in Elems(free_list') : is_free'[c]
    BY <1>3, <1>10, <1>11
  <2>4. \A c \in DOMAIN live' : ~is_free'[c]
    BY <1>3, <1>9, <1>11, <1>12
  <2>5. QED
    BY <1>9, <1>10, <1>11, <2>1, <2>2, <2>3, <2>4 DEF WellFormed
<1>14. ASSUME NEW c \in Elems(free_list'), NEW d \in Elems(free_list'),
              End(size', c) = d
       PROVE  FALSE
  <2>1. CASE c = r
    <3>1. d = End(size, b) /\ d # r /\ d \in F
      BY <2>1, <1>9, <1>10, <1>14, <1>6, HeapFacts
    <3>2. QED BY <3>1, <1>2, <1>3
  <2>2. CASE c # r
    <3>1. c \in F /\ c # b /\ End(size', c) = End(size, c)
      BY <2>2, <1>10, <1>8, <1>3 DEF End
    <3>2. CASE d = r
      <4>1. c \in Nat /\ End(size, c) \in Nat /\ c < End(size, c)
        <5>1. c \in L \cup F
          BY <3>1
        <5>2. End(size, c) \in Nat /\ c + 64 <= End(size, c)
          BY <5>1, <1>3, TileEnds
        <5>3. QED BY <5>2, <3>1, <1>3, HeapFacts
      <4>a. End(size, c) = r /\ c \in L \cup F /\ r \in Nat
        BY <3>1, <3>2, <1>14, <1>9, HeapFacts
      <4>2. CASE c < b
        <5>1. End(size, c) <= b
          BY <4>2, <4>a, <1>3, <1>4 DEF Tiles
        <5>2. QED BY <5>1, <4>a, <1>6, <1>9
      <4>3. CASE b < c
        <5>1. End(size, b) <= c
          BY <4>3, <4>a, <1>3, <1>4 DEF Tiles
        <5>2. QED BY <5>1, <4>a, <4>1, <1>6, <1>9
      <4>4. QED BY <4>1, <4>2, <4>3, <3>1, <1>6
    <3>3. CASE d # r
      BY <3>1, <3>3, <1>3, <1>10, <1>14
    <3>4. QED BY <3>2, <3>3
  <2>3. QED BY <2>1, <2>2
<1>15. \A c \in DOMAIN live' : live'[c] \in Requests
  BY <1>12 DEF HeapInv, L
<1>16. stale' \subseteq Slot /\ \A c \in stale' : is_free'[c]
  BY <1>11, <1>12 DEF HeapInv
<1>17. HeapInv'
  <2>1. (\A c, d \in Elems(free_list) : End(size, c) # d)'
    BY <1>14
  <2>2. QED BY <1>13, <2>1, <1>15, <1>16 DEF HeapInv
<1>18. \A c \in DOMAIN live : size'[c] = size[c]
  BY <1>3, <1>4, <1>8, <1>9 DEF L
<1>19. /\ live' = [c \in DOMAIN live \cup {b} |->
                     IF c = b THEN n ELSE live[c]]
       /\ size'[b] >= k
  BY <1>12, <1>8, <1>2 DEF HandOut
<1>20. QED
  BY <1>2, <1>4, <1>12, <1>17, <1>18, <1>19 DEF L, k

(* A free of a held block keeps the invariant. *)
LEMMA FreeMergesInv ==
  ASSUME HeapInv, NEW ptr \in FreeArguments, FreeMerges(ptr)
  PROVE  /\ HeapInv'
         /\ ptr - HEADER \in DOMAIN live
         /\ live' = [c \in DOMAIN live \ {ptr - HEADER} |-> live[c]]
         /\ \A c \in DOMAIN live' : size'[c] = size[c]
<1> DEFINE b == ptr - HEADER
           L == DOMAIN live
           F == Elems(free_list)
           K == L \ {b}
           l == add_to_free_list(free_list, b)
           free == [is_free EXCEPT ![b] = TRUE]
           m == merge_next(l, size, free, b)
           p == merge_prev(m.list, m.size, free, b)
<1>1. /\ ptr # NULL /\ b \in Slot /\ ~is_free[b]
      /\ is_free' = free /\ free_list' = p.list /\ size' = p.size
      /\ live' = [c \in K |-> live[c]]
      /\ stale' = stale \cup {b}
  BY DEF FreeMerges
<1>2. /\ L \subseteq Slot /\ F \subseteq Slot
      /\ free_list \in Seq(Slot) /\ Ascends(free_list)
      /\ size \in [Slot -> Nat] /\ is_free \in [Slot -> BOOLEAN]
      /\ Tiles(L \cup F, size)
      /\ \A c \in F : is_free[c]
      /\ \A c \in L : ~is_free[c]
      /\ \A c, d \in F : End(size, c) # d
      /\ stale \subseteq Slot /\ \A c \in stale : is_free[c]
  BY ElemsType DEF HeapInv, WellFormed
<1>3. b \in L
  <2>1. CASE ptr \in {c + HEADER : c \in L \cup stale}
    <3>1. PICK c \in L \cup stale : ptr = c + HEADER
      BY <2>1
    <3>0. c \in Nat
      BY <1>2, HeapFacts
    <3>2. c = b
      BY <3>0, <3>1 DEF HEADER
    <3>3. QED BY <3>1, <3>2, <1>1, <1>2
  <2>2. CASE ptr \in Foreign
    <3>1. b < heap_start \/ b >= heap_end
      BY <2>2, HeapConstants
    <3>2. heap_start <= b /\ b < heap_end /\ b \in Nat
          /\ heap_start \in Nat /\ heap_end \in Nat
      BY <1>1, HeapFacts
    <3> HIDE DEF b
    <3>3. QED BY <3>1, <3>2
  <2>3. QED BY <2>1, <2>2, <1>1 DEF FreeArguments
<1>4. b \notin F
  BY <1>1, <1>2
<1> HIDE DEF b, F
<1>5. /\ l \in Seq(Slot) /\ Ascends(l) /\ Elems(l) = F \cup {b}
  BY <1>1, <1>2, <1>4, AddSlot DEF F
<1>6. /\ free \in [Slot -> BOOLEAN] /\ free[b]
      /\ \A c \in Slot : c # b => free[c] = is_free[c]
  BY <1>1, <1>2
<1> HIDE DEF l, free
<1>7. WellFormed(K, l, size, free)
  <2>1. K \cup Elems(l) = L \cup F
    BY <1>3, <1>5
  <2>2. \A c \in Elems(l) : free[c]
    BY <1>2, <1>4, <1>5, <1>6
  <2>3. \A c \in K : ~free[c]
    BY <1>2, <1>6
  <2>4. K \subseteq Slot
    BY <1>2
  <2>5. QED BY <1>2, <1>5, <1>6, <2>1, <2>2, <2>3, <2>4 DEF WellFormed
<1>8. /\ b \in Elems(l)
      /\ \A c, d \in Elems(l) : End(size, c) = d => c = b \/ d = b
  BY <1>2, <1>5
<1> HIDE DEF K
<1>9. /\ WellFormed(K, m.list, m.size, free)
      /\ b \in Elems(m.list)
      /\ \A c \in K : m.size[c] = size[c]
      /\ \A c, d \in Elems(m.list) : End(m.size, c) = d => d = b
  <2>1. ReadyNext(K, l, size, free, b)
    BY <1>7, <1>8 DEF ReadyNext
  <2>2. ReadyPrev(K, m.list, m.size, free, b) /\ \A c \in K : m.size[c] = size[c]
    BY <2>1, MergeNext
  <2> HIDE DEF m
  <2>3. QED BY <2>2 DEF ReadyPrev
<1> HIDE DEF m
<1>10. /\ WellFormed(K, p.list, p.size, free)
       /\ \A c \in K : p.size[c] = m.size[c]
       /\ \A c, d \in Elems(p.list) : End(p.size, c) # d
  <2>1. ReadyPrev(K, m.list, m.size, free, b)
    BY <1>9 DEF ReadyPrev
  <2>2. QED BY <2>1, MergePrev
<1> HIDE DEF p
<1>11. DOMAIN live' = K /\ \A c \in K : live'[c] = live[c]
  BY <1>1
<1>12. WellFormed(DOMAIN live, free_list, size, is_free)'
  BY <1>1, <1>10, <1>11
<1>13. (\A c, d \in Elems(free_list) : End(size, c) # d)'
  BY <1>1, <1>10
<1>14. \A c \in DOMAIN live' : live'[c] \in Requests
  BY <1>11 DEF HeapInv, K
<1>15. stale' \subseteq Slot /\ \A c \in stale' : is_free'[c]
  BY <1>1, <1>2, <1>6
<1>16. HeapInv'
  BY <1>12, <1>13, <1>14, <1>15 DEF HeapInv
<1>17. \A c \in K : size'[c] = size[c]
  BY <1>1, <1>9, <1>10
<1>18. QED
  BY <1>1, <1>3, <1>11, <1>16, <1>17 DEF b, K

LEMMA StutterInv ==
  ASSUME HeapInv, UNCHANGED vars
  PROVE  HeapInv'
BY DEF HeapInv, WellFormed, vars, Elems, Ascends, Tiles, End

(* Every step keeps the invariant. *)
LEMMA NextInv == HeapInv /\ [Next]_vars => HeapInv'
<1> SUFFICES ASSUME HeapInv, [Next]_vars PROVE HeapInv'
  OBVIOUS
<1>1. ASSUME NEW n \in Requests, t_mem_alloc(n)
      PROVE  HeapInv'
  <2>1. CASE AllocFails(n)
    BY <2>1, StutterInv DEF AllocFails
  <2>2. CASE AllocSplits(n)
    BY <2>2, AllocSplitsInv
  <2>3. CASE AllocWhole(n)
    BY <2>3, AllocWholeInv
  <2>4. QED BY <1>1, <2>1, <2>2, <2>3 DEF t_mem_alloc
<1>2. ASSUME NEW ptr \in FreeArguments, t_mem_free(ptr)
      PROVE  HeapInv'
  <2>1. CASE FreeIgnored(ptr)
    BY <2>1, StutterInv DEF FreeIgnored
  <2>2. CASE FreeMerges(ptr)
    BY <2>2, FreeMergesInv
  <2>3. QED BY <1>2, <2>1, <2>2 DEF t_mem_free
<1>3. QED BY <1>1, <1>2, StutterInv DEF Next

(* In every reachable state of every heap: the variables have their types, *)
(* the list ascends, the is_free words agree with the list, the blocks     *)
(* tile the heap without a gap or an overlap, no two adjacent blocks are   *)
(* both free, and a pointer freed twice is detected.                       *)
THEOREM HeapIsSound ==
  Spec => [](TypeOK /\ ListAscends /\ FlagsAgree /\ Tiled /\ Coalesced
             /\ StaleDetected)
<1>1. Init => HeapInv
  BY InitInv
<1>2. HeapInv /\ [Next]_vars => HeapInv'
  BY NextInv
<1>3. HeapInv => TypeOK /\ ListAscends /\ FlagsAgree /\ Tiled /\ Coalesced
                 /\ StaleDetected
  BY InvImplies
<1>4. QED BY <1>1, <1>2, <1>3, PTL DEF Spec

(* The list that the allocator searches, merges by and counts is sorted,   *)
(* agrees with the is_free words and is fully merged, in every heap.       *)
THEOREM FreeListIsSound == Spec => []FreeListSound
<1>1. HeapInv => FreeListSound
  BY InvImplies DEF FreeListSound
<1>2. QED BY <1>1, InitInv, NextInv, PTL DEF Spec

(* t_mem_free's test of is_free catches every second free of a block whose *)
(* header memory was not handed out again, whatever absorbed it since.     *)
THEOREM DoubleFreesAreDetected == Spec => []StaleDetected
<1>1. HeapInv => StaleDetected
  BY InvImplies
<1>2. QED BY <1>1, InitInv, NextInv, PTL DEF Spec

(* What a step does to the callers' blocks: nothing, one more, one less;   *)
(* and it never rewrites the size of a block that stays in use.            *)
LEMMA StepKinds ==
  ASSUME HeapInv, [Next]_vars
  PROVE  /\ \/ live' = live
            \/ \E n \in Requests : \E b \in DOMAIN live' \ DOMAIN live :
                 /\ live' = [c \in DOMAIN live \cup {b} |->
                               IF c = b THEN n ELSE live[c]]
                 /\ size'[b] >= MEM_ALIGN(n) /\ n # 0
            \/ \E b \in DOMAIN live :
                 live' = [c \in DOMAIN live \ {b} |-> live[c]]
         /\ \A c \in DOMAIN live \cap DOMAIN live' : size'[c] = size[c]
<1>1. CASE UNCHANGED vars
  BY <1>1 DEF vars
<1>2. ASSUME NEW n \in Requests, t_mem_alloc(n)
      PROVE  /\ \/ live' = live
                \/ \E b \in DOMAIN live' \ DOMAIN live :
                     /\ live' = [c \in DOMAIN live \cup {b} |->
                                   IF c = b THEN n ELSE live[c]]
                     /\ size'[b] >= MEM_ALIGN(n) /\ n # 0
             /\ \A c \in DOMAIN live \cap DOMAIN live' : size'[c] = size[c]
  <2>1. CASE AllocFails(n)
    BY <2>1 DEF AllocFails, vars
  <2>2. CASE AllocSplits(n)
    BY <2>2, AllocSplitsInv
  <2>3. CASE AllocWhole(n)
    BY <2>3, AllocWholeInv
  <2>4. QED BY <1>2, <2>1, <2>2, <2>3 DEF t_mem_alloc
<1>3. ASSUME NEW ptr \in FreeArguments, t_mem_free(ptr)
      PROVE  /\ \/ live' = live
                \/ \E b \in DOMAIN live :
                     live' = [c \in DOMAIN live \ {b} |-> live[c]]
             /\ \A c \in DOMAIN live \cap DOMAIN live' : size'[c] = size[c]
  <2>1. CASE FreeIgnored(ptr)
    BY <2>1 DEF FreeIgnored, vars
  <2>2. CASE FreeMerges(ptr)
    BY <2>2, FreeMergesInv
  <2>3. QED BY <1>3, <2>1, <2>2 DEF t_mem_free
<1>4. QED BY <1>1, <1>2, <1>3 DEF Next

(* No call rewrites the header of a block another caller holds, whatever   *)
(* the list, the splits and the merges around it do.                       *)
THEOREM LiveHeadersAreStable == Spec => LiveHeadersStable
<1>1. HeapInv /\ [Next]_vars =>
        [\A b \in DOMAIN live \cap DOMAIN live' :
           live'[b] = live[b] => size'[b] = size[b] /\ ~is_free'[b]]_vars
  <2> SUFFICES ASSUME HeapInv, [Next]_vars,
                      NEW b \in DOMAIN live \cap DOMAIN live'
               PROVE  size'[b] = size[b] /\ ~is_free'[b]
    OBVIOUS
  <2>1. size'[b] = size[b]
    BY StepKinds
  <2>2. HeapInv'
    BY NextInv
  <2>3. QED BY <2>1, <2>2 DEF HeapInv, WellFormed
<1>2. QED
  BY <1>1, InitInv, NextInv, PTL DEF Spec, LiveHeadersStable

(* When all is freed the heap is one block again: no history of splits and *)
(* merges leaves it fragmented.                                            *)
LEMMA EmptyHeap ==
  ASSUME HeapInv
  PROVE  AllFreeRestores
<1> SUFFICES ASSUME live = << >>
             PROVE  /\ free_list = <<heap_start>>
                    /\ size[heap_start] = heap_total_size - HEADER
  BY DEF AllFreeRestores
<1> DEFINE F == Elems(free_list)
<1>1. /\ Tiles(F, size) /\ F \subseteq Slot /\ free_list \in Seq(Slot)
      /\ size \in [Slot -> Nat] /\ Ascends(free_list)
      /\ \A c, d \in F : End(size, c) # d
  <2>1. DOMAIN live = {}
    OBVIOUS
  <2>2. QED BY <2>1, ElemsType DEF HeapInv, WellFormed
<1> HIDE DEF F
<1>2. heap_start \in F /\ End(size, heap_start) = heap_end
  BY <1>1 DEF Tiles
<1>3. \A c \in F : c = heap_start
  <2> SUFFICES ASSUME NEW c \in F, c # heap_start PROVE FALSE
    OBVIOUS
  <2>1. /\ heap_start <= c /\ c < heap_end /\ c \in Nat /\ heap_start \in Nat
        /\ heap_end \in Nat
    BY <1>1, HeapFacts
  <2>2. heap_end <= c
    BY <2>1, <1>1, <1>2 DEF Tiles
  <2>3. QED BY <2>1, <2>2
<1>4. Len(free_list) = 1 /\ free_list[1] = heap_start
  <2>1. /\ DOMAIN free_list = 1 .. Len(free_list) /\ Len(free_list) \in Nat
        /\ \A j \in 1 .. Len(free_list) : free_list[j] = heap_start
    BY <1>1, <1>3, LenProperties DEF F, Elems
  <2>2. Len(free_list) # 0
    BY <2>1, <1>2 DEF F, Elems
  <2>3. ~(2 <= Len(free_list))
    <3> SUFFICES ASSUME 2 <= Len(free_list) PROVE FALSE
      OBVIOUS
    <3>1. 1 \in DOMAIN free_list /\ 2 \in DOMAIN free_list
      BY <2>1
    <3>2. free_list[1] < free_list[2]
      BY <3>1, <1>1 DEF Ascends
    <3>3. free_list[1] = heap_start /\ free_list[2] = heap_start
      BY <3>1, <2>1
    <3>4. QED BY <3>2, <3>3, HeapFacts
  <2>4. QED BY <2>1, <2>2, <2>3
<1>5. free_list = <<heap_start>>
  <2>1. <<heap_start>> \in Seq(Slot) /\ Len(<<heap_start>>) = 1
    BY HeapFacts
  <2>2. QED BY <1>1, <1>4, <2>1, SeqEqual
<1>6. size[heap_start] = heap_total_size - HEADER
  <2>1. size[heap_start] \in Nat /\ heap_start + 64 + size[heap_start] = heap_end
    BY <1>1, <1>2, HeapFacts DEF End, HEADER
  <2>2. QED BY <2>1, HeapFacts DEF HEADER
<1>7. QED BY <1>5, <1>6

THEOREM AllFreeRestoresTheHeap == Spec => []AllFreeRestores
BY InitInv, NextInv, EmptyHeap, PTL DEF Spec

-----------------------------------------------------------------------------
(* What holds when no request is so large that MEM_ALIGN wraps. *)

LEMMA PayloadStep ==
  ASSUME RequestsFit, HeapInv, PayloadHoldsRequest, [Next]_vars
  PROVE  PayloadHoldsRequest'
<1>1. HeapInv'
  BY NextInv
<1>2. \A c \in DOMAIN live \cap DOMAIN live' : size'[c] = size[c]
  BY StepKinds
<1>3. CASE live' = live
  BY <1>2, <1>3 DEF PayloadHoldsRequest
<1>4. ASSUME NEW n \in Requests, NEW b \in DOMAIN live' \ DOMAIN live,
             live' = [c \in DOMAIN live \cup {b} |->
                        IF c = b THEN n ELSE live[c]],
             size'[b] >= MEM_ALIGN(n)
      PROVE  PayloadHoldsRequest'
  <2>1. n <= MEM_ALIGN(n) /\ MEM_ALIGN(n) \in Nat /\ n \in Nat
    <3>1. n \in 0 .. SizeMod - 1 /\ n + 63 < SizeMod
      BY HeapConstants DEF RequestsFit, MEM_ALIGNMENT
    <3>2. QED BY <3>1, AlignUp
  <2>2. size'[b] \in Nat
    BY <1>1 DEF HeapInv, WellFormed
  <2>3. live'[b] = n /\ n <= size'[b]
    BY <1>4, <2>1, <2>2
  <2>4. \A c \in DOMAIN live : live'[c] = live[c] /\ size'[c] = size[c]
    BY <1>2, <1>4
  <2>5. DOMAIN live' = DOMAIN live \cup {b}
    BY <1>4
  <2>6. QED BY <2>3, <2>4, <2>5 DEF PayloadHoldsRequest
<1>5. ASSUME NEW b \in DOMAIN live,
             live' = [c \in DOMAIN live \ {b} |-> live[c]]
      PROVE  PayloadHoldsRequest'
  BY <1>2, <1>5 DEF PayloadHoldsRequest
<1>6. QED BY StepKinds, <1>3, <1>4, <1>5

LEMMA PayloadInit == Init => PayloadHoldsRequest
BY DEF Init, PayloadHoldsRequest

(* A caller never gets less than it asked for, provided no request comes   *)
(* within 63 bytes of SIZE_MAX; TLC shows that the proviso is needed.      *)
THEOREM PayloadsAreLargeEnough ==
  ASSUME RequestsFit
  PROVE  Spec => []PayloadHoldsRequest
<1>1. Init => HeapInv /\ PayloadHoldsRequest
  BY InitInv, PayloadInit
<1>2. HeapInv /\ PayloadHoldsRequest /\ [Next]_vars
      => HeapInv' /\ PayloadHoldsRequest'
  BY NextInv, PayloadStep
<1>3. QED BY <1>1, <1>2, PTL DEF Spec

(* A well-formed heap in which every payload is large enough. *)
Roomy(lv, l, sz, fr) ==
  /\ WellFormed(DOMAIN lv, l, sz, fr)
  /\ \A c \in DOMAIN lv : lv[c] \in Requests /\ lv[c] <= sz[c]

(* Where the payload of a held block lies. *)
LEMMA HeldRegions ==
  ASSUME NEW lv, NEW l, NEW sz, NEW fr, Roomy(lv, l, sz, fr),
         NEW b \in DOMAIN lv
  PROVE  /\ b \in Nat /\ lv[b] \in Nat /\ heap_start <= b + 64
         /\ (b + 64) % 64 = 0
         /\ b + 64 + lv[b] <= End(sz, b) /\ End(sz, b) \in Nat
         /\ End(sz, b) <= heap_end
         /\ \A c \in DOMAIN lv : c # b => End(sz, b) <= c \/ End(sz, c) <= b
<1> DEFINE B == DOMAIN lv \cup Elems(l)
<1>1. /\ b \in B /\ B \subseteq Slot /\ Tiles(B, sz)
      /\ sz \in [Slot -> Nat] /\ b \in Slot
      /\ lv[b] \in Requests /\ lv[b] <= sz[b]
  BY ElemsType DEF Roomy, WellFormed
<1>2. /\ b \in Nat /\ b % 64 = 0 /\ heap_start <= b /\ heap_start \in Nat
      /\ sz[b] \in Nat /\ lv[b] \in Nat
  <2>1. lv[b] \in 0 .. SizeMod - 1 /\ SizeMod \in Nat
    BY <1>1, HeapConstants
  <2>2. QED BY <1>1, <2>1, HeapFacts
<1>3. \A c \in DOMAIN lv : c # b => End(sz, b) <= c \/ End(sz, c) <= b
  <2> SUFFICES ASSUME NEW c \in DOMAIN lv, c # b
               PROVE  End(sz, b) <= c \/ End(sz, c) <= b
    OBVIOUS
  <2>1. c \in B /\ c \in Nat
    BY <1>1, HeapFacts
  <2>2. b < c \/ c < b
    BY <2>1, <1>2
  <2>3. QED BY <2>1, <2>2, <1>1 DEF Tiles
<1> HIDE DEF B
<1>4. End(sz, b) \in Nat /\ End(sz, b) <= heap_end
  BY <1>1, TileEnds
<1>5. b + 64 + lv[b] <= End(sz, b)
  BY <1>1, <1>2 DEF End, HEADER
<1>6. (b + 64) % 64 = 0 /\ heap_start <= b + 64
  BY <1>2
<1>7. QED BY <1>2, <1>3, <1>4, <1>5, <1>6

(* Every step of the allocator grants one region, returns one or is        *)
(* invisible to the callers.                                               *)
LEMMA RefinementStep ==
  ASSUME RequestsFit, HeapInv, PayloadHoldsRequest, [Next]_vars
  PROVE  [Abs!Next]_Held
<1>1. HeapInv' /\ PayloadHoldsRequest'
  BY NextInv, PayloadStep
<1>2. /\ Roomy(live, free_list, size, is_free)
      /\ Roomy(live', free_list', size', is_free')
  BY <1>1 DEF HeapInv, PayloadHoldsRequest, Roomy
<1>3. \A c \in DOMAIN live \cup DOMAIN live' : c \in Nat
  BY <1>2, HeldRegions
<1>4. CASE live' = live
  BY <1>4 DEF Held
<1>5. ASSUME NEW n \in Requests, NEW b \in DOMAIN live' \ DOMAIN live,
             live' = [c \in DOMAIN live \cup {b} |->
                        IF c = b THEN n ELSE live[c]],
             n # 0
      PROVE  Abs!Next
  <2> DEFINE r == [addr |-> b + 64, len |-> n]
  <2>1. /\ DOMAIN live' = DOMAIN live \cup {b} /\ live'[b] = n
        /\ \A c \in DOMAIN live : live'[c] = live[c]
    BY <1>5
  <2>2. /\ b \in Nat /\ n \in Nat /\ heap_start <= b + 64
        /\ (b + 64) % 64 = 0
        /\ b + 64 + n <= End(size', b) /\ End(size', b) \in Nat
        /\ End(size', b) <= heap_end /\ heap_end \in Nat
        /\ \A c \in DOMAIN live' :
             c # b => End(size', b) <= c \/ End(size', c) <= b
    BY <1>2, <2>1, HeldRegions, HeapFacts
  <2>3. Held' = Held \cup {r}
    BY <2>1 DEF Held, HEADER
  <2>4. ASSUME NEW s \in Held
        PROVE  s # r /\ Abs!Disjoint(r, s)
    <3>1. PICK c \in DOMAIN live : s = [addr |-> c + 64, len |-> live[c]]
      BY DEF Held, HEADER
    <3>2. /\ c \in DOMAIN live' /\ c # b /\ live'[c] = live[c]
          /\ c \in Nat /\ live[c] \in Nat
          /\ c + 64 + live[c] <= End(size', c) /\ End(size', c) \in Nat
      BY <2>1, <1>2, HeldRegions
    <3>3. End(size', b) <= c \/ End(size', c) <= b
      BY <2>2, <3>2
    <3>4. /\ s.addr = c + 64 /\ s.len = live[c]
          /\ r.addr = b + 64 /\ r.len = n
      BY <3>1
    <3>5. c + 64 # b + 64
      BY <3>2, <2>2
    <3>6. b + 64 + n <= c + 64 \/ c + 64 + live[c] <= b + 64
      BY <3>2, <3>3, <2>2
    <3> HIDE DEF r
    <3>7. QED BY <3>4, <3>5, <3>6 DEF Abs!Disjoint
  <2>5. r.len > 0 /\ Abs!Grantable(r)
    BY <2>2, <1>5 DEF Abs!Grantable, MEM_ALIGNMENT
  <2>6. r \in Held' \ Held
    BY <2>3, <2>4
  <2> HIDE DEF r
  <2>7. Abs!Grant(r)
    BY <2>3, <2>4, <2>5 DEF Abs!Grant
  <2>8. QED BY <2>6, <2>7 DEF Abs!Next
<1>6. ASSUME NEW b \in DOMAIN live,
             live' = [c \in DOMAIN live \ {b} |-> live[c]]
      PROVE  Abs!Next
  <2> DEFINE r == [addr |-> b + 64, len |-> live[b]]
  <2>1. /\ DOMAIN live' = DOMAIN live \ {b}
        /\ \A c \in DOMAIN live \ {b} : live'[c] = live[c]
    BY <1>6
  <2>2. r \in Held
    BY DEF Held, HEADER
  <2>3. \A c \in DOMAIN live \ {b} : c + 64 # b + 64
    BY <1>3
  <2>4. Held' = Held \ {r}
    <3>1. \A c \in DOMAIN live \ {b} : [addr |-> c + 64, len |-> live[c]] # r
      BY <2>3
    <3>2. Held = {[addr |-> c + 64, len |-> live[c]] : c \in DOMAIN live}
      BY DEF Held, HEADER
    <3>3. Held' = {[addr |-> c + 64, len |-> live[c]] :
                     c \in DOMAIN live \ {b}}
      BY <2>1 DEF Held, HEADER
    <3>4. QED BY <3>1, <3>2, <3>3
  <2> HIDE DEF r
  <2>5. Abs!Return(r)
    BY <2>4 DEF Abs!Return
  <2>6. QED BY <2>2, <2>5 DEF Abs!Next
<1>7. QED BY StepKinds, <1>4, <1>5, <1>6

(* The allocator keeps the promise of HeapSpec: whatever it hands out lies *)
(* in the heap, is aligned and overlaps nothing a caller still holds.      *)
THEOREM HeapImplementsHeapSpec ==
  ASSUME RequestsFit
  PROVE  Spec => ImplementsHeapSpec
<1>1. Init => HeapInv /\ PayloadHoldsRequest
  BY InitInv, PayloadInit
<1>2. HeapInv /\ PayloadHoldsRequest /\ [Next]_vars
      => HeapInv' /\ PayloadHoldsRequest'
  BY NextInv, PayloadStep
<1>3. Init => Abs!Init
  BY DEF Init, Abs!Init, Held
<1>4. HeapInv /\ PayloadHoldsRequest /\ [Next]_vars => [Abs!Next]_Held
  BY RefinementStep
<1>5. QED
  BY <1>1, <1>2, <1>3, <1>4, PTL DEF Spec, ImplementsHeapSpec, Abs!Spec

-----------------------------------------------------------------------------
(* t_mem_stats.                                                            *)

(* f sums the extents of the blocks of every subset of S, as the fold of   *)
(* t_mem_stats takes them: one after the other.                            *)
SumRec(f, S) ==
  f = [s \in SUBSET S |->
         IF s = {} THEN 0
         ELSE LET x == CHOOSE x \in s : TRUE IN size[x] + HEADER + f[s \ {x}]]

LEMMA SumEquation ==
  ASSUME NEW S, NEW g, SumRec(g, S)
  PROVE  \E f : SumRec(f, S) /\ MapThenSumSet(LAMBDA b : size[b] + HEADER, S) = f[S]
  BY Zenon DEF MapThenSumSet, MapThenFoldSet, SumRec

(* The recursion has one solution on a finite set: a smallest set on which *)
(* two differ would have a smaller one.                                    *)
LEMMA SumUnique ==
  ASSUME NEW S, IsFiniteSet(S), NEW f, NEW g, SumRec(f, S), SumRec(g, S)
  PROVE  f[S] = g[S]
<1> DEFINE T == {s \in SUBSET S : f[s] # g[s]}
<1>1. SUFFICES ASSUME T # {} PROVE FALSE
  <2>1. S \in SUBSET S
    OBVIOUS
  <2>2. QED BY <1>1, <2>1
<1>2. T \subseteq FiniteSubsetsOf(S)
  BY FS_FiniteSubsetsOfFinite
<1>3. PICK s \in T : \A t \in T : ~(<<t, s>> \in StrictSubsetOrdering(S))
  <2> HIDE DEF T
  <2>1. QED BY <1>1, <1>2, FS_StrictSubsetOrderingWellFounded, WFMin
<1>4. s \in SUBSET S /\ f[s] # g[s]
  OBVIOUS
<1>5. s # {}
  BY <1>4 DEF SumRec
<1> DEFINE x == CHOOSE x \in s : TRUE
<1>6. x \in s
  BY <1>5
<1>7. s \ {x} \in SUBSET S /\ s \ {x} # s /\ s \ {x} \subseteq s
  BY <1>4, <1>6
<1>8. <<s \ {x}, s>> \in StrictSubsetOrdering(S)
  BY <1>4, <1>7 DEF StrictSubsetOrdering
<1>9. f[s \ {x}] = g[s \ {x}]
  BY <1>3, <1>7, <1>8
<1>10. /\ f[s] = size[x] + HEADER + f[s \ {x}]
       /\ g[s] = size[x] + HEADER + g[s \ {x}]
  BY <1>4, <1>5 DEF SumRec
<1>11. QED BY <1>4, <1>9, <1>10

-----------------------------------------------------------------------------
(* The addresses of the heap that the blocks of S cover.                   *)
Covered(S) ==
  {a \in heap_start .. heap_end - 1 : \E b \in S : b <= a /\ a < End(size, b)}

LEMMA CoveredFinite ==
  ASSUME NEW S
  PROVE  IsFiniteSet(Covered(S))
<1>1. IsFiniteSet(heap_start .. heap_end - 1)
  BY HeapFacts, FS_Interval
<1>2. Covered(S) \in SUBSET (heap_start .. heap_end - 1)
  BY DEF Covered
<1>3. QED BY <1>1, <1>2, FS_Subset

(* Of blocks that tile the heap, one covers what no other does.            *)
LEMMA CoverSplits ==
  ASSUME NEW B, B \subseteq Slot, size \in [Slot -> Nat], Tiles(B, size),
         NEW S, S \subseteq B, NEW x \in S
  PROVE  Cardinality(Covered(S)) = size[x] + HEADER + Cardinality(Covered(S \ {x}))
<1> DEFINE e == End(size, x)
           own == x .. e - 1
           rest == Covered(S \ {x})
<1>1. /\ x \in Nat /\ heap_start \in Nat /\ heap_end \in Nat
      /\ heap_start <= x /\ x < heap_end /\ size[x] \in Nat
  BY HeapFacts
<1>2. e \in Nat /\ x + 64 <= e /\ e <= heap_end /\ e = x + 64 + size[x]
  BY <1>1, TileEnds DEF End, HEADER
<1> HIDE DEF e
<1>3. IsFiniteSet(own) /\ Cardinality(own) = size[x] + HEADER
  <2>1. x \in Int /\ e - 1 \in Int /\ ~(x > e - 1) /\ e - 1 - x + 1 = size[x] + 64
    BY <1>1, <1>2
  <2>2. IsFiniteSet(own) /\ Cardinality(own) = IF x > e - 1 THEN 0 ELSE e - 1 - x + 1
    BY <2>1, FS_Interval
  <2>3. QED BY <2>1, <2>2 DEF HEADER
<1>4. Covered(S) = own \cup rest
  <2>1. ASSUME NEW a \in Covered(S) PROVE a \in own \cup rest
    <3>1. PICK b \in S : b <= a /\ a < End(size, b)
      BY <2>1 DEF Covered
    <3>2. CASE b = x
      BY <2>1, <3>1, <3>2, <1>1, <1>2 DEF Covered, e
    <3>3. CASE b # x
      BY <2>1, <3>1, <3>3 DEF Covered
    <3>4. QED BY <3>2, <3>3
  <2>2. ASSUME NEW a \in own PROVE a \in Covered(S)
    BY <2>2, <1>1, <1>2 DEF Covered, e
  <2>3. rest \subseteq Covered(S)
    BY DEF Covered
  <2>4. QED BY <2>1, <2>2, <2>3
<1>5. own \cap rest = {}
  <2>1. SUFFICES ASSUME NEW a \in own, a \in rest PROVE FALSE
    OBVIOUS
  <2>2. PICK b \in S \ {x} : b <= a /\ a < End(size, b)
    BY <2>1 DEF Covered
  <2>3. b \in Nat /\ End(size, b) \in Nat /\ b \in B /\ x \in B
    BY <2>2, HeapFacts, TileEnds
  <2>4. b < x => End(size, b) <= x
    BY <2>3 DEF Tiles
  <2>5. x < b => e <= b
    BY <2>3 DEF Tiles, e
  <2>6. QED BY <2>1, <2>2, <2>3, <2>4, <2>5, <1>1, <1>2
<1>6. IsFiniteSet(rest)
  BY CoveredFinite
<1>7. Cardinality(own \cup rest) = Cardinality(own) + Cardinality(rest) - Cardinality(own \cap rest)
  BY <1>3, <1>6, FS_Union
<1>8. Cardinality(own \cap rest) = 0 /\ Cardinality(rest) \in Nat
  BY <1>5, <1>6, FS_EmptySet, FS_CardinalityType
<1>9. Cardinality(own) \in Nat /\ HEADER \in Nat
  BY <1>3, FS_CardinalityType DEF HEADER
<1> HIDE DEF own, rest
<1>10. QED
  BY <1>1, <1>3, <1>4, <1>7, <1>8, <1>9 DEF rest

(* What t_mem_stats adds up for blocks that tile the heap.                 *)
LEMMA SumOfBlocks ==
  ASSUME NEW B, B \subseteq Slot, size \in [Slot -> Nat], Tiles(B, size),
         NEW S, S \subseteq B
  PROVE  MapThenSumSet(LAMBDA b : size[b] + HEADER, S) = Cardinality(Covered(S))
<1> DEFINE g == [s \in SUBSET S |-> Cardinality(Covered(s))]
<1>1. IsFiniteSet(S)
  <2>1. heap_start \in Int /\ heap_end - 1 \in Int
    BY HeapFacts
  <2>2. IsFiniteSet(heap_start .. heap_end - 1)
    BY <2>1, FS_Interval
  <2>3. S \in SUBSET (heap_start .. heap_end - 1)
    BY DEF Slot
  <2>4. QED BY <2>2, <2>3, FS_Subset
<1>2. ASSUME NEW s \in SUBSET S
      PROVE  g[s] = IF s = {} THEN 0
                    ELSE LET x == CHOOSE x \in s : TRUE IN size[x] + HEADER + g[s \ {x}]
  <2>1. CASE s = {}
    <3>1. Covered(s) = {}
      BY <2>1 DEF Covered
    <3>2. QED BY <2>1, <3>1, FS_EmptySet
  <2>2. CASE s # {}
    <3> DEFINE x == CHOOSE x \in s : TRUE
    <3>1. x \in s
      BY <2>2
    <3> HIDE DEF x
    <3>2. s \subseteq B /\ s \ {x} \in SUBSET S
      OBVIOUS
    <3>3. Cardinality(Covered(s)) = size[x] + HEADER + Cardinality(Covered(s \ {x}))
      BY <3>1, <3>2, CoverSplits
    <3>4. QED BY <2>2, <3>2, <3>3 DEF x
  <2>3. QED BY <2>1, <2>2
<1>3. SumRec(g, S)
  BY <1>2, Zenon DEF SumRec
<1> HIDE DEF g
<1>4. PICK f : SumRec(f, S) /\ MapThenSumSet(LAMBDA b : size[b] + HEADER, S) = f[S]
  BY <1>3, SumEquation
<1>5. f[S] = g[S]
  BY <1>1, <1>3, <1>4, SumUnique
<1>6. g[S] = Cardinality(Covered(S))
  BY DEF g
<1>7. QED BY <1>4, <1>5, <1>6

(* A tiling covers the whole heap: above the last block that starts at or  *)
(* below an address the next one would start.                              *)
LEMMA TilingCovers ==
  ASSUME NEW B, B \subseteq Slot, size \in [Slot -> Nat], Tiles(B, size)
  PROVE  Covered(B) = heap_start .. heap_end - 1
<1>1. SUFFICES ASSUME NEW a \in heap_start .. heap_end - 1
               PROVE  \E b \in B : b <= a /\ a < End(size, b)
  BY DEF Covered
<1>2. a \in Nat /\ heap_start \in Nat /\ heap_end \in Nat /\ B \subseteq Nat
  BY HeapFacts
<1> DEFINE D == {d \in 0 .. a : a - d \in B}
<1>3. D \subseteq Nat /\ D # {}
  <2>1. a - heap_start \in 0 .. a /\ a - (a - heap_start) = heap_start
    BY <1>2
  <2>2. a - heap_start \in D
    BY <2>1 DEF Tiles
  <2>3. QED BY <2>2
<1>4. PICK d \in D : \A y \in D : ~(<<y, d>> \in OpToRel(<, Nat))
  <2> HIDE DEF D
  <2>1. QED BY <1>3, NatLessThanWellFounded, WFMin
<1>5. \A y \in D : ~(y < d)
  BY <1>3, <1>4 DEF OpToRel
<1> DEFINE b == a - d
<1>6. b \in B /\ b <= a /\ b \in Nat
  BY <1>2
<1>7. /\ End(size, b) \in Nat /\ b + 64 <= End(size, b)
      /\ End(size, b) < heap_end => End(size, b) \in B
  BY <1>6, TileEnds
<1>8. ASSUME End(size, b) <= a PROVE FALSE
  <2>1. End(size, b) \in B
    BY <1>1, <1>2, <1>7, <1>8
  <2>2. a - End(size, b) \in D /\ a - End(size, b) < d
    BY <2>1, <1>2, <1>6, <1>7, <1>8
  <2>3. QED BY <2>2, <1>5
<1>9. QED BY <1>2, <1>6, <1>7, <1>8

(* t_mem_stats walks the free list only; what it reports as used is the    *)
(* blocks the callers hold, headers included, after any calls.             *)
THEOREM StatisticsAreExact == Spec => []StatsExact
<1>1. ASSUME HeapInv PROVE StatsExact
  <2> DEFINE B == Blocks
             L == DOMAIN live
             F == FreeBlocks
             all == heap_start .. heap_end - 1
  <2>1. TypeOK /\ FlagsAgree /\ Tiled
    BY <1>1, InvImplies
  <2>2. /\ B \subseteq Slot /\ size \in [Slot -> Nat] /\ Tiles(B, size)
        /\ L \subseteq B /\ F \subseteq B /\ B = L \cup F
    <3>1. F \subseteq Slot
      BY <2>1, ElemsType DEF TypeOK, FreeBlocks, Elems
    <3>2. QED BY <2>1, <3>1 DEF TypeOK, Tiled, Blocks
  <2>3. L \cap F = {} /\ F = {b \in FreeBlocks : is_free[b]}
    BY <2>1 DEF FlagsAgree
  <2>4. free_size = Cardinality(Covered(F))
    <3>1. MapThenSumSet(LAMBDA b : size[b] + HEADER, F) = Cardinality(Covered(F))
      BY <2>2, SumOfBlocks
    <3>2. QED BY <2>3, <3>1 DEF free_size
  <2>5. MapThenSumSet(LAMBDA b : size[b] + HEADER, L) = Cardinality(Covered(L))
    BY <2>2, SumOfBlocks
  <2>6. Covered(L) \cup Covered(F) = all
    <3>1. Covered(B) = all
      BY <2>2, TilingCovers
    <3>2. QED BY <2>2, <3>1 DEF Covered
  <2>7. Covered(L) \cap Covered(F) = {}
    <3>1. SUFFICES ASSUME NEW a, a \in Covered(L), a \in Covered(F) PROVE FALSE
      OBVIOUS
    <3>2. PICK b \in L : b <= a /\ a < End(size, b)
      BY <3>1 DEF Covered
    <3>3. PICK c \in F : c <= a /\ a < End(size, c)
      BY <3>1 DEF Covered
    <3>4. /\ a \in Nat /\ b \in Nat /\ c \in Nat /\ b # c /\ b \in B /\ c \in B
          /\ End(size, b) \in Nat /\ End(size, c) \in Nat
      <4>1. b \in B /\ c \in B /\ b # c
        BY <2>2, <2>3
      <4>2. b \in Nat /\ c \in Nat
        BY <4>1, <2>2, HeapFacts
      <4>3. End(size, b) \in Nat /\ End(size, c) \in Nat
        BY <4>1, <2>2, TileEnds
      <4>4. a \in Nat
        BY <3>1, HeapFacts DEF Covered
      <4>5. QED BY <4>1, <4>2, <4>3, <4>4
    <3>5. /\ b < c => End(size, b) <= c
          /\ c < b => End(size, c) <= b
      BY <2>2, <3>4 DEF Tiles
    <3>6. QED BY <3>2, <3>3, <3>4, <3>5
  <2>8. /\ IsFiniteSet(Covered(L)) /\ IsFiniteSet(Covered(F))
        /\ Cardinality(Covered(L)) \in Nat /\ Cardinality(Covered(F)) \in Nat
    BY CoveredFinite, FS_CardinalityType
  <2>9. Cardinality(all) = heap_total_size /\ heap_total_size \in Nat
    <3>1. /\ heap_start \in Int /\ heap_end - 1 \in Int /\ ~(heap_start > heap_end - 1)
          /\ heap_end - 1 - heap_start + 1 = heap_total_size /\ heap_total_size \in Nat
      BY HeapFacts
    <3>2. Cardinality(all) = IF heap_start > heap_end - 1 THEN 0
                             ELSE heap_end - 1 - heap_start + 1
      BY <3>1, FS_Interval
    <3>3. QED BY <3>1, <3>2
  <2>10. Cardinality(Covered(L) \cup Covered(F))
           = Cardinality(Covered(L)) + Cardinality(Covered(F))
             - Cardinality(Covered(L) \cap Covered(F))
    BY <2>8, FS_Union
  <2>11. Cardinality(Covered(L) \cap Covered(F)) = 0
    BY <2>7, FS_EmptySet
  <2>12. heap_total_size = Cardinality(Covered(L)) + Cardinality(Covered(F))
    <3>1. Cardinality(Covered(L) \cup Covered(F)) = heap_total_size
      BY <2>6, <2>9, Zenon
    <3> HIDE DEF L, F, all
    <3>2. QED BY <3>1, <2>8, <2>9, <2>10, <2>11
  <2>13. used_size = Cardinality(Covered(L))
    BY <2>4, <2>8, <2>9, <2>12 DEF used_size
  <2>14. QED BY <2>5, <2>13 DEF StatsExact
<1>2. QED BY <1>1, InitInv, NextInv, PTL DEF Spec
=============================================================================
