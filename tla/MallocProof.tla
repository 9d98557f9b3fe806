---------------------------- MODULE MallocProof ----------------------------
(***************************************************************************)
(* That the zones of malloc.c stay sound in every layout of memory, for    *)
(* any requests of drivers, PMM and option roms, that malloc_palloc() and  *)
(* malloc_pfree() are an allocator, and that memory stays with its owners: *)
(* allocations, option roms, the EBDA and, after POST, the OS.  Where      *)
(* ZoneLow grows this is so until zonelow_expand() moves the EBDA for a    *)
(* request that the memory below it is too small for (overdrawn): its u32  *)
(* subtraction then passes zero and no test sees it.                       *)
(*                                                                         *)
(* The proof goes up with the code: alloc_new() and alloc_free() on one    *)
(* list, on all zones, the bookkeeping, alloc_add() and malloc_init(),     *)
(* zonelow_expand(), malloc_palloc() and malloc_pfree(), and the handlers. *)
(* A list is reasoned about by the tags of its ranges (start, size and     *)
(* description), which stay as long as a range is in the list, and by the  *)
(* bytes it covers, which stay as long as it does.                         *)
(***************************************************************************)
EXTENDS Malloc, TLAPS, WellFoundedInduction

----------------------------------------------------------------------------
(* Numbers.                                                                *)

\* The least number of a set is one of it.
LEMMA MinOf ==
  ASSUME NEW S \in SUBSET Nat, S # {}
  PROVE  Min(S) \in S /\ \A x \in S : Min(S) <= x
<1>1. \E x \in S : \A y \in S : x <= y
  <2>1. PICK x \in S : \A y \in S : ~(<<y, x>> \in OpToRel(<, Nat))
    BY NatLessThanWellFounded, WFMin, Zenon
  <2>2. \A y \in S : ~(y < x)
    BY <2>1 DEF OpToRel
  <2> QED
    BY <2>2
<1> QED
  BY <1>1 DEF Min

\* Comparisons chain.
LEMMA Chain ==
  ASSUME NEW a \in Int, NEW b \in Int, NEW c \in Int, a <= b
  PROVE  (b <= c => a <= c) /\ (b < c => a < c)
OBVIOUS

\* An address in two intervals: neither ends before the other begins.
LEMMA Overlap ==
  ASSUME NEW a \in Int, NEW b \in Int, NEW c \in Int, NEW d \in Int,
         NEW x, x \in a .. b - 1, x \in c .. d - 1
  PROVE  ~(b <= c \/ d <= a)
OBVIOUS

\* ALIGN_DOWN() goes down by less than the alignment.
LEMMA AlignedDown ==
  ASSUME NEW x \in Nat, NEW a \in Nat \ {0}
  PROVE  ALIGN_DOWN(x, a) \in Nat /\ ALIGN_DOWN(x, a) <= x /\ x < ALIGN_DOWN(x, a) + a
<1>1. x % a \in 0 .. a - 1 /\ x % a <= x
  OBVIOUS
<1> QED
  BY <1>1 DEF ALIGN_DOWN

\* A u32 subtraction that passes zero.
LEMMA Wraps ==
  ASSUME NEW w \in Nat, NEW x \in Int, -w <= x, x < w
  PROVE  x % w = IF x >= 0 THEN x ELSE x + w
<1>1. CASE x >= 0
  BY <1>1
<1>2. CASE x < 0
  BY <1>2
<1> QED
  BY <1>1, <1>2

\* The space that alloc_new() finds is behind what is in use, and as large as
\* it was asked for: no subtraction passes zero.
LEMMA FitsMeans ==
  ASSUME NEW e, e.start \in Nat, e.end \in Nat, e.size \in Nat,
         e.start + e.size <= e.end, e.end < Word, Word \in Nat,
         NEW size \in Nat, NEW align \in Nat \ {0}, size + align <= Word,
         Fits(e, size, align)
  PROVE  /\ Cut(e, size, align) \in Nat
         /\ e.start + e.size <= Cut(e, size, align)
         /\ Cut(e, size, align) + size <= e.end
<1> DEFINE w == (e.end - size) % Word
<1>1. w = IF e.end - size >= 0 THEN e.end - size ELSE e.end - size + Word
  <2>1. e.end - size \in Int /\ -Word <= e.end - size /\ e.end - size < Word
    OBVIOUS
  <2> QED
    BY <2>1, Wraps
<1>2. w \in Nat
  BY <1>1
<1>3. Cut(e, size, align) = ALIGN_DOWN(w, align)
  BY DEF Cut
<1> HIDE DEF w
<1>4. /\ Cut(e, size, align) \in Nat /\ Cut(e, size, align) <= w
      /\ w < Cut(e, size, align) + align
  BY <1>2, <1>3, AlignedDown
<1>5. e.start + e.size <= Cut(e, size, align) /\ Cut(e, size, align) <= e.end
  BY DEF Fits
<1> QED
  BY <1>1, <1>4, <1>5

----------------------------------------------------------------------------
(* One list.                                                               *)

\* A range at any time: its description may be on a caller's stack.
Raw(top) == [start : 2 .. top, end : 2 .. top, size : 0 .. top, at : 0 .. top]
IsList(l, top) == l \in Seq(Raw(top))

\* The ranges of a list contain what they have in use, fall, and have their
\* own descriptions; behind a range in use is the range it was cut from, so
\* that alloc_free() always finds where to give it back.
ListOK(l, top) ==
  /\ l \in Seq(Raw(top))
  /\ \A i \in 1 .. Len(l) : l[i].start + l[i].size <= l[i].end
  /\ \A i, k \in 1 .. Len(l) : i < k => l[k].end <= l[i].start
  /\ \A i, k \in 1 .. Len(l) : l[i].at = l[k].at => i = k
  /\ \A i \in 1 .. Len(l) : l[i].size > 0 => i < Len(l) /\ l[i + 1].end = l[i].start

\* What of a range stays the same as long as it is in the list.
Tag(e) == [start |-> e.start, size |-> e.size, at |-> e.at]
Tags(l) == {Tag(l[i]) : i \in 1 .. Len(l)}

\* The list lies within lo .. hi - 1.
Between(l, lo, hi) == \A i \in 1 .. Len(l) : lo <= l[i].start /\ l[i].end <= hi

\* Two lists with the same bytes, within the same bounds.
SameMemory(l, r) ==
  /\ Covered(r) = Covered(l)
  /\ \A lo, hi \in Nat : Between(l, lo, hi) => Between(r, lo, hi)

\* List r is l with a block taken at n.
Taken(l, r, n, size, fill, top) ==
  /\ ListOK(r, top)
  /\ SameMemory(l, r)
  /\ Tags(r) = Tags(l) \cup {[start |-> n, size |-> size, at |-> fill]}

\* List r is l with the range of tag t given back.
Freed(l, r, t, top) ==
  /\ ListOK(r, top)
  /\ SameMemory(l, r)
  /\ Tags(r) = Tags(l) \ {t}

\* The bytes of a list are those of its ranges.
LEMMA CoveredMeans ==
  ASSUME NEW top, NEW l \in Seq(Raw(top)), NEW x
  PROVE  x \in Covered(l) <=>
           x \in Int /\ \E i \in 1 .. Len(l) : l[i].start <= x /\ x < l[i].end
<1>1. \A i \in 1 .. Len(l) : l[i] \in Raw(top)
  OBVIOUS
<1>2. \A i \in 1 .. Len(l) : l[i].start \in Int /\ l[i].end \in Int
  BY <1>1, SMTT(40) DEF Raw
<1>3. DOMAIN l = 1 .. Len(l)
  OBVIOUS
<1>4. x \in Covered(l) <=> \E i \in 1 .. Len(l) : x \in l[i].start .. l[i].end - 1
  BY <1>3 DEF Covered
<1> QED
  BY <1>2, <1>4

\* What lies before and from place i on in a sequence.
LEMMA Pieces ==
  ASSUME NEW S, NEW l \in Seq(S), NEW i \in 1 .. Len(l) + 1
  PROVE  /\ SubSeq(l, 1, i - 1) \in Seq(S) /\ Len(SubSeq(l, 1, i - 1)) = i - 1
         /\ \A k \in 1 .. i - 1 : SubSeq(l, 1, i - 1)[k] = l[k]
         /\ SubSeq(l, i, Len(l)) \in Seq(S)
         /\ Len(SubSeq(l, i, Len(l))) = Len(l) - (i - 1)
         /\ \A k \in 1 .. Len(l) - (i - 1) : SubSeq(l, i, Len(l))[k] = l[k + (i - 1)]
OBVIOUS

\* w is u followed by v.
IsJoin(S, u, v, w) ==
  /\ w \in Seq(S) /\ Len(w) = Len(u) + Len(v)
  /\ \A m \in 1 .. Len(u) + Len(v) : w[m] = IF m <= Len(u) THEN u[m] ELSE v[m - Len(u)]

\* Concatenation, element by element.
LEMMA Joined ==
  ASSUME NEW S, NEW u \in Seq(S), NEW v \in Seq(S)
  PROVE  IsJoin(S, u, v, u \o v)
BY DEF IsJoin

\* Range i of l is cut at n: e is the part from n on, f the one below.
CutAt(l, r, i, e, f) ==
  /\ Len(r) = Len(l) + 1
  /\ r[i] = e /\ r[i + 1] = f
  /\ \A k \in 1 .. i - 1 : r[k] = l[k]
  /\ \A k \in i + 1 .. Len(l) : r[k + 1] = l[k]

\* Two elements take the place of element i.
LEMMA Split ==
  ASSUME NEW S, NEW l \in Seq(S), NEW i \in 1 .. Len(l), NEW e \in S, NEW f \in S
  PROVE  /\ SubSeq(l, 1, i - 1) \o <<e, f>> \o SubSeq(l, i + 1, Len(l)) \in Seq(S)
         /\ CutAt(l, SubSeq(l, 1, i - 1) \o <<e, f>> \o SubSeq(l, i + 1, Len(l)), i, e, f)
<1> DEFINE a == SubSeq(l, 1, i - 1)
           b == <<e, f>>
           c == SubSeq(l, i + 1, Len(l))
           n == Len(l)
<1>1. i \in 1 .. n + 1 /\ i + 1 \in 1 .. n + 1 /\ n \in Nat /\ i \in Nat
  OBVIOUS
<1>2. a \in Seq(S) /\ Len(a) = i - 1 /\ \A k \in 1 .. i - 1 : a[k] = l[k]
  BY <1>1, Pieces
<1>3. c \in Seq(S) /\ Len(c) = n - i /\ \A k \in 1 .. n - i : c[k] = l[k + i]
  <2>1. (i + 1) - 1 = i
    BY <1>1
  <2> QED
    BY <1>1, <2>1, Pieces
<1>4. b \in Seq(S) /\ Len(b) = 2 /\ b[1] = e /\ b[2] = f
  OBVIOUS
<1> HIDE DEF a, b, c
<1>5. /\ a \o b \in Seq(S) /\ Len(a \o b) = i + 1
      /\ \A m \in 1 .. i + 1 : (a \o b)[m] = IF m <= i - 1 THEN a[m] ELSE b[m - (i - 1)]
  <2>1. Len(a) + Len(b) = i + 1
    BY <1>1, <1>2, <1>4
  <2>2. IsJoin(S, a, b, a \o b)
    BY <1>2, <1>4, Joined
  <2> QED
    BY <1>2, <2>1, <2>2 DEF IsJoin
<1>6. /\ (a \o b) \o c \in Seq(S) /\ Len((a \o b) \o c) = n + 1
      /\ \A m \in 1 .. n + 1 :
           ((a \o b) \o c)[m] = IF m <= i + 1 THEN (a \o b)[m] ELSE c[m - (i + 1)]
  <2>1. Len(a \o b) + Len(c) = n + 1
    BY <1>1, <1>3, <1>5
  <2>2. IsJoin(S, a \o b, c, (a \o b) \o c)
    BY <1>3, <1>5, Joined
  <2> QED
    BY <1>5, <2>1, <2>2 DEF IsJoin
<1> DEFINE r == (a \o b) \o c
<1> HIDE DEF r
<1>7. CutAt(l, r, i, e, f)
  <2>1. r[i] = e
    BY <1>1, <1>4, <1>5, <1>6 DEF r
  <2>2. r[i + 1] = f
    BY <1>1, <1>4, <1>5, <1>6 DEF r
  <2>3. \A k \in 1 .. i - 1 : r[k] = l[k]
    BY <1>1, <1>2, <1>5, <1>6 DEF r
  <2>4. \A k \in i + 1 .. n : r[k + 1] = l[k]
    <3> TAKE k \in i + 1 .. n
    <3>1. k + 1 \in 1 .. n + 1 /\ ~(k + 1 <= i + 1) /\ (k + 1) - (i + 1) = k - i
      BY <1>1
    <3>2. k - i \in 1 .. n - i /\ (k - i) + i = k
      BY <1>1
    <3> QED
      BY <1>3, <1>6, <3>1, <3>2 DEF r
  <2> QED
    BY <1>6, <2>1, <2>2, <2>3, <2>4 DEF CutAt, r
<1> QED
  BY <1>6, <1>7 DEF a, b, c, r

\* The fields of the ranges of a list.
LEMMA RangeFacts ==
  ASSUME NEW top \in Nat, NEW l \in Seq(Raw(top)), NEW i \in 1 .. Len(l)
  PROVE  /\ l[i] \in Raw(top)
         /\ l[i].start \in 2 .. top /\ l[i].end \in 2 .. top
         /\ l[i].size \in 0 .. top /\ l[i].at \in 0 .. top
<1>1. l[i] \in Raw(top)
  OBVIOUS
<1> QED
  BY <1>1 DEF Raw

\* Range i of l has room for size bytes from n on, and fill describes none.
RoomAt(l, i, n, size, fill) ==
  /\ i \in 1 .. Len(l)
  /\ l[i].start + l[i].size <= n /\ n + size <= l[i].end
  /\ \A k \in 1 .. Len(l) : l[k].at # fill

GivesAway(l, r, i, n, size, fill) ==
  CutAt(l, r, i, [start |-> n, end |-> l[i].end, size |-> size, at |-> fill],
        [l[i] EXCEPT !.end = n])

\* A list of which range i gave away its end is sound, if it was.
LEMMA CutKeeps ==
  ASSUME NEW top \in Nat, NEW l, ListOK(l, top), NEW i,
         NEW r, IsList(r, top), NEW n \in Nat, NEW size \in Nat \ {0}, NEW fill \in Nat,
         GivesAway(l, r, i, n, size, fill), RoomAt(l, i, n, size, fill)
  PROVE  Taken(l, r, n, size, fill, top)
<1> DEFINE N == Len(l)
           e == [start |-> n, end |-> l[i].end, size |-> size, at |-> fill]
           f == [l[i] EXCEPT !.end = n]
<1>1. l \in Seq(Raw(top)) /\ N \in Nat /\ i \in 1 .. N /\ i \in Nat
  BY DEF ListOK, RoomAt
<1>0. r \in Seq(Raw(top))
  BY DEF IsList
<1>2. \A k \in 1 .. N : /\ l[k].start \in Nat /\ l[k].end \in Nat
                        /\ l[k].size \in Nat /\ l[k].at \in Nat
  <2> TAKE k \in 1 .. N
  <2>1. l[k].start \in 2 .. top /\ l[k].end \in 2 .. top /\ l[k].size \in 0 .. top
        /\ l[k].at \in 0 .. top
    BY <1>1, RangeFacts
  <2> QED
    BY <2>1, SMTT(40)
<1>3. /\ Len(r) = N + 1
      /\ r[i] = e /\ r[i + 1] = f
      /\ \A k \in 1 .. i - 1 : r[k] = l[k]
      /\ \A k \in i + 1 .. N : r[k + 1] = l[k]
  BY DEF GivesAway, CutAt
<1>30. /\ l[i].start + l[i].size <= n /\ n + size <= l[i].end
       /\ \A k \in 1 .. N : l[k].at # fill
  BY DEF RoomAt
<1>4. e.start = n /\ e.end = l[i].end /\ e.size = size /\ e.at = fill
  OBVIOUS
<1>5. f.start = l[i].start /\ f.end = n /\ f.size = l[i].size /\ f.at = l[i].at
  <2>1. l[i] \in Raw(top)
    BY <1>1, RangeFacts
  <2> QED
    BY <2>1 DEF Raw
<1>6. /\ \A k \in 1 .. N : l[k].start + l[k].size <= l[k].end
      /\ \A j, k \in 1 .. N : j < k => l[k].end <= l[j].start
      /\ \A j, k \in 1 .. N : l[j].at = l[k].at => j = k
      /\ \A k \in 1 .. N : l[k].size > 0 => k < N /\ l[k + 1].end = l[k].start
  BY DEF ListOK
<1> HIDE DEF N, e, f
<1> DEFINE old == [m \in 1 .. N + 1 |-> IF m <= i THEN m ELSE m - 1]
<1>7. \A m \in 1 .. N + 1 :
        /\ old[m] \in 1 .. N
        /\ m # i /\ m # i + 1 => r[m] = l[old[m]]
        /\ m # i => r[m].start = l[old[m]].start /\ r[m].size = l[old[m]].size
                    /\ r[m].at = l[old[m]].at
        /\ m # i + 1 => r[m].end = l[old[m]].end
  <2> TAKE m \in 1 .. N + 1
  <2>1. CASE m < i
    <3>1. m \in 1 .. i - 1 /\ m \in 1 .. N /\ old[m] = m
      BY <1>1, <2>1
    <3> QED
      BY <1>3, <2>1, <3>1
  <2>2. CASE m = i
    BY <1>1, <1>3, <1>4, <2>2
  <2>3. CASE m = i + 1
    BY <1>1, <1>3, <1>5, <2>3
  <2>4. CASE m > i + 1
    <3>1. m - 1 \in i + 1 .. N /\ m - 1 \in 1 .. N /\ old[m] = m - 1 /\ (m - 1) + 1 = m
      BY <1>1, <2>4
    <3> QED
      BY <1>3, <2>4, <3>1
  <2>5. m < i \/ m = i \/ m = i + 1 \/ m > i + 1
    BY <1>1
  <2> QED
    BY <2>1, <2>2, <2>3, <2>4, <2>5, Zenon
<1>8. r[i].start = n /\ r[i].end = l[i].end /\ r[i].size = size /\ r[i].at = fill
      /\ r[i + 1].end = n /\ r[i + 1].start = l[i].start /\ r[i + 1].size = l[i].size
      /\ r[i + 1].at = l[i].at
  BY <1>3, <1>4, <1>5
<1>9. \A j, k \in 1 .. N + 1 : j < k => old[j] <= old[k] /\ (old[j] = old[k] => j = i /\ k = i + 1)
  BY <1>1
<1>10. \A m \in 1 .. N + 1 : m # i => old[m] \in 1 .. N /\ (old[m] = i => m = i + 1)
  BY <1>1
<1> HIDE DEF old
<1>20. \A m \in 1 .. N + 1 :
         /\ r[m].start \in Nat /\ r[m].end \in Nat
         /\ old[m] \in 1 .. N
         /\ l[old[m]].start <= r[m].start /\ r[m].end <= l[old[m]].end
  <2> TAKE m \in 1 .. N + 1
  <2>1. old[m] \in 1 .. N
    BY <1>7
  <2>2. CASE m = i
    <3>1. old[m] = i
      BY <1>1, <2>2 DEF old
    <3> QED
      BY <1>1, <1>2, <1>8, <1>30, <2>2, <3>1, SMTT(30)
  <2>3. CASE m = i + 1
    <3>1. old[m] = i
      BY <1>1, <2>3 DEF old
    <3> QED
      BY <1>1, <1>2, <1>8, <1>30, <2>3, <3>1, SMTT(30)
  <2>4. CASE m # i /\ m # i + 1
    <3>1. r[m] = l[old[m]]
      BY <1>7, <2>4
    <3> QED
      BY <1>2, <2>1, <3>1
  <2> QED
    BY <2>2, <2>3, <2>4
<1>11. ListOK(r, top)
  <2>1. ASSUME NEW m \in 1 .. N + 1 PROVE r[m].start + r[m].size <= r[m].end
    <3>1. CASE m = i
      BY <1>8, <1>30, <3>1
    <3>2. CASE m = i + 1
      BY <1>8, <1>30, <3>2
    <3>3. CASE m # i /\ m # i + 1
      BY <1>6, <1>7, <3>3
    <3> QED
      BY <3>1, <3>2, <3>3
  <2>2. ASSUME NEW j \in 1 .. N + 1, NEW k \in 1 .. N + 1, j < k PROVE r[k].end <= r[j].start
    <3>0. old[j] \in 1 .. N /\ old[k] \in 1 .. N
      BY <1>7
    <3>1. CASE j = i /\ k = i + 1
      BY <1>1, <1>2, <1>8, <1>30, <3>1, SMTT(40)
    <3>2. CASE old[j] < old[k]
      <4>1. l[old[k]].end <= l[old[j]].start
        BY <1>6, <3>0, <3>2
      <4>2. /\ r[k].end <= l[old[k]].end /\ l[old[j]].start <= r[j].start
            /\ r[k].end \in Nat /\ r[j].start \in Nat
        BY <1>20
      <4>3. l[old[k]].end \in Nat /\ l[old[j]].start \in Nat
        BY <1>2, <3>0
      <4> QED
        BY <4>1, <4>2, <4>3
    <3>3. old[j] \in Nat /\ old[k] \in Nat
      BY <3>0
    <3>4. old[j] < old[k] \/ (j = i /\ k = i + 1)
      BY <1>9, <2>2, <3>3
    <3> QED
      BY <3>1, <3>2, <3>4
  <2>3. ASSUME NEW j \in 1 .. N + 1, NEW k \in 1 .. N + 1, r[j].at = r[k].at PROVE j = k
    <3>1. CASE j = i /\ k # i
      BY <1>7, <1>8, <1>30, <2>3, <3>1
    <3>2. CASE k = i /\ j # i
      BY <1>7, <1>8, <1>30, <2>3, <3>2
    <3>3. CASE j # i /\ k # i
      <4>1. old[j] = old[k]
        BY <1>6, <1>7, <2>3, <3>3
      <4> QED
        BY <1>9, <3>3, <4>1
    <3> QED
      BY <3>1, <3>2, <3>3
  <2>4. ASSUME NEW m \in 1 .. N + 1, r[m].size > 0
        PROVE  m < N + 1 /\ r[m + 1].end = r[m].start
    <3>0. m < i \/ m = i \/ m = i + 1 \/ m > i + 1
      BY <1>1
    <3>1. CASE m = i
      BY <1>1, <1>8, <3>1
    <3>2. CASE m = i + 1
      <4>1. i < N /\ l[i + 1].end = l[i].start
        BY <1>1, <1>6, <1>8, <2>4, <3>2
      <4>2. i + 2 \in 1 .. N + 1 /\ i + 1 \in i + 1 .. N /\ (i + 1) + 1 = i + 2
        BY <1>1, <4>1, SMTT(40)
      <4>3. r[i + 2] = l[i + 1]
        BY <1>3, <4>2
      <4> QED
        BY <1>1, <1>8, <3>2, <4>1, <4>2, <4>3
    <3>3. CASE m < i
      <4>0. m \in 1 .. i - 1 /\ m \in 1 .. N /\ m + 1 \in 1 .. i
        BY <1>1, <3>3
      <4>1. r[m] = l[m] /\ m < N /\ l[m + 1].end = l[m].start
        BY <1>3, <1>6, <2>4, <4>0
      <4>2. r[m + 1].end = l[m + 1].end
        <5>1. CASE m + 1 = i
          BY <1>8, <5>1
        <5>2. CASE m + 1 # i
          <6>1. m + 1 \in 1 .. i - 1
            BY <1>1, <4>0, <5>2
          <6> QED
            BY <1>3, <6>1
        <5> QED
          BY <5>1, <5>2
      <4> QED
        BY <1>1, <4>0, <4>1, <4>2
    <3>4. CASE m > i + 1
      <4>1. m - 1 \in i + 1 .. N /\ m - 1 \in 1 .. N /\ (m - 1) + 1 = m
        BY <1>1, <3>4
      <4>2. r[m] = l[m - 1]
        BY <1>3, <4>1
      <4>3. m - 1 < N /\ l[m].end = l[m - 1].start
        BY <1>6, <2>4, <4>1, <4>2
      <4>4. m \in i + 1 .. N
        BY <1>1, <4>1, <4>3, SMTT(40)
      <4>5. r[m + 1] = l[m]
        BY <1>3, <4>4
      <4> QED
        BY <1>1, <4>2, <4>3, <4>4, <4>5
    <3> QED
      BY <3>0, <3>1, <3>2, <3>3, <3>4
  <2> QED
    BY <1>0, <1>3, <2>1, <2>2, <2>3, <2>4 DEF ListOK
<1>12. ASSUME NEW x PROVE x \in Covered(r) <=> x \in Covered(l)
  <2>1. x \in Covered(l) <=> x \in Int /\ \E k \in 1 .. N : l[k].start <= x /\ x < l[k].end
    BY <1>1, CoveredMeans DEF N
  <2>2. x \in Covered(r) <=> x \in Int /\ \E k \in 1 .. N + 1 : r[k].start <= x /\ x < r[k].end
    BY <1>0, <1>3, CoveredMeans
  <2>3. ASSUME x \in Int, NEW k \in 1 .. N, l[k].start <= x, x < l[k].end
        PROVE  \E m \in 1 .. N + 1 : r[m].start <= x /\ x < r[m].end
    <3>1. CASE k = i /\ x < n
      <4>1. i + 1 \in 1 .. N + 1
        BY <1>1
      <4> QED
        BY <1>8, <2>3, <3>1, <4>1
    <3>2. CASE k = i /\ ~(x < n)
      <4>1. i \in 1 .. N + 1 /\ r[i].start <= x /\ x < r[i].end
        BY <1>1, <1>8, <2>3, <3>2
      <4> QED
        BY <4>1
    <3>3. CASE k < i
      <4>1. k \in 1 .. i - 1 /\ k \in 1 .. N + 1
        BY <1>1, <3>3
      <4> QED
        BY <1>3, <2>3, <4>1
    <3>4. CASE k > i
      <4>1. k \in i + 1 .. N /\ k + 1 \in 1 .. N + 1
        BY <1>1, <3>4
      <4> QED
        BY <1>3, <2>3, <4>1
    <3> QED
      BY <1>1, <3>1, <3>2, <3>3, <3>4
  <2>4. ASSUME x \in Int, NEW m \in 1 .. N + 1, r[m].start <= x, x < r[m].end
        PROVE  \E k \in 1 .. N : l[k].start <= x /\ x < l[k].end
    <3>1. old[m] \in 1 .. N
      BY <1>7
    <3>2. /\ l[old[m]].start <= r[m].start /\ r[m].end <= l[old[m]].end
          /\ r[m].start \in Nat /\ r[m].end \in Nat
      BY <1>20
    <3>3. l[old[m]].start \in Nat /\ l[old[m]].end \in Nat
      BY <1>2, <3>1
    <3>4. l[old[m]].start <= x /\ x < l[old[m]].end
      BY <2>4, <3>2, <3>3, Chain
    <3> QED
      BY <3>1, <3>4
  <2> QED
    BY <2>1, <2>2, <2>3, <2>4
<1>13. ASSUME NEW lo \in Nat, NEW hi \in Nat, Between(l, lo, hi) PROVE Between(r, lo, hi)
  <2>1. \A k \in 1 .. N : lo <= l[k].start /\ l[k].end <= hi
    BY <1>13 DEF Between, N
  <2>2. ASSUME NEW m \in 1 .. N + 1 PROVE lo <= r[m].start /\ r[m].end <= hi
    <3>1. old[m] \in 1 .. N
      BY <1>7
    <3>2. /\ l[old[m]].start <= r[m].start /\ r[m].end <= l[old[m]].end
          /\ r[m].start \in Nat /\ r[m].end \in Nat
      BY <1>20
    <3>3. /\ l[old[m]].start \in Nat /\ l[old[m]].end \in Nat
          /\ lo <= l[old[m]].start /\ l[old[m]].end <= hi
      BY <1>2, <2>1, <3>1
    <3> QED
      BY <3>2, <3>3, Chain
  <2> QED
    BY <1>3, <2>2 DEF Between
<1>14. Tags(r) = Tags(l) \cup {[start |-> n, size |-> size, at |-> fill]}
  <2>1. ASSUME NEW k \in 1 .. N PROVE \E m \in 1 .. N + 1 : Tag(r[m]) = Tag(l[k])
    <3>1. CASE k < i
      <4>1. k \in 1 .. i - 1 /\ k \in 1 .. N + 1
        BY <1>1, <3>1
      <4> QED
        BY <1>3, <4>1
    <3>2. CASE k = i
      <4>1. i + 1 \in 1 .. N + 1 /\ Tag(r[i + 1]) = Tag(l[i])
        BY <1>1, <1>8 DEF Tag
      <4> QED
        BY <3>2, <4>1
    <3>3. CASE k > i
      <4>1. k \in i + 1 .. N /\ k + 1 \in 1 .. N + 1
        BY <1>1, <3>3
      <4> QED
        BY <1>3, <4>1
    <3> QED
      BY <1>1, <3>1, <3>2, <3>3
  <2>2. Tag(r[i]) = [start |-> n, size |-> size, at |-> fill] /\ i \in 1 .. N + 1
    BY <1>1, <1>8 DEF Tag
  <2>3. ASSUME NEW m \in 1 .. N + 1, m # i PROVE \E k \in 1 .. N : Tag(r[m]) = Tag(l[k])
    BY <1>7, <2>3 DEF Tag
  <2>4. Tags(r) = {Tag(r[m]) : m \in 1 .. N + 1} /\ Tags(l) = {Tag(l[k]) : k \in 1 .. N}
    BY <1>3 DEF Tags, N
  <2> QED
    BY <2>1, <2>2, <2>3, <2>4
<1> QED
  BY <1>11, <1>12, <1>13, <1>14 DEF Taken, SameMemory

\* Range i of l is gone, and the next one has its memory.
DropAt(l, r, i) ==
  /\ i \in 1 .. Len(l) /\ i < Len(l)
  /\ Len(r) = Len(l) - 1
  /\ \A k \in 1 .. i - 1 : r[k] = l[k]
  /\ r[i] = [l[i + 1] EXCEPT !.end = l[i].end]
  /\ \A k \in i + 1 .. Len(l) - 1 : r[k] = l[k + 1]

\* Range i of l can be given back.
InUse(l, i) == i \in 1 .. Len(l) /\ l[i].size > 0

\* alloc_free() takes range i out of the list.
LEMMA Dropped ==
  ASSUME NEW top \in Nat, NEW l, ListOK(l, top), NEW i, InUse(l, i)
  PROVE  IsList(alloc_free(l, l[i].at), top) /\ DropAt(l, alloc_free(l, l[i].at), i)
<1> DEFINE n == Len(l)
           at == l[i].at
<1>1. l \in Seq(Raw(top)) /\ n \in Nat /\ i \in 1 .. n /\ i \in Nat
  BY DEF ListOK, InUse
<1>2. i < n /\ l[i + 1].end = l[i].start
  BY <1>1 DEF ListOK, InUse
<1>3. (CHOOSE k \in 1 .. n : l[k].at = at) = i
  BY <1>1 DEF ListOK
<1> DEFINE e == [l[i + 1] EXCEPT !.end = l[i].end]
           g == [l EXCEPT ![i + 1].end = l[i].end]
<1>4. e \in Raw(top)
  <2>1. l[i + 1] \in Raw(top) /\ l[i].end \in 2 .. top
    BY <1>1, <1>2, RangeFacts
  <2> QED
    BY <2>1 DEF Raw
<1>5. g \in Seq(Raw(top)) /\ Len(g) = n /\ g[i + 1] = e /\ \A k \in 1 .. n : k # i + 1 => g[k] = l[k]
  <2>1. g = [l EXCEPT ![i + 1] = e]
    BY <1>1, <1>2
  <2> HIDE DEF e, g
  <2> QED
    BY <1>1, <1>2, <1>4, <2>1
<1> HIDE DEF n
<1> DEFINE a == SubSeq(g, 1, i - 1)
           b == SubSeq(g, i + 1, Len(g))
           r == a \o b
<1>6. alloc_free(l, at) = r
  <2>1. ~(\A k \in 1 .. n : l[k].at # at)
    BY <1>1
  <2>2. SubSeq(g, i + 1, Len(l)) = b
    BY <1>5 DEF n
  <2> QED
    BY <1>2, <1>3, <2>1, <2>2, Zenon DEF alloc_free, n
<1> HIDE DEF e, g
<1>7. a \in Seq(Raw(top)) /\ Len(a) = i - 1 /\ \A k \in 1 .. i - 1 : a[k] = g[k]
  BY <1>1, <1>5, Pieces
<1>8. b \in Seq(Raw(top)) /\ Len(b) = n - i /\ \A k \in 1 .. n - i : b[k] = g[k + i]
  <2>1. (i + 1) - 1 = i /\ i + 1 \in 1 .. n + 1
    BY <1>1
  <2> QED
    BY <1>5, <2>1, Pieces
<1> HIDE DEF a, b
<1>9. IsJoin(Raw(top), a, b, r)
  BY <1>7, <1>8, Joined
<1> HIDE DEF r
<1>10. /\ r \in Seq(Raw(top)) /\ Len(r) = n - 1
       /\ \A m \in 1 .. n - 1 : r[m] = IF m <= i - 1 THEN g[m] ELSE g[m + 1]
  <2>1. r \in Seq(Raw(top)) /\ Len(r) = n - 1
    BY <1>1, <1>7, <1>8, <1>9 DEF IsJoin
  <2>2. ASSUME NEW m \in 1 .. n - 1 PROVE r[m] = IF m <= i - 1 THEN g[m] ELSE g[m + 1]
    <3>1. r[m] = IF m <= i - 1 THEN a[m] ELSE b[m - (i - 1)]
      BY <1>1, <1>7, <1>8, <1>9 DEF IsJoin
    <3>2. CASE m <= i - 1
      <4>1. m \in 1 .. i - 1
        BY <1>1, <3>2
      <4> QED
        BY <1>7, <3>1, <3>2, <4>1
    <3>3. CASE ~(m <= i - 1)
      <4>1. m - (i - 1) \in 1 .. n - i /\ (m - (i - 1)) + i = m + 1
        BY <1>1, <3>3
      <4> QED
        BY <1>8, <3>1, <3>3, <4>1
    <3> QED
      BY <3>2, <3>3
  <2> QED
    BY <2>1, <2>2
<1>11. DropAt(l, r, i)
  <2>1. \A k \in 1 .. i - 1 : r[k] = l[k]
    <3> TAKE k \in 1 .. i - 1
    <3>1. k \in 1 .. n - 1 /\ k \in 1 .. n /\ k # i + 1 /\ k <= i - 1
      BY <1>1
    <3> QED
      BY <1>5, <1>10, <3>1
  <2>2. r[i] = e
    <3>1. i \in 1 .. n - 1 /\ ~(i <= i - 1)
      BY <1>1, <1>2
    <3> QED
      BY <1>5, <1>10, <3>1
  <2>3. \A k \in i + 1 .. n - 1 : r[k] = l[k + 1]
    <3> TAKE k \in i + 1 .. n - 1
    <3>1. k \in 1 .. n - 1 /\ k + 1 \in 1 .. n /\ k + 1 # i + 1 /\ ~(k <= i - 1)
      BY <1>1
    <3> QED
      BY <1>5, <1>10, <3>1
  <2> QED
    BY <1>1, <1>2, <1>10, <2>1, <2>2, <2>3 DEF DropAt, e, n
<1> QED
  BY <1>6, <1>10, <1>11 DEF IsList

\* A list of which a range in use was given back is sound, if it was.
LEMMA DropKeeps ==
  ASSUME NEW top \in Nat, NEW l, ListOK(l, top), NEW i, InUse(l, i),
         NEW r, IsList(r, top), DropAt(l, r, i)
  PROVE  Freed(l, r, Tag(l[i]), top)
<1> DEFINE N == Len(l)
           was == [k \in 1 .. N - 1 |-> IF k < i THEN k ELSE k + 1]
<1>1. l \in Seq(Raw(top)) /\ N \in Nat /\ i \in 1 .. N /\ i \in Nat /\ r \in Seq(Raw(top))
  BY DEF ListOK, InUse, IsList
<1>2. \A k \in 1 .. N : /\ l[k].start \in Nat /\ l[k].end \in Nat
                        /\ l[k].size \in Nat /\ l[k].at \in Nat
  <2> TAKE k \in 1 .. N
  <2>1. l[k].start \in 2 .. top /\ l[k].end \in 2 .. top /\ l[k].size \in 0 .. top
        /\ l[k].at \in 0 .. top
    BY <1>1, RangeFacts
  <2> QED
    BY <2>1
<1>3. /\ i < N /\ Len(r) = N - 1
      /\ \A k \in 1 .. i - 1 : r[k] = l[k]
      /\ r[i] = [l[i + 1] EXCEPT !.end = l[i].end]
      /\ \A k \in i + 1 .. N - 1 : r[k] = l[k + 1]
  BY DEF DropAt
<1>4. /\ \A k \in 1 .. N : l[k].start + l[k].size <= l[k].end
      /\ \A j, k \in 1 .. N : j < k => l[k].end <= l[j].start
      /\ \A j, k \in 1 .. N : l[j].at = l[k].at => j = k
      /\ \A k \in 1 .. N : l[k].size > 0 => k < N /\ l[k + 1].end = l[k].start
  BY DEF ListOK
<1>5. /\ r[i].start = l[i + 1].start /\ r[i].end = l[i].end
      /\ r[i].size = l[i + 1].size /\ r[i].at = l[i + 1].at
      /\ i + 1 \in 1 .. N /\ l[i + 1].end = l[i].start
  <2>1. i + 1 \in 1 .. N
    BY <1>1, <1>3
  <2>2. l[i + 1] \in Raw(top)
    BY <1>1, <2>1, RangeFacts
  <2>3. l[i + 1].end = l[i].start
    BY <1>4 DEF InUse, N
  <2> QED
    BY <1>3, <2>1, <2>2, <2>3 DEF Raw
<1> HIDE DEF N
<1>6. \A k \in 1 .. N - 1 :
        /\ was[k] \in 1 .. N /\ was[k] # i
        /\ k < i => was[k] = k
        /\ k >= i => was[k] = k + 1
  BY <1>1
<1> HIDE DEF was
<1>7. \A k \in 1 .. N - 1 :
        /\ r[k].start = l[was[k]].start /\ r[k].size = l[was[k]].size
        /\ r[k].at = l[was[k]].at
        /\ k # i => r[k].end = l[was[k]].end
  <2> TAKE k \in 1 .. N - 1
  <2>1. CASE k < i
    <3>1. k \in 1 .. i - 1
      BY <1>1, <2>1
    <3> QED
      BY <1>3, <1>6, <2>1, <3>1
  <2>2. CASE k = i
    <3>1. was[k] = i + 1
      BY <1>1, <1>6, <2>2
    <3> QED
      BY <1>5, <2>2, <3>1
  <2>3. CASE k > i
    <3>1. k \in i + 1 .. N - 1 /\ was[k] = k + 1
      BY <1>1, <1>6, <2>3
    <3> QED
      BY <1>3, <3>1
  <2>4. k < i \/ k = i \/ k > i
    BY <1>1
  <2> QED
    BY <2>1, <2>2, <2>3, <2>4, Zenon
<1>8. \A j, k \in 1 .. N - 1 : j < k => was[j] < was[k]
  <2> TAKE j, k \in 1 .. N - 1
  <2>1. (j < i \/ j >= i) /\ (k < i \/ k >= i)
    BY <1>1
  <2> QED
    BY <1>1, <1>6, <2>1
<1>9. l[i + 1].start + l[i + 1].size <= l[i].start /\ l[i].start <= l[i].end
      /\ l[i + 1].start <= l[i].start
  <2> DEFINE a == l[i + 1].start
             b == l[i + 1].size
             c == l[i].start
             d == l[i].size
             e == l[i].end
  <2>1. a + b <= l[i + 1].end /\ c + d <= e
    BY <1>1, <1>4, <1>5
  <2>2. a \in Nat /\ b \in Nat /\ c \in Nat /\ d \in Nat /\ e \in Nat
    BY <1>1, <1>2, <1>5
  <2>3. a + b <= c
    BY <1>5, <2>1
  <2> HIDE DEF a, b, c, d, e
  <2>4. a + b <= c /\ c <= e /\ a <= c
    BY <2>1, <2>2, <2>3
  <2> QED
    BY <2>4 DEF a, b, c, e
<1>11. ListOK(r, top)
  <2>1. ASSUME NEW k \in 1 .. N - 1 PROVE r[k].start + r[k].size <= r[k].end
    <3>1. CASE k = i
      <4>1. l[i + 1].start + l[i + 1].size <= l[i].end
        BY <1>1, <1>2, <1>5, <1>9, SMTT(40)
      <4> QED
        BY <1>5, <3>1, <4>1
    <3>2. CASE k # i
      <4>1. l[was[k]].start + l[was[k]].size <= l[was[k]].end
        BY <1>4, <1>6
      <4> QED
        BY <1>7, <3>2, <4>1
    <3> QED
      BY <3>1, <3>2
  <2>2. ASSUME NEW j \in 1 .. N - 1, NEW k \in 1 .. N - 1, j < k PROVE r[k].end <= r[j].start
    <3>1. was[j] \in 1 .. N /\ was[k] \in 1 .. N /\ was[j] < was[k]
      BY <1>6, <1>8, <2>2
    <3>2. CASE k = i
      <4>1. was[j] = j /\ j \in 1 .. N /\ j < i
        BY <1>1, <1>6, <2>2, <3>2
      <4>2. l[i].end <= l[j].start
        BY <1>1, <1>4, <4>1
      <4>3. r[j].start = l[j].start /\ r[k].end = l[i].end
        BY <1>5, <1>7, <3>2, <4>1
      <4> QED
        BY <4>2, <4>3
    <3>3. CASE k # i
      <4>1. l[was[k]].end <= l[was[j]].start
        BY <1>4, <3>1
      <4> QED
        BY <1>7, <3>3, <4>1
    <3> QED
      BY <3>2, <3>3
  <2>3. ASSUME NEW j \in 1 .. N - 1, NEW k \in 1 .. N - 1, r[j].at = r[k].at PROVE j = k
    <3>1. was[j] = was[k]
      BY <1>4, <1>6, <1>7, <2>3
    <3>2. ~(j < k) /\ ~(k < j)
      <4>1. was[j] \in Int /\ was[k] \in Int
        BY <1>6
      <4> QED
        BY <1>8, <3>1, <4>1
    <3> QED
      BY <3>2
  <2>4. ASSUME NEW k \in 1 .. N - 1, r[k].size > 0
        PROVE  k < N - 1 /\ r[k + 1].end = r[k].start
    <3>1. was[k] < N /\ l[was[k] + 1].end = l[was[k]].start /\ was[k] \in 1 .. N
      BY <1>4, <1>6, <1>7, <2>4
    <3>2. CASE k < i
      <4>1. was[k] = k /\ k < N - 1 /\ k + 1 \in 1 .. N - 1
        BY <1>1, <1>3, <1>6, <3>2
      <4>2. r[k + 1].end = l[k + 1].end
        <5>1. CASE k + 1 = i
          BY <1>5, <5>1
        <5>2. CASE k + 1 # i
          <6>1. k + 1 < i
            BY <1>1, <3>2, <5>2
          <6> QED
            BY <1>6, <1>7, <4>1, <5>2, <6>1
        <5> QED
          BY <5>1, <5>2
      <4> QED
        BY <1>7, <3>1, <4>1, <4>2
    <3>3. CASE k >= i
      <4>1. was[k] = k + 1 /\ k < N - 1 /\ k + 1 \in 1 .. N - 1 /\ k + 1 # i /\ k + 1 >= i
        BY <1>1, <1>6, <3>1, <3>3
      <4>2. was[k + 1] = (k + 1) + 1
        BY <1>6, <4>1
      <4>3. r[k + 1].end = l[was[k] + 1].end
        BY <1>7, <4>1, <4>2
      <4> QED
        BY <1>7, <3>1, <4>1, <4>3
    <3>4. k < i \/ k >= i
      BY <1>1
    <3> QED
      BY <3>2, <3>3, <3>4
  <2> QED
    BY <1>1, <1>3, <2>1, <2>2, <2>3, <2>4 DEF ListOK
<1>12. ASSUME NEW x PROVE x \in Covered(r) <=> x \in Covered(l)
  <2>1. x \in Covered(l) <=> x \in Int /\ \E k \in 1 .. N : l[k].start <= x /\ x < l[k].end
    BY <1>1, CoveredMeans DEF N
  <2>2. x \in Covered(r) <=> x \in Int /\ \E k \in 1 .. N - 1 : r[k].start <= x /\ x < r[k].end
    BY <1>1, <1>3, CoveredMeans
  <2>3. ASSUME x \in Int, NEW k \in 1 .. N, l[k].start <= x, x < l[k].end
        PROVE  \E m \in 1 .. N - 1 : r[m].start <= x /\ x < r[m].end
    <3>1. CASE k < i
      <4>1. k \in 1 .. i - 1 /\ k \in 1 .. N - 1
        BY <1>1, <3>1
      <4> QED
        BY <1>3, <2>3, <4>1
    <3>2. CASE k = i \/ k = i + 1
      <4>1. i \in 1 .. N - 1
        BY <1>1, <1>3
      <4>2. r[i].start <= x /\ x < r[i].end
        BY <1>1, <1>2, <1>5, <1>9, <2>3, <3>2, SMTT(40)
      <4> QED
        BY <4>1, <4>2
    <3>3. CASE k > i + 1
      <4>1. k - 1 \in i + 1 .. N - 1 /\ k - 1 \in 1 .. N - 1 /\ (k - 1) + 1 = k
        BY <1>1, <3>3
      <4> QED
        BY <1>3, <2>3, <4>1
    <3>4. k < i \/ k = i \/ k = i + 1 \/ k > i + 1
      BY <1>1
    <3> QED
      BY <3>1, <3>2, <3>3, <3>4
  <2>4. ASSUME x \in Int, NEW m \in 1 .. N - 1, r[m].start <= x, x < r[m].end
        PROVE  \E k \in 1 .. N : l[k].start <= x /\ x < l[k].end
    <3>1. CASE m # i
      BY <1>6, <1>7, <2>4, <3>1
    <3>2. CASE m = i /\ x < l[i].start
      BY <1>5, <2>4, <3>2
    <3>3. CASE m = i /\ ~(x < l[i].start)
      BY <1>1, <1>2, <1>5, <2>4, <3>3, SMTT(40)
    <3> QED
      BY <3>1, <3>2, <3>3
  <2> QED
    BY <2>1, <2>2, <2>3, <2>4
<1>13. ASSUME NEW lo \in Nat, NEW hi \in Nat, Between(l, lo, hi) PROVE Between(r, lo, hi)
  <2>1. \A k \in 1 .. N : lo <= l[k].start /\ l[k].end <= hi
    BY <1>13 DEF Between, N
  <2>2. ASSUME NEW m \in 1 .. N - 1 PROVE lo <= r[m].start /\ r[m].end <= hi
    <3>1. lo <= l[was[m]].start /\ l[was[m]].end <= hi /\ l[i].end <= hi
      BY <1>1, <1>6, <2>1
    <3> QED
      BY <1>5, <1>7, <3>1
  <2> QED
    BY <1>3, <2>2 DEF Between
<1>14. Tags(r) = Tags(l) \ {Tag(l[i])}
  <2>1. \A m \in 1 .. N - 1 : was[m] \in 1 .. N /\ was[m] # i /\ Tag(r[m]) = Tag(l[was[m]])
    BY <1>6, <1>7 DEF Tag
  <2>2. ASSUME NEW k \in 1 .. N, k # i PROVE \E m \in 1 .. N - 1 : was[m] = k
    <3>1. CASE k < i
      <4>1. k \in 1 .. N - 1
        BY <1>1, <3>1
      <4> QED
        BY <1>6, <3>1, <4>1
    <3>2. CASE k > i
      <4>1. k - 1 \in 1 .. N - 1 /\ k - 1 >= i /\ (k - 1) + 1 = k
        BY <1>1, <3>2
      <4> QED
        BY <1>6, <4>1
    <3> QED
      BY <1>1, <2>2, <3>1, <3>2
  <2>3. \A k \in 1 .. N : k # i => Tag(l[k]) # Tag(l[i])
    <3> SUFFICES ASSUME NEW k \in 1 .. N, Tag(l[k]) = Tag(l[i]) PROVE k = i
      OBVIOUS
    <3>1. l[k].at = l[i].at
      BY DEF Tag
    <3> QED
      BY <1>1, <1>4, <3>1
  <2>4. Tags(r) = {Tag(r[m]) : m \in 1 .. N - 1} /\ Tags(l) = {Tag(l[k]) : k \in 1 .. N}
    BY <1>3 DEF Tags, N
  <2> QED
    BY <1>1, <2>1, <2>2, <2>3, <2>4, SMTT(40)
<1> QED
  BY <1>11, <1>12, <1>13, <1>14 DEF Freed, SameMemory

\* Addresses, sizes and alignments for which u32 arithmetic is exact.
TopOK(top) == top \in Nat /\ top >= 2 /\ top < Word /\ Word \in Nat
SizeOK(size, align) == size \in Nat \ {0} /\ align \in Nat \ {0} /\ size + align <= Word
NoneAt(l, at) == \A t \in Tags(l) : t.at # at

\* What alloc_new() did to list l: nothing, or it took what it returns.
TookOrNot(l, r, size, align, fill, top) ==
  \/ r.data = 0 /\ r.list = l
  \/ /\ r.data \in 2 .. top
     /\ Taken(l, r.list, r.data, size, fill, top)
     /\ r.data % align = 0

\* ALIGN_DOWN() aligns.
LEMMA AlignedIs ==
  ASSUME NEW x \in Nat, NEW a \in Nat \ {0}
  PROVE  ALIGN_DOWN(x, a) % a = 0
<1>1. x = a * (x \div a) + (x % a) /\ x \div a \in Nat
  OBVIOUS
<1>2. ALIGN_DOWN(x, a) = a * (x \div a)
  BY <1>1 DEF ALIGN_DOWN
<1>3. \A q \in Nat : (a * q) % a = 0
  OBVIOUS
<1> QED
  BY <1>1, <1>2, <1>3

\* alloc_new() takes a block of free memory, or nothing.
LEMMA AllocNew ==
  ASSUME NEW top, TopOK(top), NEW l, ListOK(l, top),
         NEW size, NEW align, SizeOK(size, align), NEW fill \in 0 .. top, NoneAt(l, fill)
  PROVE  TookOrNot(l, alloc_new(l, size, align, fill), size, align, fill, top)
<1> DEFINE fitting == {i \in 1 .. Len(l) : Fits(l[i], size, align)}
<1>1. l \in Seq(Raw(top)) /\ Len(l) \in Nat /\ top \in Nat /\ top < Word /\ Word \in Nat
  BY DEF ListOK, TopOK
<1>2. CASE fitting = {}
  <2>1. alloc_new(l, size, align, fill) = [list |-> l, data |-> 0]
    BY <1>2 DEF alloc_new
  <2> QED
    BY <2>1 DEF TookOrNot
<1>3. CASE fitting # {}
  <2> DEFINE i == Min(fitting)
             n == Cut(l[i], size, align)
             e == [start |-> n, end |-> l[i].end, size |-> size, at |-> fill]
             f == [l[i] EXCEPT !.end = n]
             r == SubSeq(l, 1, i - 1) \o <<e, f>> \o SubSeq(l, i + 1, Len(l))
  <2>1. i \in 1 .. Len(l) /\ Fits(l[i], size, align)
    <3>1. fitting \in SUBSET Nat
      BY <1>1
    <3>2. i \in fitting
      BY <1>3, <3>1, MinOf
    <3> QED
      BY <3>2
  <2>2. alloc_new(l, size, align, fill) = [list |-> r, data |-> n]
    BY <1>3, Zenon DEF alloc_new, TakeFrom
  <2> HIDE DEF i
  <2>3. /\ l[i].start \in 2 .. top /\ l[i].end \in 2 .. top
        /\ l[i].size \in 0 .. top /\ l[i].at \in 0 .. top /\ l[i] \in Raw(top)
        /\ l[i].start + l[i].size <= l[i].end
    BY <1>1, <2>1, RangeFacts DEF ListOK
  <2>4. size \in Nat \ {0} /\ align \in Nat \ {0} /\ size + align <= Word
    BY DEF SizeOK
  <2>5. n \in Nat /\ l[i].start + l[i].size <= n /\ n + size <= l[i].end
    <3>1. l[i].start \in Nat /\ l[i].end \in Nat /\ l[i].size \in Nat /\ l[i].end < Word
      BY <1>1, <2>3, SMTT(40)
    <3> QED
      BY <1>1, <2>1, <2>3, <2>4, <3>1, FitsMeans
  <2>6. n % align = 0
    <3>1. (l[i].end - size) % Word \in Nat
      BY <1>1, <2>3, <2>4, SMTT(30)
    <3> QED
      BY <2>4, <3>1, AlignedIs DEF Cut
  <2> HIDE DEF n
  <2>7. n \in 2 .. top /\ size \in 0 .. top
    BY <1>1, <2>3, <2>4, <2>5, SMTT(30)
  <2>8. e \in Raw(top) /\ f \in Raw(top)
    BY <2>3, <2>7 DEF Raw
  <2>9. r \in Seq(Raw(top)) /\ CutAt(l, r, i, e, f)
    BY <1>1, <2>1, <2>8, Split
  <2>10. GivesAway(l, r, i, n, size, fill)
    BY <2>9 DEF GivesAway
  <2> HIDE DEF e, f, r
  <2>11. RoomAt(l, i, n, size, fill)
    <3>1. \A k \in 1 .. Len(l) : l[k].at # fill
      <4> TAKE k \in 1 .. Len(l)
      <4>1. Tag(l[k]) \in Tags(l) /\ Tag(l[k]).at = l[k].at
        BY DEF Tags, Tag
      <4> QED
        BY <4>1 DEF NoneAt
    <3> QED
      BY <2>1, <2>5, <3>1 DEF RoomAt
  <2>12. Taken(l, r, n, size, fill, top)
    <3>1. fill \in Nat
      BY <1>1
    <3> QED
      BY <1>1, <2>4, <2>5, <2>9, <2>10, <2>11, <3>1, CutKeeps DEF IsList
  <2> QED
    BY <2>2, <2>6, <2>7, <2>12 DEF TookOrNot
<1> QED
  BY <1>2, <1>3

\* alloc_free() gives a range in use back to the one below.
LEMMA AllocFree ==
  ASSUME NEW top, TopOK(top), NEW l, ListOK(l, top), NEW t \in Tags(l), t.size > 0
  PROVE  Freed(l, alloc_free(l, t.at), t, top)
<1>1. PICK i \in 1 .. Len(l) : t = Tag(l[i])
  BY DEF Tags
<1>2. InUse(l, i) /\ t.at = l[i].at
  BY <1>1 DEF InUse, Tag
<1>3. top \in Nat
  BY DEF TopOK
<1> QED
  BY <1>1, <1>2, <1>3, Dropped, DropKeeps

\* alloc_free() of what is not in the list changes nothing.
LEMMA AllocFreeNone ==
  ASSUME NEW l, NEW at, NoneAt(l, at)
  PROVE  alloc_free(l, at) = l
<1>1. \A k \in 1 .. Len(l) : l[k].at # at
  <2> TAKE k \in 1 .. Len(l)
  <2>1. Tag(l[k]) \in Tags(l) /\ Tag(l[k]).at = l[k].at
    BY DEF Tags, Tag
  <2> QED
    BY <2>1 DEF NoneAt
<1> QED
  BY <1>1 DEF alloc_free

\* The range start .. end was put at the end of l.
Extended(l, r, start, end, top) ==
  /\ ListOK(r, top)
  /\ Covered(r) = Covered(l) \cup (start .. end - 1)
  /\ Tags(r) = Tags(l) \cup {[start |-> start, size |-> 0, at |-> TempData]}
  /\ \A lo, hi \in Nat :
       Between(l, lo, hi) /\ lo <= start /\ end <= hi => Between(r, lo, hi)

\* The list lies above end.
Above(l, end) == \A i \in 1 .. Len(l) : end <= l[i].start
RegionOK(start, end, top) == start \in 2 .. top /\ end \in 2 .. top /\ start <= end

\* Memory that lies below all of a list becomes its last range.
LEMMA Inserted ==
  ASSUME NEW top, TopOK(top), NEW l, ListOK(l, top), NEW start, NEW end,
         RegionOK(start, end, top), Above(l, end), NoneAt(l, TempData)
  PROVE  Extended(l, InsertRange(l, start, end), start, end, top)
<1> DEFINE n == Len(l)
           e == [start |-> start, end |-> end, size |-> 0, at |-> TempData]
           r == InsertRange(l, start, end)
<1>1. /\ l \in Seq(Raw(top)) /\ n \in Nat /\ top \in Nat /\ top >= 2
      /\ start \in Nat /\ end \in Nat /\ start >= 2 /\ start <= end /\ end <= top
  BY DEF ListOK, TopOK, RegionOK
<1>2. \A k \in 1 .. n : /\ l[k].start \in Nat /\ l[k].end \in Nat
                        /\ l[k].size \in Nat /\ l[k].at \in Nat
  <2> TAKE k \in 1 .. n
  <2>1. l[k].start \in 2 .. top /\ l[k].end \in 2 .. top /\ l[k].size \in 0 .. top
        /\ l[k].at \in 0 .. top
    BY <1>1, RangeFacts
  <2> QED
    BY <2>1
<1>3. \A k \in 1 .. n : end <= l[k].start /\ l[k].at # TempData
  <2> TAKE k \in 1 .. n
  <2>1. Tag(l[k]) \in Tags(l) /\ Tag(l[k]).at = l[k].at
    BY DEF Tags, Tag
  <2> QED
    BY <2>1 DEF NoneAt, Above
<1>4. FirstBelow(l, start) = n + 1
  <2>1. {i \in DOMAIN l : l[i].start < start} = {}
    <3> SUFFICES ASSUME NEW i \in DOMAIN l, l[i].start < start PROVE FALSE
      OBVIOUS
    <3>1. i \in 1 .. n
      BY <1>1
    <3>2. end <= l[i].start /\ l[i].start \in Nat
      BY <1>2, <1>3, <3>1
    <3> QED
      BY <1>1, <3>2
  <2>2. Min({n + 1}) \in {n + 1}
    <3>1. {n + 1} \in SUBSET Nat
      BY <1>1
    <3> QED
      BY <3>1, MinOf
  <2>3. FirstBelow(l, start) = Min({n + 1})
    BY <2>1 DEF FirstBelow
  <2> QED
    BY <2>2, <2>3
<1>5. e \in Raw(top)
  BY <1>1 DEF Raw, TempData
<1> DEFINE a == SubSeq(l, 1, (n + 1) - 1)
           b == <<e>>
           c == SubSeq(l, n + 1, Len(l))
<1>6. r = (a \o b) \o c
  BY <1>4, Zenon DEF InsertRange
<1>7. /\ a \in Seq(Raw(top)) /\ Len(a) = n /\ \A k \in 1 .. n : a[k] = l[k]
      /\ c \in Seq(Raw(top)) /\ Len(c) = 0
  <2>1. n + 1 \in 1 .. Len(l) + 1 /\ (n + 1) - 1 = n
    BY <1>1
  <2>2. /\ a \in Seq(Raw(top)) /\ Len(a) = (n + 1) - 1
        /\ \A k \in 1 .. (n + 1) - 1 : a[k] = l[k]
        /\ c \in Seq(Raw(top)) /\ Len(c) = Len(l) - ((n + 1) - 1)
    BY <1>1, <2>1, Pieces
  <2> QED
    BY <1>1, <2>1, <2>2
<1>8. b \in Seq(Raw(top)) /\ Len(b) = 1 /\ b[1] = e
  BY <1>5
<1>30. e.start = start /\ e.end = end /\ e.size = 0 /\ e.at = TempData
       /\ Tag(e) = [start |-> start, size |-> 0, at |-> TempData]
  BY DEF Tag
<1> HIDE DEF a, b, c, r, e
<1>9. IsJoin(Raw(top), a, b, a \o b)
  BY <1>7, <1>8, Joined
<1>10. IsJoin(Raw(top), a \o b, c, r)
  BY <1>6, <1>7, <1>9, Joined DEF IsJoin
<1>11. /\ r \in Seq(Raw(top)) /\ Len(r) = n + 1
       /\ r[n + 1] = e /\ \A k \in 1 .. n : r[k] = l[k]
  <2>1. Len(a \o b) = n + 1 /\ \A m \in 1 .. n + 1 : (a \o b)[m] = IF m <= n THEN a[m] ELSE b[m - n]
    BY <1>7, <1>8, <1>9 DEF IsJoin
  <2>2. r \in Seq(Raw(top)) /\ Len(r) = n + 1 /\ \A m \in 1 .. n + 1 : r[m] = (a \o b)[m]
    BY <1>1, <1>7, <1>10, <2>1 DEF IsJoin
  <2>3. r[n + 1] = e
    <3>1. n + 1 \in 1 .. n + 1 /\ ~(n + 1 <= n) /\ (n + 1) - n = 1
      BY <1>1
    <3> QED
      BY <1>8, <2>1, <2>2, <3>1
  <2>4. \A k \in 1 .. n : r[k] = l[k]
    <3> TAKE k \in 1 .. n
    <3>1. k \in 1 .. n + 1 /\ k <= n
      BY <1>1
    <3> QED
      BY <1>7, <2>1, <2>2, <3>1
  <2> QED
    BY <2>2, <2>3, <2>4
<1>12. /\ \A k \in 1 .. n : l[k].start + l[k].size <= l[k].end
       /\ \A j, k \in 1 .. n : j < k => l[k].end <= l[j].start
       /\ \A j, k \in 1 .. n : l[j].at = l[k].at => j = k
       /\ \A k \in 1 .. n : l[k].size > 0 => k < n /\ l[k + 1].end = l[k].start
  BY DEF ListOK
<1> HIDE DEF n
<1>13. \A m \in 1 .. n + 1 : m \in 1 .. n \/ m = n + 1
  BY <1>1
<1>14. \A m \in 1 .. n : m \in 1 .. n + 1
  BY <1>1
<1>15. ListOK(r, top)
  <2>1. ASSUME NEW k \in 1 .. n + 1 PROVE r[k].start + r[k].size <= r[k].end
    <3>1. start + 0 <= end
      BY <1>1
    <3> QED
      BY <1>11, <1>12, <1>13, <1>30, <3>1
  <2>2. ASSUME NEW j \in 1 .. n + 1, NEW k \in 1 .. n + 1, j < k PROVE r[k].end <= r[j].start
    <3>1. j \in 1 .. n
      BY <1>1, <2>2
    <3> QED
      BY <1>3, <1>11, <1>12, <1>13, <1>30, <2>2, <3>1
  <2>3. ASSUME NEW j \in 1 .. n + 1, NEW k \in 1 .. n + 1, r[j].at = r[k].at PROVE j = k
    BY <1>3, <1>11, <1>12, <1>13, <1>30, <2>3
  <2>4. ASSUME NEW k \in 1 .. n + 1, r[k].size > 0
        PROVE  k < n + 1 /\ r[k + 1].end = r[k].start
    <3>1. k \in 1 .. n
      BY <1>11, <1>13, <1>30, <2>4
    <3>2. k < n /\ l[k + 1].end = l[k].start /\ k + 1 \in 1 .. n
      BY <1>1, <1>11, <1>12, <2>4, <3>1
    <3> QED
      BY <1>1, <1>11, <3>1, <3>2, SMTT(40)
  <2> QED
    BY <1>11, <2>1, <2>2, <2>3, <2>4 DEF ListOK
<1>16. ASSUME NEW x PROVE x \in Covered(r) <=> x \in Covered(l) \/ x \in start .. end - 1
  <2>1. x \in Covered(l) <=> x \in Int /\ \E k \in 1 .. n : l[k].start <= x /\ x < l[k].end
    BY <1>1, CoveredMeans DEF n
  <2>2. x \in Covered(r) <=> x \in Int /\ \E k \in 1 .. n + 1 : r[k].start <= x /\ x < r[k].end
    BY <1>11, CoveredMeans
  <2>3. x \in start .. end - 1 <=> x \in Int /\ start <= x /\ x < end
    BY <1>1
  <2>4. n + 1 \in 1 .. n + 1
    BY <1>1
  <2> QED
    BY <1>11, <1>13, <1>14, <1>30, <2>1, <2>2, <2>3, <2>4
<1>17. Tags(r) = Tags(l) \cup {[start |-> start, size |-> 0, at |-> TempData]}
  <2>1. Tags(r) = {Tag(r[m]) : m \in 1 .. n + 1} /\ Tags(l) = {Tag(l[k]) : k \in 1 .. n}
    BY <1>11 DEF Tags, n
  <2>2. n + 1 \in 1 .. n + 1
    BY <1>1
  <2> QED
    BY <1>11, <1>13, <1>14, <1>30, <2>1, <2>2
<1>18. ASSUME NEW lo \in Nat, NEW hi \in Nat, Between(l, lo, hi), lo <= start, end <= hi
       PROVE  Between(r, lo, hi)
  <2>1. \A k \in 1 .. n : lo <= l[k].start /\ l[k].end <= hi
    BY <1>18 DEF Between, n
  <2> QED
    BY <1>11, <1>13, <1>18, <1>30, <2>1 DEF Between
<1> QED
  BY <1>15, <1>16, <1>17, <1>18 DEF Extended, r

\* The address that hlist_replace() gives to what is described at a.
NewAt(a, d) == IF a = TempDetail THEN d ELSE IF a = TempData THEN d + DataOff ELSE a
NewTag(t, d) == [t EXCEPT !.at = NewAt(t.at, d)]

\* A list after its temporary nodes were replaced.
SettledList(l, d) ==
  [i \in DOMAIN l |->
     IF l[i].at = TempDetail THEN [l[i] EXCEPT !.at = d]
     ELSE IF l[i].at = TempData THEN [l[i] EXCEPT !.at = d + DataOff]
     ELSE l[i]]

\* List r is l with the temporary descriptions at d.
Renamed(l, r, d, top) ==
  /\ ListOK(r, top)
  /\ SameMemory(l, r)
  /\ Tags(r) = {NewTag(t, d) : t \in Tags(l)}

\* A detail at d has all its members in memory.
DetailAt(d, top) == d \in 2 .. top /\ d + DataOff \in 2 .. top

\* Describing a range elsewhere changes no byte and no size.
LEMMA SettledKeeps ==
  ASSUME NEW top, TopOK(top), NEW l, ListOK(l, top), NEW d, DetailAt(d, top),
         NoneAt(l, d), NoneAt(l, d + DataOff)
  PROVE  Renamed(l, SettledList(l, d), d, top)
<1> DEFINE n == Len(l)
           r == SettledList(l, d)
<1>1. l \in Seq(Raw(top)) /\ n \in Nat /\ DOMAIN l = 1 .. n
  BY DEF ListOK
<1>2. /\ DataOff \in Nat \ {0} /\ d \in 2 .. top /\ d + DataOff \in 2 .. top /\ top \in Nat
      /\ d # d + DataOff
  <2>1. DataOff \in Nat \ {0} /\ d \in 2 .. top /\ d + DataOff \in 2 .. top /\ top \in Nat
    BY MallocAssumption DEF DetailAt, TopOK
  <2> QED
    BY <2>1
<1>3. \A k \in 1 .. n : l[k].at # d /\ l[k].at # d + DataOff
  <2> TAKE k \in 1 .. n
  <2>1. Tag(l[k]) \in Tags(l) /\ Tag(l[k]).at = l[k].at
    BY DEF Tags, Tag
  <2> QED
    BY <2>1 DEF NoneAt
<1>4. \A k \in 1 .. n :
        /\ r[k] \in Raw(top)
        /\ r[k].start = l[k].start /\ r[k].end = l[k].end /\ r[k].size = l[k].size
        /\ r[k].at = NewAt(l[k].at, d)
  <2> TAKE k \in 1 .. n
  <2>1. l[k] \in Raw(top)
    BY <1>1, RangeFacts, <1>2
  <2>2. r[k] = IF l[k].at = TempDetail THEN [l[k] EXCEPT !.at = d]
               ELSE IF l[k].at = TempData THEN [l[k] EXCEPT !.at = d + DataOff]
               ELSE l[k]
    BY <1>1 DEF SettledList
  <2>3. d \in 0 .. top /\ d + DataOff \in 0 .. top
    BY <1>2
  <2> HIDE DEF r
  <2> QED
    BY <2>1, <2>2, <2>3 DEF Raw, NewAt
<1>5. Len(r) = n /\ r \in Seq(Raw(top))
  <2>1. r = [k \in 1 .. n |-> r[k]]
    BY <1>1 DEF SettledList
  <2> HIDE DEF r
  <2> QED
    BY <1>1, <1>4, <2>1
<1>6. /\ \A k \in 1 .. n : l[k].start + l[k].size <= l[k].end
      /\ \A j, k \in 1 .. n : j < k => l[k].end <= l[j].start
      /\ \A j, k \in 1 .. n : l[j].at = l[k].at => j = k
      /\ \A k \in 1 .. n : l[k].size > 0 => k < n /\ l[k + 1].end = l[k].start
  BY DEF ListOK
<1> HIDE DEF r, n
<1>7. ListOK(r, top)
  <2>1. ASSUME NEW j \in 1 .. n, NEW k \in 1 .. n, r[j].at = r[k].at PROVE j = k
    <3>1. NewAt(l[j].at, d) = NewAt(l[k].at, d)
      BY <1>4, <2>1
    <3>2. l[j].at = l[k].at
      BY <1>2, <1>3, <3>1, Zenon DEF NewAt
    <3> QED
      BY <1>6, <3>2
  <2>2. ASSUME NEW k \in 1 .. n, r[k].size > 0 PROVE k < n /\ r[k + 1].end = r[k].start
    <3>1. k < n /\ l[k + 1].end = l[k].start
      BY <1>4, <1>6, <2>2
    <3>2. k + 1 \in 1 .. n
      BY <1>1, <3>1
    <3> QED
      BY <1>4, <3>1, <3>2
  <2> QED
    BY <1>4, <1>5, <1>6, <2>1, <2>2 DEF ListOK
<1>8. ASSUME NEW x PROVE x \in Covered(r) <=> x \in Covered(l)
  <2>1. x \in Covered(l) <=> x \in Int /\ \E k \in 1 .. n : l[k].start <= x /\ x < l[k].end
    BY <1>1, CoveredMeans DEF n
  <2>2. x \in Covered(r) <=> x \in Int /\ \E k \in 1 .. n : r[k].start <= x /\ x < r[k].end
    BY <1>5, CoveredMeans
  <2> QED
    BY <1>4, <2>1, <2>2
<1>9. ASSUME NEW lo \in Nat, NEW hi \in Nat, Between(l, lo, hi) PROVE Between(r, lo, hi)
  BY <1>4, <1>5, <1>9 DEF Between, n
<1>10. Tags(r) = {NewTag(t, d) : t \in Tags(l)}
  <2>1. Tags(r) = {Tag(r[m]) : m \in 1 .. n} /\ Tags(l) = {Tag(l[k]) : k \in 1 .. n}
    BY <1>5 DEF Tags, n
  <2>2. \A k \in 1 .. n : Tag(r[k]) = NewTag(Tag(l[k]), d)
    BY <1>4 DEF Tag, NewTag
  <2> QED
    BY <2>1, <2>2
<1> QED
  BY <1>7, <1>8, <1>9, <1>10 DEF Renamed, SameMemory, r

\* The lowest range of l begins at start.
Restarted(l, start) == [l EXCEPT ![Len(l)].start = start]
Lowest(l) == l[Len(l)]

\* Behind the lowest range there is none it could have been cut from.
LEMMA LowestIsFree ==
  ASSUME NEW top, TopOK(top), NEW l, ListOK(l, top), Tags(l) # {}
  PROVE  /\ Len(l) \in 1 .. Len(l) /\ Lowest(l).size = 0
         /\ Lowest(l).start \in 2 .. top /\ Lowest(l).end \in 2 .. top
         /\ Lowest(l).start <= Lowest(l).end /\ Lowest(l) \in Raw(top)
         /\ Tag(Lowest(l)) \in Tags(l)
<1>1. l \in Seq(Raw(top)) /\ Len(l) \in Nat /\ top \in Nat
  BY DEF ListOK, TopOK
<1>2. Len(l) \in 1 .. Len(l)
  BY <1>1 DEF Tags
<1>3. /\ Lowest(l).start \in 2 .. top /\ Lowest(l).end \in 2 .. top /\ Lowest(l) \in Raw(top)
      /\ Lowest(l).size \in 0 .. top
  BY <1>1, <1>2, RangeFacts DEF Lowest
<1>4. Lowest(l).size = 0 /\ Lowest(l).start + Lowest(l).size <= Lowest(l).end
  <2>1. Lowest(l).size > 0 => Len(l) < Len(l)
    BY <1>2 DEF ListOK, Lowest
  <2>2. Lowest(l).start + Lowest(l).size <= Lowest(l).end
    BY <1>2 DEF ListOK, Lowest
  <2> QED
    BY <1>1, <1>3, <2>1, <2>2
<1>5. Tag(Lowest(l)) \in Tags(l)
  BY <1>2 DEF Tags, Lowest
<1> QED
  BY <1>2, <1>3, <1>4, <1>5

\* List r is l with its lowest address moved to start.
RestartedAt(l, r, start, top) ==
  /\ ListOK(r, top)
  /\ Lowest(r).start = start /\ Lowest(r).end = Lowest(l).end
  /\ Tags(r) = (Tags(l) \ {Tag(Lowest(l))})
                 \cup {[start |-> start, size |-> 0, at |-> Lowest(l).at]}
  /\ \A lo, hi \in Nat : Between(l, lo, hi) /\ lo <= start => Between(r, lo, hi)

\* A list of which the lowest range begins elsewhere is as sound.
LEMMA RestartKeeps ==
  ASSUME NEW top, TopOK(top), NEW l, ListOK(l, top), Tags(l) # {},
         NEW start, start \in 2 .. Lowest(l).end
  PROVE  RestartedAt(l, Restarted(l, start), start, top)
<1> DEFINE n == Len(l)
           e == [l[n] EXCEPT !.start = start]
           r == Restarted(l, start)
<1>1. l \in Seq(Raw(top)) /\ n \in 1 .. n /\ n \in Nat /\ top \in Nat
  BY LowestIsFree DEF ListOK, TopOK
<1>2. /\ Lowest(l) = l[n] /\ l[n] \in Raw(top) /\ l[n].size = 0
      /\ l[n].start \in 2 .. top /\ l[n].end \in 2 .. top /\ l[n].start <= l[n].end
  BY LowestIsFree DEF Lowest
<1>3. start \in 2 .. top /\ start <= l[n].end /\ start \in Nat
  BY <1>1, <1>2
<1>4. /\ e \in Raw(top) /\ e.start = start /\ e.end = l[n].end /\ e.size = 0
      /\ e.at = l[n].at
  BY <1>2, <1>3 DEF Raw
<1>5. r = [l EXCEPT ![n] = e]
  BY <1>1 DEF Restarted
<1> HIDE DEF e, r
<1>6. r \in Seq(Raw(top)) /\ Len(r) = n /\ r[n] = e /\ \A k \in 1 .. n : k # n => r[k] = l[k]
  BY <1>1, <1>4, <1>5
<1>7. /\ \A k \in 1 .. n : l[k].start + l[k].size <= l[k].end
      /\ \A j, k \in 1 .. n : j < k => l[k].end <= l[j].start
      /\ \A j, k \in 1 .. n : l[j].at = l[k].at => j = k
      /\ \A k \in 1 .. n : l[k].size > 0 => k < n /\ l[k + 1].end = l[k].start
  BY DEF ListOK
<1>8. \A k \in 1 .. n : /\ r[k].end = l[k].end /\ r[k].size = l[k].size /\ r[k].at = l[k].at
                        /\ k # n => r[k].start = l[k].start
  BY <1>2, <1>4, <1>6
<1> HIDE DEF n
<1>9. ListOK(r, top)
  <2>1. ASSUME NEW k \in 1 .. n PROVE r[k].start + r[k].size <= r[k].end
    <3>1. start + 0 <= l[n].end
      BY <1>3
    <3> QED
      BY <1>2, <1>4, <1>6, <1>7, <1>8, <3>1
  <2>2. ASSUME NEW j \in 1 .. n, NEW k \in 1 .. n, j < k PROVE r[k].end <= r[j].start
    <3>1. j # n
      BY <1>1, <2>2
    <3> QED
      BY <1>7, <1>8, <2>2, <3>1
  <2>3. ASSUME NEW j \in 1 .. n, NEW k \in 1 .. n, r[j].at = r[k].at PROVE j = k
    BY <1>7, <1>8, <2>3
  <2>4. ASSUME NEW k \in 1 .. n, r[k].size > 0 PROVE k < n /\ r[k + 1].end = r[k].start
    <3>1. k < n /\ l[k + 1].end = l[k].start
      BY <1>7, <1>8, <2>4
    <3>2. k + 1 \in 1 .. n /\ k # n
      BY <1>1, <3>1
    <3> QED
      BY <1>8, <3>1, <3>2
  <2> QED
    BY <1>6, <2>1, <2>2, <2>3, <2>4 DEF ListOK
<1>10. Tags(r) = (Tags(l) \ {Tag(Lowest(l))})
                   \cup {[start |-> start, size |-> 0, at |-> Lowest(l).at]}
  <2>1. Tags(r) = {Tag(r[m]) : m \in 1 .. n} /\ Tags(l) = {Tag(l[k]) : k \in 1 .. n}
    BY <1>6 DEF Tags, n
  <2>2. Tag(r[n]) = [start |-> start, size |-> 0, at |-> Lowest(l).at]
    BY <1>2, <1>4, <1>6 DEF Tag
  <2>3. \A k \in 1 .. n : k # n => Tag(r[k]) = Tag(l[k])
    BY <1>6
  <2>4. \A k \in 1 .. n : k # n => Tag(l[k]) # Tag(l[n])
    <3> SUFFICES ASSUME NEW k \in 1 .. n, Tag(l[k]) = Tag(l[n]) PROVE k = n
      OBVIOUS
    <3>1. l[k].at = l[n].at
      BY DEF Tag
    <3> QED
      BY <1>1, <1>7, <3>1
  <2> QED
    BY <1>1, <1>2, <2>1, <2>2, <2>3, <2>4
<1>11. ASSUME NEW lo \in Nat, NEW hi \in Nat, Between(l, lo, hi), lo <= start
       PROVE  Between(r, lo, hi)
  <2>1. \A k \in 1 .. n : lo <= l[k].start /\ l[k].end <= hi
    BY <1>11 DEF Between, n
  <2> QED
    BY <1>4, <1>6, <1>8, <1>11, <2>1 DEF Between
<1>12. Lowest(r).start = start /\ Lowest(r).end = Lowest(l).end
  BY <1>2, <1>4, <1>6 DEF Lowest
<1> QED
  BY <1>9, <1>10, <1>11, <1>12 DEF RestartedAt, r

\* A list of which the lowest range begins elsewhere has no other bytes of its
\* own than those below the old beginning.
LEMMA RestartedBytes ==
  ASSUME NEW top, TopOK(top), NEW l, ListOK(l, top), Tags(l) # {},
         NEW start, start \in 2 .. Lowest(l).end,
         NEW x \in Covered(Restarted(l, start))
  PROVE  x \in Covered(l) \/ (x \in Int /\ x < Lowest(l).start)
<1> DEFINE r == Restarted(l, start)
           n == Len(l)
<1>1. l \in Seq(Raw(top)) /\ n \in 1 .. n /\ Lowest(l) = l[n] /\ l[n].start \in 2 .. top
  BY LowestIsFree DEF ListOK, Lowest
<1>2. r \in Seq(Raw(top))
  BY RestartKeeps DEF RestartedAt, ListOK
<1>3. Len(r) = n /\ \A i \in 1 .. n : r[i].end = l[i].end /\ (i # n => r[i] = l[i])
  BY <1>1 DEF Restarted
<1> HIDE DEF r
<1>4. PICK i \in 1 .. Len(r) : r[i].start <= x /\ x < r[i].end
  BY <1>2, CoveredMeans DEF r
<1>5. x \in Int
  BY <1>2, CoveredMeans DEF r
<1>6. CASE i # n
  BY <1>1, <1>3, <1>4, <1>5, <1>6, CoveredMeans
<1>7. CASE i = n
  <2>1. x < l[n].end
    BY <1>3, <1>4, <1>7
  <2>2. l[n].start \in Int
    BY <1>1
  <2>3. l[n].start <= x => x \in Covered(l)
    BY <1>1, <1>5, <2>1, CoveredMeans
  <2> QED
    BY <1>1, <1>5, <2>2, <2>3
<1> QED
  BY <1>6, <1>7

\* The bytes of a list are within its bounds.
LEMMA CoveredBetween ==
  ASSUME NEW top, NEW l, ListOK(l, top), NEW lo \in Nat, NEW hi \in Nat, Between(l, lo, hi)
  PROVE  Covered(l) \subseteq lo .. hi - 1
<1> SUFFICES ASSUME NEW x \in Covered(l) PROVE x \in lo .. hi - 1
  OBVIOUS
<1>1. l \in Seq(Raw(top))
  BY DEF ListOK
<1>2. x \in Int /\ \E i \in 1 .. Len(l) : l[i].start <= x /\ x < l[i].end
  BY <1>1, CoveredMeans
<1>3. PICK i \in 1 .. Len(l) : l[i].start <= x /\ x < l[i].end
  BY <1>2
<1>4. lo <= l[i].start /\ l[i].end <= hi
  BY DEF Between
<1>5. l[i] \in Raw(top)
  BY <1>1
<1>6. l[i].start \in Int /\ l[i].end \in Int
  BY <1>5 DEF Raw
<1> QED
  BY <1>2, <1>3, <1>4, <1>6

\* What is in use is covered, and ranges of one list do not share it.
LEMMA TagFacts ==
  ASSUME NEW top, TopOK(top), NEW l, ListOK(l, top), NEW t \in Tags(l)
  PROVE  /\ t.start \in 2 .. top /\ t.size \in 0 .. top /\ t.at \in 0 .. top
         /\ t.start + t.size <= top
         /\ t = [start |-> t.start, size |-> t.size, at |-> t.at]
         /\ \A x \in Int : t.start <= x /\ x < t.start + t.size => x \in Covered(l)
         /\ \A u \in Tags(l) : u = t \/ (/\ u.at # t.at
                                       /\ \/ t.start + t.size <= u.start
                                          \/ u.start + u.size <= t.start)
<1>1. l \in Seq(Raw(top)) /\ top \in Nat
  BY DEF ListOK, TopOK
<1>2. PICK i \in 1 .. Len(l) : t = Tag(l[i])
  BY DEF Tags
<1>3. \A k \in 1 .. Len(l) :
        /\ l[k].start \in 2 .. top /\ l[k].end \in 2 .. top
        /\ l[k].size \in 0 .. top /\ l[k].at \in 0 .. top
        /\ l[k].start + l[k].size <= l[k].end
  <2> TAKE k \in 1 .. Len(l)
  <2>1. l[k].start + l[k].size <= l[k].end
    BY DEF ListOK
  <2> QED
    BY <1>1, <2>1, RangeFacts
<1>4. t.start = l[i].start /\ t.size = l[i].size /\ t.at = l[i].at
      /\ t = [start |-> t.start, size |-> t.size, at |-> t.at]
  BY <1>2 DEF Tag
<1>5. ASSUME NEW x \in Int, t.start <= x, x < t.start + t.size PROVE x \in Covered(l)
  <2>1. l[i].start <= x /\ x < l[i].end
    BY <1>3, <1>4, <1>5
  <2> QED
    BY <1>1, <2>1, CoveredMeans
<1>6. ASSUME NEW u \in Tags(l), u # t
      PROVE  u.at # t.at /\ (t.start + t.size <= u.start \/ u.start + u.size <= t.start)
  <2>1. PICK k \in 1 .. Len(l) : u = Tag(l[k])
    BY DEF Tags
  <2>2. u.start = l[k].start /\ u.size = l[k].size /\ u.at = l[k].at
    BY <2>1 DEF Tag
  <2>3. k # i
    BY <1>2, <1>6, <2>1
  <2>4. l[k].at # l[i].at
    BY <2>3 DEF ListOK
  <2>5. l[i].end <= l[k].start \/ l[k].end <= l[i].start
    <3>1. k < i \/ i < k
      BY <1>1, <2>3
    <3> QED
      BY <3>1 DEF ListOK
  <2>6. l[i].start + l[i].size <= l[i].end /\ l[k].start + l[k].size <= l[k].end
    BY <1>3
  <2>7. /\ l[i].start \in Int /\ l[i].size \in Int /\ l[i].end \in Int
        /\ l[k].start \in Int /\ l[k].size \in Int /\ l[k].end \in Int
    BY <1>3, SMTT(40)
  <2>8. l[i].start + l[i].size <= l[k].start \/ l[k].start + l[k].size <= l[i].start
    BY <2>5, <2>6, <2>7, SMTT(40)
  <2> QED
    BY <1>4, <2>2, <2>4, <2>8
<1> QED
  BY <1>1, <1>3, <1>4, <1>5, <1>6, SMTT(40)

----------------------------------------------------------------------------
(* The zones.                                                              *)

\* Each list is sound; no byte and no description is in two of them.
ZonesOK(zs, top) ==
  /\ zs = [z \in Zone |-> zs[z]]
  /\ \A z \in Zone : ListOK(zs[z], top)
  /\ \A y, z \in Zone : y # z => Covered(zs[y]) \cap Covered(zs[z]) = {}
  /\ \A y, z \in Zone : y # z => \A t \in Tags(zs[y]), u \in Tags(zs[z]) : t.at # u.at

\* The ranges of all zones.
AllTags(zs) == UNION {Tags(zs[z]) : z \in Zone}
NoneIn(zs, at) == \A z \in Zone : NoneAt(zs[z], at)

\* There is a range with nothing in use: it is never given back.
HasBase(l) == \E t \in Tags(l) : t.size = 0

\* The zones have the memory they had.
SameZones(zs, zt) ==
  \A z \in Zone : SameMemory(zs[z], zt[z]) /\ (HasBase(zs[z]) => HasBase(zt[z]))

\* Zone z of zs has the list r, the others have theirs.
Changed(zs, zt, z, r) ==
  /\ zt = [y \in Zone |-> zt[y]]
  /\ zt[z] = r
  /\ \A y \in Zone : y # z => zt[y] = zs[y]

\* EXCEPT changes one zone.
LEMMA ChangedBy ==
  ASSUME NEW top, NEW zs, ZonesOK(zs, top), NEW z \in Zone, NEW r
  PROVE  Changed(zs, [zs EXCEPT ![z] = r], z, r)
<1>1. zs = [y \in Zone |-> zs[y]]
  BY DEF ZonesOK
<1> DEFINE zt == [zs EXCEPT ![z] = r]
<1>2. zt = [y \in Zone |-> IF y = z THEN r ELSE zs[y]]
  BY <1>1
<1> HIDE DEF zt
<1>3. zt = [y \in Zone |-> zt[y]] /\ zt[z] = r /\ \A y \in Zone : y # z => zt[y] = zs[y]
  BY <1>2
<1> QED
  BY <1>3 DEF Changed, zt

\* A new list leaves the zones sound if it shares nothing with the others.
LEMMA ChangeKeeps ==
  ASSUME NEW top, NEW zs, ZonesOK(zs, top), NEW z \in Zone, NEW r, NEW zt,
         Changed(zs, zt, z, r), ListOK(r, top),
         \A y \in Zone : y # z => Covered(r) \cap Covered(zs[y]) = {},
         \A y \in Zone : y # z => \A t \in Tags(r), u \in Tags(zs[y]) : t.at # u.at
  PROVE  ZonesOK(zt, top)
<1>1. zt[z] = r /\ (\A y \in Zone : y # z => zt[y] = zs[y]) /\ zt = [y \in Zone |-> zt[y]]
  BY DEF Changed
<1>2. /\ \A y \in Zone : ListOK(zs[y], top)
      /\ \A x, y \in Zone : x # y => Covered(zs[x]) \cap Covered(zs[y]) = {}
      /\ \A x, y \in Zone : x # y => \A t \in Tags(zs[x]), u \in Tags(zs[y]) : t.at # u.at
  BY DEF ZonesOK
<1>3. \A y \in Zone : ListOK(zt[y], top)
  BY <1>1, <1>2
<1>4. ASSUME NEW x \in Zone, NEW y \in Zone, x # y PROVE Covered(zt[x]) \cap Covered(zt[y]) = {}
  BY <1>1, <1>2, <1>4
<1>5. ASSUME NEW x \in Zone, NEW y \in Zone, x # y
      PROVE  \A t \in Tags(zt[x]), u \in Tags(zt[y]) : t.at # u.at
  BY <1>1, <1>2, <1>5
<1> QED
  BY <1>1, <1>3, <1>4, <1>5 DEF ZonesOK

\* A change of one zone changes the ranges of that zone.
LEMMA TagsChanged ==
  ASSUME NEW zs, NEW zt, NEW z \in Zone, NEW r, Changed(zs, zt, z, r)
  PROVE  /\ \A t : t \in AllTags(zt) <=>
                     t \in Tags(r) \/ \E y \in Zone : y # z /\ t \in Tags(zs[y])
         /\ \A t : t \in AllTags(zs) <=>
                     t \in Tags(zs[z]) \/ \E y \in Zone : y # z /\ t \in Tags(zs[y])
<1>1. zt[z] = r /\ \A y \in Zone : y # z => zt[y] = zs[y]
  BY DEF Changed
<1>2. /\ \A t : t \in AllTags(zt) <=> \E y \in Zone : t \in Tags(zt[y])
      /\ \A t : t \in AllTags(zs) <=> \E y \in Zone : t \in Tags(zs[y])
  BY DEF AllTags
<1> QED
  BY <1>1, <1>2

\* Space was taken in one zone.
TakenIn(zs, zt, n, size, fill, top) ==
  /\ ZonesOK(zt, top)
  /\ SameZones(zs, zt)
  /\ AllTags(zt) = AllTags(zs) \cup {[start |-> n, size |-> size, at |-> fill]}

\* alloc_new() in one zone leaves the zones sound.
LEMMA TakeInZone ==
  ASSUME NEW top, NEW zs, ZonesOK(zs, top), NEW z \in Zone, NEW r, NEW n, NEW size, NEW fill,
         Taken(zs[z], r, n, size, fill, top), NoneIn(zs, fill)
  PROVE  TakenIn(zs, [zs EXCEPT ![z] = r], n, size, fill, top)
<1> DEFINE zt == [zs EXCEPT ![z] = r]
           new == [start |-> n, size |-> size, at |-> fill]
<1>1. Changed(zs, zt, z, r)
  BY ChangedBy
<1> HIDE DEF zt
<1>2. /\ ListOK(r, top) /\ SameMemory(zs[z], r) /\ Covered(r) = Covered(zs[z])
      /\ Tags(r) = Tags(zs[z]) \cup {new}
  BY DEF Taken, SameMemory
<1>3. /\ \A x, y \in Zone : x # y => Covered(zs[x]) \cap Covered(zs[y]) = {}
      /\ \A x, y \in Zone : x # y => \A t \in Tags(zs[x]), u \in Tags(zs[y]) : t.at # u.at
  BY DEF ZonesOK
<1>4. new.at = fill /\ \A y \in Zone : \A u \in Tags(zs[y]) : u.at # fill
  BY DEF NoneIn, NoneAt
<1> HIDE DEF new
<1>5. ZonesOK(zt, top)
  <2>1. \A y \in Zone : y # z => Covered(r) \cap Covered(zs[y]) = {}
    BY <1>2, <1>3
  <2>2. \A y \in Zone : y # z => \A t \in Tags(r), u \in Tags(zs[y]) : t.at # u.at
    BY <1>2, <1>3, <1>4
  <2> QED
    BY <1>1, <1>2, <2>1, <2>2, ChangeKeeps
<1>6. SameZones(zs, zt)
  <2>1. SameMemory(zs[z], zt[z]) /\ (HasBase(zs[z]) => HasBase(zt[z]))
    BY <1>1, <1>2 DEF Changed, HasBase
  <2>2. ASSUME NEW y \in Zone, y # z
        PROVE  SameMemory(zs[y], zt[y]) /\ (HasBase(zs[y]) => HasBase(zt[y]))
    BY <1>1, <2>2 DEF Changed, SameMemory
  <2> QED
    BY <2>1, <2>2 DEF SameZones
<1>7. AllTags(zt) = AllTags(zs) \cup {new}
  BY <1>1, <1>2, TagsChanged
<1> QED
  BY <1>5, <1>6, <1>7 DEF TakenIn, zt, new

\* Two ranges in use do not share a byte, whatever their zones.
LEMMA ApartInUse ==
  ASSUME NEW top, TopOK(top), NEW zs, ZonesOK(zs, top),
         NEW t \in AllTags(zs), NEW u \in AllTags(zs), t.at # u.at, t.size > 0, u.size > 0
  PROVE  t.start + t.size <= u.start \/ u.start + u.size <= t.start
<1>1. PICK y \in Zone : t \in Tags(zs[y])
  BY DEF AllTags
<1>2. PICK z \in Zone : u \in Tags(zs[z])
  BY DEF AllTags
<1>3. ListOK(zs[y], top) /\ ListOK(zs[z], top)
  BY DEF ZonesOK
<1>4. CASE y = z
  BY <1>1, <1>2, <1>3, <1>4, TagFacts
<1>5. CASE y # z
  <2>1. Covered(zs[y]) \cap Covered(zs[z]) = {}
    BY <1>5 DEF ZonesOK
  <2>2. /\ t.start \in 2 .. top /\ t.size \in 0 .. top
        /\ \A x \in Int : t.start <= x /\ x < t.start + t.size => x \in Covered(zs[y])
    BY <1>1, <1>3, TagFacts
  <2>3. /\ u.start \in 2 .. top /\ u.size \in 0 .. top
        /\ \A x \in Int : u.start <= x /\ x < u.start + u.size => x \in Covered(zs[z])
    BY <1>2, <1>3, TagFacts
  <2>4. t.start \in Int /\ u.start \in Int /\ t.size \in Int /\ u.size \in Int
    BY <2>2, <2>3 DEF TopOK
  <2>5. ~(t.start <= u.start /\ u.start < t.start + t.size)
    BY <2>1, <2>2, <2>3, <2>4
  <2>6. ~(u.start <= t.start /\ t.start < u.start + u.size)
    BY <2>1, <2>2, <2>3, <2>4
  <2> QED
    BY <2>4, <2>5, <2>6
<1> QED
  BY <1>4, <1>5

\* The zones after the range of tag t was given back.
FreedIn(zs, zt, t, top) ==
  /\ ZonesOK(zt, top)
  /\ SameZones(zs, zt)
  /\ AllTags(zt) = AllTags(zs) \ {t}

\* alloc_free() of a block, in whatever zone it is.
LEMMA FreeInZones ==
  ASSUME NEW top, TopOK(top), NEW zs, ZonesOK(zs, top), NEW t \in AllTags(zs), t.size > 0
  PROVE  FreedIn(zs, FreeIn(zs, t.at), t, top)
<1>1. PICK z \in Zone : t \in Tags(zs[z])
  BY DEF AllTags
<1> DEFINE zt == FreeIn(zs, t.at)
           r == alloc_free(zs[z], t.at)
<1>2. /\ \A y \in Zone : ListOK(zs[y], top)
      /\ \A x, y \in Zone : x # y => Covered(zs[x]) \cap Covered(zs[y]) = {}
      /\ \A x, y \in Zone : x # y => \A s \in Tags(zs[x]), u \in Tags(zs[y]) : s.at # u.at
  BY DEF ZonesOK
<1>3. Freed(zs[z], r, t, top)
  BY <1>1, <1>2, AllocFree
<1>4. \A y \in Zone : y # z => alloc_free(zs[y], t.at) = zs[y] /\ t \notin Tags(zs[y])
  <2> TAKE y \in Zone
  <2> SUFFICES ASSUME y # z PROVE alloc_free(zs[y], t.at) = zs[y] /\ t \notin Tags(zs[y])
    OBVIOUS
  <2>1. \A u \in Tags(zs[y]) : u.at # t.at
    BY <1>1, <1>2
  <2>2. NoneAt(zs[y], t.at)
    BY <2>1 DEF NoneAt
  <2> QED
    BY <2>1, <2>2, AllocFreeNone
<1>5. Changed(zs, zt, z, r)
  BY <1>4 DEF Changed, FreeIn
<1> HIDE DEF zt, r
<1>6. ListOK(r, top) /\ SameMemory(zs[z], r) /\ Covered(r) = Covered(zs[z])
      /\ Tags(r) = Tags(zs[z]) \ {t}
  BY <1>3 DEF Freed, SameMemory
<1>7. ZonesOK(zt, top)
  <2>1. \A y \in Zone : y # z => Covered(r) \cap Covered(zs[y]) = {}
    BY <1>2, <1>6
  <2>2. \A y \in Zone : y # z => \A s \in Tags(r), u \in Tags(zs[y]) : s.at # u.at
    BY <1>2, <1>6
  <2> QED
    BY <1>5, <1>6, <2>1, <2>2, ChangeKeeps
<1>8. SameZones(zs, zt)
  <2>1. SameMemory(zs[z], zt[z]) /\ (HasBase(zs[z]) => HasBase(zt[z]))
    <3>1. zt[z] = r
      BY <1>5 DEF Changed
    <3>2. ASSUME HasBase(zs[z]) PROVE HasBase(r)
      <4>1. PICK u \in Tags(zs[z]) : u.size = 0
        BY <3>2 DEF HasBase
      <4>2. u # t
        BY <4>1
      <4> QED
        BY <1>6, <4>1, <4>2 DEF HasBase
    <3> QED
      BY <1>6, <3>1, <3>2
  <2>2. ASSUME NEW y \in Zone, y # z
        PROVE  SameMemory(zs[y], zt[y]) /\ (HasBase(zs[y]) => HasBase(zt[y]))
    BY <1>5, <2>2 DEF Changed, SameMemory
  <2> QED
    BY <2>1, <2>2 DEF SameZones
<1>9. AllTags(zt) = AllTags(zs) \ {t}
  BY <1>1, <1>4, <1>5, <1>6, TagsChanged
<1> QED
  BY <1>7, <1>8, <1>9 DEF FreedIn, zt

\* alloc_free() of what no zone has.
LEMMA FreeInNone ==
  ASSUME NEW top, NEW zs, ZonesOK(zs, top), NEW at, NoneIn(zs, at)
  PROVE  FreeIn(zs, at) = zs
<1>1. zs = [z \in Zone |-> zs[z]]
  BY DEF ZonesOK
<1>2. \A z \in Zone : alloc_free(zs[z], at) = zs[z]
  BY AllocFreeNone DEF NoneIn
<1>3. FreeIn(zs, at) = [z \in Zone |-> alloc_free(zs[z], at)]
  BY DEF FreeIn
<1>4. [z \in Zone |-> alloc_free(zs[z], at)] = [z \in Zone |-> zs[z]]
  BY <1>2
<1> QED
  BY <1>1, <1>3, <1>4, Zenon

\* The zones after the temporary descriptions were placed at d.
RenamedIn(zs, zt, d, top) ==
  /\ ZonesOK(zt, top)
  /\ SameZones(zs, zt)
  /\ AllTags(zt) = {NewTag(t, d) : t \in AllTags(zs)}

\* The temporary descriptions get their place, in whatever zones they are.
LEMMA SettleZones ==
  ASSUME NEW top, TopOK(top), NEW zs, ZonesOK(zs, top), NEW d, DetailAt(d, top),
         NoneIn(zs, d), NoneIn(zs, d + DataOff)
  PROVE  RenamedIn(zs, Settle(zs, d), d, top)
<1> DEFINE zt == Settle(zs, d)
<1>1. zt = [z \in Zone |-> SettledList(zs[z], d)]
  BY DEF Settle, SettledList
<1>2. \A z \in Zone : zt[z] = SettledList(zs[z], d)
  BY <1>1
<1>3. zt = [z \in Zone |-> zt[z]]
  BY <1>1
<1> HIDE DEF zt
<1>4. \A z \in Zone : Renamed(zs[z], zt[z], d, top)
  <2> TAKE z \in Zone
  <2>1. ListOK(zs[z], top) /\ NoneAt(zs[z], d) /\ NoneAt(zs[z], d + DataOff)
    BY DEF ZonesOK, NoneIn
  <2> QED
    BY <1>2, <2>1, SettledKeeps
<1>5. \A z \in Zone : /\ ListOK(zt[z], top) /\ SameMemory(zs[z], zt[z])
                      /\ Covered(zt[z]) = Covered(zs[z])
                      /\ Tags(zt[z]) = {NewTag(t, d) : t \in Tags(zs[z])}
  BY <1>4 DEF Renamed, SameMemory
<1>6. ASSUME NEW y \in Zone, NEW t \in Tags(zs[y])
      PROVE  NewTag(t, d).at = NewAt(t.at, d) /\ NewTag(t, d).size = t.size
             /\ t.at # d /\ t.at # d + DataOff
  <2>1. t = [start |-> t.start, size |-> t.size, at |-> t.at]
    BY TagFacts DEF ZonesOK
  <2>2. t.at # d /\ t.at # d + DataOff
    BY DEF NoneIn, NoneAt
  <2> QED
    BY <2>1, <2>2 DEF NewTag
<1>7. d # d + DataOff
  <2>1. DataOff \in Nat \ {0} /\ d \in 2 .. top /\ top \in Nat
    BY MallocAssumption DEF DetailAt, TopOK
  <2> QED
    BY <2>1
<1>8. ZonesOK(zt, top)
  <2>1. ASSUME NEW y \in Zone, NEW z \in Zone, y # z
        PROVE  Covered(zt[y]) \cap Covered(zt[z]) = {}
    BY <1>5, <2>1 DEF ZonesOK
  <2>2. ASSUME NEW y \in Zone, NEW z \in Zone, y # z,
               NEW t \in Tags(zt[y]), NEW u \in Tags(zt[z])
        PROVE  t.at # u.at
    <3>1. PICK s \in Tags(zs[y]) : t = NewTag(s, d)
      BY <1>5
    <3>2. PICK v \in Tags(zs[z]) : u = NewTag(v, d)
      BY <1>5
    <3>3. s.at # v.at
      BY <2>2 DEF ZonesOK
    <3>4. t.at = NewAt(s.at, d) /\ s.at # d /\ s.at # d + DataOff
      BY <1>6, <3>1
    <3>5. u.at = NewAt(v.at, d) /\ v.at # d /\ v.at # d + DataOff
      BY <1>6, <3>2
    <3> QED
      BY <1>7, <3>3, <3>4, <3>5, Zenon DEF NewAt
  <2> QED
    BY <1>3, <1>5, <2>1, <2>2 DEF ZonesOK
<1>9. SameZones(zs, zt)
  <2>1. ASSUME NEW z \in Zone, HasBase(zs[z]) PROVE HasBase(zt[z])
    <3>1. PICK t \in Tags(zs[z]) : t.size = 0
      BY <2>1 DEF HasBase
    <3>2. NewTag(t, d) \in Tags(zt[z]) /\ NewTag(t, d).size = 0
      BY <1>5, <1>6, <3>1
    <3> QED
      BY <3>2 DEF HasBase
  <2> QED
    BY <1>5, <2>1 DEF SameZones
<1>10. AllTags(zt) = {NewTag(t, d) : t \in AllTags(zs)}
  <2>1. \A t : t \in AllTags(zt) <=> \E z \in Zone : t \in Tags(zt[z])
    BY DEF AllTags
  <2>2. \A t : t \in AllTags(zs) <=> \E z \in Zone : t \in Tags(zs[z])
    BY DEF AllTags
  <2> QED
    BY <1>5, <2>1, <2>2
<1> QED
  BY <1>8, <1>9, <1>10 DEF RenamedIn, zt

\* Memory that stays the same twice stays the same.
LEMMA SameTwice ==
  ASSUME NEW zs, NEW zt, NEW zu, SameZones(zs, zt), SameZones(zt, zu)
  PROVE  SameZones(zs, zu)
BY DEF SameZones, SameMemory

----------------------------------------------------------------------------
(* The bookkeeping.                                                        *)

\* t is the detail at its start.
IsDetailTag(t) == t.start = t.at /\ t.size = DetailSize

\* What lies at t.at is a member of a detail that is in use.
Booked(T, t) == IsDetailTag(t) \/ \E d \in T : IsDetailTag(d) /\ t.at = d.at + DataOff

\* All descriptions are in details, but for that on the caller's stack.
Books(T) == \A t \in T : t.at = TempData \/ Booked(T, t)
\* No description is on a caller's stack.
Settled(T) == \A t \in T : t.at >= 2

\* What is in use and not a detail.
IsBlock(t) == t.size > 0 /\ t.start # t.at
\* The blocks callers have, of the ranges with tags T.
BlocksOf(T) == {[start |-> t.start, size |-> t.size] : t \in {u \in T : IsBlock(u)}}

\* The range on the caller's stack got the bookkeeping b.
DescribedOK(zs, b, top) ==
  /\ b.data \in 2 .. top
  /\ ZonesOK(b.zones, top)
  /\ SameZones(zs, b.zones)
  /\ Books(AllTags(b.zones)) /\ Settled(AllTags(b.zones))
  /\ AllTags(b.zones) =
       {NewTag(t, b.data) : t \in AllTags(zs)}
         \cup {[start |-> b.data, size |-> DetailSize, at |-> b.data]}

\* The fields of a tag of any zone.
LEMMA AllTagFacts ==
  ASSUME NEW top, TopOK(top), NEW zs, ZonesOK(zs, top), NEW t \in AllTags(zs)
  PROVE  /\ t.start \in 2 .. top /\ t.size \in 0 .. top /\ t.at \in 0 .. top
         /\ t.start + t.size <= top
         /\ t = [start |-> t.start, size |-> t.size, at |-> t.at]
<1>1. PICK z \in Zone : t \in Tags(zs[z])
  BY DEF AllTags
<1>2. ListOK(zs[z], top)
  BY DEF ZonesOK
<1> QED
  BY <1>1, <1>2, TagFacts

\* A struct allocdetail_s can be asked for, and holds its datainfo.
LEMMA DetailSizes ==
  /\ DetailSize \in Nat \ {0} /\ DataOff \in Nat \ {0} /\ DataOff < DetailSize
  /\ SizeOK(DetailSize, MinAlign)
BY MallocAssumption DEF SizeOK

\* Bookkeeping that was taken in one of the temporary zones.
LEMMA DescribedKeeps ==
  ASSUME NEW top, TopOK(top), NEW zs, ZonesOK(zs, top), Books(AllTags(zs)),
         NoneIn(zs, TempDetail), NEW z \in Zone, NEW r, r.data # 0,
         TookOrNot(zs[z], r, DetailSize, MinAlign, TempDetail, top)
  PROVE  DescribedOK(zs, Described(zs, z, r), top)
<1> DEFINE d == r.data
           zt == [zs EXCEPT ![z] = r.list]
           nt == [start |-> d, size |-> DetailSize, at |-> TempDetail]
           zu == Settle(zt, d)
           T == AllTags(zs)
<1>1. d \in 2 .. top /\ Taken(zs[z], r.list, d, DetailSize, TempDetail, top)
  BY DEF TookOrNot
<1>2. TakenIn(zs, zt, d, DetailSize, TempDetail, top)
  BY <1>1, TakeInZone
<1> HIDE DEF zt
<1>3. ZonesOK(zt, top) /\ SameZones(zs, zt) /\ AllTags(zt) = T \cup {nt}
  BY <1>2 DEF TakenIn
<1>4. nt.start = d /\ nt.size = DetailSize /\ nt.at = 0 /\ top \in Nat /\ d \in Nat /\ d >= 2
  BY <1>1 DEF TempDetail, TopOK
<1> HIDE DEF nt, d
<1>5. nt \in AllTags(zt) /\ \A t \in T : t \in AllTags(zt)
  BY <1>3
<1>6. DetailAt(d, top)
  <2>1. nt.start + nt.size <= top
    BY <1>3, <1>5, AllTagFacts
  <2> QED
    BY <1>4, <2>1, DetailSizes DEF DetailAt
<1>7. \A t \in T : t.at # 0 /\ t.at \in Nat
  <2> TAKE t \in T
  <2>1. t.at \in 0 .. top
    BY AllTagFacts
  <2>2. t.at # TempDetail
    BY DEF NoneIn, NoneAt, AllTags
  <2> QED
    BY <1>4, <2>1, <2>2 DEF TempDetail
<1>8. ASSUME NEW t \in T PROVE t.at # d /\ t.at # d + DataOff
  <2>1. CASE t.at = TempData
    BY <1>4, <2>1, DetailSizes DEF TempData
  <2>2. CASE t.at # TempData
    <3>1. PICK e \in T : IsDetailTag(e) /\ (t.at = e.at \/ t.at = e.at + DataOff)
      BY <2>2 DEF Books, Booked
    <3>2. e.at # nt.at /\ e.size > 0 /\ nt.size > 0 /\ e.start = e.at /\ e.size = DetailSize
      BY <1>4, <1>7, <3>1, DetailSizes DEF IsDetailTag
    <3>3. e.start + e.size <= nt.start \/ nt.start + nt.size <= e.start
      BY <1>3, <1>5, <3>2, ApartInUse
    <3>4. e.at \in Nat
      BY <1>7
    <3> QED
      BY <1>4, <3>1, <3>2, <3>3, <3>4, DetailSizes
  <2> QED
    BY <2>1, <2>2
<1>9. NoneIn(zt, d) /\ NoneIn(zt, d + DataOff)
  <2>1. \A t \in AllTags(zt) : t.at # d /\ t.at # d + DataOff
    <3>1. nt.at # d /\ nt.at # d + DataOff
      BY <1>4, DetailSizes
    <3> QED
      BY <1>3, <1>8, <3>1
  <2> QED
    BY <2>1 DEF NoneIn, NoneAt, AllTags
<1>10. RenamedIn(zt, zu, d, top)
  BY <1>3, <1>6, <1>9, SettleZones
<1> HIDE DEF zu
<1>11. ZonesOK(zu, top) /\ SameZones(zs, zu)
  BY <1>3, <1>10, SameTwice DEF RenamedIn
<1> DEFINE dt == [start |-> d, size |-> DetailSize, at |-> d]
<1>12. NewTag(nt, d) = dt
  BY <1>4 DEF NewTag, NewAt, TempDetail, nt
<1>13. AllTags(zu) = {NewTag(t, d) : t \in T} \cup {dt}
  <2>1. AllTags(zu) = {NewTag(t, d) : t \in T \cup {nt}}
    BY <1>3, <1>10 DEF RenamedIn
  <2> QED
    BY <1>12, <2>1
<1>14. dt.start = d /\ dt.size = DetailSize /\ dt.at = d
  OBVIOUS
<1> HIDE DEF dt
<1>15. \A t \in T : t.at # TempData => NewTag(t, d) = t /\ t.at >= 2
  <2> TAKE t \in T
  <2> SUFFICES ASSUME t.at # TempData PROVE NewTag(t, d) = t /\ t.at >= 2
    OBVIOUS
  <2>1. t = [start |-> t.start, size |-> t.size, at |-> t.at]
    BY AllTagFacts
  <2>2. NewAt(t.at, d) = t.at
    BY <1>7 DEF NewAt, TempDetail
  <2>3. NewTag(t, d) = t
    BY <2>1, <2>2, Zenon DEF NewTag
  <2> QED
    BY <1>7, <2>3 DEF TempData
<1>16. \A t \in T : t.at = TempData => NewTag(t, d).at = d + DataOff
  <2> TAKE t \in T
  <2> SUFFICES ASSUME t.at = TempData PROVE NewTag(t, d).at = d + DataOff
    OBVIOUS
  <2>1. t = [start |-> t.start, size |-> t.size, at |-> t.at]
    BY AllTagFacts
  <2> QED
    BY <2>1 DEF NewTag, NewAt, TempDetail, TempData
<1>17. Books(AllTags(zu))
  <2> SUFFICES ASSUME NEW u \in AllTags(zu) PROVE Booked(AllTags(zu), u)
    BY DEF Books
  <2>1. CASE u = dt
    BY <1>14, <2>1 DEF Booked, IsDetailTag
  <2>2. ASSUME NEW t \in T, u = NewTag(t, d) PROVE Booked(AllTags(zu), u)
    <3>1. CASE t.at = TempData
      <4>1. u.at = dt.at + DataOff /\ IsDetailTag(dt) /\ dt \in AllTags(zu)
        BY <1>13, <1>14, <1>16, <2>2, <3>1 DEF IsDetailTag
      <4> QED
        BY <4>1 DEF Booked
    <3>2. CASE t.at # TempData
      <4>1. u = t
        BY <1>15, <2>2, <3>2
      <4>2. CASE IsDetailTag(t)
        BY <4>1, <4>2 DEF Booked
      <4>3. CASE ~IsDetailTag(t)
        <5>1. PICK e \in T : IsDetailTag(e) /\ t.at = e.at + DataOff
          BY <3>2, <4>3 DEF Books, Booked
        <5>2. e.at # TempData
          <6>1. e.start \in 2 .. top /\ e.start = e.at
            BY <5>1, AllTagFacts DEF IsDetailTag
          <6> QED
            BY <1>4, <6>1 DEF TempData
        <5>3. e \in AllTags(zu)
          BY <1>13, <1>15, <5>2
        <5> QED
          BY <4>1, <5>1, <5>3 DEF Booked
      <4> QED
        BY <4>2, <4>3
    <3> QED
      BY <3>1, <3>2
  <2> QED
    BY <1>13, <2>1, <2>2
<1>18. Settled(AllTags(zu))
  <2> SUFFICES ASSUME NEW u \in AllTags(zu) PROVE u.at >= 2
    BY DEF Settled
  <2>1. CASE u = dt
    BY <1>4, <1>14, <2>1
  <2>2. ASSUME NEW t \in T, u = NewTag(t, d) PROVE u.at >= 2
    <3>1. CASE t.at = TempData
      <4>1. u.at = d + DataOff
        BY <1>16, <2>2, <3>1
      <4> QED
        BY <1>4, <4>1, DetailSizes
    <3>2. CASE t.at # TempData
      BY <1>15, <2>2, <3>2
    <3> QED
      BY <3>1, <3>2
  <2> QED
    BY <1>13, <2>1, <2>2
<1>19. Described(zs, z, r).zones = zu /\ Described(zs, z, r).data = d
  BY DEF Described, zu, zt, d
<1> QED
  BY <1>1, <1>11, <1>13, <1>17, <1>18, <1>19 DEF DescribedOK, dt, d

\* alloc_new_detail() describes the range on the caller's stack, or fails and
\* changes nothing.
LEMMA AllocNewDetail ==
  ASSUME NEW top, TopOK(top), NEW zs, ZonesOK(zs, top), Books(AllTags(zs)),
         NoneIn(zs, TempDetail)
  PROVE  \/ alloc_new_detail(zs).data = 0
         \/ DescribedOK(zs, alloc_new_detail(zs), top)
<1> DEFINE h == alloc_new(zs["TmpHigh"], DetailSize, MinAlign, TempDetail)
           l == alloc_new(zs["TmpLow"], DetailSize, MinAlign, TempDetail)
<1>1. \A z \in Zone : TookOrNot(zs[z], alloc_new(zs[z], DetailSize, MinAlign, TempDetail),
                                DetailSize, MinAlign, TempDetail, top)
  <2> TAKE z \in Zone
  <2>1. ListOK(zs[z], top) /\ NoneAt(zs[z], TempDetail)
    BY DEF ZonesOK, NoneIn
  <2>2. TempDetail \in 0 .. top
    BY DEF TempDetail, TopOK
  <2> QED
    BY <2>1, <2>2, DetailSizes, AllocNew
<1>2. "TmpHigh" \in Zone /\ "TmpLow" \in Zone
  BY DEF Zone
<1>3. alloc_new_detail(zs) = FirstDescribed(zs, h, l)
  BY DEF alloc_new_detail
<1>4. TookOrNot(zs["TmpHigh"], h, DetailSize, MinAlign, TempDetail, top)
      /\ TookOrNot(zs["TmpLow"], l, DetailSize, MinAlign, TempDetail, top)
  BY <1>1, <1>2
<1> HIDE DEF h, l
<1>5. CASE h.data # 0
  <2>1. FirstDescribed(zs, h, l) = Described(zs, "TmpHigh", h)
    BY <1>5 DEF FirstDescribed
  <2> QED
    BY <1>2, <1>3, <1>4, <1>5, <2>1, DescribedKeeps
<1>6. CASE h.data = 0 /\ l.data # 0
  <2>1. FirstDescribed(zs, h, l) = Described(zs, "TmpLow", l)
    BY <1>6 DEF FirstDescribed
  <2> QED
    BY <1>2, <1>3, <1>4, <1>6, <2>1, DescribedKeeps
<1>7. CASE h.data = 0 /\ l.data = 0
  BY <1>3, <1>7 DEF FirstDescribed
<1> QED
  BY <1>5, <1>6, <1>7

\* The bookkeeping is no block, and what it describes stays one.
LEMMA DescribedBlocks ==
  ASSUME NEW top, TopOK(top), NEW zs, ZonesOK(zs, top), NoneIn(zs, TempDetail), NEW b,
         DescribedOK(zs, b, top)
  PROVE  BlocksOf(AllTags(b.zones)) = BlocksOf(AllTags(zs))
<1> DEFINE T == AllTags(zs)
           d == b.data
           dt == [start |-> d, size |-> DetailSize, at |-> d]
           U == AllTags(b.zones)
<1>1. U = {NewTag(t, d) : t \in T} \cup {dt} /\ ZonesOK(b.zones, top) /\ d \in 2 .. top
  BY DEF DescribedOK
<1>2. dt.start = d /\ dt.size = DetailSize /\ dt.at = d
  OBVIOUS
<1> HIDE DEF dt
<1>3. ~IsBlock(dt) /\ dt \in U /\ dt.size > 0 /\ \A t \in T : NewTag(t, d) \in U
  BY <1>1, <1>2, DetailSizes DEF IsBlock
<1>4. d \in Nat /\ top \in Nat
  BY <1>1 DEF TopOK
<1>5. ASSUME NEW t \in T
      PROVE  /\ IsBlock(NewTag(t, d)) <=> IsBlock(t)
             /\ NewTag(t, d).start = t.start /\ NewTag(t, d).size = t.size
  <2> DEFINE u == NewTag(t, d)
  <2>1. t.start \in 2 .. top /\ t.size \in 0 .. top
        /\ t = [start |-> t.start, size |-> t.size, at |-> t.at]
    BY AllTagFacts
  <2>2. t.at # TempDetail
    BY DEF NoneIn, NoneAt, AllTags
  <2>3. u.start = t.start /\ u.size = t.size /\ u.at = NewAt(t.at, d)
    BY <2>1 DEF NewTag
  <2>4. u \in U
    BY <1>3
  <2> HIDE DEF u
  <2>5. CASE t.at = TempData
    <3>2. t.start # t.at
      BY <1>4, <2>1, <2>5 DEF TempData
    <3>3. u.at = d + DataOff
      BY <2>2, <2>3, <2>5 DEF NewAt
    <3>4. ASSUME t.size > 0 PROVE u.start # u.at
      <4>1. u.at # dt.at
        BY <1>2, <1>4, <3>3, DetailSizes
      <4>2. u.start + u.size <= dt.start \/ dt.start + dt.size <= u.start
        BY <1>1, <1>3, <2>3, <2>4, <3>4, <4>1, ApartInUse
      <4>3. u.start \in Nat /\ u.size \in Nat
        BY <1>4, <2>1, <2>3
      <4> QED
        BY <1>2, <1>4, <2>3, <3>3, <3>4, <4>2, <4>3, DetailSizes
    <3> QED
      BY <2>3, <3>2, <3>4 DEF IsBlock, u
  <2>6. CASE t.at # TempData
    <3>1. u.at = t.at
      BY <2>2, <2>3, <2>6 DEF NewAt
    <3> QED
      BY <2>3, <3>1 DEF IsBlock, u
  <2> QED
    BY <2>5, <2>6
<1>6. \A u \in U : IsBlock(u) =>
        \E t \in T : IsBlock(t) /\ t.start = u.start /\ t.size = u.size
  BY <1>1, <1>3, <1>5
<1>7. \A t \in T : IsBlock(t) =>
        \E u \in U : IsBlock(u) /\ t.start = u.start /\ t.size = u.size
  BY <1>3, <1>5
<1> HIDE DEF U, T
<1>8. BlocksOf(U) \subseteq BlocksOf(T)
  BY <1>6 DEF BlocksOf
<1>9. BlocksOf(T) \subseteq BlocksOf(U)
  BY <1>7 DEF BlocksOf
<1> QED
  BY <1>8, <1>9 DEF U, T

\* Ranges of which nothing is in use make no difference.
LEMMA SameUsed ==
  ASSUME NEW T, NEW U, \A t : t.size > 0 => (t \in T <=> t \in U)
  PROVE  BlocksOf(T) = BlocksOf(U)
BY DEF BlocksOf, IsBlock

----------------------------------------------------------------------------
(* The memory's state.                                                     *)

\* m has the fields of the memory's state.
IsMemory(m) ==
  m = [zones |-> m.zones, handle |-> m.handle, ebda |-> m.ebda, lowram |-> m.lowram]

\* Details have addresses, and handles of PMM.
HandlesOK(hs, top) ==
  /\ DOMAIN hs \subseteq 2 .. top
  /\ \A d \in DOMAIN hs : hs[d] \in Handles \cup {DefaultHandle}

\* The state between two calls, of zones of whatever memory.
Whole(m, top) ==
  /\ IsMemory(m)
  /\ ZonesOK(m.zones, top)
  /\ Books(AllTags(m.zones)) /\ Settled(AllTags(m.zones))
  /\ HandlesOK(m.handle, top)

\* The state n has the zones zs, and what else m has.
OnlyZones(m, n, zs) ==
  /\ IsMemory(n)
  /\ n.zones = zs /\ n.ebda = m.ebda /\ n.lowram = m.lowram

\* Nothing is described by the caller's stack between two calls.
LEMMA NoneTemporary ==
  ASSUME NEW zs, Settled(AllTags(zs))
  PROVE  NoneIn(zs, TempDetail) /\ NoneIn(zs, TempData)
<1>1. \A t \in AllTags(zs) : t.at >= 2
  BY DEF Settled
<1>2. \A z \in Zone : \A t \in Tags(zs[z]) : t.at >= 2
  BY <1>1 DEF AllTags
<1>3. \A z \in Zone : \A t \in Tags(zs[z]) : t.at # 0 /\ t.at # 1
  BY <1>2
<1> QED
  BY <1>3 DEF NoneIn, NoneAt, TempDetail, TempData

\* Assignments to fields of the memory's state.
LEMMA MemoryWith ==
  ASSUME NEW m, IsMemory(m), NEW zs, NEW hs, NEW e, NEW w
  PROVE  /\ [m EXCEPT !.zones = zs] =
              [zones |-> zs, handle |-> m.handle, ebda |-> m.ebda, lowram |-> m.lowram]
         /\ [m EXCEPT !.handle = hs] =
              [zones |-> m.zones, handle |-> hs, ebda |-> m.ebda, lowram |-> m.lowram]
         /\ [m EXCEPT !.zones = zs, !.handle = hs] =
              [zones |-> zs, handle |-> hs, ebda |-> m.ebda, lowram |-> m.lowram]
         /\ [m EXCEPT !.ebda = e, !.lowram = w] =
              [zones |-> m.zones, handle |-> m.handle, ebda |-> e, lowram |-> w]
<1>1. \E a, b, c, d : m = [zones |-> a, handle |-> b, ebda |-> c, lowram |-> d]
  BY DEF IsMemory
<1>2. PICK a, b, c, d : m = [zones |-> a, handle |-> b, ebda |-> c, lowram |-> d]
  BY <1>1, Zenon
<1>3. m.zones = a /\ m.handle = b /\ m.ebda = c /\ m.lowram = d
  BY <1>2
<1>4. [m EXCEPT !.zones = zs] = [zones |-> zs, handle |-> b, ebda |-> c, lowram |-> d]
  BY <1>2
<1>5. [m EXCEPT !.handle = hs] = [zones |-> a, handle |-> hs, ebda |-> c, lowram |-> d]
  BY <1>2
<1>6. [[zones |-> zs, handle |-> b, ebda |-> c, lowram |-> d] EXCEPT !.handle = hs]
        = [zones |-> zs, handle |-> hs, ebda |-> c, lowram |-> d]
  OBVIOUS
<1>7. [m EXCEPT !.zones = zs, !.handle = hs]
        = [zones |-> zs, handle |-> hs, ebda |-> c, lowram |-> d]
  BY <1>4, <1>6, Zenon
<1>8. [m EXCEPT !.ebda = e] = [zones |-> a, handle |-> b, ebda |-> e, lowram |-> d]
  BY <1>2
<1>9. [[zones |-> a, handle |-> b, ebda |-> e, lowram |-> d] EXCEPT !.lowram = w]
        = [zones |-> a, handle |-> b, ebda |-> e, lowram |-> w]
  OBVIOUS
<1>10. [m EXCEPT !.ebda = e, !.lowram = w]
        = [zones |-> a, handle |-> b, ebda |-> e, lowram |-> w]
  BY <1>8, <1>9, Zenon
<1> QED
  BY <1>3, <1>4, <1>5, <1>7, <1>10, Zenon

\* A detail in the zones gets the default handle.
LEMMA WithDetailKeeps ==
  ASSUME NEW top, NEW m, IsMemory(m), HandlesOK(m.handle, top), NEW zs, NEW d,
         DescribedOK(zs, d, top)
  PROVE  Whole(WithDetail(m, d), top) /\ OnlyZones(m, WithDetail(m, d), d.zones)
<1> DEFINE n == WithDetail(m, d)
           hs == [a \in DOMAIN m.handle \cup {d.data} |->
                    IF a = d.data THEN DefaultHandle ELSE m.handle[a]]
<1>1. n = [zones |-> d.zones, handle |-> hs, ebda |-> m.ebda, lowram |-> m.lowram]
  <2>1. n = [m EXCEPT !.zones = d.zones, !.handle = hs]
    BY DEF WithDetail
  <2> HIDE DEF hs, n
  <2> QED
    BY <2>1, MemoryWith, ZenonT(40)
<1>2. HandlesOK(hs, top)
  BY DEF HandlesOK, DescribedOK
<1> HIDE DEF hs, n
<1>3. IsMemory(n) /\ n.zones = d.zones /\ n.handle = hs /\ n.ebda = m.ebda
      /\ n.lowram = m.lowram
  BY <1>1 DEF IsMemory
<1> QED
  BY <1>2, <1>3 DEF Whole, OnlyZones, DescribedOK, n

\* The state n has start .. end - 1 in zone z, in addition to what m has.
GrewBy(m, n, z, start, end) ==
  /\ n.ebda = m.ebda /\ n.lowram = m.lowram
  /\ BlocksOf(AllTags(n.zones)) = BlocksOf(AllTags(m.zones))
  /\ \A y \in Zone : y # z => /\ SameMemory(m.zones[y], n.zones[y])
                              /\ HasBase(m.zones[y]) => HasBase(n.zones[y])
  /\ HasBase(n.zones[z])
  /\ Covered(n.zones[z]) = Covered(m.zones[z]) \cup (start .. end - 1)
  /\ \A lo, hi \in Nat : Between(m.zones[z], lo, hi) /\ lo <= start /\ end <= hi
                           => Between(n.zones[z], lo, hi)

\* No byte of start .. end - 1 is in another zone than z.
ApartFromOthers(zs, z, start, end) ==
  \A y \in Zone : y # z => (start .. end - 1) \cap Covered(zs[y]) = {}

\* What alloc_add() makes of a range that nothing else has.
AddedOK(m, n, z, start, end, top) ==
  n = m \/ (Whole(n, top) /\ GrewBy(m, n, z, start, end))

\* alloc_add() adds the range to the zone, or changes nothing.
LEMMA AllocAdd ==
  ASSUME NEW top, TopOK(top), NEW m, Whole(m, top), NEW z \in Zone, NEW start, NEW end,
         RegionOK(start, end, top), Above(m.zones[z], end),
         ApartFromOthers(m.zones, z, start, end)
  PROVE  AddedOK(m, alloc_add(m, z, start, end), z, start, end, top)
<1> DEFINE zs == m.zones
           r == InsertRange(zs[z], start, end)
           zt == [zs EXCEPT ![z] = r]
           d == alloc_new_detail(zt)
           nt == [start |-> start, size |-> 0, at |-> TempData]
<1>1. ZonesOK(zs, top) /\ Books(AllTags(zs)) /\ Settled(AllTags(zs)) /\ IsMemory(m)
      /\ HandlesOK(m.handle, top)
  BY DEF Whole
<1>2. zt = [zs EXCEPT ![z] = InsertRange(@, start, end)]
  BY <1>1 DEF ZonesOK
<1>3. alloc_add(m, z, start, end) = IF d.data = 0 THEN m ELSE WithDetail(m, d)
  BY <1>2 DEF alloc_add, AddedWith
<1>4. Changed(zs, zt, z, r)
  BY <1>1, ChangedBy
<1>5. NoneIn(zs, TempDetail) /\ NoneIn(zs, TempData)
  BY <1>1, NoneTemporary
<1>6. Extended(zs[z], r, start, end, top)
  <2>1. ListOK(zs[z], top) /\ NoneAt(zs[z], TempData)
    BY <1>1, <1>5 DEF ZonesOK, NoneIn
  <2> QED
    BY <2>1, Inserted
<1> HIDE DEF zs, r, zt, d, nt
<1>7. /\ ListOK(r, top) /\ Covered(r) = Covered(zs[z]) \cup (start .. end - 1)
      /\ Tags(r) = Tags(zs[z]) \cup {nt}
      /\ \A lo, hi \in Nat :
           Between(zs[z], lo, hi) /\ lo <= start /\ end <= hi => Between(r, lo, hi)
  BY <1>6 DEF Extended, nt
<1>8. /\ \A x, y \in Zone : x # y => Covered(zs[x]) \cap Covered(zs[y]) = {}
      /\ \A x, y \in Zone : x # y => \A s \in Tags(zs[x]), u \in Tags(zs[y]) : s.at # u.at
      /\ \A y \in Zone : y # z => (start .. end - 1) \cap Covered(zs[y]) = {}
      /\ \A y \in Zone : \A u \in Tags(zs[y]) : u.at # TempData /\ u.at # TempDetail
      /\ nt.at = TempData /\ nt.size = 0
  BY <1>1, <1>5 DEF ZonesOK, ApartFromOthers, NoneIn, NoneAt, zs, nt
<1>9. ZonesOK(zt, top)
  <2>1. \A y \in Zone : y # z => Covered(r) \cap Covered(zs[y]) = {}
    BY <1>7, <1>8
  <2>2. \A y \in Zone : y # z => \A s \in Tags(r), u \in Tags(zs[y]) : s.at # u.at
    BY <1>7, <1>8
  <2> QED
    BY <1>1, <1>4, <1>7, <2>1, <2>2, ChangeKeeps
<1>10. AllTags(zt) = AllTags(zs) \cup {nt}
  <2>1. Tags(r) = Tags(zs[z]) \cup {nt}
    BY <1>7
  <2> QED
    BY <1>4, <2>1, TagsChanged
<1>11. Books(AllTags(zt))
  BY <1>1, <1>8, <1>10 DEF Books, Booked
<1>12. NoneIn(zt, TempDetail)
  <2>1. TempData # TempDetail
    BY DEF TempData, TempDetail
  <2>2. \A y \in Zone : Tags(zs[y]) \subseteq AllTags(zs) /\ Tags(zt[y]) \subseteq AllTags(zt)
    BY DEF AllTags
  <2>3. \A t \in AllTags(zs) : t.at # TempDetail
    BY <1>8 DEF AllTags
  <2>4. \A t \in AllTags(zt) : t.at # TempDetail
    BY <1>8, <1>10, <2>1, <2>3
  <2> QED
    BY <2>2, <2>4 DEF NoneIn, NoneAt
<1>13. d.data = 0 \/ DescribedOK(zt, d, top)
  BY <1>9, <1>11, <1>12, AllocNewDetail DEF d
<1>14. CASE d.data = 0
  BY <1>3, <1>14 DEF AddedOK
<1>15. CASE d.data # 0
  <2> DEFINE n == WithDetail(m, d)
  <2>1. alloc_add(m, z, start, end) = n
    BY <1>3, <1>15
  <2>2. Whole(n, top) /\ OnlyZones(m, n, d.zones)
    BY <1>1, <1>13, <1>15, WithDetailKeeps
  <2> HIDE DEF n
  <2>3. SameZones(zt, d.zones)
    BY <1>13, <1>15 DEF DescribedOK
  <2>4. n.zones = d.zones /\ n.ebda = m.ebda /\ n.lowram = m.lowram
    BY <2>2 DEF OnlyZones
  <2>5. \A y \in Zone : /\ SameMemory(zt[y], n.zones[y])
                        /\ HasBase(zt[y]) => HasBase(n.zones[y])
    BY <2>3, <2>4 DEF SameZones
  <2>6. zt[z] = r /\ \A y \in Zone : y # z => zt[y] = zs[y]
    BY <1>4 DEF Changed
  <2>7. HasBase(r)
    BY <1>7, <1>8 DEF HasBase
  <2>8. GrewBy(m, n, z, start, end)
    <3>1. Covered(n.zones[z]) = Covered(r)
          /\ \A lo, hi \in Nat : Between(r, lo, hi) => Between(n.zones[z], lo, hi)
      BY <2>5, <2>6 DEF SameMemory
    <3>2. \A y \in Zone : y # z => /\ SameMemory(zs[y], n.zones[y])
                                   /\ HasBase(zs[y]) => HasBase(n.zones[y])
      BY <2>5, <2>6
    <3>3. HasBase(n.zones[z])
      BY <2>5, <2>6, <2>7
    <3>4. BlocksOf(AllTags(zt)) = BlocksOf(AllTags(zs))
      BY <1>8, <1>10, SameUsed
    <3>5. BlocksOf(AllTags(n.zones)) = BlocksOf(AllTags(zs))
      BY <1>9, <1>12, <1>13, <1>15, <2>4, <3>4, DescribedBlocks
    <3> QED
      BY <1>7, <2>4, <3>1, <3>2, <3>3, <3>5 DEF GrewBy, zs
  <2> QED
    BY <2>1, <2>2, <2>8 DEF AddedOK
<1> QED
  BY <1>14, <1>15

----------------------------------------------------------------------------
(* Where the zones lie.                                                    *)

\* What the layout says of base memory.
AddressesOK(l) ==
  /\ TopOK(l.top) /\ l.upper \in BOOLEAN
  /\ l.ebdasize \in Nat /\ Kb \in Nat \ {0}
  /\ l.ebdaminimum \in 2 .. l.top /\ FirstEbda(l) \in 2 .. l.top
  /\ LowStart(l) \in 2 .. l.top /\ l.varlow \in 2 .. l.top
  /\ l.ebdaminimum <= FirstEbda(l)
  /\ FirstEbda(l) + l.ebdasize <= LowStart(l)
  /\ LowStart(l) <= l.varlow
  /\ SegWord \in Nat /\ KbWord \in Nat
  /\ FirstEbda(l) <= SegWord /\ FirstEbda(l) <= KbWord

\* What is assumed of a layout, and where its areas therefore lie.
LEMMA LayoutFacts ==
  ASSUME NEW l \in Layouts
  PROVE  AddressesOK(l) /\ Addressable(l) /\ AddressesInOrder(l) /\ SizesAskable(l)
         /\ FindsRoom(l)
<1>1. Addressable(l) /\ AddressesInOrder(l) /\ SizesAskable(l) /\ FindsRoom(l)
  BY LayoutsAssumption
<1>2. /\ Word \in Nat /\ SegWord \in Nat /\ KbWord \in Nat /\ HeaderReserve \in Nat
      /\ Kb \in Nat \ {0}
  BY MallocAssumption
<1>3. /\ l.upper \in BOOLEAN
      /\ l.top \in Nat /\ l.top < Word
      /\ l.lowramend <= SegWord /\ l.lowramend <= KbWord
      /\ l.ebdasize \in Nat
      /\ l.ebdaminimum \in 2 .. l.top /\ l.lowramend \in 2 .. l.top
      /\ l.zonelow \in 2 .. l.top /\ l.varlow \in 2 .. l.top
  BY <1>1 DEF Addressable
<1>4. /\ l.ebdaminimum <= FirstEbda(l)
      /\ l.upper => l.lowramend <= l.zonelow
      /\ ~l.upper => l.varlow <= l.lowramend
      /\ LowStart(l) <= l.varlow
  BY <1>1 DEF AddressesInOrder
<1>5. LowStart(l) \in Nat /\ (l.upper => LowStart(l) >= l.lowramend)
  <2>1. CASE l.upper
    BY <1>2, <1>3, <1>4, <2>1 DEF LowStart
  <2>2. CASE ~l.upper
    <3>1. LowStart(l) = ALIGN_DOWN(l.varlow, Kb)
      BY <2>2 DEF LowStart
    <3>2. l.varlow \in Nat
      BY <1>3
    <3> QED
      BY <1>2, <2>2, <3>1, <3>2, AlignedDown
  <2> QED
    BY <2>1, <2>2
<1>6. FirstEbda(l) = (IF l.upper THEN l.lowramend ELSE LowStart(l)) - l.ebdasize
  BY DEF FirstEbda
<1>7. FirstEbda(l) \in Int /\ FirstEbda(l) + l.ebdasize <= LowStart(l)
      /\ FirstEbda(l) <= l.lowramend
  BY <1>3, <1>4, <1>5, <1>6
<1>8. FirstEbda(l) <= SegWord /\ FirstEbda(l) <= KbWord
  BY <1>2, <1>3, <1>7
<1>9. FirstEbda(l) \in 2 .. l.top /\ LowStart(l) \in 2 .. l.top
  BY <1>3, <1>4, <1>5, <1>7
<1>10. TopOK(l.top)
  BY <1>2, <1>3 DEF TopOK
<1> QED
  BY <1>1, <1>2, <1>3, <1>4, <1>7, <1>8, <1>9, <1>10 DEF AddressesOK

\* What ZoneLow never goes below.
LowFloor(m, l) == IF l.upper THEN LowStart(l) ELSE m.ebda + l.ebdasize

\* The EBDA is in base memory, where bda_init() put it or below.
EbdaOK(m, l) ==
  /\ l.ebdaminimum <= m.ebda /\ m.ebda <= FirstEbda(l) /\ m.ebda \in Nat
  /\ l.ebdaminimum <= m.lowram /\ m.lowram <= FirstEbda(l) /\ m.lowram \in Nat

\* Each zone has what it was given, and ZoneLow lies above the EBDA.
Placed(m, l) ==
  /\ \A z \in Zone \ {"Low"} : Covered(m.zones[z]) = Given(l, z)
  /\ HasBase(m.zones["Low"])
  /\ Between(m.zones["Low"], LowFloor(m, l), l.varlow)
  /\ EbdaOK(m, l)

\* The state between two calls.
MemoryOK(m, l) == Whole(m, l.top) /\ Placed(m, l)

\* ZoneLow's bounds are addresses, above the least of the EBDA.
LEMMA FloorFacts ==
  ASSUME NEW l, AddressesOK(l), NEW m, EbdaOK(m, l)
  PROVE  /\ LowFloor(m, l) \in Nat /\ l.varlow \in Nat
         /\ l.ebdaminimum <= LowFloor(m, l) /\ l.ebdaminimum \in Nat
BY DEF AddressesOK, EbdaOK, LowFloor, TopOK

\* Zones with the same memory are placed as well.
LEMMA PlacedSame ==
  ASSUME NEW l, AddressesOK(l), NEW m, NEW n, Placed(m, l), SameZones(m.zones, n.zones),
         n.ebda = m.ebda, n.lowram = m.lowram
  PROVE  Placed(n, l)
<1>1. \A z \in Zone : /\ Covered(n.zones[z]) = Covered(m.zones[z])
                      /\ \A lo, hi \in Nat :
                           Between(m.zones[z], lo, hi) => Between(n.zones[z], lo, hi)
                      /\ HasBase(m.zones[z]) => HasBase(n.zones[z])
  BY DEF SameZones, SameMemory
<1>2. "Low" \in Zone
  BY DEF Zone
<1>3. LowFloor(m, l) \in Nat /\ l.varlow \in Nat /\ LowFloor(n, l) = LowFloor(m, l)
  BY FloorFacts DEF Placed, LowFloor
<1>4. Between(n.zones["Low"], LowFloor(n, l), l.varlow)
  BY <1>1, <1>2, <1>3 DEF Placed
<1> QED
  BY <1>1, <1>2, <1>4 DEF Placed, EbdaOK

\* From m to n ZoneLow grows where the EBDA was at most, and the EBDA moves only
\* if it was at the end of base memory; with CONFIG_MALLOC_UPPERMEMORY the zone
\* stays within its bounds, whatever they are.
LowKept(m, n, l) ==
  /\ m.ebda \in Nat /\ n.ebda \in Nat /\ n.ebda <= m.ebda
  /\ l.upper => \A lo, hi \in Nat :
                  Between(m.zones["Low"], lo, hi) => Between(n.zones["Low"], lo, hi)
  /\ ~l.upper =>
       /\ \A x \in Covered(n.zones["Low"]) :
            x \in Covered(m.zones["Low"]) \/ (x \in Int /\ x < m.ebda + l.ebdasize)
       /\ IF m.ebda = m.lowram THEN n.ebda = n.lowram
          ELSE n.ebda = m.ebda /\ n.lowram = m.lowram

\* Zones with the same memory keep ZoneLow.
LEMMA LowKeptSame ==
  ASSUME NEW l, NEW m, NEW n, Placed(m, l), SameZones(m.zones, n.zones),
         n.ebda = m.ebda, n.lowram = m.lowram
  PROVE  LowKept(m, n, l)
<1>1. m.ebda \in Nat
  BY DEF Placed, EbdaOK
<1>2. /\ Covered(n.zones["Low"]) = Covered(m.zones["Low"])
      /\ \A lo, hi \in Nat :
           Between(m.zones["Low"], lo, hi) => Between(n.zones["Low"], lo, hi)
  BY DEF SameZones, SameMemory, Zone
<1>3. n.ebda \in Nat /\ n.ebda <= m.ebda
  BY <1>1
<1> QED
  BY <1>1, <1>2, <1>3 DEF LowKept

\* Nothing changes.
LEMMA LowKeptHere ==
  ASSUME NEW l, NEW m, Placed(m, l)
  PROVE  LowKept(m, m, l)
<1>1. SameZones(m.zones, m.zones)
  BY DEF SameZones, SameMemory
<1> QED
  BY <1>1, LowKeptSame

\* ZoneLow is kept by two changes that keep it.
LEMMA LowKeptTwice ==
  ASSUME NEW l, l.ebdasize \in Nat, NEW m, NEW n, NEW k, LowKept(m, n, l), LowKept(n, k, l)
  PROVE  LowKept(m, k, l)
<1>1. /\ m.ebda \in Nat /\ n.ebda \in Nat /\ k.ebda \in Nat
      /\ n.ebda <= m.ebda /\ k.ebda <= n.ebda
  BY DEF LowKept
<1>2. k.ebda <= m.ebda
  BY <1>1
<1>3. l.upper => \A lo, hi \in Nat :
        Between(m.zones["Low"], lo, hi) => Between(k.zones["Low"], lo, hi)
  BY DEF LowKept
<1>4. ASSUME ~l.upper, NEW x \in Covered(k.zones["Low"])
      PROVE  x \in Covered(m.zones["Low"]) \/ (x \in Int /\ x < m.ebda + l.ebdasize)
  <2>1. x \in Covered(n.zones["Low"]) \/ (x \in Int /\ x < n.ebda + l.ebdasize)
    BY <1>4 DEF LowKept
  <2>2. CASE x \in Covered(n.zones["Low"])
    BY <1>4, <2>2 DEF LowKept
  <2>3. CASE x \in Int /\ x < n.ebda + l.ebdasize
    BY <1>1, <2>3
  <2> QED
    BY <2>1, <2>2, <2>3
<1>5. ~l.upper => IF m.ebda = m.lowram THEN k.ebda = k.lowram
                  ELSE k.ebda = m.ebda /\ k.lowram = m.lowram
  BY DEF LowKept
<1> QED
  BY <1>1, <1>2, <1>3, <1>4, <1>5 DEF LowKept

\* A reservation t that has no bookkeeping yet.
Pending(m, t, top) ==
  /\ IsMemory(m)
  /\ ZonesOK(m.zones, top)
  /\ t \in AllTags(m.zones) /\ t.at = TempData /\ t.size > 0
  /\ Books(AllTags(m.zones)) /\ Settled(AllTags(m.zones) \ {t})
  /\ HandlesOK(m.handle, top)

\* ZoneLow begins at another address, from which on it is within lo .. hi.
RestartedIn(zs, zt, lo, hi, top) ==
  /\ ZonesOK(zt, top)
  /\ BlocksOf(AllTags(zt)) = BlocksOf(AllTags(zs))
  /\ Books(AllTags(zt)) /\ Settled(AllTags(zt))
  /\ HasBase(zt["Low"]) /\ Between(zt["Low"], lo, hi)
  /\ \A y \in Zone : y # "Low" => zt[y] = zs[y]

\* No other zone has memory within lo .. hi - 1.
NoneWithin(zs, lo, hi) ==
  \A y \in Zone : y # "Low" => \A x \in Covered(zs[y]) : ~(lo <= x /\ x < hi)

\* ZoneLow may begin elsewhere within its bounds.
LEMMA RestartInZones ==
  ASSUME NEW top, TopOK(top), NEW zs, ZonesOK(zs, top), Books(AllTags(zs)),
         Settled(AllTags(zs)), HasBase(zs["Low"]),
         NEW lo \in Nat, NEW hi \in Nat, Between(zs["Low"], lo, hi),
         NoneWithin(zs, lo, hi),
         NEW start, start \in 2 .. Lowest(zs["Low"]).end, lo <= start
  PROVE  RestartedIn(zs, [zs EXCEPT !["Low"] = Restarted(zs["Low"], start)], lo, hi, top)
<1> DEFINE l == zs["Low"]
           r == Restarted(l, start)
           zt == [zs EXCEPT !["Low"] = r]
           ot == Tag(Lowest(l))
           nt == [start |-> start, size |-> 0, at |-> Lowest(l).at]
<1>1. "Low" \in Zone
  BY DEF Zone
<1>2. ListOK(l, top) /\ Tags(l) # {}
  BY <1>1 DEF ZonesOK, HasBase
<1>3. Lowest(l).size = 0 /\ ot \in Tags(l) /\ ot.size = Lowest(l).size /\ ot.at = Lowest(l).at
  BY <1>2, LowestIsFree DEF Tag
<1>4. RestartedAt(l, r, start, top)
  BY <1>2, RestartKeeps
<1>5. Changed(zs, zt, "Low", r)
  BY <1>1, ChangedBy
<1> HIDE DEF l, r, zt, ot
<1>6. Tags(r) = (Tags(l) \ {ot}) \cup {nt} /\ nt.at = ot.at /\ nt.size = 0 /\ ot.size = 0
  BY <1>3, <1>4 DEF RestartedAt, ot
<1> HIDE DEF nt
<1>7. ListOK(r, top)
  BY <1>4 DEF RestartedAt
<1>8. Between(r, lo, hi)
  BY <1>4 DEF RestartedAt, l
<1>9. HasBase(r)
  BY <1>6 DEF HasBase
<1>10. zt["Low"] = r /\ \A y \in Zone : y # "Low" => zt[y] = zs[y]
  BY <1>5 DEF Changed
<1>11. ZonesOK(zt, top)
  <2>1. ASSUME NEW y \in Zone, y # "Low" PROVE Covered(r) \cap Covered(zs[y]) = {}
    <3>1. Covered(r) \subseteq lo .. hi - 1
      BY <1>7, <1>8, CoveredBetween
    <3>2. \A x \in Covered(zs[y]) : ~(lo <= x /\ x < hi)
      BY <2>1 DEF NoneWithin
    <3>3. \A x \in lo .. hi - 1 : lo <= x /\ x < hi
      OBVIOUS
    <3> QED
      BY <3>1, <3>2, <3>3
  <2>2. ASSUME NEW y \in Zone, y # "Low", NEW t \in Tags(r), NEW u \in Tags(zs[y])
        PROVE  t.at # u.at
    <3>1. \A s \in Tags(l) : s.at # u.at
      BY <1>1, <2>2 DEF ZonesOK, l
    <3> QED
      BY <1>3, <1>6, <3>1
  <2> QED
    BY <1>1, <1>5, <1>7, <2>1, <2>2, ChangeKeeps
<1>12. /\ \A t : t \in AllTags(zt) => t = nt \/ (t \in AllTags(zs) /\ t # ot)
       /\ \A t : t \in AllTags(zs) /\ t # ot => t \in AllTags(zt)
       /\ nt \in AllTags(zt) /\ ot \in AllTags(zs)
  <2>1. /\ \A t : t \in AllTags(zt) <=>
                    t \in Tags(r) \/ \E y \in Zone : y # "Low" /\ t \in Tags(zs[y])
        /\ \A t : t \in AllTags(zs) <=>
                    t \in Tags(l) \/ \E y \in Zone : y # "Low" /\ t \in Tags(zs[y])
    BY <1>1, <1>5, TagsChanged DEF l
  <2>2. \A y \in Zone : y # "Low" => ot \notin Tags(zs[y])
    BY <1>1, <1>3 DEF ZonesOK, l
  <2> QED
    BY <1>3, <1>6, <2>1, <2>2
<1>13. Books(AllTags(zt))
  <2>1. ASSUME NEW t \in AllTags(zs), t.at # TempData, ~IsDetailTag(t)
        PROVE  \E d \in AllTags(zt) : IsDetailTag(d) /\ t.at = d.at + DataOff
    <3>1. PICK d \in AllTags(zs) : IsDetailTag(d) /\ t.at = d.at + DataOff
      BY <2>1 DEF Books, Booked
    <3>2. d # ot
      BY <1>6, <3>1, DetailSizes DEF IsDetailTag
    <3> QED
      BY <1>12, <3>1, <3>2
  <2>2. ~IsDetailTag(ot)
    BY <1>6, DetailSizes DEF IsDetailTag
  <2>3. ASSUME NEW t \in AllTags(zt), t.at # TempData PROVE Booked(AllTags(zt), t)
    <3>1. CASE t = nt
      BY <1>6, <1>12, <2>1, <2>2, <2>3, <3>1 DEF Booked
    <3>2. CASE t # nt
      BY <1>12, <2>1, <2>3, <3>2 DEF Booked
    <3> QED
      BY <3>1, <3>2
  <2> QED
    BY <2>3 DEF Books
<1>14. Settled(AllTags(zt))
  BY <1>6, <1>12 DEF Settled
<1>15. BlocksOf(AllTags(zt)) = BlocksOf(AllTags(zs))
  BY <1>6, <1>12, SameUsed
<1> QED
  BY <1>8, <1>9, <1>10, <1>11, <1>13, <1>14, <1>15 DEF RestartedIn, zt, r, l

\* Where the region of ram i lies.
RamAt(l, i) ==
  /\ l.ram[i].start \in 2 .. l.top /\ l.ram[i].end \in 2 .. l.top
  /\ l.fseg.end <= l.ram[i].start /\ l.ram[i].start <= l.ram[i].end

\* ZoneHigh gets the end of a ram region.
HighAt(l) ==
  /\ HighRam(l) \in DOMAIN l.ram
  /\ NewEnd(l, HighRam(l)) \in 2 .. l.top /\ l.hightable \in Nat
  /\ l.ram[HighRam(l)].start <= NewEnd(l, HighRam(l))
  /\ NewEnd(l, HighRam(l)) + l.hightable <= l.ram[HighRam(l)].end

\* Where RAM and the high table lie.
LEMMA RamFacts ==
  ASSUME NEW l \in Layouts
  PROVE  /\ l.ram \in Seq([start : 2 .. l.top, end : 2 .. l.top])
         /\ DOMAIN l.ram = 1 .. Len(l.ram) /\ Len(l.ram) \in Nat
         /\ \A i \in DOMAIN l.ram : RamAt(l, i)
         /\ \A i, k \in DOMAIN l.ram : i < k => l.ram[k].end <= l.ram[i].start
         /\ HighRam(l) = 0 \/ HighAt(l)
<1>1. AddressesInOrder(l) /\ Addressable(l) /\ AddressesOK(l)
  BY LayoutFacts
<1>2. /\ l.ram \in Seq([start : 2 .. l.top, end : 2 .. l.top])
      /\ \A i \in DOMAIN l.ram : l.fseg.end <= l.ram[i].start
                                 /\ l.ram[i].start <= l.ram[i].end
      /\ \A i, k \in DOMAIN l.ram : i < k => l.ram[k].end <= l.ram[i].start
  BY <1>1 DEF AddressesInOrder
<1> DEFINE R == [start : 2 .. l.top, end : 2 .. l.top]
<1>3. l.ram \in Seq(R)
  BY <1>2
<1>4. \A e \in R : e.start \in 2 .. l.top /\ e.end \in 2 .. l.top
  OBVIOUS
<1> HIDE DEF R
<1>5. DOMAIN l.ram = 1 .. Len(l.ram) /\ Len(l.ram) \in Nat
      /\ \A i \in DOMAIN l.ram : l.ram[i] \in R
  BY <1>3
<1>6. \A i \in DOMAIN l.ram : RamAt(l, i)
  BY <1>2, <1>4, <1>5 DEF RamAt
<1>7. ASSUME HighRam(l) # 0 PROVE HighAt(l)
  <2> DEFINE S == {i \in DOMAIN l.ram :
                     NewEnd(l, i) <= l.ram[i].end /\ NewEnd(l, i) >= l.ram[i].start}
             i == HighRam(l)
             e == [start |-> l.ram[i].start, end |-> l.ram[i].end, size |-> 0]
  <2>1. S \in SUBSET Nat /\ S # {} /\ i = Min(S)
    BY <1>5, <1>7 DEF HighRam
  <2>2. Min(S) \in S
    BY <2>1, MinOf
  <2> HIDE DEF i
  <2>3. i \in DOMAIN l.ram /\ NewEnd(l, i) <= l.ram[i].end /\ NewEnd(l, i) >= l.ram[i].start
    BY <2>1, <2>2
  <2>4. l.ram[i].start \in 2 .. l.top /\ l.ram[i].end \in 2 .. l.top
        /\ l.ram[i].start <= l.ram[i].end
    BY <1>6, <2>3 DEF RamAt
  <2>5. e.start = l.ram[i].start /\ e.end = l.ram[i].end /\ e.size = 0
    OBVIOUS
  <2> HIDE DEF e
  <2>6. Cut(e, l.hightable, MinAlign) = NewEnd(l, i)
    BY <2>5 DEF Cut, NewEnd
  <2>7. l.top \in Nat /\ l.top < Word /\ Word \in Nat /\ l.hightable \in Nat
        /\ l.hightable + MinAlign <= Word
    BY <1>1 DEF Addressable, AddressesOK, TopOK
  <2>8. MinAlign \in Nat \ {0}
    BY MallocAssumption
  <2>9. e.start \in Nat /\ e.end \in Nat /\ e.size \in Nat /\ e.start + e.size <= e.end
        /\ e.end < Word
    BY <2>4, <2>5, <2>7
  <2>10. Fits(e, l.hightable, MinAlign)
    BY <2>3, <2>4, <2>5, <2>6 DEF Fits
  <2>11. Cut(e, l.hightable, MinAlign) + l.hightable <= e.end
         /\ Cut(e, l.hightable, MinAlign) \in Nat
    BY <2>7, <2>8, <2>9, <2>10, FitsMeans
  <2>12. NewEnd(l, i) \in Nat /\ NewEnd(l, i) + l.hightable <= l.ram[i].end
    BY <2>5, <2>6, <2>11
  <2>13. NewEnd(l, i) \in 2 .. l.top
    BY <2>3, <2>4, <2>7, <2>12
  <2> QED
    BY <2>3, <2>7, <2>12, <2>13 DEF HighAt, i
<1> QED
  BY <1>2, <1>5, <1>6, <1>7

\* Region i is r.
RegionIs(l, i, r) ==
  \/ i \in 1 .. Len(l.ram) /\ r = TmpHighRegions(l)[i]
  \/ i = Len(l.ram) + 1 /\ r = Memory("TmpLow", l.tmplow.start, l.tmplow.end)
  \/ /\ i = Len(l.ram) + 2 /\ HighRam(l) # 0
     /\ r = Memory("High", NewEnd(l, HighRam(l)), NewEnd(l, HighRam(l)) + l.hightable)
  \/ /\ i = Len(l.ram) + Len(HighRegions(l)) + 2
     /\ r = Memory("Low", LowStart(l), l.varlow)
  \/ /\ i = Len(l.ram) + Len(HighRegions(l)) + 3
     /\ r = Memory("FSeg", l.fseg.start, l.fseg.end)

\* A region lies in memory, where its zone's regions do.
RegionAt(l, r) ==
  /\ RegionOK(r.start, r.end, l.top)
  /\ r \in [zone : Zone, start : 2 .. l.top, end : 2 .. l.top]

\* All regions lie within the addresses of the machine.
LEMMA RegionsLie ==
  ASSUME NEW l \in Layouts
  PROVE  \A i, r : RegionIs(l, i, r) => RegionAt(l, r)
<1>1. Addressable(l) /\ AddressesInOrder(l) /\ AddressesOK(l)
  BY LayoutFacts
<1>2. /\ l.tmplow.start <= l.tmplow.end /\ l.fseg.start <= l.fseg.end
      /\ LowStart(l) <= l.varlow
  BY <1>1 DEF AddressesInOrder
<1>3. /\ l.tmplow.start \in 2 .. l.top /\ l.tmplow.end \in 2 .. l.top
      /\ l.fseg.start \in 2 .. l.top /\ l.fseg.end \in 2 .. l.top
      /\ LowStart(l) \in 2 .. l.top /\ l.varlow \in 2 .. l.top /\ l.top \in Nat
  BY <1>1 DEF Addressable, AddressesOK
<1>4. \A z, s, e : /\ Memory(z, s, e).zone = z /\ Memory(z, s, e).start = s
                   /\ Memory(z, s, e).end = e
  BY DEF Memory
<1>5. \A z \in Zone : \A s, e : RegionOK(s, e, l.top) => RegionAt(l, Memory(z, s, e))
  <2>1. \A z \in Zone : \A s, e : RegionOK(s, e, l.top) =>
          Memory(z, s, e) \in [zone : Zone, start : 2 .. l.top, end : 2 .. l.top]
    BY DEF RegionOK, Memory
  <2> QED
    BY <1>4, <2>1 DEF RegionAt
<1>6. /\ "TmpHigh" \in Zone /\ "High" \in Zone /\ "TmpLow" \in Zone /\ "Low" \in Zone
      /\ "FSeg" \in Zone
  BY DEF Zone
<1>7. ASSUME NEW i \in 1 .. Len(l.ram) PROVE RegionAt(l, TmpHighRegions(l)[i])
  <2> DEFINE e == IF i = HighRam(l) THEN NewEnd(l, i) ELSE l.ram[i].end
  <2>1. RamAt(l, i) /\ i \in DOMAIN l.ram
    BY RamFacts
  <2>2. TmpHighRegions(l)[i] = Memory("TmpHigh", l.ram[i].start, e)
    BY <2>1 DEF TmpHighRegions
  <2>3. RegionOK(l.ram[i].start, e, l.top)
    <3>1. CASE i = HighRam(l)
      <4>1. HighRam(l) # 0
        BY <2>1, <3>1
      <4>2. HighAt(l)
        BY <4>1, RamFacts
      <4> QED
        BY <2>1, <3>1, <4>2 DEF RegionOK, HighAt, RamAt
    <3>2. CASE i # HighRam(l)
      BY <2>1, <3>2 DEF RegionOK, RamAt
    <3> QED
      BY <3>1, <3>2
  <2> QED
    BY <1>5, <1>6, <2>2, <2>3
<1>8. ASSUME HighRam(l) # 0
      PROVE  RegionAt(l, Memory("High", NewEnd(l, HighRam(l)),
                                NewEnd(l, HighRam(l)) + l.hightable))
  <2>1. HighAt(l)
    BY <1>8, RamFacts
  <2>2. RamAt(l, HighRam(l))
    BY <2>1, RamFacts DEF HighAt
  <2>3. RegionOK(NewEnd(l, HighRam(l)), NewEnd(l, HighRam(l)) + l.hightable, l.top)
    BY <1>3, <2>1, <2>2 DEF RegionOK, HighAt, RamAt
  <2> QED
    BY <1>5, <1>6, <2>3
<1>9. /\ RegionOK(l.tmplow.start, l.tmplow.end, l.top)
      /\ RegionOK(LowStart(l), l.varlow, l.top)
      /\ RegionOK(l.fseg.start, l.fseg.end, l.top)
  BY <1>2, <1>3 DEF RegionOK
<1>10. /\ RegionAt(l, Memory("TmpLow", l.tmplow.start, l.tmplow.end))
       /\ RegionAt(l, Memory("Low", LowStart(l), l.varlow))
       /\ RegionAt(l, Memory("FSeg", l.fseg.start, l.fseg.end))
  BY <1>5, <1>6, <1>9
<1> QED
  BY <1>7, <1>8, <1>10 DEF RegionIs

\* The regions malloc_init() adds, one by one.
LEMMA RegionsAre ==
  ASSUME NEW l \in Layouts
  PROVE  /\ Len(Regions(l)) \in Nat /\ DOMAIN Regions(l) = 1 .. Len(Regions(l))
         /\ \A i \in 1 .. Len(Regions(l)) : RegionIs(l, i, Regions(l)[i])
         /\ Len(HighRegions(l)) = IF HighRam(l) = 0 THEN 0 ELSE 1
         /\ Len(Regions(l)) = Len(l.ram) + Len(HighRegions(l)) + 3
<1> DEFINE S == {r \in [zone : Zone, start : 2 .. l.top, end : 2 .. l.top] : RegionAt(l, r)}
           A == TmpHighRegions(l)
           b == Memory("TmpLow", l.tmplow.start, l.tmplow.end)
           c == Memory("High", NewEnd(l, HighRam(l)), NewEnd(l, HighRam(l)) + l.hightable)
           C == HighRegions(l)
           d == Memory("Low", LowStart(l), l.varlow)
           e == Memory("FSeg", l.fseg.start, l.fseg.end)
           n == Len(l.ram)
<1>1. \A r : RegionAt(l, r) => r \in S
  BY DEF RegionAt
<1>2. n \in Nat /\ DOMAIN l.ram = 1 .. n
  BY RamFacts
<1>3. \A i, r : RegionIs(l, i, r) => r \in S
  BY <1>1, RegionsLie
<1>4. /\ \A i \in 1 .. n : A[i] \in S
      /\ b \in S /\ d \in S /\ e \in S /\ (HighRam(l) # 0 => c \in S)
  BY <1>3 DEF RegionIs
<1>5. A \in Seq(S) /\ Len(A) = n
  <2>1. A = [i \in 1 .. n |-> A[i]]
    BY <1>2 DEF TmpHighRegions
  <2> HIDE DEF A, S, n
  <2> QED
    BY <1>2, <1>4, <2>1
<1>6. C = (IF HighRam(l) = 0 THEN <<>> ELSE <<c>>)
  BY DEF HighRegions
<1>7. Regions(l) = ((A \o <<b>>) \o C) \o <<d, e>>
  BY DEF Regions
<1>8. \A i \in 1 .. n : A[i] = TmpHighRegions(l)[i]
  OBVIOUS
<1> HIDE DEF A, b, c, d, e, S, n, C
<1>9. C \in Seq(S) /\ Len(C) = (IF HighRam(l) = 0 THEN 0 ELSE 1)
      /\ (HighRam(l) # 0 => C[1] = c)
  <2>1. CASE HighRam(l) = 0
    BY <1>6, <2>1
  <2>2. CASE HighRam(l) # 0
    <3>1. C = <<c>> /\ c \in S
      BY <1>4, <1>6, <2>2
    <3> QED
      BY <2>2, <3>1
  <2> QED
    BY <2>1, <2>2
<1>10. <<b>> \in Seq(S) /\ Len(<<b>>) = 1 /\ <<b>>[1] = b
       /\ <<d, e>> \in Seq(S) /\ Len(<<d, e>>) = 2 /\ <<d, e>>[1] = d /\ <<d, e>>[2] = e
  BY <1>4
<1> DEFINE B == <<b>>  D == <<d, e>>  U == A \o B  V == U \o C  W == V \o D
<1>11. B \in Seq(S) /\ Len(B) = 1 /\ B[1] = b
       /\ D \in Seq(S) /\ Len(D) = 2 /\ D[1] = d /\ D[2] = e
  BY <1>10
<1>12. Regions(l) = W
  BY <1>7
<1> HIDE DEF B, D
<1>13. IsJoin(S, A, B, U)
  BY <1>5, <1>11, Joined
<1> HIDE DEF U
<1>14. U \in Seq(S)
  BY <1>13 DEF IsJoin
<1>15. IsJoin(S, U, C, V)
  BY <1>9, <1>14, Joined
<1> HIDE DEF V
<1>16. V \in Seq(S)
  BY <1>15 DEF IsJoin
<1>17. IsJoin(S, V, D, W)
  BY <1>11, <1>16, Joined
<1> HIDE DEF W
<1>18. Len(U) = n + 1 /\ Len(V) = n + 1 + Len(C) /\ Len(W) = n + Len(C) + 3
       /\ W \in Seq(S)
  BY <1>2, <1>5, <1>9, <1>11, <1>13, <1>15, <1>17 DEF IsJoin
<1>19. /\ \A i \in 1 .. n + 1 : U[i] = IF i <= n THEN A[i] ELSE B[i - n]
       /\ \A i \in 1 .. n + 1 + Len(C) : V[i] = IF i <= n + 1 THEN U[i] ELSE C[i - (n + 1)]
       /\ \A i \in 1 .. n + Len(C) + 3 :
            W[i] = IF i <= n + 1 + Len(C) THEN V[i] ELSE D[i - (n + 1 + Len(C))]
  BY <1>2, <1>5, <1>9, <1>11, <1>13, <1>15, <1>17, <1>18 DEF IsJoin
<1>20. ASSUME NEW i \in 1 .. Len(W) PROVE RegionIs(l, i, W[i])
  <2>1. \/ i \in 1 .. n \/ i = n + 1 \/ (i = n + 2 /\ Len(C) = 1)
        \/ i = n + Len(C) + 2 \/ i = n + Len(C) + 3
    BY <1>2, <1>9, <1>18
  <2>2. CASE i \in 1 .. n
    <3>1. W[i] = A[i]
      BY <1>2, <1>9, <1>18, <1>19, <2>2
    <3> QED
      BY <1>8, <2>2, <3>1 DEF RegionIs, n, A
  <2>3. CASE i = n + 1
    <3>1. W[i] = b
      BY <1>2, <1>9, <1>11, <1>18, <1>19, <2>3
    <3> QED
      BY <2>3, <3>1 DEF RegionIs, n, b
  <2>4. CASE i = n + 2 /\ Len(C) = 1
    <3>1. HighRam(l) # 0
      BY <1>9, <2>4
    <3>2. i - (n + 1) = 1 /\ i \in 1 .. n + 1 + Len(C) /\ ~(i <= n + 1)
          /\ i \in 1 .. n + Len(C) + 3 /\ i <= n + 1 + Len(C)
      BY <1>2, <2>4
    <3>3. W[i] = V[i] /\ V[i] = C[1]
      BY <1>19, <3>2
    <3>4. W[i] = c
      BY <1>9, <3>1, <3>3
    <3> QED
      BY <2>4, <3>1, <3>4 DEF RegionIs, n, c
  <2>5. CASE i = n + Len(C) + 2
    <3>1. W[i] = d
      BY <1>2, <1>9, <1>11, <1>18, <1>19, <2>5
    <3> QED
      BY <2>5, <3>1 DEF RegionIs, n, d, C
  <2>6. CASE i = n + Len(C) + 3
    <3>1. W[i] = e
      BY <1>2, <1>9, <1>11, <1>18, <1>19, <2>6
    <3> QED
      BY <2>6, <3>1 DEF RegionIs, n, e, C
  <2> QED
    BY <2>1, <2>2, <2>3, <2>4, <2>5, <2>6
<1>21. DOMAIN W = 1 .. Len(W) /\ Len(W) \in Nat
  BY <1>18
<1>22. Len(Regions(l)) = Len(l.ram) + Len(HighRegions(l)) + 3
  BY <1>12, <1>18 DEF n, C
<1>23. Len(HighRegions(l)) = IF HighRam(l) = 0 THEN 0 ELSE 1
  BY <1>9 DEF C
<1> QED
  BY <1>12, <1>20, <1>21, <1>22, <1>23

\* What lies in order below 1M, and the ram above it.
InBand(l, i, r) ==
  \/ i = Len(l.ram) + 1 /\ r.zone = "TmpLow" /\ r.end <= l.ebdaminimum
  \/ /\ i = Len(l.ram) + Len(HighRegions(l)) + 2
     /\ r.zone = "Low" /\ l.ebdaminimum <= r.start /\ r.end <= l.varlow
  \/ /\ i = Len(l.ram) + Len(HighRegions(l)) + 3
     /\ r.zone = "FSeg" /\ l.varlow <= r.start /\ r.end <= l.fseg.end
  \/ /\ i = Len(l.ram) + 2 /\ HighRam(l) # 0
     /\ r.zone = "High" /\ l.fseg.end <= r.start
     /\ r.start = NewEnd(l, HighRam(l)) /\ l.ram[HighRam(l)].start <= r.start
     /\ r.end <= l.ram[HighRam(l)].end
  \/ /\ i \in 1 .. Len(l.ram)
     /\ r.zone = "TmpHigh" /\ l.fseg.end <= r.start
     /\ r.start = l.ram[i].start /\ r.end <= l.ram[i].end
     /\ i = HighRam(l) => r.end <= NewEnd(l, HighRam(l))

\* Each region lies in the part of memory that is its zone's.
LEMMA RegionsInBands ==
  ASSUME NEW l \in Layouts, NEW i, NEW r, RegionIs(l, i, r)
  PROVE  InBand(l, i, r)
<1>1. Addressable(l) /\ AddressesInOrder(l) /\ AddressesOK(l)
  BY LayoutFacts
<1>2. l.tmplow.end <= l.ebdaminimum /\ l.varlow <= l.fseg.start
  BY <1>1 DEF AddressesInOrder
<1>3. l.ebdaminimum <= LowStart(l)
  BY <1>1 DEF AddressesOK, TopOK
<1>4. l.fseg.end \in Int /\ l.top \in Nat
  BY <1>1 DEF Addressable
<1>5. \A z, s, e : /\ Memory(z, s, e).zone = z /\ Memory(z, s, e).start = s
                   /\ Memory(z, s, e).end = e
  BY DEF Memory
<1>6. CASE i \in 1 .. Len(l.ram) /\ r = TmpHighRegions(l)[i]
  <2> DEFINE e == IF i = HighRam(l) THEN NewEnd(l, i) ELSE l.ram[i].end
  <2>1. RamAt(l, i) /\ i \in DOMAIN l.ram /\ i # 0
    <3>1. i \in 1 .. Len(l.ram) /\ Len(l.ram) \in Nat
      BY <1>6, RamFacts
    <3>2. i # 0
      BY <3>1
    <3> QED
      BY <3>1, <3>2, RamFacts
  <2>2. r = Memory("TmpHigh", l.ram[i].start, e)
    BY <1>6, <2>1 DEF TmpHighRegions
  <2>3. r.zone = "TmpHigh" /\ r.start = l.ram[i].start /\ r.end = e
    BY <1>5, <2>2
  <2>4. e <= l.ram[i].end /\ (i = HighRam(l) => e <= NewEnd(l, HighRam(l)))
    <3>1. CASE i = HighRam(l)
      <4>1. HighAt(l)
        BY <2>1, <3>1, RamFacts
      <4>2. NewEnd(l, i) \in 2 .. l.top /\ l.hightable \in Nat /\ l.ram[i].end \in 2 .. l.top
            /\ NewEnd(l, i) + l.hightable <= l.ram[i].end
        BY <2>1, <3>1, <4>1 DEF HighAt, RamAt
      <4> QED
        BY <1>4, <3>1, <4>2
    <3>2. CASE i # HighRam(l)
      BY <1>4, <2>1, <3>2 DEF RamAt
    <3> QED
      BY <3>1, <3>2
  <2> HIDE DEF e
  <2> QED
    BY <1>6, <2>1, <2>3, <2>4 DEF InBand, RamAt
<1>7. CASE i = Len(l.ram) + 1 /\ r = Memory("TmpLow", l.tmplow.start, l.tmplow.end)
  BY <1>2, <1>5, <1>7 DEF InBand
<1>8. CASE /\ i = Len(l.ram) + 2 /\ HighRam(l) # 0
           /\ r = Memory("High", NewEnd(l, HighRam(l)),
                         NewEnd(l, HighRam(l)) + l.hightable)
  <2>1. HighAt(l)
    BY <1>8, RamFacts
  <2>2. RamAt(l, HighRam(l))
    BY <2>1, RamFacts DEF HighAt
  <2>3. r.zone = "High" /\ r.start = NewEnd(l, HighRam(l))
        /\ r.end = NewEnd(l, HighRam(l)) + l.hightable
    BY <1>5, <1>8
  <2>4. l.fseg.end <= NewEnd(l, HighRam(l))
    BY <1>4, <2>1, <2>2 DEF HighAt, RamAt
  <2> QED
    BY <1>8, <2>1, <2>3, <2>4 DEF InBand, HighAt
<1>9. CASE /\ i = Len(l.ram) + Len(HighRegions(l)) + 2
           /\ r = Memory("Low", LowStart(l), l.varlow)
  <2>1. l.varlow <= l.varlow
    BY <1>1 DEF AddressesOK, TopOK
  <2> QED
    BY <1>3, <1>5, <1>9, <2>1 DEF InBand
<1>10. CASE /\ i = Len(l.ram) + Len(HighRegions(l)) + 3
            /\ r = Memory("FSeg", l.fseg.start, l.fseg.end)
  <2>1. l.fseg.end <= l.fseg.end
    BY <1>4
  <2> QED
    BY <1>2, <1>5, <1>10, <2>1 DEF InBand
<1> QED
  BY <1>6, <1>7, <1>8, <1>9, <1>10 DEF RegionIs

\* A later region is below an earlier one of its zone, apart from all others.
After(e, f) ==
  IF e.zone = f.zone THEN f.end <= e.start ELSE f.end <= e.start \/ e.end <= f.start

\* Regions in different parts of memory do not overlap.
LEMMA BandsApart ==
  ASSUME NEW l \in Layouts, NEW i \in Nat, NEW k \in Nat, i < k, NEW e, NEW f,
         InBand(l, i, e), InBand(l, k, f), RegionAt(l, e), RegionAt(l, f)
  PROVE  After(e, f)
<1> DEFINE n == Len(l.ram)
           h == Len(HighRegions(l))
<1>2. AddressesOK(l) /\ Addressable(l) /\ AddressesInOrder(l)
  BY LayoutFacts
<1>3. l.varlow \in Int /\ l.ebdaminimum \in Int /\ l.fseg.end \in Int /\ l.top \in Nat
      /\ l.ebdaminimum <= l.varlow /\ l.varlow <= l.fseg.end
  <2>1. l.varlow <= l.fseg.start /\ l.fseg.start <= l.fseg.end
    BY <1>2 DEF AddressesInOrder
  <2>2. l.top \in Nat /\ l.varlow \in 2 .. l.top /\ l.ebdaminimum \in 2 .. l.top
        /\ l.fseg.start \in 2 .. l.top /\ l.fseg.end \in 2 .. l.top
    BY <1>2 DEF Addressable
  <2>3. l.ebdaminimum <= FirstEbda(l) /\ FirstEbda(l) + l.ebdasize <= LowStart(l)
        /\ LowStart(l) <= l.varlow /\ FirstEbda(l) \in 2 .. l.top
        /\ LowStart(l) \in 2 .. l.top /\ l.ebdasize \in Nat
    BY <1>2 DEF AddressesOK
  <2> QED
    BY <2>1, <2>2, <2>3
<1>4. n \in Nat /\ h = (IF HighRam(l) = 0 THEN 0 ELSE 1)
  BY RamFacts, RegionsAre
<1>5. e.start \in Int /\ e.end \in Int /\ f.start \in Int /\ f.end \in Int
      /\ e.start <= e.end /\ f.start <= f.end
  BY <1>3 DEF RegionAt, RegionOK
<1> HIDE DEF n, h
<1>6. CASE i \in 1 .. n /\ k \in 1 .. n
  <2>1. RamAt(l, i) /\ RamAt(l, k) /\ l.ram[k].end <= l.ram[i].start
    BY <1>6, RamFacts DEF n
  <2>2. e.zone = "TmpHigh" /\ f.zone = "TmpHigh" /\ e.start = l.ram[i].start
        /\ f.end <= l.ram[k].end
    <3>1. h \in Nat /\ i \in Nat /\ k \in Nat /\ i <= n /\ k <= n
      BY <1>4, <1>6
    <3>2. /\ i # n + 1 /\ i # n + h + 2 /\ i # n + h + 3 /\ i # n + 2
          /\ k # n + 1 /\ k # n + h + 2 /\ k # n + h + 3 /\ k # n + 2
      BY <1>4, <3>1
    <3> QED
      BY <3>2, Zenon DEF InBand, n, h
  <2>3. f.end <= e.start
    BY <1>3, <1>5, <2>1, <2>2 DEF RamAt
  <2> QED
    BY <2>2, <2>3 DEF After
<1>7. CASE i \in 1 .. n /\ k = n + 2 /\ HighRam(l) # 0
  <2>1. HighAt(l)
    BY <1>7, RamFacts
  <2>2. RamAt(l, i) /\ RamAt(l, HighRam(l)) /\ HighRam(l) \in 1 .. n
    BY <1>7, <2>1, RamFacts DEF HighAt, n
  <2>3. e.zone = "TmpHigh" /\ e.start = l.ram[i].start /\ e.end <= l.ram[i].end
        /\ (i = HighRam(l) => e.end <= NewEnd(l, HighRam(l)))
    BY <1>4, <1>7, SMTT(40) DEF InBand, n, h
  <2>4. f.zone = "High" /\ f.start = NewEnd(l, HighRam(l)) /\ f.end <= l.ram[HighRam(l)].end
        /\ l.ram[HighRam(l)].start <= f.start
    <3>1. h = 1
      BY <1>4, <1>7
    <3>2. k # n + 1 /\ k # n + h + 2 /\ k # n + h + 3 /\ k \notin 1 .. n
      BY <1>4, <1>7, <3>1
    <3> QED
      BY <3>2, Zenon DEF InBand, n, h
  <2>5. \/ i = HighRam(l)
        \/ i < HighRam(l) /\ l.ram[HighRam(l)].end <= l.ram[i].start
        \/ HighRam(l) < i /\ l.ram[i].end <= l.ram[HighRam(l)].start
    <3>1. i \in DOMAIN l.ram /\ HighRam(l) \in DOMAIN l.ram /\ Len(l.ram) \in Nat
      BY <1>7, <2>1, RamFacts DEF HighAt, n
    <3>2. i = HighRam(l) \/ i < HighRam(l) \/ HighRam(l) < i
      BY <1>7, <2>2, <1>4
    <3> QED
      BY <3>1, <3>2, RamFacts, Zenon
  <2>6. /\ l.ram[i].start \in Int /\ l.ram[i].end \in Int
        /\ l.ram[HighRam(l)].start \in Int /\ l.ram[HighRam(l)].end \in Int
    BY <1>3, <2>2 DEF RamAt
  <2>7. f.end <= e.start \/ e.end <= f.start
    BY <1>5, <2>3, <2>4, <2>5, <2>6
  <2> QED
    BY <2>3, <2>4, <2>7 DEF After
<1>8. CASE ~(i \in 1 .. n /\ k \in 1 .. n) /\ ~(i \in 1 .. n /\ k = n + 2 /\ HighRam(l) # 0)
  <2>1. \/ i \in 1 .. n /\ e.zone = "TmpHigh" /\ l.fseg.end <= e.start
        \/ i = n + 1 /\ e.zone = "TmpLow" /\ e.end <= l.ebdaminimum
        \/ i = n + 2 /\ h = 1 /\ e.zone = "High" /\ l.fseg.end <= e.start
        \/ i = n + h + 2 /\ e.zone = "Low" /\ l.ebdaminimum <= e.start /\ e.end <= l.varlow
        \/ i = n + h + 3 /\ e.zone = "FSeg" /\ l.varlow <= e.start /\ e.end <= l.fseg.end
    BY <1>4 DEF InBand, n, h
  <2>2. \/ k \in 1 .. n /\ f.zone = "TmpHigh" /\ l.fseg.end <= f.start
        \/ k = n + 1 /\ f.zone = "TmpLow" /\ f.end <= l.ebdaminimum
        \/ k = n + 2 /\ h = 1 /\ f.zone = "High" /\ l.fseg.end <= f.start
        \/ k = n + h + 2 /\ f.zone = "Low" /\ l.ebdaminimum <= f.start /\ f.end <= l.varlow
        \/ k = n + h + 3 /\ f.zone = "FSeg" /\ l.varlow <= f.start /\ f.end <= l.fseg.end
    BY <1>4 DEF InBand, n, h
  <2>3. (h = 1 => HighRam(l) # 0) /\ h \in Nat
    BY <1>4
  <2>4. e.zone # f.zone
    BY <1>4, <1>8, <2>1, <2>2, <2>3
  <2>5. f.end <= e.start \/ e.end <= f.start
    BY <1>3, <1>4, <1>5, <1>8, <2>1, <2>2, <2>3
  <2> QED
    BY <2>4, <2>5 DEF After
<1> QED
  BY <1>6, <1>7, <1>8

\* No two regions overlap, and those of a zone fall.
LEMMA RegionsApart ==
  ASSUME NEW l \in Layouts
  PROVE  \A i, k \in 1 .. Len(Regions(l)) : i < k => After(Regions(l)[i], Regions(l)[k])
<1>1. \A i \in 1 .. Len(Regions(l)) :
        InBand(l, i, Regions(l)[i]) /\ RegionAt(l, Regions(l)[i]) /\ i \in Nat
  BY RegionsAre, RegionsInBands, RegionsLie
<1> QED
  BY <1>1, BandsApart

----------------------------------------------------------------------------
(* Setup.                                                                  *)

\* The state after region i, from that before it.
SetupStep(l, g, i) ==
  alloc_add(g[i - 1], Regions(l)[i].zone, Regions(l)[i].start, Regions(l)[i].end)

\* g tells the states up to region k.
SetupTo(l, k, g) ==
  /\ g = [i \in 0 .. k |-> g[i]]
  /\ g[0] = Empty(l)
  /\ \A i \in 1 .. k : g[i] = SetupStep(l, g, i)

\* The recursion of the setup, step by step.
LEMMA SetupsAre ==
  ASSUME NEW l, Len(Regions(l)) \in Nat
  PROVE  SetupTo(l, Len(Regions(l)), Setups(l))
<1> DEFINE N == Len(Regions(l))
           Body(g) == [i \in 0 .. N |-> IF i = 0 THEN Empty(l) ELSE SetupStep(l, g, i)]
           S == {k \in 0 .. N : ~\E g : SetupTo(l, k, g)}
<1>1. N \in Nat
  OBVIOUS
<1> HIDE DEF N
<1>2. S = {}
  <2> SUFFICES ASSUME S # {} PROVE FALSE
    OBVIOUS
  <2> DEFINE m == Min(S)
  <2>1. S \in SUBSET Nat
    OBVIOUS
  <2>2. m \in S /\ \A x \in S : m <= x
    BY <2>1, MinOf
  <2> HIDE DEF m
  <2>3. m \in 0 .. N /\ ~\E g : SetupTo(l, m, g)
    BY <2>2
  <2>4. m # 0
    <3> DEFINE g == [i \in 0 .. 0 |-> Empty(l)]
    <3>1. g[0] = Empty(l) /\ g = [i \in 0 .. 0 |-> g[i]]
      OBVIOUS
    <3> HIDE DEF g
    <3>2. SetupTo(l, 0, g)
      BY <3>1 DEF SetupTo
    <3> QED
      BY <2>3, <3>2
  <2>5. m - 1 \in 0 .. N /\ m - 1 \notin S
    <3>1. m - 1 \in 0 .. N /\ ~(m <= m - 1)
      BY <1>1, <2>3, <2>4
    <3> QED
      BY <2>2, <3>1
  <2>6. PICK g : SetupTo(l, m - 1, g)
    BY <2>5
  <2> DEFINE h == [i \in 0 .. m |-> IF i = m THEN SetupStep(l, g, m) ELSE g[i]]
  <2>7. h = [i \in 0 .. m |-> h[i]]
    OBVIOUS
  <2>8. \A i \in 0 .. m - 1 : h[i] = g[i]
    BY <1>1, <2>3
  <2>9. h[m] = SetupStep(l, g, m)
    BY <1>1, <2>3
  <2> HIDE DEF h
  <2>10. h[0] = Empty(l)
    BY <1>1, <2>3, <2>4, <2>6, <2>8 DEF SetupTo
  <2>11. ASSUME NEW i \in 1 .. m PROVE h[i] = SetupStep(l, h, i)
    <3>1. h[i - 1] = g[i - 1]
      <4>1. i - 1 \in 0 .. m - 1
        BY <1>1, <2>3
      <4> QED
        BY <2>8, <4>1
    <3>2. SetupStep(l, h, i) = SetupStep(l, g, i)
      BY <3>1 DEF SetupStep
    <3>3. CASE i = m
      BY <2>9, <3>2, <3>3
    <3>4. CASE i # m
      <4>1. i \in 1 .. m - 1 /\ i \in 0 .. m - 1
        BY <1>1, <2>3, <3>4
      <4> QED
        BY <2>6, <2>8, <3>2, <4>1 DEF SetupTo
    <3> QED
      BY <3>3, <3>4
  <2> QED
    BY <2>3, <2>7, <2>10, <2>11 DEF SetupTo
<1>3. \E g : SetupTo(l, N, g)
  <2>1. N \in 0 .. N
    BY <1>1
  <2>2. N \notin S
    BY <1>2, Zenon
  <2> QED
    BY <2>1, <2>2, Zenon
<1>4. PICK g : SetupTo(l, N, g)
  BY <1>3
<1>5. g = Body(g)
  <2>1. \A i \in 0 .. N : g[i] = IF i = 0 THEN Empty(l) ELSE SetupStep(l, g, i)
    BY <1>1, <1>4 DEF SetupTo
  <2>2. g = [i \in 0 .. N |-> g[i]]
    BY <1>4 DEF SetupTo
  <2>3. [i \in 0 .. N |-> g[i]] = Body(g)
    BY <2>1
  <2> QED
    BY <2>2, <2>3, Zenon
<1>6. Setups(l) = CHOOSE f : f = Body(f)
  BY DEF Setups, SetupStep, N
<1>7. Setups(l) = Body(Setups(l))
  BY <1>5, <1>6, Zenon
<1> DEFINE f == Setups(l)
<1>8. f = [i \in 0 .. N |-> IF i = 0 THEN Empty(l) ELSE SetupStep(l, f, i)]
  BY <1>7
<1> HIDE DEF f
<1>9. \A i \in 0 .. N : f[i] = IF i = 0 THEN Empty(l) ELSE SetupStep(l, f, i)
  BY <1>8, Zenon
<1>10. f = [i \in 0 .. N |-> f[i]]
  BY <1>8
<1>11. f[0] = Empty(l) /\ \A i \in 1 .. N : f[i] = SetupStep(l, f, i)
  BY <1>1, <1>9
<1> QED
  BY <1>10, <1>11 DEF SetupTo, f, N

\* The zones have the first k regions.
SetUp(l, k, m) ==
  /\ Whole(m, l.top)
  /\ BlocksOf(AllTags(m.zones)) = {}
  /\ m.ebda = FirstEbda(l) /\ m.lowram = FirstEbda(l)
  /\ \A z \in Zone : \A x :
       x \in Covered(m.zones[z]) <=>
         \E i \in 1 .. k : Regions(l)[i].zone = z
                           /\ x \in Regions(l)[i].start .. Regions(l)[i].end - 1
  /\ \A z \in Zone : \A lo, hi \in Nat :
       (\A i \in 1 .. k : Regions(l)[i].zone = z =>
                            lo <= Regions(l)[i].start /\ Regions(l)[i].end <= hi)
         => Between(m.zones[z], lo, hi)
  /\ \A i \in 1 .. k : HasBase(m.zones[Regions(l)[i].zone])

\* Before the first region the zones are empty.
LEMMA SetUpEmpty ==
  ASSUME NEW l, TopOK(l.top)
  PROVE  SetUp(l, 0, Empty(l))
<1> DEFINE zs == [z \in Zone |-> <<>>]
           hs == [d \in {} |-> DefaultHandle]
           e == FirstEbda(l)
           m == Empty(l)
<1>1. m = [zones |-> zs, handle |-> hs, ebda |-> e, lowram |-> e]
  BY DEF Empty
<1>2. \A z \in Zone : zs[z] = <<>>
  OBVIOUS
<1>3. zs = [z \in Zone |-> zs[z]]
  OBVIOUS
<1>4. HandlesOK(hs, l.top)
  BY DEF HandlesOK
<1> HIDE DEF zs, hs, e, m
<1>5. m.zones = zs /\ m.handle = hs /\ m.ebda = e /\ m.lowram = e /\ IsMemory(m)
  BY <1>1 DEF IsMemory
<1>6. <<>> \in Seq(Raw(l.top)) /\ Len(<<>>) = 0 /\ 1 .. 0 = {}
  OBVIOUS
<1>7. ListOK(<<>>, l.top) /\ Tags(<<>>) = {}
  BY <1>6 DEF ListOK, Tags
<1>8. \A x : x \notin Covered(<<>>)
  BY <1>6, CoveredMeans
<1>9. ZonesOK(zs, l.top)
  BY <1>2, <1>3, <1>7, <1>8 DEF ZonesOK
<1>10. AllTags(zs) = {}
  BY <1>2, <1>7 DEF AllTags
<1>11. Books(AllTags(zs)) /\ Settled(AllTags(zs))
  BY <1>10 DEF Books, Settled
<1>12. Whole(m, l.top)
  BY <1>4, <1>5, <1>9, <1>11 DEF Whole
<1>13. \A lo, hi : Between(<<>>, lo, hi)
  BY <1>6 DEF Between
<1>14. \A z \in Zone : \A x : x \notin Covered(m.zones[z])
  BY <1>2, <1>5, <1>8
<1>15. \A z \in Zone : \A lo, hi : Between(m.zones[z], lo, hi)
  BY <1>2, <1>5, <1>13
<1>16. BlocksOf(AllTags(m.zones)) = {}
  BY <1>5, <1>10 DEF BlocksOf
<1> QED
  BY <1>5, <1>6, <1>12, <1>14, <1>15, <1>16 DEF SetUp, m, e

\* One region more is added.
LEMMA SetUpStep ==
  ASSUME NEW l \in Layouts, NEW k \in 1 .. Len(Regions(l)), NEW m, SetUp(l, k - 1, m),
         NEW n, n # m,
         n = alloc_add(m, Regions(l)[k].zone, Regions(l)[k].start, Regions(l)[k].end)
  PROVE  SetUp(l, k, n)
<1> DEFINE R == Regions(l)
           z == R[k].zone
           s == R[k].start
           e == R[k].end
<1>1. Len(R) \in Nat /\ k \in 1 .. Len(R) /\ \A i \in 1 .. Len(R) : RegionAt(l, R[i])
  BY RegionsAre, RegionsLie
<1>2. \A i \in 1 .. k - 1 : i \in 1 .. Len(R) /\ i < k
  BY <1>1
<1>3. \A i \in 1 .. k - 1 : After(R[i], R[k])
  BY <1>1, <1>2, RegionsApart
<1>4. \A i \in 1 .. Len(R) :
        /\ R[i].zone \in Zone /\ R[i].start \in 2 .. l.top /\ R[i].end \in 2 .. l.top
        /\ R[i].start <= R[i].end
  BY <1>1 DEF RegionAt, RegionOK
<1>5. TopOK(l.top) /\ l.top \in Nat
  BY LayoutFacts DEF AddressesOK, TopOK
<1>6. n = alloc_add(m, z, s, e)
  OBVIOUS
<1> HIDE DEF R
<1>7. z \in Zone /\ RegionOK(s, e, l.top) /\ s \in Nat /\ e \in Nat
  BY <1>1, <1>4, <1>5 DEF RegionAt
<1>8. /\ Whole(m, l.top) /\ m.ebda = FirstEbda(l) /\ m.lowram = FirstEbda(l)
      /\ \A y \in Zone : \A x :
           x \in Covered(m.zones[y]) <=>
             \E i \in 1 .. k - 1 : R[i].zone = y /\ x \in R[i].start .. R[i].end - 1
      /\ \A y \in Zone : \A lo, hi \in Nat :
           (\A i \in 1 .. k - 1 : R[i].zone = y => lo <= R[i].start /\ R[i].end <= hi)
             => Between(m.zones[y], lo, hi)
      /\ \A i \in 1 .. k - 1 : HasBase(m.zones[R[i].zone])
  BY DEF SetUp, R
<1>9. Above(m.zones[z], e)
  <2>1. ASSUME NEW i \in 1 .. k - 1, R[i].zone = z PROVE e <= R[i].start /\ R[i].end <= l.top
    BY <1>2, <1>3, <1>4, <1>5, <2>1 DEF After
  <2>2. Between(m.zones[z], e, l.top)
    BY <1>5, <1>7, <1>8, <2>1
  <2> QED
    BY <2>2 DEF Between, Above
<1>10. ApartFromOthers(m.zones, z, s, e)
  <2>1. ASSUME NEW y \in Zone, y # z, NEW x \in s .. e - 1, x \in Covered(m.zones[y])
        PROVE  FALSE
    <3>1. PICK i \in 1 .. k - 1 : R[i].zone = y /\ x \in R[i].start .. R[i].end - 1
      BY <1>8, <2>1
    <3>2. R[k].end <= R[i].start \/ R[i].end <= R[k].start
      BY <1>3, <2>1, <3>1 DEF After
    <3>3. R[i].start \in Int /\ R[i].end \in Int /\ R[k].start \in Int /\ R[k].end \in Int
      <4>1. /\ R[i].start \in 2 .. l.top /\ R[i].end \in 2 .. l.top
            /\ R[k].start \in 2 .. l.top /\ R[k].end \in 2 .. l.top
        BY <1>1, <1>2, <1>4, <3>1
      <4>2. \A a \in 2 .. l.top : a \in Int
        BY <1>5
      <4> QED
        BY <4>1, <4>2, Zenon
    <3>4. x \in R[k].start .. R[k].end - 1 /\ x \in R[i].start .. R[i].end - 1
      BY <2>1, <3>1
    <3> QED
      BY <3>2, <3>3, <3>4, Overlap
  <2> QED
    BY <2>1 DEF ApartFromOthers
<1>11. AddedOK(m, n, z, s, e, l.top)
  BY <1>5, <1>6, <1>7, <1>8, <1>9, <1>10, AllocAdd
<1>12. Whole(n, l.top) /\ GrewBy(m, n, z, s, e)
  BY <1>11 DEF AddedOK
<1> HIDE DEF z, s, e
<1>13. /\ n.ebda = m.ebda /\ n.lowram = m.lowram
       /\ \A y \in Zone : y # z =>
            /\ Covered(n.zones[y]) = Covered(m.zones[y])
            /\ \A lo, hi \in Nat : Between(m.zones[y], lo, hi) => Between(n.zones[y], lo, hi)
            /\ HasBase(m.zones[y]) => HasBase(n.zones[y])
       /\ HasBase(n.zones[z])
       /\ Covered(n.zones[z]) = Covered(m.zones[z]) \cup (s .. e - 1)
       /\ \A lo, hi \in Nat : Between(m.zones[z], lo, hi) /\ lo <= s /\ e <= hi
                                => Between(n.zones[z], lo, hi)
  BY <1>12, ZenonT(40) DEF GrewBy, SameMemory
<1>14. \A i : i \in 1 .. k <=> i \in 1 .. k - 1 \/ i = k
  BY <1>1
<1>15. R[k].zone = z /\ R[k].start = s /\ R[k].end = e
  BY DEF z, s, e
<1>16. \A y \in Zone : \A x :
         x \in Covered(n.zones[y]) <=>
           \E i \in 1 .. k : R[i].zone = y /\ x \in R[i].start .. R[i].end - 1
  <2> TAKE y \in Zone
  <2> TAKE x
  <2>1. (\E i \in 1 .. k : R[i].zone = y /\ x \in R[i].start .. R[i].end - 1)
          <=> \/ \E i \in 1 .. k - 1 : R[i].zone = y /\ x \in R[i].start .. R[i].end - 1
              \/ z = y /\ x \in s .. e - 1
    BY <1>14, <1>15, Zenon
  <2>2. x \in Covered(m.zones[y]) <=>
          \E i \in 1 .. k - 1 : R[i].zone = y /\ x \in R[i].start .. R[i].end - 1
    BY <1>8
  <2>3. x \in Covered(n.zones[y]) <=> x \in Covered(m.zones[y]) \/ (z = y /\ x \in s .. e - 1)
    <3>1. CASE y = z
      BY <1>13, <3>1, ZenonT(40)
    <3>2. CASE y # z
      BY <1>13, <3>2, ZenonT(40)
    <3> QED
      BY <3>1, <3>2
  <2> QED
    BY <2>1, <2>2, <2>3, Zenon
<1>17. ASSUME NEW y \in Zone, NEW lo \in Nat, NEW hi \in Nat,
              \A i \in 1 .. k : R[i].zone = y => lo <= R[i].start /\ R[i].end <= hi
       PROVE  Between(n.zones[y], lo, hi)
  <2>1. Between(m.zones[y], lo, hi)
    BY <1>8, <1>14, <1>17
  <2>2. CASE y = z
    <3>1. lo <= s /\ e <= hi
      BY <1>14, <1>15, <1>17, <2>2
    <3> QED
      BY <1>13, <2>1, <2>2, <3>1
  <2>3. CASE y # z
    BY <1>13, <2>1, <2>3, ZenonT(40)
  <2> QED
    BY <2>2, <2>3
<1>18. \A i \in 1 .. k : HasBase(n.zones[R[i].zone])
  <2> TAKE i \in 1 .. k
  <2>1. CASE i = k \/ R[i].zone = z
    BY <1>13, <1>15, <2>1, ZenonT(40)
  <2>2. CASE i # k /\ R[i].zone # z
    <3>1. i \in 1 .. k - 1 /\ R[i].zone \in Zone
      BY <1>2, <1>4, <1>14, <2>2
    <3> QED
      BY <1>8, <1>13, <2>2, <3>1
  <2> QED
    BY <2>1, <2>2
<1>19. n.ebda = FirstEbda(l) /\ n.lowram = FirstEbda(l)
  BY <1>8, <1>13
<1>20. BlocksOf(AllTags(n.zones)) = {}
  BY <1>12 DEF GrewBy, SetUp
<1> QED
  BY <1>12, <1>16, <1>17, <1>18, <1>19, <1>20 DEF SetUp, R

\* What setup leaves is sound, and has all regions in their zones.
LEMMA SetUpAll ==
  ASSUME NEW l \in Layouts
  PROVE  SetUp(l, Len(Regions(l)), Setup(l))
<1> DEFINE N == Len(Regions(l))
           f == Setups(l)
           S == {k \in 0 .. N : ~SetUp(l, k, f[k])}
<1>1. N \in Nat /\ SetupTo(l, N, f) /\ TopOK(l.top) /\ FindsRoom(l)
  BY RegionsAre, SetupsAre, LayoutFacts DEF AddressesOK
<1>2. Setup(l) = f[N]
  BY DEF Setup
<1>3. \A k \in 1 .. N : f[k] # f[k - 1]
  BY <1>1 DEF FindsRoom
<1> HIDE DEF f
<1>4. f[0] = Empty(l) /\ \A k \in 1 .. N : f[k] = SetupStep(l, f, k)
  BY <1>1 DEF SetupTo
<1>5. S = {}
  <2> SUFFICES ASSUME S # {} PROVE FALSE
    OBVIOUS
  <2>1. S \in SUBSET Nat
    OBVIOUS
  <2> DEFINE k == Min(S)
  <2>2. k \in S /\ \A x \in S : k <= x
    BY <2>1, MinOf
  <2> HIDE DEF k
  <2>3. k \in 0 .. N /\ ~SetUp(l, k, f[k])
    BY <2>2
  <2>4. k # 0
    BY <1>1, <1>4, <2>3, SetUpEmpty
  <2>5. k \in 1 .. N /\ k - 1 \in 0 .. N /\ ~(k <= k - 1)
    BY <1>1, <2>3, <2>4
  <2>6. SetUp(l, k - 1, f[k - 1])
    BY <2>2, <2>5
  <2>7. f[k] = alloc_add(f[k - 1], Regions(l)[k].zone, Regions(l)[k].start,
                         Regions(l)[k].end)
    BY <1>4, <2>5 DEF SetupStep
  <2>8. SetUp(l, k, f[k])
    BY <1>3, <2>5, <2>6, <2>7, SetUpStep
  <2> QED
    BY <2>3, <2>8
<1> HIDE DEF N
<1>6. N \in 0 .. N
  BY <1>1
<1>7. N \notin S
  BY <1>5, Zenon
<1>8. SetUp(l, N, f[N])
  BY <1>6, <1>7, Zenon
<1> QED
  BY <1>2, <1>8 DEF N

\* The memory that was given to a zone, byte by byte.
LEMMA GivenMeans ==
  ASSUME NEW l \in Layouts, NEW z, NEW x
  PROVE  x \in Given(l, z) <=>
           \E i \in 1 .. Len(Regions(l)) :
             Regions(l)[i].zone = z /\ x \in Regions(l)[i].start .. Regions(l)[i].end - 1
<1>1. DOMAIN Regions(l) = 1 .. Len(Regions(l))
  BY RegionsAre
<1> QED
  BY <1>1 DEF Given

\* Nothing was given to another zone where ZoneLow may be.
LEMMA OthersOutside ==
  ASSUME NEW l \in Layouts, NEW z, z # "Low", NEW x \in Given(l, z)
  PROVE  x \in Int /\ (x < l.ebdaminimum \/ l.varlow <= x)
<1>1. PICK i \in 1 .. Len(Regions(l)) :
        Regions(l)[i].zone = z /\ x \in Regions(l)[i].start .. Regions(l)[i].end - 1
  BY GivenMeans
<1> DEFINE r == Regions(l)[i]
<1>2. InBand(l, i, r) /\ RegionAt(l, r)
  BY RegionsAre, RegionsInBands, RegionsLie
<1>3. r.zone = z /\ x \in r.start .. r.end - 1
  BY <1>1
<1> HIDE DEF r
<1>4. l.varlow \in Int /\ l.ebdaminimum \in Int /\ l.fseg.end \in Int /\ l.top \in Nat
      /\ l.varlow <= l.fseg.end
  <2>1. AddressesInOrder(l) /\ Addressable(l)
    BY LayoutFacts
  <2>2. l.varlow <= l.fseg.start /\ l.fseg.start <= l.fseg.end
    BY <2>1 DEF AddressesInOrder
  <2>3. l.top \in Nat /\ l.varlow \in 2 .. l.top /\ l.ebdaminimum \in 2 .. l.top
        /\ l.fseg.start \in 2 .. l.top /\ l.fseg.end \in 2 .. l.top
    BY <2>1 DEF Addressable
  <2> QED
    BY <2>2, <2>3, SMTT(40)
<1>5. r.start \in Int /\ r.end \in Int /\ r.start <= x /\ x < r.end /\ x \in Int
  <2>1. r.start \in 2 .. l.top /\ r.end \in 2 .. l.top
    BY <1>2 DEF RegionAt, RegionOK
  <2> QED
    BY <1>3, <1>4, <2>1
<1>6. r.end <= l.ebdaminimum \/ l.varlow <= r.start \/ l.fseg.end <= r.start
  BY <1>2, <1>3 DEF InBand
<1> QED
  BY <1>4, <1>5, <1>6, SMTT(40)

\* The zones of a layout are as they should be when the first driver runs.
LEMMA SetupOK ==
  ASSUME NEW l \in Layouts
  PROVE  MemoryOK(Setup(l), l) /\ BlocksOf(AllTags(Setup(l).zones)) = {}
         /\ Setup(l).ebda = Setup(l).lowram
<1> DEFINE N == Len(Regions(l))
           m == Setup(l)
           R == Regions(l)
<1>1. SetUp(l, N, m)
  BY SetUpAll
<1> HIDE DEF m
<1>2. /\ Whole(m, l.top) /\ m.ebda = FirstEbda(l) /\ m.lowram = FirstEbda(l)
      /\ \A z \in Zone : \A x :
           x \in Covered(m.zones[z]) <=>
             \E i \in 1 .. N : R[i].zone = z /\ x \in R[i].start .. R[i].end - 1
      /\ \A z \in Zone : \A lo, hi \in Nat :
           (\A i \in 1 .. N : R[i].zone = z => lo <= R[i].start /\ R[i].end <= hi)
             => Between(m.zones[z], lo, hi)
      /\ \A i \in 1 .. N : HasBase(m.zones[R[i].zone])
  BY <1>1 DEF SetUp
<1>3. AddressesOK(l)
  BY LayoutFacts
<1>4. /\ N \in Nat /\ N = Len(l.ram) + Len(HighRegions(l)) + 3
      /\ \A i \in 1 .. N : RegionIs(l, i, R[i]) /\ InBand(l, i, R[i])
      /\ Len(HighRegions(l)) = IF HighRam(l) = 0 THEN 0 ELSE 1
      /\ Len(l.ram) \in Nat
  BY RegionsAre, RegionsInBands, RamFacts
<1> HIDE DEF N, R
<1>5. \A z \in Zone : Covered(m.zones[z]) = Given(l, z)
  BY <1>2, GivenMeans DEF N, R
<1>6. \A i \in 1 .. N : R[i].zone = "Low" => R[i].start = LowStart(l) /\ R[i].end = l.varlow
  <2> TAKE i \in 1 .. N
  <2>1. /\ Memory("Low", LowStart(l), l.varlow).start = LowStart(l)
        /\ Memory("Low", LowStart(l), l.varlow).end = l.varlow
        /\ \A z, s, e : Memory(z, s, e).zone = z
    BY DEF Memory
  <2>2. \A k \in 1 .. Len(l.ram) : TmpHighRegions(l)[k].zone = "TmpHigh"
    BY <2>1, RamFacts DEF TmpHighRegions
  <2>3. RegionIs(l, i, R[i])
    BY <1>4
  <2> QED
    BY <2>1, <2>2, <2>3 DEF RegionIs
<1>7. HasBase(m.zones["Low"])
  <2> DEFINE i == Len(l.ram) + Len(HighRegions(l)) + 2
  <2>1. i \in 1 .. N /\ i \notin 1 .. Len(l.ram) /\ i # Len(l.ram) + 1
        /\ i # Len(l.ram) + Len(HighRegions(l)) + 3
        /\ ~(i = Len(l.ram) + 2 /\ HighRam(l) # 0)
    <3> DEFINE n == Len(l.ram)
               h == Len(HighRegions(l))
    <3>1. n \in Nat /\ (h = 0 \/ h = 1) /\ N = n + h + 3 /\ (HighRam(l) # 0 => h = 1)
      BY <1>4
    <3> HIDE DEF n, h
    <3>2. n + h + 2 \in 1 .. N /\ n + h + 2 \notin 1 .. n /\ n + h + 2 # n + 1
          /\ n + h + 2 # n + h + 3 /\ (h = 1 => n + h + 2 # n + 2)
      BY <3>1
    <3> QED
      BY <3>1, <3>2, Zenon DEF n, h
  <2> HIDE DEF i
  <2>2. R[i].zone = "Low"
    BY <1>4, <2>1, Zenon DEF InBand
  <2> QED
    BY <1>2, <2>1, <2>2
<1>8. Between(m.zones["Low"], LowFloor(m, l), l.varlow)
  <2>1. LowFloor(m, l) = LowStart(l)
    <3>1. CASE l.upper
      BY <3>1 DEF LowFloor
    <3>2. CASE ~l.upper
      <4>1. FirstEbda(l) = LowStart(l) - l.ebdasize
        BY <3>2 DEF FirstEbda
      <4>2. LowFloor(m, l) = FirstEbda(l) + l.ebdasize
        BY <1>2, <3>2 DEF LowFloor
      <4>3. LowStart(l) \in Int /\ l.ebdasize \in Int
        BY <1>3 DEF AddressesOK, TopOK
      <4> QED
        BY <4>1, <4>2, <4>3
    <3> QED
      BY <3>1, <3>2
  <2>2. LowStart(l) \in Nat /\ l.varlow \in Nat /\ LowStart(l) <= LowStart(l)
        /\ l.varlow <= l.varlow
    BY <1>3 DEF AddressesOK, TopOK
  <2>3. "Low" \in Zone
    BY DEF Zone
  <2> QED
    BY <1>2, <1>6, <2>1, <2>2, <2>3
<1>9. EbdaOK(m, l)
  <2>1. FirstEbda(l) \in Nat /\ l.ebdaminimum <= FirstEbda(l) /\ FirstEbda(l) <= FirstEbda(l)
    BY <1>3 DEF AddressesOK, TopOK
  <2> QED
    BY <1>2, <2>1 DEF EbdaOK
<1>10. BlocksOf(AllTags(m.zones)) = {}
  BY <1>1 DEF SetUp
<1> QED
  BY <1>2, <1>5, <1>7, <1>8, <1>9, <1>10 DEF MemoryOK, Placed, m

----------------------------------------------------------------------------
(* Reservations.                                                           *)

\* The state m has the blocks of n.
SameBlocks(m, n) == BlocksOf(AllTags(m.zones)) = BlocksOf(AllTags(n.zones))

\* What alloc_new() and zonelow_expand() return: nothing was reserved, or one
\* block of size bytes, which has no bookkeeping yet.
ReservedOK(m, r, size, align, l) ==
  /\ LowKept(m, r.m, l)
  /\ \/ r.data = 0 /\ MemoryOK(r.m, l) /\ SameBlocks(m, r.m)
     \/ /\ r.data \in 2 .. l.top /\ r.data % align = 0
        /\ Pending(r.m, [start |-> r.data, size |-> size, at |-> TempData], l.top)
        /\ Placed(r.m, l)
        /\ BlocksOf(AllTags(m.zones)) =
             BlocksOf(AllTags(r.m.zones)
                        \ {[start |-> r.data, size |-> size, at |-> TempData]})

\* A reservation in a zone as it is.
LEMMA ReserveKeeps ==
  ASSUME NEW l \in Layouts, NEW m, MemoryOK(m, l), NEW z \in Zone,
         NEW size, NEW align, SizeOK(size, align)
  PROVE  ReservedOK(m, ReserveIn(m, z, size, align), size, align, l)
<1> DEFINE zs == m.zones
           r == alloc_new(zs[z], size, align, TempData)
           zt == [zs EXCEPT ![z] = r.list]
           n == [m EXCEPT !.zones = zt]
           nt == [start |-> r.data, size |-> size, at |-> TempData]
           top == l.top
<1>1. ReserveIn(m, z, size, align) = [m |-> n, data |-> r.data]
  BY DEF ReserveIn, Reserved
<1>2. /\ IsMemory(m) /\ ZonesOK(zs, top) /\ HandlesOK(m.handle, top)
      /\ Books(AllTags(zs)) /\ Settled(AllTags(zs)) /\ Placed(m, l)
  BY DEF MemoryOK, Whole
<1>3. TopOK(top) /\ AddressesOK(l)
  BY LayoutFacts DEF AddressesOK
<1>4. NoneIn(zs, TempData) /\ ListOK(zs[z], top)
  BY <1>2, NoneTemporary DEF ZonesOK
<1>5. TookOrNot(zs[z], r, size, align, TempData, top)
  <2>1. TempData \in 0 .. top
    BY <1>3 DEF TempData, TopOK
  <2>2. NoneAt(zs[z], TempData)
    BY <1>4 DEF NoneIn
  <2> QED
    BY <1>3, <1>4, <2>1, <2>2, AllocNew
<1>6. n = [zones |-> zt, handle |-> m.handle, ebda |-> m.ebda, lowram |-> m.lowram]
  <2> HIDE DEF zt
  <2> QED
    BY <1>2, MemoryWith, Zenon
<1> DEFINE res == ReserveIn(m, z, size, align)
<1>7. res.m = n /\ res.data = r.data
  BY <1>1
<1> HIDE DEF r, zt, n, res
<1>8. n.zones = zt /\ n.handle = m.handle /\ n.ebda = m.ebda /\ n.lowram = m.lowram
      /\ IsMemory(n)
  BY <1>6 DEF IsMemory
<1>9. CASE r.data = 0
  <2>1. r.list = zs[z]
    BY <1>5, <1>9 DEF TookOrNot
  <2>2. zt = zs
    <3>1. Changed(zs, zt, z, r.list)
      BY <1>2, ChangedBy DEF zt
    <3>2. zt = [y \in Zone |-> zt[y]] /\ zs = [y \in Zone |-> zs[y]]
          /\ \A y \in Zone : zt[y] = zs[y]
      BY <1>2, <2>1, <3>1 DEF Changed, ZonesOK
    <3> QED
      BY <3>2
  <2>3. n = m
    BY <1>2, <1>6, <2>2 DEF IsMemory
  <2>4. LowKept(m, n, l)
    BY <1>2, <2>3, LowKeptHere
  <2> QED
    BY <1>7, <1>9, <2>3, <2>4 DEF ReservedOK, SameBlocks, res
<1>10. CASE r.data # 0
  <2> HIDE DEF nt
  <2>1. r.data \in 2 .. top /\ Taken(zs[z], r.list, r.data, size, TempData, top)
        /\ r.data % align = 0
    BY <1>5, <1>10 DEF TookOrNot
  <2>2. TakenIn(zs, zt, r.data, size, TempData, top)
    BY <1>2, <1>4, <2>1, TakeInZone DEF zt
  <2>3. ZonesOK(zt, top) /\ SameZones(zs, zt) /\ AllTags(zt) = AllTags(zs) \cup {nt}
    BY <2>2 DEF TakenIn, nt
  <2>4. nt.at = TempData /\ nt.size = size /\ nt.start = r.data /\ size > 0
    BY DEF nt, SizeOK
  <2>5. nt \notin AllTags(zs)
    BY <1>4, <2>4 DEF NoneIn, NoneAt, AllTags
  <2>6. AllTags(zt) \ {nt} = AllTags(zs)
    BY <2>3, <2>5
  <2>7. Books(AllTags(zt))
    BY <1>2, <2>3, <2>4 DEF Books, Booked
  <2>8. Pending(n, nt, top)
    BY <1>2, <1>8, <2>3, <2>4, <2>6, <2>7 DEF Pending
  <2>9. Placed(n, l)
    BY <1>2, <1>3, <1>8, <2>3, PlacedSame
  <2>10. LowKept(m, n, l)
    BY <1>2, <1>8, <2>3, LowKeptSame
  <2> QED
    BY <1>7, <1>8, <2>1, <2>6, <2>8, <2>9, <2>10 DEF ReservedOK, nt, res
<1> QED
  BY <1>9, <1>10

\* What malloc_palloc() returns: nothing, or one new block.
ResultOK(m, r, size, align, l) ==
  /\ MemoryOK(r.m, l)
  /\ LowKept(m, r.m, l)
  /\ \/ r.data = 0 /\ SameBlocks(m, r.m)
     \/ /\ r.data \in 2 .. l.top /\ r.data % align = 0
        /\ BlocksOf(AllTags(r.m.zones)) =
             BlocksOf(AllTags(m.zones)) \cup {[start |-> r.data, size |-> size]}

\* A reservation gets its bookkeeping, or is undone.
LEMMA TrackKeeps ==
  ASSUME NEW l \in Layouts, NEW m, NEW r, r = [m |-> r.m, data |-> r.data],
         NEW size, NEW align, SizeOK(size, align), ReservedOK(m, r, size, align, l)
  PROVE  ResultOK(m, TrackIfAny(r), size, align, l)
<1> DEFINE nt == [start |-> r.data, size |-> size, at |-> TempData]
           zs == r.m.zones
           d == alloc_new_detail(zs)
           top == l.top
           T == AllTags(zs)
<1>1. TopOK(top) /\ AddressesOK(l)
  BY LayoutFacts DEF AddressesOK
<1>2. CASE r.data = 0
  BY <1>2 DEF ReservedOK, ResultOK, TrackIfAny
<1>3. CASE r.data # 0
  <2>1. r.data \in 2 .. top /\ r.data % align = 0 /\ Pending(r.m, nt, top) /\ Placed(r.m, l)
        /\ BlocksOf(AllTags(m.zones)) = BlocksOf(T \ {nt}) /\ LowKept(m, r.m, l)
    BY <1>3 DEF ReservedOK
  <2>2. nt.start = r.data /\ nt.size = size /\ nt.at = TempData
    OBVIOUS
  <2> HIDE DEF nt
  <2>3. /\ IsMemory(r.m) /\ ZonesOK(zs, top) /\ nt \in T /\ nt.size > 0
        /\ Books(T) /\ Settled(T \ {nt}) /\ HandlesOK(r.m.handle, top)
    BY <2>1 DEF Pending
  <2>4. NoneIn(zs, TempDetail)
    <3>1. TempData # TempDetail
      BY DEF TempData, TempDetail
    <3>2. \A t \in T : t.at # TempDetail
      <4>1. \A t \in T \ {nt} : t.at >= 2
        BY <2>3 DEF Settled
      <4>2. \A t \in T \ {nt} : t.at # 0
        BY <4>1
      <4> QED
        BY <2>2, <3>1, <4>2 DEF TempDetail
    <3> QED
      BY <3>2 DEF NoneIn, NoneAt, AllTags
  <2>5. d.data = 0 \/ DescribedOK(zs, d, top)
    BY <1>1, <2>3, <2>4, AllocNewDetail
  <2>6. IsBlock(nt)
    BY <1>1, <2>1, <2>2, <2>3 DEF IsBlock, TempData, TopOK
  <2>7. BlocksOf(T) = BlocksOf(T \ {nt}) \cup {[start |-> r.data, size |-> size]}
    <3>1. \A t : t \in T <=> t \in T \ {nt} \/ t = nt
      BY <2>3
    <3> HIDE DEF T
    <3> QED
      BY <2>2, <2>6, <3>1 DEF BlocksOf
  <2>8. TrackIfAny(r) = Track(r, d)
    BY <1>3 DEF TrackIfAny
  <2> HIDE DEF T, d
  <2>9. CASE d.data # 0
    <3> DEFINE n == WithDetail(r.m, d)
               res == Track(r, d)
    <3>1. res = [r EXCEPT !.m = n]
      BY <2>9 DEF Track
    <3>2. Whole(n, top) /\ OnlyZones(r.m, n, d.zones)
      BY <2>3, <2>5, <2>9, WithDetailKeeps
    <3> HIDE DEF n
    <3>3. res.m = n /\ res.data = r.data
      BY <3>1
    <3> HIDE DEF res
    <3>4. n.zones = d.zones /\ n.ebda = r.m.ebda /\ n.lowram = r.m.lowram
      BY <3>2 DEF OnlyZones
    <3>5. SameZones(zs, d.zones) /\ BlocksOf(AllTags(d.zones)) = BlocksOf(T)
      BY <1>1, <2>3, <2>4, <2>5, <2>9, DescribedBlocks DEF DescribedOK, T
    <3>6. Placed(n, l)
      BY <1>1, <2>1, <3>4, <3>5, PlacedSame
    <3>7. BlocksOf(AllTags(n.zones)) =
            BlocksOf(AllTags(m.zones)) \cup {[start |-> r.data, size |-> size]}
      BY <2>1, <2>7, <3>4, <3>5
    <3>8. LowKept(m, n, l)
      BY <1>1, <2>1, <3>4, <3>5, LowKeptSame, LowKeptTwice DEF AddressesOK
    <3> QED
      BY <2>1, <2>8, <3>2, <3>3, <3>6, <3>7, <3>8 DEF ResultOK, MemoryOK, res
  <2>10. CASE d.data = 0
    <3> DEFINE zt == FreeIn(zs, TempData)
               n == [r.m EXCEPT !.zones = zt]
    <3>1. Track(r, d) = Failed([r.m EXCEPT !.zones = FreeIn(@, TempData)])
      BY <2>10 DEF Track
    <3>2. [r.m EXCEPT !.zones = FreeIn(@, TempData)] = n
      OBVIOUS
    <3>3. FreedIn(zs, zt, nt, top)
      BY <1>1, <2>2, <2>3, FreeInZones DEF T
    <3> HIDE DEF zt
    <3>4. n = [zones |-> zt, handle |-> r.m.handle, ebda |-> r.m.ebda, lowram |-> r.m.lowram]
      BY <2>3, MemoryWith, Zenon
    <3> HIDE DEF n
    <3>5. n.zones = zt /\ n.handle = r.m.handle /\ n.ebda = r.m.ebda
          /\ n.lowram = r.m.lowram /\ IsMemory(n)
      BY <3>4 DEF IsMemory
    <3>6. ZonesOK(zt, top) /\ SameZones(zs, zt) /\ AllTags(zt) = T \ {nt}
      BY <3>3 DEF FreedIn, T
    <3>7. Placed(n, l)
      BY <1>1, <2>1, <3>5, <3>6, PlacedSame
    <3>8. Books(T \ {nt})
      <4>1. ~IsDetailTag(nt)
        BY <1>1, <2>1, <2>2 DEF IsDetailTag, TempData, TopOK
      <4> QED
        BY <2>3, <4>1 DEF Books, Booked
    <3>9. Whole(n, top)
      BY <2>3, <3>5, <3>6, <3>8 DEF Whole
    <3>10. SameBlocks(m, n)
      BY <2>1, <3>5, <3>6 DEF SameBlocks
    <3>11. Track(r, d) = [m |-> n, data |-> 0]
      BY <3>1, <3>2 DEF Failed
    <3>12. LowKept(m, n, l)
      BY <1>1, <2>1, <3>5, <3>6, LowKeptSame, LowKeptTwice DEF AddressesOK
    <3> QED
      BY <2>8, <3>7, <3>9, <3>10, <3>11, <3>12 DEF ResultOK, MemoryOK
  <2> QED
    BY <2>9, <2>10
<1> QED
  BY <1>2, <1>3

----------------------------------------------------------------------------
(* Growing ZoneLow.                                                        *)

\* Bounds can be taken lower.
LEMMA BetweenWider ==
  ASSUME NEW top \in Nat, NEW l, ListOK(l, top), NEW lo \in Nat, NEW hi \in Nat, NEW lower \in Nat,
         lower <= lo, Between(l, lo, hi)
  PROVE  Between(l, lower, hi)
<1> SUFFICES ASSUME NEW i \in 1 .. Len(l) PROVE lower <= l[i].start /\ l[i].end <= hi
  BY DEF Between
<1>1. lo <= l[i].start /\ l[i].end <= hi
  BY DEF Between
<1>2. l \in Seq(Raw(top))
  BY DEF ListOK
<1>3. l[i].start \in 2 .. top
  BY <1>2, RangeFacts
<1>4. l[i].start \in Int
  BY <1>3
<1> QED
  BY <1>1, <1>4

\* Aligning twice loses less than both alignments.
LEMMA AlignedTwice ==
  ASSUME NEW x \in Nat, NEW w \in Nat, x < w, NEW size \in Nat, size <= x,
         NEW a \in Nat \ {0}, NEW b \in Nat \ {0}
  PROVE  LET c == ALIGN_DOWN((x - size) % w, a)
             d == ALIGN_DOWN(c, b)
         IN  /\ c \in Nat /\ d \in Nat /\ d <= c /\ c <= x - size
             /\ x - size <= d + a + b - 2
<1> DEFINE c == ALIGN_DOWN((x - size) % w, a)
           d == ALIGN_DOWN(c, b)
           y == x - size
<1>1. y \in Nat /\ y % w = y
  <2>1. y \in Int /\ y >= 0 /\ -w <= y /\ y < w
    OBVIOUS
  <2> HIDE DEF y
  <2> QED
    BY <2>1, Wraps
<1> HIDE DEF y
<1>2. c = ALIGN_DOWN(y, a)
  BY <1>1 DEF y
<1> HIDE DEF c
<1>3. c \in Nat /\ c <= y /\ y < c + a
  BY <1>1, <1>2, AlignedDown
<1>4. d \in Nat /\ d <= c /\ c < d + b
  BY <1>3, AlignedDown
<1> HIDE DEF d
<1>5. d + a + b - 2 = (d + b - 1) + (a - 1)
  BY <1>4
<1>6. y <= d + a + b - 2
  BY <1>1, <1>3, <1>4
<1> QED
  BY <1>3, <1>4, <1>6 DEF y, d, c

\* The lowest range of ZoneLow and the EBDA below it.
LowEnds(m, e) ==
  /\ e = LowestLow(m) /\ e = Lowest(m.zones["Low"])
  /\ e.size = 0 /\ e.start <= e.end
  /\ e.start \in 2 .. Layout.top /\ e.end \in 2 .. Layout.top
  /\ m.ebda \in Nat /\ Layout.ebdasize \in Nat
  /\ EbdaEnd(m) = m.ebda + Layout.ebdasize /\ EbdaEnd(m) <= e.start
  /\ EbdaEnd(m) <= Layout.varlow /\ Layout.ebdaminimum <= m.ebda
  /\ EbdaEnd(m) \in 2 .. Layout.top

\* The lowest range of ZoneLow is free, and the EBDA ends below it.
LEMMA LowEndsAre ==
  ASSUME Layout \in Layouts, ~UPPERMEMORY, NEW m, MemoryOK(m, Layout)
  PROVE  LowEnds(m, LowestLow(m)) /\ m.zones["Low"] # <<>>
<1> DEFINE l == m.zones["Low"]
           e == LowestLow(m)
<1>1. AddressesOK(Layout)
  BY LayoutFacts
<1>2. Whole(m, Layout.top) /\ Placed(m, Layout) /\ "Low" \in Zone
  BY DEF MemoryOK, Zone
<1>3. ListOK(l, Layout.top) /\ Tags(l) # {} /\ TopOK(Layout.top)
  BY <1>1, <1>2 DEF Whole, ZonesOK, Placed, HasBase, AddressesOK
<1>4. e = Lowest(l)
  BY DEF LowestLow, Lowest
<1>5. /\ Len(l) \in 1 .. Len(l) /\ e.size = 0
      /\ e.start \in 2 .. Layout.top /\ e.end \in 2 .. Layout.top /\ e.start <= e.end
  BY <1>3, <1>4, LowestIsFree
<1>6. EbdaEnd(m) = m.ebda + Layout.ebdasize /\ LowFloor(m, Layout) = EbdaEnd(m)
  BY DEF EbdaEnd, LowFloor, UPPERMEMORY
<1>7. Between(l, EbdaEnd(m), Layout.varlow) /\ EbdaOK(m, Layout)
  BY <1>2, <1>6 DEF Placed
<1>8. EbdaEnd(m) <= e.start
  BY <1>5, <1>7 DEF Between, LowestLow
<1>9. /\ m.ebda \in Nat /\ Layout.ebdasize \in Nat /\ Layout.ebdaminimum <= m.ebda
      /\ EbdaEnd(m) <= Layout.varlow /\ EbdaEnd(m) \in 2 .. Layout.top
  <2>1. /\ m.ebda \in Nat /\ m.ebda <= FirstEbda(Layout) /\ Layout.ebdaminimum <= m.ebda
    BY <1>7 DEF EbdaOK
  <2>2. /\ Layout.ebdasize \in Nat /\ FirstEbda(Layout) \in 2 .. Layout.top
        /\ LowStart(Layout) \in 2 .. Layout.top /\ Layout.varlow \in 2 .. Layout.top
        /\ FirstEbda(Layout) + Layout.ebdasize <= LowStart(Layout)
        /\ LowStart(Layout) <= Layout.varlow /\ Layout.ebdaminimum \in 2 .. Layout.top
        /\ Layout.top \in Nat
    BY <1>1 DEF AddressesOK, TopOK
  <2> HIDE DEF l, e
  <2> QED
    BY <1>6, <2>1, <2>2
<1>10. l # <<>>
  <2>1. Len(<<>>) = 0
    OBVIOUS
  <2> QED
    BY <1>5, <2>1
<1> QED
  BY <1>4, <1>5, <1>6, <1>8, <1>9, <1>10 DEF LowEnds

\* Where zonelow_expand() puts the EBDA: below the new space, which begins
\* below the EBDA's old end.
BottomOK(m, b) ==
  /\ b \in 2 .. Layout.top /\ b < EbdaEnd(m)
  /\ NewEbda(b) \in Nat /\ NewEbda(b) + Layout.ebdasize <= b
  /\ NewEbda(b) < m.ebda /\ Layout.ebdaminimum <= NewEbda(b)

\* zonelow_expand()'s arithmetic finds room that begins below the EBDA's old end.
LEMMA BottomIs ==
  ASSUME Layout \in Layouts, ~UPPERMEMORY, NEW m, MemoryOK(m, Layout),
         NEW size, NEW align, SizeOK(size, align), ~Fits(LowestLow(m), size, align),
         ~(NewEbda(NewBottom(m, size, align)) < Layout.ebdaminimum),
         ~(NewTop(m) < size), ~(NewBottom(m, size, align) < Layout.ebdasize)
  PROVE  BottomOK(m, NewBottom(m, size, align))
<1> DEFINE e == LowestLow(m)
           x == IF EbdaAdjoins(m) THEN e.end ELSE EbdaEnd(m)
           b == NewBottom(m, size, align)
           c == ALIGN_DOWN((x - size) % Word, align)
<1>1. LowEnds(m, e)
  BY LowEndsAre
<1>2. TopOK(Layout.top) /\ Kb \in Nat \ {0} /\ Layout.ebdaminimum \in 2 .. Layout.top
  BY LayoutFacts DEF AddressesOK
<1>3. Layout.top \in Nat /\ Layout.top < Word /\ Word \in Nat
  BY <1>2 DEF TopOK
<1>4. size \in Nat \ {0} /\ align \in Nat \ {0}
  BY DEF SizeOK
<1>5. ~(x < size) /\ ~(b < Layout.ebdasize)
  BY DEF NewTop
<1>6. /\ e.size = 0 /\ e.start <= e.end /\ e.start \in 2 .. Layout.top
      /\ e.end \in 2 .. Layout.top /\ EbdaEnd(m) <= e.start
      /\ EbdaEnd(m) \in 2 .. Layout.top /\ EbdaEnd(m) = m.ebda + Layout.ebdasize
      /\ m.ebda \in Nat /\ Layout.ebdasize \in Nat /\ Layout.ebdaminimum <= m.ebda
  BY <1>1 DEF LowEnds
<1>7. b = ALIGN_DOWN(c, Kb)
  BY DEF NewBottom, NewTop
<1>8. EbdaAdjoins(m) => EbdaEnd(m) = e.start + e.size
  BY DEF EbdaAdjoins
<1>9. EbdaAdjoins(m) => Cut(e, size, align) = c
  BY DEF Cut
<1>10. ~Fits(e, size, align)
  OBVIOUS
<1> DEFINE ebdaend == EbdaEnd(m)
           adjoins == EbdaAdjoins(m)
<1>11. x = IF adjoins THEN e.end ELSE ebdaend
  OBVIOUS
<1> HIDE DEF e, x, b, c, ebdaend, adjoins
<1>12. x \in Nat /\ x < Word /\ EbdaEnd(m) <= x /\ x <= Layout.top
  BY <1>3, <1>6, <1>11 DEF ebdaend
<1>13. size <= x
  BY <1>4, <1>5, <1>12
<1>14. /\ c \in Nat /\ b \in Nat /\ b <= c /\ c <= x - size
       /\ x - size <= b + align + Kb - 2
  BY <1>2, <1>3, <1>4, <1>7, <1>12, <1>13, AlignedTwice DEF c
<1>15. Layout.ebdasize <= b
  BY <1>5, <1>6, <1>14
<1>16. b < ebdaend
  <2>1. CASE ~adjoins
    BY <1>4, <1>6, <1>11, <1>14, <2>1 DEF ebdaend
  <2>2. CASE adjoins
    <3>1. Cut(e, size, align) = c /\ ebdaend = e.start + e.size /\ x = e.end
      BY <1>8, <1>9, <1>11, <2>2 DEF adjoins, ebdaend
    <3>2. c <= e.end
      BY <1>4, <1>12, <1>14, <3>1
    <3>3. ~(c >= e.start + e.size)
      BY <1>10, <3>1, <3>2 DEF Fits
    <3> QED
      BY <1>3, <1>6, <1>14, <3>1, <3>3
  <2> QED
    BY <2>1, <2>2
<1>17. NewEbda(b) \in Nat /\ NewEbda(b) <= b - Layout.ebdasize
  <2> DEFINE y == b - Layout.ebdasize
  <2>1. y \in Nat /\ y < Word /\ -Word <= y
    BY <1>3, <1>6, <1>14, <1>15, <1>12, <1>4
  <2>2. NewEbda(b) = ALIGN_DOWN(y % Word, Kb)
    BY DEF NewEbda
  <2> HIDE DEF y
  <2>3. y % Word = y
    <3>1. y \in Int /\ y >= 0 /\ y < Word /\ Word \in Nat
      BY <1>3, <2>1
    <3> QED
      BY <3>1, SMTT(20)
  <2>4. NewEbda(b) \in Nat /\ NewEbda(b) <= y
    BY <1>2, <2>1, <2>2, <2>3, AlignedDown
  <2> QED
    BY <2>4 DEF y
<1>18. Layout.ebdaminimum <= NewEbda(b)
  <2>1. ~(NewEbda(b) < Layout.ebdaminimum)
    BY DEF b
  <2> QED
    BY <1>2, <1>3, <1>17, <2>1
<1>19. b \in 2 .. Layout.top
  BY <1>2, <1>3, <1>4, <1>6, <1>12, <1>14, <1>17, <1>18
<1>20. NewEbda(b) + Layout.ebdasize <= b /\ NewEbda(b) < m.ebda
  BY <1>6, <1>14, <1>16, <1>17 DEF ebdaend
<1> QED
  BY <1>16, <1>17, <1>18, <1>19, <1>20 DEF BottomOK, b, ebdaend

\* ZoneLow and the EBDA may have moved; all else is as it was.
GrownOK(m, n) == MemoryOK(n, Layout) /\ SameBlocks(m, n) /\ LowKept(m, n, Layout)

\* ZoneLow grows into the place the EBDA had, and nothing else changes.
LEMMA GrownKeeps ==
  ASSUME Layout \in Layouts, ~UPPERMEMORY, NEW m, MemoryOK(m, Layout), EbdaMovable(m),
         NEW b, BottomOK(m, b)
  PROVE  GrownOK(m, Grown(m, b))
<1> DEFINE e == LowestLow(m)
           f == NewEbda(b)
           lo == f + Layout.ebdasize
           hi == Layout.varlow
           zs == m.zones
           top == Layout.top
           moved == [m EXCEPT !.ebda = f % SegWord, !.lowram = f % KbWord]
           mm == [zones |-> zs, handle |-> m.handle, ebda |-> f, lowram |-> f]
           T == AllTags(zs)
<1>1. LowEnds(m, e)
  BY LowEndsAre
<1>2. AddressesOK(Layout) /\ TopOK(top) /\ "Low" \in Zone
  BY LayoutFacts DEF AddressesOK, Zone
<1>3. /\ IsMemory(m) /\ ZonesOK(zs, top) /\ HandlesOK(m.handle, top)
      /\ Books(T) /\ Settled(T) /\ Placed(m, Layout)
      /\ EbdaOK(m, Layout) /\ HasBase(zs["Low"])
      /\ Between(zs["Low"], LowFloor(m, Layout), hi)
      /\ \A z \in Zone \ {"Low"} : Covered(zs[z]) = Given(Layout, z)
  BY DEF MemoryOK, Whole, Placed
<1>4. /\ e.size = 0 /\ e.start <= e.end /\ e.start \in 2 .. top
      /\ e.end \in 2 .. top /\ EbdaEnd(m) <= e.start
      /\ EbdaEnd(m) \in 2 .. top /\ EbdaEnd(m) = m.ebda + Layout.ebdasize
      /\ m.ebda \in Nat /\ Layout.ebdasize \in Nat /\ EbdaEnd(m) <= hi
      /\ e = Lowest(zs["Low"])
  BY <1>1 DEF LowEnds
<1>5. /\ b \in 2 .. top /\ b < EbdaEnd(m) /\ f \in Nat /\ lo <= b
      /\ f < m.ebda /\ Layout.ebdaminimum <= f
  BY DEF BottomOK
<1>6. f % SegWord = f /\ f % KbWord = f
  <2>1. f < FirstEbda(Layout) /\ FirstEbda(Layout) \in Nat
    BY <1>2, <1>3, <1>4, <1>5 DEF EbdaOK, AddressesOK, TopOK
  <2>2. SegWord \in Nat /\ KbWord \in Nat /\ FirstEbda(Layout) <= SegWord
        /\ FirstEbda(Layout) <= KbWord
    BY <1>2 DEF AddressesOK
  <2> HIDE DEF f
  <2>3. f \in Int /\ f >= 0 /\ f < SegWord /\ -SegWord <= f /\ f < KbWord /\ -KbWord <= f
    BY <1>5, <2>1, <2>2
  <2> QED
    BY <2>2, <2>3, Wraps
<1>7. moved = mm
  <2> HIDE DEF f
  <2>1. [m EXCEPT !.ebda = f, !.lowram = f] = mm
    BY <1>3, MemoryWith, Zenon
  <2> QED
    BY <1>6, <2>1, Zenon
<1>8. Grown(m, b) = IF EbdaAdjoins(m)
                    THEN [moved EXCEPT !.zones["Low"][Len(m.zones["Low"])].start = b]
                    ELSE alloc_add(moved, "Low", b, EbdaEnd(m))
  BY DEF Grown
<1> HIDE DEF moved
<1>9. mm.zones = zs /\ mm.handle = m.handle /\ mm.ebda = f /\ mm.lowram = f /\ IsMemory(mm)
  BY DEF IsMemory
<1> DEFINE zt == [zs EXCEPT !["Low"] = Restarted(zs["Low"], b)]
<1>10. EbdaAdjoins(m) => Grown(m, b) = [mm EXCEPT !.zones = zt]
  <2>1. [mm EXCEPT !.zones["Low"][Len(m.zones["Low"])].start = b] = [mm EXCEPT !.zones = zt]
    BY DEF Restarted
  <2> QED
    BY <1>7, <1>8, <2>1
<1>11. ~EbdaAdjoins(m) => Grown(m, b) = alloc_add(mm, "Low", b, EbdaEnd(m))
  BY <1>7, <1>8
<1>12. lo \in Nat /\ hi \in Nat /\ hi \in 2 .. top /\ top \in Nat /\ Layout.ebdaminimum <= lo
       /\ Layout.ebdaminimum \in Nat /\ lo <= EbdaEnd(m)
  <2>1. hi \in 2 .. top /\ Layout.ebdaminimum \in 2 .. top /\ top \in Nat
    BY <1>2 DEF AddressesOK, TopOK
  <2>2. Layout.ebdaminimum <= f
    BY <1>5
  <2> HIDE DEF f
  <2> QED
    BY <1>4, <1>5, <2>1, <2>2
<1>13. EbdaOK(mm, Layout)
  <2>1. Layout.ebdaminimum <= f /\ m.ebda <= FirstEbda(Layout)
    BY <1>3, <1>5 DEF EbdaOK
  <2>2. FirstEbda(Layout) \in Nat
    BY <1>2 DEF AddressesOK, TopOK
  <2> HIDE DEF f
  <2>3. f <= FirstEbda(Layout) /\ Layout.ebdaminimum <= f
    BY <1>4, <1>5, <1>12, <2>1, <2>2
  <2> QED
    BY <1>5, <1>9, <2>3 DEF EbdaOK
<1>14. Whole(mm, top)
  BY <1>3, <1>9 DEF Whole
<1>15. LowFloor(m, Layout) = EbdaEnd(m) /\ \A n : n.ebda = f => LowFloor(n, Layout) = lo
  BY DEF LowFloor, EbdaEnd, UPPERMEMORY
<1> HIDE DEF mm, zt, e, f, lo, hi
<1>16. Between(zs["Low"], lo, hi)
  <2>1. ListOK(zs["Low"], top)
    BY <1>2, <1>3 DEF ZonesOK
  <2>2. EbdaEnd(m) \in Nat /\ Between(zs["Low"], EbdaEnd(m), hi)
    BY <1>3, <1>4, <1>12, <1>15
  <2> QED
    BY <1>12, <2>1, <2>2, BetweenWider
<1>17. \A y \in Zone : y # "Low" => \A x \in Covered(zs[y]) :
         x \in Int /\ (x < Layout.ebdaminimum \/ hi <= x)
  BY <1>3, OthersOutside DEF hi
<1>18. /\ m.ebda \in Nat /\ f \in Nat /\ f <= m.ebda /\ EbdaEnd(m) = m.ebda + Layout.ebdasize
       /\ m.ebda = m.lowram
  BY <1>4, <1>5 DEF EbdaMovable
<1>19. ASSUME EbdaAdjoins(m) PROVE GrownOK(m, Grown(m, b))
  <2> DEFINE n == [mm EXCEPT !.zones = zt]
  <2>1. NoneWithin(zs, lo, hi)
    BY <1>12, <1>17 DEF NoneWithin
  <2>2. b \in 2 .. Lowest(zs["Low"]).end
    BY <1>4, <1>5, <1>12
  <2>3. RestartedIn(zs, zt, lo, hi, top)
    BY <1>2, <1>3, <1>5, <1>12, <1>16, <2>1, <2>2, RestartInZones DEF zt
  <2>4. n = [zones |-> zt, handle |-> mm.handle, ebda |-> mm.ebda, lowram |-> mm.lowram]
    BY <1>9, MemoryWith, Zenon
  <2> HIDE DEF n
  <2>5. n.zones = zt /\ n.handle = m.handle /\ n.ebda = f /\ n.lowram = f /\ IsMemory(n)
    BY <1>9, <2>4 DEF IsMemory
  <2>6. /\ ZonesOK(zt, top) /\ Books(AllTags(zt)) /\ Settled(AllTags(zt))
        /\ HasBase(zt["Low"]) /\ Between(zt["Low"], lo, hi)
        /\ \A y \in Zone : y # "Low" => zt[y] = zs[y]
        /\ BlocksOf(AllTags(zt)) = BlocksOf(T)
    BY <2>3 DEF RestartedIn
  <2>7. Whole(n, top)
    BY <1>3, <2>5, <2>6 DEF Whole
  <2>8. EbdaOK(n, Layout)
    BY <1>9, <1>13, <2>5 DEF EbdaOK
  <2>9. Placed(n, Layout)
    BY <1>3, <1>15, <2>5, <2>6, <2>8 DEF Placed, hi
  <2>10. SameBlocks(m, n)
    BY <2>5, <2>6 DEF SameBlocks
  <2>11. Grown(m, b) = n
    BY <1>10, <1>19 DEF n
  <2>12. \A x \in Covered(zt["Low"]) : x \in Covered(zs["Low"])
                                        \/ (x \in Int /\ x < EbdaEnd(m))
    <3>1. EbdaEnd(m) = Lowest(zs["Low"]).start
      <4>1. EbdaEnd(m) = e.start + e.size
        BY <1>19 DEF EbdaAdjoins, e
      <4>2. e.start \in Int /\ e.size = 0 /\ e = Lowest(zs["Low"])
        BY <1>4
      <4> QED
        BY <4>1, <4>2
    <3>2. zt["Low"] = Restarted(zs["Low"], b)
      <4>1. zs = [z \in Zone |-> zs[z]]
        BY <1>3 DEF ZonesOK
      <4> QED
        BY <1>2, <4>1 DEF zt
    <3>3. ListOK(zs["Low"], top) /\ Tags(zs["Low"]) # {}
      BY <1>2, <1>3 DEF ZonesOK, HasBase
    <3> QED
      BY <1>2, <2>2, <3>1, <3>2, <3>3, RestartedBytes
  <2>13. LowKept(m, n, Layout)
    BY <1>18, <2>5, <2>12 DEF LowKept, UPPERMEMORY
  <2> QED
    BY <2>7, <2>9, <2>10, <2>11, <2>13 DEF GrownOK, MemoryOK
<1>20. ASSUME ~EbdaAdjoins(m) PROVE GrownOK(m, Grown(m, b))
  <2> DEFINE n == alloc_add(mm, "Low", b, EbdaEnd(m))
             x == EbdaEnd(m)
  <2>1. RegionOK(b, x, top)
    BY <1>4, <1>5, <1>12 DEF RegionOK
  <2>2. Above(zs["Low"], x)
    BY <1>3, <1>15 DEF Above, Between
  <2>3. ApartFromOthers(zs, "Low", b, x)
    <3>1. ASSUME NEW y \in Zone, y # "Low", NEW w \in b .. x - 1, w \in Covered(zs[y])
          PROVE  FALSE
      <4>1. w \in Int /\ (w < Layout.ebdaminimum \/ hi <= w)
        BY <1>17, <3>1
      <4>2. b <= w /\ w < x /\ b \in Int /\ x \in Int
        BY <1>4, <1>5, <1>12, <3>1
      <4> QED
        BY <1>4, <1>5, <1>12, <4>1, <4>2
    <3> QED
      BY <3>1 DEF ApartFromOthers
  <2>4. AddedOK(mm, n, "Low", b, x, top)
    BY <1>2, <1>9, <1>14, <2>1, <2>2, <2>3, AllocAdd
  <2>5. Grown(m, b) = n
    BY <1>11, <1>20
  <2> HIDE DEF n, x
  <2>6. CASE n = mm
    <3>1. LowFloor(mm, Layout) = lo
      BY <1>9, <1>15
    <3>2. Placed(mm, Layout)
      BY <1>3, <1>9, <1>13, <1>16, <3>1 DEF Placed, hi
    <3>3. LowKept(m, mm, Layout)
      BY <1>9, <1>18 DEF LowKept, UPPERMEMORY
    <3> QED
      BY <1>9, <1>14, <2>5, <2>6, <3>2, <3>3 DEF GrownOK, MemoryOK, SameBlocks
  <2>7. CASE Whole(n, top) /\ GrewBy(mm, n, "Low", b, x)
    <3>1. /\ n.ebda = f /\ n.lowram = f
          /\ BlocksOf(AllTags(n.zones)) = BlocksOf(T)
          /\ \A y \in Zone : y # "Low" => Covered(n.zones[y]) = Covered(zs[y])
          /\ HasBase(n.zones["Low"])
          /\ \A u, v \in Nat : Between(zs["Low"], u, v) /\ u <= b /\ x <= v
                                 => Between(n.zones["Low"], u, v)
      BY <1>9, <2>7 DEF GrewBy, SameMemory
    <3>2. Between(n.zones["Low"], lo, hi)
      BY <1>4, <1>5, <1>12, <1>16, <3>1 DEF x
    <3>3. LowFloor(n, Layout) = lo
      BY <1>15, <3>1
    <3>4. EbdaOK(n, Layout)
      BY <1>9, <1>13, <3>1 DEF EbdaOK
    <3>5. Placed(n, Layout)
      BY <1>3, <3>1, <3>2, <3>3, <3>4 DEF Placed, hi
    <3>6. \A y \in Covered(n.zones["Low"]) : y \in Covered(zs["Low"])
                                              \/ (y \in Int /\ y < EbdaEnd(m))
      <4>1. Covered(n.zones["Low"]) = Covered(zs["Low"]) \cup (b .. x - 1)
        BY <1>9, <2>7 DEF GrewBy
      <4>2. b \in Int /\ x \in Int /\ x = EbdaEnd(m)
        BY <1>4, <1>5 DEF x
      <4> QED
        BY <4>1, <4>2
    <3>7. LowKept(m, n, Layout)
      BY <1>18, <3>1, <3>6 DEF LowKept, UPPERMEMORY
    <3> QED
      BY <2>5, <2>7, <3>1, <3>5, <3>7 DEF GrownOK, MemoryOK, SameBlocks
  <2> QED
    BY <2>4, <2>6, <2>7 DEF AddedOK
<1> QED
  BY <1>19, <1>20

\* A call that fails changes nothing.
LEMMA NothingReserved ==
  ASSUME NEW l, NEW m, MemoryOK(m, l), NEW size, NEW align
  PROVE  ReservedOK(m, Failed(m), size, align, l) /\ ResultOK(m, Failed(m), size, align, l)
         /\ Failed(m) = [m |-> Failed(m).m, data |-> Failed(m).data]
<1>1. Failed(m).m = m /\ Failed(m).data = 0
      /\ Failed(m) = [m |-> Failed(m).m, data |-> Failed(m).data]
  BY DEF Failed
<1>2. LowKept(m, m, l)
  BY LowKeptHere DEF MemoryOK
<1> QED
  BY <1>1, <1>2 DEF ReservedOK, ResultOK, SameBlocks

\* What reserving returns has a state and an address.
LEMMA ReserveFields ==
  ASSUME NEW m, NEW z, NEW size, NEW align
  PROVE  ReserveIn(m, z, size, align) =
           [m |-> ReserveIn(m, z, size, align).m, data |-> ReserveIn(m, z, size, align).data]
BY DEF ReserveIn, Reserved

\* Only ZoneLow can be overdrawn.
LEMMA OnlyLow ==
  ASSUME NEW m, NEW z, z # "Low", NEW size, NEW align
  PROVE  ~Overdraws(m, z, size, align)
BY DEF Overdraws

\* zonelow_expand() reserves from ZoneLow, as it is or grown.
LEMMA ExpandKeeps ==
  ASSUME Layout \in Layouts, ~UPPERMEMORY, NEW m, MemoryOK(m, Layout),
         NEW size, NEW align, SizeOK(size, align),
         ReserveIn(m, "Low", size, align).data = 0, ~Overdraws(m, "Low", size, align)
  PROVE  /\ ReservedOK(m, zonelow_expand(m, size, align), size, align, Layout)
         /\ zonelow_expand(m, size, align) =
              [m |-> zonelow_expand(m, size, align).m,
               data |-> zonelow_expand(m, size, align).data]
<1> DEFINE r == zonelow_expand(m, size, align)
           b == NewBottom(m, size, align)
           g == Grown(m, b)
<1>1. m.zones["Low"] # <<>> /\ "Low" \in Zone
  BY LowEndsAre DEF Zone
<1>2. CASE Fits(LowestLow(m), size, align)
  <2>1. r = ReserveIn(m, "Low", size, align)
    BY <1>1, <1>2 DEF zonelow_expand
  <2> QED
    BY <1>1, <2>1, ReserveKeeps, ReserveFields
<1>3. CASE ~Fits(LowestLow(m), size, align)
  <2>1. r = IF NewEbda(b) < Layout.ebdaminimum \/ ~EbdaMovable(m) THEN Failed(m)
            ELSE ReserveIn(g, "Low", size, align)
    BY <1>1, <1>3 DEF zonelow_expand
  <2> HIDE DEF r
  <2>2. CASE NewEbda(b) < Layout.ebdaminimum \/ ~EbdaMovable(m)
    BY <2>1, <2>2, NothingReserved DEF r
  <2>3. CASE ~(NewEbda(b) < Layout.ebdaminimum \/ ~EbdaMovable(m))
    <3>1. r = ReserveIn(g, "Low", size, align)
      BY <2>1, <2>3
    <3>3. BottomOK(m, b)
      <4>2. size # 0
        BY DEF SizeOK
      <4>3. ~(NewTop(m) < size \/ b < Layout.ebdasize)
        BY <1>1, <2>3, <4>2 DEF Overdraws
      <4> QED
        BY <1>3, <2>3, <4>3, BottomIs
    <3> HIDE DEF b
    <3>4. GrownOK(m, g)
      BY <2>3, <3>3, GrownKeeps
    <3> HIDE DEF g
    <3>5. ReservedOK(g, ReserveIn(g, "Low", size, align), size, align, Layout)
      BY <1>1, <3>4, ReserveKeeps DEF GrownOK
    <3>6. ReservedOK(m, ReserveIn(g, "Low", size, align), size, align, Layout)
      <4>1. Layout.ebdasize \in Nat
        BY LayoutFacts DEF AddressesOK
      <4>2. LowKept(m, ReserveIn(g, "Low", size, align).m, Layout)
        BY <3>4, <3>5, <4>1, LowKeptTwice DEF ReservedOK, GrownOK
      <4> QED
        BY <3>4, <3>5, <4>2 DEF ReservedOK, GrownOK, SameBlocks
    <3> QED
      BY <3>1, <3>6, ReserveFields DEF r
  <2> QED
    BY <2>2, <2>3
<1> QED
  BY <1>2, <1>3

\* malloc_palloc() returns nothing, or a block that it has added to the others.
LEMMA PallocKeeps ==
  ASSUME Layout \in Layouts, NEW m, MemoryOK(m, Layout), NEW z \in Zone,
         NEW size, NEW align, Askable(size, align), ~Overdraws(m, z, size, align)
  PROVE  ResultOK(m, malloc_palloc(m, z, size, align), size, align, Layout)
<1> DEFINE r == ReserveIn(m, z, size, align)
           s == Reservation(m, z, size, align, r)
<1>1. CASE size = 0
  BY <1>1, NothingReserved DEF malloc_palloc
<1>2. CASE size # 0
  <2>1. SizeOK(size, align)
    BY <1>2 DEF Askable, SizeOK
  <2>2. ReservedOK(m, s, size, align, Layout) /\ s = [m |-> s.m, data |-> s.data]
    <3>1. CASE r.data = 0 /\ ~UPPERMEMORY /\ z = "Low"
      <4>1. s = zonelow_expand(m, size, align)
        BY <3>1 DEF Reservation
      <4> QED
        BY <2>1, <3>1, <4>1, ExpandKeeps
    <3>2. CASE ~(r.data = 0 /\ ~UPPERMEMORY /\ z = "Low")
      <4>1. s = r
        BY <3>2 DEF Reservation
      <4> QED
        BY <2>1, <4>1, ReserveKeeps, ReserveFields
    <3> QED
      BY <3>1, <3>2
  <2>3. malloc_palloc(m, z, size, align) = TrackIfAny(s)
    BY <1>2 DEF malloc_palloc
  <2> HIDE DEF s
  <2> QED
    BY <2>1, <2>2, <2>3, TrackKeeps
<1> QED
  BY <1>1, <1>2

----------------------------------------------------------------------------
(* Searching and freeing.                                                  *)

\* A description describes one range.
LEMMA TagsUnique ==
  ASSUME NEW top, TopOK(top), NEW zs, ZonesOK(zs, top),
         NEW t \in AllTags(zs), NEW u \in AllTags(zs), t.at = u.at
  PROVE  t = u
<1>1. PICK y \in Zone : t \in Tags(zs[y])
  BY DEF AllTags
<1>2. PICK z \in Zone : u \in Tags(zs[z])
  BY DEF AllTags
<1>3. y = z
  BY <1>1, <1>2 DEF ZonesOK
<1>4. ListOK(zs[y], top)
  BY DEF ZonesOK
<1> QED
  BY <1>1, <1>2, <1>3, <1>4, TagFacts

\* A range of the zones has its tag.
LEMMA RangeTags ==
  ASSUME NEW top, NEW zs, ZonesOK(zs, top), NEW e \in Ranges(zs)
  PROVE  Tag(e) \in AllTags(zs) /\ e \in Raw(top)
<1>1. PICK z \in Zone : \E i \in DOMAIN zs[z] : e = zs[z][i]
  BY DEF Ranges
<1>2. zs[z] \in Seq(Raw(top))
  BY DEF ZonesOK, ListOK
<1>3. DOMAIN zs[z] = 1 .. Len(zs[z])
  BY <1>2
<1>4. PICK i \in 1 .. Len(zs[z]) : e = zs[z][i]
  BY <1>1, <1>3
<1>5. e \in Raw(top)
  BY <1>2, <1>4
<1>6. Tag(e) \in Tags(zs[z])
  BY <1>4 DEF Tags
<1> QED
  BY <1>5, <1>6 DEF AllTags

\* A search finds one of the ranges it is for.
LEMMA FirstOfIs ==
  ASSUME NEW top, NEW zs, ZonesOK(zs, top), NEW S, S # {}, S \subseteq Ranges(zs)
  PROVE  FirstOf(zs, S) \in S
<1> DEFINE places(n) == {i \in DOMAIN zs[Zones[n]] : zs[Zones[n]][i] \in S}
           N == {k \in DOMAIN Zones : places(k) # {}}
           n == Min(N)
<1>1. DOMAIN Zones = 1 .. 5 /\ \A z \in Zone : \E k \in 1 .. 5 : Zones[k] = z
  BY DEF Zones, Zone
<1>2. N # {}
  <2>1. PICK e \in S : e \in Ranges(zs)
    OBVIOUS
  <2>2. PICK z \in Zone : \E i \in DOMAIN zs[z] : e = zs[z][i]
    BY <2>1 DEF Ranges
  <2>3. PICK k \in 1 .. 5 : Zones[k] = z
    BY <1>1
  <2>4. places(k) # {}
    BY <2>1, <2>2, <2>3
  <2> HIDE DEF places
  <2>5. k \in N
    BY <1>1, <2>4
  <2> QED
    BY <2>5
<1>3. N \in SUBSET Nat
  <2> HIDE DEF places
  <2> QED
    BY <1>1
<1>4. n \in N
  <2> HIDE DEF N
  <2> QED
    BY <1>2, <1>3, MinOf
<1>5. \A k \in 1 .. 5 : Zones[k] \in Zone
  BY DEF Zones, Zone
<1> HIDE DEF n
<1>6. n \in 1 .. 5 /\ places(n) # {}
  <2> HIDE DEF places
  <2> QED
    BY <1>1, <1>4
<1>7. zs[Zones[n]] \in Seq(Raw(top))
  BY <1>5, <1>6 DEF ZonesOK, ListOK
<1>8. places(n) \in SUBSET Nat
  BY <1>7
<1> DEFINE P == places(n)
<1>9. P # {} /\ P \in SUBSET Nat
  BY <1>6, <1>8
<1>10. \A i \in P : zs[Zones[n]][i] \in S
  OBVIOUS
<1> HIDE DEF P
<1>11. Min(P) \in P
  BY <1>9, MinOf
<1>12. zs[Zones[n]][Min(P)] \in S
  BY <1>10, <1>11
<1>13. FirstOf(zs, S) = zs[Zones[n]][Min(P)]
  BY DEF FirstOf, n, P
<1> QED
  BY <1>12, <1>13

\* free() took away the block at data.
FreeOK(m, n, data, l) ==
  /\ MemoryOK(n, l)
  /\ LowKept(m, n, l)
  /\ \E b \in BlocksOf(AllTags(m.zones)) :
       b.start = data /\ BlocksOf(AllTags(n.zones)) = BlocksOf(AllTags(m.zones)) \ {b}

\* malloc_pfree() takes away a block with its bookkeeping, and nothing else.
LEMMA FreeKeeps ==
  ASSUME NEW l \in Layouts, NEW m, MemoryOK(m, l), NEW data, Known(m.zones, data)
  PROVE  FreeOK(m, malloc_pfree(m, data), data, l)
<1> DEFINE zs == m.zones
           top == l.top
           T == AllTags(zs)
           e == alloc_find(zs, data)
           t == Tag(e)
           d == DetailOf(zs, data)
           zt == FreeIn(zs, d + DataOff)
           zu == FreeIn(zt, d)
           hs == [a \in DOMAIN m.handle \ {d} |-> m.handle[a]]
           n == [m EXCEPT !.zones = zu, !.handle = hs]
<1>1. TopOK(top) /\ AddressesOK(l)
  BY LayoutFacts DEF AddressesOK
<1>2. /\ IsMemory(m) /\ ZonesOK(zs, top) /\ HandlesOK(m.handle, top)
      /\ Books(T) /\ Settled(T) /\ Placed(m, l)
  BY DEF MemoryOK, Whole
<1>3. malloc_pfree(m, data) = n
  BY DEF malloc_pfree
<1>4. e \in StartsAt(zs, data) /\ StartsAt(zs, data) \subseteq Ranges(zs)
  <2>1. StartsAt(zs, data) # {} /\ StartsAt(zs, data) \subseteq Ranges(zs)
    BY DEF Known, StartsAt
  <2>2. FirstOf(zs, StartsAt(zs, data)) \in StartsAt(zs, data)
    BY <1>2, <2>1, FirstOfIs
  <2> QED
    BY <2>1, <2>2 DEF alloc_find
<1>5. e.start = data /\ data # e.at /\ e.size # 0
  BY <1>4 DEF Known, StartsAt
<1>6. d = e.at - DataOff
  BY DEF DetailOf
<1>7. t \in T /\ e \in Raw(top)
  BY <1>2, <1>4, RangeTags
<1> HIDE DEF e, d
<1>8. t.start = e.start /\ t.size = e.size /\ t.at = e.at
  BY DEF Tag
<1> HIDE DEF t, T
<1>9. t.size > 0 /\ t.at >= 2 /\ t.at \in Nat /\ t.start # t.at
  <2>1. t.size \in 0 .. top /\ t.at \in 0 .. top /\ top \in Nat
    BY <1>1, <1>2, <1>7, AllTagFacts DEF T, TopOK
  <2>2. t.at >= 2
    BY <1>2, <1>7 DEF Settled
  <2> QED
    BY <1>5, <1>8, <2>1, <2>2
<1>10. PICK dt \in T : IsDetailTag(dt) /\ t.at = dt.at + DataOff
  <2>1. ~IsDetailTag(t) /\ t.at # TempData
    BY <1>9 DEF IsDetailTag, TempData
  <2> QED
    BY <1>2, <1>7, <2>1 DEF Books, Booked
<1>11. d = dt.at /\ d + DataOff = t.at /\ dt # t /\ dt.size > 0
  <2>1. dt.at \in 0 .. top /\ top \in Nat
    BY <1>1, <1>2, <1>10, AllTagFacts DEF T, TopOK
  <2> QED
    BY <1>6, <1>8, <1>9, <1>10, <2>1, DetailSizes DEF IsDetailTag
<1>12. FreedIn(zs, zt, t, top)
  BY <1>1, <1>2, <1>7, <1>9, <1>11, FreeInZones DEF T
<1> HIDE DEF zt
<1>13. ZonesOK(zt, top) /\ SameZones(zs, zt) /\ AllTags(zt) = T \ {t}
  BY <1>12 DEF FreedIn, T
<1>14. FreedIn(zt, zu, dt, top)
  <2>1. dt \in AllTags(zt)
    BY <1>10, <1>11, <1>13
  <2> QED
    BY <1>1, <1>11, <1>13, <2>1, FreeInZones
<1> HIDE DEF zu
<1>15. ZonesOK(zu, top) /\ SameZones(zs, zu) /\ AllTags(zu) = (T \ {t}) \ {dt}
  BY <1>13, <1>14, SameTwice DEF FreedIn
<1>16. n = [zones |-> zu, handle |-> hs, ebda |-> m.ebda, lowram |-> m.lowram]
  <2> HIDE DEF hs
  <2>1. n = [m EXCEPT !.zones = zu, !.handle = hs]
    OBVIOUS
  <2> HIDE DEF n
  <2> QED
    BY <1>2, <2>1, MemoryWith, Zenon
<1>17. HandlesOK(hs, top)
  BY <1>2 DEF HandlesOK
<1> HIDE DEF n, hs
<1>18. n.zones = zu /\ n.handle = hs /\ n.ebda = m.ebda /\ n.lowram = m.lowram /\ IsMemory(n)
  BY <1>16 DEF IsMemory
<1>19. Books(AllTags(zu))
  <2> SUFFICES ASSUME NEW u \in T, u # t, u # dt, u.at # TempData
               PROVE  Booked((T \ {t}) \ {dt}, u)
    BY <1>15 DEF Books
  <2>1. Booked(T, u)
    BY <1>2 DEF Books
  <2>2. CASE IsDetailTag(u)
    BY <2>2 DEF Booked
  <2>3. CASE ~IsDetailTag(u)
    <3>1. PICK v \in T : IsDetailTag(v) /\ u.at = v.at + DataOff
      BY <2>1, <2>3 DEF Booked
    <3>2. v # t
      BY <1>9, <3>1 DEF IsDetailTag
    <3>3. v # dt
      <4>1. ASSUME v = dt PROVE FALSE
        <5>1. u.at = t.at
          BY <1>10, <3>1, <4>1
        <5> QED
          BY <1>1, <1>2, <1>7, <5>1, TagsUnique DEF T
      <4> QED
        BY <4>1
    <3> QED
      BY <3>1, <3>2, <3>3 DEF Booked
  <2> QED
    BY <2>2, <2>3
<1>20. Settled(AllTags(zu))
  BY <1>2, <1>15 DEF Settled
<1>21. Whole(n, top)
  BY <1>15, <1>17, <1>18, <1>19, <1>20 DEF Whole
<1>22. Placed(n, l)
  BY <1>1, <1>2, <1>15, <1>18, PlacedSame
<1> DEFINE b == [start |-> t.start, size |-> t.size]
<1>23. b \in BlocksOf(T) /\ BlocksOf((T \ {t}) \ {dt}) = BlocksOf(T) \ {b}
  <2>1. IsBlock(t) /\ ~IsBlock(dt)
    BY <1>9, <1>10 DEF IsBlock, IsDetailTag
  <2>2. \A u \in T : u # t /\ IsBlock(u) => u.start # t.start
    <3> SUFFICES ASSUME NEW u \in T, u # t, IsBlock(u), u.start = t.start PROVE FALSE
      OBVIOUS
    <3>1. u.at # t.at
      BY <1>1, <1>2, <1>7, TagsUnique DEF T
    <3>2. t.start + t.size <= u.start \/ u.start + u.size <= t.start
      BY <1>1, <1>2, <1>7, <1>9, <3>1, ApartInUse DEF T, IsBlock
    <3>3. u.start \in 2 .. top /\ u.size \in 0 .. top /\ t.size \in 0 .. top /\ top \in Nat
      BY <1>1, <1>2, <1>7, AllTagFacts DEF T, TopOK
    <3> QED
      BY <1>9, <3>2, <3>3 DEF IsBlock
  <2>3. b \in BlocksOf(T)
    BY <1>7, <2>1 DEF BlocksOf
  <2>4. ASSUME NEW x \in BlocksOf(T), x # b PROVE x \in BlocksOf((T \ {t}) \ {dt})
    <3>1. PICK u \in T : IsBlock(u) /\ x = [start |-> u.start, size |-> u.size]
      BY DEF BlocksOf
    <3>2. u # t /\ u # dt
      BY <2>1, <2>4, <3>1
    <3> QED
      BY <3>1, <3>2 DEF BlocksOf
  <2>5. ASSUME NEW x \in BlocksOf((T \ {t}) \ {dt}) PROVE x \in BlocksOf(T) /\ x # b
    <3>1. PICK u \in (T \ {t}) \ {dt} :
            IsBlock(u) /\ x = [start |-> u.start, size |-> u.size]
      BY DEF BlocksOf
    <3>2. x.start = u.start /\ b.start = t.start
      BY <3>1
    <3> HIDE DEF b
    <3>3. x # b
      BY <2>2, <3>1, <3>2
    <3> QED
      BY <3>1, <3>3 DEF BlocksOf
  <2> HIDE DEF b
  <2> QED
    BY <2>3, <2>4, <2>5
<1>24. b.start = data
  BY <1>5, <1>8
<1>25. LowKept(m, n, l)
  BY <1>2, <1>15, <1>18, LowKeptSame
<1> HIDE DEF b
<1> QED
  BY <1>3, <1>15, <1>18, <1>21, <1>22, <1>23, <1>24, <1>25 DEF FreeOK, MemoryOK, T

----------------------------------------------------------------------------
(* Handles and option roms.                                                *)

\* The state n has the blocks of m, and is as sound.
KeepsBlocks(m, n, l) == MemoryOK(n, l) /\ SameBlocks(m, n)

\* Handles aside, the state n is m.
SameMap(m, n) == n.zones = m.zones /\ n.ebda = m.ebda /\ n.lowram = m.lowram

\* malloc_sethandle() changes no range.
LEMMA HandleKeeps ==
  ASSUME NEW l \in Layouts, NEW m, MemoryOK(m, l), NEW data,
         NEW h \in Handles \cup {DefaultHandle}
  PROVE  KeepsBlocks(m, malloc_sethandle(m, data, h), l)
         /\ SameMap(m, malloc_sethandle(m, data, h))
<1> DEFINE d == DetailOf(m.zones, data)
           hs == [m.handle EXCEPT ![d] = h]
           n == [m EXCEPT !.handle[d] = h]
<1>1. IsMemory(m) /\ HandlesOK(m.handle, l.top) /\ Placed(m, l) /\ AddressesOK(l)
  BY LayoutFacts DEF MemoryOK, Whole
<1>2. malloc_sethandle(m, data, h) = n \/ malloc_sethandle(m, data, h) = m
  BY DEF malloc_sethandle
<1> HIDE DEF d
<1>3. HandlesOK(hs, l.top)
  BY <1>1 DEF HandlesOK
<1>4. n = [zones |-> m.zones, handle |-> hs, ebda |-> m.ebda, lowram |-> m.lowram]
  <2>1. n = [m EXCEPT !.handle = hs]
    OBVIOUS
  <2> HIDE DEF n, hs
  <2> QED
    BY <1>1, <2>1, MemoryWith, Zenon
<1> HIDE DEF n, hs
<1>5. IsMemory(n) /\ n.zones = m.zones /\ n.handle = hs /\ n.ebda = m.ebda
      /\ n.lowram = m.lowram
  BY <1>4 DEF IsMemory
<1>6. MemoryOK(n, l) /\ SameBlocks(m, n)
  <2>1. Placed(n, l)
    BY <1>1, <1>5 DEF Placed, EbdaOK, LowFloor
  <2> QED
    BY <1>3, <1>5, <2>1 DEF MemoryOK, Whole, SameBlocks
<1> QED
  BY <1>2, <1>5, <1>6 DEF KeepsBlocks, SameBlocks, SameMap

\* ALIGN() goes up.
LEMMA AlignedUp ==
  ASSUME NEW x \in Nat, NEW a \in Nat \ {0}
  PROVE  ALIGN(x, a) \in Nat /\ x <= ALIGN(x, a)
<1>1. x + a - 1 \in Nat
  OBVIOUS
<1>2. ALIGN(x, a) = ALIGN_DOWN(x + a - 1, a)
  BY DEF ALIGN
<1>3. ALIGN_DOWN(x + a - 1, a) \in Nat /\ x + a - 1 < ALIGN_DOWN(x + a - 1, a) + a
  BY <1>1, AlignedDown
<1> QED
  BY <1>2, <1>3

\* Where a rom may end: there is a place for the lowest range of ZoneLow behind.
EndOK(m, newend, l) ==
  LET t == (IF newend < l.zonelow THEN l.zonelow ELSE newend) + HeaderReserve
  IN  l.upper => t \in 2 .. Lowest(m.zones["Low"]).end /\ LowStart(l) <= t

\* rom_get_max() leaves a place for ZoneLow behind the rom.
LEMMA RomEnds ==
  ASSUME Layout \in Layouts, NEW m, MemoryOK(m, Layout), NEW newend \in Nat,
         RoomForRom(m.zones, newend)
  PROVE  EndOK(m, newend, Layout) /\ newend <= Layout.top
<1> DEFINE e == Lowest(m.zones["Low"])
<1>1. AddressesOK(Layout) /\ Addressable(Layout)
  BY LayoutFacts
<1>2. Whole(m, Layout.top) /\ Placed(m, Layout) /\ "Low" \in Zone
  BY DEF MemoryOK, Zone
<1>3. ListOK(m.zones["Low"], Layout.top) /\ Tags(m.zones["Low"]) # {} /\ TopOK(Layout.top)
  BY <1>1, <1>2 DEF Whole, ZonesOK, Placed, HasBase, AddressesOK
<1>4. /\ e.end \in 2 .. Layout.top /\ e.start \in 2 .. Layout.top /\ e.start <= e.end
      /\ Len(m.zones["Low"]) \in 1 .. Len(m.zones["Low"])
  BY <1>3, LowestIsFree
<1>5. Layout.upper => LowStart(Layout) <= e.start
  BY <1>2, <1>4 DEF Placed, LowFloor, Between, Lowest
<1>6. /\ HeaderReserve \in Nat /\ RomAlign \in Nat \ {0} /\ Layout.top \in Nat
      /\ Layout.readonly \in 2 .. Layout.top /\ Layout.zonelow \in 2 .. Layout.top
  BY <1>1, <1>3, MallocAssumption DEF Addressable, TopOK
<1>7. newend <= rom_get_max(m.zones)
  BY DEF RoomForRom
<1>8. CASE Layout.upper
  <2>1. LowStart(Layout) = Layout.zonelow + HeaderReserve
    BY <1>8 DEF LowStart
  <2>2. rom_get_max(m.zones) = ALIGN_DOWN(e.end - HeaderReserve, RomAlign)
    BY <1>8 DEF rom_get_max, UPPERMEMORY, Lowest
  <2> HIDE DEF e
  <2> DEFINE z == Layout.zonelow
             f == e.end
             top == Layout.top
  <2>3. /\ z \in Int /\ 2 <= z /\ f \in Int /\ f <= top /\ top \in Int
        /\ HeaderReserve \in Nat /\ z + HeaderReserve <= f
    <3>1. e.start \in Int /\ e.start <= e.end /\ LowStart(Layout) <= e.start
      BY <1>4, <1>5, <1>6, <1>8
    <3>2. z \in Int /\ 2 <= z /\ f \in Int /\ f <= top /\ top \in Int
      BY <1>4, <1>6
    <3> HIDE DEF z, f, top
    <3>3. z + HeaderReserve <= e.start
      BY <2>1, <3>1 DEF z
    <3>4. e.start <= f
      BY <3>1 DEF f
    <3> QED
      BY <1>6, <3>1, <3>2, <3>3, <3>4
  <2> HIDE DEF z, f, top
  <2>4. ALIGN_DOWN(f - HeaderReserve, RomAlign) \in Nat
        /\ ALIGN_DOWN(f - HeaderReserve, RomAlign) <= f - HeaderReserve
    <3>1. f - HeaderReserve \in Nat
      BY <2>3
    <3> QED
      BY <1>6, <3>1, AlignedDown
  <2>5. newend + HeaderReserve <= f
    <3>1. newend <= ALIGN_DOWN(f - HeaderReserve, RomAlign)
      BY <1>7, <2>2 DEF f
    <3> QED
      BY <2>3, <2>4, <3>1
  <2> DEFINE t == (IF newend < z THEN z ELSE newend) + HeaderReserve
  <2>6. t \in 2 .. f /\ z + HeaderReserve <= t /\ newend <= top
    BY <2>3, <2>5
  <2> QED
    BY <2>1, <2>6 DEF EndOK, e, f, z, top
<1>9. CASE ~Layout.upper
  <2>1. rom_get_max(m.zones) = Layout.readonly
    BY <1>9 DEF rom_get_max, UPPERMEMORY
  <2> QED
    BY <1>6, <1>7, <1>9, <2>1 DEF EndOK
<1> QED
  BY <1>8, <1>9

\* No range of the list begins below start.
StartsFrom(l, start) == \A i \in 1 .. Len(l) : start <= l[i].start

\* The lowest range of a list is the last one.
LEMMA LowestIsLast ==
  ASSUME NEW top, TopOK(top), NEW l, ListOK(l, top), Tags(l) # {}
  PROVE  StartsFrom(l, Lowest(l).start)
<1> SUFFICES ASSUME NEW i \in 1 .. Len(l) PROVE Lowest(l).start <= l[i].start
  BY DEF StartsFrom
<1>1. l \in Seq(Raw(top)) /\ Len(l) \in 1 .. Len(l) /\ Lowest(l) = l[Len(l)]
  BY LowestIsFree DEF ListOK, Lowest
<1>2. /\ Lowest(l).start \in 2 .. top /\ Lowest(l).end \in 2 .. top
      /\ Lowest(l).start <= Lowest(l).end
  BY LowestIsFree
<1>3. l[i].start \in 2 .. top
  BY <1>1, RangeFacts DEF TopOK
<1>4. CASE i = Len(l)
  BY <1>1, <1>2, <1>4
<1>5. CASE i < Len(l)
  <2>1. l[Len(l)].end <= l[i].start
    BY <1>1, <1>5 DEF ListOK
  <2>2. Lowest(l).end <= l[i].start
    BY <1>1, <2>1
  <2>3. /\ Lowest(l).start \in Int /\ Lowest(l).end \in Int /\ l[i].start \in Int
    BY <1>2, <1>3
  <2> QED
    BY <1>2, <2>2, <2>3
<1> QED
  BY <1>1, <1>4, <1>5

\* ZoneLow ends up above newend, if roms share its area.
RomFits(n, newend, l) == l.upper => StartsFrom(n.zones["Low"], newend)

\* rom_reserve() moves the lowest address of ZoneLow only.
LEMMA RomKeeps ==
  ASSUME Layout \in Layouts, NEW m, MemoryOK(m, Layout), NEW newend \in Nat,
         RoomForRom(m.zones, newend)
  PROVE  LET n == [m EXCEPT !.zones = rom_reserve(m.zones, newend)]
         IN  KeepsBlocks(m, n, Layout) /\ RomFits(n, newend, Layout)
<1> DEFINE zs == m.zones
           top == Layout.top
           lo == LowStart(Layout)
           hi == Layout.varlow
           t == (IF newend < Layout.zonelow THEN Layout.zonelow ELSE newend) + HeaderReserve
           zt == [zs EXCEPT !["Low"] = Restarted(zs["Low"], t)]
           n == [m EXCEPT !.zones = rom_reserve(zs, newend)]
<1>1. EndOK(m, newend, Layout)
  BY RomEnds
<1>2. AddressesOK(Layout) /\ TopOK(top)
  BY LayoutFacts DEF AddressesOK
<1>3. /\ IsMemory(m) /\ ZonesOK(zs, top) /\ HandlesOK(m.handle, top)
      /\ Books(AllTags(zs)) /\ Settled(AllTags(zs)) /\ Placed(m, Layout)
      /\ EbdaOK(m, Layout) /\ HasBase(zs["Low"])
      /\ Between(zs["Low"], LowFloor(m, Layout), hi)
      /\ \A z \in Zone \ {"Low"} : Covered(zs[z]) = Given(Layout, z)
  BY DEF MemoryOK, Whole, Placed
<1>4. n = [zones |-> rom_reserve(zs, newend), handle |-> m.handle, ebda |-> m.ebda,
           lowram |-> m.lowram]
  BY <1>3, MemoryWith, Zenon
<1> HIDE DEF n
<1>5. IsMemory(n) /\ n.zones = rom_reserve(zs, newend) /\ n.handle = m.handle
      /\ n.ebda = m.ebda /\ n.lowram = m.lowram
  BY <1>4 DEF IsMemory
<1>6. CASE ~Layout.upper
  <2>1. n.zones = zs
    BY <1>5, <1>6 DEF rom_reserve, UPPERMEMORY
  <2>2. Placed(n, Layout)
    BY <1>3, <1>5, <2>1 DEF Placed, EbdaOK, LowFloor
  <2>3. Whole(n, top)
    BY <1>3, <1>5, <2>1 DEF Whole
  <2> QED
    BY <1>6, <2>1, <2>2, <2>3 DEF KeepsBlocks, MemoryOK, SameBlocks, RomFits, n
<1>7. CASE Layout.upper
  <2>1. rom_reserve(zs, newend) = zt
    BY <1>7 DEF rom_reserve, UPPERMEMORY, Restarted
  <2>2. t \in 2 .. Lowest(zs["Low"]).end /\ lo <= t
    BY <1>1, <1>7 DEF EndOK
  <2>3. LowFloor(m, Layout) = lo
    BY <1>7 DEF LowFloor
  <2>4. lo \in Nat /\ hi \in Nat /\ Layout.ebdaminimum \in Nat /\ Layout.ebdaminimum <= lo
    <3>1. Layout.ebdaminimum <= LowFloor(m, Layout) /\ LowFloor(m, Layout) \in Nat
          /\ hi \in Nat /\ Layout.ebdaminimum \in Nat
      BY <1>2, <1>3, FloorFacts
    <3> QED
      BY <2>3, <3>1
  <2>14. StartsFrom(zt["Low"], newend)
    <3>1. ListOK(zs["Low"], top) /\ Tags(zs["Low"]) # {}
      BY <1>3 DEF ZonesOK, HasBase, Zone
    <3>2. newend <= t /\ t \in Int
      <4>1. HeaderReserve \in Nat /\ Layout.zonelow \in Int
        BY MallocAssumption, LayoutFacts DEF Addressable
      <4> QED
        BY <4>1
    <3> HIDE DEF t
    <3>3. zt["Low"] = Restarted(zs["Low"], t)
      <4>1. zs = [z \in Zone |-> zs[z]] /\ "Low" \in Zone
        BY <1>3 DEF ZonesOK, Zone
      <4> QED
        BY <4>1
    <3> DEFINE r == Restarted(zs["Low"], t)
    <3>4. RestartedAt(zs["Low"], r, t, top)
      BY <1>2, <2>2, <3>1, RestartKeeps
    <3> HIDE DEF r
    <3>5. ListOK(r, top) /\ Lowest(r).start = t /\ Tags(r) # {}
      BY <3>4 DEF RestartedAt
    <3>6. StartsFrom(r, t)
      BY <1>2, <3>5, LowestIsLast
    <3>7. ASSUME NEW i \in 1 .. Len(r) PROVE newend <= r[i].start
      <4>1. r[i].start \in 2 .. top
        BY <1>2, <3>5, RangeFacts DEF ListOK, TopOK
      <4>2. t <= r[i].start /\ r[i].start \in Int
        BY <3>6, <4>1 DEF StartsFrom
      <4> QED
        BY <3>2, <4>2
    <3> QED
      BY <3>3, <3>7 DEF StartsFrom, r
  <2> HIDE DEF t, lo, hi
  <2>5. NoneWithin(zs, lo, hi)
    <3>1. \A y \in Zone : y # "Low" => \A x \in Covered(zs[y]) :
            x \in Int /\ (x < Layout.ebdaminimum \/ hi <= x)
      BY <1>3, OthersOutside DEF hi
    <3> QED
      BY <2>4, <3>1 DEF NoneWithin
  <2>6. Between(zs["Low"], lo, hi)
    BY <1>3, <2>3
  <2>7. RestartedIn(zs, zt, lo, hi, top)
    BY <1>2, <1>3, <2>2, <2>4, <2>5, <2>6, RestartInZones
  <2> HIDE DEF zt
  <2>8. /\ ZonesOK(zt, top) /\ Books(AllTags(zt)) /\ Settled(AllTags(zt))
        /\ HasBase(zt["Low"]) /\ Between(zt["Low"], lo, hi)
        /\ \A y \in Zone : y # "Low" => zt[y] = zs[y]
        /\ BlocksOf(AllTags(zt)) = BlocksOf(AllTags(zs))
    BY <2>7 DEF RestartedIn
  <2>9. n.zones = zt
    BY <1>5, <2>1
  <2>10. Whole(n, top)
    BY <1>3, <1>5, <2>8, <2>9 DEF Whole
  <2>11. EbdaOK(n, Layout)
    BY <1>3, <1>5 DEF EbdaOK
  <2>12. LowFloor(n, Layout) = lo
    BY <1>7 DEF LowFloor, lo
  <2>13. Placed(n, Layout)
    BY <1>3, <2>8, <2>9, <2>11, <2>12 DEF Placed, hi
  <2> QED
    BY <2>8, <2>9, <2>10, <2>13, <2>14 DEF KeepsBlocks, MemoryOK, SameBlocks, RomFits, n
<1> QED
  BY <1>6, <1>7

----------------------------------------------------------------------------
(* The handlers.                                                           *)

\* What is true between any two calls.
MallocInv ==
  /\ Layout \in Layouts
  /\ MemoryOK(memory, Layout)
  /\ RomEnd \in Address
  /\ running \in Nat
  /\ romowned \subseteq Address
  /\ ram \subseteq Address
  /\ permtmp \subseteq Address
  /\ booted \in BOOLEAN

\* The state n differs from m by one block at most.
OneBlock(m, n) ==
  LET B == BlocksOf(AllTags(m.zones))
      C == BlocksOf(AllTags(n.zones))
  IN  \/ C = B
      \/ \E b \in C : C = B \cup {b} /\ b.start % MinAlign = 0
      \/ \E b \in B : C = B \ {b}

\* A handler's step: sound memory, with one block more or less at most.
StepOK(m, n, l) == MemoryOK(n, l) /\ OneBlock(m, n)

\* A multiple of a multiple is a multiple.
LEMMA Multiples ==
  ASSUME NEW x \in Nat, NEW a \in Nat \ {0}, NEW b \in Nat \ {0}, x % a = 0, a % b = 0
  PROVE  x % b = 0
<1> DEFINE p == x \div a
           q == a \div b
<1>1. x = a * p + (x % a) /\ p \in Nat
  OBVIOUS
<1>2. a = b * q + (a % b) /\ q \in Nat
  OBVIOUS
<1> HIDE DEF p, q
<1>3. x = b * (q * p) /\ q * p \in Nat
  BY <1>1, <1>2
<1>4. \A k \in Nat : (b * k) % b = 0
  OBVIOUS
<1> QED
  BY <1>3, <1>4

\* What malloc_palloc() did is a step of the allocator.
LEMMA ResultSteps ==
  ASSUME NEW l, NEW m, NEW r, NEW size, NEW align, ResultOK(m, r, size, align, l),
         Askable(size, align), l.top \in Nat
  PROVE  StepOK(m, r.m, l)
<1>1. MemoryOK(r.m, l)
  BY DEF ResultOK
<1>2. CASE SameBlocks(m, r.m)
  BY <1>1, <1>2 DEF StepOK, OneBlock, SameBlocks
<1>3. CASE /\ r.data \in 2 .. l.top /\ r.data % align = 0
           /\ BlocksOf(AllTags(r.m.zones)) =
                BlocksOf(AllTags(m.zones)) \cup {[start |-> r.data, size |-> size]}
  <2> DEFINE b == [start |-> r.data, size |-> size]
  <2>1. b.start % MinAlign = 0
    <3>1. MinAlign \in Nat \ {0} /\ align \in Nat \ {0} /\ align % MinAlign = 0
      BY MallocAssumption DEF Askable
    <3>2. r.data \in Nat /\ r.data % align = 0
      BY <1>3
    <3>3. r.data % MinAlign = 0
      BY <3>1, <3>2, Multiples
    <3> QED
      BY <3>3
  <2> HIDE DEF b
  <2>2. b \in BlocksOf(AllTags(r.m.zones))
        /\ BlocksOf(AllTags(r.m.zones)) = BlocksOf(AllTags(m.zones)) \cup {b}
    BY <1>3 DEF b
  <2> QED
    BY <1>1, <2>1, <2>2 DEF StepOK, OneBlock
<1> QED
  BY <1>2, <1>3 DEF ResultOK

\* The lowest bit of an s32 divides it.
LEMMA LowestBits ==
  ASSUME NEW size \in Nat \ {0}
  PROVE  LowestBit(size) \in Bits /\ LowestBit(size) <= size
<1> DEFINE S == {b \in Bits : size % b = 0}
<1>1. \A b \in S : b \in Nat \ {0} /\ b <= size
  <2> SUFFICES ASSUME NEW b \in Bits, size % b = 0 PROVE b \in Nat \ {0} /\ b <= size
    OBVIOUS
  <2>1. b \in Nat \ {0}
    BY DEF Bits
  <2>2. size < b => size % b = size
    BY <2>1
  <2> QED
    BY <2>1, <2>2
<1>2. 1 \in S
  <2>1. size % 1 = 0
    OBVIOUS
  <2> QED
    BY <2>1 DEF Bits
<1> DEFINE T == {n \in Nat : \A b \in S : b <= n}
<1>3. \E b \in S : \A c \in S : b >= c
  <2>1. S # {} /\ S \subseteq Nat /\ size \in T
    BY <1>1, <1>2
  <2>2. T \in SUBSET Nat /\ T # {}
    BY <2>1
  <2> DEFINE n == Min(T)
  <2> HIDE DEF T
  <2>3. n \in T /\ \A x \in T : n <= x
    BY <2>2, MinOf
  <2> HIDE DEF n
  <2>4. n \in Nat /\ \A b \in S : b <= n
    BY <2>3 DEF T
  <2>5. n \in S
    <3> SUFFICES ASSUME n \notin S PROVE FALSE
      OBVIOUS
    <3>1. \A b \in S : b <= n - 1
      BY <1>1, <2>4
    <3>2. n >= 1
      BY <1>2, <2>4
    <3>3. n - 1 \in T
      BY <2>4, <3>1, <3>2 DEF T
    <3> QED
      BY <2>3, <2>4, <3>3
  <2> QED
    BY <1>1, <2>4, <2>5
<1>4. LowestBit(size) = CHOOSE b \in S : \A c \in S : b >= c
  BY DEF LowestBit, Max
<1>5. LowestBit(size) \in S
  <2> HIDE DEF S
  <2> QED
    BY <1>3, <1>4
<1> QED
  BY <1>1, <1>5

\* A larger bit is a multiple of MALLOC_MIN_ALIGN.
LEMMA BitsDivide ==
  ASSUME NEW b \in Bits, b > MinAlign
  PROVE  b % MinAlign = 0
<1>1. MinAlign \in {1, 2, 4, 8, 16, 32}
  BY MallocAssumption
<1>2. MinAlign = 1 => b % MinAlign = 0
  BY DEF Bits
<1>3. MinAlign = 2 => b % MinAlign = 0
  BY DEF Bits
<1>4. MinAlign = 4 => b % MinAlign = 0
  BY DEF Bits
<1>5. MinAlign = 8 => b % MinAlign = 0
  BY DEF Bits
<1>6. MinAlign = 16 => b % MinAlign = 0
  BY DEF Bits
<1>7. MinAlign = 32 => b % MinAlign = 0
  BY DEF Bits
<1> QED
  BY <1>1, <1>2, <1>3, <1>4, <1>5, <1>6, <1>7

\* The alignment of PMM's blocks.
LEMMA PmmAligns ==
  ASSUME NEW l \in Layouts, NEW size \in l.pmm, NEW aligned \in BOOLEAN
  PROVE  Askable(size, PmmAlign(size, aligned))
<1> DEFINE a == PmmAlign(size, aligned)
<1>1. size \in Nat \ {0} /\ 2 * size < Word
  BY LayoutFacts DEF SizesAskable
<1>2. MinAlign \in Nat \ {0} /\ MinAlign % MinAlign = 0 /\ Word \in Nat /\ 2 * MinAlign <= Word
  BY MallocAssumption
<1>3. a = MinAlign \/ (a = LowestBit(size) /\ a > MinAlign)
  BY DEF PmmAlign
<1>4. CASE a = MinAlign
  BY <1>1, <1>2, <1>4 DEF Askable
<1>5. CASE a = LowestBit(size) /\ a > MinAlign
  <2>1. a \in Bits /\ a <= size /\ a % MinAlign = 0
    BY <1>1, <1>5, LowestBits, BitsDivide
  <2>2. a \in Nat \ {0}
    BY <2>1 DEF Bits
  <2> HIDE DEF a
  <2>3. size + a <= Word
    BY <1>1, <1>2, <2>1, <2>2
  <2> QED
    BY <1>1, <2>1, <2>2, <2>3 DEF Askable, a
<1> QED
  BY <1>3, <1>4, <1>5

\* A call after one that returned nothing.
LEMMA ResultAfter ==
  ASSUME NEW l, NEW m, NEW r, NEW s, NEW size, NEW align, l.top \in Nat,
         l.ebdasize \in Nat, r.data = 0,
         ResultOK(m, r, size, align, l), ResultOK(r.m, s, size, align, l)
  PROVE  ResultOK(m, s, size, align, l)
<1>1. ~(r.data \in 2 .. l.top)
  OBVIOUS
<1>2. SameBlocks(m, r.m)
  BY <1>1 DEF ResultOK
<1>3. LowKept(m, s.m, l)
  BY LowKeptTwice DEF ResultOK
<1> QED
  BY <1>2, <1>3 DEF ResultOK, SameBlocks

\* handle_pmm00() allocates one block at most, in whatever zones it tries.
LEMMA PmmKeeps ==
  ASSUME Layout \in Layouts, MemoryOK(memory, Layout), NEW size \in Layout.pmm,
         NEW aligned \in BOOLEAN, NEW where \in 1 .. 3, NEW permanent \in BOOLEAN,
         where # 2 => ~Overdraws(memory, LowZone(permanent), size, PmmAlign(size, aligned))
  PROVE  ResultOK(memory, PmmPalloc(size, PmmAlign(size, aligned), where, permanent),
                  size, PmmAlign(size, aligned), Layout)
<1> DEFINE a == PmmAlign(size, aligned)
           lowzone == LowZone(permanent)
           highzone == IF permanent THEN "High" ELSE "TmpHigh"
           result(r) == ResultOK(memory, r, size, a, Layout)
<1>1. /\ lowzone \in Zone /\ highzone \in Zone \ {"Low"} /\ "TmpHigh" \in Zone \ {"Low"}
      /\ where # 2 => ~Overdraws(memory, lowzone, size, a)
  BY DEF Zone, LowZone
<1>2. Askable(size, a)
  BY PmmAligns
<1>3. Layout.top \in Nat /\ Layout.ebdasize \in Nat
  BY LayoutFacts DEF AddressesOK, TopOK
<1> HIDE DEF a, lowzone, highzone
<1>4. ASSUME NEW z \in Zone, ~Overdraws(memory, z, size, a)
      PROVE  result(malloc_palloc(memory, z, size, a))
  BY <1>2, <1>4, PallocKeeps
<1>5. ASSUME NEW r, result(r), r.data = 0, NEW z \in Zone \ {"Low"}
      PROVE  result(malloc_palloc(r.m, z, size, a))
  <2>1. MemoryOK(r.m, Layout)
    BY <1>5 DEF ResultOK
  <2>2. ~Overdraws(r.m, z, size, a)
    BY OnlyLow
  <2>3. ResultOK(r.m, malloc_palloc(r.m, z, size, a), size, a, Layout)
    BY <1>2, <2>1, <2>2, PallocKeeps
  <2> QED
    BY <1>3, <1>5, <2>3, ResultAfter
<1>6. ASSUME NEW r, result(r) PROVE result(Plain(r)) /\ result(Kept(r))
  <2>1. /\ Plain(r).m = r.m /\ Plain(r).data = r.data
        /\ Kept(r).m = r.m /\ Kept(r).data = r.data
    BY DEF Plain, Kept
  <2> QED
    BY <1>6, <2>1 DEF ResultOK
<1>7. ASSUME NEW r, result(r) PROVE result(OrPlain(r, highzone, size, a))
  <2>1. CASE r.data # 0
    BY <1>6, <1>7, <2>1 DEF OrPlain
  <2>2. CASE r.data = 0
    <3>1. result(malloc_palloc(r.m, highzone, size, a))
      BY <1>1, <1>5, <1>7, <2>2
    <3>2. OrPlain(r, highzone, size, a) = Plain(malloc_palloc(r.m, highzone, size, a))
      BY <2>2 DEF OrPlain
    <3> HIDE DEF result
    <3> QED
      BY <1>6, <3>1, <3>2
  <2> QED
    BY <2>1, <2>2
<1>8. ASSUME NEW r, result(r) PROVE result(OrKept(r, permanent, size, a))
  <2>1. CASE r.data # 0 \/ ~permanent
    BY <1>6, <1>8, <2>1 DEF OrKept
  <2>2. CASE ~(r.data # 0 \/ ~permanent)
    <3>1. result(malloc_palloc(r.m, "TmpHigh", size, a))
      BY <1>1, <1>5, <1>8, <2>2
    <3>2. OrKept(r, permanent, size, a) = Kept(malloc_palloc(r.m, "TmpHigh", size, a))
      BY <2>2 DEF OrKept
    <3> HIDE DEF result
    <3> QED
      BY <1>6, <3>1, <3>2
  <2> QED
    BY <2>1, <2>2
<1>9. PmmPalloc(size, a, where, permanent) =
        CASE where = 1 -> Plain(malloc_palloc(memory, lowzone, size, a))
          [] where = 2 ->
               OrKept(malloc_palloc(memory, highzone, size, a), permanent, size, a)
          [] where = 3 ->
               OrPlain(malloc_palloc(memory, lowzone, size, a), highzone, size, a)
  BY DEF PmmPalloc, lowzone, highzone
<1> HIDE DEF result
<1>10. CASE where = 1
  <2>1. PmmPalloc(size, a, where, permanent) = Plain(malloc_palloc(memory, lowzone, size, a))
    BY <1>9, <1>10
  <2>2. result(Plain(malloc_palloc(memory, lowzone, size, a)))
    BY <1>1, <1>4, <1>6, <1>10
  <2> QED
    BY <2>1, <2>2 DEF result, a
<1>11. CASE where = 2
  <2>1. PmmPalloc(size, a, where, permanent) =
          OrKept(malloc_palloc(memory, highzone, size, a), permanent, size, a)
    BY <1>9, <1>11
  <2>2. ~Overdraws(memory, highzone, size, a)
    BY <1>1, OnlyLow
  <2>3. result(OrKept(malloc_palloc(memory, highzone, size, a), permanent, size, a))
    BY <1>1, <1>4, <1>8, <2>2
  <2> QED
    BY <2>1, <2>3 DEF result, a
<1>12. CASE where = 3
  <2>1. PmmPalloc(size, a, where, permanent) =
          OrPlain(malloc_palloc(memory, lowzone, size, a), highzone, size, a)
    BY <1>9, <1>12
  <2>2. result(OrPlain(malloc_palloc(memory, lowzone, size, a), highzone, size, a))
    BY <1>1, <1>4, <1>7, <1>12
  <2> QED
    BY <2>1, <2>2 DEF result, a
<1> QED
  BY <1>10, <1>11, <1>12

\* The handler has made m of the memory.
LEMMA BecomesIs ==
  ASSUME NEW l, NEW m, MemoryOK(m, l), Becomes(m)
  PROVE  memory' = m
<1>1. m = [zones |-> m.zones, handle |-> m.handle, ebda |-> m.ebda, lowram |-> m.lowram]
  BY DEF MemoryOK, Whole, IsMemory
<1>2. memory' = [zones |-> zones', handle |-> handle', ebda |-> ebda', lowram |-> lowram']
  BY DEF memory
<1>3. zones' = m.zones /\ handle' = m.handle /\ ebda' = m.ebda /\ lowram' = m.lowram
  BY DEF Becomes
<1>4. memory' = [zones |-> m.zones, handle |-> m.handle, ebda |-> m.ebda,
                 lowram |-> m.lowram]
  BY <1>2, <1>3
<1> QED
  BY <1>1, <1>4, Zenon

\* The state n has all blocks that m has.
NoneFreed(m, n) == BlocksOf(AllTags(m.zones)) \subseteq BlocksOf(AllTags(n.zones))

\* A driver's allocation.
LEMMA MallocStep ==
  ASSUME MallocInv, NEW r \in Layout.requests, _malloc(r.zone, r.size, r.align),
         ~overdrawn'
  PROVE  MallocInv' /\ OneBlock(memory, memory')
         /\ LowKept(memory, memory', Layout) /\ NoneFreed(memory, memory')
<1> DEFINE m == malloc_palloc(memory, r.zone, r.size, r.align).m
<1>1. Layout \in Layouts /\ MemoryOK(memory, Layout)
  BY DEF MallocInv
<1>2. /\ r.zone \in Zone /\ Askable(r.size, r.align)
      /\ ~Overdraws(memory, r.zone, r.size, r.align)
  BY <1>1, LayoutFacts DEF SizesAskable, _malloc
<1>3. Layout.top \in Nat
  BY <1>1, LayoutFacts DEF AddressesOK, TopOK
<1>4. StepOK(memory, m, Layout)
  BY <1>1, <1>2, <1>3, PallocKeeps, ResultSteps
<1>5. LowKept(memory, m, Layout) /\ NoneFreed(memory, m)
  <2> DEFINE p == malloc_palloc(memory, r.zone, r.size, r.align)
  <2>1. ResultOK(memory, p, r.size, r.align, Layout)
    BY <1>1, <1>2, PallocKeeps
  <2>2. m = p.m
    OBVIOUS
  <2> HIDE DEF p, m
  <2> QED
    BY <2>1, <2>2 DEF ResultOK, SameBlocks, NoneFreed
<1>6. Becomes(m) /\ UNCHANGED <<Layout, RomEnd, running, romowned, ram, permtmp, booted>>
  BY DEF _malloc
<1> HIDE DEF m
<1>7. memory' = m
  BY <1>4, <1>6, BecomesIs DEF StepOK
<1>8. MemoryOK(memory', Layout') /\ OneBlock(memory, memory')
  BY <1>4, <1>6, <1>7 DEF StepOK
<1> QED
  BY <1>5, <1>6, <1>7, <1>8 DEF MallocInv, Address

\* The memory's state in its variables.
LEMMA MemoryFields ==
  memory.zones = zones /\ memory.handle = handle /\ memory.ebda = ebda
    /\ memory.lowram = lowram
BY DEF memory

\* free()
LEMMA FreeStep ==
  ASSUME MallocInv, NEW data, Free(data)
  PROVE  MallocInv' /\ OneBlock(memory, memory') /\ FreeOK(memory, memory', data, Layout)
<1> DEFINE m == malloc_pfree(memory, data)
<1>1. Layout \in Layouts /\ MemoryOK(memory, Layout) /\ permtmp \subseteq Address
  BY DEF MallocInv
<1>2. Known(memory.zones, data)
  BY MemoryFields DEF Free
<1>3. FreeOK(memory, m, data, Layout)
  BY <1>1, <1>2, FreeKeeps
<1>4. /\ Becomes(m) /\ permtmp' = permtmp \ {data}
      /\ UNCHANGED <<Layout, RomEnd, running, romowned, ram, booted>>
  BY DEF Free
<1> HIDE DEF m
<1>5. memory' = m
  BY <1>3, <1>4, BecomesIs DEF FreeOK
<1>6. MemoryOK(memory', Layout') /\ OneBlock(memory, memory')
  BY <1>3, <1>4, <1>5 DEF FreeOK, OneBlock
<1> QED
  BY <1>1, <1>3, <1>4, <1>5, <1>6 DEF MallocInv, Address

\* Only a block is put into the e820 map.
LEMMA PmmReserved ==
  ASSUME NEW size, NEW align, NEW where \in 1 .. 3, NEW permanent
  PROVE  PmmPalloc(size, align, where, permanent).reserved
           => PmmPalloc(size, align, where, permanent).data # 0
<1> DEFINE ok(x) == x.reserved => x.data # 0
<1>1. \A r : ok(Plain(r)) /\ ok(Kept(r))
  BY DEF Plain, Kept
<1> HIDE DEF ok
<1>2. \A r, z : ok(OrPlain(r, z, size, align)) /\ ok(OrKept(r, permanent, size, align))
  BY <1>1 DEF OrPlain, OrKept
<1>3. ok(PmmPalloc(size, align, where, permanent))
  <2> DEFINE p == PmmPalloc(size, align, where, permanent)
  <2>1. CASE where = 1
    <3>1. \E r : p = Plain(r)
      BY <2>1 DEF PmmPalloc
    <3> QED
      BY <1>1, <3>1
  <2>2. CASE where = 2
    <3>1. \E r : p = OrKept(r, permanent, size, align)
      BY <2>2 DEF PmmPalloc
    <3> QED
      BY <1>2, <3>1
  <2>3. CASE where = 3
    <3>1. \E r, z : p = OrPlain(r, z, size, align)
      BY <2>3 DEF PmmPalloc
    <3> QED
      BY <1>2, <3>1
  <2> QED
    BY <2>1, <2>2, <2>3
<1> QED
  BY <1>3 DEF ok

\* A block of PMM that becomes permanent is no RAM from then on.
PermGrows ==
  /\ ram' \subseteq ram
  /\ \A s \in permtmp' :
       \/ s \in permtmp
       \/ \E b \in BlocksOf(AllTags(zones')) :
            b.start = s /\ Bytes(s, b.size) \cap ram' = {}

\* PMM's allocation.
LEMMA PmmStep ==
  ASSUME MallocInv, NEW size \in Layout.pmm, NEW h \in Handles \cup {DefaultHandle},
         NEW where \in 1 .. 3, NEW permanent \in BOOLEAN, NEW aligned \in BOOLEAN,
         handle_pmm00(size, h, where, permanent, aligned), ~overdrawn'
  PROVE  MallocInv' /\ OneBlock(memory, memory')
         /\ LowKept(memory, memory', Layout) /\ NoneFreed(memory, memory') /\ PermGrows
<1> DEFINE r == PmmPalloc(size, PmmAlign(size, aligned), where, permanent)
           set == r.data # 0 /\ h # DefaultHandle
           m == IF set THEN malloc_sethandle(r.m, r.data, h) ELSE r.m
<1>1. /\ Layout \in Layouts /\ MemoryOK(memory, Layout) /\ permtmp \subseteq Address
      /\ ram \subseteq Address
  BY DEF MallocInv
<1>2. Layout.top \in Nat
  BY <1>1, LayoutFacts DEF AddressesOK, TopOK
<1>3. ResultOK(memory, r, size, PmmAlign(size, aligned), Layout)
  <2>1. where # 2 => ~Overdraws(memory, LowZone(permanent), size, PmmAlign(size, aligned))
    BY DEF handle_pmm00
  <2> QED
    BY <1>1, <2>1, PmmKeeps
<1>4. Askable(size, PmmAlign(size, aligned))
  BY <1>1, PmmAligns
<1>5. /\ Becomes(m)
      /\ ram' = Reserve(r, size)
      /\ permtmp' = IF r.reserved THEN permtmp \cup {r.data} ELSE permtmp
      /\ UNCHANGED <<Layout, RomEnd, running, romowned, booted>>
  BY DEF handle_pmm00
<1>6. r.reserved => r.data # 0
  BY PmmReserved
<1> HIDE DEF r
<1>7. StepOK(memory, r.m, Layout)
  BY <1>2, <1>3, <1>4, ResultSteps
<1>8. KeepsBlocks(r.m, m, Layout) /\ SameMap(r.m, m)
  <2>1. CASE set
    BY <1>1, <1>7, <2>1, HandleKeeps DEF StepOK
  <2>2. CASE ~set
    BY <1>7, <2>2 DEF StepOK, KeepsBlocks, SameBlocks, SameMap
  <2> QED
    BY <2>1, <2>2
<1> HIDE DEF m
<1>9. memory' = m
  BY <1>5, <1>8, BecomesIs DEF KeepsBlocks
<1>10. OneBlock(memory, m)
  BY <1>7, <1>8 DEF StepOK, OneBlock, KeepsBlocks, SameBlocks
<1>11. MemoryOK(memory', Layout') /\ OneBlock(memory, memory')
  BY <1>5, <1>8, <1>9, <1>10 DEF KeepsBlocks
<1>12. ram' \subseteq Address
  BY <1>1, <1>5 DEF Reserve
<1>13. permtmp' \subseteq Address
  BY <1>1, <1>3, <1>5, <1>6 DEF ResultOK, Address
<1>14. LowKept(memory, m, Layout)
  <2>1. LowKept(memory, r.m, Layout)
    BY <1>3 DEF ResultOK
  <2> QED
    BY <1>8, <2>1 DEF LowKept, SameMap
<1>15. NoneFreed(memory, m)
  BY <1>3, <1>8 DEF ResultOK, KeepsBlocks, SameBlocks, NoneFreed
<1>16. PermGrows
  <2>1. ram' \subseteq ram
    BY <1>5 DEF Reserve
  <2>2. ASSUME NEW s \in permtmp', s \notin permtmp
        PROVE  \E b \in BlocksOf(AllTags(zones')) :
                 b.start = s /\ Bytes(s, b.size) \cap ram' = {}
    <3>1. r.reserved /\ s = r.data /\ r.data # 0 /\ ram' = ram \ Bytes(r.data, size)
      BY <1>5, <1>6, <2>2 DEF Reserve
    <3> DEFINE b == [start |-> r.data, size |-> size]
    <3>2. b.start = r.data /\ b.size = size
      OBVIOUS
    <3> HIDE DEF b
    <3>3. b \in BlocksOf(AllTags(m.zones))
      BY <1>3, <1>8, <3>1 DEF ResultOK, KeepsBlocks, SameBlocks, b
    <3>4. zones' = m.zones
      BY <1>5 DEF Becomes
    <3> QED
      BY <3>1, <3>2, <3>3, <3>4
  <2> QED
    BY <2>1, <2>2 DEF PermGrows
<1> QED
  BY <1>5, <1>9, <1>11, <1>12, <1>13, <1>14, <1>15, <1>16 DEF MallocInv, Address

\* Where the next rom ends.
LEMMA NewRomEnd ==
  ASSUME MallocInv, NEW size \in Layout.roms,
         RoomForRom(zones, ALIGN(RomEnd + size, RomAlign))
  PROVE  LET e == ALIGN(RomEnd + size, RomAlign)
             n == [memory EXCEPT !.zones = rom_reserve(zones, e)]
         IN  /\ e \in Address /\ RomEnd + size <= e
             /\ KeepsBlocks(memory, n, Layout) /\ RomFits(n, e, Layout)
<1> DEFINE e == ALIGN(RomEnd + size, RomAlign)
<1>1. /\ Layout \in Layouts /\ MemoryOK(memory, Layout) /\ RomEnd \in 2 .. Layout.top
      /\ Layout.top \in Nat /\ size \in Nat /\ RomAlign \in Nat \ {0}
  BY MallocAssumption, LayoutFacts DEF MallocInv, Address, SizesAskable, AddressesOK, TopOK
<1>2. e \in Nat /\ RomEnd + size <= e
  <2>1. RomEnd + size \in Nat
    BY <1>1
  <2> QED
    BY <1>1, <2>1, AlignedUp
<1> HIDE DEF e
<1>3. RoomForRom(memory.zones, e)
  BY MemoryFields DEF e
<1>4. e <= Layout.top
  BY <1>1, <1>2, <1>3, RomEnds
<1> DEFINE n == [memory EXCEPT !.zones = rom_reserve(memory.zones, e)]
<1>5. KeepsBlocks(memory, n, Layout) /\ RomFits(n, e, Layout)
  BY <1>1, <1>2, <1>3, RomKeeps
<1>6. e \in Address
  BY <1>1, <1>2, <1>4 DEF Address
<1> QED
  BY <1>2, <1>5, <1>6, MemoryFields DEF e

\* ZoneLow gave way to a rom, or the rom that ran is no longer reserved.
RomPlaced ==
  /\ UNCHANGED <<Layout, ebda, lowram, romowned, ram, permtmp, booted>>
  /\ BlocksOf(AllTags(zones')) = BlocksOf(AllTags(zones))
  /\ ~UPPERMEMORY => zones' = zones
  /\ UPPERMEMORY => \/ zones' = zones /\ RomEnd' = RomEnd /\ running' = 0
                    \/ StartsFrom(zones'["Low"], RomEnd' + running')

\* A rom gets its place in ZoneLow's area.
LEMMA RomStep ==
  ASSUME MallocInv, NEW size \in Layout.roms, ReserveRom(size) \/ rom_confirm(size)
  PROVE  MallocInv' /\ OneBlock(memory, memory') /\ RomPlaced
<1> DEFINE e == ALIGN(RomEnd + size, RomAlign)
           n == [memory EXCEPT !.zones = rom_reserve(zones, e)]
<1>1. /\ UNCHANGED <<Layout, handle, ebda, lowram, romowned, ram, permtmp, booted>>
      /\ \/ zones' = zones /\ RomEnd' = RomEnd /\ running' = 0
         \/ /\ RoomForRom(zones, e) /\ zones' = rom_reserve(zones, e)
            /\ (RomEnd' = RomEnd /\ running' = size) \/ (RomEnd' = e /\ running' = 0)
  BY DEF ReserveRom, rom_confirm
<1>2. /\ Layout \in Layouts /\ MemoryOK(memory, Layout) /\ size \in Nat
      /\ RomEnd \in Address
  BY LayoutFacts DEF MallocInv, SizesAskable
<1> HIDE DEF e
<1>3. CASE zones' = zones /\ RomEnd' = RomEnd /\ running' = 0
  <2>1. memory' = memory
    BY <1>1, <1>3 DEF memory
  <2>2. MemoryOK(memory', Layout') /\ OneBlock(memory, memory')
    BY <1>1, <1>2, <2>1 DEF OneBlock
  <2>3. RomPlaced
    BY <1>1, <1>3 DEF RomPlaced
  <2> QED
    BY <1>1, <1>2, <1>3, <2>2, <2>3 DEF MallocInv, Address
<1>4. CASE /\ RoomForRom(zones, e) /\ zones' = rom_reserve(zones, e)
           /\ (RomEnd' = RomEnd /\ running' = size) \/ (RomEnd' = e /\ running' = 0)
  <2>1. e \in Address /\ KeepsBlocks(memory, n, Layout)
        /\ RomEnd + size <= e /\ RomFits(n, e, Layout)
    BY <1>4, NewRomEnd DEF e
  <2>2. memory' = n
    <3>1. n = [zones |-> rom_reserve(zones, e), handle |-> handle, ebda |-> ebda,
               lowram |-> lowram]
      BY DEF memory
    <3> QED
      BY <1>1, <1>4, <3>1 DEF memory
  <2> HIDE DEF n
  <2>3. MemoryOK(memory', Layout') /\ OneBlock(memory, memory')
    BY <1>1, <2>1, <2>2 DEF OneBlock, KeepsBlocks, SameBlocks
  <2>4. RomEnd' \in Address'
    BY <1>1, <1>2, <1>4, <2>1 DEF Address
  <2>5. n.zones = zones' /\ memory.zones = zones
    BY <2>2, MemoryFields DEF memory
  <2>6. ~UPPERMEMORY => zones' = zones
    BY <1>4 DEF rom_reserve
  <2>7. UPPERMEMORY => StartsFrom(zones'["Low"], RomEnd' + running')
    <3> SUFFICES ASSUME UPPERMEMORY PROVE StartsFrom(zones'["Low"], RomEnd' + running')
      OBVIOUS
    <3>1. StartsFrom(zones'["Low"], e)
      BY <2>1, <2>5 DEF RomFits, UPPERMEMORY
    <3>2. RomEnd' + running' <= e /\ RomEnd' + running' \in Int /\ e \in Int
      BY <1>2, <1>4, <2>1 DEF Address
    <3>3. ListOK(zones'["Low"], Layout.top) /\ Layout.top \in Nat
      BY <1>1, <1>2, <2>1, <2>5, LayoutFacts
        , ZenonT(40) DEF KeepsBlocks, MemoryOK, Whole, ZonesOK, Zone, AddressesOK, TopOK
    <3>4. \A i \in 1 .. Len(zones'["Low"]) : zones'["Low"][i].start \in Int
      BY <3>3, RangeFacts DEF ListOK
    <3> QED
      BY <3>1, <3>2, <3>4 DEF StartsFrom
  <2>8. RomPlaced
    BY <1>1, <2>1, <2>5, <2>6, <2>7 DEF RomPlaced, KeepsBlocks, SameBlocks
  <2> QED
    BY <1>1, <1>2, <1>4, <2>3, <2>4, <2>8 DEF MallocInv, Address
<1> QED
  BY <1>1, <1>3, <1>4

\* An option rom takes base memory below the EBDA, which ZoneLow stays above.
LEMMA TakesStep ==
  ASSUME MallocInv, NEW moves \in BOOLEAN, RomTakesMemory(moves)
  PROVE  MallocInv' /\ OneBlock(memory, memory')
<1>1. /\ UNCHANGED <<Layout, zones, handle, RomEnd, running, ram, permtmp, booted>>
      /\ ~UPPERMEMORY /\ lowram = ebda /\ ebda - Kb >= Layout.ebdaminimum
      /\ lowram' = lowram - Kb
      /\ ebda' = IF moves THEN ebda - Kb ELSE ebda
      /\ romowned' = IF moves THEN Bytes(ebda - Kb + Layout.ebdasize, Kb)
                     ELSE Bytes(ebda - Kb, Kb)
  BY DEF RomTakesMemory
<1>2. Layout \in Layouts /\ MemoryOK(memory, Layout)
  BY DEF MallocInv
<1>3. /\ Layout.ebdaminimum \in 2 .. Layout.top /\ FirstEbda(Layout) \in 2 .. Layout.top
      /\ LowStart(Layout) \in 2 .. Layout.top /\ Layout.top \in Nat
      /\ FirstEbda(Layout) + Layout.ebdasize <= LowStart(Layout)
      /\ Kb \in Nat \ {0} /\ Layout.ebdasize \in Nat
      /\ AddressesOK(Layout)
  BY <1>2, LayoutFacts DEF AddressesOK, TopOK
<1>4. /\ Whole(memory, Layout.top)
      /\ \A z \in Zone \ {"Low"} : Covered(zones[z]) = Given(Layout, z)
      /\ HasBase(zones["Low"])
      /\ Between(zones["Low"], LowFloor(memory, Layout), Layout.varlow)
      /\ EbdaOK(memory, Layout)
  BY <1>2, MemoryFields DEF MemoryOK, Placed
<1>5. /\ Layout.ebdaminimum <= ebda /\ ebda <= FirstEbda(Layout) /\ ebda \in Nat
      /\ Layout.ebdaminimum <= lowram /\ lowram <= FirstEbda(Layout) /\ lowram \in Nat
  BY <1>4, MemoryFields DEF EbdaOK
<1> DEFINE n == memory'
<1>6. IsMemory(n) /\ n.zones = zones /\ n.handle = handle /\ n.ebda = ebda'
      /\ n.lowram = lowram'
  BY <1>1 DEF memory, IsMemory
<1> HIDE DEF n
<1>7. /\ ebda' \in Nat /\ lowram' \in Nat /\ ebda' <= ebda
      /\ Layout.ebdaminimum <= ebda' /\ ebda' <= FirstEbda(Layout)
      /\ Layout.ebdaminimum <= lowram' /\ lowram' <= FirstEbda(Layout)
  BY <1>1, <1>3, <1>5
<1>8. EbdaOK(n, Layout)
  BY <1>6, <1>7 DEF EbdaOK
<1>9. Whole(n, Layout.top)
  BY <1>4, <1>6, MemoryFields DEF Whole
<1>10. Between(zones["Low"], LowFloor(n, Layout), Layout.varlow)
  <2>1. /\ LowFloor(memory, Layout) = ebda + Layout.ebdasize
        /\ LowFloor(n, Layout) = ebda' + Layout.ebdasize
    BY <1>1, <1>6, MemoryFields DEF LowFloor, UPPERMEMORY
  <2>2. /\ ListOK(zones["Low"], Layout.top)
    BY <1>4, MemoryFields DEF Whole, ZonesOK, Zone
  <2>3. /\ LowFloor(memory, Layout) \in Nat /\ LowFloor(n, Layout) \in Nat
        /\ LowFloor(n, Layout) <= LowFloor(memory, Layout)
    BY <1>3, <1>5, <1>7, <2>1
  <2>4. Layout.varlow \in Nat
    BY <1>3, <1>4, FloorFacts
  <2> QED
    BY <1>3, <1>4, <2>2, <2>3, <2>4, BetweenWider
<1>11. MemoryOK(n, Layout)
  BY <1>4, <1>6, <1>8, <1>9, <1>10 DEF MemoryOK, Placed
<1>12. OneBlock(memory, n)
  BY <1>6, MemoryFields DEF OneBlock
<1>13. romowned' \subseteq Address
  <2>1. ebda + Layout.ebdasize <= Layout.top /\ ebda <= Layout.top /\ 2 <= ebda - Kb
    BY <1>1, <1>3, <1>5
  <2>2. Bytes(ebda - Kb + Layout.ebdasize, Kb) \subseteq 2 .. Layout.top
    BY <1>3, <1>5, <2>1 DEF Bytes
  <2>3. Bytes(ebda - Kb, Kb) \subseteq 2 .. Layout.top
    BY <1>3, <1>5, <2>1 DEF Bytes
  <2> QED
    BY <1>1, <2>2, <2>3 DEF Address
<1>14. MemoryOK(memory', Layout') /\ OneBlock(memory, memory')
  BY <1>1, <1>11, <1>12 DEF n
<1> QED
  BY <1>1, <1>13, <1>14 DEF MallocInv, Address

\* malloc_prepboot() gives addresses of ZoneHigh to the OS.
LEMMA PrepbootStep ==
  ASSUME MallocInv, malloc_prepboot
  PROVE  MallocInv' /\ OneBlock(memory, memory')
<1> DEFINE l == zones["High"]
           e == l[Len(l)]
<1>1. /\ UNCHANGED <<Layout, zones, handle, ebda, lowram, RomEnd, running, romowned, permtmp>>
      /\ ram' = (ram \ (lowram .. Layout.lowramend - 1)) \cup Giveback
      /\ booted' = TRUE
  BY DEF malloc_prepboot
<1>2. Layout \in Layouts /\ MemoryOK(memory, Layout) /\ ram \subseteq Address
  BY DEF MallocInv
<1>3. memory' = memory
  BY <1>1 DEF memory
<1>4. MemoryOK(memory', Layout') /\ OneBlock(memory, memory')
  BY <1>1, <1>2, <1>3 DEF OneBlock
<1>5. Giveback \subseteq Address
  <2>1. CASE l = <<>>
    BY <2>1 DEF Giveback
  <2>2. CASE l # <<>>
    <3>1. ListOK(l, Layout.top) /\ TopOK(Layout.top)
      BY <1>2, LayoutFacts, MemoryFields DEF MemoryOK, Whole, ZonesOK, Zone, AddressesOK
    <3>2. Tags(l) # {}
      <4>1. l \in Seq(Raw(Layout.top))
        BY <3>1 DEF ListOK
      <4>2. Len(l) \in 1 .. Len(l)
        BY <2>2, <4>1
      <4> QED
        BY <4>2 DEF Tags
    <3>3. /\ e.start \in 2 .. Layout.top /\ e.end \in 2 .. Layout.top /\ e.start <= e.end
      BY <3>1, <3>2, LowestIsFree DEF Lowest
    <3>4. Giveback = Bytes(e.start, ALIGN_DOWN(e.end - e.start, PageSize))
      BY <2>2 DEF Giveback
    <3> HIDE DEF e
    <3>5. Layout.top \in Nat /\ PageSize \in Nat \ {0}
      BY <3>1, MallocAssumption DEF TopOK
    <3>6. e.end - e.start \in Nat
      BY <3>3, <3>5
    <3> DEFINE n == ALIGN_DOWN(e.end - e.start, PageSize)
    <3>7. n \in Nat /\ n <= e.end - e.start
      BY <3>5, <3>6, AlignedDown
    <3> HIDE DEF n
    <3>8. Bytes(e.start, n) \subseteq 2 .. Layout.top
      BY <3>3, <3>5, <3>7 DEF Bytes
    <3> QED
      BY <3>4, <3>8 DEF n, Address
  <2> QED
    BY <2>1, <2>2
<1>6. ram' \subseteq Address'
  BY <1>1, <1>2, <1>5 DEF Address
<1> QED
  BY <1>1, <1>4, <1>6 DEF MallocInv, Address

\* The state malloc_init() leaves.
LEMMA InitHolds ==
  ASSUME Init
  PROVE  MallocInv /\ BlocksOf(AllTags(zones)) = {} /\ ebda = lowram
<1> DEFINE m == Setup(Layout)
<1>1. /\ Layout \in Layouts
      /\ zones = m.zones /\ handle = m.handle /\ ebda = m.ebda /\ lowram = m.lowram
      /\ RomEnd = Layout.romstart /\ running = 0 /\ romowned = {} /\ permtmp = {}
      /\ booted = FALSE
      /\ ram = ((2 .. FirstEbda(Layout) - 1) \cup
                UNION {Layout.ram[i].start .. Layout.ram[i].end - 1 :
                         i \in DOMAIN Layout.ram}) \ HighTable(Layout)
  BY DEF Init
<1>2. MemoryOK(m, Layout) /\ BlocksOf(AllTags(m.zones)) = {} /\ m.ebda = m.lowram
  BY <1>1, SetupOK
<1> HIDE DEF m
<1>3. memory = m
  <2>1. m = [zones |-> m.zones, handle |-> m.handle, ebda |-> m.ebda, lowram |-> m.lowram]
    BY <1>2 DEF MemoryOK, Whole, IsMemory
  <2>2. memory = [zones |-> m.zones, handle |-> m.handle, ebda |-> m.ebda,
                  lowram |-> m.lowram]
    BY <1>1 DEF memory
  <2> QED
    BY <2>1, <2>2, Zenon
<1>4. Layout.romstart \in 2 .. Layout.top /\ Layout.top \in Nat
      /\ FirstEbda(Layout) \in 2 .. Layout.top
  BY <1>1, LayoutFacts DEF Addressable, AddressesOK
<1>5. \A i \in DOMAIN Layout.ram :
        Layout.ram[i].start \in 2 .. Layout.top /\ Layout.ram[i].end \in 2 .. Layout.top
  BY <1>1, RamFacts DEF RamAt
<1>6. ram \subseteq 2 .. Layout.top
  <2>1. ASSUME NEW i \in DOMAIN Layout.ram,
               NEW x \in Layout.ram[i].start .. Layout.ram[i].end - 1
        PROVE  x \in 2 .. Layout.top
    BY <1>4, <1>5
  <2>2. 2 .. FirstEbda(Layout) - 1 \subseteq 2 .. Layout.top
    BY <1>4
  <2>3. ram \subseteq (2 .. FirstEbda(Layout) - 1) \cup
                UNION {Layout.ram[i].start .. Layout.ram[i].end - 1 :
                         i \in DOMAIN Layout.ram}
    BY <1>1
  <2> QED
    BY <2>1, <2>2, <2>3
<1> QED
  BY <1>1, <1>2, <1>3, <1>4, <1>6 DEF MallocInv, Address

\* What overdrew ZoneLow is not forgotten.
LEMMA StaysOverdrawn ==
  ASSUME [Next]_vars, overdrawn \in BOOLEAN
  PROVE  overdrawn' \in BOOLEAN /\ (overdrawn => overdrawn')
<1> DEFINE stays == overdrawn' \in BOOLEAN /\ (overdrawn => overdrawn')
<1>1. ASSUME NEW r \in Layout.requests, _malloc(r.zone, r.size, r.align) PROVE stays
  <2>1. overdrawn' = (overdrawn \/ Overdraws(memory, r.zone, r.size, r.align))
    BY <1>1 DEF _malloc
  <2> QED
    BY <2>1, Zenon
<1>2. ASSUME NEW data, Free(data) PROVE stays
  BY <1>2 DEF Free
<1>3. ASSUME NEW size, NEW h, NEW where, NEW permanent, NEW aligned,
             handle_pmm00(size, h, where, permanent, aligned)
      PROVE  stays
  <2>1. overdrawn' = \/ overdrawn
                     \/ where # 2 /\ Overdraws(memory, LowZone(permanent), size,
                                               PmmAlign(size, aligned))
    BY <1>3 DEF handle_pmm00
  <2> QED
    BY <2>1, Zenon
<1>4. ASSUME NEW size, ReserveRom(size) \/ rom_confirm(size) PROVE stays
  BY <1>4 DEF ReserveRom, rom_confirm
<1>5. ASSUME NEW moves, RomTakesMemory(moves) PROVE stays
  BY <1>5 DEF RomTakesMemory
<1>6. malloc_prepboot => stays
  BY DEF malloc_prepboot
<1>7. Booted \/ UNCHANGED vars => stays
  BY DEF Booted, vars
<1> HIDE DEF stays
<1>8. stays
  BY <1>1, <1>2, <1>3, <1>4, <1>5, <1>6, <1>7 DEF Next
<1> QED
  BY <1>8 DEF stays

\* Every handler keeps the invariant, and changes one block at most.
LEMMA NextKeeps ==
  ASSUME MallocInv, [Next]_vars, ~overdrawn'
  PROVE  MallocInv' /\ OneBlock(memory, memory')
<1> DEFINE kept == MallocInv' /\ OneBlock(memory, memory')
<1>1. ASSUME NEW r \in Layout.requests, _malloc(r.zone, r.size, r.align) PROVE kept
  BY <1>1, MallocStep
<1>2. ASSUME NEW data \in {e.start : e \in Ranges(zones)}, Free(data) PROVE kept
  BY <1>2, FreeStep
<1>3. ASSUME NEW size \in Layout.pmm, NEW h \in Handles \cup {DefaultHandle},
             NEW where \in 1 .. 3, NEW permanent \in BOOLEAN, NEW aligned \in BOOLEAN,
             handle_pmm00(size, h, where, permanent, aligned)
      PROVE  kept
  BY <1>3, PmmStep
<1>4. ASSUME NEW size \in Layout.roms, ReserveRom(size) \/ rom_confirm(size) PROVE kept
  BY <1>4, RomStep
<1>5. ASSUME NEW moves \in BOOLEAN, RomTakesMemory(moves) PROVE kept
  BY <1>5, TakesStep
<1>6. ASSUME malloc_prepboot PROVE kept
  BY <1>6, PrepbootStep
<1>7. ASSUME UNCHANGED vars PROVE kept
  <2>1. UNCHANGED <<Layout, zones, handle, ebda, lowram, RomEnd, running, romowned, ram,
                    permtmp, booted>>
    BY <1>7 DEF vars
  <2>2. memory' = memory
    BY <2>1 DEF memory
  <2>3. MemoryOK(memory', Layout') /\ OneBlock(memory, memory')
    BY <2>1, <2>2 DEF MallocInv, OneBlock
  <2> QED
    BY <2>1, <2>3 DEF MallocInv, Address
<1>8. Booted => UNCHANGED vars
  BY DEF Booted
<1> HIDE DEF kept
<1>9. kept
  BY <1>1, <1>2, <1>3, <1>4, <1>5, <1>6, <1>7, <1>8 DEF Next
<1> QED
  BY <1>9 DEF kept

\* What is in the lists between two calls.
LEMMA InfosAre ==
  ASSUME NEW l \in Seq(Raw(Layout.top)), \A t \in Tags(l) : t.at >= 2, Layout.top \in Nat
  PROVE  l \in Seq(Info)
<1>1. ASSUME NEW i \in 1 .. Len(l) PROVE l[i] \in Info
  <2>1. l[i] \in Raw(Layout.top)
    OBVIOUS
  <2>2. Tag(l[i]) \in Tags(l)
    BY DEF Tags
  <2>3. Tag(l[i]).at = l[i].at
    BY DEF Tag
  <2>4. l[i].at >= 2
    BY <2>2, <2>3
  <2> QED
    BY <2>1, <2>4 DEF Raw, Info, Address
<1> QED
  BY <1>1

\* The invariant says of the zones what the properties do.
LEMMA ZonesAre ==
  ASSUME MallocInv, overdrawn \in BOOLEAN
  PROVE  ZonesIntact
<1>1. /\ Layout \in Layouts /\ MemoryOK(memory, Layout)
      /\ RomEnd \in Address /\ running \in Nat /\ romowned \subseteq Address
      /\ ram \subseteq Address /\ permtmp \subseteq Address /\ booted \in BOOLEAN
  BY DEF MallocInv
<1>2. /\ ZonesOK(zones, Layout.top) /\ Settled(AllTags(zones))
      /\ HandlesOK(handle, Layout.top)
      /\ \A z \in Zone \ {"Low"} : Covered(zones[z]) = Given(Layout, z)
      /\ EbdaOK(memory, Layout)
  BY <1>1, MemoryFields DEF MemoryOK, Whole, Placed
<1>3. /\ Layout.top \in Nat /\ FirstEbda(Layout) \in 2 .. Layout.top
      /\ Layout.ebdaminimum \in 2 .. Layout.top
  BY <1>1, LayoutFacts DEF AddressesOK, TopOK
<1>4. \A z \in Zone : ListOK(zones[z], Layout.top)
  BY <1>2 DEF ZonesOK
<1>5. ebda \in Address /\ lowram \in Address
  BY <1>2, <1>3, MemoryFields DEF EbdaOK, Address
<1>6. zones \in [Zone -> Seq(Info)]
  <2>1. ASSUME NEW z \in Zone PROVE zones[z] \in Seq(Info)
    <3>1. zones[z] \in Seq(Raw(Layout.top))
      BY <1>4 DEF ListOK
    <3>2. \A t \in Tags(zones[z]) : t.at >= 2
      BY <1>2 DEF Settled, AllTags
    <3> QED
      BY <1>3, <3>1, <3>2, InfosAre
  <2>2. zones = [z \in Zone |-> zones[z]]
    BY <1>2 DEF ZonesOK
  <2> QED
    BY <2>1, <2>2
<1>7. TypeOK
  BY <1>1, <1>2, <1>5, <1>6 DEF TypeOK, HandlesOK, Address
<1>8. \A z \in Zone : DOMAIN zones[z] = 1 .. Len(zones[z])
  BY <1>6
<1>9. RangesDisjoint
  <2>1. ASSUME NEW e \in Ranges(zones) PROVE e.start + e.size <= e.end
    <3>1. PICK z \in Zone : \E i \in DOMAIN zones[z] : e = zones[z][i]
      BY DEF Ranges
    <3>2. PICK i \in 1 .. Len(zones[z]) : e = zones[z][i]
      BY <1>8, <3>1
    <3> QED
      BY <1>4, <3>2 DEF ListOK
  <2>2. ASSUME NEW z \in Zone, NEW i \in DOMAIN zones[z], NEW k \in DOMAIN zones[z], i < k
        PROVE  zones[z][k].end <= zones[z][i].start
    BY <1>4, <1>8, <2>2 DEF ListOK
  <2>3. \A y, z \in Zone : y # z => Covered(zones[y]) \cap Covered(zones[z]) = {}
    BY <1>2 DEF ZonesOK
  <2> QED
    BY <2>1, <2>2, <2>3 DEF RangesDisjoint
<1>10. NothingLost
  BY <1>2 DEF NothingLost
<1> QED
  BY <1>7, <1>9, <1>10 DEF ZonesIntact

\* Until ZoneLow is overdrawn the invariant holds.
UntilOverdrawn == overdrawn \in BOOLEAN /\ (overdrawn \/ MallocInv)

LEMMA UntilInit ==
  ASSUME Init
  PROVE  UntilOverdrawn
BY InitHolds DEF UntilOverdrawn, Init

LEMMA UntilNext ==
  ASSUME UntilOverdrawn, [Next]_vars
  PROVE  UntilOverdrawn' /\ (overdrawn' \/ (MallocInv /\ MallocInv'
                                            /\ OneBlock(memory, memory')))
<1>1. overdrawn' \in BOOLEAN /\ (overdrawn => overdrawn')
  BY StaysOverdrawn DEF UntilOverdrawn
<1>2. overdrawn' \/ (MallocInv /\ MallocInv' /\ OneBlock(memory, memory'))
  BY <1>1, NextKeeps DEF UntilOverdrawn
<1> QED
  BY <1>1, <1>2 DEF UntilOverdrawn

\* However drivers, option roms and PMM's callers allocate and free, in
\* whatever layout of memory, and wherever an allocation fails half way: no
\* byte is in two ranges, none that a zone was given is in no range, and each
\* list stays in order.  PMM may be asked for any s32 and drivers ask for any
\* size; where ZoneLow grows, the zones are claimed to be sound until
\* zonelow_expand() has moved the EBDA for more than the memory below it.
THEOREM ZonesCorrect == Spec => []ZonesIntact
<1>1. Init => UntilOverdrawn
  BY UntilInit
<1>2. UntilOverdrawn /\ [Next]_vars => UntilOverdrawn'
  BY UntilNext
<1>3. UntilOverdrawn => ZonesIntact
  BY ZonesAre DEF UntilOverdrawn, ZonesIntact
<1> QED
  BY <1>1, <1>2, <1>3, PTL DEF Spec

----------------------------------------------------------------------------
(* The allocator that malloc.c implements.                                 *)

\* The blocks of the model are those of the proofs.
LEMMA BlocksAre ==
  ASSUME NEW top, TopOK(top), NEW zs, ZonesOK(zs, top)
  PROVE  {[start |-> e.start, size |-> e.size] :
            e \in {f \in Ranges(zs) : f.size > 0 /\ ~IsDetail(f)}} = BlocksOf(AllTags(zs))
<1> DEFINE S == {[start |-> e.start, size |-> e.size] :
                   e \in {f \in Ranges(zs) : f.size > 0 /\ ~IsDetail(f)}}
<1>1. ASSUME NEW b \in S PROVE b \in BlocksOf(AllTags(zs))
  <2>1. PICK e \in Ranges(zs) :
          e.size > 0 /\ ~IsDetail(e) /\ b = [start |-> e.start, size |-> e.size]
    OBVIOUS
  <2>2. Tag(e) \in AllTags(zs)
    BY RangeTags
  <2>3. Tag(e).start = e.start /\ Tag(e).size = e.size /\ Tag(e).at = e.at
    BY DEF Tag
  <2>4. IsBlock(Tag(e))
    BY <2>1, <2>3 DEF IsBlock, IsDetail
  <2> QED
    BY <2>1, <2>2, <2>3, <2>4 DEF BlocksOf
<1>2. ASSUME NEW b \in BlocksOf(AllTags(zs)) PROVE b \in S
  <2>1. PICK t \in AllTags(zs) : IsBlock(t) /\ b = [start |-> t.start, size |-> t.size]
    BY DEF BlocksOf
  <2>2. PICK z \in Zone : t \in Tags(zs[z])
    BY <2>1 DEF AllTags
  <2>3. PICK i \in 1 .. Len(zs[z]) : t = Tag(zs[z][i])
    BY <2>2 DEF Tags
  <2> DEFINE e == zs[z][i]
  <2>4. DOMAIN zs[z] = 1 .. Len(zs[z])
    BY DEF ZonesOK, ListOK
  <2>5. e \in Ranges(zs)
    BY <2>4 DEF Ranges
  <2>6. t.start = e.start /\ t.size = e.size /\ t.at = e.at
    BY <2>3 DEF Tag
  <2> HIDE DEF e
  <2>7. e.size > 0 /\ ~IsDetail(e)
    BY <2>1, <2>6 DEF IsBlock, IsDetail
  <2> QED
    BY <2>1, <2>5, <2>6, <2>7
<1> HIDE DEF S
<1>3. S = BlocksOf(AllTags(zs))
  BY <1>1, <1>2
<1> QED
  BY <1>3 DEF S

\* Two blocks share no byte.
LEMMA BlocksApart ==
  ASSUME NEW top, TopOK(top), NEW zs, ZonesOK(zs, top),
         NEW b \in BlocksOf(AllTags(zs)), NEW c \in BlocksOf(AllTags(zs)), b # c
  PROVE  /\ b.size > 0
         /\ b.start .. b.start + b.size - 1 \cap (c.start .. c.start + c.size - 1) = {}
<1>1. PICK t \in AllTags(zs) : IsBlock(t) /\ b = [start |-> t.start, size |-> t.size]
  BY DEF BlocksOf
<1>2. PICK u \in AllTags(zs) : IsBlock(u) /\ c = [start |-> u.start, size |-> u.size]
  BY DEF BlocksOf
<1>3. t.at # u.at
  <2>1. ASSUME t.at = u.at PROVE FALSE
    <3>1. t = u
      BY <2>1, TagsUnique
    <3> QED
      BY <1>1, <1>2, <3>1
  <2> QED
    BY <2>1
<1>4. t.size > 0 /\ u.size > 0
  BY <1>1, <1>2 DEF IsBlock
<1>5. t.start + t.size <= u.start \/ u.start + u.size <= t.start
  BY <1>3, <1>4, ApartInUse
<1>6. /\ t.start \in Int /\ t.size \in Int /\ u.start \in Int /\ u.size \in Int
  BY AllTagFacts DEF TopOK
<1>7. b.start = t.start /\ b.size = t.size /\ c.start = u.start /\ c.size = u.size
  BY <1>1, <1>2
<1> QED
  BY <1>4, <1>5, <1>6, <1>7

\* One block more or less is a step of the allocator.
LEMMA StepsAre ==
  ASSUME MallocInv, MallocInv', OneBlock(memory, memory')
  PROVE  [Abstract!Alloc \/ Abstract!Free]_Blocks
<1> DEFINE B == BlocksOf(AllTags(zones))
           C == BlocksOf(AllTags(zones'))
<1>1. /\ Layout \in Layouts /\ MemoryOK(memory, Layout)
      /\ Layout' \in Layouts /\ MemoryOK(memory', Layout')
  BY DEF MallocInv
<1>2. memory.zones = zones /\ memory'.zones = zones'
  BY DEF memory
<1>3. /\ TopOK(Layout.top) /\ ZonesOK(zones, Layout.top)
      /\ TopOK(Layout'.top) /\ ZonesOK(zones', Layout'.top)
  BY <1>1, <1>2, LayoutFacts DEF AddressesOK, MemoryOK, Whole
<1>4. Blocks = B
  BY <1>3, BlocksAre DEF Blocks
<1>5. Blocks' = C
  <2>1. Blocks' = {[start |-> e.start, size |-> e.size] :
                     e \in {f \in Ranges(zones') : f.size > 0 /\ ~IsDetail(f)}}
    BY DEF Blocks
  <2> QED
    BY <1>3, <2>1, BlocksAre
<1>6. \/ C = B
      \/ \E b \in C : C = B \cup {b} /\ b.start % MinAlign = 0
      \/ \E b \in B : C = B \ {b}
  BY <1>2 DEF OneBlock
<1> HIDE DEF B, C
<1>7. CASE C = B
  BY <1>4, <1>5, <1>7
<1>8. CASE C # B /\ \E b \in C : C = B \cup {b} /\ b.start % MinAlign = 0
  <2>1. PICK b \in C : C = B \cup {b} /\ b.start % MinAlign = 0
    BY <1>8
  <2>2. b \notin B
    BY <1>8, <2>1
  <2>3. b.size > 0
    BY <2>1 DEF C, BlocksOf, IsBlock
  <2>4. ASSUME NEW c \in B PROVE Abstract!Bytes(b) \cap Abstract!Bytes(c) = {}
    <3>1. c \in C /\ c # b
      BY <2>1, <2>2
    <3> QED
      BY <1>3, <2>1, <3>1, BlocksApart DEF Abstract!Bytes, C
  <2>5. Abstract!Alloc
    BY <1>4, <1>5, <2>1, <2>2, <2>3, <2>4 DEF Abstract!Alloc
  <2> QED
    BY <2>5
<1>9. CASE \E b \in B : C = B \ {b}
  BY <1>4, <1>5, <1>9 DEF Abstract!Free
<1> QED
  BY <1>6, <1>7, <1>8, <1>9

\* malloc_palloc() and malloc_pfree() are an allocator: whatever a handler
\* does, it adds one block that is apart from all others, or removes one, and
\* never moves or resizes another, until ZoneLow is overdrawn.
THEOREM AllocatorImplemented == Spec => ImplementsAllocator
<1>1. Init => UntilOverdrawn /\ Abstract!AllocatorInit
  <2> SUFFICES ASSUME Init PROVE UntilOverdrawn /\ Abstract!AllocatorInit
    OBVIOUS
  <2>1. MallocInv /\ BlocksOf(AllTags(zones)) = {}
    BY InitHolds
  <2>2. TopOK(Layout.top) /\ ZonesOK(zones, Layout.top)
    BY <2>1, LayoutFacts DEF MallocInv, AddressesOK, MemoryOK, Whole, memory
  <2>3. Blocks = {}
    BY <2>1, <2>2, BlocksAre DEF Blocks
  <2> QED
    BY <2>3, UntilInit DEF Abstract!AllocatorInit
<1>2. UntilOverdrawn /\ [Next]_vars
        => UntilOverdrawn' /\ [overdrawn' \/ Abstract!Alloc \/ Abstract!Free]_Blocks
  BY UntilNext, StepsAre
<1> QED
  BY <1>1, <1>2, PTL DEF Spec, ImplementsAllocator

----------------------------------------------------------------------------
(* Memory stays with its owner.                                            *)

\* Where base memory, the low zones and the f-segment lie.
BoundsOK(l) ==
  /\ l.ebdasize \in Nat /\ HeaderReserve \in Nat
  /\ {FirstEbda(l), LowStart(l), l.varlow, l.fseg.start, l.fseg.end, l.lowramend,
      l.romstart, l.zonelow, l.ebdaminimum} \subseteq Nat
  /\ l.ebdaminimum <= FirstEbda(l) /\ FirstEbda(l) + l.ebdasize <= LowStart(l)
  /\ LowStart(l) <= l.varlow /\ l.varlow <= l.fseg.start /\ l.fseg.start <= l.fseg.end
  /\ l.upper => l.romstart <= l.zonelow /\ LowStart(l) = l.zonelow + HeaderReserve
  /\ ~l.upper => l.varlow <= l.lowramend

\* The layout says so.
LEMMA BoundsAre ==
  ASSUME NEW l \in Layouts
  PROVE  BoundsOK(l)
<1>1. AddressesOK(l) /\ Addressable(l) /\ AddressesInOrder(l)
  BY LayoutFacts
<1>2. /\ l.ebdasize \in Nat /\ HeaderReserve \in Nat
      /\ l.ebdaminimum <= FirstEbda(l) /\ FirstEbda(l) + l.ebdasize <= LowStart(l)
      /\ FirstEbda(l) \in 2 .. l.top /\ LowStart(l) \in 2 .. l.top /\ l.top \in Nat
  BY <1>1, MallocAssumption DEF AddressesOK, TopOK
<1>3. {l.varlow, l.fseg.start, l.fseg.end, l.lowramend, l.romstart, l.zonelow,
       l.ebdaminimum} \subseteq 2 .. l.top
  BY <1>1 DEF Addressable
<1>4. {FirstEbda(l), LowStart(l), l.varlow, l.fseg.start, l.fseg.end, l.lowramend,
       l.romstart, l.zonelow, l.ebdaminimum} \subseteq Nat
  BY <1>2, <1>3
<1>5. /\ LowStart(l) <= l.varlow /\ l.varlow <= l.fseg.start /\ l.fseg.start <= l.fseg.end
      /\ l.upper => l.romstart <= l.zonelow
      /\ ~l.upper => l.varlow <= l.lowramend
  BY <1>1 DEF AddressesInOrder
<1>6. l.upper => LowStart(l) = l.zonelow + HeaderReserve
  BY DEF LowStart
<1> QED
  BY <1>2, <1>4, <1>5, <1>6 DEF BoundsOK

\* ZoneFSeg is the f-segment's, ZoneHigh the high table.
LEMMA PermanentZones ==
  ASSUME NEW l \in Layouts
  PROVE  /\ \A x \in Given(l, "FSeg") : x \in Int /\ l.fseg.start <= x /\ x < l.fseg.end
         /\ Given(l, "High") \subseteq HighTable(l)
<1>1. /\ \A z, s, e : /\ Memory(z, s, e).zone = z /\ Memory(z, s, e).start = s
                      /\ Memory(z, s, e).end = e
  BY DEF Memory
<1>2. \A k \in 1 .. Len(l.ram) : TmpHighRegions(l)[k].zone = "TmpHigh"
  BY <1>1, RamFacts DEF TmpHighRegions
<1>3. ASSUME NEW x \in Given(l, "FSeg") PROVE x \in l.fseg.start .. l.fseg.end - 1
  <2>1. PICK i \in 1 .. Len(Regions(l)) :
          Regions(l)[i].zone = "FSeg" /\ x \in Regions(l)[i].start .. Regions(l)[i].end - 1
    BY GivenMeans
  <2>2. RegionIs(l, i, Regions(l)[i])
    BY RegionsAre
  <2> QED
    BY <1>1, <1>2, <2>1, <2>2 DEF RegionIs
<1>4. ASSUME NEW x \in Given(l, "High") PROVE x \in HighTable(l)
  <2>1. PICK i \in 1 .. Len(Regions(l)) :
          Regions(l)[i].zone = "High" /\ x \in Regions(l)[i].start .. Regions(l)[i].end - 1
    BY GivenMeans
  <2>2. RegionIs(l, i, Regions(l)[i])
    BY RegionsAre
  <2> DEFINE r == Regions(l)[i]
             v == NewEnd(l, HighRam(l))
             w == v + l.hightable
  <2>3. r.zone = "High" /\ RegionIs(l, i, r) /\ x \in r.start .. r.end - 1
    BY <2>1, <2>2
  <2> HIDE DEF r
  <2>4. HighRam(l) # 0 /\ r = Memory("High", v, w)
    BY <1>1, <1>2, <2>3 DEF RegionIs
  <2>5. HighTable(l) = v .. w - 1
    <3>1. v \in Int /\ l.hightable \in Int
      <4>1. HighAt(l)
        BY <2>4, RamFacts
      <4> QED
        BY <4>1 DEF HighAt
    <3>2. HighTable(l) = Bytes(v, l.hightable)
      BY <2>4 DEF HighTable
    <3> HIDE DEF v
    <3> QED
      BY <3>1, <3>2 DEF Bytes
  <2> HIDE DEF v, w
  <2>6. r.start = v /\ r.end = w
    BY <1>1, <2>4
  <2> QED
    BY <2>3, <2>5, <2>6
<1>5. l.fseg.start \in Int /\ l.fseg.end \in Int
  BY BoundsAre DEF BoundsOK
<1> QED
  BY <1>3, <1>4, <1>5

\* Until the boot the map calls nothing RAM that lies between the first EBDA
\* and the f-segment's end, or in the high table.
RamKept ==
  \A x \in ram :
    (x < FirstEbda(Layout) \/ Layout.fseg.end <= x) /\ x \notin HighTable(Layout)

\* A permanent block of ZoneTmpHigh is no RAM.
PermKept ==
  \A s \in permtmp : \E b \in BlocksOf(AllTags(zones)) :
    b.start = s /\ Bytes(s, b.size) \cap ram = {}

\* ZoneLow lies above the option roms, if it shares their area.
RomsBelow == UPPERMEMORY => StartsFrom(zones["Low"], RomEnd + running)

\* What an option rom took is not ZoneLow's, and either below the EBDA, which
\* then stays, or above it.
Owned ==
  ~UPPERMEMORY =>
    \/ romowned = {} /\ ebda = lowram
    \/ /\ ebda = lowram
       /\ \A x \in romowned : x \notin Covered(zones["Low"]) /\ ebda + Layout.ebdasize <= x
    \/ lowram < ebda /\ \A x \in romowned : x < ebda

\* What is true of the owners of memory between any two calls.
OwnersInv ==
  /\ MallocInv
  /\ ~booted => RamKept /\ PermKept
  /\ RomsBelow /\ Owned
  /\ PermanentKept

\* An action that keeps ZoneLow takes no memory of option roms or the EBDA.
LEMMA LowKeptKeeps ==
  ASSUME MallocInv, MallocInv', RomsBelow, Owned, LowKept(memory, memory', Layout),
         UNCHANGED <<Layout, RomEnd, running, romowned>>
  PROVE  RomsBelow' /\ Owned'
<1> DEFINE l == zones["Low"]
           r == zones'["Low"]
<1>1. Layout \in Layouts /\ MemoryOK(memory, Layout) /\ RomEnd \in Address /\ running \in Nat
  BY DEF MallocInv
<1>2. Between(l, LowFloor(memory, Layout), Layout.varlow)
  BY <1>1, MemoryFields DEF MemoryOK, Placed
<1>3. /\ memory'.zones = zones' /\ memory'.ebda = ebda' /\ memory'.lowram = lowram'
      /\ memory.zones = zones /\ memory.ebda = ebda /\ memory.lowram = lowram
  BY DEF memory
<1>4. /\ ebda \in Nat /\ ebda' \in Nat /\ ebda' <= ebda
      /\ UPPERMEMORY => \A lo, hi \in Nat : Between(l, lo, hi) => Between(r, lo, hi)
      /\ ~UPPERMEMORY =>
           /\ \A x \in Covered(r) :
                x \in Covered(l) \/ (x \in Int /\ x < ebda + Layout.ebdasize)
           /\ IF ebda = lowram THEN ebda' = lowram' ELSE ebda' = ebda /\ lowram' = lowram
  BY <1>3 DEF LowKept, UPPERMEMORY
<1>5. UPPERMEMORY' = UPPERMEMORY
  BY DEF UPPERMEMORY
<1>6. RomsBelow'
  <2> SUFFICES ASSUME UPPERMEMORY PROVE StartsFrom(r, RomEnd + running)
    BY <1>5 DEF RomsBelow
  <2>1. StartsFrom(l, RomEnd + running)
    BY DEF RomsBelow
  <2>2. Between(l, RomEnd + running, Layout.varlow)
    BY <1>2, <2>1 DEF StartsFrom, Between
  <2>3. RomEnd + running \in Nat /\ Layout.varlow \in Nat
    <3>1. Layout.varlow \in Nat
      BY <1>1, BoundsAre DEF BoundsOK
    <3> QED
      BY <1>1, <3>1 DEF Address
  <2>4. Between(r, RomEnd + running, Layout.varlow)
    BY <1>4, <2>2, <2>3
  <2> QED
    BY <2>4 DEF StartsFrom, Between
<1>7. Owned'
  <2> SUFFICES ASSUME ~UPPERMEMORY
               PROVE  \/ romowned = {} /\ ebda' = lowram'
                      \/ /\ ebda' = lowram'
                         /\ \A x \in romowned : x \notin Covered(r)
                                                /\ ebda' + Layout.ebdasize <= x
                      \/ lowram' < ebda' /\ \A x \in romowned : x < ebda'
    BY <1>5 DEF Owned
  <2>1. CASE romowned = {} /\ ebda = lowram
    BY <1>4, <2>1
  <2>2. CASE /\ ebda = lowram
             /\ \A x \in romowned : x \notin Covered(l) /\ ebda + Layout.ebdasize <= x
    <3>1. ASSUME NEW x \in romowned
          PROVE  x \notin Covered(r) /\ ebda' + Layout.ebdasize <= x
      <4>1. x \in Int /\ Layout.ebdasize \in Nat
        <5>1. x \in Address
          BY DEF MallocInv
        <5>2. BoundsOK(Layout)
          BY <1>1, BoundsAre
        <5> QED
          BY <5>1, <5>2 DEF BoundsOK, Address
      <4>2. x \notin Covered(l) /\ ebda + Layout.ebdasize <= x
        BY <2>2
      <4> QED
        BY <1>4, <4>1, <4>2
    <3> QED
      BY <1>4, <2>2, <3>1
  <2>3. CASE lowram < ebda /\ \A x \in romowned : x < ebda
    <3>1. lowram \in Nat
      BY <1>1, MemoryFields DEF MemoryOK, Placed, EbdaOK
    <3>2. ebda # lowram
      BY <1>4, <2>3, <3>1
    <3> QED
      BY <1>4, <2>3, <3>2
  <2> QED
    BY <2>1, <2>2, <2>3 DEF Owned
<1> QED
  BY <1>6, <1>7

\* The map loses RAM and the permanent blocks keep theirs.
LEMMA MapShrinks ==
  ASSUME PermKept, NoneFreed(memory, memory'), PermGrows
  PROVE  PermKept'
<1>1. memory.zones = zones /\ memory'.zones = zones'
  BY DEF memory
<1>2. BlocksOf(AllTags(zones)) \subseteq BlocksOf(AllTags(zones'))
  BY <1>1 DEF NoneFreed
<1>3. ASSUME NEW s \in permtmp'
      PROVE  \E b \in BlocksOf(AllTags(zones')) :
               b.start = s /\ Bytes(s, b.size) \cap ram' = {}
  <2>1. CASE s \in permtmp
    <3>1. PICK b \in BlocksOf(AllTags(zones)) :
            b.start = s /\ Bytes(s, b.size) \cap ram = {}
      BY <2>1 DEF PermKept
    <3>2. ram' \subseteq ram
      BY DEF PermGrows
    <3> QED
      BY <1>2, <3>1, <3>2
  <2>2. CASE s \notin permtmp
    BY <2>2 DEF PermGrows
  <2> QED
    BY <2>1, <2>2
<1> QED
  BY <1>3 DEF PermKept

\* An action before the boot that adds no RAM.
LEMMA BeforeBoot ==
  ASSUME RamKept, ram' \subseteq ram, Layout' = Layout, booted' = FALSE
  PROVE  RamKept' /\ PermanentKept'
BY DEF RamKept, PermanentKept

\* malloc_init() has given no memory away.
LEMMA OwnersInit ==
  ASSUME Init
  PROVE  OwnersInv
<1>1. /\ Layout \in Layouts
      /\ RomEnd = Layout.romstart /\ running = 0 /\ romowned = {} /\ permtmp = {}
      /\ booted = FALSE
      /\ ram = ((2 .. FirstEbda(Layout) - 1) \cup
                UNION {Layout.ram[i].start .. Layout.ram[i].end - 1 :
                         i \in DOMAIN Layout.ram}) \ HighTable(Layout)
  BY DEF Init
<1>2. MallocInv /\ ebda = lowram
  BY InitHolds
<1>3. BoundsOK(Layout)
  BY <1>1, BoundsAre
<1>4. RamKept
  <2> SUFFICES ASSUME NEW x \in ram
               PROVE  (x < FirstEbda(Layout) \/ Layout.fseg.end <= x)
                      /\ x \notin HighTable(Layout)
    BY DEF RamKept
  <2>1. CASE x \in 2 .. FirstEbda(Layout) - 1
    BY <1>1, <1>3, <2>1 DEF BoundsOK
  <2>2. ASSUME NEW i \in DOMAIN Layout.ram, x \in Layout.ram[i].start .. Layout.ram[i].end - 1
        PROVE  Layout.fseg.end <= x
    <3>1. RamAt(Layout, i)
      BY <1>1, RamFacts
    <3>2. Layout.fseg.end <= Layout.ram[i].start /\ Layout.ram[i].start \in Int
          /\ Layout.ram[i].end \in Int /\ Layout.fseg.end \in Int
      BY <1>3, <3>1 DEF RamAt, BoundsOK
    <3> QED
      BY <2>2, <3>2
  <2> QED
    BY <1>1, <2>1, <2>2
<1>5. RomsBelow
  <2> SUFFICES ASSUME UPPERMEMORY, NEW i \in 1 .. Len(zones["Low"])
               PROVE  RomEnd + running <= zones["Low"][i].start
    BY DEF RomsBelow, StartsFrom
  <2>1. MemoryOK(memory, Layout)
    BY <1>2 DEF MallocInv
  <2>2. Between(zones["Low"], LowStart(Layout), Layout.varlow)
    BY <2>1, MemoryFields DEF MemoryOK, Placed, LowFloor, UPPERMEMORY
  <2>3. LowStart(Layout) <= zones["Low"][i].start
    BY <2>2 DEF Between
  <2>4. zones["Low"][i].start \in Int
    <3>1. ListOK(zones["Low"], Layout.top) /\ Layout.top \in Nat
      BY <1>1, <2>1, LayoutFacts, MemoryFields
         DEF MemoryOK, Whole, ZonesOK, Zone, AddressesOK, TopOK
    <3>2. zones["Low"][i].start \in 2 .. Layout.top
      BY <3>1, RangeFacts DEF ListOK
    <3> QED
      BY <3>2
  <2>5. /\ Layout.romstart \in Nat /\ Layout.zonelow \in Nat /\ HeaderReserve \in Nat
        /\ Layout.romstart <= Layout.zonelow
        /\ LowStart(Layout) = Layout.zonelow + HeaderReserve
    BY <1>3 DEF BoundsOK, UPPERMEMORY
  <2> QED
    BY <1>1, <2>3, <2>4, <2>5, SMTT(40)
<1> QED
  BY <1>1, <1>2, <1>4, <1>5 DEF OwnersInv, PermKept, Owned, PermanentKept

\* A driver's allocation takes nobody's memory.
LEMMA MallocOwners ==
  ASSUME OwnersInv, NEW r \in Layout.requests, _malloc(r.zone, r.size, r.align),
         ~overdrawn'
  PROVE  OwnersInv'
<1>1. /\ MallocInv /\ RomsBelow /\ Owned
      /\ ~booted => RamKept /\ PermKept
  BY DEF OwnersInv
<1>2. /\ ~booted
      /\ UNCHANGED <<Layout, RomEnd, running, romowned, ram, permtmp, booted>>
  BY DEF _malloc
<1>3. /\ MallocInv' /\ LowKept(memory, memory', Layout) /\ NoneFreed(memory, memory')
  BY <1>1, MallocStep
<1>4. RomsBelow' /\ Owned'
  BY <1>1, <1>2, <1>3, LowKeptKeeps
<1>5. PermGrows
  BY <1>2 DEF PermGrows
<1>6. PermKept'
  BY <1>1, <1>2, <1>3, <1>5, MapShrinks
<1>7. RamKept' /\ PermanentKept'
  <2>1. booted' = FALSE
    BY <1>1, <1>2 DEF MallocInv
  <2> QED
    BY <1>1, <1>2, <2>1, BeforeBoot
<1> QED
  BY <1>3, <1>4, <1>6, <1>7 DEF OwnersInv

\* PMM's allocation takes nobody's memory, and makes what is permanent no RAM.
LEMMA PmmOwners ==
  ASSUME OwnersInv, NEW size \in Layout.pmm, NEW h \in Handles \cup {DefaultHandle},
         NEW where \in 1 .. 3, NEW permanent \in BOOLEAN, NEW aligned \in BOOLEAN,
         handle_pmm00(size, h, where, permanent, aligned), ~overdrawn'
  PROVE  OwnersInv'
<1>1. /\ MallocInv /\ RomsBelow /\ Owned
      /\ ~booted => RamKept /\ PermKept
  BY DEF OwnersInv
<1>2. ~booted /\ UNCHANGED <<Layout, RomEnd, running, romowned, booted>>
  BY DEF handle_pmm00
<1>3. /\ MallocInv' /\ LowKept(memory, memory', Layout) /\ NoneFreed(memory, memory')
      /\ PermGrows
  BY <1>1, PmmStep
<1>4. RomsBelow' /\ Owned'
  BY <1>1, <1>2, <1>3, LowKeptKeeps
<1>5. PermKept'
  BY <1>1, <1>2, <1>3, MapShrinks
<1>6. RamKept' /\ PermanentKept'
  <2>1. booted' = FALSE /\ ram' \subseteq ram
    BY <1>1, <1>2, <1>3 DEF MallocInv, PermGrows
  <2> QED
    BY <1>1, <1>2, <2>1, BeforeBoot
<1> QED
  BY <1>3, <1>4, <1>5, <1>6 DEF OwnersInv

\* free() takes nobody's memory; what it frees is permanent no more.
LEMMA FreeOwners ==
  ASSUME OwnersInv, NEW data, Free(data)
  PROVE  OwnersInv'
<1>1. /\ MallocInv /\ RomsBelow /\ Owned
      /\ ~booted => RamKept /\ PermKept
  BY DEF OwnersInv
<1>2. /\ ~booted /\ permtmp' = permtmp \ {data}
      /\ UNCHANGED <<Layout, RomEnd, running, romowned, ram, booted>>
  BY DEF Free
<1>3. MallocInv' /\ FreeOK(memory, memory', data, Layout)
  BY <1>1, FreeStep
<1>4. RomsBelow' /\ Owned'
  BY <1>1, <1>2, <1>3, LowKeptKeeps DEF FreeOK
<1>5. PermKept'
  <2>1. memory.zones = zones /\ memory'.zones = zones'
    BY DEF memory
  <2>2. PICK c \in BlocksOf(AllTags(zones)) :
          c.start = data /\ BlocksOf(AllTags(zones')) = BlocksOf(AllTags(zones)) \ {c}
    BY <1>3, <2>1 DEF FreeOK
  <2>3. ASSUME NEW s \in permtmp'
        PROVE  \E b \in BlocksOf(AllTags(zones')) :
                 b.start = s /\ Bytes(s, b.size) \cap ram' = {}
    <3>1. s \in permtmp /\ s # data
      BY <1>2
    <3>2. PICK b \in BlocksOf(AllTags(zones)) :
            b.start = s /\ Bytes(s, b.size) \cap ram = {}
      BY <1>1, <1>2, <3>1 DEF PermKept
    <3>3. b # c
      BY <2>2, <3>1, <3>2
    <3> QED
      BY <1>2, <2>2, <3>2, <3>3
  <2> QED
    BY <2>3 DEF PermKept
<1>6. RamKept' /\ PermanentKept'
  <2>1. booted' = FALSE
    BY <1>1, <1>2 DEF MallocInv
  <2> QED
    BY <1>1, <1>2, <2>1, BeforeBoot
<1> QED
  BY <1>3, <1>4, <1>5, <1>6 DEF OwnersInv

\* ZoneLow gives way to a rom in whole, or not at all.
LEMMA RomOwners ==
  ASSUME OwnersInv, NEW size \in Layout.roms, ReserveRom(size) \/ rom_confirm(size)
  PROVE  OwnersInv'
<1>1. /\ MallocInv /\ RomsBelow /\ Owned
      /\ ~booted => RamKept /\ PermKept
  BY DEF OwnersInv
<1>2. ~booted
  BY DEF ReserveRom, rom_confirm
<1>3. MallocInv' /\ RomPlaced
  BY <1>1, RomStep
<1>4. /\ UNCHANGED <<Layout, ebda, lowram, romowned, ram, permtmp, booted>>
      /\ BlocksOf(AllTags(zones')) = BlocksOf(AllTags(zones))
      /\ ~UPPERMEMORY => zones' = zones
      /\ UPPERMEMORY => \/ zones' = zones /\ RomEnd' = RomEnd /\ running' = 0
                       \/ StartsFrom(zones'["Low"], RomEnd' + running')
  BY <1>3 DEF RomPlaced
<1>5. UPPERMEMORY' = UPPERMEMORY
  BY <1>4 DEF UPPERMEMORY
<1>6. RomsBelow'
  <2> SUFFICES ASSUME UPPERMEMORY, zones' = zones, RomEnd' = RomEnd, running' = 0
               PROVE  StartsFrom(zones'["Low"], RomEnd' + running')
    BY <1>4, <1>5 DEF RomsBelow
  <2>1. StartsFrom(zones["Low"], RomEnd + running)
    BY <1>1 DEF RomsBelow
  <2>2. /\ RomEnd \in Nat /\ running \in Nat
        /\ ListOK(zones["Low"], Layout.top) /\ Layout.top \in Nat
    BY <1>1, LayoutFacts, MemoryFields
       DEF MallocInv, MemoryOK, Whole, ZonesOK, Zone, AddressesOK, TopOK, Address
  <2>3. ASSUME NEW i \in 1 .. Len(zones["Low"]) PROVE RomEnd + 0 <= zones["Low"][i].start
    <3>1. zones["Low"][i].start \in 2 .. Layout.top
      BY <2>2, RangeFacts DEF ListOK
    <3>2. RomEnd + running <= zones["Low"][i].start
      BY <2>1 DEF StartsFrom
    <3> QED
      BY <2>2, <3>1, <3>2
  <2> QED
    BY <2>3 DEF StartsFrom
<1>7. Owned'
  BY <1>1, <1>4, <1>5 DEF Owned
<1>8. PermKept'
  BY <1>1, <1>2, <1>4 DEF PermKept
<1>9. RamKept' /\ PermanentKept'
  <2>1. booted' = FALSE
    BY <1>1, <1>2, <1>4 DEF MallocInv
  <2> QED
    BY <1>1, <1>2, <1>4, <2>1, BeforeBoot
<1> QED
  BY <1>3, <1>6, <1>7, <1>8, <1>9 DEF OwnersInv

\* What an option rom takes for itself is neither ZoneLow's nor the EBDA's.
LEMMA TakesOwners ==
  ASSUME OwnersInv, NEW moves \in BOOLEAN, RomTakesMemory(moves)
  PROVE  OwnersInv'
<1>1. /\ MallocInv /\ RomsBelow /\ Owned
      /\ ~booted => RamKept /\ PermKept
  BY DEF OwnersInv
<1>2. /\ UNCHANGED <<Layout, zones, handle, RomEnd, running, ram, permtmp, booted>>
      /\ ~booted /\ ~UPPERMEMORY /\ lowram = ebda /\ ebda - Kb >= Layout.ebdaminimum
      /\ lowram' = lowram - Kb
      /\ ebda' = IF moves THEN ebda - Kb ELSE ebda
      /\ romowned' = IF moves THEN Bytes(ebda - Kb + Layout.ebdasize, Kb)
                     ELSE Bytes(ebda - Kb, Kb)
  BY DEF RomTakesMemory
<1>3. MallocInv'
  BY <1>1, TakesStep
<1>4. UPPERMEMORY' = UPPERMEMORY
  BY <1>2 DEF UPPERMEMORY
<1>5. RomsBelow'
  BY <1>2, <1>4 DEF RomsBelow
<1>6. /\ Layout \in Layouts /\ MemoryOK(memory, Layout)
  BY <1>1 DEF MallocInv
<1>7. ebda \in Nat /\ Kb \in Nat \ {0} /\ Layout.ebdasize \in Nat
  <2>1. EbdaOK(memory, Layout) /\ AddressesOK(Layout)
    BY <1>6, LayoutFacts DEF MemoryOK, Placed
  <2> QED
    BY <2>1, MemoryFields DEF EbdaOK, AddressesOK
<1>8. Owned'
  <2>1. CASE moves
    <3>1. ebda' = ebda - Kb /\ lowram' = ebda - Kb
          /\ romowned' = Bytes(ebda - Kb + Layout.ebdasize, Kb)
      BY <1>2, <2>1
    <3>2. ASSUME NEW x \in romowned'
          PROVE  x \notin Covered(zones["Low"]) /\ ebda' + Layout.ebdasize <= x
      <4>1. x \in Int /\ ebda - Kb + Layout.ebdasize <= x /\ x < ebda + Layout.ebdasize
        BY <1>7, <3>1, <3>2 DEF Bytes
      <4>2. ListOK(zones["Low"], Layout.top)
            /\ Between(zones["Low"], ebda + Layout.ebdasize, Layout.varlow)
        BY <1>2, <1>6, MemoryFields
           DEF MemoryOK, Whole, Placed, ZonesOK, Zone, LowFloor, UPPERMEMORY
      <4>3. ebda + Layout.ebdasize \in Nat /\ Layout.varlow \in Nat
        BY <1>6, <1>7, BoundsAre DEF BoundsOK
      <4>4. Covered(zones["Low"]) \subseteq ebda + Layout.ebdasize .. Layout.varlow - 1
        BY <4>2, <4>3, CoveredBetween
      <4> QED
        BY <1>7, <3>1, <4>1, <4>3, <4>4
    <3> QED
      BY <1>2, <3>1, <3>2 DEF Owned
  <2>2. CASE ~moves
    <3>1. ebda' = ebda /\ lowram' = ebda - Kb /\ romowned' = Bytes(ebda - Kb, Kb)
      BY <1>2, <2>2
    <3>2. \A x \in romowned' : x < ebda'
      BY <1>7, <3>1 DEF Bytes
    <3>3. lowram' < ebda'
      BY <1>7, <3>1
    <3> QED
      BY <3>2, <3>3 DEF Owned
  <2> QED
    BY <2>1, <2>2
<1>9. PermKept'
  BY <1>1, <1>2 DEF PermKept
<1>10. RamKept' /\ PermanentKept'
  <2>1. booted' = FALSE
    BY <1>1, <1>2 DEF MallocInv
  <2> QED
    BY <1>1, <1>2, <2>1, BeforeBoot
<1> QED
  BY <1>3, <1>5, <1>8, <1>9, <1>10 DEF OwnersInv

\* Bytes in use are the zone's.
LEMMA UsedBytes ==
  ASSUME MallocInv, NEW z \in Zone, NEW i \in 1 .. Len(zones[z]), zones[z][i].size > 0,
         NEW x \in Bytes(zones[z][i].start, zones[z][i].size)
  PROVE  /\ x \in Covered(zones[z]) /\ x \in Int
         /\ zones[z][i].start <= x /\ x < zones[z][i].end
<1> DEFINE e == zones[z][i]
           top == Layout.top
<1>1. ListOK(zones[z], top) /\ top \in Nat
  <2>1. Layout \in Layouts /\ Whole(memory, top)
    BY DEF MallocInv, MemoryOK
  <2>2. top \in Nat
    BY <2>1, LayoutFacts DEF AddressesOK, TopOK
  <2> QED
    BY <2>1, <2>2, MemoryFields DEF Whole, ZonesOK
<1>2. zones[z] \in Seq(Raw(top)) /\ e.start + e.size <= e.end
  BY <1>1 DEF ListOK
<1>3. e.start \in 2 .. top /\ e.end \in 2 .. top /\ e.size \in 0 .. top
  BY <1>1, <1>2, RangeFacts
<1>4. x \in Bytes(e.start, e.size)
  OBVIOUS
<1> HIDE DEF e
<1>5. x \in Int /\ e.start <= x /\ x < e.end
  BY <1>1, <1>2, <1>3, <1>4 DEF Bytes
<1> QED
  BY <1>2, <1>5, CoveredMeans DEF e

\* malloc_prepboot() gives nothing back that is in use.
LEMMA GivebackFree ==
  ASSUME MallocInv, NEW z \in Zone, NEW i \in 1 .. Len(zones[z]), zones[z][i].size > 0,
         NEW x \in Bytes(zones[z][i].start, zones[z][i].size)
  PROVE  x \notin Giveback
<1> DEFINE l == zones["High"]
           e == l[Len(l)]
           top == Layout.top
<1>1. /\ TopOK(top) /\ ZonesOK(zones, top) /\ "High" \in Zone
  BY LayoutFacts, MemoryFields DEF MallocInv, MemoryOK, Whole, AddressesOK, Zone
<1>2. ListOK(l, top) /\ l \in Seq(Raw(top)) /\ top \in Nat
  BY <1>1 DEF ZonesOK, ListOK, TopOK
<1>3. /\ x \in Covered(zones[z]) /\ x \in Int
      /\ zones[z][i].start <= x /\ x < zones[z][i].end
  BY UsedBytes
<1>4. CASE l = <<>>
  BY <1>4 DEF Giveback
<1>5. CASE l # <<>>
  <2>1. Len(l) \in 1 .. Len(l)
    BY <1>2, <1>5
  <2>2. Tags(l) # {}
    BY <2>1 DEF Tags
  <2>3. /\ e.start \in 2 .. top /\ e.end \in 2 .. top /\ e.start <= e.end
    BY <1>1, <1>2, <2>2, LowestIsFree DEF Lowest
  <2>4. Giveback = Bytes(e.start, ALIGN_DOWN(e.end - e.start, PageSize))
    BY <1>5 DEF Giveback
  <2>5. ASSUME e.start <= x, x < e.end PROVE FALSE
    <3>1. x \in Covered(l)
      BY <1>2, <1>3, <2>1, <2>5, CoveredMeans
    <3>2. z = "High"
      BY <1>1, <1>3, <3>1 DEF ZonesOK
    <3>3. i < Len(l) /\ i \in 1 .. Len(l) /\ l[i].start <= x
      BY <1>2, <1>3, <3>2 DEF ListOK
    <3>4. e.end <= l[i].start
      BY <1>2, <2>1, <3>3 DEF ListOK
    <3>5. l[i].start \in 2 .. top
      BY <1>2, <3>3, RangeFacts
    <3> QED
      BY <1>3, <2>3, <2>5, <3>3, <3>4, <3>5, SMTT(40)
  <2> HIDE DEF e
  <2> DEFINE n == ALIGN_DOWN(e.end - e.start, PageSize)
  <2>6. n \in Nat /\ n <= e.end - e.start
    <3>1. e.end - e.start \in Nat /\ PageSize \in Nat \ {0}
      BY <2>3, MallocAssumption, SMTT(30)
    <3> QED
      BY <3>1, AlignedDown
  <2>7. Giveback = Bytes(e.start, n)
    BY <2>4
  <2> HIDE DEF n
  <2> QED
    BY <1>3, <2>3, <2>5, <2>6, <2>7 DEF Bytes
<1> QED
  BY <1>4, <1>5

\* What is in use in a zone for good was no RAM, or is marked before the boot.
LEMMA PermanentBytes ==
  ASSUME OwnersInv, ~booted, NEW z \in {"Low", "FSeg", "High"},
         NEW x \in Covered(zones[z]), x \in ram
  PROVE  x \in lowram .. Layout.lowramend - 1
<1>1. MallocInv /\ RamKept /\ Owned
  BY DEF OwnersInv
<1>2. /\ Layout \in Layouts /\ MemoryOK(memory, Layout) /\ BoundsOK(Layout)
  BY <1>1, BoundsAre DEF MallocInv
<1>3. (x < FirstEbda(Layout) \/ Layout.fseg.end <= x) /\ x \notin HighTable(Layout)
  BY <1>1 DEF RamKept
<1>4. /\ z # "Low" => x \in Given(Layout, z)
      /\ Between(zones["Low"], LowFloor(memory, Layout), Layout.varlow)
      /\ ListOK(zones["Low"], Layout.top) /\ EbdaOK(memory, Layout)
  BY <1>2, MemoryFields DEF MemoryOK, Whole, ZonesOK, Placed, Zone
<1>5. CASE z = "High"
  BY <1>2, <1>3, <1>4, <1>5, PermanentZones
<1>6. CASE z = "FSeg"
  <2>1. x \in Int /\ Layout.fseg.start <= x /\ x < Layout.fseg.end
    BY <1>2, <1>4, <1>6, PermanentZones
  <2> QED
    BY <1>2, <1>3, <2>1 DEF BoundsOK
<1>7. CASE z = "Low"
  <2>1. LowFloor(memory, Layout) \in Nat /\ Layout.varlow \in Nat
    BY <1>2, <1>4, LayoutFacts, FloorFacts
  <2>2. x \in LowFloor(memory, Layout) .. Layout.varlow - 1
    BY <1>4, <1>7, <2>1, CoveredBetween
  <2>3. x \in Int /\ LowFloor(memory, Layout) <= x /\ x < Layout.varlow
    BY <2>1, <2>2
  <2>4. CASE UPPERMEMORY
    <3>1. LowFloor(memory, Layout) = LowStart(Layout)
      BY <2>4 DEF LowFloor, UPPERMEMORY
    <3> QED
      BY <1>2, <1>3, <2>3, <3>1 DEF BoundsOK
  <2>5. CASE ~UPPERMEMORY
    <3>1. LowFloor(memory, Layout) = ebda + Layout.ebdasize
      BY <2>5, MemoryFields DEF LowFloor, UPPERMEMORY
    <3>2. ebda \in Nat /\ lowram \in Nat
      BY <1>4, MemoryFields DEF EbdaOK
    <3>3. lowram <= ebda
      BY <1>1, <2>5, <3>2 DEF Owned
    <3>4. Layout.varlow <= Layout.lowramend /\ Layout.ebdasize \in Nat
          /\ Layout.lowramend \in Nat
      BY <1>2, <2>5 DEF BoundsOK, UPPERMEMORY
    <3> QED
      BY <2>1, <2>3, <3>1, <3>2, <3>3, <3>4
  <2> QED
    BY <2>4, <2>5
<1> QED
  BY <1>5, <1>6, <1>7

\* A range in use that begins where a block does is that block's.
LEMMA SameBlock ==
  ASSUME MallocInv, NEW z \in Zone, NEW i \in 1 .. Len(zones[z]), zones[z][i].size > 0,
         NEW b \in BlocksOf(AllTags(zones)), b.start = zones[z][i].start
  PROVE  b.size = zones[z][i].size
<1> DEFINE e == zones[z][i]
           t == Tag(e)
           top == Layout.top
<1>1. TopOK(top) /\ ZonesOK(zones, top)
  BY LayoutFacts, MemoryFields DEF MallocInv, MemoryOK, Whole, AddressesOK
<1>2. t \in AllTags(zones) /\ t.start = e.start /\ t.size = e.size
  BY DEF AllTags, Tags, Tag
<1>3. PICK u \in AllTags(zones) : IsBlock(u) /\ b = [start |-> u.start, size |-> u.size]
  BY DEF BlocksOf
<1> HIDE DEF t, e
<1>4. u.size > 0 /\ b.start = u.start /\ b.size = u.size /\ u.start = t.start /\ t.size > 0
  BY <1>2, <1>3 DEF IsBlock, e
<1> HIDE DEF top
<1>5. /\ t.start \in Int /\ t.size \in Int /\ u.start \in Int /\ u.size \in Int
  <2>1. t.start \in 2 .. top /\ t.size \in 0 .. top
    BY <1>1, <1>2, AllTagFacts
  <2>2. u.start \in 2 .. top /\ u.size \in 0 .. top
    BY <1>1, <1>3, AllTagFacts
  <2> QED
    BY <2>1, <2>2
<1>6. u.at = t.at
  <2>1. ~(t.start + t.size <= u.start \/ u.start + u.size <= t.start)
    BY <1>4, <1>5
  <2> QED
    BY <1>1, <1>2, <1>4, <2>1, ApartInUse
<1>7. u = t
  BY <1>1, <1>2, <1>6, TagsUnique
<1> QED
  BY <1>2, <1>4, <1>7 DEF e

\* The map the OS gets calls no permanent block RAM.
LEMMA PrepbootOwners ==
  ASSUME OwnersInv, malloc_prepboot
  PROVE  OwnersInv'
<1>1. /\ MallocInv /\ RomsBelow /\ Owned
      /\ ~booted => RamKept /\ PermKept
  BY DEF OwnersInv
<1>2. /\ ~booted /\ booted' = TRUE
      /\ ram' = (ram \ (lowram .. Layout.lowramend - 1)) \cup Giveback
      /\ UNCHANGED <<Layout, zones, handle, ebda, lowram, RomEnd, running, romowned,
                     permtmp>>
  BY DEF malloc_prepboot
<1>3. MallocInv'
  BY <1>1, PrepbootStep
<1>4. RomsBelow' /\ Owned'
  BY <1>1, <1>2 DEF RomsBelow, Owned, UPPERMEMORY
<1>5. PermanentKept'
  <2> SUFFICES ASSUME NEW e \in Ranges(zones), e.size # 0,
                      ~\E z \in {"TmpLow", "TmpHigh"} : \E i \in DOMAIN zones[z] :
                         e = zones[z][i] /\ e.start \notin permtmp,
                      NEW x \in Bytes(e.start, e.size), x \in ram'
               PROVE  FALSE
    BY <1>2 DEF PermanentKept
  <2>1. PICK z \in Zone : \E i \in DOMAIN zones[z] : e = zones[z][i]
    BY DEF Ranges
  <2>2. ListOK(zones[z], Layout.top) /\ Layout.top \in Nat
    BY <1>1, LayoutFacts, MemoryFields
       DEF MallocInv, MemoryOK, Whole, ZonesOK, AddressesOK, TopOK
  <2>3. zones[z] \in Seq(Raw(Layout.top)) /\ DOMAIN zones[z] = 1 .. Len(zones[z])
    BY <2>2 DEF ListOK
  <2>4. PICK i \in 1 .. Len(zones[z]) : e = zones[z][i]
    BY <2>1, <2>3
  <2>5. e.size > 0
    <3>1. zones[z][i].size \in 0 .. Layout.top
      BY <2>2, <2>3, RangeFacts
    <3> QED
      BY <2>2, <2>4, <3>1
  <2>6. x \in Covered(zones[z]) /\ x \notin Giveback
    BY <1>1, <2>4, <2>5, UsedBytes, GivebackFree
  <2>7. x \in ram /\ x \notin lowram .. Layout.lowramend - 1
    BY <1>2, <2>6
  <2>8. z \notin {"Low", "FSeg", "High"}
    BY <1>2, <2>6, <2>7, PermanentBytes
  <2>9. e.start \in permtmp
    BY <2>3, <2>4, <2>8 DEF Zone
  <2>10. PICK b \in BlocksOf(AllTags(zones)) :
           b.start = e.start /\ Bytes(e.start, b.size) \cap ram = {}
    BY <1>1, <1>2, <2>9 DEF PermKept
  <2>11. b.size = e.size
    BY <1>1, <2>4, <2>5, <2>10, SameBlock
  <2> QED
    BY <2>7, <2>10, <2>11
<1> QED
  BY <1>2, <1>3, <1>4, <1>5 DEF OwnersInv

\* Every step leaves memory with its owners.
LEMMA OwnersNext ==
  ASSUME OwnersInv, [Next]_vars, ~overdrawn'
  PROVE  OwnersInv'
<1>1. ASSUME NEW r \in Layout.requests, _malloc(r.zone, r.size, r.align) PROVE OwnersInv'
  BY <1>1, MallocOwners
<1>2. ASSUME NEW data \in {e.start : e \in Ranges(zones)}, Free(data) PROVE OwnersInv'
  BY <1>2, FreeOwners
<1>3. ASSUME NEW size \in Layout.pmm, NEW h \in Handles \cup {DefaultHandle},
             NEW where \in 1 .. 3, NEW permanent \in BOOLEAN, NEW aligned \in BOOLEAN,
             handle_pmm00(size, h, where, permanent, aligned)
      PROVE  OwnersInv'
  BY <1>3, PmmOwners
<1>4. ASSUME NEW size \in Layout.roms, ReserveRom(size) \/ rom_confirm(size)
      PROVE  OwnersInv'
  BY <1>4, RomOwners
<1>5. ASSUME NEW moves \in BOOLEAN, RomTakesMemory(moves) PROVE OwnersInv'
  BY <1>5, TakesOwners
<1>6. ASSUME malloc_prepboot PROVE OwnersInv'
  BY <1>6, PrepbootOwners
<1>7. ASSUME UNCHANGED vars PROVE OwnersInv'
  <2>1. UNCHANGED <<Layout, zones, handle, ebda, lowram, RomEnd, running, romowned, ram,
                    permtmp, booted>>
    BY <1>7 DEF vars
  <2>2. MallocInv'
    BY NextKeeps DEF OwnersInv
  <2>3. RamKept' = RamKept /\ PermKept' = PermKept
    BY <2>1 DEF RamKept, PermKept
  <2>4. RomsBelow' = RomsBelow /\ Owned' = Owned
    BY <2>1 DEF RomsBelow, Owned, UPPERMEMORY
  <2>5. PermanentKept' = PermanentKept
    BY <2>1 DEF PermanentKept
  <2> QED
    BY <2>1, <2>2, <2>3, <2>4, <2>5 DEF OwnersInv
<1>8. Booted => UNCHANGED vars
  BY DEF Booted
<1> QED
  BY <1>1, <1>2, <1>3, <1>4, <1>5, <1>6, <1>7, <1>8 DEF Next

\* In an UPPERMEMORY build ZoneLow is above the roms.
LEMMA RomsClear ==
  ASSUME OwnersInv, UPPERMEMORY, NEW i \in 1 .. Len(zones["Low"])
  PROVE  /\ zones["Low"][i].start >= RomEnd + running
         /\ zones["Low"][i].size > 0 =>
              zones["Low"][i].start >= rom_get_max(zones) + HeaderReserve
<1> DEFINE l == zones["Low"]
           e == l[i]
           f == Lowest(l)
           top == Layout.top
<1>1. Layout \in Layouts /\ MemoryOK(memory, Layout) /\ BoundsOK(Layout)
  BY BoundsAre DEF OwnersInv, MallocInv
<1>2. /\ RomEnd \in Int /\ running \in Int /\ HeaderReserve \in Nat
      /\ RomAlign \in Nat \ {0}
  BY MallocAssumption DEF OwnersInv, MallocInv, Address
<1>3. Whole(memory, top) /\ Placed(memory, Layout) /\ "Low" \in Zone
  BY <1>1 DEF MemoryOK, Zone
<1>4. ListOK(l, top) /\ Tags(l) # {} /\ TopOK(top)
  BY <1>1, <1>3, LayoutFacts, MemoryFields
     DEF Whole, ZonesOK, Placed, HasBase, AddressesOK
<1>5. l \in Seq(Raw(top))
  BY <1>4 DEF ListOK
<1>6. e.start \in 2 .. top /\ e.end \in 2 .. top /\ e.size \in 0 .. top
  BY <1>4, <1>5, RangeFacts DEF TopOK
<1>7. /\ f.end \in 2 .. top /\ f.start \in 2 .. top /\ f.start <= f.end
      /\ Len(l) \in 1 .. Len(l) /\ f.size = 0
  BY <1>4, LowestIsFree
<1>8. RomEnd + running <= e.start
  BY DEF OwnersInv, RomsBelow, StartsFrom
<1>9. rom_get_max(zones) = ALIGN_DOWN(f.end - HeaderReserve, RomAlign)
  BY DEF rom_get_max, Lowest
<1>10. f.start >= Layout.zonelow + HeaderReserve /\ Layout.zonelow \in Nat
  <2>1. LowStart(Layout) <= f.start /\ LowStart(Layout) = Layout.zonelow + HeaderReserve
    BY <1>1, <1>3, <1>7, MemoryFields
       DEF Placed, LowFloor, Between, Lowest, UPPERMEMORY, BoundsOK
  <2>2. Layout.zonelow \in Nat
    BY <1>1 DEF BoundsOK
  <2> HIDE DEF f
  <2> QED
    BY <1>2, <1>7, <2>1, <2>2
<1>11. e.size > 0 => f.end <= e.start
  <2> SUFFICES ASSUME e.size > 0 PROVE f.end <= e.start
    OBVIOUS
  <2>1. i < Len(l)
    BY <1>4 DEF ListOK
  <2> QED
    BY <1>4, <1>7, <2>1 DEF ListOK, Lowest
<1>12. e.size > 0 => rom_get_max(zones) + HeaderReserve <= e.start
  <2> DEFINE z == Layout.zonelow
             s == f.start
             t == f.end
             u == e.start
             n == e.size
             g == ALIGN_DOWN(t - HeaderReserve, RomAlign)
  <2>1. /\ z \in Nat /\ s \in Int /\ t \in Int /\ u \in Int /\ s >= z + HeaderReserve
        /\ s <= t /\ (n > 0 => t <= u) /\ rom_get_max(zones) = g
    BY <1>6, <1>7, <1>9, <1>10, <1>11
  <2> SUFFICES n > 0 => g + HeaderReserve <= u
    BY <2>1
  <2> HIDE DEF z, s, t, u, n
  <2>2. t - HeaderReserve \in Nat
    BY <1>2, <2>1
  <2>3. g \in Nat /\ g <= t - HeaderReserve
    BY <1>2, <2>2, AlignedDown
  <2> HIDE DEF g
  <2> QED
    BY <1>2, <2>1, <2>3
<1> QED
  BY <1>2, <1>6, <1>8, <1>12

\* Where ZoneLow grows, the EBDA stays in base memory and clear of others.
LEMMA EbdaClear ==
  ASSUME OwnersInv, ~UPPERMEMORY
  PROVE  LET low == Covered(zones["Low"])
             own == Bytes(ebda, Layout.ebdasize)
         IN  /\ own \subseteq Layout.ebdaminimum .. Layout.lowramend - 1
             /\ own \cap (low \cup romowned) = {}
             /\ low \cap romowned = {}
<1> DEFINE low == Covered(zones["Low"])
           size == Layout.ebdasize
<1>1. /\ Layout \in Layouts /\ MemoryOK(memory, Layout) /\ BoundsOK(Layout)
      /\ romowned \subseteq Address
  BY BoundsAre DEF OwnersInv, MallocInv
<1>2. /\ Layout.ebdaminimum <= ebda /\ ebda <= FirstEbda(Layout) /\ ebda \in Nat
  BY <1>1, MemoryFields DEF MemoryOK, Placed, EbdaOK
<1>3. /\ Layout.ebdasize \in Nat
      /\ {FirstEbda(Layout), LowStart(Layout), Layout.varlow, Layout.lowramend,
          Layout.ebdaminimum} \subseteq Nat
      /\ FirstEbda(Layout) + Layout.ebdasize <= LowStart(Layout)
      /\ LowStart(Layout) <= Layout.varlow /\ Layout.varlow <= Layout.lowramend
  BY <1>1 DEF BoundsOK, UPPERMEMORY
<1>4. low \subseteq ebda + size .. Layout.varlow - 1
  <2>1. ListOK(zones["Low"], Layout.top)
        /\ Between(zones["Low"], ebda + size, Layout.varlow)
    BY <1>1, MemoryFields
       DEF MemoryOK, Whole, Placed, ZonesOK, Zone, LowFloor, UPPERMEMORY
  <2>2. ebda + size \in Nat /\ Layout.varlow \in Nat
    BY <1>2, <1>3
  <2> QED
    BY <2>1, <2>2, CoveredBetween
<1> HIDE DEF low
<1>5. \A x \in low : x \in Int /\ ebda + size <= x
  BY <1>2, <1>3, <1>4
<1>6. \A x \in Bytes(ebda, size) : x \in Int /\ ebda <= x /\ x < ebda + size
  BY <1>2, <1>3 DEF Bytes
<1>7. ebda + size <= Layout.lowramend
  BY <1>2, <1>3
<1>8. Bytes(ebda, size) \subseteq Layout.ebdaminimum .. Layout.lowramend - 1
  BY <1>2, <1>3, <1>6, <1>7
<1>9. \A x \in romowned : x \in Int /\ (x < ebda \/ (x \notin low /\ ebda + size <= x))
  <2>1. \A x \in romowned : x \in Int
    BY <1>1 DEF Address
  <2> QED
    BY <2>1 DEF OwnersInv, Owned, low
<1>10. \A x : ~(x \in Bytes(ebda, size) /\ x \in low)
  BY <1>2, <1>3, <1>5, <1>6
<1>11. \A x : ~(x \in Bytes(ebda, size) /\ x \in romowned)
  BY <1>2, <1>3, <1>6, <1>9
<1>12. \A x : ~(x \in low /\ x \in romowned)
  BY <1>2, <1>3, <1>5, <1>9
<1> QED
  BY <1>8, <1>10, <1>11, <1>12 DEF low

\* The invariant says who owns what.
LEMMA OwnersAre ==
  ASSUME OwnersInv
  PROVE  MemoryKept
<1>1. DOMAIN zones["Low"] = 1 .. Len(zones["Low"])
  <2>1. ListOK(zones["Low"], Layout.top)
    BY MemoryFields DEF OwnersInv, MallocInv, MemoryOK, Whole, ZonesOK, Zone
  <2> QED
    BY <2>1 DEF ListOK
<1>2. UPPERMEMORY => LowZoneClear
  BY <1>1, RomsClear DEF LowZoneClear
<1>3. ~UPPERMEMORY => LowZoneClear
  BY EbdaClear DEF LowZoneClear
<1> QED
  BY <1>2, <1>3 DEF OwnersInv, MemoryKept

(***************************************************************************)
(* malloc.c and pmm.c leave memory with its owners, for every layout, size *)
(* of word and handle, any s32 that is asked of PMM and any size drivers   *)
(* ask for: no allocation of an UPPERMEMORY build is under an option rom   *)
(* or in what malloc_prepboot() clears; otherwise, until zonelow_expand()  *)
(* moves the EBDA for more than the memory below it, the EBDA stays in     *)
(* base memory and clear of ZoneLow and of what an option rom took; and    *)
(* after malloc_prepboot() nothing that was allocated for good is called   *)
(* RAM.                                                                    *)
(***************************************************************************)
THEOREM MemoryCorrect == Spec => []MemoryKept
<1> DEFINE Inv == overdrawn \in BOOLEAN /\ (overdrawn \/ OwnersInv)
<1>1. Init => Inv
  BY OwnersInit DEF Init
<1>2. Inv /\ [Next]_vars => Inv'
  BY StaysOverdrawn, OwnersNext
<1>3. Inv => MemoryKept
  BY OwnersAre DEF MemoryKept
<1> QED
  BY <1>1, <1>2, <1>3, PTL DEF Spec

============================================================================
