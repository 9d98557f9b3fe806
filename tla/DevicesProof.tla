----------------------------- MODULE DevicesProof -----------------------------
(***************************************************************************)
(* Theorems about components that do not touch each other's state: the     *)
(* memory map, restarts, virtio queues, the floppy driver, mode switches   *)
(* and the rings of xHCI.  Each part has the inductive invariant of its    *)
(* component, a lemma for each action and the theorem.                     *)
(***************************************************************************)
EXTENDS E820, Restart, VirtioRing, Floppy, ModeSwitch, XhciRings, Integers,
        FiniteSetTheorems, WellFoundedInduction, TLAPS

----------------------------------------------------------------------------
(* The memory map.  e820_add() and e820_remove() describe it exactly, for an   *)
(* array of any size: the list stays sorted, disjoint and merged, a call      *)
(* changes the type of the addresses of its range and of no others, and what  *)
(* a full array drops becomes a hole.                                         *)

(* The inductive invariant.                                                *)

\* e ends before f begins, and where they touch they differ in type.
Before(e, f) == End(e) <= f.start /\ (End(e) = f.start => e.type # f.type)

Ordered(l) ==
  /\ l \in Seq(Entry)
  /\ \A i \in 1 .. Len(l) : l[i].size > 0 /\ End(l[i]) <= Top
  /\ \A i, k \in 1 .. Len(l) : i < k => Before(l[i], l[k])

MapInv == Ordered(e820_list) /\ Len(e820_list) <= BUILD_MAX_E820

\* There is room in l before position pos for start .. end - 1, with a type
\* that is not the one of a neighbour.
Gap(l, pos, start, end, type) ==
  /\ pos \in 1 .. Len(l) + 1
  /\ \A i \in 1 .. pos - 1 :
       End(l[i]) <= start /\ (End(l[i]) = start => l[i].type # type)
  /\ \A i \in pos .. Len(l) :
       end <= l[i].start /\ (end = l[i].start => l[i].type # type)

Covers(e, a) == e.start <= a /\ a < End(e)

\* An entry of l says that address a has the type.
Says(l, a, type) ==
  \E i \in 1 .. Len(l) : Covers(l[i], a) /\ l[i].type = type

----------------------------------------------------------------------------
(* Entries and lists.                                                      *)

\* What an entry of the list is.
LEMMA EntryFacts ==
  ASSUME NEW l, Ordered(l), NEW i \in 1 .. Len(l)
  PROVE  /\ l[i] \in Entry
         /\ l[i].start \in Nat /\ l[i].size \in Nat /\ l[i].type \in Type
         /\ End(l[i]) \in Nat /\ End(l[i]) = l[i].start + l[i].size
         /\ l[i].start < End(l[i]) /\ End(l[i]) <= Top
         /\ l[i].type # E820_HOLE
<1>1. l[i] \in Entry /\ l[i].size > 0 /\ End(l[i]) <= Top
  BY DEF Ordered
<1>2. l[i].start \in Nat /\ l[i].size \in Nat /\ l[i].type \in Type
  BY <1>1, E820Assumption DEF Entry
<1> QED
  BY <1>1, <1>2, E820Assumption DEF End

\* A range is an entry.
LEMMA MakesEntry ==
  ASSUME NEW start \in Nat, NEW end \in Nat, start < end, end <= Top, NEW type \in Type
  PROVE  /\ [start |-> start, size |-> end - start, type |-> type] \in Entry
         /\ End([start |-> start, size |-> end - start, type |-> type]) = end
<1>1. start \in 0 .. Top /\ end - start \in 0 .. Top /\ start + (end - start) = end
  BY E820Assumption
<1> QED
  BY <1>1 DEF Entry, End

\* Two lists in one.
LEMMA Joined ==
  ASSUME NEW u \in Seq(Entry), NEW v \in Seq(Entry)
  PROVE  /\ u \o v \in Seq(Entry) /\ Len(u \o v) = Len(u) + Len(v)
         /\ \A m \in 1 .. Len(u) + Len(v) :
              (u \o v)[m] = IF m <= Len(u) THEN u[m] ELSE v[m - Len(u)]
OBVIOUS

\* The array without the entries i .. k-1.
LEMMA Removed ==
  ASSUME NEW l \in Seq(Entry), NEW i \in 1 .. Len(l) + 1, NEW k \in i .. Len(l) + 1
  PROVE  /\ remove_e820(l, i, k) \in Seq(Entry)
         /\ Len(remove_e820(l, i, k)) = Len(l) - (k - i)
         /\ \A m \in 1 .. Len(l) - (k - i) :
              remove_e820(l, i, k)[m] = IF m < i THEN l[m] ELSE l[m + (k - i)]
<1> DEFINE n == Len(l)
           p == SubSeq(l, 1, i - 1)
           q == SubSeq(l, k, n)
<1>0. n \in Nat /\ i \in Nat \ {0} /\ k \in Nat \ {0} /\ i <= k /\ k <= n + 1
  OBVIOUS
<1>1. p \in Seq(Entry) /\ Len(p) = i - 1 /\ \A m \in 1 .. i - 1 : p[m] = l[m]
  BY <1>0
<1>2. q \in Seq(Entry) /\ Len(q) = n - k + 1 /\ \A m \in 1 .. n - k + 1 : q[m] = l[k + m - 1]
  BY <1>0
<1> HIDE DEF p, q, n
<1>4. /\ p \o q \in Seq(Entry) /\ Len(p \o q) = n - (k - i)
      /\ \A m \in 1 .. n - (k - i) :
           (p \o q)[m] = IF m <= i - 1 THEN p[m] ELSE q[m - (i - 1)]
  <2>1. Len(p) + Len(q) = n - (k - i)
    BY <1>0, <1>1, <1>2
  <2>2. /\ p \o q \in Seq(Entry) /\ Len(p \o q) = Len(p) + Len(q)
        /\ \A m \in 1 .. Len(p) + Len(q) :
             (p \o q)[m] = IF m <= Len(p) THEN p[m] ELSE q[m - Len(p)]
    BY <1>1, <1>2, Joined
  <2> QED
    BY <1>1, <1>2, <2>1, <2>2
<1>5. ASSUME NEW m \in 1 .. n - (k - i)
      PROVE  (p \o q)[m] = IF m < i THEN l[m] ELSE l[m + (k - i)]
  <2>1. CASE m < i
    <3>1. m \in 1 .. i - 1 /\ m <= i - 1
      BY <1>0, <2>1
    <3> QED
      BY <1>1, <1>4, <2>1, <3>1, Zenon
  <2>2. CASE ~(m < i)
    <3>1. m - (i - 1) \in 1 .. n - k + 1 /\ ~(m <= i - 1)
          /\ k + (m - (i - 1)) - 1 = m + (k - i)
      BY <1>0, <2>2
    <3>2. (p \o q)[m] = q[m - (i - 1)]
      BY <1>4, <3>1, Zenon
    <3>3. q[m - (i - 1)] = l[k + (m - (i - 1)) - 1]
      BY <1>2, <3>1, Zenon
    <3> QED
      BY <2>2, <3>1, <3>2, <3>3, Zenon
  <2> QED
    BY <2>1, <2>2
<1> QED
  BY <1>4, <1>5, Zenon DEF remove_e820, p, q, n

\* The array with a further entry at position i.
LEMMA Inserted ==
  ASSUME NEW l \in Seq(Entry), NEW i \in 1 .. Len(l) + 1, NEW start, NEW size, NEW type,
         [start |-> start, size |-> size, type |-> type] \in Entry,
         ~(Len(l) >= BUILD_MAX_E820)
  PROVE  /\ insert_e820(l, i, start, size, type) \in Seq(Entry)
         /\ Len(insert_e820(l, i, start, size, type)) = Len(l) + 1
         /\ \A m \in 1 .. Len(l) + 1 :
              insert_e820(l, i, start, size, type)[m] =
                IF m < i THEN l[m]
                ELSE IF m = i THEN [start |-> start, size |-> size, type |-> type]
                ELSE l[m - 1]
<1> DEFINE n == Len(l)
           e == [start |-> start, size |-> size, type |-> type]
           p == SubSeq(l, 1, i - 1)
           q == SubSeq(l, i, n)
<1>0. n \in Nat /\ i \in Nat \ {0} /\ i <= n + 1 /\ e \in Entry
  OBVIOUS
<1>1. p \in Seq(Entry) /\ Len(p) = i - 1 /\ \A m \in 1 .. i - 1 : p[m] = l[m]
  BY <1>0
<1>2. q \in Seq(Entry) /\ Len(q) = n - i + 1 /\ \A m \in 1 .. n - i + 1 : q[m] = l[i + m - 1]
  BY <1>0
<1> HIDE DEF e
<1>a. <<e>> \in Seq(Entry) /\ Len(<<e>>) = 1 /\ <<e>>[1] = e
  BY <1>0
<1> DEFINE r == p \o <<e>>
<1> HIDE DEF p, q, n
<1>4. /\ r \in Seq(Entry) /\ Len(r) = i
      /\ \A m \in 1 .. i : r[m] = IF m <= i - 1 THEN p[m] ELSE <<e>>[m - (i - 1)]
  <2>1. Len(p) + Len(<<e>>) = i
    BY <1>0, <1>1, <1>a
  <2>2. /\ p \o <<e>> \in Seq(Entry) /\ Len(p \o <<e>>) = Len(p) + Len(<<e>>)
        /\ \A m \in 1 .. Len(p) + Len(<<e>>) :
             (p \o <<e>>)[m] = IF m <= Len(p) THEN p[m] ELSE <<e>>[m - Len(p)]
    BY <1>1, <1>a, Joined
  <2> QED
    BY <1>1, <1>a, <2>1, <2>2
<1> HIDE DEF r
<1>5. /\ r \o q \in Seq(Entry) /\ Len(r \o q) = n + 1
      /\ \A m \in 1 .. n + 1 : (r \o q)[m] = IF m <= i THEN r[m] ELSE q[m - i]
  <2>1. Len(r) + Len(q) = n + 1
    BY <1>0, <1>2, <1>4
  <2>2. /\ r \o q \in Seq(Entry) /\ Len(r \o q) = Len(r) + Len(q)
        /\ \A m \in 1 .. Len(r) + Len(q) :
             (r \o q)[m] = IF m <= Len(r) THEN r[m] ELSE q[m - Len(r)]
    BY <1>2, <1>4, Joined
  <2> QED
    BY <1>2, <1>4, <2>1, <2>2
<1>6. ASSUME NEW m \in 1 .. n + 1
      PROVE  (r \o q)[m] = IF m < i THEN l[m] ELSE IF m = i THEN e ELSE l[m - 1]
  <2>1. CASE m < i
    <3>1. m \in 1 .. i - 1 /\ m <= i - 1 /\ m \in 1 .. i /\ m <= i
      BY <1>0, <2>1
    <3> QED
      BY <1>1, <1>4, <1>5, <2>1, <3>1, Zenon
  <2>2. CASE m = i
    <3>1. m \in 1 .. i /\ ~(m <= i - 1) /\ m - (i - 1) = 1 /\ m <= i /\ ~(m < i)
      BY <1>0, <2>2
    <3> QED
      BY <1>4, <1>5, <1>a, <2>2, <3>1, Zenon
  <2>3. CASE m > i
    <3>1. m - i \in 1 .. n - i + 1 /\ ~(m <= i) /\ i + (m - i) - 1 = m - 1 /\ ~(m < i)
          /\ m # i
      BY <1>0, <2>3
    <3>2. (r \o q)[m] = q[m - i]
      BY <1>5, <3>1, Zenon
    <3>3. q[m - i] = l[i + (m - i) - 1]
      BY <1>2, <3>1, Zenon
    <3> QED
      BY <3>1, <3>2, <3>3, Zenon
  <2>4. m < i \/ m = i \/ m > i
    BY <1>0
  <2> QED
    BY <2>1, <2>2, <2>3, <2>4
<1>7. insert_e820(l, i, start, size, type) = r \o q
  BY Zenon DEF insert_e820, r, p, q, n, e
<1> QED
  BY <1>5, <1>6, <1>7, Zenon DEF n, e

----------------------------------------------------------------------------
(* The positions where the loops stop.                                     *)

\* The first position that is found, or the one behind the list.
LEMMA Stops ==
  ASSUME NEW l \in Seq(Entry), NEW i \in 1 .. Len(l) + 1, NEW found \in SUBSET (i .. Len(l))
  PROVE  /\ StopsAt(l, i, found) \in i .. Len(l) + 1
         /\ StopsAt(l, i, found) <= Len(l) => StopsAt(l, i, found) \in found
         /\ \A m \in i .. Len(l) : m < StopsAt(l, i, found) => m \notin found
<1> DEFINE n == Len(l)
<1>0. n \in Nat /\ i \in Nat
  OBVIOUS
<1>1. CASE found # {}
  <2>1. found \subseteq Nat
    BY <1>0
  <2>2. \E k \in found : \A m \in found : k <= m
    <3>1. PICK k \in found : \A m \in found : ~(<<m, k>> \in OpToRel(<, Nat))
      BY <1>1, <2>1, WFMin, NatLessThanWellFounded, Zenon
    <3>2. \A m \in found : ~(m < k)
      BY <2>1, <3>1 DEF OpToRel
    <3> QED
      BY <2>1, <3>2
  <2> DEFINE k == CHOOSE k \in found : \A m \in found : k <= m
  <2>3. k \in found /\ \A m \in found : k <= m
    BY <2>2
  <2>4. StopsAt(l, i, found) = k
    BY <1>1 DEF StopsAt
  <2> HIDE DEF k
  <2>5. k \in i .. n /\ \A m \in i .. n : m < k => m \notin found
    BY <1>0, <2>3
  <2> QED
    BY <1>0, <2>3, <2>4, <2>5
<1>2. CASE found = {} /\ i > n
  <2>1. StopsAt(l, i, found) = i /\ i = n + 1
    BY <1>0, <1>2 DEF StopsAt
  <2> QED
    BY <1>0, <1>2, <2>1
<1>3. CASE found = {} /\ ~(i > n)
  <2>1. StopsAt(l, i, found) = n + 1
    BY <1>0, <1>3 DEF StopsAt
  <2> QED
    BY <1>0, <1>3, <2>1
<1> QED
  BY <1>1, <1>2, <1>3

\* The entries before the one that start reaches end before start.
LEMMA Reaching ==
  ASSUME NEW l, Ordered(l), NEW start \in Nat
  PROVE  /\ FirstReaching(l, start) \in 1 .. Len(l) + 1
         /\ FirstReaching(l, start) <= Len(l) => start <= End(l[FirstReaching(l, start)])
         /\ \A m \in 1 .. Len(l) : m < FirstReaching(l, start) => End(l[m]) < start
<1> DEFINE found == {k \in 1 .. Len(l) : start <= End(l[k])}
<1>1. l \in Seq(Entry) /\ Len(l) \in Nat /\ 1 \in 1 .. Len(l) + 1
  BY DEF Ordered
<1>2. /\ FirstReaching(l, start) \in 1 .. Len(l) + 1
      /\ FirstReaching(l, start) <= Len(l) => FirstReaching(l, start) \in found
      /\ \A m \in 1 .. Len(l) : m < FirstReaching(l, start) => m \notin found
  BY <1>1, Stops DEF FirstReaching
<1>3. ASSUME NEW m \in 1 .. Len(l), m < FirstReaching(l, start)
      PROVE  End(l[m]) < start
  <2>1. ~(start <= End(l[m]))
    BY <1>2, <1>3
  <2>2. End(l[m]) \in Nat
    BY EntryFacts
  <2> QED
    BY <2>1, <2>2
<1> QED
  BY <1>2, <1>3

\* The entries from position i up to the one that end does not cover end by then.
LEMMA Beyond ==
  ASSUME NEW l, Ordered(l), NEW i \in 1 .. Len(l) + 1, NEW end \in Nat
  PROVE  /\ FirstBeyond(l, i, end) \in i .. Len(l) + 1
         /\ FirstBeyond(l, i, end) <= Len(l) => end < End(l[FirstBeyond(l, i, end)])
         /\ \A m \in i .. Len(l) : m < FirstBeyond(l, i, end) => End(l[m]) <= end
<1> DEFINE found == {k \in i .. Len(l) : end < l[k].start \/ end < End(l[k])}
<1>1. l \in Seq(Entry) /\ Len(l) \in Nat
  BY DEF Ordered
<1>2. /\ FirstBeyond(l, i, end) \in i .. Len(l) + 1
      /\ FirstBeyond(l, i, end) <= Len(l) => FirstBeyond(l, i, end) \in found
      /\ \A m \in i .. Len(l) : m < FirstBeyond(l, i, end) => m \notin found
  BY <1>1, Stops DEF FirstBeyond
<1>3. \A m \in i .. Len(l) : /\ m \in found <=> end < End(l[m])
                            /\ End(l[m]) \in Nat
  <2> TAKE m \in i .. Len(l)
  <2>1. m \in 1 .. Len(l)
    BY <1>1
  <2>2. /\ End(l[m]) \in Nat /\ l[m].start \in Nat /\ l[m].start < End(l[m])
    BY <2>1, EntryFacts
  <2> QED
    BY <2>2
<1> HIDE DEF found
<1>4. ASSUME FirstBeyond(l, i, end) <= Len(l)
      PROVE  end < End(l[FirstBeyond(l, i, end)])
  <2>1. FirstBeyond(l, i, end) \in i .. Len(l)
    BY <1>1, <1>2, <1>4
  <2> QED
    BY <1>2, <1>3, <1>4, <2>1
<1>5. ASSUME NEW m \in i .. Len(l), m < FirstBeyond(l, i, end)
      PROVE  End(l[m]) <= end
  <2>1. ~(end < End(l[m]))
    BY <1>2, <1>3, <1>5, Zenon
  <2> QED
    BY <1>3, <2>1
<1> QED
  BY <1>2, <1>4, <1>5

----------------------------------------------------------------------------
(* What a list says.                                                       *)

\* No address is covered twice.
LEMMA CoveredOnce ==
  ASSUME NEW l, Ordered(l), NEW a \in Nat, NEW i \in 1 .. Len(l), NEW k \in 1 .. Len(l),
         Covers(l[i], a), Covers(l[k], a)
  PROVE  i = k
<1>1. \A m, n \in 1 .. Len(l) : m < n => End(l[m]) <= l[n].start
  BY DEF Ordered, Before
<1>2. /\ End(l[i]) \in Nat /\ End(l[k]) \in Nat
      /\ l[i].start \in Nat /\ l[k].start \in Nat
  BY EntryFacts
<1>3. ~(i < k) /\ ~(k < i)
  BY <1>1, <1>2, SMTT(40) DEF Covers
<1> QED
  BY <1>3

\* TypeAt is the type that an entry says the address has.
LEMMA TypeSaid ==
  ASSUME NEW l, Ordered(l), NEW a \in Nat
  PROVE  /\ \A type \in Type : TypeAt(l, a) = type <=> Says(l, a, type)
         /\ TypeAt(l, a) \in Type \cup {E820_HOLE}
<1> DEFINE covering == {i \in 1 .. Len(l) : l[i].start <= a /\ a < End(l[i])}
<1>1. CASE covering = {}
  <2>1. TypeAt(l, a) = E820_HOLE
    BY <1>1 DEF TypeAt
  <2>2. \A type : ~Says(l, a, type)
    BY <1>1 DEF Says, Covers
  <2> QED
    BY <2>1, <2>2, E820Assumption
<1>2. ASSUME NEW i \in covering
      PROVE  /\ \A type \in Type : TypeAt(l, a) = type <=> Says(l, a, type)
             /\ TypeAt(l, a) \in Type
  <2>1. \A k \in covering : k = i
    BY CoveredOnce DEF Covers
  <2>2. i \in 1 .. Len(l) /\ i <= i
    OBVIOUS
  <2>3. (CHOOSE k \in covering : \A m \in covering : k <= m) = i
    BY <2>1, <2>2
  <2>4. TypeAt(l, a) = l[i].type
    BY <2>3 DEF TypeAt
  <2>5. l[i].type \in Type
    BY <2>2, EntryFacts
  <2>6. \A type : Says(l, a, type) <=> l[i].type = type
    BY <2>1, <2>2 DEF Says, Covers
  <2> QED
    BY <2>4, <2>5, <2>6, Zenon
<1> QED
  BY <1>1, <1>2

\* Lists that say the same.
LEMMA SaysSame ==
  ASSUME NEW l, Ordered(l), NEW r, Ordered(r), NEW a \in Nat,
         \A type : Says(l, a, type) <=> Says(r, a, type)
  PROVE  TypeAt(l, a) = TypeAt(r, a)
<1>1. \A type \in Type : TypeAt(l, a) = type <=> TypeAt(r, a) = type
  BY TypeSaid, Zenon
<1>2. TypeAt(l, a) \in Type \cup {E820_HOLE} /\ TypeAt(r, a) \in Type \cup {E820_HOLE}
  BY TypeSaid
<1> QED
  BY <1>1, <1>2, E820Assumption

\* What no entry covers is a hole.
LEMMA SaysNothing ==
  ASSUME NEW l, Ordered(l), NEW a \in Nat, \A i \in 1 .. Len(l) : ~Covers(l[i], a)
  PROVE  TypeAt(l, a) = E820_HOLE
<1>1. TypeAt(l, a) \in Type \cup {E820_HOLE} /\ \A type : ~Says(l, a, type)
  BY TypeSaid DEF Says
<1> QED
  BY <1>1, TypeSaid

\* What an entry covers has its type.
LEMMA SaysType ==
  ASSUME NEW l, Ordered(l), NEW a \in Nat, NEW i \in 1 .. Len(l), Covers(l[i], a)
  PROVE  TypeAt(l, a) = l[i].type
<1>1. l[i].type \in Type /\ Says(l, a, l[i].type)
  BY EntryFacts DEF Says
<1> QED
  BY <1>1, TypeSaid

----------------------------------------------------------------------------
(* The steps of the loops: what each leaves of the list and of what it     *)
(* says.                                                                   *)

\* Entries i .. k-1 removed: the others keep their order, and only what the
\* removed ones said is forgotten.
LEMMA RemoveKeeps ==
  ASSUME NEW l, Ordered(l), NEW i \in 1 .. Len(l) + 1, NEW k \in i .. Len(l) + 1
  PROVE  /\ Ordered(remove_e820(l, i, k))
         /\ \A a \in Nat :
              (\A m \in i .. k - 1 : ~Covers(l[m], a)) =>
                TypeAt(remove_e820(l, i, k), a) = TypeAt(l, a)
<1> DEFINE r == remove_e820(l, i, k)
           n == Len(l)
           d == k - i
<1>0. /\ l \in Seq(Entry) /\ n \in Nat /\ i \in 1 .. n + 1 /\ k \in i .. n + 1
      /\ d \in Nat /\ k = i + d
  BY DEF Ordered
<1>1. /\ r \in Seq(Entry) /\ Len(r) = n - d
      /\ \A m \in 1 .. n - d : r[m] = IF m < i THEN l[m] ELSE l[m + d]
  BY <1>0, Removed
<1> HIDE DEF r, d
<1>2. \A m \in 1 .. n - d : \E u \in 1 .. n : r[m] = l[u] /\ u = IF m < i THEN m ELSE m + d
  BY <1>0, <1>1, SMTT(40)
<1>3. Ordered(r)
  <2>1. ASSUME NEW m \in 1 .. Len(r)
        PROVE  r[m].size > 0 /\ End(r[m]) <= Top
    BY <1>1, <1>2 DEF Ordered
  <2>2. ASSUME NEW m \in 1 .. Len(r), NEW v \in 1 .. Len(r), m < v
        PROVE  Before(r[m], r[v])
    <3>1. PICK u \in 1 .. n : r[m] = l[u] /\ u = IF m < i THEN m ELSE m + d
      BY <1>1, <1>2
    <3>2. PICK w \in 1 .. n : r[v] = l[w] /\ w = IF v < i THEN v ELSE v + d
      BY <1>1, <1>2
    <3>3. u < w
      BY <1>0, <2>2, <3>1, <3>2, SMTT(40)
    <3>4. Before(l[u], l[w])
      BY <3>3 DEF Ordered
    <3> QED
      BY <3>1, <3>2, <3>4
  <2> QED
    BY <1>1, <2>1, <2>2 DEF Ordered
<1>4. ASSUME NEW a \in Nat, \A m \in i .. k - 1 : ~Covers(l[m], a)
      PROVE  TypeAt(r, a) = TypeAt(l, a)
  <2>1. ASSUME NEW type, Says(r, a, type)
        PROVE  Says(l, a, type)
    <3>1. PICK m \in 1 .. Len(r) : Covers(r[m], a) /\ r[m].type = type
      BY <2>1 DEF Says
    <3>2. PICK u \in 1 .. n : r[m] = l[u]
      BY <1>1, <1>2
    <3> QED
      BY <3>1, <3>2 DEF Says
  <2>2. ASSUME NEW type, Says(l, a, type)
        PROVE  Says(r, a, type)
    <3>1. PICK u \in 1 .. n : Covers(l[u], a) /\ l[u].type = type
      BY <2>2 DEF Says
    <3>2. u < i \/ u >= k
      BY <1>0, <1>4, <3>1
    <3>3. \E m \in 1 .. n - d : r[m] = l[u]
      <4>1. CASE u < i
        BY <1>0, <1>1, <4>1
      <4>2. CASE u >= k
        <5>1. u - d \in 1 .. n - d /\ ~(u - d < i) /\ (u - d) + d = u
          BY <1>0, <4>2
        <5> QED
          BY <1>1, <5>1
      <4> QED
        BY <3>2, <4>1, <4>2
    <3> QED
      BY <1>1, <3>1, <3>3 DEF Says
  <2> QED
    BY <1>3, <2>1, <2>2, SaysSame
<1> QED
  BY <1>3, <1>4 DEF r

\* One entry shortened: what it no longer covers is a hole.
LEMMA ShrinkKeeps ==
  ASSUME NEW l, Ordered(l), NEW i \in 1 .. Len(l),
         NEW r \in Seq(Entry), Len(r) = Len(l),
         \A m \in 1 .. Len(l) : m # i => r[m] = l[m],
         r[i].size > 0, r[i].type = l[i].type,
         l[i].start <= r[i].start, End(r[i]) <= End(l[i])
  PROVE  /\ Ordered(r)
         /\ \A a \in Nat : ~Covers(l[i], a) \/ Covers(r[i], a) =>
                             TypeAt(r, a) = TypeAt(l, a)
         /\ \A a \in Nat : Covers(l[i], a) /\ ~Covers(r[i], a) =>
                             TypeAt(r, a) = E820_HOLE
<1> DEFINE n == Len(l)
<1>0. n \in Nat /\ i \in 1 .. n /\ l \in Seq(Entry)
  BY DEF Ordered
<1>1. /\ l[i].start \in Nat /\ End(l[i]) \in Nat /\ End(l[i]) <= Top
      /\ r[i].start \in Nat /\ End(r[i]) \in Nat /\ Top \in Nat
  <2>1. r[i] \in Entry
    BY <1>0
  <2> QED
    BY <1>0, <2>1, EntryFacts, E820Assumption, SMTT(30) DEF Entry, End
<1>2. Ordered(r)
  <2>1. ASSUME NEW m \in 1 .. n
        PROVE  r[m].size > 0 /\ End(r[m]) <= Top
    <3>1. CASE m = i
      BY <1>1, <3>1
    <3>2. CASE m # i
      BY <3>2 DEF Ordered
    <3> QED
      BY <3>1, <3>2
  <2>2. ASSUME NEW m \in 1 .. n, NEW v \in 1 .. n, m < v
        PROVE  Before(r[m], r[v])
    <3>1. Before(l[m], l[v])
      BY <2>2 DEF Ordered
    <3>2. /\ End(l[m]) \in Nat /\ l[v].start \in Nat
      BY EntryFacts
    <3>3. CASE m = i
      <4>1. r[v] = l[v] /\ r[m] = r[i] /\ l[m] = l[i]
        BY <1>0, <2>2, <3>3
      <4> QED
        BY <1>1, <3>1, <3>2, <4>1, SMTT(40) DEF Before
    <3>4. CASE v = i
      <4>1. r[m] = l[m] /\ r[v] = r[i] /\ l[v] = l[i]
        BY <1>0, <2>2, <3>4
      <4> QED
        BY <1>1, <3>1, <3>2, <4>1, SMTT(40) DEF Before
    <3>5. CASE m # i /\ v # i
      BY <3>1, <3>5
    <3> QED
      BY <3>3, <3>4, <3>5
  <2> QED
    BY <2>1, <2>2 DEF Ordered
<1>3. ASSUME NEW a \in Nat, ~Covers(l[i], a) \/ Covers(r[i], a)
      PROVE  TypeAt(r, a) = TypeAt(l, a)
  <2>1. Covers(r[i], a) => Covers(l[i], a)
    BY <1>1 DEF Covers
  <2>2. \A m \in 1 .. n : /\ Covers(r[m], a) <=> Covers(l[m], a)
                          /\ r[m].type = l[m].type
    BY <1>3, <2>1
  <2>3. \A type : Says(l, a, type) <=> Says(r, a, type)
    BY <2>2 DEF Says
  <2> QED
    BY <1>2, <2>3, SaysSame
<1>4. ASSUME NEW a \in Nat, Covers(l[i], a), ~Covers(r[i], a)
      PROVE  TypeAt(r, a) = E820_HOLE
  <2>1. \A m \in 1 .. n : m # i => ~Covers(l[m], a)
    BY <1>4, CoveredOnce
  <2>2. \A m \in 1 .. n : ~Covers(r[m], a)
    BY <1>4, <2>1
  <2> QED
    BY <1>2, <2>2, SaysNothing
<1> QED
  BY <1>2, <1>3, <1>4

\* r is l with the range start .. end - 1 put in at pos.
Filled(r, l, pos, start, end, type) ==
  /\ Ordered(r)
  /\ Len(r) = Len(l) + 1
  /\ \A m \in 1 .. pos - 1 : r[m] = l[m]
  /\ \A m \in pos .. Len(l) + 1 : r[m].start >= start
  /\ \A a \in Nat :
       TypeAt(r, a) = IF start <= a /\ a < end THEN type ELSE TypeAt(l, a)

\* A range put into the gap it fits: it has its type and nothing else changes.
LEMMA InsertFits ==
  ASSUME NEW l, Ordered(l), NEW pos, NEW start \in Nat, NEW end \in Nat, NEW type \in Type,
         NEW size, size = end - start,
         start < end, end <= Top, Gap(l, pos, start, end, type),
         ~(Len(l) >= BUILD_MAX_E820)
  PROVE  Filled(insert_e820(l, pos, start, size, type), l, pos, start, end, type)
<1> DEFINE n == Len(l)
           e == [start |-> start, size |-> size, type |-> type]
           r == insert_e820(l, pos, start, size, type)
<1>0. n \in Nat /\ pos \in 1 .. n + 1 /\ l \in Seq(Entry)
  BY DEF Ordered, Gap
<1>1. /\ e \in Entry /\ End(e) = end
      /\ e.start = start /\ e.type = type
  BY MakesEntry
<1>2. /\ r \in Seq(Entry) /\ Len(r) = n + 1
      /\ \A m \in 1 .. n + 1 :
           r[m] = IF m < pos THEN l[m] ELSE IF m = pos THEN e ELSE l[m - 1]
  BY <1>0, <1>1, Inserted
<1> HIDE DEF e, r
<1>3. /\ \A m \in 1 .. n : /\ End(l[m]) \in Nat /\ l[m].start \in Nat
                           /\ l[m].size > 0 /\ End(l[m]) <= Top /\ l[m].start < End(l[m])
      /\ \A m \in 1 .. n : m < pos => Before(l[m], e)
      /\ \A m \in 1 .. n : m >= pos => Before(e, l[m])
  <2>1. ASSUME NEW m \in 1 .. n
        PROVE  /\ End(l[m]) \in Nat /\ l[m].start \in Nat
               /\ l[m].size > 0 /\ End(l[m]) <= Top /\ l[m].start < End(l[m])
    BY EntryFacts DEF Ordered
  <2>2. ASSUME NEW m \in 1 .. n, m < pos
        PROVE  Before(l[m], e)
    <3>1. m \in 1 .. pos - 1
      BY <1>0, <2>2
    <3> QED
      BY <1>1, <3>1 DEF Gap, Before
  <2>3. ASSUME NEW m \in 1 .. n, m >= pos
        PROVE  Before(e, l[m])
    <3>1. m \in pos .. Len(l)
      BY <1>0, <2>3
    <3> QED
      BY <1>1, <3>1 DEF Gap, Before
  <2> QED
    BY <2>1, <2>2, <2>3
<1>4. Ordered(r)
  <2>1. ASSUME NEW m \in 1 .. n + 1
        PROVE  r[m].size > 0 /\ End(r[m]) <= Top
    <3>1. CASE m = pos
      BY <1>0, <1>1, <1>2, <3>1 DEF e
    <3>2. CASE m < pos
      <4>1. m \in 1 .. n /\ r[m] = l[m]
        BY <1>0, <1>2, <3>2
      <4> QED
        BY <1>3, <4>1
    <3>3. CASE m > pos
      <4>1. m - 1 \in 1 .. n /\ ~(m < pos) /\ m # pos
        BY <1>0, <3>3
      <4>2. r[m] = l[m - 1]
        BY <1>2, <4>1, ZenonT(40)
      <4> QED
        BY <1>3, <4>1, <4>2
    <3> QED
      BY <1>0, <3>1, <3>2, <3>3
  <2>2. ASSUME NEW m \in 1 .. n + 1, NEW k \in 1 .. n + 1, m < k
        PROVE  Before(r[m], r[k])
    <3>0. \A u, v \in 1 .. n : u < v => Before(l[u], l[v])
      BY DEF Ordered
    <3>1. CASE k < pos
      <4>1. m \in 1 .. n /\ k \in 1 .. n /\ r[m] = l[m] /\ r[k] = l[k]
        BY <1>0, <1>2, <2>2, <3>1
      <4> QED
        BY <2>2, <3>0, <4>1
    <3>2. CASE k = pos
      <4>1. m \in 1 .. n /\ m < pos /\ r[m] = l[m] /\ r[k] = e
        BY <1>0, <1>2, <2>2, <3>2
      <4> QED
        BY <1>3, <4>1
    <3>3. CASE k > pos /\ m < pos
      <4>1. m \in 1 .. n /\ k - 1 \in 1 .. n /\ m < k - 1 /\ r[m] = l[m] /\ r[k] = l[k - 1]
        BY <1>0, <1>2, <2>2, <3>3
      <4> QED
        BY <3>0, <4>1
    <3>4. CASE k > pos /\ m = pos
      <4>1. k - 1 \in 1 .. n /\ k - 1 >= pos /\ r[m] = e /\ r[k] = l[k - 1]
        BY <1>0, <1>2, <2>2, <3>4, SMTT(40)
      <4> QED
        BY <1>3, <4>1
    <3>5. CASE m > pos
      <4>1. /\ m - 1 \in 1 .. n /\ k - 1 \in 1 .. n /\ m - 1 < k - 1
            /\ r[m] = l[m - 1] /\ r[k] = l[k - 1]
        BY <1>0, <1>2, <2>2, <3>5, SMTT(40)
      <4> QED
        BY <3>0, <4>1
    <3> QED
      BY <1>0, <2>2, <3>1, <3>2, <3>3, <3>4, <3>5
  <2> QED
    BY <1>2, <2>1, <2>2 DEF Ordered
<1>5. ASSUME NEW m \in 1 .. pos - 1
      PROVE  r[m] = l[m]
  BY <1>0, <1>2
<1>6. ASSUME NEW m \in pos .. n + 1
      PROVE  r[m].start >= start
  <2>1. CASE m = pos
    BY <1>0, <1>1, <1>2, <2>1
  <2>2. CASE m # pos
    <3>1. m - 1 \in 1 .. n /\ m - 1 >= pos /\ r[m] = l[m - 1]
      BY <1>0, <1>2, <2>2
    <3>2. Before(e, l[m - 1]) /\ l[m - 1].start \in Nat
      BY <1>3, <3>1
    <3> QED
      BY <1>1, <3>1, <3>2 DEF Before
  <2> QED
    BY <2>1, <2>2
<1>7. ASSUME NEW a \in Nat
      PROVE  TypeAt(r, a) = IF start <= a /\ a < end THEN type ELSE TypeAt(l, a)
  <2>1. CASE start <= a /\ a < end
    <3>1. pos \in 1 .. n + 1 /\ r[pos] = e
      BY <1>0, <1>2
    <3>2. Covers(r[pos], a)
      BY <1>1, <2>1, <3>1 DEF Covers
    <3>3. TypeAt(r, a) = r[pos].type
      BY <1>2, <1>4, <3>1, <3>2, SaysType
    <3> QED
      BY <1>1, <2>1, <3>1, <3>3
  <2>2. CASE ~(start <= a /\ a < end)
    <3>1. ~Covers(e, a)
      BY <1>1, <2>2 DEF Covers
    <3>2. ASSUME NEW t, Says(l, a, t)
          PROVE  Says(r, a, t)
      <4>1. PICK m \in 1 .. n : Covers(l[m], a) /\ l[m].type = t
        BY <3>2 DEF Says
      <4>2. \E k \in 1 .. n + 1 : r[k] = l[m]
        <5>1. CASE m < pos
          BY <1>0, <1>2, <5>1
        <5>2. CASE m >= pos
          <6>1. m + 1 \in 1 .. n + 1 /\ ~(m + 1 < pos) /\ m + 1 # pos /\ (m + 1) - 1 = m
            BY <1>0, <5>2
          <6> QED
            BY <1>2, <6>1
        <5> QED
          BY <1>0, <5>1, <5>2
      <4> QED
        BY <1>2, <4>1, <4>2 DEF Says
    <3>3. ASSUME NEW t, Says(r, a, t)
          PROVE  Says(l, a, t)
      <4>1. PICK k \in 1 .. n + 1 : Covers(r[k], a) /\ r[k].type = t
        BY <1>2, <3>3 DEF Says
      <4>2. k # pos
        BY <1>2, <3>1, <4>1
      <4>3. \E m \in 1 .. n : r[k] = l[m]
        BY <1>0, <1>2, <4>2
      <4> QED
        BY <4>1, <4>3 DEF Says
    <3>4. TypeAt(l, a) = TypeAt(r, a)
      BY <1>4, <3>2, <3>3, SaysSame
    <3> QED
      BY <2>2, <3>4
  <2> QED
    BY <2>1, <2>2
<1> QED
  BY <1>2, <1>4, <1>5, <1>6, <1>7 DEF r, Filled

\* Nothing covers the addresses of a gap.
LEMMA GapEmpty ==
  ASSUME NEW l, Ordered(l), NEW pos, NEW start \in Nat, NEW end \in Nat, NEW type,
         Gap(l, pos, start, end, type), NEW a \in Nat, start <= a, a < end
  PROVE  TypeAt(l, a) = E820_HOLE
<1>1. Len(l) \in Nat
  BY DEF Ordered
<1>2. ASSUME NEW m \in 1 .. Len(l)
      PROVE  ~Covers(l[m], a)
  <2>1. End(l[m]) \in Nat /\ l[m].start \in Nat
    BY EntryFacts
  <2>2. m \in 1 .. pos - 1 \/ m \in pos .. Len(l)
    BY <1>1 DEF Gap
  <2>3. End(l[m]) <= start \/ end <= l[m].start
    BY <2>2 DEF Gap
  <2> QED
    BY <2>1, <2>3 DEF Covers
<1> QED
  BY <1>2, SaysNothing

----------------------------------------------------------------------------
(* The two loops.                                                          *)

\* A list the first loop may leave for start .. end - 1: everything before
\* pos lies below the range and does not continue it, everything from pos on
\* does not begin below it.
Split(p, end, type) ==
  /\ Ordered(p.list) /\ Len(p.list) <= BUILD_MAX_E820
  /\ p.pos \in 1 .. Len(p.list) + 1
  /\ p \in [list : Seq(Entry), pos : Nat, start : Nat, size : Nat]
  /\ p.start + p.size = end
  /\ \A i \in 1 .. p.pos - 1 :
       End(p.list[i]) <= p.start /\ (End(p.list[i]) = p.start => p.list[i].type # type)
  /\ \A i \in p.pos .. Len(p.list) : p.start <= p.list[i].start

\* What the first loop has done to list l.
Placed(l, p, start, end, type) ==
  /\ Len(p.list) <= Len(l) + 1
  /\ p.start <= start
  /\ \A a \in Nat : p.start <= a /\ a < start => TypeAt(l, a) = type
  /\ \A a \in Nat : ~(start <= a /\ a < end) =>
       \/ TypeAt(p.list, a) = TypeAt(l, a)
       \/ Len(l) >= BUILD_MAX_E820 /\ TypeAt(p.list, a) = E820_HOLE

\* The record a loop hands on.
LEMMA MakesPlace ==
  ASSUME NEW p, NEW l, NEW i \in Nat, NEW start \in Nat, NEW size \in Nat,
         p = [list |-> l, pos |-> i + 1, start |-> start, size |-> size],
         p.list \in Seq(Entry)
  PROVE  p \in [list : Seq(Entry), pos : Nat, start : Nat, size : Nat]
OBVIOUS

\* The first loop finds no entry that begins below the range and reaches it.
LEMMA PlaceBetween ==
  ASSUME NEW l, Ordered(l), Len(l) <= BUILD_MAX_E820,
         NEW start \in Nat, NEW size \in Nat, NEW type,
         FirstReaching(l, start) > Len(l) \/ start <= l[FirstReaching(l, start)].start
  PROVE  /\ Split(Place(l, start, size, type), start + size, type)
         /\ Placed(l, Place(l, start, size, type), start, start + size, type)
<1> DEFINE i == FirstReaching(l, start)
           p == Place(l, start, size, type)
<1>0. l \in Seq(Entry) /\ Len(l) \in Nat
  BY DEF Ordered
<1>1. /\ i \in 1 .. Len(l) + 1
      /\ \A m \in 1 .. Len(l) : m < i => End(l[m]) < start
  BY Reaching
<1>2. p = [list |-> l, pos |-> i, start |-> start, size |-> size]
  BY DEF Place
<1>3. /\ p.list = l /\ p.pos = i /\ p.start = start /\ p.size = size
      /\ p \in [list : Seq(Entry), pos : Nat, start : Nat, size : Nat]
  BY <1>0, <1>1, <1>2
<1> HIDE DEF p
<1>4. ASSUME NEW m \in 1 .. i - 1
      PROVE  End(l[m]) <= start /\ End(l[m]) # start
  <2>1. m \in 1 .. Len(l) /\ m < i
    BY <1>0, <1>1
  <2>2. End(l[m]) < start /\ End(l[m]) \in Nat
    BY <1>1, <2>1, EntryFacts
  <2> QED
    BY <2>2
<1>5. ASSUME NEW m \in i .. Len(l)
      PROVE  start <= l[m].start
  <2>1. m \in 1 .. Len(l) /\ i \in 1 .. Len(l) /\ ~(i > Len(l))
    BY <1>0, <1>1
  <2>2. /\ l[m].start \in Nat /\ l[i].start \in Nat
        /\ End(l[i]) \in Nat /\ l[i].start < End(l[i])
    BY <2>1, EntryFacts
  <2>3. start <= l[i].start
    BY <2>1
  <2>4. i < m => End(l[i]) <= l[m].start
    BY <2>1 DEF Ordered, Before
  <2>5. i = m \/ i < m
    BY <1>0, <2>1
  <2> QED
    BY <2>2, <2>3, <2>4, <2>5
<1> HIDE DEF i
<1>6. Split(p, start + size, type)
  BY <1>0, <1>1, <1>3, <1>4, <1>5 DEF Split
<1>7. Placed(l, p, start, start + size, type)
  BY <1>0, <1>3 DEF Placed
<1> QED
  BY <1>6, <1>7 DEF p

\* The first loop finds an entry of the new range's type: the range takes it in.
LEMMA PlaceJoins ==
  ASSUME NEW l, Ordered(l), Len(l) <= BUILD_MAX_E820,
         NEW start \in Nat, NEW size \in Nat, NEW type,
         FirstReaching(l, start) <= Len(l), l[FirstReaching(l, start)].start < start,
         l[FirstReaching(l, start)].type = type
  PROVE  /\ Split(Place(l, start, size, type), start + size, type)
         /\ Placed(l, Place(l, start, size, type), start, start + size, type)
<1> DEFINE i == FirstReaching(l, start)
           p == Place(l, start, size, type)
<1>0. l \in Seq(Entry) /\ Len(l) \in Nat
  BY DEF Ordered
<1>1. /\ i \in 1 .. Len(l)
      /\ start <= End(l[i])
  BY <1>0, Reaching
<1>2. /\ l[i].start \in Nat /\ End(l[i]) \in Nat
      /\ l[i].start < start /\ l[i].type = type
  BY <1>1, EntryFacts
<1>3. p = [list |-> l, pos |-> i, start |-> l[i].start, size |-> size + (start - l[i].start)]
  <2>1. ~(i > Len(l) \/ start <= l[i].start)
    BY <1>0, <1>1, <1>2
  <2> QED
    BY <1>2, <2>1 DEF Place
<1>4. /\ p.list = l /\ p.pos = i /\ p.start = l[i].start
      /\ p.size = size + (start - l[i].start)
      /\ p \in [list : Seq(Entry), pos : Nat, start : Nat, size : Nat]
  <2>1. size + (start - l[i].start) \in Nat /\ i \in Nat
    BY <1>0, <1>1, <1>2, SMTT(40)
  <2> QED
    BY <1>0, <1>2, <1>3, <2>1
<1> HIDE DEF p
<1>5. ASSUME NEW m \in 1 .. i - 1
      PROVE  End(l[m]) <= l[i].start /\ (End(l[m]) = l[i].start => l[m].type # type)
  <2>1. m \in 1 .. Len(l) /\ m < i
    BY <1>0, <1>1
  <2>2. Before(l[m], l[i])
    BY <1>1, <2>1 DEF Ordered
  <2> QED
    BY <1>2, <2>2 DEF Before
<1>6. ASSUME NEW m \in i .. Len(l)
      PROVE  l[i].start <= l[m].start
  <2>1. m \in 1 .. Len(l)
    BY <1>0, <1>1
  <2>2. /\ l[m].start \in Nat /\ l[i].start < End(l[i])
    BY <1>1, <2>1, EntryFacts
  <2>3. i < m => End(l[i]) <= l[m].start
    BY <1>1, <2>1 DEF Ordered, Before
  <2>4. i = m \/ i < m
    BY <1>0, <1>1
  <2> QED
    BY <1>2, <2>2, <2>3, <2>4
<1>7. ASSUME NEW a \in Nat, l[i].start <= a, a < start
      PROVE  TypeAt(l, a) = type
  <2>1. Covers(l[i], a)
    BY <1>1, <1>2, <1>7 DEF Covers
  <2> QED
    BY <1>1, <1>2, <2>1, SaysType
<1> HIDE DEF i
<1>8. Split(p, start + size, type)
  <2>1. p.size \in Nat /\ p.start + p.size = start + size
    BY <1>2, <1>4
  <2>2. p.pos \in 1 .. Len(p.list) + 1
    BY <1>0, <1>1, <1>4
  <2> QED
    BY <1>2, <1>4, <1>5, <1>6, <2>1, <2>2 DEF Split
<1>9. Placed(l, p, start, start + size, type)
  <2>1. p.start <= start /\ Len(p.list) <= Len(l) + 1
    BY <1>0, <1>2, <1>4
  <2> QED
    BY <1>4, <1>7, <2>1 DEF Placed
<1> QED
  BY <1>8, <1>9 DEF p

\* The first loop finds an entry of another type: it is cut where the range
\* begins, and what it has behind the range becomes an entry of its own.
LEMMA PlaceCuts ==
  ASSUME NEW l, Ordered(l), Len(l) <= BUILD_MAX_E820,
         NEW start \in Nat, NEW size \in Nat, size > 0, start + size <= Top, NEW type,
         FirstReaching(l, start) <= Len(l), l[FirstReaching(l, start)].start < start,
         l[FirstReaching(l, start)].type # type
  PROVE  /\ Split(Place(l, start, size, type), start + size, type)
         /\ Placed(l, Place(l, start, size, type), start, start + size, type)
<1> DEFINE i == FirstReaching(l, start)
           n == Len(l)
           end == start + size
           cut == [l EXCEPT ![i].size = start - l[i].start]
           tail == insert_e820(cut, i + 1, end, End(l[i]) - end, l[i].type)
           p == Place(l, start, size, type)
<1>0. l \in Seq(Entry) /\ n \in Nat /\ end \in Nat /\ start < end /\ end <= Top
  BY DEF Ordered
<1>1. /\ i \in 1 .. n
      /\ start <= End(l[i])
      /\ \A m \in 1 .. n : m < i => End(l[m]) < start
  BY <1>0, Reaching
<1>2. /\ l[i].start \in Nat /\ End(l[i]) \in Nat /\ End(l[i]) <= Top
      /\ l[i].size \in Nat /\ End(l[i]) = l[i].start + l[i].size
      /\ l[i].start < start /\ l[i].type # type /\ l[i].type \in Type /\ l[i] \in Entry
      /\ Top \in Nat
  BY <1>1, EntryFacts, E820Assumption
<1>3. p = [list |-> IF End(l[i]) > end THEN tail ELSE cut,
           pos |-> i + 1, start |-> start, size |-> size]
  <2>1. ~(i > Len(l) \/ start <= l[i].start)
    BY <1>0, <1>1, <1>2
  <2> QED
    BY <1>2, <2>1 DEF Place
<1>4. /\ p.list = IF End(l[i]) > end THEN tail ELSE cut
      /\ p.pos = i + 1 /\ p.start = start /\ p.size = size
  BY <1>3
<1>5. /\ cut \in Seq(Entry) /\ Len(cut) = n
      /\ \A m \in 1 .. n : m # i => cut[m] = l[m]
      /\ cut[i].start = l[i].start /\ cut[i].type = l[i].type
      /\ cut[i].size = start - l[i].start
  <2> DEFINE c == [l[i] EXCEPT !.size = start - l[i].start]
  <2>1. start - l[i].start \in 0 .. Top
    BY <1>0, <1>2, SMTT(40)
  <2>2. /\ c \in Entry /\ c.start = l[i].start /\ c.type = l[i].type
        /\ c.size = start - l[i].start
    BY <1>2, <2>1 DEF Entry
  <2>3. cut = [l EXCEPT ![i] = c]
    BY <1>0, <1>1
  <2> HIDE DEF c
  <2>4. [l EXCEPT ![i] = c] \in Seq(Entry) /\ Len([l EXCEPT ![i] = c]) = n
    BY <1>0, <1>1, <2>2
  <2>5. /\ [l EXCEPT ![i] = c][i] = c
        /\ \A m \in 1 .. n : m # i => [l EXCEPT ![i] = c][m] = l[m]
    BY <1>0, <1>1
  <2> QED
    BY <2>2, <2>3, <2>4, <2>5, Zenon
<1> HIDE DEF p, cut
<1>6. cut[i].size > 0 /\ End(cut[i]) = start
  BY <1>0, <1>2, <1>5, SMTT(40) DEF End
<1>7. /\ Ordered(cut)
      /\ \A a \in Nat : ~Covers(l[i], a) \/ Covers(cut[i], a) => TypeAt(cut, a) = TypeAt(l, a)
      /\ \A a \in Nat : Covers(l[i], a) /\ ~Covers(cut[i], a) => TypeAt(cut, a) = E820_HOLE
  <2>1. l[i].start <= cut[i].start /\ End(cut[i]) <= End(l[i])
    BY <1>1, <1>2, <1>5, <1>6
  <2> QED
    BY <1>1, <1>5, <1>6, <2>1, ShrinkKeeps
<1>8. \A a \in Nat : \/ TypeAt(cut, a) = TypeAt(l, a)
                     \/ start <= a /\ a < End(l[i]) /\ TypeAt(cut, a) = E820_HOLE
  <2> TAKE a \in Nat
  <2>1. CASE ~Covers(l[i], a) \/ Covers(cut[i], a)
    BY <1>7, <2>1
  <2>2. CASE Covers(l[i], a) /\ ~Covers(cut[i], a)
    <3>1. start <= a /\ a < End(l[i])
      BY <1>2, <1>5, <1>6, <2>2 DEF Covers
    <3> QED
      BY <1>7, <2>2, <3>1
  <2> QED
    BY <2>1, <2>2
<1>9. ASSUME NEW m \in i + 1 .. n
      PROVE  /\ m \in 1 .. n /\ cut[m] = l[m] /\ l[m].start \in Nat
             /\ End(l[i]) <= l[m].start
             /\ End(l[i]) = l[m].start => l[m].type # l[i].type
  <2>1. m \in 1 .. n /\ i < m
    BY <1>0, <1>1
  <2>2. Before(l[i], l[m])
    BY <1>1, <2>1 DEF Ordered
  <2> QED
    BY <1>1, <1>5, <2>1, <2>2, EntryFacts DEF Before
<1>10. ASSUME NEW m \in 1 .. i
       PROVE  /\ End(cut[m]) \in Nat /\ End(cut[m]) <= start
              /\ End(cut[m]) = start => cut[m].type # type
  <2>1. CASE m = i
    BY <1>0, <1>2, <1>5, <1>6, <2>1, SMTT(40)
  <2>2. CASE m # i
    <3>1. m \in 1 .. n /\ m < i
      BY <1>0, <1>1, <2>2
    <3>2. End(l[m]) \in Nat /\ End(l[m]) < start /\ cut[m] = l[m]
      BY <1>1, <1>5, <2>2, <3>1, EntryFacts
    <3> QED
      BY <3>2
  <2> QED
    BY <2>1, <2>2
<1> DEFINE Goal == /\ Split(p, end, type)
                   /\ Placed(l, p, start, end, type)
<1>11. ASSUME p.list = cut,
              \A a \in Nat : ~(start <= a /\ a < end) =>
                \/ TypeAt(cut, a) = TypeAt(l, a)
                \/ Len(l) >= BUILD_MAX_E820 /\ TypeAt(cut, a) = E820_HOLE
       PROVE  Goal
  <2>0. p \in [list : Seq(Entry), pos : Nat, start : Nat, size : Nat]
    BY <1>1, <1>3, <1>4, <1>5, <1>11, MakesPlace
  <2>1. p.pos \in 1 .. Len(p.list) + 1 /\ p.start + p.size = end
        /\ Len(p.list) <= Len(l) + 1 /\ p.start <= start
    BY <1>0, <1>1, <1>4, <1>5, <1>11
  <2>2. \A m \in 1 .. p.pos - 1 : m \in 1 .. i
    BY <1>1, <1>4
  <2>3. ASSUME NEW m \in p.pos .. Len(p.list)
        PROVE  start <= cut[m].start
    <3>1. m \in i + 1 .. n
      BY <1>4, <1>5, <1>11
    <3>2. cut[m] = l[m] /\ l[m].start \in Nat /\ End(l[i]) <= l[m].start
      BY <1>9, <3>1
    <3>3. start <= l[m].start
      BY <1>1, <1>2, <3>2
    <3> QED
      BY <3>2, <3>3
  <2>4. \A a \in Nat : ~(p.start <= a /\ a < start)
    BY <1>4
  <2>5. Split(p, end, type)
    BY <1>4, <1>5, <1>7, <1>10, <1>11, <2>0, <2>1, <2>2, <2>3 DEF Split
  <2>6. Placed(l, p, start, end, type)
    BY <1>4, <1>11, <2>1, <2>4 DEF Placed
  <2> QED
    BY <2>5, <2>6
<1>12. ASSUME ~(End(l[i]) > end)
       PROVE  Goal
  <2>1. p.list = cut
    BY <1>4, <1>12
  <2>2. \A a \in Nat : ~(start <= a /\ a < end) => TypeAt(cut, a) = TypeAt(l, a)
    BY <1>0, <1>2, <1>8, <1>12
  <2> QED
    BY <1>11, <2>1, <2>2
<1>13. ASSUME End(l[i]) > end, Len(l) >= BUILD_MAX_E820
       PROVE  Goal
  <2>1. p.list = cut
    BY <1>4, <1>5, <1>13 DEF tail, insert_e820
  <2>2. \A a \in Nat : TypeAt(cut, a) = TypeAt(l, a) \/ TypeAt(cut, a) = E820_HOLE
    BY <1>8
  <2> QED
    BY <1>11, <1>13, <2>1, <2>2
<1>14. ASSUME End(l[i]) > end, ~(Len(l) >= BUILD_MAX_E820)
       PROVE  Goal
  <2>1. Gap(cut, i + 1, end, End(l[i]), l[i].type)
    <3>1. i + 1 \in 1 .. Len(cut) + 1
      BY <1>0, <1>1, <1>5, SMTT(40)
    <3>2. ASSUME NEW m \in 1 .. (i + 1) - 1
          PROVE  End(cut[m]) <= end /\ (End(cut[m]) = end => cut[m].type # l[i].type)
      <4>0. m \in 1 .. i
        BY <1>1
      <4> QED
        BY <1>0, <1>10, <4>0
    <3>3. ASSUME NEW m \in i + 1 .. Len(cut)
          PROVE  /\ End(l[i]) <= cut[m].start
                 /\ End(l[i]) = cut[m].start => cut[m].type # l[i].type
      <4>0. m \in i + 1 .. n
        BY <1>5
      <4> QED
        BY <1>9, <4>0
    <3> QED
      BY <3>1, <3>2, <3>3 DEF Gap
  <2>2. /\ Ordered(tail) /\ Len(tail) = n + 1
        /\ \A m \in 1 .. i : tail[m] = cut[m]
        /\ \A m \in i + 1 .. n + 1 : tail[m].start >= end
        /\ \A a \in Nat : TypeAt(tail, a) =
             IF end <= a /\ a < End(l[i]) THEN l[i].type ELSE TypeAt(cut, a)
    <3>1. (i + 1) - 1 = i /\ ~(Len(cut) >= BUILD_MAX_E820)
      BY <1>1, <1>5, <1>14
    <3>2. /\ end \in Nat /\ End(l[i]) \in Nat /\ l[i].type \in Type
          /\ end < End(l[i]) /\ End(l[i]) <= Top
      BY <1>0, <1>2, <1>14
    <3> DEFINE rest == End(l[i]) - end
    <3>3. rest = End(l[i]) - end
      OBVIOUS
    <3>4. tail = insert_e820(cut, i + 1, end, rest, l[i].type)
      OBVIOUS
    <3> HIDE DEF end, tail, rest
    <3>5. Filled(insert_e820(cut, i + 1, end, rest, l[i].type),
                 cut, i + 1, end, End(l[i]), l[i].type)
      BY <1>7, <2>1, <3>1, <3>2, <3>3, InsertFits, Zenon
    <3>6. Filled(tail, cut, i + 1, end, End(l[i]), l[i].type)
      BY <3>4, <3>5, Zenon
    <3> QED
      BY <1>5, <3>1, <3>6 DEF Filled
  <2>3. p.list = tail
    BY <1>4, <1>14
  <2> HIDE DEF tail
  <2>4. /\ p.pos \in 1 .. Len(p.list) + 1 /\ p.start + p.size = end
        /\ Len(p.list) <= Len(l) + 1 /\ p.start <= start
        /\ Len(p.list) <= BUILD_MAX_E820
    BY <1>0, <1>1, <1>4, <1>14, <2>2, <2>3, E820Assumption
  <2>5. ASSUME NEW m \in 1 .. p.pos - 1
        PROVE  /\ End(p.list[m]) <= p.start
               /\ End(p.list[m]) = p.start => p.list[m].type # type
    <3>1. m \in 1 .. i
      BY <1>1, <1>4
    <3> QED
      BY <1>4, <1>10, <2>2, <2>3, <3>1
  <2>6. ASSUME NEW m \in p.pos .. Len(p.list)
        PROVE  p.start <= p.list[m].start
    <3>1. m \in i + 1 .. n + 1 /\ m \in 1 .. Len(tail)
      BY <1>1, <1>4, <2>2, <2>3
    <3>2. tail[m].start >= end /\ tail[m].start \in Nat
      BY <2>2, <3>1, EntryFacts
    <3> QED
      BY <1>0, <1>4, <2>3, <3>2, SMTT(40)
  <2>7. Split(p, end, type)
    <3>1. p \in [list : Seq(Entry), pos : Nat, start : Nat, size : Nat]
      BY <1>1, <1>3, <1>4, <2>2, <2>3, MakesPlace DEF Ordered
    <3> QED
      BY <1>4, <2>2, <2>3, <2>4, <2>5, <2>6, <3>1 DEF Split
  <2>8. ASSUME NEW a \in Nat, ~(start <= a /\ a < end)
        PROVE  TypeAt(tail, a) = TypeAt(l, a)
    <3>1. CASE Covers(l[i], a) /\ end <= a
      <4>1. TypeAt(l, a) = l[i].type
        BY <1>1, <3>1, SaysType
      <4> QED
        BY <2>2, <3>1, <4>1 DEF Covers
    <3>2. CASE ~(Covers(l[i], a) /\ end <= a)
      <4>1. ~(end <= a /\ a < End(l[i]))
        BY <1>0, <1>2, <3>2 DEF Covers
      <4>2. TypeAt(cut, a) = TypeAt(l, a)
        BY <1>0, <1>2, <1>8, <2>8, <4>1
      <4> QED
        BY <2>2, <4>1, <4>2
    <3> QED
      BY <3>1, <3>2
  <2>9. \A a \in Nat : ~(p.start <= a /\ a < start)
    BY <1>4
  <2>10. Placed(l, p, start, end, type)
    BY <2>3, <2>4, <2>8, <2>9 DEF Placed
  <2> QED
    BY <2>7, <2>10
<1> HIDE DEF Goal
<1>15. Goal
  BY <1>12, <1>13, <1>14
<1> QED
  BY <1>15 DEF Goal, p, end

\* What the second loop makes of p: the gap the range, grown by what it took
\* in behind its end, fits into.
Absorbed(p, q, end, type) ==
  /\ Ordered(q.list) /\ Len(q.list) <= Len(p.list)
  /\ q.start = p.start /\ q.size \in Nat
  /\ end <= q.start + q.size /\ q.start + q.size <= Top
  /\ Gap(q.list, q.pos, q.start, q.start + q.size, type)
  /\ \A a \in Nat : end <= a /\ a < q.start + q.size => TypeAt(p.list, a) = type
  /\ \A a \in Nat : ~(q.start <= a /\ a < q.start + q.size) =>
       TypeAt(q.list, a) = TypeAt(p.list, a)

\* The second loop: what lies below end is removed, the entry that reaches
\* beyond it is taken in, cut or left alone.
LEMMA AbsorbLeavesGap ==
  ASSUME NEW p, NEW end \in Nat, NEW type, Split(p, end, type),
         p.start < end, end <= Top
  PROVE  Absorbed(p, Absorb(p, end, type), end, type)
<1> DEFINE n == Len(p.list)
           k == FirstBeyond(p.list, p.pos, end)
           l == remove_e820(p.list, p.pos, k)
           d == k - p.pos
           e == l[p.pos]
           q == Absorb(p, end, type)
<1>0. /\ Ordered(p.list) /\ p.list \in Seq(Entry) /\ n \in Nat
      /\ p.pos \in 1 .. n + 1 /\ p.pos \in Nat
      /\ p \in [list : Seq(Entry), pos : Nat, start : Nat, size : Nat]
      /\ p.start \in Nat /\ p.size \in Nat /\ p.start + p.size = end
      /\ Top \in Nat
  BY E820Assumption DEF Split, Ordered
<1>1. /\ \A m \in 1 .. p.pos - 1 :
           /\ End(p.list[m]) <= p.start
           /\ End(p.list[m]) = p.start => p.list[m].type # type
      /\ \A m \in p.pos .. n : p.start <= p.list[m].start
  BY DEF Split
<1>2. /\ k \in p.pos .. n + 1
      /\ k <= n => end < End(p.list[k])
      /\ \A m \in p.pos .. n : m < k => End(p.list[m]) <= end
  BY <1>0, Beyond
<1>3. d \in Nat /\ k = p.pos + d /\ n - d \in Nat
  BY <1>0, <1>2, SMTT(40)
<1> HIDE DEF k
<1>4. /\ l \in Seq(Entry) /\ Len(l) = n - d
      /\ \A m \in 1 .. n - d : l[m] = IF m < p.pos THEN p.list[m] ELSE p.list[m + d]
  BY <1>0, <1>2, Removed, ZenonT(40)
<1>5. /\ Ordered(l)
      /\ \A a \in Nat : (\A m \in p.pos .. k - 1 : ~Covers(p.list[m], a)) =>
                          TypeAt(l, a) = TypeAt(p.list, a)
  BY <1>0, <1>2, RemoveKeeps
<1>6. q = IF p.pos > Len(l) \/ end < e.start
          THEN [p EXCEPT !.list = l]
          ELSE IF e.type = type
          THEN [p EXCEPT !.list = remove_e820(l, p.pos, p.pos + 1),
                         !.size = @ + (End(e) - end)]
          ELSE [p EXCEPT !.list = [l EXCEPT ![p.pos] =
                  [e EXCEPT !.start = end, !.size = End(e) - end]]]
  BY DEF Absorb, k
<1> HIDE DEF l, d, q
<1>7. ASSUME NEW a \in Nat, ~(p.start <= a /\ a < end)
      PROVE  TypeAt(l, a) = TypeAt(p.list, a)
  <2>1. ASSUME NEW m \in p.pos .. k - 1
        PROVE  ~Covers(p.list[m], a)
    <3>1. m \in p.pos .. n /\ m < k /\ m \in 1 .. n
      BY <1>0, <1>2
    <3>2. /\ p.list[m].start \in Nat /\ End(p.list[m]) \in Nat
          /\ p.start <= p.list[m].start /\ End(p.list[m]) <= end
      BY <1>0, <1>1, <1>2, <3>1, EntryFacts
    <3> QED
      BY <1>0, <1>7, <3>2, SMTT(40) DEF Covers
  <2> QED
    BY <1>5, <2>1
<1>8. ASSUME NEW m \in 1 .. p.pos - 1
      PROVE  /\ m \in 1 .. Len(l)
             /\ End(l[m]) <= p.start
             /\ End(l[m]) = p.start => l[m].type # type
  <2>1. m \in 1 .. n - d /\ m < p.pos
    BY <1>0, <1>2, <1>3, SMTT(40)
  <2>2. l[m] = p.list[m]
    BY <1>4, <2>1
  <2> QED
    BY <1>1, <1>4, <2>1, <2>2
<1>9. ASSUME NEW m \in p.pos .. Len(l)
      PROVE  /\ m \in 1 .. Len(l)
             /\ l[m].start \in Nat /\ End(l[m]) \in Nat /\ End(l[m]) <= Top
             /\ l[m].start < End(l[m]) /\ p.start <= l[m].start /\ l[m].type \in Type
             /\ end < End(l[m])
  <2>1. /\ m \in 1 .. n - d /\ ~(m < p.pos) /\ m + d \in k .. n
        /\ k \in 1 .. n /\ m + d \in p.pos .. n /\ m + d \in 1 .. n
    BY <1>0, <1>2, <1>3, <1>4
  <2>2. l[m] = p.list[m + d]
    BY <1>4, <2>1
  <2>3. /\ m \in 1 .. Len(l)
        /\ l[m].start \in Nat /\ End(l[m]) \in Nat /\ End(l[m]) <= Top
        /\ l[m].start < End(l[m]) /\ l[m].type \in Type
    BY <1>4, <1>5, <2>1, EntryFacts
  <2>4. p.start <= l[m].start
    BY <1>1, <2>1, <2>2
  <2>5. end < End(p.list[k]) /\ End(p.list[k]) \in Nat
    BY <1>0, <1>2, <2>1, EntryFacts
  <2>6. CASE m + d = k
    BY <2>2, <2>3, <2>4, <2>5, <2>6
  <2>7. CASE m + d # k
    <3>1. k < m + d
      BY <2>1, <2>7
    <3>2. End(p.list[k]) <= p.list[m + d].start
      BY <1>0, <2>1, <3>1 DEF Ordered, Before
    <3> QED
      BY <2>2, <2>3, <2>4, <2>5, <3>2
  <2> QED
    BY <2>6, <2>7
<1>10. p.pos \in 1 .. Len(l) + 1
  BY <1>0, <1>2, <1>3, <1>4, SMTT(40)
<1>11. ASSUME NEW m \in p.pos + 1 .. Len(l)
       PROVE  /\ m \in p.pos .. Len(l) /\ p.pos \in p.pos .. Len(l)
              /\ Before(e, l[m])
  <2>1. m \in 1 .. Len(l) /\ p.pos \in 1 .. Len(l) /\ p.pos < m
    BY <1>3, <1>4, <1>10, SMTT(40)
  <2> QED
    BY <1>5, <2>1 DEF Ordered
<1> DEFINE Goal == Absorbed(p, q, end, type)
<1>12. ASSUME p.pos > Len(l) \/ end < e.start
       PROVE  Goal
  <2>1. q = [p EXCEPT !.list = l]
    BY <1>6, <1>12
  <2>2. q.list = l /\ q.pos = p.pos /\ q.start = p.start /\ q.size = p.size
    BY <1>0, <2>1
  <2>3. ASSUME NEW m \in p.pos .. Len(l)
        PROVE  end < l[m].start
    <3>0. p.pos \in p.pos .. Len(l) /\ ~(p.pos > Len(l))
      BY <1>3, <1>4, <1>10, SMTT(40)
    <3>1. end < e.start /\ e.start \in Nat /\ End(e) \in Nat /\ e.start < End(e)
          /\ l[m].start \in Nat
      BY <1>9, <1>12, <3>0
    <3>2. CASE m = p.pos
      BY <3>1, <3>2
    <3>3. CASE m # p.pos
      <4>1. m \in p.pos + 1 .. Len(l)
        BY <1>3, <1>4, <1>10, <3>3, SMTT(40)
      <4>2. End(e) <= l[m].start
        BY <1>11, <4>1 DEF Before
      <4> QED
        BY <3>1, <4>2
    <3> QED
      BY <3>2, <3>3
  <2>4. Gap(l, p.pos, p.start, end, type)
    <3>1. ASSUME NEW m \in p.pos .. Len(l)
          PROVE  end <= l[m].start /\ (end = l[m].start => l[m].type # type)
      BY <1>9, <2>3
    <3> QED
      BY <1>8, <1>10, <3>1 DEF Gap
  <2>5. \A a \in Nat : ~(end <= a /\ a < end)
    OBVIOUS
  <2>6. Len(l) <= Len(p.list)
    BY <1>0, <1>3, <1>4
  <2> QED
    BY <1>0, <1>5, <1>7, <2>2, <2>4, <2>5, <2>6 DEF Absorbed
<1>13. ASSUME ~(p.pos > Len(l)), ~(end < e.start)
       PROVE  /\ p.pos \in p.pos .. Len(l) /\ p.pos \in 1 .. Len(l)
              /\ e.start \in Nat /\ End(e) \in Nat /\ End(e) <= Top
              /\ e.start <= end /\ end < End(e) /\ p.start <= e.start
              /\ e.type \in Type /\ e \in Entry
  <2>1. p.pos \in p.pos .. Len(l)
    BY <1>3, <1>4, <1>10, <1>13, SMTT(40)
  <2>2. /\ p.pos \in 1 .. Len(l) /\ e.start \in Nat /\ End(e) \in Nat /\ End(e) <= Top
        /\ end < End(e) /\ p.start <= e.start /\ e.type \in Type
    BY <1>9, <2>1
  <2> QED
    BY <1>4, <1>13, <2>1, <2>2
<1>14. ASSUME ~(p.pos > Len(l)), ~(end < e.start), e.type = type
       PROVE  Goal
  <2> DEFINE r == remove_e820(l, p.pos, p.pos + 1)
  <2>1. /\ p.pos \in 1 .. Len(l) /\ e.start \in Nat /\ End(e) \in Nat /\ End(e) <= Top
        /\ e.start <= end /\ end < End(e) /\ p.start <= e.start
    BY <1>13, <1>14
  <2>2. q = [p EXCEPT !.list = r, !.size = @ + (End(e) - end)]
    BY <1>6, <1>14
  <2>3. /\ r \in Seq(Entry) /\ Len(r) = Len(l) - 1
        /\ \A m \in 1 .. Len(l) - 1 : r[m] = IF m < p.pos THEN l[m] ELSE l[m + 1]
        /\ Ordered(r)
        /\ \A a \in Nat : ~Covers(e, a) => TypeAt(r, a) = TypeAt(l, a)
    <3>1. /\ p.pos \in 1 .. Len(l) + 1 /\ p.pos + 1 \in p.pos .. Len(l) + 1
          /\ (p.pos + 1) - p.pos = 1 /\ \A m \in p.pos .. (p.pos + 1) - 1 : m = p.pos
      BY <1>0, <1>4, <2>1, SMTT(40)
    <3>2. /\ r \in Seq(Entry) /\ Len(r) = Len(l) - ((p.pos + 1) - p.pos)
          /\ \A m \in 1 .. Len(l) - ((p.pos + 1) - p.pos) :
               r[m] = IF m < p.pos THEN l[m] ELSE l[m + ((p.pos + 1) - p.pos)]
      BY <1>4, <3>1, Removed
    <3>3. /\ Ordered(r)
          /\ \A a \in Nat : (\A m \in p.pos .. (p.pos + 1) - 1 : ~Covers(l[m], a)) =>
                              TypeAt(r, a) = TypeAt(l, a)
      BY <1>5, <3>1, RemoveKeeps
    <3> QED
      BY <3>1, <3>2, <3>3
  <2> HIDE DEF r
  <2>4. /\ q.list = r /\ q.pos = p.pos /\ q.start = p.start
        /\ q.size = p.size + (End(e) - end)
    BY <1>0, <2>2
  <2>5. q.size \in Nat /\ q.start + q.size = End(e)
    BY <1>0, <2>1, <2>4, SMTT(30)
  <2>6. Gap(r, p.pos, p.start, End(e), type)
    <3>1. p.pos \in 1 .. Len(r) + 1
      BY <1>4, <2>1, <2>3
    <3>2. ASSUME NEW m \in 1 .. p.pos - 1
          PROVE  End(r[m]) <= p.start /\ (End(r[m]) = p.start => r[m].type # type)
      <4>1. r[m] = l[m]
        BY <1>0, <1>4, <2>1, <2>3
      <4> QED
        BY <1>8, <4>1
    <3>3. ASSUME NEW m \in p.pos .. Len(r)
          PROVE  End(e) <= r[m].start /\ (End(e) = r[m].start => r[m].type # type)
      <4>1. m + 1 \in p.pos + 1 .. Len(l) /\ r[m] = l[m + 1]
        BY <1>0, <1>4, <2>1, <2>3, SMTT(40)
      <4>2. Before(e, l[m + 1])
        BY <1>11, <4>1
      <4> QED
        BY <1>14, <4>1, <4>2 DEF Before
    <3> QED
      BY <3>1, <3>2, <3>3 DEF Gap
  <2>7. ASSUME NEW a \in Nat, end <= a, a < End(e)
        PROVE  TypeAt(p.list, a) = type
    <3>1. Covers(l[p.pos], a)
      BY <2>1, <2>7 DEF Covers
    <3>2. TypeAt(l, a) = type
      BY <1>5, <1>14, <2>1, <3>1, SaysType
    <3> QED
      BY <1>7, <2>7, <3>2
  <2>8. ASSUME NEW a \in Nat, ~(p.start <= a /\ a < End(e))
        PROVE  TypeAt(r, a) = TypeAt(p.list, a)
    <3>1. ~Covers(e, a) /\ ~(p.start <= a /\ a < end)
      BY <1>0, <2>1, <2>8, SMTT(40) DEF Covers
    <3> QED
      BY <1>7, <2>3, <3>1
  <2>9. Len(r) <= Len(p.list) /\ end <= End(e)
    BY <1>0, <1>3, <1>4, <2>1, <2>3, SMTT(30)
  <2> QED
    BY <2>1, <2>3, <2>4, <2>5, <2>6, <2>7, <2>8, <2>9 DEF Absorbed
<1>15. ASSUME ~(p.pos > Len(l)), ~(end < e.start), e.type # type
       PROVE  Goal
  <2> DEFINE c == [e EXCEPT !.start = end, !.size = End(e) - end]
             r == [l EXCEPT ![p.pos] = c]
  <2>1. /\ p.pos \in 1 .. Len(l) /\ e.start \in Nat /\ End(e) \in Nat /\ End(e) <= Top
        /\ e.start <= end /\ end < End(e) /\ p.start <= e.start /\ e \in Entry
    BY <1>13, <1>15
  <2>2. q = [p EXCEPT !.list = r]
    BY <1>6, <1>15
  <2>3. /\ c \in Entry /\ c.start = end /\ c.type = e.type
        /\ c.size > 0 /\ End(c) = End(e)
    <3>1. End(e) - end \in 0 .. Top /\ end \in 0 .. Top /\ End(e) - end > 0
          /\ end + (End(e) - end) = End(e)
      <4> DEFINE last == End(e)
      <4>1. last \in Nat /\ last <= Top /\ end < last /\ Top \in Nat
        BY <1>0, <2>1
      <4> HIDE DEF last
      <4>2. last - end \in 0 .. Top /\ end \in 0 .. Top /\ last - end > 0
            /\ end + (last - end) = last
        BY <4>1
      <4> QED
        BY <4>2 DEF last
    <3> DEFINE size == End(e) - end
    <3> HIDE DEF size
    <3>2. /\ [e EXCEPT !.start = end, !.size = size].start = end
          /\ [e EXCEPT !.start = end, !.size = size].size = size
          /\ [e EXCEPT !.start = end, !.size = size].type = e.type
          /\ size \in 0 .. Top => [e EXCEPT !.start = end, !.size = size] \in Entry
      BY <2>1, <3>1 DEF Entry
    <3>3. c.start = end /\ c.size = End(e) - end /\ c.type = e.type /\ c \in Entry
      BY <3>1, <3>2 DEF size
    <3> QED
      BY <3>1, <3>3 DEF End
  <2> HIDE DEF c
  <2>4. /\ r \in Seq(Entry) /\ Len(r) = Len(l) /\ r[p.pos] = c
        /\ \A m \in 1 .. Len(l) : m # p.pos => r[m] = l[m]
    BY <1>4, <2>1, <2>3
  <2> HIDE DEF r
  <2>5. /\ Ordered(r)
        /\ \A a \in Nat : ~Covers(e, a) \/ Covers(c, a) => TypeAt(r, a) = TypeAt(l, a)
    <3>1. /\ r[p.pos].size > 0 /\ r[p.pos].type = l[p.pos].type
          /\ l[p.pos].start <= r[p.pos].start /\ End(r[p.pos]) <= End(l[p.pos])
      BY <2>1, <2>3, <2>4
    <3> QED
      BY <1>5, <2>1, <2>4, <3>1, ShrinkKeeps
  <2>6. q.list = r /\ q.pos = p.pos /\ q.start = p.start /\ q.size = p.size
    BY <1>0, <2>2
  <2>7. Gap(r, p.pos, p.start, end, type)
    <3>1. p.pos \in 1 .. Len(r) + 1
      BY <1>10, <2>4
    <3>2. ASSUME NEW m \in 1 .. p.pos - 1
          PROVE  End(r[m]) <= p.start /\ (End(r[m]) = p.start => r[m].type # type)
      <4>1. m \in 1 .. Len(l) /\ m # p.pos
        BY <1>0, <1>8
      <4>2. r[m] = l[m]
        BY <2>4, <4>1
      <4> QED
        BY <1>8, <4>2
    <3>3. ASSUME NEW m \in p.pos .. Len(r)
          PROVE  end <= r[m].start /\ (end = r[m].start => r[m].type # type)
      <4>1. CASE m = p.pos
        BY <1>15, <2>3, <2>4, <4>1
      <4>2. CASE m # p.pos
        <5>1. m \in p.pos + 1 .. Len(l) /\ m \in 1 .. Len(l)
          BY <1>0, <1>4, <2>1, <2>4, <4>2
        <5>2. r[m] = l[m] /\ End(e) <= l[m].start /\ l[m].start \in Nat
          BY <1>9, <1>11, <2>4, <4>2, <5>1 DEF Before
        <5> QED
          BY <2>1, <5>2
      <4> QED
        BY <4>1, <4>2
    <3> QED
      BY <3>1, <3>2, <3>3 DEF Gap
  <2>8. ASSUME NEW a \in Nat, ~(p.start <= a /\ a < end)
        PROVE  TypeAt(r, a) = TypeAt(p.list, a)
    <3>1. ~Covers(e, a) \/ Covers(c, a)
      BY <1>0, <2>1, <2>3, <2>8 DEF Covers
    <3> QED
      BY <1>7, <2>5, <2>8, <3>1
  <2>9. Len(r) <= Len(p.list) /\ \A a \in Nat : ~(end <= a /\ a < end)
    BY <1>0, <1>3, <1>4, <2>4
  <2> QED
    BY <1>0, <2>5, <2>6, <2>7, <2>8, <2>9 DEF Absorbed
<1> QED
  BY <1>12, <1>14, <1>15 DEF q

----------------------------------------------------------------------------
(* e820_add() as a whole.                                                  *)

\* The first loop, whichever entry it finds.
LEMMA PlaceSplits ==
  ASSUME NEW l, Ordered(l), Len(l) <= BUILD_MAX_E820,
         NEW start \in Nat, NEW size \in Nat, size > 0, start + size <= Top, NEW type
  PROVE  /\ Split(Place(l, start, size, type), start + size, type)
         /\ Placed(l, Place(l, start, size, type), start, start + size, type)
<1> DEFINE i == FirstReaching(l, start)
<1>1. i \in 1 .. Len(l) + 1 /\ Len(l) \in Nat
  BY Reaching, SMTT(40) DEF Ordered
<1>2. CASE i > Len(l) \/ start <= l[i].start
  BY <1>2, PlaceBetween
<1>3. CASE i <= Len(l) /\ l[i].start < start
  <2>1. CASE l[i].type = type
    BY <1>3, <2>1, PlaceJoins
  <2>2. CASE l[i].type # type
    BY <1>3, <2>2, PlaceCuts
  <2> QED
    BY <2>1, <2>2
<1>4. i > Len(l) \/ i <= Len(l)
  BY <1>1
<1>5. i <= Len(l) => start <= l[i].start \/ l[i].start < start
  <2>1. i <= Len(l) => l[i].start \in Nat
    BY <1>1, EntryFacts
  <2> QED
    BY <2>1
<1> QED
  BY <1>2, <1>3, <1>4, <1>5

\* What an address has as its type once a range of that type has been added to
\* list l, or the list was too full to say so.
Answers(l, r, start, end, type) ==
  \A a \in Nat :
    \/ TypeAt(r, a) = IF start <= a /\ a < end THEN type ELSE TypeAt(l, a)
    \/ Len(l) + 2 > BUILD_MAX_E820 /\ TypeAt(r, a) = E820_HOLE

\* A call that removes a range.
LEMMA HoleMade ==
  ASSUME NEW l, Ordered(l), Len(l) <= BUILD_MAX_E820, NEW start \in Nat, NEW end \in Nat,
         start < end, NEW p, NEW q, Split(p, end, E820_HOLE),
         Placed(l, p, start, end, E820_HOLE), Absorbed(p, q, end, E820_HOLE)
  PROVE  /\ Ordered(q.list) /\ Len(q.list) <= BUILD_MAX_E820
         /\ Answers(l, q.list, start, end, E820_HOLE)
<1> DEFINE last == q.start + q.size
<1>0. /\ Ordered(p.list) /\ Ordered(q.list) /\ q.start = p.start /\ p.start \in Nat
      /\ last \in Nat /\ end <= last /\ p.start <= start
      /\ Gap(q.list, q.pos, q.start, last, E820_HOLE)
      /\ Len(p.list) \in Nat /\ Len(q.list) \in Nat /\ Len(q.list) <= Len(p.list)
      /\ Len(p.list) <= BUILD_MAX_E820 /\ BUILD_MAX_E820 \in Nat /\ Len(l) \in Nat
  BY E820Assumption, SMTT(30) DEF Split, Placed, Absorbed, Ordered
<1>1. /\ \A a \in Nat : p.start <= a /\ a < start => TypeAt(l, a) = E820_HOLE
      /\ \A a \in Nat : end <= a /\ a < last => TypeAt(p.list, a) = E820_HOLE
      /\ \A a \in Nat : ~(p.start <= a /\ a < last) => TypeAt(q.list, a) = TypeAt(p.list, a)
      /\ \A a \in Nat : ~(start <= a /\ a < end) =>
           \/ TypeAt(p.list, a) = TypeAt(l, a)
           \/ Len(l) >= BUILD_MAX_E820 /\ TypeAt(p.list, a) = E820_HOLE
  BY <1>0 DEF Placed, Absorbed
<1> HIDE DEF last
<1>2. \A a \in Nat : p.start <= a /\ a < last => TypeAt(q.list, a) = E820_HOLE
  BY <1>0, GapEmpty
<1>3. Answers(l, q.list, start, end, E820_HOLE)
  <2> SUFFICES ASSUME NEW a \in Nat
               PROVE  \/ TypeAt(q.list, a) =
                           IF start <= a /\ a < end THEN E820_HOLE ELSE TypeAt(l, a)
                      \/ /\ Len(l) + 2 > BUILD_MAX_E820
                         /\ TypeAt(q.list, a) = E820_HOLE
    BY DEF Answers
  <2>0. Len(l) >= BUILD_MAX_E820 => Len(l) + 2 > BUILD_MAX_E820
    BY <1>0
  <2>1. CASE start <= a /\ a < end
    BY <1>0, <1>2, <2>1
  <2>2. CASE p.start <= a /\ a < start
    BY <1>0, <1>1, <1>2, <2>2
  <2>3. CASE end <= a /\ a < last
    BY <1>0, <1>1, <1>2, <2>0, <2>3
  <2>4. CASE a < p.start \/ last <= a
    BY <1>0, <1>1, <2>0, <2>4
  <2> QED
    BY <1>0, <2>1, <2>2, <2>3, <2>4
<1> QED
  BY <1>0, <1>3

\* A call that adds a range.
LEMMA RangeMade ==
  ASSUME NEW l, Ordered(l), Len(l) <= BUILD_MAX_E820, NEW start \in Nat, NEW end \in Nat,
         start < end, NEW type \in Type, NEW p, NEW q, Split(p, end, type),
         Placed(l, p, start, end, type), Absorbed(p, q, end, type),
         NEW r, r = insert_e820(q.list, q.pos, q.start, q.size, type)
  PROVE  /\ Ordered(r) /\ Len(r) <= BUILD_MAX_E820
         /\ Answers(l, r, start, end, type)
<1> DEFINE last == q.start + q.size
<1>0. /\ Ordered(p.list) /\ Ordered(q.list) /\ q.start = p.start /\ p.start \in Nat
      /\ last \in Nat /\ end <= last /\ p.start <= start /\ last <= Top /\ q.size \in Nat
      /\ Gap(q.list, q.pos, q.start, last, type)
      /\ Len(p.list) \in Nat /\ Len(q.list) \in Nat /\ Len(q.list) <= Len(p.list)
      /\ Len(p.list) <= BUILD_MAX_E820 /\ BUILD_MAX_E820 \in Nat /\ Len(l) \in Nat
      /\ Len(p.list) <= Len(l) + 1 /\ type # E820_HOLE
  BY E820Assumption, SMTT(30) DEF Split, Placed, Absorbed, Ordered
<1>1. /\ \A a \in Nat : p.start <= a /\ a < start => TypeAt(l, a) = type
      /\ \A a \in Nat : end <= a /\ a < last => TypeAt(p.list, a) = type
      /\ \A a \in Nat : ~(p.start <= a /\ a < last) => TypeAt(q.list, a) = TypeAt(p.list, a)
      /\ \A a \in Nat : ~(start <= a /\ a < end) =>
           \/ TypeAt(p.list, a) = TypeAt(l, a)
           \/ Len(l) >= BUILD_MAX_E820 /\ TypeAt(p.list, a) = E820_HOLE
  BY <1>0 DEF Placed, Absorbed
<1>2. q.size = last - q.start
  BY <1>0, SMTT(40)
<1> HIDE DEF last
<1>3. ASSUME NEW a \in Nat, ~(start <= a /\ a < end)
      PROVE  \/ TypeAt(l, a) = IF p.start <= a /\ a < last THEN type ELSE TypeAt(q.list, a)
             \/ Len(l) >= BUILD_MAX_E820 /\ ~(p.start <= a /\ a < last)
                /\ TypeAt(q.list, a) = E820_HOLE
  <2>1. CASE p.start <= a /\ a < start
    BY <1>0, <1>1, <2>1
  <2>2. CASE end <= a /\ a < last
    <3>1. TypeAt(p.list, a) = type
      BY <1>1, <2>2
    <3>2. TypeAt(l, a) = type
      BY <1>0, <1>1, <1>3, <3>1
    <3> QED
      BY <1>0, <2>2, <3>2, SMTT(40)
  <2>3. CASE a < p.start \/ last <= a
    <3>1. ~(p.start <= a /\ a < last)
      BY <1>0, <2>3
    <3> QED
      BY <1>1, <1>3, <3>1
  <2> QED
    BY <1>0, <1>3, <2>1, <2>2, <2>3, SMTT(40)
<1>4. CASE Len(q.list) >= BUILD_MAX_E820
  <2>1. r = q.list
    BY <1>4 DEF insert_e820
  <2>2. \A a \in Nat : p.start <= a /\ a < last => TypeAt(r, a) = E820_HOLE
    BY <1>0, <2>1, GapEmpty
  <2>3. Len(l) + 2 > BUILD_MAX_E820 /\ Len(r) <= BUILD_MAX_E820
    BY <1>0, <1>4, <2>1, SMTT(40)
  <2>4. Answers(l, r, start, end, type)
    <3> SUFFICES ASSUME NEW a \in Nat
                 PROVE  \/ TypeAt(r, a) = E820_HOLE
                        \/ ~(start <= a /\ a < end) /\ TypeAt(r, a) = TypeAt(l, a)
      BY <2>3 DEF Answers
    <3>1. CASE p.start <= a /\ a < last
      BY <2>2, <3>1
    <3>2. CASE ~(p.start <= a /\ a < last)
      <4>1. ~(start <= a /\ a < end)
        BY <1>0, <3>2, SMTT(40)
      <4> QED
        BY <1>3, <2>1, <3>2, <4>1
    <3> QED
      BY <3>1, <3>2
  <2> QED
    BY <1>0, <2>1, <2>3, <2>4
<1>5. CASE ~(Len(q.list) >= BUILD_MAX_E820)
  <2>0. q.start < last /\ q.start \in Nat
    BY <1>0
  <2>1. Filled(r, q.list, q.pos, q.start, last, type)
    BY <1>0, <1>2, <1>5, <2>0, InsertFits, Zenon
  <2>2. /\ Ordered(r) /\ Len(r) = Len(q.list) + 1
        /\ \A a \in Nat : TypeAt(r, a) =
             IF p.start <= a /\ a < last THEN type ELSE TypeAt(q.list, a)
    BY <1>0, <2>1 DEF Filled
  <2>3. Len(r) <= BUILD_MAX_E820
    BY <1>0, <1>5, <2>2
  <2>4. Answers(l, r, start, end, type)
    <3> SUFFICES ASSUME NEW a \in Nat
                 PROVE  \/ TypeAt(r, a) =
                             IF start <= a /\ a < end THEN type ELSE TypeAt(l, a)
                        \/ /\ Len(l) + 2 > BUILD_MAX_E820
                           /\ TypeAt(r, a) = E820_HOLE
      BY DEF Answers
    <3>1. CASE start <= a /\ a < end
      BY <1>0, <2>2, <3>1
    <3>2. CASE ~(start <= a /\ a < end)
      <4>1. Len(l) >= BUILD_MAX_E820 => Len(l) + 2 > BUILD_MAX_E820
        BY <1>0
      <4> QED
        BY <1>3, <2>2, <3>2, <4>1
    <3> QED
      BY <3>1, <3>2
  <2> QED
    BY <2>2, <2>3, <2>4
<1> QED
  BY <1>4, <1>5

\* One call, whatever it is: the list stays in order and says what it is told.
LEMMA AddKeeps ==
  ASSUME NEW l, Ordered(l), Len(l) <= BUILD_MAX_E820, NEW start \in Nat, NEW size \in Nat,
         NEW type \in Type \cup {E820_HOLE}, start + size <= Top
  PROVE  /\ Ordered(Added(l, start, size, type))
         /\ Len(Added(l, start, size, type)) <= BUILD_MAX_E820
         /\ Answers(l, Added(l, start, size, type), start, start + size, type)
<1> DEFINE end == start + size
           p == Place(l, start, size, type)
           q == Absorb(p, end, type)
<1>0. end \in Nat /\ end <= Top
  OBVIOUS
<1>1. CASE size = 0
  <2>1. Added(l, start, size, type) = l
    BY <1>1 DEF Added
  <2>2. \A a \in Nat : ~(start <= a /\ a < end)
    BY <1>1
  <2>3. Answers(l, l, start, end, type)
    BY <2>2 DEF Answers
  <2> QED
    BY <2>1, <2>3
<1>2. CASE size # 0
  <2>1. size > 0 /\ start < end
    BY <1>2
  <2>2. Split(p, end, type) /\ Placed(l, p, start, end, type)
    BY <1>0, <2>1, PlaceSplits
  <2>3. p.start < end
    BY <2>1, <2>2 DEF Split, Placed
  <2> HIDE DEF p
  <2>4. Absorbed(p, q, end, type)
    BY <1>0, <2>2, <2>3, AbsorbLeavesGap
  <2>5. Added(l, start, size, type) =
          IF type = E820_HOLE THEN q.list
          ELSE insert_e820(q.list, q.pos, q.start, q.size, type)
    BY <1>2 DEF Added, p
  <2> HIDE DEF q, end
  <2>6. CASE type = E820_HOLE
    <3>1. Added(l, start, size, type) = q.list
      BY <2>5, <2>6
    <3>2. /\ Ordered(q.list) /\ Len(q.list) <= BUILD_MAX_E820
          /\ Answers(l, q.list, start, end, E820_HOLE)
      BY <1>0, <2>1, <2>2, <2>4, <2>6, HoleMade
    <3> QED
      BY <2>6, <3>1, <3>2 DEF end
  <2>7. CASE type \in Type
    <3>1. Added(l, start, size, type) =
            insert_e820(q.list, q.pos, q.start, q.size, type)
      BY <2>5, <2>7, E820Assumption
    <3>2. /\ Ordered(Added(l, start, size, type))
          /\ Len(Added(l, start, size, type)) <= BUILD_MAX_E820
          /\ Answers(l, Added(l, start, size, type), start, end, type)
      BY <1>0, <2>1, <2>2, <2>4, <2>7, <3>1, RangeMade
    <3> QED
      BY <3>2 DEF end
  <2> QED
    BY <2>6, <2>7
<1> QED
  BY <1>1, <1>2

----------------------------------------------------------------------------
(* The theorems.                                                           *)

\* The map starts out empty.
LEMMA MapStarts == Init => MapInv
<1> SUFFICES ASSUME Init
             PROVE  MapInv
  OBVIOUS
<1>1. e820_list \in Seq(Entry) /\ Len(e820_list) = 0
  BY DEF Init
<1>2. 1 .. Len(e820_list) = {}
  BY <1>1
<1> QED
  BY <1>1, <1>2, E820Assumption DEF MapInv, Ordered

\* e820_add and e820_remove keep it in order, and describing what was added.
LEMMA MapStep == MapInv /\ [Next]_e820_list => MapInv'
<1> SUFFICES ASSUME MapInv, [Next]_e820_list
             PROVE  MapInv'
  OBVIOUS
<1>1. ASSUME NEW start \in 0 .. Top - 1, NEW size \in 0 .. Top,
             NEW type \in Type \cup {E820_HOLE}, e820_add(start, size, type)
      PROVE  MapInv'
  <2>1. start \in Nat /\ size \in Nat /\ start + size <= Top
    BY <1>1, E820Assumption DEF e820_add
  <2>2. e820_list' = Added(e820_list, start, size, type)
    BY <1>1 DEF e820_add
  <2>3. Ordered(e820_list') /\ Len(e820_list') <= BUILD_MAX_E820
    BY <2>1, <2>2, AddKeeps DEF MapInv
  <2> QED
    BY <2>3 DEF MapInv, Ordered
<1>2. CASE UNCHANGED e820_list
  BY <1>2 DEF MapInv, Ordered
<1> QED
  BY <1>1, <1>2 DEF Next, e820_remove

\* A map in order has no empty, overlapping or needlessly split entries.
LEMMA MapIsCanonical == MapInv => Canonical
<1> SUFFICES ASSUME MapInv
             PROVE  Canonical
  OBVIOUS
<1>0. /\ e820_list \in Seq(Entry) /\ Len(e820_list) \in Nat
      /\ Len(e820_list) <= BUILD_MAX_E820
      /\ \A i \in 1 .. Len(e820_list) : e820_list[i].size > 0
      /\ \A i, k \in 1 .. Len(e820_list) :
           i < k => Before(e820_list[i], e820_list[k])
  BY DEF MapInv, Ordered
<1>1. TypeOK
  BY <1>0 DEF TypeOK
<1>2. SortedDisjoint
  <2>1. ASSUME NEW i \in 1 .. Len(e820_list), NEW k \in i + 1 .. Len(e820_list)
        PROVE  End(e820_list[i]) <= e820_list[k].start
    <3>1. k \in 1 .. Len(e820_list) /\ i < k
      BY <1>0
    <3> QED
      BY <1>0, <3>1 DEF Before
  <2> QED
    BY <1>0, <2>1 DEF SortedDisjoint
<1>3. Merged
  <2>1. ASSUME NEW i \in 1 .. Len(e820_list) - 1
        PROVE  End(e820_list[i]) = e820_list[i + 1].start =>
                 e820_list[i].type # e820_list[i + 1].type
    <3>1. i \in 1 .. Len(e820_list) /\ i + 1 \in 1 .. Len(e820_list) /\ i < i + 1
      BY <1>0
    <3> QED
      BY <1>0, <3>1 DEF Before
  <2> QED
    BY <2>1 DEF Merged
<1> QED
  BY <1>1, <1>2, <1>3 DEF Canonical

\* And it says of each address what was said last.
LEMMA MapIsExact == MapInv => DescribesExactly
<1> SUFFICES ASSUME MapInv, NEW start \in 0 .. Top - 1, NEW size \in 0 .. Top,
                    NEW type \in Type \cup {E820_HOLE}, start + size <= Top,
                    NEW a \in 0 .. Top - 1
             PROVE  \/ AfterAdd(start, size, type, a) = Described(start, size, type, a)
                    \/ /\ Len(e820_list) + 2 > BUILD_MAX_E820
                       /\ AfterAdd(start, size, type, a) = E820_HOLE
  BY DEF DescribesExactly
<1>1. start \in Nat /\ size \in Nat /\ a \in Nat
  BY E820Assumption
<1>2. Answers(e820_list, Added(e820_list, start, size, type), start, start + size, type)
  BY <1>1, AddKeeps DEF MapInv
<1> QED
  BY <1>1, <1>2 DEF Answers, AfterAdd, Described

\* So it is throughout.
LEMMA MapInvHolds == Spec => []MapInv
BY MapStarts, MapStep, PTL DEF Spec

\* e820_add() and e820_remove() keep the array sorted, without overlap and
\* merged, also when it is full.
THEOREM ListCorrect == Spec => []Canonical
BY MapInvHolds, MapIsCanonical, PTL

\* Whatever calls have made the array, one more e820_add() or e820_remove()
\* gives the addresses of its range the new type and changes no other; only a
\* full array forgets a range, and what it forgets is a hole.
THEOREM MapCorrect == Spec => []DescribesExactly
BY MapInvHolds, MapIsExact, PTL

----------------------------------------------------------------------------
(* Restarts: HaveRunPost tells the truth about the memory wherever a reset    *)
(* comes in.                                                                  *)

Memory(below, n, above) == [below |-> below, HaveRunPost |-> n, above |-> above]
Contents == {"image", "used", "none"}
Memories == [below : Contents, HaveRunPost : 0 .. 3, above : Contents]

RestartTypeOK ==
  /\ pristine \in BOOLEAN
  /\ ram \in Memories
  /\ pam \in [ram : BOOLEAN, writable : BOOLEAN, readonly : SUBSET Nat, romlast : Nat,
              rommax : Nat]
  /\ cmos \in Nat
  /\ suspended \in BOOLEAN
  /\ attempts \in {0, 1}

\* What is locked are the granules of the roms.
LocksRoms ==
  \A g \in 0 .. Granules - 1 :
    /\ g * Unit < pam.romlast /\ (g + 1) * Unit <= pam.rommax => g \in pam.readonly
    /\ g \in pam.readonly => (g + 1) * Unit <= pam.rommax

\* A POST has finished, and nothing has begun since.
PostDone == ram = Memory("used", 2, "used") /\ pam.ram /\ ~pam.writable /\ LocksRoms

\* POST does not seem to have begun where the image is not whole.
BeginsWhole == Seen.HaveRunPost = 0 => Seen = Image

\* What a POST, a resume and a reboot have made of the memory so far.
Progress ==
  /\ cpu = "handle_post" => Seen.HaveRunPost = 0
  /\ cpu \in {"code_mutable_preinit", "mark"} => pam.ram /\ ram = Image
  /\ cpu = "dopost" => pam.ram /\ ram = Memory("image", 1, "image")
  /\ cpu = "maininit" => pam.ram /\ ram = Memory("used", 1, "used")
  /\ cpu = "make_bios_readonly" => pam.ram /\ ram = Memory("used", 2, "used")
  /\ cpu \in {"entry_resume", "qemu_reboot"} => Seen.HaveRunPost # 0
  /\ cpu \in {"os", "s3_resume"} => PostDone
  /\ cpu \in {"copy_1", "copy_2", "copy_3"} => pristine /\ pam.ram /\ ram.HaveRunPost # 0
  /\ cpu \in {"copy_2", "copy_3"} => ram.below = "image"
  /\ cpu = "copy_3" => ram.above = "image"
  /\ cpu = "outb" => pam.ram /\ (IF pristine THEN ram = Image ELSE ram.HaveRunPost = 3)

\* A reset code is only left from before power was turned on, or by the system.
CodeTrue ==
  /\ cpu \notin {"reset", "handle_post", "code_mutable_preinit", "entry_resume"} => cmos = 0
  /\ cmos # 0 /\ Seen.HaveRunPost # 0 => PostDone /\ (cmos = S3 => suspended)
  /\ cpu = "s3_resume" => suspended

\* Once a reset was asked for, what it finds is an image or the mark of the first attempt.
AttemptsTrue ==
  attempts # 0 =>
    /\ cpu \in {"reset", "handle_post", "code_mutable_preinit", "mark", "dopost",
                "maininit", "make_bios_readonly", "entry_resume", "qemu_reboot", "off"}
    /\ cpu = "reset" => Seen.HaveRunPost \in {0, 3} /\ (Seen.HaveRunPost = 3 => ~pristine)
    /\ cpu \in {"entry_resume", "qemu_reboot"} => ~pristine /\ ram.HaveRunPost = 3

RestartInv == RestartTypeOK /\ BeginsWhole /\ Progress /\ CodeTrue /\ AttemptsTrue

\* What the CPU sees below 1M is the RAM, or the ROM it was copied from.
LEMMA SeenIs ==
  ASSUME RestartTypeOK
  PROVE  /\ Seen = IF pam.ram \/ ~pristine THEN ram ELSE Image
         /\ Flash = IF pristine THEN Image ELSE ram
         /\ Seen \in Memories /\ Image \in Memories
BY DEF RestartTypeOK, Seen, Flash, Image, Memories, Contents


\* Where the memory, and what of it is seen, stays the same.
LEMMA SameMemory ==
  ASSUME UNCHANGED <<pristine, ram, pam>>
  PROVE  Seen' = Seen /\ PostDone' = PostDone
BY DEF Seen, Flash, PostDone, LocksRoms

\* The memory that is found, and that of a POST as it goes on.
LEMMA Stretched ==
  ASSUME NEW m \in Memories, NEW c \in Contents
  PROVE  [m EXCEPT !.below = c, !.above = c] = Memory(c, m.HaveRunPost, c)
<1> DEFINE r == [m EXCEPT !.below = c, !.above = c]
<1>1. r \in Memories /\ r.below = c /\ r.HaveRunPost = m.HaveRunPost /\ r.above = c
  BY DEF Memories
<1> HIDE DEF r
<1>2. r = Memory(c, m.HaveRunPost, c)
  BY <1>1 DEF Memories, Memory
<1> QED
  BY <1>2 DEF r

\* What a step makes of a memory, as a memory.
LEMMA Marks ==
  /\ Image = Memory("image", 0, "image")
  /\ [Image EXCEPT !.below = "none", !.above = "none"] = Memory("none", 0, "none")
  /\ [Image EXCEPT !.HaveRunPost = 1] = Memory("image", 1, "image")
  /\ [Memory("image", 1, "image") EXCEPT !.below = "used", !.above = "used"]
       = Memory("used", 1, "used")
  /\ [Memory("used", 1, "used") EXCEPT !.HaveRunPost = 2] = Memory("used", 2, "used")
  /\ \A a, b \in Contents, n \in 0 .. 3 :
       Memory(a, n, b) \in Memories /\ Memory(a, n, b).HaveRunPost = n
<1>1. Image = Memory("image", 0, "image")
  BY DEF Image, Memory
<1>6. \A a, b \in Contents, n \in 0 .. 3 :
        Memory(a, n, b) \in Memories /\ Memory(a, n, b).HaveRunPost = n
  BY DEF Memory, Memories
<1>2. [Image EXCEPT !.below = "none", !.above = "none"] = Memory("none", 0, "none")
  <2>1. "none" \in Contents /\ "image" \in Contents
    BY DEF Contents
  <2>2. Image \in Memories /\ Image.HaveRunPost = 0
    BY <1>1, <1>6, <2>1
  <2> QED
    BY <2>1, <2>2, Stretched, ZenonT(40)
<1>3. [Image EXCEPT !.HaveRunPost = 1] = Memory("image", 1, "image")
  BY DEF Image, Memory
<1>4. [Memory("image", 1, "image") EXCEPT !.below = "used", !.above = "used"]
        = Memory("used", 1, "used")
  <2> DEFINE m == Memory("image", 1, "image")
  <2>1. "used" \in Contents /\ "image" \in Contents
    BY DEF Contents
  <2>2. m \in Memories /\ m.HaveRunPost = 1
    BY <1>6, <2>1
  <2> HIDE DEF m
  <2>3. [m EXCEPT !.below = "used", !.above = "used"] = Memory("used", 1, "used")
    BY <2>1, <2>2, Stretched, ZenonT(40)
  <2> QED
    BY <2>3 DEF m
<1>5. [Memory("used", 1, "used") EXCEPT !.HaveRunPost = 2] = Memory("used", 2, "used")
  BY DEF Memory
<1> QED
  BY <1>1, <1>2, <1>3, <1>4, <1>5, <1>6

\* With the power turned on only the image is there to be seen.
LEMMA RestartStarts == RestartInit => RestartInv
<1> SUFFICES ASSUME RestartInit PROVE RestartInv
  OBVIOUS
<1>1. RestartTypeOK
  <2>1. ram \in Memories
    <3>1. ram \in {Memory("none", 0, "none"), Memory("image", 0, "image")}
      BY Marks DEF RestartInit
    <3> QED
      BY <3>1, Marks DEF Contents
  <2>2. pam \in [ram : BOOLEAN, writable : BOOLEAN, readonly : SUBSET Nat, romlast : Nat,
                rommax : Nat]
    BY DEF RestartInit
  <2>3. pristine \in BOOLEAN /\ suspended \in BOOLEAN
    BY Zenon DEF RestartInit
  <2>4. cmos \in {0, 10, 254} /\ attempts = 0
    BY DEF RestartInit, S3
  <2> QED
    BY <2>1, <2>2, <2>3, <2>4 DEF RestartTypeOK
<1>2. Seen = Image
  BY DEF RestartInit, Seen, Flash
<1> QED
  BY <1>1, <1>2
  DEF RestartInit, RestartInv, BeginsWhole, Progress, CodeTrue, AttemptsTrue, Image

\* entry_post finds POST to do or a reset to handle.
LEMMA EntryKeeps == RestartInv /\ entry_post => RestartInv'
<1> SUFFICES ASSUME RestartInv, entry_post PROVE RestartInv'
  OBVIOUS
<1>1. /\ cpu = "reset" /\ UNCHANGED <<pristine, ram, pam, cmos, suspended, attempts, resets>>
      /\ cpu' = IF Seen.HaveRunPost # 0 THEN "entry_resume" ELSE "handle_post"
  BY DEF entry_post, Goto
<1>2. Seen' = Seen /\ PostDone' = PostDone
  BY <1>1, SameMemory
<1>3. RestartTypeOK' /\ BeginsWhole'
  BY <1>1, <1>2 DEF RestartInv, RestartTypeOK, BeginsWhole
<1>4. Progress' /\ CodeTrue'
  BY <1>1, <1>2 DEF RestartInv, Progress, CodeTrue
<1>5. AttemptsTrue'
  BY <1>1, SeenIs DEF RestartInv, AttemptsTrue
<1> QED
  BY <1>3, <1>4, <1>5 DEF RestartInv

\* make_bios_writable copies the image once.
LEMMA WritableKeeps == RestartInv /\ make_bios_writable => RestartInv'
<1> SUFFICES ASSUME RestartInv, make_bios_writable PROVE RestartInv'
  OBVIOUS
<1>1. /\ cpu = "handle_post" /\ cpu' = "code_mutable_preinit"
      /\ UNCHANGED <<pristine, cmos, suspended, attempts, resets>>
      /\ ram' = Seen /\ pam' = Writable
  BY DEF make_bios_writable, Goto, Shadowed, Seen
<1>2. RestartTypeOK /\ Seen = Image
  BY <1>1 DEF RestartInv, Progress, BeginsWhole
<1>3. ram' = Image /\ pam'.ram /\ Image \in Memories /\ Image.HaveRunPost = 0
  BY <1>1, <1>2, SeenIs DEF Writable, RestartTypeOK, Image
<1>4. RestartTypeOK'
  BY <1>1, <1>2, <1>3 DEF RestartTypeOK, Writable
<1>5. Seen' = Image
  BY <1>3 DEF Seen
<1> QED
  BY <1>1, <1>3, <1>4, <1>5
  DEF RestartInv, BeginsWhole, Progress, CodeTrue, AttemptsTrue

\* The reset code is used up as it is read.
LEMMA ClearKeeps == RestartInv /\ ClearResetCode => RestartInv'
<1> SUFFICES ASSUME RestartInv, ClearResetCode PROVE RestartInv'
  OBVIOUS
<1>1. /\ cpu = "code_mutable_preinit" /\ cpu' = "mark" /\ cmos' = 0
      /\ UNCHANGED <<pristine, ram, pam, suspended, attempts, resets>>
  BY DEF ClearResetCode, Goto
<1>2. Seen' = Seen
  BY <1>1, SameMemory
<1> QED
  BY <1>1, <1>2
  DEF RestartInv, RestartTypeOK, BeginsWhole, Progress, CodeTrue, AttemptsTrue

\* POST marks its begin and its end.
LEMMA PostKeeps == RestartInv /\ (MarkPost \/ dopost \/ prepareboot) => RestartInv'
<1> SUFFICES ASSUME RestartInv, MarkPost \/ dopost \/ prepareboot PROVE RestartInv'
  OBVIOUS
<1>1. UNCHANGED <<pristine, pam, cmos, suspended, attempts, resets>>
  BY DEF MarkPost, dopost, prepareboot
<1>2. RestartTypeOK /\ Progress /\ CodeTrue /\ AttemptsTrue
  BY DEF RestartInv
<1>3. /\ pam.ram /\ cmos = 0
      /\ \/ cpu' = "dopost" /\ ram' = Memory("image", 1, "image")
         \/ cpu' = "maininit" /\ ram' = Memory("used", 1, "used")
         \/ cpu' = "make_bios_readonly" /\ ram' = Memory("used", 2, "used")
  <2>1. CASE MarkPost
    <3>1. cpu = "mark" /\ cpu' = "dopost" /\ ram' = [ram EXCEPT !.HaveRunPost = 1]
      BY <2>1 DEF MarkPost, Goto
    <3> QED
      BY <1>2, <3>1, Marks DEF Progress, CodeTrue
  <2>2. CASE dopost
    <3>1. /\ cpu = "dopost" /\ cpu' = "maininit"
          /\ ram' = [ram EXCEPT !.below = "used", !.above = "used"]
      BY <2>2 DEF dopost, Goto
    <3> QED
      BY <1>2, <3>1, Marks DEF Progress, CodeTrue
  <2>3. CASE prepareboot
    <3>1. /\ cpu = "maininit" /\ cpu' = "make_bios_readonly"
          /\ ram' = [ram EXCEPT !.HaveRunPost = 2]
      BY <2>3 DEF prepareboot, Goto
    <3> QED
      BY <1>2, <3>1, Marks DEF Progress, CodeTrue
  <2> QED
    BY <2>1, <2>2, <2>3
<1>4. ram' \in Memories /\ ram'.HaveRunPost # 0 /\ Seen' = ram'
  <2>1. Seen' = ram'
    BY <1>1, <1>3 DEF Seen
  <2> QED
    BY <1>3, <2>1, Marks DEF Contents
<1>5. RestartTypeOK' /\ BeginsWhole'
  BY <1>1, <1>2, <1>4 DEF RestartTypeOK, BeginsWhole
<1>6. Progress' /\ CodeTrue' /\ AttemptsTrue'
  BY <1>1, <1>2, <1>3 DEF Progress, CodeTrue, AttemptsTrue
<1> QED
  BY <1>5, <1>6 DEF RestartInv

\* A granule that is protected is so with those below it.
LEMMA Monotone ==
  ASSUME NEW h \in Nat, NEW g \in Nat, h <= g, NEW u \in Nat
  PROVE  h * u <= g * u /\ (h + 1) * u <= (g + 1) * u
<1> DEFINE d == g - h
<1>1. d \in Nat /\ g = h + d
  OBVIOUS
<1>2. d * u \in Nat /\ h * u \in Nat
  BY <1>1
<1>3. (h + d) * u = h * u + d * u /\ (h + 1 + d) * u = (h + 1) * u + d * u
  BY <1>1
<1> QED
  BY <1>1, <1>2, <1>3

\* make_bios_readonly locks whole granules of the roms, from the first on.
LEMMA LocksExactly ==
  ASSUME NEW romlast \in Nat, NEW rommax \in Nat, NEW g \in 0 .. Granules - 1
  PROVE  /\ g * Unit < romlast /\ (g + 1) * Unit <= rommax => g \in ReadOnly(romlast, rommax)
         /\ g \in ReadOnly(romlast, rommax) => (g + 1) * Unit <= rommax
<1>1. g \in Nat /\ Unit \in Nat /\ g * Unit \in Nat /\ (g + 1) * Unit \in Nat
  BY RestartAssumption
<1>2. ASSUME g * Unit < romlast, (g + 1) * Unit <= rommax
      PROVE  g \in ReadOnly(romlast, rommax)
  <2>1. ASSUME NEW h \in 0 .. g PROVE Protects(h, romlast, rommax)
    <3>1. h * Unit <= g * Unit /\ (h + 1) * Unit <= (g + 1) * Unit /\ h * Unit \in Nat
          /\ (h + 1) * Unit \in Nat
      BY <1>1, Monotone
    <3> QED
      BY <1>1, <1>2, <3>1 DEF Protects
  <2> QED
    BY <2>1 DEF ReadOnly
<1>3. ASSUME g \in ReadOnly(romlast, rommax) PROVE (g + 1) * Unit <= rommax
  <2>1. Protects(g, romlast, rommax)
    BY <1>1, <1>3 DEF ReadOnly
  <2> QED
    BY <1>1, <2>1 DEF Protects
<1> QED
  BY <1>2, <1>3

\* The system gets memory that is locked.
LEMMA ReadonlyKeeps == RestartInv /\ make_bios_readonly => RestartInv'
<1> SUFFICES ASSUME RestartInv, make_bios_readonly PROVE RestartInv'
  OBVIOUS
<1>1. /\ cpu = "make_bios_readonly" /\ cpu' = "os" /\ suspended' = FALSE /\ attempts' = 0
      /\ UNCHANGED <<pristine, ram, cmos, resets>>
  BY DEF make_bios_readonly, Goto
<1>2. RestartTypeOK /\ pam.ram /\ ram = Memory("used", 2, "used") /\ cmos = 0
  BY <1>1 DEF RestartInv, Progress, CodeTrue
<1>3. PICK rommax \in 0 .. Granules * Unit : \E romlast \in 0 .. rommax :
        pam' = [pam EXCEPT !.writable = FALSE, !.readonly = ReadOnly(romlast, rommax),
                           !.romlast = romlast, !.rommax = rommax]
  BY ZenonT(40) DEF make_bios_readonly
<1>8. PICK romlast \in 0 .. rommax :
        pam' = [pam EXCEPT !.writable = FALSE, !.readonly = ReadOnly(romlast, rommax),
                           !.romlast = romlast, !.rommax = rommax]
  BY <1>3, ZenonT(40)
<1>9. rommax \in Nat /\ romlast \in Nat
  <2>1. Granules * Unit \in Nat
    BY RestartAssumption
  <2>2. rommax \in Nat
    BY <2>1
  <2> QED
    BY <2>2
<1>4. /\ pam'.ram /\ ~pam'.writable /\ pam'.readonly = ReadOnly(romlast, rommax)
      /\ pam'.romlast = romlast /\ pam'.rommax = rommax
      /\ pam' \in [ram : BOOLEAN, writable : BOOLEAN, readonly : SUBSET Nat,
                   romlast : Nat, rommax : Nat]
  <2>1. ReadOnly(romlast, rommax) \in SUBSET Nat
    BY RestartAssumption DEF ReadOnly
  <2> QED
    BY <1>2, <1>8, <1>9, <2>1 DEF RestartTypeOK
<1>5. RestartTypeOK'
  BY <1>1, <1>2, <1>4 DEF RestartTypeOK
<1>6. LocksRoms'
  BY <1>4, <1>9, LocksExactly DEF LocksRoms
<1>7. Seen' = ram /\ ram.HaveRunPost = 2
  BY <1>1, <1>2, <1>4, Marks DEF Seen, Contents
<1> QED
  BY <1>1, <1>2, <1>4, <1>5, <1>6, <1>7
  DEF RestartInv, BeginsWhole, Progress, PostDone, CodeTrue, AttemptsTrue

\* A resume code is only followed after a POST.
LEMMA ResumeCodeKeeps == RestartInv /\ handle_resume => RestartInv'
<1> SUFFICES ASSUME RestartInv, handle_resume PROVE RestartInv'
  OBVIOUS
<1>1. /\ cpu = "entry_resume" /\ cmos' = 0
      /\ UNCHANGED <<pristine, ram, pam, suspended, attempts, resets>>
      /\ cpu' \in {"panic", "os", "s3_resume", "qemu_reboot"}
      /\ cpu' = "s3_resume" => cmos = S3
      /\ cpu' \in {"panic", "os", "s3_resume"} => cmos # 0
  BY DEF handle_resume, Goto, Jumps, Unimplemented, S3
<1>2. Seen' = Seen /\ PostDone' = PostDone
  BY <1>1, SameMemory
<1>3. RestartTypeOK /\ Seen.HaveRunPost # 0
  BY <1>1 DEF RestartInv, Progress
<1>4. cmos # 0 => PostDone /\ (cmos = S3 => suspended) /\ attempts = 0
  <2>1. cmos # 0 => PostDone /\ (cmos = S3 => suspended)
    BY <1>3 DEF RestartInv, CodeTrue
  <2>2. ASSUME PostDone PROVE attempts = 0
    <3>1. ram.HaveRunPost = 2
      BY <2>2, Marks DEF PostDone, Contents
    <3> QED
      BY <1>1, <3>1 DEF RestartInv, AttemptsTrue
  <2> QED
    BY <2>1, <2>2
<1>5. RestartTypeOK' /\ BeginsWhole'
  BY <1>1, <1>2 DEF RestartInv, RestartTypeOK, BeginsWhole
<1>6. Progress' /\ CodeTrue'
  BY <1>1, <1>2, <1>3, <1>4 DEF Progress, CodeTrue
<1>7. AttemptsTrue'
  BY <1>1, <1>4 DEF RestartInv, AttemptsTrue
<1> QED
  BY <1>5, <1>6, <1>7 DEF RestartInv

\* A resume ends as it began.
LEMMA S3Keeps == RestartInv /\ s3_resume => RestartInv'
<1> SUFFICES ASSUME RestartInv, s3_resume PROVE RestartInv'
  OBVIOUS
<1>1. cpu = "s3_resume" /\ UNCHANGED <<pristine, ram, cmos, attempts, resets>>
  BY DEF s3_resume
<1>2. RestartTypeOK /\ PostDone /\ cmos = 0 /\ attempts = 0
  BY <1>1 DEF RestartInv, Progress, CodeTrue, AttemptsTrue
<1>3. /\ cpu' \in {"os", "qemu_reboot"} /\ suspended' \in BOOLEAN
      /\ pam' = [pam EXCEPT !.writable = FALSE]
  BY <1>2 DEF s3_resume, Goto, PostDone, RestartTypeOK
<1>4. RestartTypeOK' /\ PostDone'
  BY <1>1, <1>2, <1>3 DEF RestartTypeOK, PostDone, LocksRoms
<1>5. Seen'.HaveRunPost # 0
  BY <1>4, Marks DEF Seen, PostDone, Contents
<1> QED
  BY <1>1, <1>2, <1>3, <1>4, <1>5
  DEF RestartInv, BeginsWhole, Progress, CodeTrue, AttemptsTrue

\* A reboot marks the first attempt where there is no image to copy.
LEMMA RebootKeeps == RestartInv /\ qemu_reboot => RestartInv'
<1> SUFFICES ASSUME RestartInv, qemu_reboot PROVE RestartInv'
  OBVIOUS
<1>1. cpu = "qemu_reboot" /\ UNCHANGED <<pristine, cmos, suspended, attempts, resets>>
  BY DEF qemu_reboot
<1>2. RestartTypeOK /\ Seen.HaveRunPost # 0 /\ cmos = 0
      /\ (attempts # 0 => ~pristine /\ ram.HaveRunPost = 3)
  BY <1>1 DEF RestartInv, Progress, CodeTrue, AttemptsTrue
<1>3. ram.HaveRunPost # 0 /\ (pristine <=> Flash.HaveRunPost = 0)
      /\ (pristine => pam.ram)
  BY <1>2, SeenIs DEF Image, RestartTypeOK
<1>4. Writable.ram /\ Writable \in [ram : BOOLEAN, writable : BOOLEAN, readonly : SUBSET Nat,
                                    romlast : Nat, rommax : Nat]
  BY <1>2 DEF Writable, RestartTypeOK
<1>5. CASE pristine
  <2>1. pam' = Writable /\ cpu' = "copy_1" /\ ram' = ram
    BY <1>3, <1>5 DEF qemu_reboot, Goto
  <2>2. RestartTypeOK' /\ attempts' = 0 /\ Seen' = ram
    BY <1>1, <1>2, <1>4, <1>5, <2>1 DEF RestartTypeOK, Seen
  <2> QED
    BY <1>1, <1>2, <1>3, <1>4, <1>5, <2>1, <2>2
    DEF RestartInv, BeginsWhole, Progress, CodeTrue, AttemptsTrue
<1>6. CASE ~pristine /\ ram.HaveRunPost = 3
  <2>1. pam' = pam /\ cpu' = "off" /\ ram' = ram
    BY <1>3, <1>6 DEF qemu_reboot, Goto
  <2>2. RestartTypeOK' /\ Seen' = Seen
    BY <1>1, <1>2, <2>1, SameMemory DEF RestartTypeOK
  <2> QED
    BY <1>1, <1>2, <2>1, <2>2
    DEF RestartInv, BeginsWhole, Progress, CodeTrue, AttemptsTrue
<1>7. CASE ~pristine /\ ram.HaveRunPost # 3
  <2>1. pam' = Writable /\ cpu' = "outb" /\ ram' = [ram EXCEPT !.HaveRunPost = 3]
    BY <1>3, <1>7 DEF qemu_reboot, Goto
  <2>2. ram' \in Memories /\ ram'.HaveRunPost = 3
    BY <1>2, <2>1 DEF RestartTypeOK, Memories
  <2>3. RestartTypeOK' /\ attempts' = 0 /\ Seen' = ram'
    BY <1>1, <1>2, <1>4, <1>7, <2>1, <2>2 DEF RestartTypeOK, Seen
  <2> QED
    BY <1>1, <1>2, <1>4, <1>7, <2>1, <2>2, <2>3
    DEF RestartInv, BeginsWhole, Progress, CodeTrue, AttemptsTrue
<1> QED
  BY <1>5, <1>6, <1>7

\* qemu_reboot copies the image back, HaveRunPost between what is below and what is above it.
LEMMA CopyKeeps == RestartInv /\ Copy => RestartInv'
<1> SUFFICES ASSUME RestartInv, Copy PROVE RestartInv'
  OBVIOUS
<1>1. UNCHANGED <<pristine, pam, cmos, suspended, attempts, resets>>
  BY DEF Copy
<1>2. \/ cpu = "copy_1" /\ cpu' = "copy_2" /\ ram' = [ram EXCEPT !.below = "image"]
      \/ cpu = "copy_2" /\ cpu' = "copy_3" /\ ram' = [ram EXCEPT !.above = "image"]
      \/ cpu = "copy_3" /\ cpu' = "outb" /\ ram' = [ram EXCEPT !.HaveRunPost = 0]
  <2>1. PICK i \in 1 .. 3 : /\ cpu = Pc(i) /\ cpu' = Pc(i + 1)
                           /\ ram' = [ram EXCEPT ![CopyOrder[i]] = Image[CopyOrder[i]]]
    BY DEF Copy, Goto
  <2>5. Pc(1) = "copy_1" /\ Pc(2) = "copy_2" /\ Pc(3) = "copy_3" /\ Pc(4) = "outb"
    BY DEF Pc
  <2>6. CopyOrder[1] = "below" /\ CopyOrder[2] = "above" /\ CopyOrder[3] = "HaveRunPost"
    BY DEF CopyOrder
  <2>7. Image.below = "image" /\ Image.above = "image" /\ Image.HaveRunPost = 0
    BY DEF Image
  <2> HIDE DEF Pc, CopyOrder, Image
  <2>2. CASE i = 1
    <3>1. CopyOrder[i] = "below" /\ i + 1 = 2
      BY <2>2, <2>6
    <3>2. ram' = [ram EXCEPT !["below"] = Image["below"]] /\ cpu = Pc(1) /\ cpu' = Pc(2)
      BY <2>1, <2>2, <3>1
    <3> QED
      BY <2>5, <2>7, <3>2
  <2>3. CASE i = 2
    <3>1. CopyOrder[i] = "above" /\ i + 1 = 3
      BY <2>3, <2>6
    <3>2. ram' = [ram EXCEPT !["above"] = Image["above"]] /\ cpu = Pc(2) /\ cpu' = Pc(3)
      BY <2>1, <2>3, <3>1
    <3> QED
      BY <2>5, <2>7, <3>2
  <2>4. CASE i = 3
    <3>1. CopyOrder[i] = "HaveRunPost" /\ i + 1 = 4
      BY <2>4, <2>6
    <3>2. ram' = [ram EXCEPT !["HaveRunPost"] = Image["HaveRunPost"]] /\ cpu = Pc(3) /\ cpu' = Pc(4)
      BY <2>1, <2>4, <3>1
    <3> QED
      BY <2>5, <2>7, <3>2
  <2> QED
    BY <2>2, <2>3, <2>4
<1>3. /\ RestartTypeOK /\ pristine /\ pam.ram /\ ram.HaveRunPost # 0 /\ cmos = 0
      /\ attempts = 0
      /\ cpu \in {"copy_2", "copy_3"} => ram.below = "image"
      /\ cpu = "copy_3" => ram.above = "image"
  BY <1>2 DEF RestartInv, Progress, CodeTrue, AttemptsTrue
<1>4. /\ ram' \in Memories /\ Seen' = ram'
      /\ cpu' = "copy_2" => ram'.below = "image" /\ ram'.HaveRunPost # 0
      /\ cpu' = "copy_3" =>
           ram'.below = "image" /\ ram'.above = "image" /\ ram'.HaveRunPost # 0
      /\ cpu' = "outb" => ram' = Image
  <2>1. ram \in Memories /\ Seen' = ram'
    BY <1>1, <1>3 DEF RestartTypeOK, Seen
  <2> QED
    BY <1>2, <1>3, <2>1 DEF Memories, Contents, Image
<1>5. RestartTypeOK' /\ BeginsWhole'
  BY <1>1, <1>2, <1>3, <1>4 DEF RestartTypeOK, BeginsWhole
<1> QED
  BY <1>1, <1>2, <1>3, <1>4, <1>5 DEF RestartInv, Progress, CodeTrue, AttemptsTrue

\* The reset that is asked for finds an image, or the mark of that attempt.
LEMMA RequestKeeps == RestartInv /\ RequestReset => RestartInv'
<1> SUFFICES ASSUME RestartInv, RequestReset PROVE RestartInv'
  OBVIOUS
<1>1. /\ cpu = "outb" /\ cpu' = "reset" /\ attempts' = attempts + 1
      /\ UNCHANGED <<pristine, ram, pam, cmos, suspended, resets>>
  BY DEF RequestReset, Goto
<1>2. /\ RestartTypeOK /\ pam.ram /\ attempts = 0 /\ cmos = 0
      /\ IF pristine THEN ram = Image ELSE ram.HaveRunPost = 3
  BY <1>1 DEF RestartInv, Progress, CodeTrue, AttemptsTrue
<1>3. Seen' = Seen /\ Seen = ram
  BY <1>1, <1>2, SameMemory, SeenIs
<1>4. RestartTypeOK'
  BY <1>1, <1>2 DEF RestartTypeOK
<1> QED
  BY <1>1, <1>2, <1>3, <1>4
  DEF RestartInv, BeginsWhole, Progress, CodeTrue, AttemptsTrue, Image

\* A reset leaves RAM, and shows the ROM.
LEMMA HardResetKeeps == RestartInv /\ HardReset => RestartInv'
<1> SUFFICES ASSUME RestartInv, HardReset PROVE RestartInv'
  OBVIOUS
<1>1. /\ cpu' = "reset" /\ attempts' = 0 /\ UNCHANGED <<pristine, ram, pam, cmos, suspended>>
  BY DEF HardReset, Goto
<1>2. Seen' = Seen /\ PostDone' = PostDone
  BY <1>1, SameMemory
<1>3. RestartTypeOK'
  BY <1>1 DEF RestartInv, RestartTypeOK
<1> QED
  BY <1>1, <1>2, <1>3 DEF RestartInv, BeginsWhole, Progress, CodeTrue, AttemptsTrue

\* Power that goes leaves nothing in RAM.
LEMMA PowerKeeps == RestartInv /\ PowerCycle => RestartInv'
<1> SUFFICES ASSUME RestartInv, PowerCycle PROVE RestartInv'
  OBVIOUS
<1>1. /\ cpu' = "reset" /\ attempts' = 0 /\ suspended' = FALSE /\ UNCHANGED <<pristine, cmos>>
      /\ ram' = IF pristine THEN [Image EXCEPT !.below = "none", !.above = "none"] ELSE Image
      /\ pam' = [ram |-> FALSE, writable |-> FALSE, readonly |-> {}, romlast |-> 0,
                 rommax |-> 0]
  BY DEF PowerCycle, Goto
<1>2. RestartTypeOK
  BY DEF RestartInv
<1>3. RestartTypeOK'
  <2>2. ram' \in Memories
    BY <1>1, Marks DEF Contents
  <2> QED
    BY <1>1, <1>2, <2>2 DEF RestartTypeOK
<1>4. Seen' = Image /\ Image.HaveRunPost = 0
  BY <1>1, <1>2 DEF Seen, Flash, Image
<1> QED
  BY <1>1, <1>3, <1>4 DEF RestartInv, BeginsWhole, Progress, CodeTrue, AttemptsTrue

\* The system reboots or suspends.
LEMMA SystemKeeps == RestartInv /\ (Reboot \/ Suspend) => RestartInv'
<1> SUFFICES ASSUME RestartInv, Reboot \/ Suspend PROVE RestartInv'
  OBVIOUS
<1>1. /\ cpu = "os" /\ cpu' = "reset" /\ UNCHANGED <<pristine, ram, pam, attempts, resets>>
      /\ \/ cmos' \in {cmos, 1} \cup Jumps /\ suspended' = suspended
         \/ cmos' = S3 /\ suspended' = TRUE
  <2>1. CASE Reboot
    BY <2>1 DEF Reboot, Goto
  <2>2. CASE Suspend
    BY <2>2 DEF Suspend, Goto
  <2> QED
    BY <2>1, <2>2
<1>2. RestartTypeOK /\ PostDone /\ cmos = 0 /\ attempts = 0
  BY <1>1 DEF RestartInv, Progress, CodeTrue, AttemptsTrue
<1>3. cmos' \in Nat /\ suspended' \in BOOLEAN /\ (cmos' = S3 => suspended')
  <2>1. CASE cmos' \in {cmos, 1} \cup Jumps /\ suspended' = suspended
    <3>1. cmos' \in {0, 1, 5, 10, 11, 12}
      BY <1>2, <2>1 DEF Jumps
    <3> QED
      BY <1>2, <2>1, <3>1 DEF RestartTypeOK, S3
  <2>2. CASE cmos' = S3 /\ suspended' = TRUE
    BY <2>2 DEF S3
  <2> QED
    BY <1>1, <2>1, <2>2
<1>4. Seen' = Seen /\ PostDone'
  BY <1>1, <1>2, SameMemory
<1>5. RestartTypeOK'
  BY <1>1, <1>2, <1>3 DEF RestartTypeOK
<1> QED
  BY <1>1, <1>2, <1>3, <1>4, <1>5
  DEF RestartInv, BeginsWhole, Progress, CodeTrue, AttemptsTrue

\* Every step of the firmware, the system and the chipset keeps these.
LEMMA RestartStep == RestartInv /\ [RestartNext]_restartVars => RestartInv'
<1> SUFFICES ASSUME RestartInv, [RestartNext]_restartVars PROVE RestartInv'
  OBVIOUS
<1>1. CASE RestartNext
  BY <1>1, EntryKeeps, WritableKeeps, ClearKeeps, PostKeeps, ReadonlyKeeps,
     ResumeCodeKeeps, S3Keeps, RebootKeeps, CopyKeeps, RequestKeeps, HardResetKeeps,
     PowerKeeps, SystemKeeps DEF RestartNext
<1>2. CASE UNCHANGED restartVars
  <2>1. UNCHANGED <<pristine, cpu, ram, pam, cmos, suspended, attempts, resets>>
    BY <1>2 DEF restartVars
  <2> QED
    BY <2>1, SameMemory
    DEF RestartInv, RestartTypeOK, BeginsWhole, Progress, CodeTrue, AttemptsTrue
<1> QED
  BY <1>1, <1>2

\* So what runs finds the memory it needs.
LEMMA RestartHolds == RestartInv => RestartTrue
<1> SUFFICES ASSUME RestartInv PROVE RestartTrue
  OBVIOUS
<1>1. cpu = "dopost" => ram.below = "image" /\ ram.above = "image"
  BY DEF RestartInv, Progress, Memory
<1>2. cpu \in {"os", "s3_resume"} => PostDone
  BY DEF RestartInv, Progress
<1>3. PostDone => ram.below = "used" /\ ram.above = "used" /\ ram.HaveRunPost = 2
  BY DEF PostDone, Memory
<1>4. (cpu = "s3_resume" => suspended) /\ attempts <= 1
  BY DEF RestartInv, CodeTrue, RestartTypeOK
<1> QED
  BY <1>1, <1>2, <1>3, <1>4 DEF RestartTrue, PostDone, LocksRoms

\* HaveRunPost, qemu_reboot and s3_resume: wherever a reset comes in, a POST begins on an image
\* nothing has written to, a resume finds the code POST has left, and a reset that was asked for
\* once is not asked for again.
THEOREM RestartCorrect == RestartSpec => []RestartTrue
<1>1. RestartInit => RestartInv
  BY RestartStarts
<1>2. RestartInv /\ [RestartNext]_restartVars => RestartInv'
  BY RestartStep
<1>3. RestartInv => RestartTrue
  BY RestartHolds
<1> QED
  BY <1>1, <1>2, <1>3, PTL DEF RestartSpec


----------------------------------------------------------------------------
(* The ring of virtio: the free list always is in the order of the table.    *)

\* A set of numbers has a least one.
LEMMA Least ==
  ASSUME NEW S \in SUBSET Nat, S # {}
  PROVE  \E k \in S : \A m \in S : k <= m
<1>1. PICK k \in S : \A m \in S : ~(<<m, k>> \in OpToRel(<, Nat))
  BY WFMin, NatLessThanWellFounded, Zenon
<1>2. \A m \in S : ~(m < k)
  BY <1>1 DEF OpToRel
<1> QED
  BY <1>2

\* What is left when whole rounds are taken off.
LEMMA WholeRounds ==
  ASSUME NEW D \in Nat \ {0}, NEW q \in Int, NEW x \in 0 .. D - 1
  PROVE  (q * D + x) % D = x
  BY SMTT(30)

\* The next index of a ring.
LEMMA NextIndex ==
  ASSUME NEW D \in Nat \ {0}, NEW i \in 0 .. D - 1
  PROVE  /\ (i + 1) % D = IF i + 1 = D THEN 0 ELSE i + 1
         /\ i % D = i
<1>1. 0 * D + i = i /\ 0 * D + (i + 1) = i + 1
  OBVIOUS
<1>2. i % D = i
  BY <1>1, WholeRounds
<1>3. CASE i + 1 = D
  <2>1. 1 * D + 0 = i + 1 /\ 0 \in 0 .. D - 1
    BY <1>3
  <2>2. (1 * D + 0) % D = 0
    BY <2>1, WholeRounds
  <2> QED
    BY <1>2, <1>3, <2>1, <2>2
<1>4. CASE i + 1 # D
  <2>1. i + 1 \in 0 .. D - 1
    BY <1>4
  <2>2. (0 * D + (i + 1)) % D = i + 1
    BY <2>1, WholeRounds
  <2> QED
    BY <1>1, <1>2, <1>4, <2>2
<1> QED
  BY <1>3, <1>4

\* Counting modulo the width.
LEMMA CountsOn ==
  ASSUME NEW D \in Nat \ {0}, NEW n \in Nat
  PROVE  (n % D) \in 0 .. D - 1 /\ ((n % D) + 1) % D = (n + 1) % D
<1>1. n % D \in 0 .. D - 1
  OBVIOUS
<1>2. n \div D \in Int /\ n = (n \div D) * D + (n % D)
  BY SMTT(30)
<1> DEFINE q == n \div D
           r == n % D
<1>3. q \in Int /\ r \in 0 .. D - 1 /\ n = q * D + r /\ q * D \in Int
  BY <1>1, <1>2
<1> HIDE DEF q, r
<1>4. (r + 1) % D = (n + 1) % D
  <2>1. CASE r + 1 = D
    <3>1. (q + 1) * D = q * D + D /\ q + 1 \in Int
      BY <1>3
    <3>2. n + 1 = (q + 1) * D + 0 /\ 0 \in 0 .. D - 1
      BY <1>3, <2>1, <3>1
    <3>3. ((q + 1) * D + 0) % D = 0
      BY <3>1, <3>2, WholeRounds
    <3> QED
      BY <1>3, <2>1, <3>2, <3>3, NextIndex
  <2>2. CASE r + 1 # D
    <3>1. r + 1 \in 0 .. D - 1 /\ n + 1 = q * D + (r + 1)
      BY <1>3, <2>2
    <3>2. (q * D + (r + 1)) % D = r + 1
      BY <1>3, <3>1, WholeRounds
    <3> QED
      BY <1>3, <2>2, <3>1, <3>2, NextIndex
  <2> QED
    BY <2>1, <2>2
<1> QED
  BY <1>1, <1>4 DEF r

----------------------------------------------------------------------------
(* A virtio queue: as one request at a time is in it, the free list is always *)
(* the whole table, in its order.                                             *)

Descriptor == [buf : Buffers, write : BOOLEAN, flag_next : BOOLEAN, next : Slot]

\* Every descriptor is followed by the one behind it.
InOrder(d) == d \in [Slot -> Descriptor] /\ \A i \in Slot : d[i].next = (i + 1) % num

\* So the descriptors of a list are the first ones.
LEMMA TakenFirst ==
  ASSUME NEW d, InOrder(d), NEW n \in 0 .. num
  PROVE  Taken(d, 0, n) = [k \in 1 .. n |-> k - 1]
<1> DEFINE F(f) == [k \in 1 .. n |-> IF k = 1 THEN 0 ELSE d[f[k - 1]].next]
           g == [k \in 1 .. n |-> k - 1]
           at == CHOOSE f : f = F(f)
<1>0. num \in Nat \ {0} /\ n \in Nat /\ n <= num
  BY VirtioAssumption
<1>1. ASSUME NEW k \in 1 .. n, k # 1 PROVE k - 1 \in 1 .. n /\ d[k - 2].next = k - 1
  <2>1. k - 1 \in 1 .. n /\ k - 2 \in 0 .. num - 1 /\ (k - 2) + 1 = k - 1 /\ k - 1 # num
    BY <1>0, <1>1
  <2>2. (k - 2 + 1) % num = k - 1
    BY <1>0, <2>1, NextIndex
  <2> QED
    BY <2>1, <2>2 DEF InOrder, Slot
<1>2. g = F(g)
  <2>1. ASSUME NEW k \in 1 .. n PROVE g[k] = F(g)[k]
    <3>1. CASE k = 1
      BY <3>1
    <3>2. CASE k # 1
      <4>1. k - 1 \in 1 .. n /\ d[k - 2].next = k - 1
        BY <1>1, <3>2
      <4>2. g[k - 1] = k - 2
        BY <1>0, <4>1
      <4> QED
        BY <3>2, <4>1, <4>2
    <3> QED
      BY <3>1, <3>2
  <2> QED
    BY <2>1
<1>3. at = F(at)
  BY <1>2, Zenon
<1>4. Taken(d, 0, n) = at
  BY DEF Taken
<1> HIDE DEF at, g
<1>5. ASSUME NEW k \in 1 .. n, at[k] # k - 1 PROVE FALSE
  <2> DEFINE S == {m \in 1 .. n : at[m] # m - 1}
  <2>1. S \in SUBSET Nat /\ S # {}
    BY <1>5
  <2>2. PICK m \in S : \A j \in S : m <= j
    BY <2>1, Least
  <2>3. CASE m = 1
    <3>1. F(at)[m] = 0
      BY <2>2, <2>3
    <3> QED
      BY <1>3, <2>2, <2>3, <3>1
  <2>4. CASE m # 1
    <3>1. m \in 1 .. n /\ m - 1 \in 1 .. n /\ d[m - 2].next = m - 1
      BY <1>1, <2>2, <2>4
    <3>2. at[m - 1] = m - 2
      BY <1>0, <2>2, <3>1
    <3>3. F(at)[m] = d[at[m - 1]].next
      BY <2>4, <3>1
    <3> QED
      BY <1>3, <2>2, <3>1, <3>2, <3>3
  <2> QED
    BY <2>3, <2>4
<1>6. at = [k \in 1 .. n |-> at[k]]
  BY <1>3
<1> QED
  BY <1>4, <1>5, <1>6

Count(l) == Len(l.out) + Len(l.in)

\* The first descriptors hold the buffers of the list.
Loaded(l) ==
  \A k \in 1 .. Count(l) :
    /\ desc[k - 1].buf = (l.out \o l.in)[k] /\ desc[k - 1].write = (k > Len(l.out))
    /\ desc[k - 1].flag_next = (k < Count(l))

Index == 0 .. IdxWord - 1
Ring == [idx : Index, ring : [Slot -> Slot]]
NoList == [out |-> <<>>, in |-> <<>>]

VirtioTypeOK ==
  /\ InOrder(desc)
  /\ vq \in [free_head : Slot, last_used_idx : Index]
  /\ avail \in Ring /\ used \in Ring
  /\ device.last_avail \in Index
  /\ req \in [pc : {"idle", "kick", "wait"}, list : Lists \cup {NoList},
              status : {"none", "unsupp", "ok", "ioerr"}, n : Nat]

\* The index behind the last one that was taken back.
Ahead == (vq.last_used_idx + 1) % IdxWord

\* The device was handed the request, and has answered it.
Answered == device.got = Wanted(req.list) /\ req.status = device.status

WhenIdle ==
  req.pc = "idle" =>
    /\ vq.free_head = 0 /\ vq.last_used_idx = req.n % IdxWord
    /\ avail.idx = vq.last_used_idx /\ used.idx = vq.last_used_idx
    /\ device.last_avail = vq.last_used_idx
    /\ req.n > 0 => Answered

WhenBusy ==
  req.pc \in {"kick", "wait"} =>
    /\ req.list \in Lists /\ req.n > 0 /\ Loaded(req.list)
    /\ vq.free_head = desc[Count(req.list) - 1].next /\ Ahead = req.n % IdxWord
    /\ avail.ring[vq.last_used_idx % num] = 0

WhenHanded ==
  /\ req.pc = "kick" =>
       /\ avail.idx = vq.last_used_idx /\ used.idx = vq.last_used_idx
       /\ device.last_avail = vq.last_used_idx
  /\ req.pc = "wait" =>
       /\ avail.idx = Ahead
       /\ \/ used.idx = vq.last_used_idx /\ device.last_avail = vq.last_used_idx
          \/ /\ used.idx = Ahead /\ device.last_avail = Ahead
             /\ used.ring[vq.last_used_idx % num] = 0 /\ Answered

VirtioInv == VirtioTypeOK /\ WhenIdle /\ WhenBusy /\ WhenHanded

\* What a list is.
LEMMA ListFacts ==
  ASSUME NEW l \in Lists
  PROVE  /\ Count(l) \in 1 .. num /\ l.out \o l.in \in Seq(Buffers)
         /\ Len(l.out \o l.in) = Count(l) /\ Len(l.out) \in Nat
         /\ \A k \in 1 .. Count(l) : (l.out \o l.in)[k] \in Buffers
<1>1. l.out \in Seq(Buffers) /\ l.in \in Seq(Buffers) /\ Count(l) \in 1 .. num
  BY VirtioAssumption DEF Count
<1>2. /\ l.out \o l.in \in Seq(Buffers) /\ Len(l.out \o l.in) = Len(l.out) + Len(l.in)
      /\ Len(l.out) \in Nat
  BY <1>1
<1> DEFINE bufs == l.out \o l.in
<1>3. \A k \in 1 .. Len(bufs) : bufs[k] \in Buffers
  <2>1. bufs \in Seq(Buffers)
    BY <1>2
  <2> HIDE DEF bufs
  <2> QED
    BY <2>1
<1> QED
  BY <1>1, <1>2, <1>3 DEF Count

\* The chain of a list that is loaded is the list.
LEMMA ChainIsList ==
  ASSUME VirtioTypeOK, NEW l \in Lists, Loaded(l)
  PROVE  /\ ChainLength(desc, 0) = Count(l)
         /\ Chain(desc, 0) = [k \in 1 .. Count(l) |-> k - 1]
<1> DEFINE n == Count(l)
           ends == {k \in 1 .. num : ~desc[Taken(desc, 0, num)[k]].flag_next}
<1>0. n \in 1 .. num /\ num \in Nat \ {0} /\ InOrder(desc)
  BY ListFacts, VirtioAssumption DEF VirtioTypeOK
<1>1. Taken(desc, 0, num) = [k \in 1 .. num |-> k - 1]
  BY <1>0, TakenFirst
<1>8. \A k \in 1 .. n : desc[k - 1].flag_next = (k < n)
  BY Zenon DEF Loaded
<1> HIDE DEF n
<1>2. n \in ends
  <2>1. n \in 1 .. n /\ ~(n < n)
    BY <1>0
  <2>2. ~desc[n - 1].flag_next
    BY <1>8, <2>1, Zenon
  <2> QED
    BY <1>0, <1>1, <2>2
<1>3. ASSUME NEW m \in ends PROVE n <= m
  <2>1. m \in 1 .. num /\ ~desc[m - 1].flag_next
    BY <1>1
  <2>2. ASSUME m < n PROVE FALSE
    <3>1. m \in 1 .. n
      BY <1>0, <2>1, <2>2
    <3> QED
      BY <1>8, <2>1, <2>2, <3>1, Zenon
  <2> QED
    BY <1>0, <2>1, <2>2
<1>4. ends \subseteq Nat /\ n \in Nat
  BY <1>0
<1>5. ChainLength(desc, 0) = CHOOSE k \in ends : \A m \in ends : k <= m
  BY DEF ChainLength
<1> HIDE DEF ends
<1>6. ChainLength(desc, 0) = n
  <2> DEFINE k == CHOOSE k \in ends : \A m \in ends : k <= m
  <2>1. k \in ends /\ \A m \in ends : k <= m
    BY <1>2, <1>3
  <2> HIDE DEF k
  <2>2. k \in Nat /\ k <= n /\ n <= k
    BY <1>2, <1>3, <1>4, <2>1
  <2>3. k = n
    BY <1>4, <2>2
  <2> QED
    BY <1>5, <2>3 DEF k
<1>7. Taken(desc, 0, n) = [k \in 1 .. n |-> k - 1]
  BY <1>0, TakenFirst
<1> QED
  BY <1>6, <1>7 DEF Chain, n

\* vring_init links the table in its order.
LEMMA VirtioStarts == VirtioInit => VirtioInv
<1> SUFFICES ASSUME VirtioInit PROVE VirtioInv
  OBVIOUS
<1>0. num \in Nat \ {0} /\ IdxWord \in Nat \ {0, 1} /\ 0 \in Slot /\ 0 \in Index
      /\ 0 % IdxWord = 0
  BY VirtioAssumption, NextIndex DEF Slot, Index
<1>1. InOrder(desc)
  <2>1. \A i \in Slot : (i + 1) % num \in Slot
    BY <1>0 DEF Slot
  <2>2. "none" \in Buffers
    BY DEF Buffers
  <2> QED
    BY <2>1, <2>2 DEF VirtioInit, InOrder, Descriptor
<1>2. VirtioTypeOK
  BY <1>0, <1>1 DEF VirtioInit, VirtioTypeOK, Ring, NoList
<1> QED
  BY <1>0, <1>2 DEF VirtioInit, VirtioInv, WhenIdle, WhenBusy, WhenHanded

\* vring_add_buf takes the descriptors of a list off the front of the free list.
LEMMA SubmitKeeps == ASSUME NEW l \in Lists PROVE VirtioInv /\ Submit(l) => VirtioInv'
<1> SUFFICES ASSUME VirtioInv, Submit(l) PROVE VirtioInv'
  OBVIOUS
<1> DEFINE bufs == l.out \o l.in
           n == Count(l)
           x == vq.last_used_idx
<1>0. /\ num \in Nat \ {0} /\ IdxWord \in Nat \ {0, 1} /\ n \in 1 .. num /\ Len(bufs) = n
      /\ Len(l.out) \in Nat /\ \A k \in 1 .. n : bufs[k] \in Buffers
  BY VirtioAssumption, ListFacts
<1>1. /\ req.pc = "idle" /\ vring_add_buf(l) /\ UNCHANGED <<used, device>>
      /\ req' = [pc |-> "kick", list |-> l, status |-> "unsupp", n |-> req.n + 1]
  BY DEF Submit
<1>2. VirtioTypeOK /\ vq.free_head = 0 /\ x = req.n % IdxWord /\ avail.idx = x
      /\ used.idx = x /\ device.last_avail = x
  BY <1>1 DEF VirtioInv, WhenIdle
<1>3. InOrder(desc) /\ x \in Index /\ req.n \in Nat
  BY <1>2 DEF VirtioTypeOK
<1> DEFINE at == Taken(desc, 0, n)
<1>4. at = [k \in 1 .. n |-> k - 1]
  BY <1>0, <1>3, TakenFirst
<1>5. /\ desc' = [i \in Slot |->
           IF \E k \in 1 .. n : at[k] = i
           THEN LET k == CHOOSE k \in 1 .. n : at[k] = i
                IN  [desc[i] EXCEPT !.buf = bufs[k], !.write = k > Len(l.out),
                                    !.flag_next = Continues(k, n)]
           ELSE desc[i]]
      /\ vq' = [vq EXCEPT !.free_head = desc[at[n]].next]
      /\ avail' = [avail EXCEPT !.ring[avail.idx % num] = 0]
  BY <1>0, <1>1, <1>2, ZenonT(40) DEF vring_add_buf
<1> HIDE DEF at, bufs, n
<1>6. ASSUME NEW k \in 1 .. n
      PROVE  desc'[k - 1] = [desc[k - 1] EXCEPT !.buf = bufs[k], !.write = k > Len(l.out),
                                                !.flag_next = k < n]
  <2>1. k - 1 \in Slot /\ at[k] = k - 1
    BY <1>0, <1>4 DEF Slot
  <2>2. \A j \in 1 .. n : at[j] = k - 1 => j = k
    BY <1>0, <1>4
  <2>3. (CHOOSE j \in 1 .. n : at[j] = k - 1) = k
    BY <2>1, <2>2
  <2> QED
    BY <1>5, <2>1, <2>3, ZenonT(40) DEF Continues
<1>7. ASSUME NEW i \in Slot, i >= n PROVE desc'[i] = desc[i]
  <2>1. ~(\E k \in 1 .. n : at[k] = i)
    BY <1>0, <1>4, <1>7 DEF Slot
  <2> QED
    BY <1>5, <2>1, ZenonT(40)
<1>8. InOrder(desc')
  <2>1. ASSUME NEW i \in Slot PROVE desc'[i] \in Descriptor /\ desc'[i].next = desc[i].next
    <3>1. desc[i] \in Descriptor
      BY <1>3 DEF InOrder
    <3>2. CASE i < n
      <4>1. i + 1 \in 1 .. n /\ (i + 1) - 1 = i
        BY <1>0, <3>2 DEF Slot
      <4> DEFINE w == i + 1 > Len(l.out)
                 f == i + 1 < n
                 b == bufs[i + 1]
      <4>2. desc'[(i + 1) - 1] = [desc[(i + 1) - 1] EXCEPT !.buf = b, !.write = w, !.flag_next = f]
        BY <1>6, <4>1, ZenonT(40)
      <4>3. b \in Buffers /\ w \in BOOLEAN /\ f \in BOOLEAN
        BY <1>0, <4>1
      <4> HIDE DEF w, f, b
      <4>4. desc'[i] = [desc[i] EXCEPT !.buf = b, !.write = w, !.flag_next = f]
        BY <4>1, <4>2
      <4> QED
        BY <3>1, <4>3, <4>4 DEF Descriptor
    <3>3. CASE i >= n
      BY <1>7, <3>1, <3>3
    <3> QED
      BY <1>0, <3>2, <3>3 DEF Slot
  <2>2. DOMAIN desc' = Slot /\ desc' = [i \in Slot |-> desc'[i]]
    BY <1>5, ZenonT(40)
  <2> QED
    BY <1>3, <2>1, <2>2 DEF InOrder
<1>9. n - 1 \in Slot /\ at[n] = n - 1
  BY <1>0, <1>4 DEF Slot
<1>10. /\ vq'.free_head = desc[n - 1].next /\ vq'.last_used_idx = x
       /\ vq' \in [free_head : Slot, last_used_idx : Index]
  BY <1>2, <1>3, <1>5, <1>9, ZenonT(40) DEF VirtioTypeOK, InOrder, Descriptor
<1>11. desc'[n - 1].next = desc[n - 1].next
  BY <1>3, <1>8, <1>9 DEF InOrder
<1>12. /\ avail'.idx = x /\ avail'.ring[x % num] = 0 /\ avail' \in Ring
  <2>1. x % num \in Slot /\ 0 \in Slot
    BY <1>0, <1>3 DEF Index, Slot
  <2> QED
    BY <1>2, <1>5, <2>1, ZenonT(40) DEF VirtioTypeOK, Ring
<1>13. VirtioTypeOK'
  BY <1>1, <1>2, <1>3, <1>8, <1>10, <1>12 DEF VirtioTypeOK
<1>14. Loaded(l)'
  <2>1. ASSUME NEW k \in 1 .. n
        PROVE  /\ desc'[k - 1].buf = bufs[k] /\ desc'[k - 1].write = (k > Len(l.out))
               /\ desc'[k - 1].flag_next = (k < n)
    <3>1. k - 1 \in Slot
      BY <1>0 DEF Slot
    <3>2. desc[k - 1] \in Descriptor
      BY <1>3, <3>1 DEF InOrder
    <3> QED
      BY <1>6, <3>2, ZenonT(40) DEF Descriptor
  <2> QED
    BY <2>1 DEF Loaded, bufs, n
<1>15. WhenBusy'
  <2>1. (x + 1) % IdxWord = (req.n + 1) % IdxWord
    BY <1>0, <1>2, <1>3, CountsOn
  <2> QED
    BY <1>1, <1>3, <1>10, <1>11, <1>12, <1>14, <2>1 DEF WhenBusy, Ahead, n
<1>16. WhenIdle' /\ WhenHanded'
  BY <1>1, <1>2, <1>10, <1>12 DEF WhenIdle, WhenHanded
<1> QED
  BY <1>13, <1>15, <1>16 DEF VirtioInv

\* vring_kick shows the device the new index.
LEMMA KickKeeps == VirtioInv /\ vring_kick => VirtioInv'
<1> SUFFICES ASSUME VirtioInv, vring_kick PROVE VirtioInv'
  OBVIOUS
<1>1. /\ req.pc = "kick" /\ avail' = [avail EXCEPT !.idx = (@ + 1) % IdxWord]
      /\ req' = [req EXCEPT !.pc = "wait"] /\ UNCHANGED <<desc, vq, used, device>>
  BY DEF vring_kick
<1>2. /\ VirtioTypeOK /\ WhenBusy
      /\ avail.idx = vq.last_used_idx /\ used.idx = vq.last_used_idx
      /\ device.last_avail = vq.last_used_idx
  BY <1>1 DEF VirtioInv, WhenHanded
<1>3. avail' \in Ring /\ avail'.ring = avail.ring /\ avail'.idx = Ahead
  <2>1. Ahead \in Index
    BY <1>2, VirtioAssumption DEF VirtioTypeOK, Ahead, Index
  <2>2. avail' = [avail EXCEPT !.idx = Ahead]
    BY <1>1, <1>2 DEF VirtioTypeOK, Ring, Ahead
  <2> QED
    BY <1>2, <2>1, <2>2 DEF VirtioTypeOK, Ring
<1>4. /\ req'.pc = "wait" /\ req'.list = req.list /\ req'.n = req.n
      /\ req'.status = req.status
      /\ req' \in [pc : {"idle", "kick", "wait"}, list : Lists \cup {NoList},
                   status : {"none", "unsupp", "ok", "ioerr"}, n : Nat]
  BY <1>1, <1>2 DEF VirtioTypeOK
<1>5. VirtioTypeOK'
  BY <1>1, <1>2, <1>3, <1>4 DEF VirtioTypeOK
<1>6. WhenBusy'
  <2>1. Loaded(req.list)' <=> Loaded(req.list)
    BY <1>1, <1>4 DEF Loaded
  <2> QED
    BY <1>1, <1>2, <1>3, <1>4, <2>1 DEF WhenBusy, Ahead
<1>7. WhenIdle' /\ WhenHanded'
  BY <1>1, <1>2, <1>3, <1>4 DEF WhenIdle, WhenHanded, Ahead
<1> QED
  BY <1>5, <1>6, <1>7 DEF VirtioInv

\* The indices that tell whether the device has something to do are not the same.
LEMMA AheadDiffers == VirtioTypeOK => Ahead # vq.last_used_idx /\ Ahead \in Index
<1> SUFFICES ASSUME VirtioTypeOK PROVE Ahead # vq.last_used_idx /\ Ahead \in Index
  OBVIOUS
<1>1. vq.last_used_idx \in 0 .. IdxWord - 1 /\ IdxWord \in Nat \ {0, 1}
  BY VirtioAssumption DEF VirtioTypeOK, Index
<1>2. Ahead = IF vq.last_used_idx + 1 = IdxWord THEN 0 ELSE vq.last_used_idx + 1
  BY <1>1, NextIndex DEF Ahead
<1> QED
  BY <1>1, <1>2 DEF Index

\* The device reads the list, and answers it.
LEMMA ServesKeeps ==
  ASSUME NEW status \in {"ok", "ioerr"} PROVE VirtioInv /\ DeviceServes(status) => VirtioInv'
<1> SUFFICES ASSUME VirtioInv, DeviceServes(status) PROVE VirtioInv'
  OBVIOUS
<1> DEFINE l == req.list
           n == Count(l)
           x == vq.last_used_idx
<1>1. device.last_avail # avail.idx
  BY ZenonT(40) DEF DeviceServes
<1>2. /\ VirtioTypeOK /\ WhenBusy /\ req.pc = "wait" /\ avail.idx = Ahead /\ used.idx = x
      /\ device.last_avail = x
  BY <1>1 DEF VirtioInv, VirtioTypeOK, WhenIdle, WhenHanded
<1>3. /\ l \in Lists /\ Loaded(l) /\ avail.ring[x % num] = 0 /\ Ahead \in Index
      /\ num \in Nat \ {0} /\ x \in Index
  BY <1>2, AheadDiffers, VirtioAssumption DEF WhenBusy, VirtioTypeOK
<1>4. ChainLength(desc, 0) = n /\ Chain(desc, 0) = [k \in 1 .. n |-> k - 1]
  BY <1>2, <1>3, ChainIsList
<1>5. /\ device' = [last_avail |-> Ahead, status |-> status,
                    got |-> [k \in 1 .. n |-> <<desc[Chain(desc, 0)[k]].buf,
                                                desc[Chain(desc, 0)[k]].write>>]]
      /\ used' = [idx |-> Ahead, ring |-> [used.ring EXCEPT ![x % num] = 0]]
      /\ req' = [req EXCEPT !.status = status]
      /\ UNCHANGED <<desc, vq, avail>>
  BY <1>2, <1>3, <1>4 DEF DeviceServes, Ahead
<1>6. device'.got = Wanted(l)
  <2>1. device'.got = [k \in 1 .. n |-> <<desc[k - 1].buf, desc[k - 1].write>>]
    <3>1. \A k \in 1 .. n : Chain(desc, 0)[k] = k - 1
      BY <1>4
    <3> HIDE DEF n
    <3> QED
      BY <1>5, <3>1
  <2>2. \A k \in 1 .. n : /\ desc[k - 1].buf = (l.out \o l.in)[k]
                          /\ desc[k - 1].write = (k > Len(l.out))
    BY <1>3 DEF Loaded
  <2> QED
    BY <2>1, <2>2 DEF Wanted, Count
<1>7. used' \in Ring /\ used'.idx = Ahead /\ used'.ring[x % num] = 0
  <2>1. x % num \in Slot /\ 0 \in Slot
    BY <1>3 DEF Index, Slot
  <2>2. used.ring \in [Slot -> Slot]
    BY <1>2 DEF VirtioTypeOK, Ring
  <2> QED
    BY <1>3, <1>5, <2>1, <2>2 DEF Ring
<1>8. /\ req'.pc = "wait" /\ req'.list = l /\ req'.n = req.n /\ req'.status = status
      /\ req' \in [pc : {"idle", "kick", "wait"}, list : Lists \cup {NoList},
                   status : {"none", "unsupp", "ok", "ioerr"}, n : Nat]
  BY <1>2, <1>5 DEF VirtioTypeOK
<1>9. VirtioTypeOK'
  BY <1>2, <1>3, <1>5, <1>7, <1>8 DEF VirtioTypeOK
<1>10. WhenBusy'
  <2>1. Loaded(l)'
    BY <1>3, <1>5, <1>8 DEF Loaded
  <2> QED
    BY <1>2, <1>5, <1>8, <2>1 DEF WhenBusy, Ahead
<1>11. Answered' /\ Ahead' = Ahead /\ device'.last_avail = Ahead
  BY <1>5, <1>6, <1>8 DEF Answered, Ahead
<1>12. WhenIdle' /\ WhenHanded'
  BY <1>2, <1>5, <1>7, <1>8, <1>11 DEF WhenIdle, WhenHanded
<1> QED
  BY <1>9, <1>10, <1>12 DEF VirtioInv

\* vring_get_buf puts the descriptors back in front of the others.
LEMMA ReclaimKeeps == VirtioInv /\ Reclaim => VirtioInv'
<1> SUFFICES ASSUME VirtioInv, Reclaim PROVE VirtioInv'
  OBVIOUS
<1> DEFINE l == req.list
           n == Count(l)
           x == vq.last_used_idx
<1>1. /\ req.pc = "wait" /\ x # used.idx /\ vring_detach(used.ring[x % num])
      /\ req' = [req EXCEPT !.pc = "idle"] /\ UNCHANGED <<avail, used, device>>
  BY DEF Reclaim, vring_more_used
<1>2. /\ VirtioTypeOK /\ WhenBusy /\ avail.idx = Ahead /\ used.idx = Ahead
      /\ device.last_avail = Ahead /\ used.ring[x % num] = 0 /\ Answered
  BY <1>1 DEF VirtioInv, WhenHanded
<1>3. /\ l \in Lists /\ Loaded(l) /\ vq.free_head = desc[n - 1].next /\ InOrder(desc)
      /\ Ahead = req.n % IdxWord /\ Ahead \in Index /\ n \in 1 .. num
      /\ num \in Nat \ {0}
  BY <1>1, <1>2, AheadDiffers, ListFacts, VirtioAssumption DEF WhenBusy, VirtioTypeOK
<1>4. ChainLength(desc, 0) = n /\ Chain(desc, 0) = [k \in 1 .. n |-> k - 1]
  BY <1>2, <1>3, ChainIsList
<1> HIDE DEF n
<1>5. Chain(desc, 0)[ChainLength(desc, 0)] = n - 1 /\ n - 1 \in Slot
  BY <1>3, <1>4 DEF Slot
<1>6. /\ desc' = [desc EXCEPT ![n - 1].next = desc[n - 1].next]
      /\ vq' = [free_head |-> 0, last_used_idx |-> Ahead]
  BY <1>1, <1>2, <1>3, <1>5 DEF vring_detach, Ahead
<1>7. desc' = desc
  <2>1. desc[n - 1] \in Descriptor /\ desc \in [Slot -> Descriptor]
    BY <1>3, <1>5 DEF InOrder
  <2>2. [desc[n - 1] EXCEPT !.next = desc[n - 1].next] = desc[n - 1]
    BY <2>1 DEF Descriptor
  <2>3. desc' = [desc EXCEPT ![n - 1] = [desc[n - 1] EXCEPT !.next = desc[n - 1].next]]
    BY <1>5, <1>6, <2>1
  <2> QED
    BY <1>5, <2>1, <2>2, <2>3
<1>8. /\ req'.pc = "idle" /\ req'.list = l /\ req'.n = req.n /\ req'.status = req.status
      /\ req' \in [pc : {"idle", "kick", "wait"}, list : Lists \cup {NoList},
                   status : {"none", "unsupp", "ok", "ioerr"}, n : Nat]
  BY <1>1, <1>2 DEF VirtioTypeOK
<1>9. VirtioTypeOK'
  <2>1. 0 \in Slot
    BY <1>3 DEF Slot
  <2> QED
    BY <1>1, <1>2, <1>3, <1>6, <1>7, <1>8, <2>1 DEF VirtioTypeOK
<1>10. Answered'
  BY <1>1, <1>2, <1>8 DEF Answered
<1>11. WhenIdle' /\ WhenBusy' /\ WhenHanded'
  BY <1>1, <1>2, <1>3, <1>6, <1>8, <1>10 DEF WhenIdle, WhenBusy, WhenHanded
<1> QED
  BY <1>9, <1>11 DEF VirtioInv

\* Every step of the driver and of the device keeps these.
LEMMA VirtioStep == VirtioInv /\ [VirtioNext]_virtioVars => VirtioInv'
<1> SUFFICES ASSUME VirtioInv, [VirtioNext]_virtioVars PROVE VirtioInv'
  OBVIOUS
<1>1. CASE VirtioNext
  BY <1>1, SubmitKeeps, KickKeeps, ServesKeeps, ReclaimKeeps DEF VirtioNext
<1>2. CASE UNCHANGED virtioVars
  BY <1>2
  DEF virtioVars, VirtioInv, VirtioTypeOK, WhenIdle, WhenBusy, WhenHanded, Ahead, Answered,
      Loaded
<1> QED
  BY <1>1, <1>2

\* So the free list is whole, and the driver takes the answer to the request it made.
LEMMA VirtioHolds == VirtioInv => RequestHandedOver
<1> SUFFICES ASSUME VirtioInv PROVE RequestHandedOver
  OBVIOUS
<1>1. FreeListWhole
  <2> DEFINE list == Taken(desc, vq.free_head, num)
  <2>1. SUFFICES ASSUME req.pc = "idle" PROVE {list[k] : k \in 1 .. num} = Slot
    BY DEF FreeListWhole
  <2>2. num \in Nat \ {0} /\ list = [k \in 1 .. num |-> k - 1]
    BY <2>1, TakenFirst, VirtioAssumption DEF VirtioInv, VirtioTypeOK, WhenIdle
  <2> HIDE DEF list
  <2>3. \A k \in 1 .. num : list[k] \in Slot
    BY <2>2 DEF Slot
  <2>4. \A i \in Slot : i + 1 \in 1 .. num /\ list[i + 1] = i
    BY <2>2 DEF Slot
  <2> QED
    BY <2>3, <2>4
<1> QED
  BY <1>1 DEF VirtioInv, WhenIdle, Answered, RequestHandedOver

\* vring_add_buf, vring_kick and vring_get_buf: on a ring of any length, for requests of any shape,
\* and however often the 16 bit indices wrap, the device is handed the list the driver made and
\* the driver takes the answer to it, with no descriptor lost from the free list.
THEOREM QueueCorrect == VirtioSpec => []RequestHandedOver
<1>1. VirtioInit => VirtioInv
  BY VirtioStarts
<1>2. VirtioInv /\ [VirtioNext]_virtioVars => VirtioInv'
  BY VirtioStep
<1>3. VirtioInv => RequestHandedOver
  BY VirtioHolds
<1> QED
  BY <1>1, <1>2, <1>3, PTL DEF VirtioSpec

----------------------------------------------------------------------------
(* The floppy driver.                                                         *)

BdaType ==
  [irq : BOOLEAN, recal : SUBSET FloppyDrives, media : SUBSET FloppyDrives,
   track : [FloppyDrives -> Cylinders], motor_counter : Nat]
DorType == [motor : SUBSET FloppyDrives, irq : BOOLEAN, reset : BOOLEAN]
FdcType ==
  [phase : {"reset", "resetting", "idle", "seeking", "exec", "result"}, irq : BOOLEAN,
   senses : Nat, bytes : Nat, ok : BOOLEAN, to : Cylinders]
DriveType == [head : [FloppyDrives -> Cylinders], astray : SUBSET FloppyDrives, specified : BOOLEAN]
OpType ==
  [pc : {"idle", "start", "settle", "enabling", "sending", "waiting", "receiving"},
   command : FloppyCommands \cup {"reset"}, drive : FloppyDrives, cylinder : Cylinders,
   step : {"reset", "recal", "sense", "specify", "seek", "transfer"},
   cmd : {"RECALIBRATE", "READID", "SPECIFY", "SEEK", "DMA", "CHECKIRQ"},
   checks : 0 .. 4, tries : Nat, time : Nat, unspecified : BOOLEAN, n : Nat]

FloppyTypeOK ==
  /\ bda \in BdaType /\ FloppyDOR \in DorType /\ fdc \in FdcType
  /\ drive \in DriveType /\ op \in OpType

Moves(cmd) == cmd \in {"SEEK", "RECALIBRATE"}

\* The controller is where the driver takes it to be.
PhaseFits ==
  /\ op.pc \in {"idle", "start", "sending"} => fdc.phase \in {"idle", "reset"}
  /\ op.pc = "settle" => fdc.phase = "reset"
  /\ op.pc = "enabling" => fdc.phase \in {"resetting", "idle"}
  /\ op.pc = "receiving" => fdc.phase \in {"idle", "result"}
  /\ op.pc = "waiting" =>
       IF Moves(op.cmd) THEN fdc.phase \in {"seeking", "idle", "result"}
       ELSE fdc.phase \in {"exec", "result"}
  /\ ~FloppyDOR.reset <=> fdc.phase = "reset"

\* An interrupt that is on its way, or was noted, is that of the command in progress.
IrqFits ==
  /\ op.pc \notin {"enabling", "waiting"} => ~fdc.irq
  /\ ~(fdc.irq /\ bda.irq) \/ op.pc \notin {"enabling", "waiting"}
  /\ op.pc = "enabling" /\ (fdc.irq \/ bda.irq) => fdc.phase = "idle"
  /\ op.pc = "waiting" /\ (fdc.irq \/ bda.irq) =>
       fdc.phase = IF Moves(op.cmd) THEN "idle" ELSE "result"

\* Which commands a step sends.
CommandFits ==
  /\ op.pc = "waiting" => WaitsIrq(op.cmd)
  /\ op.pc \in {"sending", "waiting", "receiving"} =>
       op.cmd \in {CommandOf(op.step), "CHECKIRQ"}
  /\ op.checks > 0 => op.pc \in {"sending", "receiving"} /\ op.cmd = "CHECKIRQ"
  /\ op.pc \in {"sending", "receiving"} /\ op.cmd = "CHECKIRQ" /\ op.checks = 0 =>
       op.step \in {"recal", "seek"}
  /\ op.step = "reset" =>
       \/ op.pc \in {"idle", "settle", "enabling"} \/ op.checks > 0
       \/ op.pc = "start" /\ ~FloppyDOR.reset

On == [motor |-> {op.drive}, irq |-> TRUE, reset |-> TRUE]

\* The motor stays on until the command is over.
MotorLasts ==
  /\ op.pc = "sending" /\ WaitsIrq(op.cmd) =>
       /\ FloppyDOR = On
       /\ op.time <= PIO_TIMEOUT /\ MOTOR_MAX <= bda.motor_counter + op.time
  /\ op.pc = "waiting" =>
       /\ FloppyDOR = On
       /\ op.time <= IRQ_TIMEOUT
       /\ MOTOR_MAX <= bda.motor_counter + PIO_TIMEOUT + op.time

\* The head of the drive in use is on track t, or astray.
HeadAt(t) == drive.head[op.drive] = t \/ op.drive \in drive.astray

Target == IF op.step = "seek" THEN op.cylinder ELSE 0

\* The step that moves the head has had the controller move it.
HasMoved ==
  /\ op.step \in {"recal", "seek"}
  /\ \/ op.pc = "waiting" /\ fdc.phase = "idle"
     \/ op.pc = "receiving" /\ Moves(op.cmd)
     \/ op.pc \in {"sending", "receiving"} /\ op.cmd = "CHECKIRQ" /\ op.checks = 0

\* The driver knows where the heads are, but for one it is moving.
HeadsKnown ==
  /\ \A d \in bda.recal :
       \/ d \in drive.astray \/ drive.head[d] = bda.track[d]
       \/ op.pc # "idle" /\ op.step \in {"recal", "seek"} /\ d = op.drive
  /\ op.pc # "idle" /\ op.step \in {"sense", "specify"} => op.drive \in bda.recal
  /\ op.pc # "idle" /\ op.step = "transfer" => HeadAt(op.cylinder)
  /\ fdc.phase = "seeking" => fdc.to = Target
  /\ HasMoved => HeadAt(Target)

\* And whether the controller is programmed.
Programmed ==
  LET known == drive.specified \/ op.unspecified
  IN  /\ bda.media # {} => known \/ (op.pc # "idle" /\ op.step = "specify")
      /\ op.pc # "idle" /\ op.step \in {"seek", "transfer"} => known
      /\ op.pc = "receiving" /\ op.cmd = "SPECIFY" /\ fdc.phase # "result" =>
           drive.specified

\* The inductive invariant: the driver and the controller agree on where they are, an
\* interrupt is that of the command in progress, the motor lasts, and the heads are
\* where the driver takes them to be.
FloppyInv ==
  FloppyTypeOK /\ PhaseFits /\ IrqFits /\ CommandFits /\ MotorLasts /\ HeadsKnown /\ Programmed
\* What a step leaves of the driver's memory and of the request.
KeepsHeads(b) == b.recal = bda.recal /\ b.media = bda.media /\ b.track = bda.track
KeepsRequest(o) ==
  /\ o.command = op.command /\ o.drive = op.drive /\ o.cylinder = op.cylinder
  /\ o.step = op.step /\ o.unspecified = op.unspecified

LEMMA Numbers == {0, 1, 2, 4, 7} \subseteq Nat /\ 0 \in 0 .. 4 /\ 4 \in 0 .. 4
OBVIOUS

\* Between requests the driver is in a legal state.
LEMMA IdleType == Idle \in OpType
<1>1. PICK d \in FloppyDrives : TRUE  BY FloppyAssumption
<1>2. (CHOOSE x \in FloppyDrives : TRUE) \in FloppyDrives  BY <1>1
<1>3. 0 \in Cylinders  BY FloppyAssumption
<1> QED BY <1>2, <1>3 DEF Idle, OpType

\* A request that returns keeps only its history.
LEMMA ReturnType ==
  ASSUME NEW o \in OpType
  PROVE  /\ Return(o) \in OpType
         /\ Return(o).pc = "idle" /\ Return(o).checks = 0 /\ Return(o).step = "reset"
         /\ Return(o).unspecified = o.unspecified
<1>1. Return(o) = [Idle EXCEPT !.unspecified = o.unspecified, !.n = o.n]  BY DEF Return
<1>2. Idle.pc = "idle" /\ Idle.checks = 0 /\ Idle.step = "reset"  BY DEF Idle
<1> QED BY <1>1, <1>2, IdleType, ZenonT(40) DEF OpType

\* What starts a step of floppy_prep() or a transfer.
LEMMA StartStepType ==
  ASSUME op \in OpType, NEW s \in {"reset", "recal", "sense", "specify", "seek", "transfer"}
  PROVE  /\ StartStep(s) \in OpType
         /\ StartStep(s).pc = "start" /\ StartStep(s).step = s
         /\ StartStep(s).checks = op.checks /\ StartStep(s).drive = op.drive
         /\ StartStep(s).cylinder = op.cylinder
         /\ StartStep(s).unspecified = op.unspecified
<1>1. MediaTypes \in Nat  BY FloppyAssumption
<1> QED BY <1>1 DEF StartStep, OpType

\* A controller in reset has nothing to tell.
LEMMA InResetType ==
  /\ InReset \in FdcType /\ InReset.phase = "reset" /\ ~InReset.irq
BY FloppyAssumption DEF InReset, At, FdcType


\* Where a head that has moved is, and that the other head stays.
LEMMA MovedFits ==
  ASSUME FloppyTypeOK, NEW cyl \in Cylinders, NEW arrived \in BOOLEAN
  PROVE  LET m == Moved(cyl, arrived)
         IN  /\ m \in DriveType /\ m.specified = drive.specified
             /\ m.head[op.drive] = cyl
             /\ IF arrived THEN m.astray = drive.astray \ {op.drive}
                ELSE m.astray = drive.astray \cup {op.drive}
             /\ \A d \in FloppyDrives \ {op.drive} : m.head[d] = drive.head[d]
<1>1. drive \in DriveType /\ op.drive \in FloppyDrives  BY DEF FloppyTypeOK, OpType
<1>2. CASE arrived
  <2>1. Moved(cyl, arrived)
          = [drive EXCEPT !.head[op.drive] = cyl, !.astray = @ \ {op.drive}]
    BY <1>2, Zenon DEF Moved
  <2> QED BY <1>1, <1>2, <2>1, ZenonT(40) DEF DriveType
<1>3. CASE ~arrived
  <2>1. Moved(cyl, arrived)
          = [drive EXCEPT !.head[op.drive] = cyl, !.astray = @ \cup {op.drive}]
    BY <1>3, Zenon DEF Moved
  <2> QED BY <1>1, <1>3, <2>1, ZenonT(40) DEF DriveType
<1> QED BY <1>2, <1>3

\* handle_0e() notes the interrupt of the command in progress.
LEMMA Interrupt ==
  ASSUME FloppyInv, handle_0e
  PROVE  FloppyInv'
<1> USE DEF FloppyInv, FloppyTypeOK
<1>1. op.pc # "start" /\ fdc.irq /\ FloppyDOR.irq  BY DEF AtYield, handle_0e
<1>2. fdc' \in FdcType /\ fdc'.irq = FALSE /\ fdc'.phase = fdc.phase /\ fdc'.to = fdc.to
  <2>1. fdc \in FdcType /\ fdc' = [fdc EXCEPT !.irq = FALSE]
    BY DEF handle_0e
  <2> QED BY Numbers, <2>1, Zenon DEF FdcType
<1>3. bda' \in BdaType /\ bda'.irq = TRUE /\ KeepsHeads(bda')
      /\ bda'.motor_counter = bda.motor_counter
  <2>1. bda \in BdaType /\ bda' = [bda EXCEPT !.irq = TRUE]
    BY DEF handle_0e
  <2> QED BY <2>1, Zenon DEF BdaType, KeepsHeads
<1>4. FloppyDOR' = FloppyDOR /\ drive' = drive /\ op' = op  BY DEF handle_0e
<1>5. PhaseFits'
  BY <1>1, <1>2, <1>3, <1>4, SMTT(30) DEF PhaseFits, CommandFits, IrqFits, Moves,
     KeepsRequest, WaitsIrq, CommandOf, BdaType, DorType, FdcType, DriveType, OpType
<1>6. IrqFits'
  BY <1>1, <1>2, <1>3, <1>4, SMTT(30) DEF IrqFits, PhaseFits, Moves, KeepsRequest,
     BdaType, DorType, FdcType, DriveType, OpType
<1>7. CommandFits'
  BY <1>1, <1>2, <1>3, <1>4, SMTT(30) DEF CommandFits, WaitsIrq, CommandOf,
     KeepsRequest, BdaType, DorType, FdcType, DriveType, OpType
<1>8. MotorLasts'
  BY <1>1, <1>2, <1>3, <1>4, SMTT(30) DEF MotorLasts, CommandFits, WaitsIrq,
     CommandOf, On, KeepsRequest, BdaType, DorType, FdcType, DriveType, OpType
<1>9. HeadsKnown'
  BY <1>1, <1>2, <1>3, <1>4, SMTT(30) DEF HeadsKnown, PhaseFits, IrqFits, CommandFits,
     HasMoved, Target, HeadAt, Moves, CommandOf, WaitsIrq, KeepsHeads, KeepsRequest,
     BdaType, DorType, FdcType, DriveType, OpType
<1>10. Programmed'
  BY <1>1, <1>2, <1>3, <1>4, SMTT(30) DEF Programmed, PhaseFits, CommandFits,
     HeadsKnown, KeepsHeads, KeepsRequest, WaitsIrq, CommandOf, Moves, HeadAt, Target,
     HasMoved, BdaType, DorType, FdcType, DriveType, OpType
<1> QED BY <1>1, <1>2, <1>3, <1>4, <1>5, <1>6, <1>7, <1>8, <1>9, <1>10

\* floppy_enable_controller() takes the controller out of reset.
LEMMA Leaves ==
  ASSUME FloppyInv, LeaveReset
  PROVE  FloppyInv'
<1> USE DEF FloppyInv, FloppyTypeOK
<1>1. op.pc = "settle"  BY DEF LeaveReset
<1>2. fdc' \in FdcType /\ fdc'.irq = fdc.irq /\ fdc'.phase = "resetting"
      /\ fdc'.to = fdc.to
  <2>1. fdc \in FdcType /\ fdc' = [fdc EXCEPT !.phase = "resetting"]
    BY DEF LeaveReset
  <2> QED BY Numbers, <2>1, Zenon DEF FdcType
<1>3. bda' \in BdaType /\ bda'.irq = FALSE /\ KeepsHeads(bda')
      /\ bda'.motor_counter = bda.motor_counter
  <2>1. bda \in BdaType /\ bda' = [bda EXCEPT !.irq = FALSE]
    BY DEF LeaveReset
  <2> QED BY <2>1, Zenon DEF BdaType, KeepsHeads
<1>4. FloppyDOR' \in DorType /\ FloppyDOR'.reset = TRUE
  <2>1. /\ FloppyDOR \in DorType
        /\ FloppyDOR' = [FloppyDOR EXCEPT !.irq = TRUE, !.reset = TRUE]
    BY DEF LeaveReset
  <2> QED BY <2>1, Zenon DEF DorType
<1>5. op' \in OpType /\ KeepsRequest(op') /\ op'.pc = "enabling" /\ op'.cmd = op.cmd
      /\ op'.checks = op.checks
  <2>1. op \in OpType /\ op' = [op EXCEPT !.pc = "enabling", !.time = 0]
    BY DEF LeaveReset
  <2> QED BY Numbers, <2>1, Zenon DEF OpType, KeepsRequest
<1>6. drive' = drive  BY DEF LeaveReset
<1>7. PhaseFits'
  BY <1>1, <1>2, <1>3, <1>4, <1>5, <1>6, SMTT(30) DEF PhaseFits, CommandFits, IrqFits,
     Moves, KeepsRequest, WaitsIrq, CommandOf, BdaType, DorType, FdcType, DriveType,
     OpType
<1>8. IrqFits'
  BY <1>1, <1>2, <1>3, <1>4, <1>5, <1>6, SMTT(30) DEF IrqFits, PhaseFits, Moves,
     KeepsRequest, BdaType, DorType, FdcType, DriveType, OpType
<1>9. CommandFits'
  BY <1>1, <1>2, <1>3, <1>4, <1>5, <1>6, SMTT(30) DEF CommandFits, WaitsIrq,
     CommandOf, KeepsRequest, BdaType, DorType, FdcType, DriveType, OpType
<1>10. MotorLasts'
  BY <1>1, <1>2, <1>3, <1>4, <1>5, <1>6, SMTT(30) DEF MotorLasts, CommandFits,
     WaitsIrq, CommandOf, On, KeepsRequest, BdaType, DorType, FdcType, DriveType,
     OpType
<1>11. HeadsKnown'
  BY <1>1, <1>2, <1>3, <1>4, <1>5, <1>6, SMTT(30) DEF HeadsKnown, PhaseFits, IrqFits,
     CommandFits, HasMoved, Target, HeadAt, Moves, CommandOf, WaitsIrq, KeepsHeads,
     KeepsRequest, BdaType, DorType, FdcType, DriveType, OpType
<1>12. Programmed'
  BY <1>1, <1>2, <1>3, <1>4, <1>5, <1>6, SMTT(30) DEF Programmed, PhaseFits,
     CommandFits, HeadsKnown, KeepsHeads, KeepsRequest, WaitsIrq, CommandOf, Moves,
     HeadAt, Target, HasMoved, BdaType, DorType, FdcType, DriveType, OpType
<1> QED BY <1>1, <1>2, <1>3, <1>4, <1>5, <1>6, <1>7, <1>8, <1>9, <1>10, <1>11, <1>12

\* floppy_enable_controller() begins.
LEMMA Settles ==
  ASSUME FloppyInv, floppy_drive_pio, op.step # "specify", ~FloppyDOR.reset
  PROVE  FloppyInv'
<1> USE DEF FloppyInv, FloppyTypeOK
<1>1. op.pc = "start" /\ op.step # "specify" /\ ~FloppyDOR.reset
  BY DEF floppy_drive_pio
<1>2. FloppyDOR' \in DorType /\ FloppyDOR'.reset = FloppyDOR.reset
  <2>1. FloppyDOR \in DorType /\ FloppyDOR' = [FloppyDOR EXCEPT !.irq = TRUE]
    BY DEF floppy_drive_pio
  <2> QED BY <2>1, Zenon DEF DorType
<1>3. op' \in OpType /\ KeepsRequest(op') /\ op'.pc = "settle" /\ op'.cmd = op.cmd
      /\ op'.checks = op.checks
  <2>1. op \in OpType /\ op' = [op EXCEPT !.pc = "settle", !.time = 0]
    BY DEF floppy_drive_pio
  <2> QED BY Numbers, <2>1, Zenon DEF OpType, KeepsRequest
<1>4. bda' = bda /\ fdc' = fdc /\ drive' = drive  BY DEF floppy_drive_pio
<1>5. PhaseFits'
  BY <1>1, <1>2, <1>3, <1>4, SMTT(30) DEF PhaseFits, CommandFits, IrqFits, Moves,
     KeepsRequest, WaitsIrq, CommandOf, BdaType, DorType, FdcType, DriveType, OpType
<1>6. IrqFits'
  BY <1>1, <1>2, <1>3, <1>4, SMTT(30) DEF IrqFits, PhaseFits, Moves, KeepsRequest,
     BdaType, DorType, FdcType, DriveType, OpType
<1>7. CommandFits'
  BY <1>1, <1>2, <1>3, <1>4, SMTT(30) DEF CommandFits, WaitsIrq, CommandOf,
     KeepsRequest, BdaType, DorType, FdcType, DriveType, OpType
<1>8. MotorLasts'
  BY <1>1, <1>2, <1>3, <1>4, SMTT(30) DEF MotorLasts, CommandFits, WaitsIrq,
     CommandOf, On, KeepsRequest, BdaType, DorType, FdcType, DriveType, OpType
<1>9. HeadsKnown'
  BY <1>1, <1>2, <1>3, <1>4, SMTT(30) DEF HeadsKnown, PhaseFits, IrqFits, CommandFits,
     HasMoved, Target, HeadAt, Moves, CommandOf, WaitsIrq, KeepsHeads, KeepsRequest,
     BdaType, DorType, FdcType, DriveType, OpType
<1>10. Programmed'
  BY <1>1, <1>2, <1>3, <1>4, SMTT(30) DEF Programmed, PhaseFits, CommandFits,
     HeadsKnown, KeepsHeads, KeepsRequest, WaitsIrq, CommandOf, Moves, HeadAt, Target,
     HasMoved, BdaType, DorType, FdcType, DriveType, OpType
<1> QED BY <1>1, <1>2, <1>3, <1>4, <1>5, <1>6, <1>7, <1>8, <1>9, <1>10

\* floppy_drive_specify() goes to floppy_pio() at once.
LEMMA SendsSpecify ==
  ASSUME FloppyInv, floppy_drive_pio, op.step = "specify"
  PROVE  FloppyInv'
<1> USE DEF FloppyInv, FloppyTypeOK
<1>1. op.pc = "start" /\ op.step = "specify"  BY DEF floppy_drive_pio
<1>2. CommandOf(op.step) \in {"RECALIBRATE", "READID", "SPECIFY", "SEEK", "DMA"}
  BY DEF CommandOf
<1>3. op' \in OpType /\ KeepsRequest(op') /\ op'.pc = "sending"
      /\ op'.cmd = CommandOf(op.step) /\ op'.checks = op.checks /\ op'.time = 0
  <2>1. /\ op \in OpType
        /\ op' = [op EXCEPT !.pc = "sending", !.cmd = CommandOf(op.step), !.time = 0]
    BY DEF floppy_drive_pio
  <2> QED BY Numbers, <1>2, <2>1, Zenon DEF OpType, KeepsRequest
<1>4. bda' = bda /\ FloppyDOR' = FloppyDOR /\ fdc' = fdc /\ drive' = drive
  BY DEF floppy_drive_pio
<1>5. PhaseFits'
  BY <1>1, <1>2, <1>3, <1>4, SMTT(30) DEF PhaseFits, CommandFits, IrqFits, Moves,
     KeepsRequest, WaitsIrq, CommandOf, BdaType, DorType, FdcType, DriveType, OpType
<1>6. IrqFits'
  BY <1>1, <1>2, <1>3, <1>4, SMTT(30) DEF IrqFits, PhaseFits, Moves, KeepsRequest,
     BdaType, DorType, FdcType, DriveType, OpType
<1>7. CommandFits'
  BY <1>1, <1>2, <1>3, <1>4, SMTT(30) DEF CommandFits, WaitsIrq, CommandOf,
     KeepsRequest, BdaType, DorType, FdcType, DriveType, OpType
<1>8. MotorLasts'
  BY <1>1, <1>2, <1>3, <1>4, SMTT(30) DEF MotorLasts, CommandFits, WaitsIrq,
     CommandOf, On, KeepsRequest, BdaType, DorType, FdcType, DriveType, OpType
<1>9. HeadsKnown'
  BY <1>1, <1>2, <1>3, <1>4, SMTT(30) DEF HeadsKnown, PhaseFits, IrqFits, CommandFits,
     HasMoved, Target, HeadAt, Moves, CommandOf, WaitsIrq, KeepsHeads, KeepsRequest,
     BdaType, DorType, FdcType, DriveType, OpType
<1>10. Programmed'
  BY <1>1, <1>2, <1>3, <1>4, SMTT(30) DEF Programmed, PhaseFits, CommandFits,
     HeadsKnown, KeepsHeads, KeepsRequest, WaitsIrq, CommandOf, Moves, HeadAt, Target,
     HasMoved, BdaType, DorType, FdcType, DriveType, OpType
<1> QED BY <1>1, <1>2, <1>3, <1>4, <1>5, <1>6, <1>7, <1>8, <1>9, <1>10

\* floppy_drive_pio() turns the motor on for as long as a command can take.
LEMMA SendsOther ==
  ASSUME FloppyInv, floppy_drive_pio, op.step # "specify", FloppyDOR.reset
  PROVE  FloppyInv'
<1> USE DEF FloppyInv, FloppyTypeOK
<1>1. op.pc = "start" /\ op.step # "specify" /\ FloppyDOR.reset  BY DEF floppy_drive_pio
<1>2. CommandOf(op.step) \in {"RECALIBRATE", "READID", "SPECIFY", "SEEK", "DMA"}
  BY DEF CommandOf
<1>3. op' \in OpType /\ KeepsRequest(op') /\ op'.pc = "sending"
      /\ op'.cmd = CommandOf(op.step) /\ op'.checks = op.checks /\ op'.time = 0
  <2>1. /\ op \in OpType
        /\ op' = [op EXCEPT !.pc = "sending", !.cmd = CommandOf(op.step), !.time = 0]
    BY DEF floppy_drive_pio
  <2> QED BY Numbers, <1>2, <2>1, Zenon DEF OpType, KeepsRequest
<1>4. MOTOR_MAX \in Nat /\ PIO_TIMEOUT \in Nat  BY FloppyAssumption
<1>5. bda' \in BdaType /\ KeepsHeads(bda') /\ bda'.irq = bda.irq
      /\ bda'.motor_counter = MOTOR_MAX
  <2>1. bda \in BdaType /\ bda' = [bda EXCEPT !.motor_counter = MOTOR_MAX]
    BY DEF floppy_drive_pio, MotorKept
  <2> QED BY <1>4, <2>1, Zenon DEF BdaType, KeepsHeads
<1>6. FloppyDOR' \in DorType /\ FloppyDOR' = On' /\ FloppyDOR'.reset = TRUE
  <2>1. FloppyDOR' = [motor |-> {op.drive}, irq |-> TRUE, reset |-> TRUE] /\ op.drive \in FloppyDrives
    BY DEF floppy_drive_pio, OpType
  <2> QED BY <1>3, <2>1, Zenon DEF On, DorType, KeepsRequest
<1>7. fdc' = fdc /\ drive' = drive  BY DEF floppy_drive_pio
<1>8. PhaseFits'
  BY <1>1, <1>2, <1>3, <1>4, <1>5, <1>6, <1>7, SMTT(30) DEF PhaseFits, CommandFits,
     IrqFits, Moves, KeepsRequest, WaitsIrq, CommandOf, BdaType, DorType, FdcType,
     DriveType, OpType
<1>9. IrqFits'
  BY <1>1, <1>2, <1>3, <1>4, <1>5, <1>6, <1>7, SMTT(30) DEF IrqFits, PhaseFits, Moves,
     KeepsRequest, BdaType, DorType, FdcType, DriveType, OpType
<1>10. CommandFits'
  BY <1>1, <1>2, <1>3, <1>4, <1>5, <1>6, <1>7, SMTT(30) DEF CommandFits, WaitsIrq,
     CommandOf, KeepsRequest, BdaType, DorType, FdcType, DriveType, OpType
<1>11. MotorLasts'
  BY <1>1, <1>2, <1>3, <1>4, <1>5, <1>6, <1>7, SMTT(30) DEF MotorLasts, CommandFits,
     WaitsIrq, CommandOf, On, KeepsRequest, BdaType, DorType, FdcType, DriveType,
     OpType
<1>12. HeadsKnown'
  BY <1>1, <1>2, <1>3, <1>4, <1>5, <1>6, <1>7, SMTT(30) DEF HeadsKnown, PhaseFits,
     IrqFits, CommandFits, HasMoved, Target, HeadAt, Moves, CommandOf, WaitsIrq,
     KeepsHeads, KeepsRequest, BdaType, DorType, FdcType, DriveType, OpType
<1>13. Programmed'
  BY <1>1, <1>2, <1>3, <1>4, <1>5, <1>6, <1>7, SMTT(30) DEF Programmed, PhaseFits,
     CommandFits, HeadsKnown, KeepsHeads, KeepsRequest, WaitsIrq, CommandOf, Moves,
     HeadAt, Target, HasMoved, BdaType, DorType, FdcType, DriveType, OpType
<1> QED BY <1>1, <1>2, <1>3, <1>4, <1>5, <1>6, <1>7, <1>8, <1>9, <1>10, <1>11, <1>12,
       <1>13

\* floppy_wait_irq() sees the interrupt of the reset.
LEMMA SeesEnabled ==
  ASSUME FloppyInv, IrqSeen, op.pc = "enabling"
  PROVE  FloppyInv'
<1> USE DEF FloppyInv, FloppyTypeOK
<1>1. op.pc = "enabling" /\ bda.irq  BY DEF IrqSeen
<1>2. bda' \in BdaType /\ KeepsHeads(bda') /\ bda'.irq = FALSE
      /\ bda'.motor_counter = bda.motor_counter
  <2>1. bda \in BdaType /\ bda' = [bda EXCEPT !.irq = FALSE]
    BY DEF IrqSeen
  <2> QED BY <2>1, Zenon DEF BdaType, KeepsHeads
<1>3. op' \in OpType /\ KeepsRequest(op') /\ op'.pc = "sending" /\ op'.cmd = "CHECKIRQ"
      /\ op'.checks = 4
  <2>1. /\ op \in OpType
        /\ op' = [op EXCEPT !.pc = "sending", !.cmd = "CHECKIRQ", !.checks = 4, !.time = 0]
    BY DEF IrqSeen
  <2> QED BY Numbers, <2>1, Zenon DEF OpType, KeepsRequest
<1>4. FloppyDOR' = FloppyDOR /\ fdc' = fdc /\ drive' = drive  BY DEF IrqSeen
<1>5. PhaseFits'
  BY <1>1, <1>2, <1>3, <1>4, SMTT(30) DEF PhaseFits, CommandFits, IrqFits, Moves,
     KeepsRequest, WaitsIrq, CommandOf, BdaType, DorType, FdcType, DriveType, OpType
<1>6. IrqFits'
  BY <1>1, <1>2, <1>3, <1>4, SMTT(30) DEF IrqFits, PhaseFits, Moves, KeepsRequest,
     BdaType, DorType, FdcType, DriveType, OpType
<1>7. CommandFits'
  BY <1>1, <1>2, <1>3, <1>4, SMTT(30) DEF CommandFits, WaitsIrq, CommandOf,
     KeepsRequest, BdaType, DorType, FdcType, DriveType, OpType
<1>8. MotorLasts'
  BY <1>1, <1>2, <1>3, <1>4, SMTT(30) DEF MotorLasts, CommandFits, WaitsIrq,
     CommandOf, On, KeepsRequest, BdaType, DorType, FdcType, DriveType, OpType
<1>9. HeadsKnown'
  BY <1>1, <1>2, <1>3, <1>4, SMTT(30) DEF HeadsKnown, PhaseFits, IrqFits, CommandFits,
     HasMoved, Target, HeadAt, Moves, CommandOf, WaitsIrq, KeepsHeads, KeepsRequest,
     BdaType, DorType, FdcType, DriveType, OpType
<1>10. Programmed'
  BY <1>1, <1>2, <1>3, <1>4, SMTT(30) DEF Programmed, PhaseFits, CommandFits,
     HeadsKnown, KeepsHeads, KeepsRequest, WaitsIrq, CommandOf, Moves, HeadAt, Target,
     HasMoved, BdaType, DorType, FdcType, DriveType, OpType
<1> QED BY <1>1, <1>2, <1>3, <1>4, <1>5, <1>6, <1>7, <1>8, <1>9, <1>10

\* floppy_wait_irq() sees the interrupt of a command.
LEMMA SeesDone ==
  ASSUME FloppyInv, IrqSeen, op.pc = "waiting"
  PROVE  FloppyInv'
<1> USE DEF FloppyInv, FloppyTypeOK
<1>1. op.pc = "waiting" /\ bda.irq  BY DEF IrqSeen
<1>2. bda' \in BdaType /\ KeepsHeads(bda') /\ bda'.irq = FALSE
      /\ bda'.motor_counter = bda.motor_counter
  <2>1. bda \in BdaType /\ bda' = [bda EXCEPT !.irq = FALSE]
    BY DEF IrqSeen
  <2> QED BY <2>1, Zenon DEF BdaType, KeepsHeads
<1>3. op' \in OpType /\ KeepsRequest(op') /\ op'.pc = "receiving" /\ op'.cmd = op.cmd
      /\ op'.checks = op.checks
  <2>1. op \in OpType /\ op' = [op EXCEPT !.pc = "receiving", !.time = 0]
    BY DEF IrqSeen
  <2> QED BY Numbers, <2>1, Zenon DEF OpType, KeepsRequest
<1>4. FloppyDOR' = FloppyDOR /\ fdc' = fdc /\ drive' = drive  BY DEF IrqSeen
<1>5. PhaseFits'
  BY <1>1, <1>2, <1>3, <1>4, SMTT(30) DEF PhaseFits, CommandFits, IrqFits, Moves,
     KeepsRequest, WaitsIrq, CommandOf, BdaType, DorType, FdcType, DriveType, OpType
<1>6. IrqFits'
  BY <1>1, <1>2, <1>3, <1>4, SMTT(30) DEF IrqFits, PhaseFits, Moves, KeepsRequest,
     BdaType, DorType, FdcType, DriveType, OpType
<1>7. CommandFits'
  BY <1>1, <1>2, <1>3, <1>4, SMTT(30) DEF CommandFits, WaitsIrq, CommandOf,
     KeepsRequest, BdaType, DorType, FdcType, DriveType, OpType
<1>8. MotorLasts'
  BY <1>1, <1>2, <1>3, <1>4, SMTT(30) DEF MotorLasts, CommandFits, WaitsIrq,
     CommandOf, On, KeepsRequest, BdaType, DorType, FdcType, DriveType, OpType
<1>9. HeadsKnown'
  BY <1>1, <1>2, <1>3, <1>4, SMTT(30) DEF HeadsKnown, PhaseFits, IrqFits, CommandFits,
     HasMoved, Target, HeadAt, Moves, CommandOf, WaitsIrq, KeepsHeads, KeepsRequest,
     BdaType, DorType, FdcType, DriveType, OpType
<1>10. Programmed'
  BY <1>1, <1>2, <1>3, <1>4, SMTT(30) DEF Programmed, PhaseFits, CommandFits,
     HeadsKnown, KeepsHeads, KeepsRequest, WaitsIrq, CommandOf, Moves, HeadAt, Target,
     HasMoved, BdaType, DorType, FdcType, DriveType, OpType
<1> QED BY <1>1, <1>2, <1>3, <1>4, <1>5, <1>6, <1>7, <1>8, <1>9, <1>10

\* floppy_tick() turns no motor off that a command needs.
LEMMA Tick ==
  ASSUME FloppyInv, floppy_tick
  PROVE  FloppyInv'
<1> USE DEF FloppyInv, FloppyTypeOK
<1>1. {MOTOR_MAX, PIO_TIMEOUT, IRQ_TIMEOUT} \subseteq Nat /\ PIO_TIMEOUT + IRQ_TIMEOUT < MOTOR_MAX
  BY FloppyAssumption
<1>2. bda' \in BdaType /\ KeepsHeads(bda') /\ bda'.irq = bda.irq
   /\ bda'.motor_counter = IF bda.motor_counter > 0 THEN bda.motor_counter - 1 ELSE 0
  <2> DEFINE left == IF bda.motor_counter > 0 THEN bda.motor_counter - 1 ELSE 0
  <2>1. left \in Nat  BY DEF BdaType
  <2>2. bda \in BdaType /\ bda' = [bda EXCEPT !.motor_counter = left]
    BY DEF floppy_tick
  <2> HIDE DEF left
  <2>3. bda' \in BdaType /\ KeepsHeads(bda') /\ bda'.irq = bda.irq /\ bda'.motor_counter = left
    BY <2>1, <2>2, Zenon DEF BdaType, KeepsHeads
  <2> QED BY <2>3 DEF left
<1>3. FloppyDOR' \in DorType /\ FloppyDOR'.reset = FloppyDOR.reset
   /\ (bda.motor_counter # 1 => FloppyDOR' = FloppyDOR)
  <2>1. FloppyDOR \in DorType
        /\ FloppyDOR' = [FloppyDOR EXCEPT !.motor = IF bda.motor_counter = 1 THEN {} ELSE @]
    BY DEF floppy_tick
  <2>2. CASE bda.motor_counter = 1
    <3>1. FloppyDOR' = [FloppyDOR EXCEPT !.motor = {}]  BY <2>1, <2>2
    <3> QED BY <2>1, <2>2, <3>1, Zenon DEF DorType
  <2>3. CASE bda.motor_counter # 1
    <3>1. FloppyDOR' = FloppyDOR  BY <2>1, <2>3, Zenon DEF DorType
    <3> QED BY <2>1, <2>3, <3>1, Zenon
  <2> QED BY <2>2, <2>3
<1>4. op' \in OpType /\ KeepsRequest(op') /\ op'.pc = op.pc /\ op'.cmd = op.cmd
   /\ op'.checks = op.checks
   /\ (op.pc \in {"sending", "waiting"} => op.time < Limit /\ op'.time = op.time + 1)
  <2>1. op \in OpType /\ op.time + 1 \in Nat  BY DEF OpType
  <2>2. CASE op.pc \in {"idle", "settle"}
    <3>1. op' = op  BY <2>2 DEF floppy_tick
    <3> QED BY <2>1, <2>2, <3>1, Zenon DEF KeepsRequest
  <2>3. CASE op.pc \notin {"idle", "settle"}
    <3>1. op' = [op EXCEPT !.time = op.time + 1] /\ op.time < Limit
      BY <2>3 DEF floppy_tick
    <3> QED BY <2>1, <3>1, Zenon DEF OpType, KeepsRequest
  <2> QED BY <2>2, <2>3
<1>5. fdc' = fdc /\ drive' = drive  BY DEF floppy_tick
<1>6. op.pc = "sending" => Limit = PIO_TIMEOUT  BY DEF Limit
<1>7. op.pc = "waiting" => Limit = IRQ_TIMEOUT  BY DEF Limit
<1>8. PhaseFits'
  BY <1>1, <1>2, <1>3, <1>4, <1>5, <1>6, <1>7, SMTT(30) DEF PhaseFits, CommandFits,
     IrqFits, Moves, KeepsRequest, WaitsIrq, CommandOf, BdaType, DorType, FdcType,
     DriveType, OpType
<1>9. IrqFits'
  BY <1>1, <1>2, <1>3, <1>4, <1>5, <1>6, <1>7, SMTT(30) DEF IrqFits, PhaseFits, Moves,
     KeepsRequest, BdaType, DorType, FdcType, DriveType, OpType
<1>10. CommandFits'
  BY <1>1, <1>2, <1>3, <1>4, <1>5, <1>6, <1>7, SMTT(30) DEF CommandFits, WaitsIrq,
     CommandOf, KeepsRequest, BdaType, DorType, FdcType, DriveType, OpType
<1>11. MotorLasts'
  BY <1>1, <1>2, <1>3, <1>4, <1>5, <1>6, <1>7, SMTT(30) DEF MotorLasts, CommandFits,
     WaitsIrq, CommandOf, On, KeepsRequest, BdaType, DorType, FdcType, DriveType,
     OpType
<1>12. HeadsKnown'
  BY <1>1, <1>2, <1>3, <1>4, <1>5, <1>6, <1>7, SMTT(30) DEF HeadsKnown, PhaseFits,
     IrqFits, CommandFits, HasMoved, Target, HeadAt, Moves, CommandOf, WaitsIrq,
     KeepsHeads, KeepsRequest, BdaType, DorType, FdcType, DriveType, OpType
<1>13. Programmed'
  BY <1>1, <1>2, <1>3, <1>4, <1>5, <1>6, <1>7, SMTT(30) DEF Programmed, PhaseFits,
     CommandFits, HeadsKnown, KeepsHeads, KeepsRequest, WaitsIrq, CommandOf, Moves,
     HeadAt, Target, HasMoved, BdaType, DorType, FdcType, DriveType, OpType
<1> QED BY <1>1, <1>2, <1>3, <1>4, <1>5, <1>6, <1>7, <1>8, <1>9, <1>10, <1>11, <1>12,
       <1>13

\* The controller has left reset.
LEMMA LeftReset ==
  ASSUME FloppyInv, NEW ok \in BOOLEAN, Completes(ok), fdc.phase = "resetting"
  PROVE  FloppyInv'
<1> USE DEF FloppyInv, FloppyTypeOK
<1>1. fdc.phase = "resetting"  OBVIOUS
<1>2. fdc' \in FdcType /\ fdc'.phase = "idle" /\ fdc'.irq = TRUE /\ fdc'.to = fdc.to
  <2>1. /\ fdc \in FdcType
        /\ fdc' = [fdc EXCEPT !.phase = "idle", !.irq = TRUE, !.senses = 4]
    BY DEF Completes
  <2> QED BY Numbers, <2>1, Zenon DEF FdcType
<1>3. bda' = bda /\ FloppyDOR' = FloppyDOR /\ op' = op /\ drive' = drive
  BY DEF Completes
<1>4. PhaseFits'
  BY <1>1, <1>2, <1>3, SMTT(30) DEF PhaseFits, CommandFits, IrqFits, Moves,
     KeepsRequest, WaitsIrq, CommandOf, BdaType, DorType, FdcType, DriveType, OpType
<1>5. IrqFits'
  BY <1>1, <1>2, <1>3, SMTT(30) DEF IrqFits, PhaseFits, Moves, KeepsRequest, BdaType,
     DorType, FdcType, DriveType, OpType
<1>6. CommandFits'
  BY <1>1, <1>2, <1>3, SMTT(30) DEF CommandFits, WaitsIrq, CommandOf, KeepsRequest,
     BdaType, DorType, FdcType, DriveType, OpType
<1>7. MotorLasts'
  BY <1>1, <1>2, <1>3, SMTT(30) DEF MotorLasts, CommandFits, WaitsIrq, CommandOf, On,
     KeepsRequest, BdaType, DorType, FdcType, DriveType, OpType
<1>8. HeadsKnown'
  BY <1>1, <1>2, <1>3, SMTT(30) DEF HeadsKnown, PhaseFits, IrqFits, CommandFits,
     HasMoved, Target, HeadAt, Moves, CommandOf, WaitsIrq, KeepsHeads, KeepsRequest,
     BdaType, DorType, FdcType, DriveType, OpType
<1>9. Programmed'
  BY <1>1, <1>2, <1>3, SMTT(30) DEF Programmed, PhaseFits, CommandFits, HeadsKnown,
     KeepsHeads, KeepsRequest, WaitsIrq, CommandOf, Moves, HeadAt, Target, HasMoved,
     BdaType, DorType, FdcType, DriveType, OpType
<1> QED BY <1>1, <1>2, <1>3, <1>4, <1>5, <1>6, <1>7, <1>8, <1>9

\* A transfer or READ ID is done.
LEMMA Transferred ==
  ASSUME FloppyInv, NEW ok \in BOOLEAN, Completes(ok), fdc.phase = "exec"
  PROVE  FloppyInv'
<1> USE DEF FloppyInv, FloppyTypeOK
<1>1. fdc.phase = "exec"  OBVIOUS
<1>2. fdc' \in FdcType /\ fdc'.phase = "result" /\ fdc'.irq = TRUE /\ fdc'.to = fdc.to
  <2>1. /\ fdc \in FdcType
        /\ fdc' = [fdc EXCEPT !.phase = "result", !.irq = TRUE, !.bytes = 7, !.ok = ok]
    BY DEF Completes
  <2> QED BY Numbers, <2>1, Zenon DEF FdcType
<1>3. bda' = bda /\ FloppyDOR' = FloppyDOR /\ op' = op /\ drive' = drive
  BY DEF Completes
<1>4. PhaseFits'
  BY <1>1, <1>2, <1>3, SMTT(30) DEF PhaseFits, CommandFits, IrqFits, Moves,
     KeepsRequest, WaitsIrq, CommandOf, BdaType, DorType, FdcType, DriveType, OpType
<1>5. IrqFits'
  BY <1>1, <1>2, <1>3, SMTT(30) DEF IrqFits, PhaseFits, Moves, KeepsRequest, BdaType,
     DorType, FdcType, DriveType, OpType
<1>6. CommandFits'
  BY <1>1, <1>2, <1>3, SMTT(30) DEF CommandFits, WaitsIrq, CommandOf, KeepsRequest,
     BdaType, DorType, FdcType, DriveType, OpType
<1>7. MotorLasts'
  BY <1>1, <1>2, <1>3, SMTT(30) DEF MotorLasts, CommandFits, WaitsIrq, CommandOf, On,
     KeepsRequest, BdaType, DorType, FdcType, DriveType, OpType
<1>8. HeadsKnown'
  BY <1>1, <1>2, <1>3, SMTT(30) DEF HeadsKnown, PhaseFits, IrqFits, CommandFits,
     HasMoved, Target, HeadAt, Moves, CommandOf, WaitsIrq, KeepsHeads, KeepsRequest,
     BdaType, DorType, FdcType, DriveType, OpType
<1>9. Programmed'
  BY <1>1, <1>2, <1>3, SMTT(30) DEF Programmed, PhaseFits, CommandFits, HeadsKnown,
     KeepsHeads, KeepsRequest, WaitsIrq, CommandOf, Moves, HeadAt, Target, HasMoved,
     BdaType, DorType, FdcType, DriveType, OpType
<1> QED BY <1>1, <1>2, <1>3, <1>4, <1>5, <1>6, <1>7, <1>8, <1>9

\* A head has moved, or has not.
LEMMA HeadMoved ==
  ASSUME FloppyInv, NEW ok \in BOOLEAN, Completes(ok), fdc.phase = "seeking"
  PROVE  FloppyInv'
<1> USE DEF FloppyInv, FloppyTypeOK
<1>1. fdc.phase = "seeking" /\ 0 \in Cylinders  BY FloppyAssumption
<1>2. fdc' \in FdcType /\ fdc'.phase = "idle" /\ fdc'.irq = TRUE
  <2>1. /\ fdc \in FdcType
        /\ fdc' = [fdc EXCEPT !.phase = "idle", !.irq = TRUE, !.senses = 1, !.to = 0]
    BY DEF Completes
  <2> QED BY Numbers, <1>1, <2>1, Zenon DEF FdcType
<1>3. \E cyl \in Cylinders, arrived \in BOOLEAN :
        drive' = Moved(cyl, arrived) /\ (arrived => cyl = fdc.to)
  BY DEF Completes, FdcType, DriveType, OpType
<1>4. drive' \in DriveType /\ drive'.specified = drive.specified
   /\ (drive'.head[op.drive] = fdc.to \/ op.drive \in drive'.astray)
   /\ \A d \in FloppyDrives \ {op.drive} :
        drive'.head[d] = drive.head[d] /\ (d \in drive.astray <=> d \in drive'.astray)
  BY <1>3, MovedFits
<1>5. bda' = bda /\ FloppyDOR' = FloppyDOR /\ op' = op  BY DEF Completes
<1>6. PhaseFits'
  BY <1>1, <1>2, <1>3, <1>4, <1>5, SMTT(30) DEF PhaseFits, CommandFits, IrqFits,
     Moves, KeepsRequest, WaitsIrq, CommandOf, BdaType, DorType, FdcType, DriveType,
     OpType
<1>7. IrqFits'
  BY <1>1, <1>2, <1>3, <1>4, <1>5, SMTT(30) DEF IrqFits, PhaseFits, Moves,
     KeepsRequest, BdaType, DorType, FdcType, DriveType, OpType
<1>8. CommandFits'
  BY <1>1, <1>2, <1>3, <1>4, <1>5, SMTT(30) DEF CommandFits, WaitsIrq, CommandOf,
     KeepsRequest, BdaType, DorType, FdcType, DriveType, OpType
<1>9. MotorLasts'
  BY <1>1, <1>2, <1>3, <1>4, <1>5, SMTT(30) DEF MotorLasts, CommandFits, WaitsIrq,
     CommandOf, On, KeepsRequest, BdaType, DorType, FdcType, DriveType, OpType
<1>10. HeadsKnown'
  BY <1>1, <1>2, <1>3, <1>4, <1>5, SMTT(30) DEF HeadsKnown, PhaseFits, IrqFits,
     CommandFits, HasMoved, Target, HeadAt, Moves, CommandOf, WaitsIrq, KeepsHeads,
     KeepsRequest, BdaType, DorType, FdcType, DriveType, OpType
<1>11. Programmed'
  BY <1>1, <1>2, <1>3, <1>4, <1>5, SMTT(30) DEF Programmed, PhaseFits, CommandFits,
     HeadsKnown, KeepsHeads, KeepsRequest, WaitsIrq, CommandOf, Moves, HeadAt, Target,
     HasMoved, BdaType, DorType, FdcType, DriveType, OpType
<1> QED BY <1>1, <1>2, <1>3, <1>4, <1>5, <1>6, <1>7, <1>8, <1>9, <1>10, <1>11

\* What a command the controller takes changes, but for the controller.
Sent(known) ==
  /\ op.pc = "sending" /\ fdc.phase = "idle"
  /\ op' \in OpType /\ KeepsRequest(op') /\ op'.cmd = op.cmd
  /\ op'.checks = op.checks /\ op'.time = 0
  /\ op'.pc = IF WaitsIrq(op.cmd) THEN "waiting" ELSE "receiving"
  /\ bda' \in BdaType /\ KeepsHeads(bda') /\ bda'.motor_counter = bda.motor_counter
  /\ (WaitsIrq(op.cmd) => bda'.irq = FALSE)
  /\ drive' \in DriveType /\ drive'.head = drive.head /\ drive'.astray = drive.astray
  /\ (drive'.specified <=> (drive.specified \/ (known /\ op.cmd = "SPECIFY")))
  /\ FloppyDOR' = FloppyDOR

\* What Send() changes besides the controller.
LEMMA SendFields ==
  ASSUME FloppyInv, NEW known \in BOOLEAN, Send(known)
  PROVE  Sent(known)
<1> USE DEF FloppyInv, FloppyTypeOK
<1>1. op.pc = "sending" /\ fdc.phase = "idle"
  BY DEF Send, Ready, PhaseFits
<1>2. op' \in OpType /\ KeepsRequest(op') /\ op'.cmd = op.cmd /\ op'.checks = op.checks
      /\ op'.time = 0 /\ op'.pc = IF WaitsIrq(op.cmd) THEN "waiting" ELSE "receiving"
  <2>1. op \in OpType
        /\ op' = [op EXCEPT !.pc = IF WaitsIrq(op.cmd) THEN "waiting" ELSE "receiving",
                            !.time = 0]
    BY DEF Send
  <2>2. CASE WaitsIrq(op.cmd)
    <3>1. op' = [op EXCEPT !.pc = "waiting", !.time = 0]  BY <2>1, <2>2
    <3> QED BY Numbers, <2>1, <2>2, <3>1, Zenon DEF OpType, KeepsRequest
  <2>3. CASE ~WaitsIrq(op.cmd)
    <3>1. op' = [op EXCEPT !.pc = "receiving", !.time = 0]  BY <2>1, <2>3
    <3> QED BY Numbers, <2>1, <2>3, <3>1, Zenon DEF OpType, KeepsRequest
  <2> QED BY <2>2, <2>3
<1>3. bda' \in BdaType /\ KeepsHeads(bda') /\ bda'.motor_counter = bda.motor_counter
      /\ (WaitsIrq(op.cmd) => bda'.irq = FALSE)
  <2> DEFINE irq == bda.irq /\ ~WaitsIrq(op.cmd)
  <2>1. bda \in BdaType /\ bda' = [bda EXCEPT !.irq = irq]  BY DEF Send
  <2>2. irq \in BOOLEAN /\ (WaitsIrq(op.cmd) => irq = FALSE)  BY Zenon
  <2> HIDE DEF irq
  <2> QED BY <2>1, <2>2, Zenon DEF BdaType, KeepsHeads
<1>4. drive' \in DriveType /\ drive'.head = drive.head /\ drive'.astray = drive.astray
      /\ (drive'.specified <=> (drive.specified \/ (known /\ op.cmd = "SPECIFY")))
  <2> DEFINE now == drive.specified \/ (known /\ op.cmd = "SPECIFY")
  <2>1. drive \in DriveType /\ drive' = [drive EXCEPT !.specified = now]  BY DEF Send
  <2>2. now \in BOOLEAN  BY Zenon
  <2> HIDE DEF now
  <2>3. drive' \in DriveType /\ drive'.head = drive.head /\ drive'.astray = drive.astray
        /\ drive'.specified = now
    BY <2>1, <2>2, Zenon DEF DriveType
  <2> QED BY <2>3 DEF now
<1>5. FloppyDOR' = FloppyDOR  BY DEF Send
<1> QED BY <1>1, <1>2, <1>3, <1>4, <1>5 DEF Sent

\* The controller answers a command it does not know.
LEMMA SendsUnknown ==
  ASSUME FloppyInv, NEW known \in BOOLEAN, Send(known), ~known, op.cmd # "CHECKIRQ"
  PROVE  FloppyInv'
<1> USE DEF FloppyInv, FloppyTypeOK
<1>1. ~known /\ op.cmd # "CHECKIRQ"  OBVIOUS
<1>2. {MOTOR_MAX, PIO_TIMEOUT, IRQ_TIMEOUT} \subseteq Nat  BY FloppyAssumption
<1>3. Sent(known)  BY SendFields, Zenon
<1>4. fdc' \in FdcType /\ fdc'.phase = "result" /\ fdc'.irq = fdc.irq /\ fdc'.to = fdc.to
  <2>1. fdc \in FdcType /\ fdc' = [fdc EXCEPT !.phase = "result", !.bytes = 1]
    BY DEF Send
  <2> QED BY Numbers, <2>1, Zenon DEF FdcType
<1>5. PhaseFits'
  BY <1>1, <1>2, <1>3, <1>4, SMTT(30) DEF PhaseFits, CommandFits, IrqFits, Moves,
     KeepsRequest, WaitsIrq, CommandOf, BdaType, DorType, FdcType, DriveType, OpType,
     Sent
<1>6. IrqFits'
  BY <1>1, <1>2, <1>3, <1>4, SMTT(30) DEF IrqFits, PhaseFits, Moves, KeepsRequest,
     BdaType, DorType, FdcType, DriveType, OpType, Sent
<1>7. CommandFits'
  BY <1>1, <1>2, <1>3, <1>4, SMTT(30) DEF CommandFits, WaitsIrq, CommandOf,
     KeepsRequest, BdaType, DorType, FdcType, DriveType, OpType, Sent
<1>8. MotorLasts'
  BY <1>1, <1>2, <1>3, <1>4, SMTT(30) DEF MotorLasts, CommandFits, WaitsIrq,
     CommandOf, On, KeepsRequest, BdaType, DorType, FdcType, DriveType, OpType, Sent
<1>9. HeadsKnown'
  BY <1>1, <1>2, <1>3, <1>4, SMTT(30) DEF HeadsKnown, PhaseFits, IrqFits, CommandFits,
     HasMoved, Target, HeadAt, Moves, CommandOf, WaitsIrq, KeepsHeads, KeepsRequest,
     BdaType, DorType, FdcType, DriveType, OpType, Sent
<1>10. Programmed'
  BY <1>1, <1>2, <1>3, <1>4, SMTT(30) DEF Programmed, PhaseFits, CommandFits,
     HeadsKnown, KeepsHeads, KeepsRequest, WaitsIrq, CommandOf, Moves, HeadAt, Target,
     HasMoved, BdaType, DorType, FdcType, DriveType, OpType, Sent
<1> QED BY <1>1, <1>2, <1>3, <1>4, <1>5, <1>6, <1>7, <1>8, <1>9, <1>10 DEF Sent

\* The controller answers SENSE INTERRUPT STATUS.
LEMMA SendsSense ==
  ASSUME FloppyInv, NEW known \in BOOLEAN, Send(known), known, op.cmd = "CHECKIRQ"
  PROVE  FloppyInv'
<1> USE DEF FloppyInv, FloppyTypeOK
<1>1. known /\ op.cmd = "CHECKIRQ"  OBVIOUS
<1>2. {MOTOR_MAX, PIO_TIMEOUT, IRQ_TIMEOUT} \subseteq Nat  BY FloppyAssumption
<1>3. Sent(known)  BY SendFields, Zenon
<1>4. fdc' \in FdcType /\ fdc'.phase = "result" /\ fdc'.irq = FALSE /\ fdc'.to = fdc.to
  <2> DEFINE bytes == IF fdc.senses > 0 THEN 2 ELSE 1
             left == IF fdc.senses > 0 THEN fdc.senses - 1 ELSE 0
  <2>1. fdc \in FdcType /\ fdc' = [fdc EXCEPT !.phase = "result", !.irq = FALSE,
                                              !.bytes = bytes, !.senses = left]
    BY DEF Send
  <2>2. bytes \in Nat /\ left \in Nat  BY DEF FdcType
  <2> HIDE DEF bytes, left
  <2> QED BY <2>1, <2>2, Zenon DEF FdcType
<1>5. PhaseFits'
  BY <1>1, <1>2, <1>3, <1>4, SMTT(30) DEF PhaseFits, CommandFits, IrqFits, Moves,
     KeepsRequest, WaitsIrq, CommandOf, BdaType, DorType, FdcType, DriveType, OpType,
     Sent
<1>6. IrqFits'
  BY <1>1, <1>2, <1>3, <1>4, SMTT(30) DEF IrqFits, PhaseFits, Moves, KeepsRequest,
     BdaType, DorType, FdcType, DriveType, OpType, Sent
<1>7. CommandFits'
  BY <1>1, <1>2, <1>3, <1>4, SMTT(30) DEF CommandFits, WaitsIrq, CommandOf,
     KeepsRequest, BdaType, DorType, FdcType, DriveType, OpType, Sent
<1>8. MotorLasts'
  BY <1>1, <1>2, <1>3, <1>4, SMTT(30) DEF MotorLasts, CommandFits, WaitsIrq,
     CommandOf, On, KeepsRequest, BdaType, DorType, FdcType, DriveType, OpType, Sent
<1>9. HeadsKnown'
  BY <1>1, <1>2, <1>3, <1>4, SMTT(30) DEF HeadsKnown, PhaseFits, IrqFits, CommandFits,
     HasMoved, Target, HeadAt, Moves, CommandOf, WaitsIrq, KeepsHeads, KeepsRequest,
     BdaType, DorType, FdcType, DriveType, OpType, Sent
<1>10. Programmed'
  BY <1>1, <1>2, <1>3, <1>4, SMTT(30) DEF Programmed, PhaseFits, CommandFits,
     HeadsKnown, KeepsHeads, KeepsRequest, WaitsIrq, CommandOf, Moves, HeadAt, Target,
     HasMoved, BdaType, DorType, FdcType, DriveType, OpType, Sent
<1> QED BY <1>1, <1>2, <1>3, <1>4, <1>5, <1>6, <1>7, <1>8, <1>9, <1>10 DEF Sent

\* The controller begins to move a head.
LEMMA SendsMove ==
  ASSUME FloppyInv, NEW known \in BOOLEAN, Send(known), known, op.cmd \in {"RECALIBRATE", "SEEK"}
  PROVE  FloppyInv'
<1> USE DEF FloppyInv, FloppyTypeOK
<1>1. known /\ op.cmd \in {"RECALIBRATE", "SEEK"}  OBVIOUS
<1>2. {MOTOR_MAX, PIO_TIMEOUT, IRQ_TIMEOUT} \subseteq Nat  BY FloppyAssumption
<1>3. Sent(known)  BY SendFields, Zenon
<1>4. fdc' \in FdcType /\ fdc'.phase = "seeking" /\ fdc'.irq = fdc.irq
      /\ fdc'.to = IF op.cmd = "SEEK" THEN op.cylinder ELSE 0
  <2> DEFINE to == IF op.cmd = "SEEK" THEN op.cylinder ELSE 0
  <2>1. fdc \in FdcType /\ fdc' = [fdc EXCEPT !.phase = "seeking", !.to = to]
    BY DEF Send
  <2>2. to \in Cylinders  BY FloppyAssumption DEF OpType
  <2> HIDE DEF to
  <2>3. fdc' \in FdcType /\ fdc'.phase = "seeking" /\ fdc'.irq = fdc.irq /\ fdc'.to = to
    BY <2>1, <2>2, Zenon DEF FdcType
  <2> QED BY <2>3 DEF to
<1>5. PhaseFits'
  BY <1>1, <1>2, <1>3, <1>4, SMTT(30) DEF PhaseFits, CommandFits, IrqFits, Moves,
     KeepsRequest, WaitsIrq, CommandOf, BdaType, DorType, FdcType, DriveType, OpType,
     Sent
<1>6. IrqFits'
  BY <1>1, <1>2, <1>3, <1>4, SMTT(30) DEF IrqFits, PhaseFits, Moves, KeepsRequest,
     BdaType, DorType, FdcType, DriveType, OpType, Sent
<1>7. CommandFits'
  BY <1>1, <1>2, <1>3, <1>4, SMTT(30) DEF CommandFits, WaitsIrq, CommandOf,
     KeepsRequest, BdaType, DorType, FdcType, DriveType, OpType, Sent
<1>8. MotorLasts'
  BY <1>1, <1>2, <1>3, <1>4, SMTT(30) DEF MotorLasts, CommandFits, WaitsIrq,
     CommandOf, On, KeepsRequest, BdaType, DorType, FdcType, DriveType, OpType, Sent
<1>9. HeadsKnown'
  BY <1>1, <1>2, <1>3, <1>4, SMTT(30) DEF HeadsKnown, PhaseFits, IrqFits, CommandFits,
     HasMoved, Target, HeadAt, Moves, CommandOf, WaitsIrq, KeepsHeads, KeepsRequest,
     BdaType, DorType, FdcType, DriveType, OpType, Sent
<1>10. Programmed'
  BY <1>1, <1>2, <1>3, <1>4, SMTT(30) DEF Programmed, PhaseFits, CommandFits,
     HeadsKnown, KeepsHeads, KeepsRequest, WaitsIrq, CommandOf, Moves, HeadAt, Target,
     HasMoved, BdaType, DorType, FdcType, DriveType, OpType, Sent
<1> QED BY <1>1, <1>2, <1>3, <1>4, <1>5, <1>6, <1>7, <1>8, <1>9, <1>10 DEF Sent

\* The controller has taken SPECIFY.
LEMMA SendsSpecified ==
  ASSUME FloppyInv, NEW known \in BOOLEAN, Send(known), known, op.cmd = "SPECIFY"
  PROVE  FloppyInv'
<1> USE DEF FloppyInv, FloppyTypeOK
<1>1. known /\ op.cmd = "SPECIFY"  OBVIOUS
<1>2. {MOTOR_MAX, PIO_TIMEOUT, IRQ_TIMEOUT} \subseteq Nat  BY FloppyAssumption
<1>3. Sent(known)  BY SendFields, Zenon
<1>4. fdc' = fdc  BY DEF Send
<1>5. PhaseFits'
  BY <1>1, <1>2, <1>3, <1>4, SMTT(30) DEF PhaseFits, CommandFits, IrqFits, Moves,
     KeepsRequest, WaitsIrq, CommandOf, BdaType, DorType, FdcType, DriveType, OpType,
     Sent
<1>6. IrqFits'
  BY <1>1, <1>2, <1>3, <1>4, SMTT(30) DEF IrqFits, PhaseFits, Moves, KeepsRequest,
     BdaType, DorType, FdcType, DriveType, OpType, Sent
<1>7. CommandFits'
  BY <1>1, <1>2, <1>3, <1>4, SMTT(30) DEF CommandFits, WaitsIrq, CommandOf,
     KeepsRequest, BdaType, DorType, FdcType, DriveType, OpType, Sent
<1>8. MotorLasts'
  BY <1>1, <1>2, <1>3, <1>4, SMTT(30) DEF MotorLasts, CommandFits, WaitsIrq,
     CommandOf, On, KeepsRequest, BdaType, DorType, FdcType, DriveType, OpType, Sent
<1>9. HeadsKnown'
  BY <1>1, <1>2, <1>3, <1>4, SMTT(30) DEF HeadsKnown, PhaseFits, IrqFits, CommandFits,
     HasMoved, Target, HeadAt, Moves, CommandOf, WaitsIrq, KeepsHeads, KeepsRequest,
     BdaType, DorType, FdcType, DriveType, OpType, Sent
<1>10. Programmed'
  BY <1>1, <1>2, <1>3, <1>4, SMTT(30) DEF Programmed, PhaseFits, CommandFits,
     HeadsKnown, KeepsHeads, KeepsRequest, WaitsIrq, CommandOf, Moves, HeadAt, Target,
     HasMoved, BdaType, DorType, FdcType, DriveType, OpType, Sent
<1> QED BY <1>1, <1>2, <1>3, <1>4, <1>5, <1>6, <1>7, <1>8, <1>9, <1>10 DEF Sent

\* The controller begins READ ID or a transfer.
LEMMA SendsExec ==
  ASSUME FloppyInv, NEW known \in BOOLEAN, Send(known), known, op.cmd \in {"READID", "DMA"}
  PROVE  FloppyInv'
<1> USE DEF FloppyInv, FloppyTypeOK
<1>1. known /\ op.cmd \in {"READID", "DMA"}  OBVIOUS
<1>2. {MOTOR_MAX, PIO_TIMEOUT, IRQ_TIMEOUT} \subseteq Nat  BY FloppyAssumption
<1>3. Sent(known)  BY SendFields, Zenon
<1>4. fdc' \in FdcType /\ fdc'.phase = "exec" /\ fdc'.irq = fdc.irq /\ fdc'.to = fdc.to
  <2>1. fdc \in FdcType /\ fdc' = [fdc EXCEPT !.phase = "exec"]
    BY DEF Send
  <2> QED BY Numbers, <2>1, Zenon DEF FdcType
<1>5. PhaseFits'
  BY <1>1, <1>2, <1>3, <1>4, SMTT(30) DEF PhaseFits, CommandFits, IrqFits, Moves,
     KeepsRequest, WaitsIrq, CommandOf, BdaType, DorType, FdcType, DriveType, OpType,
     Sent
<1>6. IrqFits'
  BY <1>1, <1>2, <1>3, <1>4, SMTT(30) DEF IrqFits, PhaseFits, Moves, KeepsRequest,
     BdaType, DorType, FdcType, DriveType, OpType, Sent
<1>7. CommandFits'
  BY <1>1, <1>2, <1>3, <1>4, SMTT(30) DEF CommandFits, WaitsIrq, CommandOf,
     KeepsRequest, BdaType, DorType, FdcType, DriveType, OpType, Sent
<1>8. MotorLasts'
  BY <1>1, <1>2, <1>3, <1>4, SMTT(30) DEF MotorLasts, CommandFits, WaitsIrq,
     CommandOf, On, KeepsRequest, BdaType, DorType, FdcType, DriveType, OpType, Sent
<1>9. HeadsKnown'
  BY <1>1, <1>2, <1>3, <1>4, SMTT(30) DEF HeadsKnown, PhaseFits, IrqFits, CommandFits,
     HasMoved, Target, HeadAt, Moves, CommandOf, WaitsIrq, KeepsHeads, KeepsRequest,
     BdaType, DorType, FdcType, DriveType, OpType, Sent
<1>10. Programmed'
  BY <1>1, <1>2, <1>3, <1>4, SMTT(30) DEF Programmed, PhaseFits, CommandFits,
     HeadsKnown, KeepsHeads, KeepsRequest, WaitsIrq, CommandOf, Moves, HeadAt, Target,
     HasMoved, BdaType, DorType, FdcType, DriveType, OpType, Sent
<1> QED BY <1>1, <1>2, <1>3, <1>4, <1>5, <1>6, <1>7, <1>8, <1>9, <1>10 DEF Sent

\* A step that fails: the next type of medium, or an error is returned.
LEMMA FailedFits ==
  ASSUME op \in OpType
  PROVE  /\ Failed \in OpType /\ Failed.checks = 0
         /\ \/ /\ op.step = "sense" /\ Failed.pc = "start" /\ KeepsRequest(Failed)
            \/ /\ Failed.pc = "idle" /\ Failed.step = "reset"
               /\ (Failed.unspecified <=> (op.unspecified \/ op.step = "specify"))
<1>1. CASE op.step = "sense" /\ op.tries > 1
  <2> DEFINE left == op.tries - 1
  <2>1. left \in Nat  BY <1>1 DEF OpType
  <2>2. Failed = [op EXCEPT !.pc = "start", !.tries = left, !.checks = 0]
    BY <1>1 DEF Failed
  <2> HIDE DEF left
  <2> QED BY Numbers, <1>1, <2>1, <2>2, Zenon DEF OpType, KeepsRequest
<1>2. CASE ~(op.step = "sense" /\ op.tries > 1)
  <2> DEFINE lost == op.unspecified \/ op.step = "specify"
             back == Return(op)
  <2>1. back \in OpType /\ back.pc = "idle" /\ back.checks = 0 /\ back.step = "reset"
        /\ back.unspecified = op.unspecified
    BY ReturnType, Zenon
  <2>2. lost \in BOOLEAN  BY Zenon
  <2>3. Failed = [back EXCEPT !.unspecified = back.unspecified \/ op.step = "specify"]
    BY <1>2 DEF Failed
  <2>4. Failed = [back EXCEPT !.unspecified = lost]  BY <2>1, <2>3
  <2> HIDE DEF back, lost
  <2>5. Failed \in OpType /\ Failed.pc = "idle" /\ Failed.checks = 0
        /\ Failed.step = "reset" /\ Failed.unspecified = lost
    BY <2>1, <2>2, <2>4, Zenon DEF OpType
  <2> QED BY <2>5, Zenon DEF lost
<1> QED BY <1>1, <1>2

\* floppy_drive_pio() touches nothing but the counter of the motor.
LEMMA DriveEnds ==
  ASSUME bda \in BdaType
  PROVE  LET b == DriveCommandEnds(bda)
         IN  b \in BdaType /\ KeepsHeads(b) /\ b.irq = bda.irq
<1>1. MOTOR_TICKS \in Nat  BY FloppyAssumption
<1>2. CASE op.checks = 0 /\ op.cmd \notin {"CHECKIRQ", "SPECIFY"}
  <2>1. DriveCommandEnds(bda) = [bda EXCEPT !.motor_counter = MOTOR_TICKS]
    BY <1>2 DEF DriveCommandEnds
  <2> QED BY <1>1, <2>1, Zenon DEF BdaType, KeepsHeads
<1>3. CASE ~(op.checks = 0 /\ op.cmd \notin {"CHECKIRQ", "SPECIFY"})
  BY <1>3, Zenon DEF DriveCommandEnds, KeepsHeads
<1> QED BY <1>2, <1>3

\* floppy_disable_controller(), after whatever went wrong.
LEMMA Disables ==
  ASSUME FloppyInv, op.pc \in {"enabling", "sending", "waiting", "receiving"}, Disable
  PROVE  FloppyInv'
<1> USE DEF FloppyInv, FloppyTypeOK
<1>1. op.pc \in {"enabling", "sending", "waiting", "receiving"}  OBVIOUS
<1>2. fdc' \in FdcType /\ fdc'.phase = "reset" /\ fdc'.irq = FALSE
  BY InResetType DEF Disable
<1>3. bda' \in BdaType /\ KeepsHeads(bda') /\ bda'.irq = bda.irq
  BY DriveEnds DEF Disable
<1>4. FloppyDOR' \in DorType /\ FloppyDOR'.reset = FALSE
  <2>1. /\ FloppyDOR \in DorType
        /\ FloppyDOR' = [FloppyDOR EXCEPT !.irq = FALSE, !.reset = FALSE]
    BY DEF Disable
  <2> QED BY <2>1, Zenon DEF DorType
<1>5. /\ op' \in OpType /\ op'.checks = 0
      /\ \/ /\ op.step = "sense" /\ op'.pc = "start" /\ KeepsRequest(op')
         \/ /\ op'.pc = "idle" /\ op'.step = "reset"
            /\ (op'.unspecified <=> (op.unspecified \/ op.step = "specify"))
  <2>1. op' = Failed  BY DEF Disable
  <2> QED BY <2>1, FailedFits, Zenon
<1>6. IF op.step \in {"recal", "seek"}
      THEN /\ drive' \in DriveType /\ drive'.specified = drive.specified
           /\ drive'.astray = drive.astray \cup {op.drive}
           /\ \A d \in FloppyDrives \ {op.drive} : drive'.head[d] = drive.head[d]
      ELSE drive' = drive
  <2>1. drive.head[op.drive] \in Cylinders  BY DEF DriveType, OpType
  <2>2. op.step \in {"recal", "seek"} => \E cyl \in Cylinders : drive' = Moved(cyl, FALSE)
    BY <2>1 DEF Disable
  <2>3. op.step \notin {"recal", "seek"} => drive' = drive  BY <2>1 DEF Disable
  <2>4. CASE op.step \in {"recal", "seek"}
    <3>1. PICK cyl \in Cylinders : drive' = Moved(cyl, FALSE)  BY <2>2, <2>4
    <3> DEFINE m == Moved(cyl, FALSE)
    <3>2. /\ m \in DriveType /\ m.specified = drive.specified
          /\ m.astray = drive.astray \cup {op.drive}
          /\ \A d \in FloppyDrives \ {op.drive} : m.head[d] = drive.head[d]
      BY MovedFits, Zenon
    <3> QED BY <2>4, <3>1, <3>2
  <2> QED BY <2>3, <2>4
<1>7. PhaseFits'
  BY <1>1, <1>2, <1>3, <1>4, <1>5, <1>6, SMTT(30) DEF PhaseFits, CommandFits, IrqFits,
     Moves, KeepsRequest, WaitsIrq, CommandOf, BdaType, DorType, FdcType, DriveType,
     OpType
<1>8. IrqFits'
  BY <1>1, <1>2, <1>3, <1>4, <1>5, <1>6, SMTT(30) DEF IrqFits, PhaseFits, Moves,
     KeepsRequest, BdaType, DorType, FdcType, DriveType, OpType
<1>9. CommandFits'
  BY <1>1, <1>2, <1>3, <1>4, <1>5, <1>6, SMTT(30) DEF CommandFits, WaitsIrq,
     CommandOf, KeepsRequest, BdaType, DorType, FdcType, DriveType, OpType
<1>10. MotorLasts'
  BY <1>1, <1>2, <1>3, <1>4, <1>5, <1>6, SMTT(30) DEF MotorLasts, CommandFits,
     WaitsIrq, CommandOf, On, KeepsRequest, BdaType, DorType, FdcType, DriveType,
     OpType
<1>11. HeadsKnown'
  BY <1>1, <1>2, <1>3, <1>4, <1>5, <1>6, SMTT(30) DEF HeadsKnown, PhaseFits, IrqFits,
     CommandFits, HasMoved, Target, HeadAt, Moves, CommandOf, WaitsIrq, KeepsHeads,
     KeepsRequest, BdaType, DorType, FdcType, DriveType, OpType
<1>12. Programmed'
  BY <1>1, <1>2, <1>3, <1>4, <1>5, <1>6, SMTT(30) DEF Programmed, PhaseFits,
     CommandFits, HeadsKnown, KeepsHeads, KeepsRequest, WaitsIrq, CommandOf, Moves,
     HeadAt, Target, HasMoved, BdaType, DorType, FdcType, DriveType, OpType
<1> QED BY <1>1, <1>2, <1>3, <1>4, <1>5, <1>6, <1>7, <1>8, <1>9, <1>10, <1>11, <1>12

\* floppy_drive_reset() forgets what was known about the drives.
LEMMA EntersReset ==
  ASSUME FloppyInv, NEW d \in FloppyDrives, NEW cyl \in Cylinders, floppy_process_op("reset", d, cyl)
  PROVE  FloppyInv'
<1> USE DEF FloppyInv, FloppyTypeOK
<1>1. fdc' \in FdcType /\ fdc'.phase = "reset" /\ fdc'.irq = FALSE
  BY InResetType DEF floppy_process_op
<1>2. bda' \in BdaType /\ bda'.recal = {} /\ bda'.media = {}
  <2>1. bda \in BdaType /\ bda' = [bda EXCEPT !.recal = {}, !.media = {},
                                        !.track = [e \in FloppyDrives |-> 0], !.irq = FALSE]
    BY DEF floppy_process_op, Forgotten
  <2>2. [e \in FloppyDrives |-> 0] \in [FloppyDrives -> Cylinders]  BY FloppyAssumption
  <2> QED BY <2>1, <2>2, Zenon DEF BdaType
<1>3. FloppyDOR' \in DorType /\ FloppyDOR'.reset = FALSE
  <2>1. /\ FloppyDOR \in DorType
        /\ FloppyDOR' = [FloppyDOR EXCEPT !.irq = FALSE, !.reset = FALSE]
    BY DEF floppy_process_op
  <2> QED BY <2>1, Zenon DEF DorType
<1>4. op' \in OpType /\ op'.pc = "start" /\ op'.step = "reset" /\ op'.checks = op.checks
  <2> DEFINE n == op.n + 1
  <2>1. op \in OpType /\ n \in Nat  BY DEF OpType
  <2>2. op' = [[op EXCEPT !.command = "reset", !.drive = d, !.cylinder = cyl, !.n = n]
                 EXCEPT !.pc = "start", !.step = "reset", !.unspecified = FALSE]
    BY DEF floppy_process_op
  <2> HIDE DEF n
  <2> QED BY <2>1, <2>2, Zenon DEF OpType
<1>5. op.pc = "idle" /\ drive' = drive  BY DEF floppy_process_op
<1>6. PhaseFits'
  BY <1>1, <1>2, <1>3, <1>4, <1>5, SMTT(30) DEF PhaseFits, CommandFits, IrqFits,
     Moves, KeepsRequest, WaitsIrq, CommandOf, BdaType, DorType, FdcType, DriveType,
     OpType
<1>7. IrqFits'
  BY <1>1, <1>2, <1>3, <1>4, <1>5, SMTT(30) DEF IrqFits, PhaseFits, Moves,
     KeepsRequest, BdaType, DorType, FdcType, DriveType, OpType
<1>8. CommandFits'
  BY <1>1, <1>2, <1>3, <1>4, <1>5, SMTT(30) DEF CommandFits, WaitsIrq, CommandOf,
     KeepsRequest, BdaType, DorType, FdcType, DriveType, OpType
<1>9. MotorLasts'
  BY <1>1, <1>2, <1>3, <1>4, <1>5, SMTT(30) DEF MotorLasts, CommandFits, WaitsIrq,
     CommandOf, On, KeepsRequest, BdaType, DorType, FdcType, DriveType, OpType
<1>10. HeadsKnown'
  BY <1>1, <1>2, <1>3, <1>4, <1>5, SMTT(30) DEF HeadsKnown, PhaseFits, IrqFits,
     CommandFits, HasMoved, Target, HeadAt, Moves, CommandOf, WaitsIrq, KeepsHeads,
     KeepsRequest, BdaType, DorType, FdcType, DriveType, OpType
<1>11. Programmed'
  BY <1>1, <1>2, <1>3, <1>4, <1>5, SMTT(30) DEF Programmed, PhaseFits, CommandFits,
     HeadsKnown, KeepsHeads, KeepsRequest, WaitsIrq, CommandOf, Moves, HeadAt, Target,
     HasMoved, BdaType, DorType, FdcType, DriveType, OpType
<1> QED BY <1>1, <1>2, <1>3, <1>4, <1>5, <1>6, <1>7, <1>8, <1>9, <1>10, <1>11

\* A request begins with the first step that is needed.
LEMMA EntersOther ==
  ASSUME FloppyInv, NEW c \in FloppyCommands \ {"reset"}, NEW d \in FloppyDrives, NEW cyl \in Cylinders,
         floppy_process_op(c, d, cyl)
  PROVE  FloppyInv'
<1> USE DEF FloppyInv, FloppyTypeOK
<1>1. op.pc = "idle"  BY DEF floppy_process_op
<1>2. bda' = bda /\ FloppyDOR' = FloppyDOR /\ fdc' = fdc /\ drive' = drive
  BY DEF floppy_process_op
<1>3. /\ op' \in OpType /\ op'.checks = 0
      /\ op'.unspecified = op.unspecified
      /\ \/ op'.pc = "idle" /\ op'.step = "reset"
         \/ op'.pc = "start" /\ op'.drive = d /\ op'.cylinder = cyl
            /\ \/ op'.step = "recal"
               \/ d \in bda.recal \cap bda.media /\ op'.step = "seek"
               \/ /\ d \in bda.recal \cap bda.media /\ cyl = bda.track[d]
                  /\ op'.step = "transfer"
  <2> DEFINE n == op.n + 1
             o == [op EXCEPT !.command = c, !.drive = d, !.cylinder = cyl, !.n = n]
             first == IF d \notin bda.recal \cap bda.media THEN "recal"
                      ELSE IF cyl # bda.track[d] THEN "seek" ELSE "transfer"
  <2>1. op \in OpType /\ n \in Nat  BY DEF OpType
  <2>2. op.checks = 0  BY <1>1 DEF CommandFits, OpType
  <2> HIDE DEF n
  <2>3. o \in OpType /\ o.checks = 0 /\ o.unspecified = op.unspecified /\ o.drive = d
        /\ o.cylinder = cyl
    BY <2>1, <2>2, Zenon DEF OpType
  <2>4. first \in {"recal", "seek", "transfer"}  OBVIOUS
  <2>5. MediaTypes \in Nat  BY FloppyAssumption
  <2>6. op' = IF first = "transfer" /\ c = "verify" THEN Return(o)
              ELSE [o EXCEPT !.pc = "start", !.step = first, !.tries = MediaTypes]
    BY DEF floppy_process_op, n
  <2> HIDE DEF o
  <2>7. CASE first = "transfer" /\ c = "verify"
    <3>1. op' = Return(o)  BY <2>6, <2>7
    <3> QED BY <2>3, <3>1, ReturnType
  <2>8. CASE ~(first = "transfer" /\ c = "verify")
    <3> HIDE DEF first
    <3>1. op' = [o EXCEPT !.pc = "start", !.step = first, !.tries = MediaTypes]
      BY <2>6, <2>8
    <3>2. op' \in OpType /\ op'.checks = 0 /\ op'.unspecified = op.unspecified
          /\ op'.pc = "start" /\ op'.step = first /\ op'.drive = d /\ op'.cylinder = cyl
      BY <2>3, <2>4, <2>5, <3>1, ZenonT(40) DEF OpType
    <3> QED BY <3>2, Zenon DEF first
  <2> QED BY <2>7, <2>8
<1>4. PhaseFits'
  BY <1>1, <1>2, <1>3, SMTT(30) DEF PhaseFits, CommandFits, IrqFits, Moves,
     KeepsRequest, WaitsIrq, CommandOf, BdaType, DorType, FdcType, DriveType, OpType
<1>5. IrqFits'
  BY <1>1, <1>2, <1>3, SMTT(30) DEF IrqFits, PhaseFits, Moves, KeepsRequest, BdaType,
     DorType, FdcType, DriveType, OpType
<1>6. CommandFits'
  BY <1>1, <1>2, <1>3, SMTT(30) DEF CommandFits, WaitsIrq, CommandOf, KeepsRequest,
     BdaType, DorType, FdcType, DriveType, OpType
<1>7. MotorLasts'
  BY <1>1, <1>2, <1>3, SMTT(30) DEF MotorLasts, CommandFits, WaitsIrq, CommandOf, On,
     KeepsRequest, BdaType, DorType, FdcType, DriveType, OpType
<1>8. HeadsKnown'
  BY <1>1, <1>2, <1>3, SMTT(30) DEF HeadsKnown, PhaseFits, IrqFits, CommandFits,
     HasMoved, Target, HeadAt, Moves, CommandOf, WaitsIrq, KeepsHeads, KeepsRequest,
     BdaType, DorType, FdcType, DriveType, OpType
<1>9. Programmed'
  BY <1>1, <1>2, <1>3, SMTT(30) DEF Programmed, PhaseFits, CommandFits, HeadsKnown,
     KeepsHeads, KeepsRequest, WaitsIrq, CommandOf, Moves, HeadAt, Target, HasMoved,
     BdaType, DorType, FdcType, DriveType, OpType
<1> QED BY <1>1, <1>2, <1>3, <1>4, <1>5, <1>6, <1>7, <1>8, <1>9

\* A response that is as long as expected leaves the controller idle.
Received ==
  /\ op.pc = "receiving" /\ (Receive(op.cmd) = 0 => fdc.phase = "idle")
  /\ fdc' \in FdcType /\ fdc'.phase = "idle" /\ fdc'.irq = FALSE
  /\ FloppyDOR' = FloppyDOR /\ drive' = drive

\* ReceiveAll leaves the controller idle.
LEMMA ReceivedFits ==
  ASSUME FloppyInv, ReceiveAll
  PROVE  Received
<1> USE DEF FloppyInv, FloppyTypeOK
<1>1. op.pc = "receiving" /\ fdc.irq = FALSE  BY DEF ReceiveAll, IrqFits, FdcType
<1>2. HasResult => fdc' = At("idle", fdc.senses)  BY DEF ReceiveAll
<1>3. ~HasResult => fdc' = fdc /\ fdc.phase = "idle"
  BY <1>1 DEF ReceiveAll, HasResult, PhaseFits
<1>4. At("idle", fdc.senses) \in FdcType /\ At("idle", fdc.senses).phase = "idle"
      /\ At("idle", fdc.senses).irq = FALSE
  BY FloppyAssumption DEF At, FdcType
<1>5. Receive(op.cmd) = 0 => fdc.phase = "idle"
  BY <1>1 DEF ReceiveAll, Ready, PhaseFits
<1>6. FloppyDOR' = FloppyDOR /\ drive' = drive  BY DEF ReceiveAll
<1> QED BY <1>1, <1>2, <1>3, <1>4, <1>5, <1>6 DEF Received

\* What PioEnds() does, told apart.
Ending ==
  \/ /\ op.cmd = "CHECKIRQ" /\ op.checks > 1 /\ bda' = bda
     /\ op' = [op EXCEPT !.pc = "sending", !.checks = @ - 1, !.time = 0]
  \/ /\ op.cmd = "CHECKIRQ" /\ op.checks = 1 /\ bda' = bda
     /\ op' = IF op.step = "reset" THEN Return(op)
              ELSE [op EXCEPT !.pc = "start", !.checks = 0]
  \/ /\ op.cmd \in {"SEEK", "RECALIBRATE"} /\ bda' = DriveCommandEnds(bda)
     /\ op' = [op EXCEPT !.pc = "sending", !.cmd = "CHECKIRQ", !.time = 0]
  \/ /\ StepEnds(DriveCommandEnds(bda)) /\ op.checks = 0
     /\ op.cmd \notin {"SEEK", "RECALIBRATE"}
  \/ /\ op.cmd \in {"READID", "DMA"} /\ op' = Failed /\ bda' = DriveCommandEnds(bda)

\* One of the four sense commands after a reset has ended.
LEMMA ChecksAgain ==
  ASSUME FloppyInv, Received, op.cmd = "CHECKIRQ", op.checks > 1, bda' = bda,
         op' = [op EXCEPT !.pc = "sending", !.checks = @ - 1, !.time = 0]
  PROVE  FloppyInv'
<1> USE DEF FloppyInv, FloppyTypeOK, Received
<1>1. op.cmd = "CHECKIRQ" /\ op.checks > 1 /\ bda' = bda  OBVIOUS
<1>2. /\ op' \in OpType /\ KeepsRequest(op') /\ op'.pc = "sending" /\ op'.cmd = op.cmd
      /\ op'.checks = op.checks - 1
  <2> DEFINE left == op.checks - 1
  <2>1. op \in OpType /\ left \in 0 .. 4  BY DEF OpType
  <2>2. op' = [op EXCEPT !.pc = "sending", !.checks = left, !.time = 0]  OBVIOUS
  <2> HIDE DEF left
  <2>3. op' \in OpType /\ KeepsRequest(op') /\ op'.pc = "sending" /\ op'.cmd = op.cmd
        /\ op'.checks = left
    BY Numbers, <2>1, <2>2, Zenon DEF OpType, KeepsRequest
  <2> QED BY <2>3 DEF left
<1>3. PhaseFits'
  BY <1>1, <1>2, SMTT(30) DEF PhaseFits, CommandFits, IrqFits, Moves, KeepsRequest,
     WaitsIrq, CommandOf, BdaType, DorType, FdcType, DriveType, OpType, Received
<1>4. IrqFits'
  BY <1>1, <1>2, SMTT(30) DEF IrqFits, PhaseFits, Moves, KeepsRequest, BdaType,
     DorType, FdcType, DriveType, OpType, Received
<1>5. CommandFits'
  BY <1>1, <1>2, SMTT(30) DEF CommandFits, WaitsIrq, CommandOf, KeepsRequest, BdaType,
     DorType, FdcType, DriveType, OpType, Received
<1>6. MotorLasts'
  BY <1>1, <1>2, SMTT(30) DEF MotorLasts, CommandFits, WaitsIrq, CommandOf, On,
     KeepsRequest, BdaType, DorType, FdcType, DriveType, OpType, Received
<1>7. HeadsKnown'
  BY <1>1, <1>2, SMTT(30) DEF HeadsKnown, PhaseFits, IrqFits, CommandFits, HasMoved,
     Target, HeadAt, Moves, CommandOf, WaitsIrq, KeepsHeads, KeepsRequest, BdaType,
     DorType, FdcType, DriveType, OpType, Received
<1>8. Programmed'
  BY <1>1, <1>2, SMTT(30) DEF Programmed, PhaseFits, CommandFits, HeadsKnown,
     KeepsHeads, KeepsRequest, WaitsIrq, CommandOf, Moves, HeadAt, Target, HasMoved,
     BdaType, DorType, FdcType, DriveType, OpType, Received
<1> QED BY <1>1, <1>2, <1>3, <1>4, <1>5, <1>6, <1>7, <1>8

\* The last of the sense commands after a reset has ended.
LEMMA ChecksDone ==
  ASSUME FloppyInv, Received, op.cmd = "CHECKIRQ", op.checks = 1, bda' = bda,
         op' = IF op.step = "reset" THEN Return(op)
               ELSE [op EXCEPT !.pc = "start", !.checks = 0]
  PROVE  FloppyInv'
<1> USE DEF FloppyInv, FloppyTypeOK, Received
<1>1. op.cmd = "CHECKIRQ" /\ op.checks = 1 /\ bda' = bda  OBVIOUS
<1>2. /\ op' \in OpType /\ op'.checks = 0
      /\ IF op.step = "reset"
         THEN op'.pc = "idle" /\ op'.step = "reset" /\ op'.unspecified = op.unspecified
         ELSE op'.pc = "start" /\ KeepsRequest(op')
  <2>1. op \in OpType  OBVIOUS
  <2>2. CASE op.step = "reset"
    <3>1. op' = Return(op)  BY <2>2
    <3> QED BY <2>1, <2>2, <3>1, ReturnType
  <2>3. CASE op.step # "reset"
    <3>1. op' = [op EXCEPT !.pc = "start", !.checks = 0]  BY <2>3
    <3> QED BY Numbers, <2>1, <2>3, <3>1, Zenon DEF OpType, KeepsRequest
  <2> QED BY <2>2, <2>3
<1>3. PhaseFits'
  BY <1>1, <1>2, SMTT(30) DEF PhaseFits, CommandFits, IrqFits, Moves, KeepsRequest,
     WaitsIrq, CommandOf, BdaType, DorType, FdcType, DriveType, OpType, Received
<1>4. IrqFits'
  BY <1>1, <1>2, SMTT(30) DEF IrqFits, PhaseFits, Moves, KeepsRequest, BdaType,
     DorType, FdcType, DriveType, OpType, Received
<1>5. CommandFits'
  BY <1>1, <1>2, SMTT(30) DEF CommandFits, WaitsIrq, CommandOf, KeepsRequest, BdaType,
     DorType, FdcType, DriveType, OpType, Received
<1>6. MotorLasts'
  BY <1>1, <1>2, SMTT(30) DEF MotorLasts, CommandFits, WaitsIrq, CommandOf, On,
     KeepsRequest, BdaType, DorType, FdcType, DriveType, OpType, Received
<1>7. HeadsKnown'
  BY <1>1, <1>2, SMTT(30) DEF HeadsKnown, PhaseFits, IrqFits, CommandFits, HasMoved,
     Target, HeadAt, Moves, CommandOf, WaitsIrq, KeepsHeads, KeepsRequest, BdaType,
     DorType, FdcType, DriveType, OpType, Received
<1>8. Programmed'
  BY <1>1, <1>2, SMTT(30) DEF Programmed, PhaseFits, CommandFits, HeadsKnown,
     KeepsHeads, KeepsRequest, WaitsIrq, CommandOf, Moves, HeadAt, Target, HasMoved,
     BdaType, DorType, FdcType, DriveType, OpType, Received
<1> QED BY <1>1, <1>2, <1>3, <1>4, <1>5, <1>6, <1>7, <1>8

\* SEEK or RECALIBRATE has ended: its result is asked for.
LEMMA SensesMove ==
  ASSUME FloppyInv, Received, op.cmd \in {"SEEK", "RECALIBRATE"}, bda' = DriveCommandEnds(bda),
         op' = [op EXCEPT !.pc = "sending", !.cmd = "CHECKIRQ", !.time = 0]
  PROVE  FloppyInv'
<1> USE DEF FloppyInv, FloppyTypeOK, Received
<1>1. op.cmd \in {"SEEK", "RECALIBRATE"}  OBVIOUS
<1>2. bda' \in BdaType /\ KeepsHeads(bda')  BY DriveEnds
<1>3. /\ op' \in OpType /\ KeepsRequest(op') /\ op'.pc = "sending"
      /\ op'.cmd = "CHECKIRQ" /\ op'.checks = op.checks
  <2>1. op \in OpType /\ op' = [op EXCEPT !.pc = "sending", !.cmd = "CHECKIRQ", !.time = 0]
    OBVIOUS
  <2> QED BY Numbers, <2>1, Zenon DEF OpType, KeepsRequest
<1>4. PhaseFits'
  BY <1>1, <1>2, <1>3, SMTT(30) DEF PhaseFits, CommandFits, IrqFits, Moves,
     KeepsRequest, WaitsIrq, CommandOf, BdaType, DorType, FdcType, DriveType, OpType,
     Received
<1>5. IrqFits'
  BY <1>1, <1>2, <1>3, SMTT(30) DEF IrqFits, PhaseFits, Moves, KeepsRequest, BdaType,
     DorType, FdcType, DriveType, OpType, Received
<1>6. CommandFits'
  BY <1>1, <1>2, <1>3, SMTT(30) DEF CommandFits, WaitsIrq, CommandOf, KeepsRequest,
     BdaType, DorType, FdcType, DriveType, OpType, Received
<1>7. MotorLasts'
  BY <1>1, <1>2, <1>3, SMTT(30) DEF MotorLasts, CommandFits, WaitsIrq, CommandOf, On,
     KeepsRequest, BdaType, DorType, FdcType, DriveType, OpType, Received
<1>8. HeadsKnown'
  BY <1>1, <1>2, <1>3, SMTT(30) DEF HeadsKnown, PhaseFits, IrqFits, CommandFits,
     HasMoved, Target, HeadAt, Moves, CommandOf, WaitsIrq, KeepsHeads, KeepsRequest,
     BdaType, DorType, FdcType, DriveType, OpType, Received
<1>9. Programmed'
  BY <1>1, <1>2, <1>3, SMTT(30) DEF Programmed, PhaseFits, CommandFits, HeadsKnown,
     KeepsHeads, KeepsRequest, WaitsIrq, CommandOf, Moves, HeadAt, Target, HasMoved,
     BdaType, DorType, FdcType, DriveType, OpType, Received
<1> QED BY <1>1, <1>2, <1>3, <1>4, <1>5, <1>6, <1>7, <1>8, <1>9

\* READ ID or a transfer has failed.
LEMMA CommandFails ==
  ASSUME FloppyInv, Received, op.cmd \in {"READID", "DMA"}, op' = Failed,
         bda' = DriveCommandEnds(bda)
  PROVE  FloppyInv'
<1> USE DEF FloppyInv, FloppyTypeOK, Received
<1>1. op.cmd \in {"READID", "DMA"}  OBVIOUS
<1>2. bda' \in BdaType /\ KeepsHeads(bda')  BY DriveEnds
<1>3. /\ op' \in OpType /\ op'.checks = 0
      /\ \/ /\ op.step = "sense" /\ op'.pc = "start" /\ KeepsRequest(op')
         \/ /\ op'.pc = "idle" /\ op'.step = "reset"
            /\ (op'.unspecified <=> (op.unspecified \/ op.step = "specify"))
  BY FailedFits, Zenon
<1>4. PhaseFits'
  BY <1>1, <1>2, <1>3, SMTT(30) DEF PhaseFits, CommandFits, IrqFits, Moves,
     KeepsRequest, WaitsIrq, CommandOf, BdaType, DorType, FdcType, DriveType, OpType,
     Received
<1>5. IrqFits'
  BY <1>1, <1>2, <1>3, SMTT(30) DEF IrqFits, PhaseFits, Moves, KeepsRequest, BdaType,
     DorType, FdcType, DriveType, OpType, Received
<1>6. CommandFits'
  BY <1>1, <1>2, <1>3, SMTT(30) DEF CommandFits, WaitsIrq, CommandOf, KeepsRequest,
     BdaType, DorType, FdcType, DriveType, OpType, Received
<1>7. MotorLasts'
  BY <1>1, <1>2, <1>3, SMTT(30) DEF MotorLasts, CommandFits, WaitsIrq, CommandOf, On,
     KeepsRequest, BdaType, DorType, FdcType, DriveType, OpType, Received
<1>8. HeadsKnown'
  BY <1>1, <1>2, <1>3, SMTT(30) DEF HeadsKnown, PhaseFits, IrqFits, CommandFits,
     HasMoved, Target, HeadAt, Moves, CommandOf, WaitsIrq, KeepsHeads, KeepsRequest,
     BdaType, DorType, FdcType, DriveType, OpType, Received
<1>9. Programmed'
  BY <1>1, <1>2, <1>3, SMTT(30) DEF Programmed, PhaseFits, CommandFits, HeadsKnown,
     KeepsHeads, KeepsRequest, WaitsIrq, CommandOf, Moves, HeadAt, Target, HasMoved,
     BdaType, DorType, FdcType, DriveType, OpType, Received
<1> QED BY <1>1, <1>2, <1>3, <1>4, <1>5, <1>6, <1>7, <1>8, <1>9

\* floppy_drive_recal() returns with the head on track 0.
LEMMA RecalEnds ==
  ASSUME FloppyInv, NEW b \in BdaType, KeepsHeads(b), Received,
         op.cmd \notin {"SEEK", "RECALIBRATE"}, op.checks = 0, op.step = "recal", StepEnds(b)
  PROVE  FloppyInv'
<1> USE DEF FloppyInv, FloppyTypeOK, Received
<1>1. op.step = "recal" /\ op.checks = 0 /\ op.cmd \notin {"SEEK", "RECALIBRATE"}
  OBVIOUS
<1>2. /\ bda' \in BdaType /\ bda'.recal = bda.recal \cup {op.drive} /\ bda'.media = bda.media
      /\ bda'.track[op.drive] = 0 /\ \A d \in FloppyDrives \ {op.drive} : bda'.track[d] = bda.track[d]
  <2>1. op.drive \in FloppyDrives /\ 0 \in Cylinders  BY FloppyAssumption DEF OpType
  <2>2. bda' = [b EXCEPT !.recal = @ \cup {op.drive}, !.track[op.drive] = 0]
    BY DEF StepEnds
  <2>3. b.recal = bda.recal /\ b.media = bda.media /\ b.track = bda.track
    BY DEF KeepsHeads
  <2> QED BY <2>1, <2>2, <2>3, Zenon DEF BdaType
<1>3. op' = StartStep("sense")  BY DEF StepEnds
<1>4. op' \in OpType /\ op'.pc = "start" /\ op'.step = "sense" /\ op'.checks = op.checks
      /\ op'.drive = op.drive /\ op'.cylinder = op.cylinder /\ op'.unspecified = op.unspecified
  BY StartStepType, <1>3
<1>5. PhaseFits'
  BY <1>1, <1>2, <1>3, <1>4, SMTT(30) DEF PhaseFits, CommandFits, IrqFits, Moves,
     KeepsRequest, WaitsIrq, CommandOf, BdaType, DorType, FdcType, DriveType, OpType,
     Received
<1>6. IrqFits'
  BY <1>1, <1>2, <1>3, <1>4, SMTT(30) DEF IrqFits, PhaseFits, Moves, KeepsRequest,
     BdaType, DorType, FdcType, DriveType, OpType, Received
<1>7. CommandFits'
  BY <1>1, <1>2, <1>3, <1>4, SMTT(30) DEF CommandFits, WaitsIrq, CommandOf,
     KeepsRequest, BdaType, DorType, FdcType, DriveType, OpType, Received
<1>8. MotorLasts'
  BY <1>1, <1>2, <1>3, <1>4, SMTT(30) DEF MotorLasts, CommandFits, WaitsIrq,
     CommandOf, On, KeepsRequest, BdaType, DorType, FdcType, DriveType, OpType,
     Received
<1>9. HeadsKnown'
  BY <1>1, <1>2, <1>3, <1>4, SMTT(30) DEF HeadsKnown, PhaseFits, IrqFits, CommandFits,
     HasMoved, Target, HeadAt, Moves, CommandOf, WaitsIrq, KeepsHeads, KeepsRequest,
     BdaType, DorType, FdcType, DriveType, OpType, Received
<1>10. Programmed'
  BY <1>1, <1>2, <1>3, <1>4, SMTT(30) DEF Programmed, PhaseFits, CommandFits,
     HeadsKnown, KeepsHeads, KeepsRequest, WaitsIrq, CommandOf, Moves, HeadAt, Target,
     HasMoved, BdaType, DorType, FdcType, DriveType, OpType, Received
<1> QED BY <1>1, <1>2, <1>3, <1>4, <1>5, <1>6, <1>7, <1>8, <1>9, <1>10

\* floppy_media_sense() has found the type of the medium.
LEMMA SenseEnds ==
  ASSUME FloppyInv, NEW b \in BdaType, KeepsHeads(b), Received,
         op.cmd \notin {"SEEK", "RECALIBRATE"}, op.checks = 0, op.step = "sense", StepEnds(b)
  PROVE  FloppyInv'
<1> USE DEF FloppyInv, FloppyTypeOK, Received
<1>1. op.step = "sense" /\ op.checks = 0 /\ op.cmd \notin {"SEEK", "RECALIBRATE"}
  OBVIOUS
<1>2. bda' \in BdaType /\ bda'.recal = bda.recal /\ bda'.track = bda.track
  <2>1. op.drive \in FloppyDrives  BY DEF OpType
  <2>2. bda' = [b EXCEPT !.media = @ \cup {op.drive}]  BY DEF StepEnds
  <2>3. b.recal = bda.recal /\ b.track = bda.track  BY DEF KeepsHeads
  <2> QED BY <2>1, <2>2, <2>3, Zenon DEF BdaType
<1>3. op' = StartStep("specify")  BY DEF StepEnds
<1>4. op' \in OpType /\ op'.pc = "start" /\ op'.step = "specify" /\ op'.checks = op.checks
      /\ op'.drive = op.drive /\ op'.cylinder = op.cylinder /\ op'.unspecified = op.unspecified
  BY StartStepType, <1>3
<1>5. PhaseFits'
  BY <1>1, <1>2, <1>3, <1>4, SMTT(30) DEF PhaseFits, CommandFits, IrqFits, Moves,
     KeepsRequest, WaitsIrq, CommandOf, BdaType, DorType, FdcType, DriveType, OpType,
     Received
<1>6. IrqFits'
  BY <1>1, <1>2, <1>3, <1>4, SMTT(30) DEF IrqFits, PhaseFits, Moves, KeepsRequest,
     BdaType, DorType, FdcType, DriveType, OpType, Received
<1>7. CommandFits'
  BY <1>1, <1>2, <1>3, <1>4, SMTT(30) DEF CommandFits, WaitsIrq, CommandOf,
     KeepsRequest, BdaType, DorType, FdcType, DriveType, OpType, Received
<1>8. MotorLasts'
  BY <1>1, <1>2, <1>3, <1>4, SMTT(30) DEF MotorLasts, CommandFits, WaitsIrq,
     CommandOf, On, KeepsRequest, BdaType, DorType, FdcType, DriveType, OpType,
     Received
<1>9. HeadsKnown'
  BY <1>1, <1>2, <1>3, <1>4, SMTT(30) DEF HeadsKnown, PhaseFits, IrqFits, CommandFits,
     HasMoved, Target, HeadAt, Moves, CommandOf, WaitsIrq, KeepsHeads, KeepsRequest,
     BdaType, DorType, FdcType, DriveType, OpType, Received
<1>10. Programmed'
  BY <1>1, <1>2, <1>3, <1>4, SMTT(30) DEF Programmed, PhaseFits, CommandFits,
     HeadsKnown, KeepsHeads, KeepsRequest, WaitsIrq, CommandOf, Moves, HeadAt, Target,
     HasMoved, BdaType, DorType, FdcType, DriveType, OpType, Received
<1> QED BY <1>1, <1>2, <1>3, <1>4, <1>5, <1>6, <1>7, <1>8, <1>9, <1>10

\* floppy_drive_specify() returns, and floppy_prep() looks at the track.
LEMMA SpecifyEnds ==
  ASSUME FloppyInv, NEW b \in BdaType, KeepsHeads(b), Received,
         op.cmd \notin {"SEEK", "RECALIBRATE"}, op.checks = 0, op.step = "specify", StepEnds(b)
  PROVE  FloppyInv'
<1> USE DEF FloppyInv, FloppyTypeOK, Received
<1>1. op.step = "specify" /\ op.checks = 0 /\ op.cmd \notin {"SEEK", "RECALIBRATE"}
  OBVIOUS
<1>2. op.cmd = "SPECIFY" /\ fdc.phase = "idle"
  <2>1. op.cmd = "SPECIFY"  BY <1>1 DEF CommandFits, CommandOf
  <2> QED BY <2>1 DEF Receive
<1>3. bda' = b  BY DEF StepEnds
<1>4. op' \in OpType /\ op'.checks = 0 /\ op'.unspecified = op.unspecified
      /\ \/ op'.pc = "idle" /\ op'.step = "reset"
         \/ /\ op'.pc = "start" /\ op'.drive = op.drive /\ op'.cylinder = op.cylinder
            /\ op'.step \in {"seek", "transfer"}
            /\ op'.step = "transfer" => op.cylinder = bda.track[op.drive]
  <2>1. op' = AfterPrep(bda.track[op.drive])  BY DEF StepEnds, KeepsHeads
  <2>2. op' \in {StartStep("seek"), Return(op), StartStep("transfer")}
        /\ (op' = StartStep("transfer") => op.cylinder = bda.track[op.drive] \/ op' = StartStep("seek"))
    BY <2>1 DEF AfterPrep
  <2> QED BY <1>1, <2>2, StartStepType, ReturnType
<1>5. PhaseFits'
  BY <1>1, <1>2, <1>3, <1>4, SMTT(30) DEF PhaseFits, CommandFits, IrqFits, Moves,
     KeepsRequest, WaitsIrq, CommandOf, BdaType, DorType, FdcType, DriveType, OpType,
     Received
<1>6. IrqFits'
  BY <1>1, <1>2, <1>3, <1>4, SMTT(30) DEF IrqFits, PhaseFits, Moves, KeepsRequest,
     BdaType, DorType, FdcType, DriveType, OpType, Received
<1>7. CommandFits'
  BY <1>1, <1>2, <1>3, <1>4, SMTT(30) DEF CommandFits, WaitsIrq, CommandOf,
     KeepsRequest, BdaType, DorType, FdcType, DriveType, OpType, Received
<1>8. MotorLasts'
  BY <1>1, <1>2, <1>3, <1>4, SMTT(30) DEF MotorLasts, CommandFits, WaitsIrq,
     CommandOf, On, KeepsRequest, BdaType, DorType, FdcType, DriveType, OpType,
     Received
<1>9. HeadsKnown'
  BY <1>1, <1>2, <1>3, <1>4, SMTT(30) DEF HeadsKnown, PhaseFits, IrqFits, CommandFits,
     HasMoved, Target, HeadAt, Moves, CommandOf, WaitsIrq, KeepsHeads, KeepsRequest,
     BdaType, DorType, FdcType, DriveType, OpType, Received
<1>10. Programmed'
  BY <1>1, <1>2, <1>3, <1>4, SMTT(30) DEF Programmed, PhaseFits, CommandFits,
     HeadsKnown, KeepsHeads, KeepsRequest, WaitsIrq, CommandOf, Moves, HeadAt, Target,
     HasMoved, BdaType, DorType, FdcType, DriveType, OpType, Received
<1> QED BY <1>1, <1>2, <1>3, <1>4, <1>5, <1>6, <1>7, <1>8, <1>9, <1>10

\* floppy_drive_seek() returns with the head where it was sent.
LEMMA SeekEnds ==
  ASSUME FloppyInv, NEW b \in BdaType, KeepsHeads(b), Received,
         op.cmd \notin {"SEEK", "RECALIBRATE"}, op.checks = 0, op.step = "seek", StepEnds(b)
  PROVE  FloppyInv'
<1> USE DEF FloppyInv, FloppyTypeOK, Received
<1>1. op.step = "seek" /\ op.checks = 0 /\ op.cmd \notin {"SEEK", "RECALIBRATE"}
  OBVIOUS
<1>2. /\ bda' \in BdaType /\ bda'.recal = bda.recal /\ bda'.media = bda.media
      /\ bda'.track[op.drive] = op.cylinder
      /\ \A d \in FloppyDrives \ {op.drive} : bda'.track[d] = bda.track[d]
  <2>1. op.drive \in FloppyDrives /\ op.cylinder \in Cylinders  BY DEF OpType
  <2>2. bda' = [b EXCEPT !.track[op.drive] = op.cylinder]  BY DEF StepEnds
  <2>3. b.recal = bda.recal /\ b.media = bda.media /\ b.track = bda.track
    BY DEF KeepsHeads
  <2> QED BY <2>1, <2>2, <2>3, Zenon DEF BdaType
<1>3. op' \in OpType /\ op'.checks = 0 /\ op'.unspecified = op.unspecified
      /\ \/ op'.pc = "idle" /\ op'.step = "reset"
         \/ /\ op'.pc = "start" /\ op'.drive = op.drive /\ op'.cylinder = op.cylinder
            /\ op'.step = "transfer"
  <2>1. op' \in {Return(op), StartStep("transfer")}  BY DEF StepEnds
  <2> QED BY <1>1, <2>1, StartStepType, ReturnType
<1>4. PhaseFits'
  BY <1>1, <1>2, <1>3, SMTT(30) DEF PhaseFits, CommandFits, IrqFits, Moves,
     KeepsRequest, WaitsIrq, CommandOf, BdaType, DorType, FdcType, DriveType, OpType,
     Received
<1>5. IrqFits'
  BY <1>1, <1>2, <1>3, SMTT(30) DEF IrqFits, PhaseFits, Moves, KeepsRequest, BdaType,
     DorType, FdcType, DriveType, OpType, Received
<1>6. CommandFits'
  BY <1>1, <1>2, <1>3, SMTT(30) DEF CommandFits, WaitsIrq, CommandOf, KeepsRequest,
     BdaType, DorType, FdcType, DriveType, OpType, Received
<1>7. MotorLasts'
  BY <1>1, <1>2, <1>3, SMTT(30) DEF MotorLasts, CommandFits, WaitsIrq, CommandOf, On,
     KeepsRequest, BdaType, DorType, FdcType, DriveType, OpType, Received
<1>8. HeadsKnown'
  BY <1>1, <1>2, <1>3, SMTT(30) DEF HeadsKnown, PhaseFits, IrqFits, CommandFits,
     HasMoved, Target, HeadAt, Moves, CommandOf, WaitsIrq, KeepsHeads, KeepsRequest,
     BdaType, DorType, FdcType, DriveType, OpType, Received
<1>9. Programmed'
  BY <1>1, <1>2, <1>3, SMTT(30) DEF Programmed, PhaseFits, CommandFits, HeadsKnown,
     KeepsHeads, KeepsRequest, WaitsIrq, CommandOf, Moves, HeadAt, Target, HasMoved,
     BdaType, DorType, FdcType, DriveType, OpType, Received
<1> QED BY <1>1, <1>2, <1>3, <1>4, <1>5, <1>6, <1>7, <1>8, <1>9

\* A transfer, or a transfer that only verifies, returns.
LEMMA TransferEnds ==
  ASSUME FloppyInv, NEW b \in BdaType, KeepsHeads(b), Received,
         op.cmd \notin {"SEEK", "RECALIBRATE"}, op.checks = 0, op.step = "transfer", StepEnds(b)
  PROVE  FloppyInv'
<1> USE DEF FloppyInv, FloppyTypeOK, Received
<1>1. op.step = "transfer" /\ op.checks = 0 /\ op.cmd \notin {"SEEK", "RECALIBRATE"}
  OBVIOUS
<1>2. bda' = b  BY DEF StepEnds
<1>3. op' \in OpType /\ op'.pc = "idle" /\ op'.checks = 0 /\ op'.step = "reset"
      /\ op'.unspecified = op.unspecified
  <2>1. op' = Return(op)  BY DEF StepEnds
  <2> QED BY <2>1, ReturnType
<1>4. PhaseFits'
  BY <1>1, <1>2, <1>3, SMTT(30) DEF PhaseFits, CommandFits, IrqFits, Moves,
     KeepsRequest, WaitsIrq, CommandOf, BdaType, DorType, FdcType, DriveType, OpType,
     Received
<1>5. IrqFits'
  BY <1>1, <1>2, <1>3, SMTT(30) DEF IrqFits, PhaseFits, Moves, KeepsRequest, BdaType,
     DorType, FdcType, DriveType, OpType, Received
<1>6. CommandFits'
  BY <1>1, <1>2, <1>3, SMTT(30) DEF CommandFits, WaitsIrq, CommandOf, KeepsRequest,
     BdaType, DorType, FdcType, DriveType, OpType, Received
<1>7. MotorLasts'
  BY <1>1, <1>2, <1>3, SMTT(30) DEF MotorLasts, CommandFits, WaitsIrq, CommandOf, On,
     KeepsRequest, BdaType, DorType, FdcType, DriveType, OpType, Received
<1>8. HeadsKnown'
  BY <1>1, <1>2, <1>3, SMTT(30) DEF HeadsKnown, PhaseFits, IrqFits, CommandFits,
     HasMoved, Target, HeadAt, Moves, CommandOf, WaitsIrq, KeepsHeads, KeepsRequest,
     BdaType, DorType, FdcType, DriveType, OpType, Received
<1>9. Programmed'
  BY <1>1, <1>2, <1>3, SMTT(30) DEF Programmed, PhaseFits, CommandFits, HeadsKnown,
     KeepsHeads, KeepsRequest, WaitsIrq, CommandOf, Moves, HeadAt, Target, HasMoved,
     BdaType, DorType, FdcType, DriveType, OpType, Received
<1> QED BY <1>1, <1>2, <1>3, <1>4, <1>5, <1>6, <1>7, <1>8, <1>9

\* What follows a command is one of these.
LEMMA EndingFits ==
  ASSUME FloppyInv, ReceiveAll
  PROVE  Ending
<1> USE DEF FloppyInv, FloppyTypeOK
<1>1. PioEnds(fdc.ok \/ Receive(op.cmd) # 7)  BY DEF ReceiveAll
<1>2. op.checks \in 0 .. 4  BY DEF OpType
<1>3. op.cmd \in {"RECALIBRATE", "READID", "SPECIFY", "SEEK", "DMA", "CHECKIRQ"}
  BY DEF OpType
<1>4. CASE op.cmd = "CHECKIRQ" /\ op.checks > 0
  BY <1>1, <1>2, <1>4 DEF PioEnds, Ending
<1>5. CASE op.cmd \in {"SEEK", "RECALIBRATE"}
  BY <1>1, <1>5 DEF PioEnds, Ending
<1>6. CASE op.cmd \in {"READID", "DMA"}
  <2>1. op.checks = 0  BY <1>2, <1>6 DEF CommandFits
  <2> QED BY <1>1, <1>6, <2>1 DEF PioEnds, Ending
<1>7. CASE op.cmd = "SPECIFY" \/ (op.cmd = "CHECKIRQ" /\ op.checks = 0)
  <2>1. Receive(op.cmd) # 7  BY <1>7 DEF Receive
  <2>2. StepEnds(DriveCommandEnds(bda))  BY <1>1, <1>7, <2>1 DEF PioEnds
  <2>3. op.checks = 0  BY <1>2, <1>7 DEF CommandFits
  <2> QED BY <1>7, <2>2, <2>3 DEF Ending
<1> QED BY <1>2, <1>3, <1>4, <1>5, <1>6, <1>7

\* Whatever follows a command keeps the invariant.
LEMMA Receives ==
  ASSUME FloppyInv, ReceiveAll
  PROVE  FloppyInv'
<1> USE DEF FloppyInv, FloppyTypeOK
<1>1. Received  BY ReceivedFits
<1>2. Ending  BY EndingFits
<1>3. CASE StepEnds(DriveCommandEnds(bda)) /\ op.checks = 0
           /\ op.cmd \notin {"SEEK", "RECALIBRATE"}
  <2> DEFINE b == DriveCommandEnds(bda)
  <2>1. b \in BdaType /\ KeepsHeads(b)  BY DriveEnds
  <2> HIDE DEF b
  <2>2. StepEnds(b)  BY <1>3 DEF b
  <2>3. op.step # "reset"
    BY <1>1, <1>3 DEF CommandFits, Received
  <2>4. op.step \in {"recal", "sense", "specify", "seek", "transfer"}
    BY <2>3 DEF OpType
  <2> HIDE DEF FloppyInv, FloppyTypeOK
  <2> QED BY <1>1, <1>3, <2>1, <2>2, <2>4, RecalEnds, SenseEnds, SpecifyEnds, SeekEnds,
             TransferEnds, Zenon
<1>4. op.checks \in 0 .. 4 /\ (op.checks > 0 => op.cmd = "CHECKIRQ")
  BY DEF OpType, CommandFits
<1>5. CASE op.cmd = "CHECKIRQ" /\ op.checks > 1 /\ bda' = bda
           /\ op' = [op EXCEPT !.pc = "sending", !.checks = @ - 1, !.time = 0]
  BY <1>1, <1>5, ChecksAgain, Zenon
<1>6. CASE op.cmd = "CHECKIRQ" /\ op.checks = 1 /\ bda' = bda
           /\ op' = IF op.step = "reset" THEN Return(op)
                    ELSE [op EXCEPT !.pc = "start", !.checks = 0]
  BY <1>1, <1>6, ChecksDone, Zenon
<1>7. CASE op.cmd \in {"SEEK", "RECALIBRATE"} /\ bda' = DriveCommandEnds(bda)
           /\ op' = [op EXCEPT !.pc = "sending", !.cmd = "CHECKIRQ", !.time = 0]
  BY <1>1, <1>7, SensesMove, Zenon
<1>8. CASE op.cmd \in {"READID", "DMA"} /\ op' = Failed /\ bda' = DriveCommandEnds(bda)
  BY <1>1, <1>8, CommandFails, Zenon
<1> QED BY <1>2, <1>3, <1>5, <1>6, <1>7, <1>8 DEF Ending

\* floppy_setup() leaves the driver and the controller as the invariant says.
LEMMA FloppyInitFits == ASSUME FloppyInit PROVE FloppyInv
<1>1. 0 \in Cylinders  BY FloppyAssumption
<1>2. fdc \in FdcType /\ fdc.phase = "reset" /\ fdc.irq = FALSE
  BY InResetType DEF FloppyInit
<1>3. op \in OpType /\ op.pc = "idle" /\ op.checks = 0 /\ op.step = "reset"
  BY IdleType DEF FloppyInit, Idle
<1>4. bda \in BdaType /\ bda.recal = {} /\ bda.media = {} /\ bda.irq = FALSE
  BY <1>1 DEF FloppyInit, BdaType
<1>5. FloppyDOR \in DorType /\ FloppyDOR.reset = FALSE
  BY DEF FloppyInit, DorType
<1>6. drive \in DriveType  BY DEF FloppyInit, DriveType
<1>7. PhaseFits /\ IrqFits /\ CommandFits /\ MotorLasts
  BY <1>2, <1>3, <1>4, <1>5 DEF PhaseFits, IrqFits, CommandFits, MotorLasts
<1>8. HeadsKnown /\ Programmed
  BY <1>2, <1>3, <1>4, <1>5 DEF HeadsKnown, Programmed, HasMoved
<1> QED BY <1>2, <1>3, <1>4, <1>5, <1>6, <1>7, <1>8 DEF FloppyInv, FloppyTypeOK

\* The invariant is one of the variables of the model.
LEMMA FloppyStutters == ASSUME FloppyInv, UNCHANGED floppyVars PROVE FloppyInv'
BY DEF FloppyInv, FloppyTypeOK, floppyVars, PhaseFits, IrqFits, CommandFits, MotorLasts,
       HeadsKnown, Programmed, HasMoved, HeadAt, Target, On

\* Every step of the driver, the controller, the interrupt and the tick keeps it.
LEMMA FloppyStep == ASSUME FloppyInv, FloppyNext PROVE FloppyInv'
<1>1. ASSUME NEW c \in FloppyCommands, NEW d \in FloppyDrives, NEW cyl \in Cylinders,
             floppy_process_op(c, d, cyl)
      PROVE  FloppyInv'
  BY <1>1, EntersReset, EntersOther
<1>2. CASE floppy_drive_pio
  <2>1. FloppyDOR.reset \in BOOLEAN  BY DEF FloppyInv, FloppyTypeOK, DorType
  <2> QED BY <1>2, <2>1, Settles, SendsSpecify, SendsOther, Zenon
<1>3. CASE LeaveReset  BY <1>3, Leaves
<1>4. CASE IrqSeen
  <2>1. op.pc = "enabling" \/ op.pc = "waiting"  BY <1>4 DEF IrqSeen
  <2> QED BY <1>4, <2>1, SeesEnabled, SeesDone
<1>5. CASE ReceiveAll  BY <1>5, Receives
<1>6. CASE OutOfStep \/ TimesOut
  BY <1>6, Disables DEF OutOfStep, TimesOut
<1>7. CASE handle_0e  BY <1>7, Interrupt
<1>8. CASE floppy_tick  BY <1>8, Tick
<1>9. ASSUME NEW ok \in BOOLEAN, Send(ok) PROVE FloppyInv'
  <2>1. op.cmd \in {"RECALIBRATE", "READID", "SPECIFY", "SEEK", "DMA", "CHECKIRQ"}
    BY DEF FloppyInv, FloppyTypeOK, OpType
  <2>2. CASE ~ok
    <3>1. op.cmd # "CHECKIRQ"  BY <1>9, <2>2 DEF Send
    <3> QED BY <1>9, <2>2, <3>1, SendsUnknown, Zenon
  <2>3. CASE ok /\ op.cmd = "CHECKIRQ"  BY <1>9, <2>3, SendsSense, Zenon
  <2>4. CASE ok /\ op.cmd \in {"RECALIBRATE", "SEEK"}  BY <1>9, <2>4, SendsMove, Zenon
  <2>5. CASE ok /\ op.cmd = "SPECIFY"  BY <1>9, <2>5, SendsSpecified, Zenon
  <2>6. CASE ok /\ op.cmd \in {"READID", "DMA"}  BY <1>9, <2>6, SendsExec, Zenon
  <2> QED BY <2>1, <2>2, <2>3, <2>4, <2>5, <2>6
<1>10. ASSUME NEW ok \in BOOLEAN, Completes(ok) PROVE FloppyInv'
  <2>1. fdc.phase = "resetting" \/ fdc.phase = "seeking" \/ fdc.phase = "exec"
    BY <1>10 DEF Completes
  <2> QED BY <1>10, <2>1, LeftReset, HeadMoved, Transferred
<1> QED BY <1>1, <1>2, <1>3, <1>4, <1>5, <1>6, <1>7, <1>8, <1>9, <1>10 DEF FloppyNext

\* The invariant is stronger than the property.
LEMMA InStepFromInv == ASSUME FloppyInv PROVE FloppyInStep
<1> USE DEF FloppyInv, FloppyTypeOK
<1>1. op.pc = "sending" => ~HasResult  BY DEF PhaseFits, HasResult
<1>2. ASSUME fdc.phase \in {"seeking", "exec"}, op.pc # "idle"
      PROVE  FloppyDOR.motor = {op.drive} /\ FloppyDOR.irq /\ FloppyDOR.reset
  <2>1. op.pc = "waiting"  BY <1>2 DEF PhaseFits, OpType
  <2> QED BY <2>1 DEF MotorLasts, On
<1>3. ASSUME fdc.phase = "exec", op.step = "transfer"
      PROVE  /\ drive.head[op.drive] = op.cylinder \/ op.drive \in drive.astray
             /\ drive.specified \/ op.unspecified
  <2>1. op.pc = "waiting"  BY <1>3 DEF PhaseFits, OpType
  <2> QED BY <1>3, <2>1 DEF HeadsKnown, HeadAt, Programmed
<1>4. op.pc = "idle" => fdc.phase \in {"reset", "idle"}  BY DEF PhaseFits
<1>5. ~FloppyDOR.reset <=> fdc.phase = "reset"  BY DEF PhaseFits
<1> QED BY <1>1, <1>2, <1>3, <1>4, <1>5 DEF FloppyInStep

\* Whatever requests, failures, late interrupts and ticks the driver meets, and however
\* many, it stays in step with the controller, the motor and the heads.
THEOREM DrivesCorrect == FloppySpec => []FloppyInStep
<1>1. FloppyInit => FloppyInv  BY FloppyInitFits
<1>2. FloppyInv /\ [FloppyNext]_floppyVars => FloppyInv'  BY FloppyStep, FloppyStutters
<1>3. FloppyInv => FloppyInStep  BY InStepFromInv
<1> QED BY <1>1, <1>2, <1>3, PTL DEF FloppySpec

----------------------------------------------------------------------------
(* Mode switches and stack hops.  The calls in progress are levels: where each *)
(* runs, what it has saved and where, and what the one around it needs.       *)

Segments == {env.ss : env \in Environments} \cup {"low", "zero", "junk"}
Gdts == {env.gdt : env \in Environments} \cup {"bios", "none"}
Methods == {"none", "big", "smm"}

CpuType ==
  [mode : {"real", "flat"}, ss : Segments, sp : Int, a20 : BOOLEAN, gdt : Gdts,
   nmi : BOOLEAN, pe : BOOLEAN]
DataType ==
  [method : Methods, ss : Segments, a20 : BOOLEAN, gdt : Gdts, nmi : BOOLEAN]
SmmType == [have : BOOLEAN, backup2 : [gdt : Gdts, pe : BOOLEAN], backup_a20 : BOOLEAN]
Cell == [ss : Segments \ {"low"}, sp : Int]
Positions == 1 .. EXTRA_STACK_SIZE + 1
Saves ==
  Methods \cup [env : Environments, extra : BOOLEAN]
    \cup [via : Methods, stack : Segments, method : Methods]
FrameType ==
  [kind : {"entry", "hop", "hop_back", "call32", "call16"}, was : CpuType,
   pos : Positions, save : Saves]

ModeTypeOK ==
  /\ mode_cpu \in CpuType /\ Call16Data \in DataType /\ smm \in SmmType
  /\ ExtraStack \in [1 .. EXTRA_STACK_SIZE -> Cell] /\ StackPos \in Positions
  /\ frames \in Seq(FrameType) /\ restored \in BOOLEAN

\* Where call i runs, or has been left by the next one; level 0 is whoever runs first.
CpuAt(i) == IF i = Len(frames) THEN mode_cpu ELSE frames[i + 1].was
PosAt(i) == IF i = Len(frames) THEN StackPos ELSE frames[i + 1].pos

Env(c) == <<c.a20, c.gdt, c.nmi, c.pe>>

\* A processor state SeaBIOS or a program can be in, with pos in StackPos.
Sane(c, pos) ==
  /\ c.ss = "low" => 1 <= c.sp /\ c.sp < pos
  /\ c.mode = "flat" => Env(c) = <<TRUE, "bios", FALSE, FALSE>>

UsesCell(f) == f.kind = "hop" \/ (f.kind = "entry" /\ f.save.extra)
SavedBy(f) ==
  IF f.kind = "hop" THEN [ss |-> f.was.ss, sp |-> f.was.sp]
  ELSE [ss |-> f.save.env.ss, sp |-> f.was.sp - 1]

\* What a call of the kind does to where it was made: c and pos.
Entered(f, c, pos) ==
  CASE f.kind = "entry" ->
         /\ f.save \in [env : Environments, extra : BOOLEAN]
         /\ f.was.mode = "real" /\ c.mode = "real" /\ pos = f.pos
         /\ Env(c) = Env(f.save.env)
         /\ IF f.save.extra THEN c.ss = "low" /\ c.sp = pos - 1 /\ pos > 1
            ELSE c.ss = f.save.env.ss /\ c.sp = f.was.sp - 1
    [] f.kind = "hop" ->
         /\ f.was.mode = "real" /\ f.was.ss # "low"
         /\ c.mode = "real" /\ pos = f.pos /\ Env(c) = Env(f.was)
         /\ c.ss = "low" /\ c.sp = pos - 1 /\ pos > 1
    [] f.kind = "hop_back" ->
         /\ f.was.mode = "real" /\ f.was.ss = "low"
         /\ c.mode = "real" /\ pos = f.was.sp /\ Env(c) = Env(f.was)
         /\ c.ss # "low"
    [] f.kind = "call32" ->
         /\ f.was.mode = "real" /\ f.save \in {"smm", "big"}
         /\ f.save = "big" => ~f.was.pe
         /\ c.mode = "flat" /\ pos = f.pos /\ c.ss = f.was.ss /\ c.sp = f.was.sp - 1
    [] f.kind = "call16" ->
         /\ f.save \in [via : Methods, stack : Segments, method : Methods]
         /\ f.was.mode = "flat" /\ f.save.stack = f.was.ss
         /\ c.mode = "real" /\ pos = f.pos /\ c.sp = f.was.sp - 1

\* A function called by call16() is in the environment of the last call32(), g, or of the
\* farcall16() of POST.
Within(f, c, g) ==
  f.kind = "call16" =>
    /\ g.kind = "call32" /\ f.save.via = g.save /\ f.save.method = g.save
    /\ c.ss = g.was.ss /\ Env(c) = Env(g.was)
Far(f, c) ==
  f.kind = "call16" =>
    /\ f.save.via = "big" /\ f.save.method \in {"none", "big"}
    /\ c.ss = "zero" /\ ~c.pe

\* Nobody writes below where a call has left the extra stack.
Bound(c, pos) == IF c.ss = "low" THEN c.sp ELSE pos

Levels ==
  /\ \A i \in 0 .. Len(frames) : Sane(CpuAt(i), PosAt(i))
  /\ \A i \in 1 .. Len(frames) : Entered(frames[i], CpuAt(i), PosAt(i))
  /\ \A i \in 2 .. Len(frames) : Within(frames[i], CpuAt(i), frames[i - 1])
  /\ frames # <<>> => Far(frames[1], CpuAt(1))

CellsKept ==
  \A i \in 1 .. Len(frames) :
    UsesCell(frames[i]) =>
      /\ ExtraStack[frames[i].pos - 1] = SavedBy(frames[i])
      /\ \A k \in i .. Len(frames) : Bound(CpuAt(k), PosAt(k)) <= frames[i].pos - 1

\* In 32-bit mode, what the last call32() needs to return.
DataFits ==
  mode_cpu.mode = "flat" /\ frames # <<>> =>
    LET f == Innermost
    IN  /\ f.kind = "call32"
        /\ Call16Data.method = f.save /\ Call16Data.ss = f.was.ss
        /\ Call16Data.nmi = f.was.nmi
        /\ f.save = "big" => Call16Data.gdt = f.was.gdt /\ Call16Data.a20 = f.was.a20
        /\ f.save = "smm" => /\ smm.backup2 = [gdt |-> f.was.gdt, pe |-> f.was.pe]
                             /\ smm.backup_a20 = f.was.a20

\* The inductive invariant.
ModeInv == ModeTypeOK /\ Levels /\ CellsKept /\ DataFits /\ restored

\* A call leaves the levels below it as they are.
LEMMA OfCall ==
  ASSUME ModeTypeOK, NEW f \in FrameType, frames' = Append(frames, f),
         f.was = mode_cpu, f.pos = StackPos
  PROVE  LET n == Len(frames)
         IN  /\ n \in Nat /\ Len(frames') = n + 1 /\ frames' \in Seq(FrameType)
             /\ frames' # <<>> /\ frames'[n + 1] = f
             /\ \A i \in 1 .. n : frames'[i] = frames[i]
             /\ \A i \in 0 .. n : CpuAt(i)' = CpuAt(i) /\ PosAt(i)' = PosAt(i)
             /\ \A i \in {n + 1} : CpuAt(i)' = mode_cpu' /\ PosAt(i)' = StackPos'
<1> DEFINE n == Len(frames)
<1>1. frames \in Seq(FrameType) /\ n \in Nat  BY DEF ModeTypeOK
<1>2. Len(frames') = n + 1 /\ frames' \in Seq(FrameType) /\ frames'[n + 1] = f
      /\ \A i \in 1 .. n : frames'[i] = frames[i]
  BY <1>1
<1>3. ASSUME NEW i \in 0 .. n PROVE CpuAt(i)' = CpuAt(i) /\ PosAt(i)' = PosAt(i)
  <2>1. i # Len(frames')  BY <1>1, <1>2
  <2>2. CASE i = n
    <3>1. frames'[i + 1] = f  BY <1>2, <2>2
    <3> QED BY <2>1, <2>2, <3>1 DEF CpuAt, PosAt
  <2>3. CASE i # n
    <3>1. i + 1 \in 1 .. n  BY <1>1, <2>3
    <3>2. frames'[i + 1] = frames[i + 1]  BY <1>2, <3>1
    <3> QED BY <2>1, <2>3, <3>2 DEF CpuAt, PosAt
  <2> QED BY <2>2, <2>3
<1>4. ASSUME NEW i \in {n + 1} PROVE CpuAt(i)' = mode_cpu' /\ PosAt(i)' = StackPos'
  BY <1>2 DEF CpuAt, PosAt
<1>5. frames' # <<>>  BY <1>1, <1>2
<1> QED BY <1>1, <1>2, <1>3, <1>4, <1>5

\* A list without its last element.
LEMMA WithoutLast ==
  ASSUME NEW S, NEW l \in Seq(S), NEW n \in 1 .. Len(l)
  PROVE  LET r == SubSeq(l, 1, n - 1)
         IN  Len(r) = n - 1 /\ r \in Seq(S) /\ \A i \in 1 .. n - 1 : r[i] = l[i]
OBVIOUS

\* And so does a return.
LEMMA OfReturn ==
  ASSUME ModeTypeOK, frames # <<>>, frames' = SubSeq(frames, 1, Len(frames) - 1),
         mode_cpu' = Innermost.was, StackPos' = Innermost.pos
  PROVE  LET n == Len(frames)
         IN  /\ n \in Nat \ {0} /\ Len(frames') = n - 1 /\ frames' \in Seq(FrameType)
             /\ Innermost = frames[n] /\ Innermost \in FrameType
             /\ \A i \in 1 .. n - 1 : frames'[i] = frames[i]
             /\ \A i \in 0 .. n - 1 : CpuAt(i)' = CpuAt(i) /\ PosAt(i)' = PosAt(i)
             /\ CpuAt(n - 1) = Innermost.was /\ PosAt(n - 1) = Innermost.pos
             /\ CpuAt(n) = mode_cpu /\ PosAt(n) = StackPos
<1> DEFINE n == Len(frames)
<1>1. frames \in Seq(FrameType) /\ n \in Nat \ {0}  BY DEF ModeTypeOK
<1>2. Len(frames') = n - 1 /\ frames' \in Seq(FrameType)
      /\ \A i \in 1 .. n - 1 : frames'[i] = frames[i]
  <2>1. n \in 1 .. Len(frames)  BY <1>1
  <2> QED BY <1>1, <2>1, WithoutLast
<1>3. Innermost = frames[n] /\ Innermost \in FrameType  BY <1>1 DEF Innermost
<1>4. CpuAt(n - 1) = Innermost.was /\ PosAt(n - 1) = Innermost.pos
  BY <1>1, <1>3 DEF CpuAt, PosAt
<1>5. ASSUME NEW i \in 0 .. n - 1 PROVE CpuAt(i)' = CpuAt(i) /\ PosAt(i)' = PosAt(i)
  <2>1. CASE i = n - 1
    <3>1. CpuAt(i)' = mode_cpu' /\ PosAt(i)' = StackPos'  BY <1>2, <2>1 DEF CpuAt, PosAt
    <3> QED BY <1>4, <2>1, <3>1
  <2>2. CASE i # n - 1
    <3>1. i + 1 \in 1 .. n - 1 /\ i # n /\ i # Len(frames')  BY <1>1, <1>2, <2>2
    <3>2. frames'[i + 1] = frames[i + 1]  BY <1>2, <3>1
    <3> QED BY <3>1, <3>2 DEF CpuAt, PosAt
  <2> QED BY <2>1, <2>2
<1>6. CpuAt(n) = mode_cpu /\ PosAt(n) = StackPos  BY DEF CpuAt, PosAt
<1> QED BY <1>1, <1>2, <1>3, <1>4, <1>5, <1>6

\* The types of what a step leaves.
TypesKept ==
  /\ mode_cpu' \in CpuType /\ Call16Data' \in DataType /\ smm' \in SmmType
  /\ ExtraStack' \in [1 .. EXTRA_STACK_SIZE -> Cell] /\ StackPos' \in Positions
  /\ restored'

\* A call keeps the invariant that fits where it was made and writes below what is in use.
LEMMA CallKeeps ==
  ASSUME ModeInv, NEW f \in FrameType, frames' = Append(frames, f),
         f.was = mode_cpu, f.pos = StackPos, TypesKept, DataFits',
         Sane(mode_cpu', StackPos'), Entered(f, mode_cpu', StackPos'),
         IF frames = <<>> THEN Far(f, mode_cpu') ELSE Within(f, mode_cpu', Innermost),
         frames # <<>> => Bound(mode_cpu', StackPos') <= Bound(mode_cpu, StackPos),
         \A i \in 1 .. Len(frames) : UsesCell(frames[i]) =>
            ExtraStack'[frames[i].pos - 1] = ExtraStack[frames[i].pos - 1],
         UsesCell(f) => /\ ExtraStack'[f.pos - 1] = SavedBy(f)
                        /\ Bound(mode_cpu', StackPos') <= f.pos - 1
  PROVE  ModeInv'
<1> DEFINE n == Len(frames)
<1>1. ModeTypeOK /\ Levels /\ CellsKept  BY DEF ModeInv
<1>2. /\ n \in Nat /\ Len(frames') = n + 1 /\ frames' \in Seq(FrameType)
      /\ frames' # <<>> /\ frames'[n + 1] = f
      /\ \A i \in 1 .. n : frames'[i] = frames[i]
      /\ \A i \in 0 .. n : CpuAt(i)' = CpuAt(i) /\ PosAt(i)' = PosAt(i)
      /\ \A i \in {n + 1} : CpuAt(i)' = mode_cpu' /\ PosAt(i)' = StackPos'
  BY <1>1, OfCall
<1>3. CpuAt(n) = mode_cpu /\ PosAt(n) = StackPos  BY DEF CpuAt, PosAt
<1>4. (\A i \in 0 .. Len(frames) : Sane(CpuAt(i), PosAt(i)))'
  <2> SUFFICES ASSUME NEW i \in 0 .. n + 1 PROVE Sane(CpuAt(i)', PosAt(i)')
    BY <1>2
  <2>1. CASE i = n + 1  BY <1>2, <2>1
  <2>2. CASE i \in 0 .. n  BY <1>1, <1>2, <2>2 DEF Levels
  <2> QED BY <1>2, <2>1, <2>2
<1>5. (\A i \in 1 .. Len(frames) : Entered(frames[i], CpuAt(i), PosAt(i)))'
  <2> SUFFICES ASSUME NEW i \in 1 .. n + 1 PROVE Entered(frames'[i], CpuAt(i)', PosAt(i)')
    BY <1>2
  <2>1. CASE i = n + 1  BY <1>2, <2>1
  <2>2. CASE i \in 1 .. n  BY <1>1, <1>2, <2>2 DEF Levels
  <2> QED BY <1>2, <2>1, <2>2
<1>6. (\A i \in 2 .. Len(frames) : Within(frames[i], CpuAt(i), frames[i - 1]))'
  <2> SUFFICES ASSUME NEW i \in 2 .. n + 1
               PROVE  Within(frames'[i], CpuAt(i)', frames'[i - 1])
    BY <1>2
  <2>1. CASE i = n + 1
    <3>1. n \in 1 .. n /\ frames # <<>>  BY <1>2, <2>1
    <3>2. frames'[i - 1] = Innermost  BY <1>2, <2>1, <3>1 DEF Innermost
    <3> QED BY <1>2, <2>1, <3>1, <3>2
  <2>2. CASE i \in 2 .. n
    <3>1. i - 1 \in 1 .. n /\ i \in 1 .. n /\ i \in 0 .. n  BY <1>2, <2>2
    <3> QED BY <1>1, <1>2, <2>2, <3>1 DEF Levels
  <2> QED BY <1>2, <2>1, <2>2
<1>7. Far(frames[1], CpuAt(1))'
  <2>1. CASE n = 0
    <3>1. frames = <<>>  BY <1>1, <2>1 DEF ModeTypeOK
    <3> QED BY <1>2, <2>1, <3>1
  <2>2. CASE n # 0
    <3>1. 1 \in 1 .. n /\ 1 \in 0 .. n /\ frames # <<>>  BY <1>2, <2>2
    <3> QED BY <1>1, <1>2, <3>1 DEF Levels
  <2> QED BY <2>1, <2>2
<1>8. CellsKept'
  <2> SUFFICES ASSUME NEW i \in 1 .. n + 1, UsesCell(frames'[i])
               PROVE  /\ ExtraStack'[frames'[i].pos - 1] = SavedBy(frames'[i])
                      /\ \A k \in i .. n + 1 :
                           Bound(CpuAt(k)', PosAt(k)') <= frames'[i].pos - 1
    BY <1>2 DEF CellsKept
  <2>1. CASE i = n + 1  BY <1>2, <2>1
  <2>2. CASE i \in 1 .. n
    <3>1. frames'[i] = frames[i]  BY <1>2, <2>2
    <3>2. /\ ExtraStack[frames[i].pos - 1] = SavedBy(frames[i])
          /\ \A k \in i .. n : Bound(CpuAt(k), PosAt(k)) <= frames[i].pos - 1
      BY <1>1, <2>2, <3>1 DEF CellsKept
    <3>3. Bound(mode_cpu, StackPos) <= frames[i].pos - 1
      <4>1. n \in i .. n  BY <1>2, <2>2
      <4> QED BY <1>3, <3>2, <4>1
    <3>4. /\ Bound(mode_cpu, StackPos) \in Int /\ Bound(mode_cpu', StackPos') \in Int
          /\ frames[i].pos \in Int
      <4>1. frames[i] \in FrameType  BY <1>1, <2>2 DEF ModeTypeOK
      <4> QED BY <1>1, <4>1 DEF ModeTypeOK, TypesKept, Bound, CpuType, Positions, FrameType
    <3>5. ASSUME NEW k \in i .. n + 1
          PROVE  Bound(CpuAt(k)', PosAt(k)') <= frames'[i].pos - 1
      <4>1. CASE k = n + 1
        <5>1. frames # <<>>  BY <1>1, <2>2 DEF ModeTypeOK
        <5>2. Bound(mode_cpu', StackPos') <= frames[i].pos - 1  BY <3>3, <3>4, <5>1
        <5> QED BY <1>2, <3>1, <4>1, <5>2
      <4>2. CASE k # n + 1
        <5>1. k \in i .. n /\ k \in 0 .. n  BY <1>2, <2>2, <4>2
        <5> QED BY <1>2, <3>1, <3>2, <5>1
      <4> QED BY <4>1, <4>2
    <3> QED BY <2>2, <3>1, <3>2, <3>5
  <2> QED BY <1>2, <2>1, <2>2
<1>9. ModeTypeOK'  BY <1>2 DEF ModeTypeOK, TypesKept
<1> QED BY <1>4, <1>5, <1>6, <1>7, <1>8, <1>9 DEF ModeInv, Levels, TypesKept

\* A return that leaves its caller as the call has found it keeps the invariant.
LEMMA ReturnKeeps ==
  ASSUME ModeInv, frames # <<>>, frames' = SubSeq(frames, 1, Len(frames) - 1),
         mode_cpu' = Innermost.was, StackPos' = Innermost.pos, ExtraStack' = Freed,
         Call16Data' \in DataType, smm' \in SmmType, DataFits', restored'
  PROVE  ModeInv'
<1> DEFINE n == Len(frames)
<1>1. ModeTypeOK /\ Levels /\ CellsKept  BY DEF ModeInv
<1>2. /\ n \in Nat \ {0} /\ Len(frames') = n - 1 /\ frames' \in Seq(FrameType)
      /\ Innermost = frames[n] /\ Innermost \in FrameType
      /\ \A i \in 1 .. n - 1 : frames'[i] = frames[i]
      /\ \A i \in 0 .. n - 1 : CpuAt(i)' = CpuAt(i) /\ PosAt(i)' = PosAt(i)
      /\ CpuAt(n - 1) = Innermost.was /\ PosAt(n - 1) = Innermost.pos
  BY <1>1, OfReturn
<1>3. (\A i \in 0 .. Len(frames) : Sane(CpuAt(i), PosAt(i)))'
  <2> SUFFICES ASSUME NEW i \in 0 .. n - 1 PROVE Sane(CpuAt(i)', PosAt(i)')
    BY <1>2
  <2>1. i \in 0 .. n  BY <1>2
  <2> QED BY <1>1, <1>2, <2>1 DEF Levels
<1>4. (\A i \in 1 .. Len(frames) : Entered(frames[i], CpuAt(i), PosAt(i)))'
  <2> SUFFICES ASSUME NEW i \in 1 .. n - 1 PROVE Entered(frames'[i], CpuAt(i)', PosAt(i)')
    BY <1>2
  <2>1. i \in 1 .. n /\ i \in 0 .. n - 1  BY <1>2
  <2> QED BY <1>1, <1>2, <2>1 DEF Levels
<1>5. (\A i \in 2 .. Len(frames) : Within(frames[i], CpuAt(i), frames[i - 1]))'
  <2> SUFFICES ASSUME NEW i \in 2 .. n - 1
               PROVE  Within(frames'[i], CpuAt(i)', frames'[i - 1])
    BY <1>2
  <2>1. i \in 2 .. n /\ i \in 1 .. n - 1 /\ i - 1 \in 1 .. n - 1 /\ i \in 0 .. n - 1
    BY <1>2
  <2> QED BY <1>1, <1>2, <2>1 DEF Levels
<1>6. (frames # <<>> => Far(frames[1], CpuAt(1)))'
  <2> SUFFICES ASSUME frames' # <<>> PROVE Far(frames'[1], CpuAt(1)')
    OBVIOUS
  <2>1. n - 1 # 0  BY <1>2
  <2>2. 1 \in 1 .. n - 1 /\ 1 \in 0 .. n - 1  BY <1>2, <2>1
  <2> QED BY <1>1, <1>2, <2>2 DEF Levels
<1>7. CellsKept' /\ ExtraStack' \in [1 .. EXTRA_STACK_SIZE -> Cell]
  <2> DEFINE b == Bound(Innermost.was, Innermost.pos)
  <2>1. ExtraStack \in [1 .. EXTRA_STACK_SIZE -> Cell]  BY <1>1 DEF ModeTypeOK
  <2>2. ExtraStack' = [i \in 1 .. EXTRA_STACK_SIZE |-> IF i < b THEN Junk ELSE ExtraStack[i]]
    BY <2>1 DEF Freed, Bound, SEG_LOW
  <2>3. Junk \in Cell  BY DEF Junk, Cell, Segments
  <2>4. ExtraStack' \in [1 .. EXTRA_STACK_SIZE -> Cell]  BY <2>1, <2>2, <2>3
  <2>5. ASSUME NEW i \in 1 .. n - 1, UsesCell(frames'[i])
        PROVE  /\ ExtraStack'[frames'[i].pos - 1] = SavedBy(frames'[i])
               /\ \A k \in i .. n - 1 : Bound(CpuAt(k)', PosAt(k)') <= frames'[i].pos - 1
    <3>1. i \in 1 .. n /\ frames'[i] = frames[i] /\ frames[i] \in FrameType
      BY <1>1, <1>2 DEF ModeTypeOK
    <3>2. /\ ExtraStack[frames[i].pos - 1] = SavedBy(frames[i])
          /\ \A k \in i .. n : Bound(CpuAt(k), PosAt(k)) <= frames[i].pos - 1
      BY <1>1, <2>5, <3>1 DEF CellsKept
    <3>3. n - 1 \in i .. n  BY <1>2
    <3>4. b <= frames[i].pos - 1  BY <1>2, <3>2, <3>3
    <3>5. b \in Int /\ frames[i].pos \in 1 .. EXTRA_STACK_SIZE + 1
      BY <1>2, <3>1, ModeAssumption DEF Bound, FrameType, CpuType, Positions
    <3>6. frames[i].pos > 1
      <4>1. Entered(frames[i], CpuAt(i), PosAt(i))  BY <1>1, <3>1 DEF Levels
      <4> QED BY <2>5, <3>1, <4>1 DEF Entered, UsesCell
    <3>7. frames[i].pos - 1 \in 1 .. EXTRA_STACK_SIZE /\ ~(frames[i].pos - 1 < b)
      BY <3>4, <3>5, <3>6, ModeAssumption, SMTT(40)
    <3>8. ExtraStack'[frames[i].pos - 1] = ExtraStack[frames[i].pos - 1]
      BY <2>2, <3>7
    <3>9. ASSUME NEW k \in i .. n - 1 PROVE Bound(CpuAt(k)', PosAt(k)') <= frames'[i].pos - 1
      <4>1. k \in i .. n /\ k \in 0 .. n - 1  BY <1>2
      <4> QED BY <1>2, <3>1, <3>2, <4>1
    <3> QED BY <3>1, <3>2, <3>8, <3>9
  <2> QED BY <1>2, <2>4, <2>5 DEF CellsKept
<1>8. ModeTypeOK'
  BY <1>2, <1>7 DEF ModeTypeOK, FrameType
<1> QED BY <1>3, <1>4, <1>5, <1>6, <1>7, <1>8 DEF ModeInv, Levels

\* The state that call32_prep() and the others work on, and what they leave.
MachineType == [cpu : CpuType, data : DataType, smm : SmmType]

Prepared(method, m, r) ==
  /\ r \in MachineType /\ r.smm = m.smm
  /\ r.cpu.mode = m.cpu.mode /\ r.cpu.ss = m.cpu.ss /\ r.cpu.sp = m.cpu.sp
  /\ r.cpu.gdt = m.cpu.gdt /\ r.cpu.pe = m.cpu.pe /\ r.cpu.nmi = FALSE
  /\ r.data.method = method /\ r.data.ss = m.cpu.ss /\ r.data.nmi = m.cpu.nmi
  /\ IF method = "smm" THEN r.cpu.a20 = m.cpu.a20
     ELSE r.cpu.a20 = TRUE /\ r.data.gdt = m.cpu.gdt /\ r.data.a20 = m.cpu.a20

LEMMA PrepFits ==
  ASSUME NEW m \in MachineType, NEW method \in Methods
  PROVE  Prepared(method, m, call32_prep(method, m))
<1> DEFINE r == call32_prep(method, m)
           saved == [m.data EXCEPT !.ss = m.cpu.ss, !.nmi = m.cpu.nmi, !.method = method]
<1>1. m.cpu \in CpuType /\ m.data \in DataType /\ m.smm \in SmmType  BY DEF MachineType
<1>2. saved \in DataType /\ saved.method = method /\ saved.ss = m.cpu.ss
      /\ saved.nmi = m.cpu.nmi
  BY <1>1, Zenon DEF DataType, CpuType
<1>3. r = IF method = "smm" THEN [m EXCEPT !.data = saved, !.cpu.nmi = FALSE]
          ELSE [m EXCEPT !.data = [saved EXCEPT !.gdt = m.cpu.gdt, !.a20 = m.cpu.a20],
                         !.cpu.a20 = TRUE, !.cpu.nmi = FALSE]
  BY DEF call32_prep
<1> HIDE DEF saved, r
<1>4. CASE method = "smm"
  <2> DEFINE c == [m.cpu EXCEPT !.nmi = FALSE]
  <2>1. c \in CpuType /\ c.mode = m.cpu.mode /\ c.ss = m.cpu.ss /\ c.sp = m.cpu.sp
        /\ c.gdt = m.cpu.gdt /\ c.pe = m.cpu.pe /\ c.nmi = FALSE /\ c.a20 = m.cpu.a20
    BY <1>1, Zenon DEF CpuType
  <2>2. r = [m EXCEPT !.data = saved, !.cpu = c]  BY <1>3, <1>4
  <2> HIDE DEF c
  <2>3. r \in MachineType /\ r.smm = m.smm /\ r.cpu = c /\ r.data = saved
    BY <1>1, <1>2, <2>1, <2>2, Zenon DEF MachineType
  <2> QED BY <1>2, <1>4, <2>1, <2>3, Zenon DEF r, Prepared
<1>5. CASE method # "smm"
  <2> DEFINE c == [m.cpu EXCEPT !.a20 = TRUE, !.nmi = FALSE]
             d == [saved EXCEPT !.gdt = m.cpu.gdt, !.a20 = m.cpu.a20]
  <2>1. c \in CpuType /\ c.mode = m.cpu.mode /\ c.ss = m.cpu.ss /\ c.sp = m.cpu.sp
        /\ c.gdt = m.cpu.gdt /\ c.pe = m.cpu.pe /\ c.nmi = FALSE /\ c.a20 = TRUE
    BY <1>1, Zenon DEF CpuType
  <2>2. d \in DataType /\ d.method = method /\ d.ss = m.cpu.ss /\ d.nmi = m.cpu.nmi
        /\ d.gdt = m.cpu.gdt /\ d.a20 = m.cpu.a20
    BY <1>1, <1>2, Zenon DEF DataType, CpuType
  <2>3. r = [m EXCEPT !.data = d, !.cpu = c]  BY <1>3, <1>5
  <2> HIDE DEF c, d
  <2>4. r \in MachineType /\ r.smm = m.smm /\ r.cpu = c /\ r.data = d
    BY <1>1, <2>1, <2>2, <2>3, Zenon DEF MachineType
  <2> QED BY <1>5, <2>1, <2>2, <2>4, Zenon DEF r, Prepared
<1> QED BY <1>4, <1>5

\* What call32_post() gives back.
LEMMA PostFits ==
  ASSUME NEW m \in MachineType
  PROVE  LET r == call32_post(m)
         IN  /\ r \in MachineType /\ r.smm = m.smm
             /\ r.cpu.mode = m.cpu.mode /\ r.cpu.ss = m.cpu.ss /\ r.cpu.sp = m.cpu.sp
             /\ r.cpu.pe = m.cpu.pe /\ r.cpu.nmi = (m.cpu.nmi \/ m.data.nmi)
             /\ IF m.data.method = "smm"
                THEN r.cpu.gdt = m.cpu.gdt /\ r.cpu.a20 = m.cpu.a20
                ELSE r.cpu.gdt = m.data.gdt /\ r.cpu.a20 = (m.cpu.a20 /\ m.data.a20)
<1> DEFINE r == call32_post(m)
           nmi == m.cpu.nmi \/ m.data.nmi
           a20 == m.cpu.a20 /\ m.data.a20
           d == [m.data EXCEPT !.method = "none", !.ss = "zero"]
           cleared == [m EXCEPT !.data.method = "none", !.data.ss = "zero",
                                !.cpu.nmi = @ \/ m.data.nmi]
           c == [m.cpu EXCEPT !.nmi = nmi]
           e == [c EXCEPT !.gdt = m.data.gdt, !.a20 = a20]
<1>1. m.cpu \in CpuType /\ m.data \in DataType /\ m.smm \in SmmType  BY DEF MachineType
<1>2. nmi \in BOOLEAN /\ a20 \in BOOLEAN  OBVIOUS
<1>3. d \in DataType
  <2>1. "none" \in Methods /\ "zero" \in Segments  BY DEF Methods, Segments
  <2> QED BY <1>1, <2>1, Zenon DEF DataType
<1>4. m.data.gdt \in Gdts  BY <1>1, Zenon DEF DataType
<1>5. r = IF m.data.method = "smm" THEN cleared
          ELSE [cleared EXCEPT !.cpu.gdt = m.data.gdt, !.cpu.a20 = @ /\ m.data.a20]
  BY DEF call32_post
<1>6. cleared = [m EXCEPT !.data = d, !.cpu = c]
  <2>1. cleared = [m EXCEPT !.data = [m.data EXCEPT !.method = "none", !.ss = "zero"],
                            !.cpu = [m.cpu EXCEPT !.nmi = m.cpu.nmi \/ m.data.nmi]]
    BY <1>1, Zenon DEF MachineType
  <2> QED BY <2>1, Zenon
<1> HIDE DEF r, nmi, a20, d, cleared, c, e
<1>7. c \in CpuType /\ c.mode = m.cpu.mode /\ c.ss = m.cpu.ss /\ c.sp = m.cpu.sp
      /\ c.gdt = m.cpu.gdt /\ c.pe = m.cpu.pe /\ c.nmi = nmi /\ c.a20 = m.cpu.a20
  BY <1>1, <1>2, Zenon DEF CpuType, c
<1>8. cleared \in MachineType /\ cleared.smm = m.smm /\ cleared.cpu = c /\ cleared.data = d
  BY <1>1, <1>3, <1>6, <1>7, Zenon DEF MachineType
<1>9. CASE m.data.method = "smm"
  BY <1>5, <1>7, <1>8, <1>9, Zenon DEF r, nmi
<1>10. CASE m.data.method # "smm"
  <2>1. e \in CpuType /\ e.mode = m.cpu.mode /\ e.ss = m.cpu.ss /\ e.sp = m.cpu.sp
        /\ e.gdt = m.data.gdt /\ e.pe = m.cpu.pe /\ e.nmi = nmi /\ e.a20 = a20
    BY <1>2, <1>4, <1>7, Zenon DEF CpuType, e
  <2>2. r = [cleared EXCEPT !.cpu = e]
    <3>1. r = [cleared EXCEPT !.cpu = [cleared.cpu EXCEPT !.gdt = m.data.gdt,
                                                          !.a20 = cleared.cpu.a20 /\ m.data.a20]]
      BY <1>5, <1>8, <1>10, Zenon DEF MachineType
    <3> QED BY <1>7, <1>8, <3>1, Zenon DEF e, a20
  <2>3. r \in MachineType /\ r.smm = m.smm /\ r.cpu = e
    BY <1>8, <2>1, <2>2, Zenon DEF MachineType
  <2> QED BY <1>10, <2>1, <2>3, Zenon DEF r, nmi, a20
<1> QED BY <1>9, <1>10

\* Where transition32() or the SMI leads to.
LEMMA EnterFits ==
  ASSUME NEW m \in MachineType, NEW method \in Methods
  PROVE  LET r == Enter32(method, m)
         IN  /\ r \in MachineType /\ r.data = m.data
             /\ r.cpu.mode = "flat" /\ r.cpu.ss = m.cpu.ss /\ r.cpu.sp = m.cpu.sp
             /\ r.cpu.gdt = "bios" /\ r.cpu.nmi = m.cpu.nmi
             /\ IF method = "smm"
                THEN /\ r.cpu.pe = FALSE /\ r.cpu.a20 = TRUE
                     /\ r.smm.backup2 = [gdt |-> m.cpu.gdt, pe |-> m.cpu.pe]
                     /\ r.smm.backup_a20 = m.cpu.a20
                ELSE r.cpu.pe = m.cpu.pe /\ r.cpu.a20 = m.cpu.a20
<1> DEFINE r == Enter32(method, m)
<1>1. m.cpu \in CpuType /\ m.data \in DataType /\ m.smm \in SmmType  BY DEF MachineType
<1>2. "bios" \in Gdts  BY DEF Gdts
<1>3. CASE method = "smm"
  <2> DEFINE c == [m.cpu EXCEPT !.mode = "flat", !.gdt = "bios", !.pe = FALSE, !.a20 = TRUE]
             b == [gdt |-> m.cpu.gdt, pe |-> m.cpu.pe]
             s == [m.smm EXCEPT !.backup2 = b, !.backup_a20 = m.cpu.a20]
  <2>1. r = [m EXCEPT !.smm = s, !.cpu = c]
    <3>1. r = [m EXCEPT !.smm.backup2 = b, !.smm.backup_a20 = m.cpu.a20, !.cpu = c]
      BY <1>3, Zenon DEF Enter32
    <3> QED BY <1>1, <3>1, Zenon DEF MachineType
  <2>2. c \in CpuType /\ c.mode = "flat" /\ c.ss = m.cpu.ss /\ c.sp = m.cpu.sp
        /\ c.gdt = "bios" /\ c.pe = FALSE /\ c.nmi = m.cpu.nmi /\ c.a20 = TRUE
    BY <1>1, <1>2, Zenon DEF CpuType
  <2>3. b \in [gdt : Gdts, pe : BOOLEAN]  BY <1>1, Zenon DEF CpuType
  <2>4. m.cpu.a20 \in BOOLEAN  BY <1>1, Zenon DEF CpuType
  <2> HIDE DEF c, b
  <2>5. s \in SmmType /\ s.backup2 = b /\ s.backup_a20 = m.cpu.a20
    BY <1>1, <2>3, <2>4, Zenon DEF SmmType
  <2> HIDE DEF s, r
  <2>6. r \in MachineType /\ r.smm = s /\ r.cpu = c /\ r.data = m.data
    BY <1>1, <2>1, <2>2, <2>5, Zenon DEF MachineType
  <2> QED BY <1>3, <2>2, <2>5, <2>6, Zenon DEF r, b
<1>4. CASE method # "smm"
  <2> DEFINE c == [m.cpu EXCEPT !.mode = "flat", !.gdt = "bios"]
  <2>1. r = [m EXCEPT !.cpu = c]  BY <1>4, Zenon DEF Enter32
  <2>2. c \in CpuType /\ c.mode = "flat" /\ c.ss = m.cpu.ss /\ c.sp = m.cpu.sp
        /\ c.gdt = "bios" /\ c.pe = m.cpu.pe /\ c.nmi = m.cpu.nmi /\ c.a20 = m.cpu.a20
    BY <1>1, <1>2, Zenon DEF CpuType
  <2> HIDE DEF c, r
  <2>3. r \in MachineType /\ r.cpu = c /\ r.data = m.data
    BY <1>1, <2>1, <2>2, Zenon DEF MachineType
  <2> QED BY <1>4, <2>2, <2>3, Zenon DEF r
<1> QED BY <1>3, <1>4

\* Where transition16() or the SMI leads to.
LEMMA LeaveFits ==
  ASSUME NEW m \in MachineType, NEW method \in Methods
  PROVE  LET r == Leave32(method, m)
         IN  /\ r \in MachineType /\ r.data = m.data /\ r.smm = m.smm
             /\ r.cpu.mode = "real" /\ r.cpu.ss = m.cpu.ss /\ r.cpu.sp = m.cpu.sp
             /\ r.cpu.nmi = m.cpu.nmi
             /\ IF method = "smm"
                THEN /\ r.cpu.pe = m.smm.backup2.pe /\ r.cpu.gdt = m.smm.backup2.gdt
                     /\ r.cpu.a20 = (m.cpu.a20 /\ m.smm.backup_a20)
                ELSE r.cpu.pe = m.cpu.pe /\ r.cpu.gdt = m.cpu.gdt /\ r.cpu.a20 = m.cpu.a20
<1> DEFINE r == Leave32(method, m)
<1>1. m.cpu \in CpuType /\ m.data \in DataType /\ m.smm \in SmmType  BY DEF MachineType
<1>2. CASE method = "smm"
  <2> DEFINE a20 == m.cpu.a20 /\ m.smm.backup_a20
             b == m.smm.backup2
             c == [m.cpu EXCEPT !.mode = "real", !.gdt = b.gdt, !.pe = b.pe, !.a20 = a20]
  <2>1. r = [m EXCEPT !.cpu = c]  BY <1>2, Zenon DEF Leave32
  <2>2. b \in [gdt : Gdts, pe : BOOLEAN]  BY <1>1, Zenon DEF SmmType
  <2>3. b.gdt \in Gdts /\ b.pe \in BOOLEAN /\ a20 \in BOOLEAN  BY <2>2, Zenon
  <2> HIDE DEF a20, b
  <2>4. c \in CpuType /\ c.mode = "real" /\ c.ss = m.cpu.ss /\ c.sp = m.cpu.sp
        /\ c.gdt = b.gdt /\ c.pe = b.pe /\ c.nmi = m.cpu.nmi /\ c.a20 = a20
    BY <1>1, <2>3, Zenon DEF CpuType
  <2> HIDE DEF c, r
  <2>5. r \in MachineType /\ r.cpu = c /\ r.data = m.data /\ r.smm = m.smm
    BY <1>1, <2>1, <2>4, Zenon DEF MachineType
  <2> QED BY <1>2, <2>4, <2>5, Zenon DEF r, a20, b
<1>3. CASE method # "smm"
  <2> DEFINE c == [m.cpu EXCEPT !.mode = "real"]
  <2>1. r = [m EXCEPT !.cpu = c]  BY <1>3, Zenon DEF Leave32
  <2>2. c \in CpuType /\ c.mode = "real" /\ c.ss = m.cpu.ss /\ c.sp = m.cpu.sp
        /\ c.gdt = m.cpu.gdt /\ c.pe = m.cpu.pe /\ c.nmi = m.cpu.nmi /\ c.a20 = m.cpu.a20
    BY <1>1, Zenon DEF CpuType
  <2> HIDE DEF c, r
  <2>3. r \in MachineType /\ r.cpu = c /\ r.data = m.data /\ r.smm = m.smm
    BY <1>1, <2>1, <2>2, Zenon DEF MachineType
  <2> QED BY <1>3, <2>2, <2>3, Zenon DEF r
<1> QED BY <1>2, <1>3

\* Another stack changes nothing else.
LEMMA MovedTo ==
  ASSUME NEW c \in CpuType, NEW s \in Segments, NEW p \in Int,
         NEW r, r = [c EXCEPT !.ss = s, !.sp = p]
  PROVE  /\ r \in CpuType /\ r.mode = c.mode /\ r.ss = s /\ r.sp = p /\ r.a20 = c.a20
         /\ r.gdt = c.gdt /\ r.nmi = c.nmi /\ r.pe = c.pe /\ Env(r) = Env(c)
BY Zenon DEF CpuType, Env

\* A processor state is what its fields are.
LEMMA SameCpu ==
  ASSUME NEW c \in CpuType, NEW d \in CpuType, c.mode = d.mode, c.ss = d.ss, c.sp = d.sp,
         c.a20 = d.a20, c.gdt = d.gdt, c.nmi = d.nmi, c.pe = d.pe
  PROVE  c = d
<1>1. c = [mode |-> c.mode, ss |-> c.ss, sp |-> c.sp, a20 |-> c.a20, gdt |-> c.gdt,
           nmi |-> c.nmi, pe |-> c.pe]
  BY Zenon DEF CpuType
<1>2. d = [mode |-> d.mode, ss |-> d.ss, sp |-> d.sp, a20 |-> d.a20, gdt |-> d.gdt,
           nmi |-> d.nmi, pe |-> d.pe]
  BY Zenon DEF CpuType
<1> QED BY <1>1, <1>2, Zenon

\* The types of a machine.
LEMMA MachineTypes ==
  ASSUME ModeTypeOK
  PROVE  ModeMachine \in MachineType
BY Zenon DEF ModeTypeOK, ModeMachine, MachineType

\* Where the innermost call runs.
LEMMA Here ==
  ASSUME ModeInv
  PROVE  LET n == Len(frames)
         IN  /\ n \in Nat /\ CpuAt(n) = mode_cpu /\ PosAt(n) = StackPos
             /\ Sane(mode_cpu, StackPos)
             /\ mode_cpu \in CpuType /\ Call16Data \in DataType /\ smm \in SmmType
             /\ mode_cpu.ss \in Segments /\ mode_cpu.sp \in Int /\ StackPos \in Positions
<1> DEFINE n == Len(frames)
<1>1. ModeTypeOK /\ Levels  BY DEF ModeInv
<1>2. n \in Nat /\ n \in 0 .. n  BY <1>1 DEF ModeTypeOK
<1>3. CpuAt(n) = mode_cpu /\ PosAt(n) = StackPos  BY DEF CpuAt, PosAt
<1>4. Sane(mode_cpu, StackPos)  BY <1>1, <1>2, <1>3 DEF Levels
<1>5. mode_cpu \in CpuType /\ Call16Data \in DataType /\ smm \in SmmType
      /\ StackPos \in Positions
  BY <1>1 DEF ModeTypeOK
<1>6. mode_cpu.ss \in Segments /\ mode_cpu.sp \in Int  BY <1>5, Zenon DEF CpuType
<1> QED BY <1>2, <1>3, <1>4, <1>5, <1>6

\* The innermost call, and the one it was made from.
LEMMA Inside ==
  ASSUME ModeInv, frames # <<>>
  PROVE  LET n == Len(frames)
         IN  /\ n \in Nat \ {0} /\ Innermost = frames[n] /\ Innermost \in FrameType
             /\ Innermost.was \in CpuType /\ Innermost.pos \in Positions
             /\ Innermost.was.ss \in Segments /\ Innermost.was.sp \in Int
             /\ Entered(Innermost, mode_cpu, StackPos)
             /\ Sane(Innermost.was, Innermost.pos)
             /\ n = 1 => Far(Innermost, mode_cpu)
             /\ n # 1 => /\ Within(Innermost, mode_cpu, frames[n - 1])
                         /\ frames[n - 1] \in FrameType
                         /\ Entered(frames[n - 1], Innermost.was, Innermost.pos)
             /\ UsesCell(Innermost) => ExtraStack[Innermost.pos - 1] = SavedBy(Innermost)
<1> DEFINE n == Len(frames)
<1>1. ModeTypeOK /\ Levels /\ CellsKept  BY DEF ModeInv
<1>2. n \in Nat \ {0} /\ frames \in Seq(FrameType)  BY <1>1 DEF ModeTypeOK
<1>3. Innermost = frames[n]  BY DEF Innermost
<1>4. Innermost \in FrameType  BY <1>2, <1>3
<1>5. Innermost.was \in CpuType /\ Innermost.pos \in Positions
  BY <1>4, Zenon DEF FrameType
<1>6. Innermost.was.ss \in Segments /\ Innermost.was.sp \in Int  BY <1>5, Zenon DEF CpuType
<1>7. CpuAt(n) = mode_cpu /\ PosAt(n) = StackPos  BY DEF CpuAt, PosAt
<1>8. CpuAt(n - 1) = Innermost.was /\ PosAt(n - 1) = Innermost.pos
  BY <1>2, <1>3 DEF CpuAt, PosAt
<1>9. n \in 1 .. n /\ n - 1 \in 0 .. n  BY <1>2
<1>10. Entered(Innermost, mode_cpu, StackPos)  BY <1>1, <1>3, <1>7, <1>9 DEF Levels
<1>11. Sane(Innermost.was, Innermost.pos)  BY <1>1, <1>8, <1>9 DEF Levels
<1>12. n = 1 => Far(Innermost, mode_cpu)  BY <1>1, <1>3, <1>7 DEF Levels
<1>13. ASSUME n # 1
       PROVE  /\ Within(Innermost, mode_cpu, frames[n - 1])
              /\ frames[n - 1] \in FrameType
              /\ Entered(frames[n - 1], Innermost.was, Innermost.pos)
  <2>1. n \in 2 .. n /\ n - 1 \in 1 .. n
    <3>1. n \in Nat /\ n # 0  BY <1>2
    <3> HIDE DEF n
    <3> QED BY <3>1, <1>13
  <2>2. frames[n - 1] \in FrameType  BY <1>2, <2>1
  <2>3. Within(Innermost, mode_cpu, frames[n - 1])  BY <1>1, <1>3, <1>7, <2>1 DEF Levels
  <2>4. Entered(frames[n - 1], Innermost.was, Innermost.pos)
    BY <1>1, <1>8, <2>1 DEF Levels
  <2> QED BY <2>2, <2>3, <2>4
<1>14. UsesCell(Innermost) => ExtraStack[Innermost.pos - 1] = SavedBy(Innermost)
  BY <1>1, <1>3, <1>9 DEF CellsKept
<1> QED BY <1>2, <1>3, <1>4, <1>5, <1>6, <1>10, <1>11, <1>12, <1>13, <1>14

\* Where ss:sp is saved, nobody has written since.
LEMMA CellAbove ==
  ASSUME ModeInv, NEW i \in 1 .. Len(frames), UsesCell(frames[i])
  PROVE  /\ frames[i].pos - 1 \in 1 .. EXTRA_STACK_SIZE
         /\ Bound(mode_cpu, StackPos) <= frames[i].pos - 1
<1>1. ModeTypeOK /\ Levels /\ CellsKept  BY DEF ModeInv
<1>2. Len(frames) \in i .. Len(frames)  BY <1>1 DEF ModeTypeOK
<1>3. Bound(mode_cpu, StackPos) <= frames[i].pos - 1
  <2>1. CpuAt(Len(frames)) = mode_cpu /\ PosAt(Len(frames)) = StackPos
    BY DEF CpuAt, PosAt
  <2> QED BY <1>1, <1>2, <2>1 DEF CellsKept
<1>4. frames[i] \in FrameType  BY <1>1 DEF ModeTypeOK
<1>5. frames[i].pos \in 1 .. EXTRA_STACK_SIZE + 1  BY <1>4, Zenon DEF FrameType, Positions
<1>6. frames[i].pos > 1
  <2>1. Entered(frames[i], CpuAt(i), PosAt(i))  BY <1>1 DEF Levels
  <2> QED BY <2>1 DEF Entered, UsesCell
<1> QED BY <1>3, <1>5, <1>6, ModeAssumption, SMTT(40)

\* What a call leaves on its stack.
LEMMA FrameMade ==
  ASSUME ModeTypeOK, NEW kind \in {"entry", "hop", "hop_back", "call32", "call16"},
         NEW save \in Saves, Call(kind, save)
  PROVE  LET f == [kind |-> kind, was |-> mode_cpu, pos |-> StackPos, save |-> save]
         IN  /\ f \in FrameType /\ frames' = Append(frames, f)
             /\ f.was = mode_cpu /\ f.pos = StackPos /\ f.kind = kind /\ f.save = save
<1>1. mode_cpu \in CpuType /\ StackPos \in Positions  BY DEF ModeTypeOK
<1> QED BY <1>1, Zenon DEF Call, FrameType

\* The types of an environment.
LEMMA EnvType ==
  ASSUME NEW env \in Environments
  PROVE  /\ env.ss \in Segments /\ env.ss # "low" /\ env.gdt \in Gdts
         /\ env.a20 \in BOOLEAN /\ env.nmi \in BOOLEAN /\ env.pe \in BOOLEAN
         /\ env = [ss |-> env.ss, a20 |-> env.a20, gdt |-> env.gdt, nmi |-> env.nmi,
                   pe |-> env.pe]
<1>1. env.ss \in Segments /\ env.gdt \in Gdts  BY DEF Segments, Gdts
<1>2. env.ss # "low" /\ {env.a20, env.nmi, env.pe} \subseteq BOOLEAN
  BY ModeAssumption, Zenon
<1>3. env = [ss |-> env.ss, a20 |-> env.a20, gdt |-> env.gdt, nmi |-> env.nmi,
             pe |-> env.pe]
  BY ModeAssumption, Zenon
<1>4. env.a20 \in BOOLEAN /\ env.nmi \in BOOLEAN /\ env.pe \in BOOLEAN  BY <1>2, Zenon
<1> QED BY <1>1, <1>2, <1>3, <1>4, Zenon

\* A save of ss:sp on top of the extra stack, and a push on the current one.
LEMMA CellWritten ==
  ASSUME ModeInv, NEW v \in Cell, NEW j \in 1 .. EXTRA_STACK_SIZE,
         j < Bound(mode_cpu, StackPos), ExtraStack' = [ExtraStack EXCEPT ![j] = v]
  PROVE  /\ ExtraStack' \in [1 .. EXTRA_STACK_SIZE -> Cell] /\ ExtraStack'[j] = v
         /\ \A i \in 1 .. Len(frames) : UsesCell(frames[i]) =>
              ExtraStack'[frames[i].pos - 1] = ExtraStack[frames[i].pos - 1]
<1>1. ExtraStack \in [1 .. EXTRA_STACK_SIZE -> Cell]  BY DEF ModeInv, ModeTypeOK
<1>2. ASSUME NEW i \in 1 .. Len(frames), UsesCell(frames[i])
      PROVE  ExtraStack'[frames[i].pos - 1] = ExtraStack[frames[i].pos - 1]
  <2>1. frames[i].pos - 1 \in 1 .. EXTRA_STACK_SIZE
        /\ Bound(mode_cpu, StackPos) <= frames[i].pos - 1
    BY <1>2, CellAbove
  <2>2. Bound(mode_cpu, StackPos) \in Int
    BY Here, ModeAssumption DEF Bound, Positions
  <2>3. frames[i].pos - 1 # j  BY <2>1, <2>2, ModeAssumption
  <2> QED BY <1>1, <2>1, <2>3
<1> QED BY <1>1, <1>2

\* A push on the current stack.
LEMMA Pushed ==
  ASSUME ModeInv, Room, ExtraStack' = PushOn(mode_cpu)
  PROVE  /\ ExtraStack' \in [1 .. EXTRA_STACK_SIZE -> Cell]
         /\ \A i \in 1 .. Len(frames) : UsesCell(frames[i]) =>
              ExtraStack'[frames[i].pos - 1] = ExtraStack[frames[i].pos - 1]
<1>1. CASE mode_cpu.ss = "low"
  <2>1. mode_cpu.sp - 1 \in 1 .. EXTRA_STACK_SIZE
    BY <1>1, Here, ModeAssumption DEF Sane, Positions, Room
  <2>2. Junk \in Cell  BY DEF Junk, Cell, Segments
  <2>3. mode_cpu.sp - 1 < Bound(mode_cpu, StackPos)  BY <1>1, Here DEF Bound
  <2>4. ExtraStack' = [ExtraStack EXCEPT ![mode_cpu.sp - 1] = Junk]
    BY <1>1 DEF PushOn, SEG_LOW
  <2> QED BY <2>1, <2>2, <2>3, <2>4, CellWritten
<1>2. CASE mode_cpu.ss # "low"
  BY <1>2 DEF PushOn, SEG_LOW, ModeInv, ModeTypeOK
<1> QED BY <1>1, <1>2

\* An entry, on the extra stack or on the caller's.
LEMMA EnterBiosKeeps ==
  ASSUME ModeInv, NEW env \in Environments, NEW extra \in BOOLEAN, EnterBios(env, extra)
  PROVE  ModeInv'
<1> DEFINE save == [env |-> env, extra |-> extra]
           f == [kind |-> "entry", was |-> mode_cpu, pos |-> StackPos, save |-> save]
<1>1. ModeTypeOK /\ restored  BY DEF ModeInv
<1>2. save \in [env : Environments, extra : BOOLEAN] /\ save \in Saves
      /\ save.env = env /\ save.extra = extra
  BY Zenon DEF Saves
<1>3. Call("entry", save) /\ mode_cpu.mode = "real" /\ mode_cpu.ss # "low"
      /\ Call16Data' = Call16Data /\ StackPos' = StackPos /\ smm' = smm
      /\ restored' = restored
  BY DEF EnterBios, Outside, OnExtra, SEG_LOW
<1> HIDE DEF save
<1>4. /\ f \in FrameType /\ frames' = Append(frames, f)
      /\ f.was = mode_cpu /\ f.pos = StackPos /\ f.kind = "entry" /\ f.save = save
  BY <1>1, <1>2, <1>3, FrameMade
<1> HIDE DEF f
<1>5. /\ mode_cpu.sp \in Int /\ StackPos \in 1 .. EXTRA_STACK_SIZE + 1
      /\ Call16Data \in DataType /\ smm \in SmmType
  BY Here DEF Positions
<1>6. Bound(mode_cpu, StackPos) = StackPos  BY <1>3 DEF Bound
<1>7. ASSUME NEW s \in Segments, NEW p \in Int,
             mode_cpu' = [mode |-> "real", ss |-> s, sp |-> p, a20 |-> env.a20,
                          gdt |-> env.gdt, nmi |-> env.nmi, pe |-> env.pe]
      PROVE  /\ mode_cpu' \in CpuType /\ mode_cpu'.mode = "real" /\ mode_cpu'.ss = s
             /\ mode_cpu'.sp = p /\ Env(mode_cpu') = Env(env)
  <2>1. mode_cpu' \in CpuType  BY <1>7, EnvType, Zenon DEF CpuType
  <2> QED BY <1>7, <2>1, Zenon DEF Env
<1>8. (mode_cpu'.mode = "real") => DataFits'  BY DEF DataFits
<1>9. IF frames = <<>> THEN Far(f, mode_cpu') ELSE Within(f, mode_cpu', Innermost)
  BY <1>4 DEF Far, Within
<1>10. CASE extra
  <2>1. /\ StackPos > 1
        /\ ExtraStack' = [ExtraStack EXCEPT ![StackPos - 1] =
                            [ss |-> env.ss, sp |-> mode_cpu.sp - 1]]
        /\ mode_cpu' = [mode |-> "real", ss |-> "low", sp |-> StackPos - 1, a20 |-> env.a20,
                        gdt |-> env.gdt, nmi |-> env.nmi, pe |-> env.pe]
    BY <1>10 DEF EnterBios, SEG_LOW
  <2>2. "low" \in Segments /\ StackPos - 1 \in Int  BY <1>5, ModeAssumption DEF Segments
  <2>3. /\ mode_cpu' \in CpuType /\ mode_cpu'.mode = "real" /\ mode_cpu'.ss = "low"
        /\ mode_cpu'.sp = StackPos - 1 /\ Env(mode_cpu') = Env(env)
    BY <1>7, <2>1, <2>2
  <2>4. SavedBy(f) = [ss |-> env.ss, sp |-> mode_cpu.sp - 1]
    BY <1>2, <1>4 DEF SavedBy
  <2>5. [ss |-> env.ss, sp |-> mode_cpu.sp - 1] \in Cell
    BY <1>5, EnvType DEF Cell
  <2>6. StackPos - 1 \in 1 .. EXTRA_STACK_SIZE /\ StackPos - 1 < Bound(mode_cpu, StackPos)
    BY <1>5, <1>6, <2>1, ModeAssumption
  <2>7. /\ ExtraStack' \in [1 .. EXTRA_STACK_SIZE -> Cell]
        /\ ExtraStack'[StackPos - 1] = SavedBy(f)
        /\ \A i \in 1 .. Len(frames) : UsesCell(frames[i]) =>
             ExtraStack'[frames[i].pos - 1] = ExtraStack[frames[i].pos - 1]
    BY <2>1, <2>4, <2>5, <2>6, CellWritten
  <2>8. TypesKept
    BY <1>1, <1>3, <2>3, <2>7, Here DEF TypesKept
  <2>9. Sane(mode_cpu', StackPos')  BY <1>3, <1>5, <2>3, <2>6 DEF Sane
  <2>10. Entered(f, mode_cpu', StackPos')
    BY <1>2, <1>3, <1>4, <1>10, <2>1, <2>3 DEF Entered
  <2>11. Bound(mode_cpu', StackPos') = StackPos - 1  BY <2>3 DEF Bound
  <2>12. Bound(mode_cpu', StackPos') <= Bound(mode_cpu, StackPos)
         /\ Bound(mode_cpu', StackPos') <= f.pos - 1
    BY <1>4, <1>5, <1>6, <2>11, ModeAssumption
  <2> QED BY <1>4, <1>8, <1>9, <2>3, <2>7, <2>8, <2>9, <2>10, <2>12, CallKeeps
<1>11. CASE ~extra
  <2>1. /\ ExtraStack' = ExtraStack
        /\ mode_cpu' = [mode |-> "real", ss |-> env.ss, sp |-> mode_cpu.sp - 1,
                        a20 |-> env.a20, gdt |-> env.gdt, nmi |-> env.nmi, pe |-> env.pe]
    BY <1>11 DEF EnterBios
  <2>2. env.ss \in Segments /\ env.ss # "low" /\ mode_cpu.sp - 1 \in Int
    BY <1>5, EnvType
  <2>3. /\ mode_cpu' \in CpuType /\ mode_cpu'.mode = "real" /\ mode_cpu'.ss = env.ss
        /\ mode_cpu'.sp = mode_cpu.sp - 1 /\ Env(mode_cpu') = Env(env)
    BY <1>7, <2>1, <2>2
  <2>4. TypesKept
    BY <1>1, <1>3, <2>1, <2>3, Here DEF TypesKept, ModeTypeOK
  <2>5. Sane(mode_cpu', StackPos')  BY <2>2, <2>3 DEF Sane
  <2>6. Entered(f, mode_cpu', StackPos')
    BY <1>2, <1>3, <1>4, <1>11, <2>3 DEF Entered
  <2>7. Bound(mode_cpu', StackPos') <= Bound(mode_cpu, StackPos)
    BY <1>3, <1>5, <1>6, <2>2, <2>3, ModeAssumption DEF Bound
  <2>8. ~UsesCell(f)  BY <1>2, <1>4, <1>11 DEF UsesCell
  <2> QED BY <1>4, <1>8, <1>9, <2>1, <2>3, <2>4, <2>5, <2>6, <2>7, <2>8, CallKeeps
<1> QED BY <1>10, <1>11

\* stack_hop() saves ss:sp where nothing is in use.
LEMMA StackHopKeeps ==
  ASSUME ModeInv, stack_hop
  PROVE  ModeInv'
<1> DEFINE f == [kind |-> "hop", was |-> mode_cpu, pos |-> StackPos, save |-> "none"]
<1>1. ModeTypeOK /\ restored  BY DEF ModeInv
<1>2. "none" \in Saves  BY DEF Saves, Methods
<1>3. Call("hop", "none") /\ mode_cpu.mode = "real" /\ mode_cpu.ss # "low" /\ StackPos > 1
      /\ Call16Data' = Call16Data /\ StackPos' = StackPos /\ smm' = smm
      /\ restored' = restored
      /\ ExtraStack' = [ExtraStack EXCEPT ![StackPos - 1] =
                          [ss |-> mode_cpu.ss, sp |-> mode_cpu.sp]]
      /\ mode_cpu' = [mode_cpu EXCEPT !.ss = "low", !.sp = StackPos - 1]
  BY DEF stack_hop, InBios16, OnExtra, SEG_LOW
<1>4. /\ f \in FrameType /\ frames' = Append(frames, f)
      /\ f.was = mode_cpu /\ f.pos = StackPos /\ f.kind = "hop"
  BY <1>1, <1>2, <1>3, FrameMade
<1> HIDE DEF f
<1>5. /\ mode_cpu.sp \in Int /\ mode_cpu.ss \in Segments
      /\ StackPos \in 1 .. EXTRA_STACK_SIZE + 1 /\ mode_cpu \in CpuType
      /\ Call16Data \in DataType /\ smm \in SmmType
  BY Here DEF Positions
<1>6. Bound(mode_cpu, StackPos) = StackPos  BY <1>3 DEF Bound
<1>7. "low" \in Segments /\ StackPos - 1 \in Int  BY <1>5, ModeAssumption DEF Segments
<1>8. /\ mode_cpu' \in CpuType /\ mode_cpu'.mode = "real" /\ mode_cpu'.ss = "low"
      /\ mode_cpu'.sp = StackPos - 1 /\ Env(mode_cpu') = Env(mode_cpu)
  <2> DEFINE p == StackPos - 1
             r == mode_cpu'
  <2>1. p \in Int /\ r = [mode_cpu EXCEPT !.ss = "low", !.sp = p]  BY <1>3, <1>7
  <2> HIDE DEF p, r
  <2>2. /\ r \in CpuType /\ r.mode = mode_cpu.mode /\ r.ss = "low" /\ r.sp = p
        /\ Env(r) = Env(mode_cpu)
    BY <1>5, <1>7, <2>1, Zenon DEF CpuType, Env
  <2> QED BY <1>3, <2>2 DEF p, r
<1>9. DataFits'  BY <1>8 DEF DataFits
<1>10. IF frames = <<>> THEN Far(f, mode_cpu') ELSE Within(f, mode_cpu', Innermost)
  BY <1>4 DEF Far, Within
<1>11. SavedBy(f) = [ss |-> mode_cpu.ss, sp |-> mode_cpu.sp]  BY <1>4 DEF SavedBy
<1>12. [ss |-> mode_cpu.ss, sp |-> mode_cpu.sp] \in Cell  BY <1>3, <1>5 DEF Cell
<1>13. StackPos - 1 \in 1 .. EXTRA_STACK_SIZE /\ StackPos - 1 < Bound(mode_cpu, StackPos)
  BY <1>3, <1>5, <1>6, ModeAssumption
<1>14. /\ ExtraStack' \in [1 .. EXTRA_STACK_SIZE -> Cell]
       /\ ExtraStack'[StackPos - 1] = SavedBy(f)
       /\ \A i \in 1 .. Len(frames) : UsesCell(frames[i]) =>
            ExtraStack'[frames[i].pos - 1] = ExtraStack[frames[i].pos - 1]
  BY <1>3, <1>11, <1>12, <1>13, CellWritten
<1>15. TypesKept  BY <1>1, <1>3, <1>8, <1>14, Here DEF TypesKept
<1>16. Sane(mode_cpu', StackPos')
  <2>1. 1 <= StackPos - 1 /\ StackPos - 1 < StackPos  BY <1>5, <1>13, ModeAssumption
  <2> QED BY <1>3, <1>8, <2>1 DEF Sane
<1>17. Entered(f, mode_cpu', StackPos')  BY <1>3, <1>4, <1>8 DEF Entered
<1>18. Bound(mode_cpu', StackPos') = StackPos - 1  BY <1>8 DEF Bound
<1>19. Bound(mode_cpu', StackPos') <= Bound(mode_cpu, StackPos)
       /\ Bound(mode_cpu', StackPos') <= f.pos - 1
  BY <1>4, <1>5, <1>6, <1>18, ModeAssumption
<1> QED BY <1>4, <1>9, <1>10, <1>14, <1>15, <1>16, <1>17, <1>19, CallKeeps

\* On the extra stack, its top is where the one who came there has saved ss:sp.
LEMMA TopIsSaved ==
  ASSUME ModeInv, OnExtra, frames # <<>>
  PROVE  ExtraStack[StackPos - 1] \in Cell
<1>1. mode_cpu.ss = "low" /\ 1 <= mode_cpu.sp /\ mode_cpu.sp < StackPos
  BY Here DEF OnExtra, SEG_LOW, Sane
<1>2. StackPos - 1 \in 1 .. EXTRA_STACK_SIZE
  BY <1>1, Here, ModeAssumption DEF Positions
<1> QED BY <1>2 DEF ModeInv, ModeTypeOK

\* stack_hop_back() keeps what is above in use.
LEMMA StackHopBackKeeps ==
  ASSUME ModeInv, stack_hop_back
  PROVE  ModeInv'
<1> DEFINE f == [kind |-> "hop_back", was |-> mode_cpu, pos |-> StackPos, save |-> "none"]
           s == ExtraStack[StackPos - 1]
<1>1. ModeTypeOK /\ restored  BY DEF ModeInv
<1>2. "none" \in Saves  BY DEF Saves, Methods
<1>3. Call("hop_back", "none") /\ mode_cpu.mode = "real" /\ mode_cpu.ss = "low"
      /\ Call16Data' = Call16Data /\ StackPos' = mode_cpu.sp /\ smm' = smm
      /\ restored' = restored /\ ExtraStack' = ExtraStack
      /\ mode_cpu' = [mode_cpu EXCEPT !.ss = s.ss, !.sp = s.sp]
  BY DEF stack_hop_back, InBios16, OnExtra, SEG_LOW, PosWhileAway
<1>4. s \in Cell  BY TopIsSaved DEF stack_hop_back, InBios16
<1>5. s.ss \in Segments /\ s.ss # "low" /\ s.sp \in Int  BY <1>4 DEF Cell
<1>6. /\ f \in FrameType /\ frames' = Append(frames, f)
      /\ f.was = mode_cpu /\ f.pos = StackPos /\ f.kind = "hop_back"
  BY <1>1, <1>2, <1>3, FrameMade
<1> HIDE DEF f, s
<1>7. /\ mode_cpu.sp \in Int /\ mode_cpu \in CpuType
      /\ StackPos \in 1 .. EXTRA_STACK_SIZE + 1 /\ 1 <= mode_cpu.sp /\ mode_cpu.sp < StackPos
      /\ Call16Data \in DataType /\ smm \in SmmType
  BY <1>3, Here DEF Positions, Sane
<1>8. /\ mode_cpu' \in CpuType /\ mode_cpu'.mode = "real" /\ mode_cpu'.ss # "low"
      /\ Env(mode_cpu') = Env(mode_cpu)
  <2> DEFINE r == mode_cpu'
  <2>1. r = [mode_cpu EXCEPT !.ss = s.ss, !.sp = s.sp]  BY <1>3
  <2> HIDE DEF r
  <2>2. /\ r \in CpuType /\ r.mode = mode_cpu.mode /\ r.ss = s.ss
        /\ Env(r) = Env(mode_cpu)
    BY <1>5, <1>7, <2>1, Zenon DEF CpuType, Env
  <2> QED BY <1>3, <1>5, <2>2 DEF r
<1>9. DataFits'  BY <1>8 DEF DataFits
<1>10. IF frames = <<>> THEN Far(f, mode_cpu') ELSE Within(f, mode_cpu', Innermost)
  BY <1>6 DEF Far, Within
<1>11. StackPos' \in Positions  BY <1>3, <1>7, ModeAssumption DEF Positions
<1>12. TypesKept  BY <1>1, <1>3, <1>7, <1>8, <1>11 DEF TypesKept, ModeTypeOK
<1>13. Sane(mode_cpu', StackPos')  BY <1>8 DEF Sane
<1>14. Entered(f, mode_cpu', StackPos')  BY <1>3, <1>6, <1>8 DEF Entered
<1>15. Bound(mode_cpu', StackPos') <= Bound(mode_cpu, StackPos)
  BY <1>3, <1>7, <1>8 DEF Bound
<1>16. ~UsesCell(f)  BY <1>6 DEF UsesCell
<1> QED BY <1>3, <1>6, <1>9, <1>10, <1>12, <1>13, <1>14, <1>15, <1>16, CallKeeps

\* call32() saves what call32_post() needs.
LEMMA Call32Keeps ==
  ASSUME ModeInv, call32
  PROVE  ModeInv'
<1> DEFINE method == IF smm.have THEN "smm" ELSE "big"
           m == ModeMachine
           p == call32_prep(method, m)
           e == Enter32(method, p)
           r == [e EXCEPT !.cpu.sp = @ - 1]
           f == [kind |-> "call32", was |-> mode_cpu, pos |-> StackPos, save |-> method]
<1>1. ModeTypeOK /\ restored  BY DEF ModeInv
<1>2. method \in Methods /\ method \in {"smm", "big"}  BY DEF Methods
<1>3. method \in Saves  BY <1>2 DEF Saves
<1>4. /\ Call("call32", method) /\ mode_cpu.mode = "real" /\ Room
      /\ method = "big" => ~mode_cpu.pe
      /\ ExtraStack' = PushOn(mode_cpu) /\ Becomes(r)
      /\ StackPos' = StackPos /\ restored' = restored
  BY DEF call32, InBios16
<1>5. m \in MachineType /\ m.cpu = mode_cpu /\ m.data = Call16Data /\ m.smm = smm
  BY <1>1, MachineTypes DEF ModeMachine
<1>6. /\ p \in MachineType /\ p.smm = m.smm
      /\ p.cpu.mode = m.cpu.mode /\ p.cpu.ss = m.cpu.ss /\ p.cpu.sp = m.cpu.sp
      /\ p.cpu.gdt = m.cpu.gdt /\ p.cpu.pe = m.cpu.pe /\ p.cpu.nmi = FALSE
      /\ p.data.method = method /\ p.data.ss = m.cpu.ss /\ p.data.nmi = m.cpu.nmi
      /\ IF method = "smm" THEN p.cpu.a20 = m.cpu.a20
         ELSE /\ p.cpu.a20 = TRUE /\ p.data.gdt = m.cpu.gdt
              /\ p.data.a20 = m.cpu.a20
  <2> HIDE DEF method, m
  <2>1. Prepared(method, m, p)  BY <1>2, <1>5, PrepFits
  <2> QED BY <2>1, Zenon DEF Prepared
<1>7. /\ f \in FrameType /\ frames' = Append(frames, f)
      /\ f.was = mode_cpu /\ f.pos = StackPos /\ f.kind = "call32" /\ f.save = method
  <2> HIDE DEF method
  <2> QED BY <1>1, <1>3, <1>4, FrameMade
<1> HIDE DEF f, p, m, method
<1>8. /\ e \in MachineType /\ e.data = p.data
      /\ e.cpu.mode = "flat" /\ e.cpu.ss = p.cpu.ss /\ e.cpu.sp = p.cpu.sp
      /\ e.cpu.gdt = "bios" /\ e.cpu.nmi = p.cpu.nmi
      /\ IF method = "smm"
         THEN /\ e.cpu.pe = FALSE /\ e.cpu.a20 = TRUE
              /\ e.smm.backup2 = [gdt |-> p.cpu.gdt, pe |-> p.cpu.pe]
              /\ e.smm.backup_a20 = p.cpu.a20
         ELSE e.cpu.pe = p.cpu.pe /\ e.cpu.a20 = p.cpu.a20
  BY <1>2, <1>6, EnterFits, ZenonT(40)
<1> HIDE DEF e
<1>9. /\ mode_cpu' \in CpuType /\ Call16Data' = e.data /\ smm' = e.smm
      /\ mode_cpu'.mode = "flat" /\ mode_cpu'.ss = e.cpu.ss /\ mode_cpu'.sp = e.cpu.sp - 1
      /\ Env(mode_cpu') = Env(e.cpu) /\ Call16Data' \in DataType /\ smm' \in SmmType
  <2> DEFINE q == e.cpu.sp - 1
             c == [e.cpu EXCEPT !.sp = q]
  <2>1. e.cpu \in CpuType /\ e.data \in DataType /\ e.smm \in SmmType
    BY <1>8, Zenon DEF MachineType
  <2>2. e.cpu.sp \in Int  BY <2>1, Zenon DEF CpuType
  <2>3. q \in Int  BY <2>2
  <2>4. r = [e EXCEPT !.cpu = c]  BY <1>8, <2>1, Zenon DEF MachineType
  <2>5. q = e.cpu.sp - 1  OBVIOUS
  <2> HIDE DEF q
  <2>6. /\ c \in CpuType /\ c.mode = "flat" /\ c.ss = e.cpu.ss /\ c.sp = q
        /\ Env(c) = Env(e.cpu)
    BY <1>8, <2>1, <2>3, Zenon DEF CpuType, Env
  <2> HIDE DEF c, r
  <2>7. r.cpu = c /\ r.data = e.data /\ r.smm = e.smm
    BY <1>8, <2>4, Zenon DEF MachineType
  <2> QED BY <1>4, <2>1, <2>5, <2>6, <2>7, Zenon DEF Becomes
<1>10. Env(mode_cpu') = <<TRUE, "bios", FALSE, FALSE>>
  <2>1. e.cpu.a20 = TRUE  BY <1>2, <1>6, <1>8, Zenon
  <2>2. e.cpu.nmi = FALSE  BY <1>6, <1>8, Zenon
  <2>3. e.cpu.pe = FALSE
    <3>1. CASE method = "smm"  BY <1>8, <3>1, Zenon
    <3>2. CASE method = "big"
      <4>1. mode_cpu.pe \in BOOLEAN  BY Here, Zenon DEF CpuType
      <4>2. e.cpu.pe = mode_cpu.pe /\ ~mode_cpu.pe
        BY <1>4, <1>5, <1>6, <1>8, <3>2, Zenon
      <4> QED BY <4>1, <4>2, Zenon
    <3> QED BY <1>2, <3>1, <3>2, Zenon
  <2>4. e.cpu.gdt = "bios"  BY <1>8
  <2> QED BY <1>9, <2>1, <2>2, <2>3, <2>4, Zenon DEF Env
<1>11. mode_cpu'.ss = mode_cpu.ss /\ mode_cpu'.sp = mode_cpu.sp - 1
  <2>1. e.cpu.ss = mode_cpu.ss /\ e.cpu.sp = mode_cpu.sp  BY <1>5, <1>6, <1>8, Zenon
  <2> QED BY <1>9, <2>1
<1>12. Innermost' = f
  <2>1. Len(frames') = Len(frames) + 1 /\ frames'[Len(frames) + 1] = f
    BY <1>1, <1>7, OfCall
  <2> QED BY <2>1 DEF Innermost
<1>13. DataFits'
  <2>1. Call16Data'.method = method /\ Call16Data'.ss = mode_cpu.ss
        /\ Call16Data'.nmi = mode_cpu.nmi
    BY <1>5, <1>6, <1>8, <1>9, Zenon
  <2>2. method = "big" => Call16Data'.gdt = mode_cpu.gdt /\ Call16Data'.a20 = mode_cpu.a20
    BY <1>5, <1>6, <1>8, <1>9, Zenon
  <2>3. method = "smm" => /\ smm'.backup2 = [gdt |-> mode_cpu.gdt, pe |-> mode_cpu.pe]
                          /\ smm'.backup_a20 = mode_cpu.a20
    BY <1>5, <1>6, <1>8, <1>9, Zenon
  <2> QED BY <1>7, <1>12, <2>1, <2>2, <2>3, Zenon DEF DataFits
<1>14. /\ ExtraStack' \in [1 .. EXTRA_STACK_SIZE -> Cell]
       /\ \A i \in 1 .. Len(frames) : UsesCell(frames[i]) =>
            ExtraStack'[frames[i].pos - 1] = ExtraStack[frames[i].pos - 1]
  BY <1>4, Pushed
<1>15. TypesKept  BY <1>1, <1>4, <1>9, <1>14, Here DEF TypesKept
<1>16. Sane(mode_cpu', StackPos')
  <2>1. mode_cpu'.ss = "low" => 1 <= mode_cpu'.sp /\ mode_cpu'.sp < StackPos'
    BY <1>4, <1>11, Here, ModeAssumption DEF Sane, Room, Positions
  <2> QED BY <1>10, <2>1, Zenon DEF Sane
<1>17. Entered(f, mode_cpu', StackPos')
  <2>1. f.kind = "call32" /\ f.was.mode = "real" /\ f.save \in {"smm", "big"}
        /\ (f.save = "big" => ~f.was.pe) /\ StackPos' = f.pos
    BY <1>2, <1>4, <1>7, Zenon
  <2>2. mode_cpu'.mode = "flat" /\ mode_cpu'.ss = f.was.ss /\ mode_cpu'.sp = f.was.sp - 1
    BY <1>7, <1>9, <1>11
  <2> QED BY <2>1, <2>2 DEF Entered
<1>18. IF frames = <<>> THEN Far(f, mode_cpu') ELSE Within(f, mode_cpu', Innermost)
  BY <1>7 DEF Far, Within
<1>19. Bound(mode_cpu', StackPos') <= Bound(mode_cpu, StackPos)
  BY <1>4, <1>11, Here, ModeAssumption DEF Bound, Positions
<1>20. ~UsesCell(f)  BY <1>7 DEF UsesCell
<1> QED BY <1>7, <1>13, <1>14, <1>15, <1>16, <1>17, <1>18, <1>19, <1>20, CallKeeps

\* What call16() makes of the processor, in machine m.
LEMMA Call16Makes ==
  ASSUME ModeInv, NEW m \in MachineType, m.cpu = mode_cpu, Call16(m)
  PROVE  /\ mode_cpu' \in CpuType /\ Call16Data' \in DataType /\ smm' \in SmmType
         /\ mode_cpu'.mode = "real" /\ mode_cpu'.ss = m.data.ss
         /\ mode_cpu'.sp = mode_cpu.sp - 1
         /\ Env(mode_cpu') =
              IF m.data.method = "smm"
              THEN <<m.smm.backup_a20, m.smm.backup2.gdt, m.data.nmi, m.smm.backup2.pe>>
              ELSE <<m.data.a20, m.data.gdt, m.data.nmi, FALSE>>
<1> DEFINE via == IF m.data.method = "smm" THEN "smm" ELSE "big"
           left == Leave32(via, m)
           x == [left EXCEPT !.cpu.ss = m.data.ss]
           p == call32_post(x)
           r == [p EXCEPT !.cpu.sp = @ - 1]
<1>1. mode_cpu.mode = "flat" /\ Becomes(r)  BY Zenon DEF Call16
<1>2. via \in Methods  BY DEF Methods
<1>3. m.data \in DataType /\ m.data.ss \in Segments /\ m.smm \in SmmType
      /\ m.data.a20 \in BOOLEAN /\ m.data.nmi \in BOOLEAN
  BY Zenon DEF MachineType, DataType
<1>4. m.smm.backup_a20 \in BOOLEAN /\ m.smm.backup2 \in [gdt : Gdts, pe : BOOLEAN]
  BY <1>3, Zenon DEF SmmType
<1>5. via = "smm" <=> m.data.method = "smm"  OBVIOUS
<1> HIDE DEF via
<1>6. /\ left \in MachineType /\ left.data = m.data /\ left.smm = m.smm
      /\ left.cpu.mode = "real" /\ left.cpu.ss = m.cpu.ss /\ left.cpu.sp = m.cpu.sp
      /\ left.cpu.nmi = m.cpu.nmi
      /\ IF via = "smm"
         THEN /\ left.cpu.pe = m.smm.backup2.pe /\ left.cpu.gdt = m.smm.backup2.gdt
              /\ left.cpu.a20 = (m.cpu.a20 /\ m.smm.backup_a20)
         ELSE left.cpu.pe = m.cpu.pe /\ left.cpu.gdt = m.cpu.gdt /\ left.cpu.a20 = m.cpu.a20
  BY <1>2, LeaveFits, Zenon
<1> HIDE DEF left
<1>7. /\ x \in MachineType /\ x.data = m.data /\ x.smm = m.smm
      /\ x.cpu.mode = "real" /\ x.cpu.ss = m.data.ss /\ x.cpu.sp = m.cpu.sp
      /\ Env(x.cpu) = Env(left.cpu)
  <2> DEFINE c == [left.cpu EXCEPT !.ss = m.data.ss]
  <2>1. left.cpu \in CpuType  BY <1>6, Zenon DEF MachineType
  <2>2. x = [left EXCEPT !.cpu = c]  BY Zenon
  <2>3. /\ c \in CpuType /\ c.mode = "real" /\ c.ss = m.data.ss /\ c.sp = m.cpu.sp
        /\ Env(c) = Env(left.cpu)
    BY <1>3, <1>6, <2>1, Zenon DEF CpuType, Env
  <2> HIDE DEF c, x
  <2>4. x \in MachineType /\ x.cpu = c /\ x.data = left.data /\ x.smm = left.smm
    BY <1>6, <2>2, <2>3, Zenon DEF MachineType
  <2> QED BY <1>6, <2>3, <2>4, Zenon
<1> HIDE DEF x
<1>8. /\ p \in MachineType /\ p.smm = x.smm
      /\ p.cpu.mode = x.cpu.mode /\ p.cpu.ss = x.cpu.ss /\ p.cpu.sp = x.cpu.sp
      /\ p.cpu.pe = x.cpu.pe /\ p.cpu.nmi = (x.cpu.nmi \/ x.data.nmi)
      /\ IF x.data.method = "smm"
         THEN p.cpu.gdt = x.cpu.gdt /\ p.cpu.a20 = x.cpu.a20
         ELSE p.cpu.gdt = x.data.gdt /\ p.cpu.a20 = (x.cpu.a20 /\ x.data.a20)
  BY <1>7, PostFits, Zenon
<1> HIDE DEF p
<1>9. /\ mode_cpu' \in CpuType /\ Call16Data' = p.data /\ smm' = p.smm
      /\ mode_cpu'.mode = p.cpu.mode /\ mode_cpu'.ss = p.cpu.ss
      /\ mode_cpu'.sp = p.cpu.sp - 1
      /\ Env(mode_cpu') = Env(p.cpu) /\ Call16Data' \in DataType /\ smm' \in SmmType
  <2> DEFINE q == p.cpu.sp - 1
             c == [p.cpu EXCEPT !.sp = q]
  <2>1. p.cpu \in CpuType /\ p.data \in DataType /\ p.smm \in SmmType
    BY <1>8, Zenon DEF MachineType
  <2>2. p.cpu.sp \in Int  BY <2>1, Zenon DEF CpuType
  <2>3. q \in Int  BY <2>2
  <2>4. r = [p EXCEPT !.cpu = c]  BY <1>8, <2>1, Zenon DEF MachineType
  <2>5. q = p.cpu.sp - 1  OBVIOUS
  <2> HIDE DEF q
  <2>6. /\ c \in CpuType /\ c.mode = p.cpu.mode /\ c.ss = p.cpu.ss /\ c.sp = q
        /\ Env(c) = Env(p.cpu)
    BY <1>8, <2>1, <2>3, Zenon DEF CpuType, Env
  <2> HIDE DEF c, r
  <2>7. r.cpu = c /\ r.data = p.data /\ r.smm = p.smm
    BY <1>8, <2>4, Zenon DEF MachineType
  <2> QED BY <1>1, <2>1, <2>5, <2>6, <2>7, Zenon DEF Becomes
<1>10. mode_cpu'.mode = "real" /\ mode_cpu'.ss = m.data.ss
       /\ mode_cpu'.sp = mode_cpu.sp - 1
  <2>1. p.cpu.mode = "real" /\ p.cpu.ss = m.data.ss /\ p.cpu.sp = mode_cpu.sp
    BY <1>7, <1>8, Zenon
  <2> QED BY <1>9, <2>1
<1>11. mode_cpu.a20 = TRUE /\ mode_cpu.gdt = "bios" /\ mode_cpu.nmi = FALSE
       /\ mode_cpu.pe = FALSE
  BY <1>1, Here DEF Sane, Env
<1>12. x.cpu.a20 = left.cpu.a20 /\ x.cpu.gdt = left.cpu.gdt /\ x.cpu.nmi = left.cpu.nmi
       /\ x.cpu.pe = left.cpu.pe
  BY <1>7 DEF Env
<1>13. p.cpu.nmi = m.data.nmi  BY <1>3, <1>6, <1>7, <1>8, <1>11, <1>12, Zenon
<1>14. CASE m.data.method = "smm"
  <2>1. p.cpu.pe = m.smm.backup2.pe /\ p.cpu.gdt = m.smm.backup2.gdt
    BY <1>5, <1>6, <1>7, <1>8, <1>12, <1>14, Zenon
  <2>2. p.cpu.a20 = m.smm.backup_a20
    <3>1. p.cpu.a20 = (TRUE /\ m.smm.backup_a20)
      BY <1>5, <1>6, <1>7, <1>8, <1>11, <1>12, <1>14, Zenon
    <3> QED BY <1>4, <3>1, Zenon
  <2> QED BY <1>9, <1>10, <1>13, <1>14, <2>1, <2>2, Zenon DEF Env
<1>15. CASE m.data.method # "smm"
  <2>1. p.cpu.pe = FALSE /\ p.cpu.gdt = m.data.gdt
    BY <1>5, <1>6, <1>7, <1>8, <1>11, <1>12, <1>15, SMTT(40)
  <2>2. p.cpu.a20 = m.data.a20
    <3>1. p.cpu.a20 = (TRUE /\ m.data.a20)
      BY <1>5, <1>6, <1>7, <1>8, <1>11, <1>12, <1>15, Zenon
    <3> QED BY <1>3, <3>1, Zenon
  <2> QED BY <1>9, <1>10, <1>13, <1>15, <2>1, <2>2, Zenon DEF Env
<1> QED BY <1>14, <1>15, Zenon

\* It keeps the invariant where m's Call16Data describes the caller.
LEMMA Call16Keeps ==
  ASSUME ModeInv, NEW m \in MachineType, m.cpu = mode_cpu, Call16(m),
         m.data.ss = IF frames = <<>> THEN "zero" ELSE mode_cpu.ss,
         \A f \in FrameType :
           /\ f.kind = "call16" /\ f.save.method = m.data.method
           /\ f.save.via = IF m.data.method = "smm" THEN "smm" ELSE "big"
           => IF frames = <<>> THEN Far(f, mode_cpu') ELSE Within(f, mode_cpu', Innermost)
  PROVE  ModeInv'
<1> DEFINE via == IF m.data.method = "smm" THEN "smm" ELSE "big"
           save == [via |-> via, stack |-> mode_cpu.ss, method |-> m.data.method]
           f == [kind |-> "call16", was |-> mode_cpu, pos |-> StackPos, save |-> save]
<1>1. ModeTypeOK /\ restored  BY DEF ModeInv
<1>2. /\ Call("call16", save) /\ mode_cpu.mode = "flat" /\ Room
      /\ ExtraStack' = PushOn(mode_cpu)
      /\ StackPos' = StackPos /\ restored' = restored
  BY Zenon DEF Call16
<1>3. via \in Methods  BY DEF Methods
<1>4. m.data.method \in Methods  BY Zenon DEF MachineType, DataType
<1>5. mode_cpu.ss \in Segments  BY Here
<1>6. save \in [via : Methods, stack : Segments, method : Methods]
  <2> HIDE DEF via
  <2> QED BY <1>3, <1>4, <1>5, Zenon
<1>7. save \in Saves /\ save.stack = mode_cpu.ss /\ save.method = m.data.method
      /\ save.via = via
  BY <1>6, Zenon DEF Saves
<1> HIDE DEF save
<1>8. /\ f \in FrameType /\ frames' = Append(frames, f)
      /\ f.was = mode_cpu /\ f.pos = StackPos /\ f.kind = "call16" /\ f.save = save
  BY <1>1, <1>2, <1>7, FrameMade
<1> HIDE DEF f
<1>9. /\ mode_cpu' \in CpuType /\ Call16Data' \in DataType /\ smm' \in SmmType
      /\ mode_cpu'.mode = "real" /\ mode_cpu'.ss = m.data.ss
      /\ mode_cpu'.sp = mode_cpu.sp - 1
  BY Call16Makes, Zenon
<1>10. DataFits'  BY <1>9 DEF DataFits
<1>11. IF frames = <<>> THEN Far(f, mode_cpu') ELSE Within(f, mode_cpu', Innermost)
  BY <1>7, <1>8, Zenon
<1>12. /\ ExtraStack' \in [1 .. EXTRA_STACK_SIZE -> Cell]
       /\ \A i \in 1 .. Len(frames) : UsesCell(frames[i]) =>
            ExtraStack'[frames[i].pos - 1] = ExtraStack[frames[i].pos - 1]
  BY <1>2, Pushed
<1>13. TypesKept  BY <1>1, <1>2, <1>9, <1>12, Here DEF TypesKept
<1>14. Sane(mode_cpu', StackPos')
  <2>1. mode_cpu'.ss = "low" => 1 <= mode_cpu'.sp /\ mode_cpu'.sp < StackPos'
    BY <1>2, <1>9, Here, ModeAssumption DEF Sane, Room, Positions
  <2> QED BY <1>9, <2>1, Zenon DEF Sane
<1>15. Entered(f, mode_cpu', StackPos')
  <2>1. f.save \in [via : Methods, stack : Segments, method : Methods]
        /\ f.kind = "call16" /\ f.was.mode = "flat" /\ f.save.stack = f.was.ss
        /\ mode_cpu'.mode = "real" /\ StackPos' = f.pos /\ mode_cpu'.sp = f.was.sp - 1
    BY <1>2, <1>6, <1>7, <1>8, <1>9
  <2> QED BY <2>1 DEF Entered
<1>16. frames # <<>> => Bound(mode_cpu', StackPos') <= Bound(mode_cpu, StackPos)
  BY <1>2, <1>9, Here, ModeAssumption DEF Bound, Positions
<1>17. ~UsesCell(f)  BY <1>8 DEF UsesCell
<1> QED BY <1>8, <1>10, <1>11, <1>12, <1>13, <1>14, <1>15, <1>16, <1>17, CallKeeps

\* call16() finds the environment that call32() has saved.
LEMMA Call16OfBios ==
  ASSUME ModeInv, call16
  PROVE  ModeInv'
<1> DEFINE m == ModeMachine
<1>1. ModeTypeOK /\ DataFits  BY DEF ModeInv
<1>2. frames # <<>> /\ Call16(m) /\ mode_cpu.mode = "flat"  BY DEF call16, Call16
<1>3. m \in MachineType /\ m.cpu = mode_cpu /\ m.data = Call16Data /\ m.smm = smm
  BY <1>1, MachineTypes DEF ModeMachine
<1> HIDE DEF m
<1>4. /\ Innermost.kind = "call32"
      /\ Call16Data.method = Innermost.save /\ Call16Data.ss = Innermost.was.ss
      /\ Call16Data.nmi = Innermost.was.nmi
      /\ Innermost.save = "big" =>
           Call16Data.gdt = Innermost.was.gdt /\ Call16Data.a20 = Innermost.was.a20
      /\ Innermost.save = "smm" =>
           /\ smm.backup2 = [gdt |-> Innermost.was.gdt, pe |-> Innermost.was.pe]
           /\ smm.backup_a20 = Innermost.was.a20
  BY <1>1, <1>2 DEF DataFits
<1>5. /\ Innermost.save \in {"smm", "big"} /\ mode_cpu.ss = Innermost.was.ss
      /\ Innermost.save = "big" => ~Innermost.was.pe
      /\ Innermost.was \in CpuType
  BY <1>2, <1>4, Inside DEF Entered
<1>6. m.data.ss = IF frames = <<>> THEN "zero" ELSE mode_cpu.ss
  BY <1>2, <1>3, <1>4, <1>5
<1>7. /\ mode_cpu'.ss = m.data.ss
      /\ Env(mode_cpu') =
           IF m.data.method = "smm"
           THEN <<m.smm.backup_a20, m.smm.backup2.gdt, m.data.nmi, m.smm.backup2.pe>>
           ELSE <<m.data.a20, m.data.gdt, m.data.nmi, FALSE>>
  BY <1>2, <1>3, Call16Makes, Zenon
<1>8. Env(mode_cpu') = Env(Innermost.was)
  <2>1. CASE Innermost.save = "smm"
    <3>1. m.smm.backup2.gdt = Innermost.was.gdt /\ m.smm.backup2.pe = Innermost.was.pe
      <4> DEFINE b == [gdt |-> Innermost.was.gdt, pe |-> Innermost.was.pe]
      <4>1. m.smm.backup2 = b  BY <1>3, <1>4, <2>1, Zenon
      <4>2. b.gdt = Innermost.was.gdt /\ b.pe = Innermost.was.pe  BY Zenon
      <4> HIDE DEF b
      <4> QED BY <4>1, <4>2, Zenon
    <3>2. Env(mode_cpu') = <<m.smm.backup_a20, m.smm.backup2.gdt, m.data.nmi,
                             m.smm.backup2.pe>>
      BY <1>3, <1>4, <1>7, <2>1, Zenon
    <3> QED BY <1>3, <1>4, <2>1, <3>1, <3>2, Zenon DEF Env
  <2>2. CASE Innermost.save = "big"
    <3>1. Env(mode_cpu') = <<m.data.a20, m.data.gdt, m.data.nmi, FALSE>>
      <4>1. m.data.method # "smm"  BY <1>3, <1>4, <2>2
      <4> QED BY <1>7, <4>1, Zenon
    <3>2. Innermost.was.pe \in BOOLEAN  BY <1>5, Zenon DEF CpuType
    <3>3. Innermost.was.pe = FALSE  BY <1>5, <2>2, <3>2, Zenon
    <3> QED BY <1>3, <1>4, <2>2, <3>1, <3>3, Zenon DEF Env
  <2> QED BY <1>5, <2>1, <2>2, Zenon
<1>9. ASSUME NEW f \in FrameType, f.kind = "call16", f.save.method = m.data.method,
             f.save.via = IF m.data.method = "smm" THEN "smm" ELSE "big"
      PROVE  Within(f, mode_cpu', Innermost)
  <2>1. f.save.method = Innermost.save  BY <1>3, <1>4, <1>9, Zenon
  <2>2. f.save.via = Innermost.save  BY <1>5, <1>9, <2>1
  <2>3. mode_cpu'.ss = Innermost.was.ss  BY <1>3, <1>4, <1>7, Zenon
  <2> QED BY <1>4, <1>8, <2>1, <2>2, <2>3, Zenon DEF Within
<1>10. \A f \in FrameType :
         /\ f.kind = "call16" /\ f.save.method = m.data.method
         /\ f.save.via = IF m.data.method = "smm" THEN "smm" ELSE "big"
         => IF frames = <<>> THEN Far(f, mode_cpu') ELSE Within(f, mode_cpu', Innermost)
  BY <1>2, <1>9, Zenon
<1> QED BY <1>2, <1>3, <1>6, <1>10, Call16Keeps, Zenon

\* farcall16() makes one of its own.
LEMMA Farcall16Keeps ==
  ASSUME ModeInv, NEW big \in BOOLEAN, farcall16(big)
  PROVE  ModeInv'
<1> DEFINE method == IF big THEN "big" ELSE "none"
           a20 == big \/ ~DISABLE_A20
           d == [method |-> method, ss |-> "zero", gdt |-> "none", nmi |-> TRUE, a20 |-> a20]
           m == [ModeMachine EXCEPT !.data = d]
<1>1. ModeTypeOK  BY DEF ModeInv
<1>2. frames = <<>> /\ Call16(m)  BY Zenon DEF farcall16
<1>3. d \in DataType /\ d.method = method /\ d.ss = "zero"
  <2>1. method \in Methods  BY DEF Methods
  <2>2. a20 \in BOOLEAN  OBVIOUS
  <2>3. "zero" \in Segments /\ "none" \in Gdts  BY DEF Segments, Gdts
  <2> HIDE DEF method, a20
  <2> QED BY <2>1, <2>2, <2>3, Zenon DEF DataType
<1>4. method \in {"none", "big"}  OBVIOUS
<1> HIDE DEF d, method
<1>5. m \in MachineType /\ m.cpu = mode_cpu /\ m.data = d
  <2>1. ModeMachine \in MachineType /\ ModeMachine.cpu = mode_cpu
    BY <1>1, MachineTypes DEF ModeMachine
  <2> QED BY <1>3, <2>1, Zenon DEF MachineType
<1> HIDE DEF m
<1>6. m.data.ss = IF frames = <<>> THEN "zero" ELSE mode_cpu.ss
  BY <1>2, <1>3, <1>5
<1>7. m.data.method = method /\ m.data.method # "smm"  BY <1>3, <1>4, <1>5
<1>8. mode_cpu'.ss = "zero" /\ mode_cpu'.pe = FALSE
  <2>1. /\ mode_cpu'.ss = m.data.ss
        /\ Env(mode_cpu') =
             IF m.data.method = "smm"
             THEN <<m.smm.backup_a20, m.smm.backup2.gdt, m.data.nmi, m.smm.backup2.pe>>
             ELSE <<m.data.a20, m.data.gdt, m.data.nmi, FALSE>>
    BY <1>2, <1>5, Call16Makes, Zenon
  <2>2. Env(mode_cpu') = <<m.data.a20, m.data.gdt, m.data.nmi, FALSE>>
    BY <1>7, <2>1, Zenon
  <2>3. mode_cpu'.pe = FALSE  BY <2>2, Zenon DEF Env
  <2> QED BY <1>3, <1>5, <2>1, <2>3, Zenon
<1>9. \A f \in FrameType :
         /\ f.kind = "call16" /\ f.save.method = m.data.method
         /\ f.save.via = IF m.data.method = "smm" THEN "smm" ELSE "big"
         => IF frames = <<>> THEN Far(f, mode_cpu') ELSE Within(f, mode_cpu', Innermost)
  <2> SUFFICES ASSUME NEW f \in FrameType, f.save.method = m.data.method,
                      f.save.via = IF m.data.method = "smm" THEN "smm" ELSE "big"
               PROVE  Far(f, mode_cpu')
    BY <1>2
  <2>1. f.save.via = "big" /\ f.save.method \in {"none", "big"}  BY <1>4, <1>7
  <2> QED BY <1>8, <2>1, Zenon DEF Far
<1> QED BY <1>2, <1>5, <1>6, <1>9, Call16Keeps, Zenon

\* A return that gives back what the call found.
LEMMA GivenBack ==
  ASSUME ModeInv, NEW kind, NEW pos, Returns(kind, Innermost.was, pos),
         pos = Innermost.pos, mode_cpu' = Innermost.was, StackPos' = Innermost.pos,
         Call16Data' \in DataType, smm' \in SmmType, DataFits'
  PROVE  ModeInv'
<1>1. restored'
  <2>1. restored  BY DEF ModeInv
  <2>2. restored' = (restored /\ Kept(Innermost.was) = Kept(Innermost.was)
                              /\ pos = Innermost.pos)
    BY DEF Returns
  <2> QED BY <2>1, <2>2, Zenon
<1>2. frames # <<>> /\ frames' = SubSeq(frames, 1, Len(frames) - 1) /\ ExtraStack' = Freed
  BY DEF Returns
<1> QED BY <1>1, <1>2, ReturnKeeps

\* The entry finds its ss:sp where it has put it.
LEMMA EntryReturnsKeeps ==
  ASSUME ModeInv, EntryReturns
  PROVE  ModeInv'
<1> DEFINE env == Innermost.save.env
           s == IF Innermost.save.extra THEN ExtraStack[mode_cpu.sp]
                ELSE [ss |-> mode_cpu.ss, sp |-> mode_cpu.sp]
<1>1. /\ frames # <<>> /\ Innermost.kind = "entry" /\ mode_cpu' = Innermost.was
      /\ frames' = SubSeq(frames, 1, Len(frames) - 1) /\ ExtraStack' = Freed
      /\ Call16Data' = Call16Data /\ StackPos' = StackPos /\ smm' = smm
      /\ restored' = (/\ restored
                      /\ s = [ss |-> env.ss, sp |-> Innermost.was.sp - 1]
                      /\ mode_cpu.mode = "real" /\ StackPos = Innermost.pos
                      /\ env = [ss |-> env.ss, a20 |-> mode_cpu.a20, gdt |-> mode_cpu.gdt,
                                nmi |-> mode_cpu.nmi, pe |-> mode_cpu.pe])
  BY Zenon DEF EntryReturns
<1>2. /\ Innermost.save \in [env : Environments, extra : BOOLEAN]
      /\ Innermost.was.mode = "real" /\ mode_cpu.mode = "real" /\ StackPos = Innermost.pos
      /\ Env(mode_cpu) = Env(env)
      /\ IF Innermost.save.extra
         THEN mode_cpu.ss = "low" /\ mode_cpu.sp = StackPos - 1
         ELSE mode_cpu.ss = env.ss /\ mode_cpu.sp = Innermost.was.sp - 1
  BY <1>1, Inside DEF Entered
<1>3. env \in Environments  BY <1>2, Zenon
<1>4. s = [ss |-> env.ss, sp |-> Innermost.was.sp - 1]
  <2>1. CASE Innermost.save.extra
    <3>1. UsesCell(Innermost)  BY <1>1, <2>1 DEF UsesCell
    <3>2. ExtraStack[Innermost.pos - 1] = SavedBy(Innermost)  BY <1>1, <3>1, Inside
    <3>3. SavedBy(Innermost) = [ss |-> env.ss, sp |-> Innermost.was.sp - 1]
      BY <1>1 DEF SavedBy
    <3>4. mode_cpu.sp = Innermost.pos - 1  BY <1>2, <2>1
    <3> QED BY <2>1, <3>2, <3>3, <3>4
  <2>2. CASE ~Innermost.save.extra  BY <1>2, <2>2
  <2> QED BY <2>1, <2>2
<1>5. env = [ss |-> env.ss, a20 |-> mode_cpu.a20, gdt |-> mode_cpu.gdt,
             nmi |-> mode_cpu.nmi, pe |-> mode_cpu.pe]
  <2> HIDE DEF env
  <2>1. mode_cpu.a20 = env.a20 /\ mode_cpu.gdt = env.gdt /\ mode_cpu.nmi = env.nmi
        /\ mode_cpu.pe = env.pe
    BY <1>2 DEF Env
  <2>2. env = [ss |-> env.ss, a20 |-> env.a20, gdt |-> env.gdt, nmi |-> env.nmi,
               pe |-> env.pe]
    BY <1>3, EnvType, Zenon
  <2> QED BY <2>1, <2>2, Zenon
<1>6. restored'
  <2>1. restored  BY DEF ModeInv
  <2> HIDE DEF env, s
  <2> QED BY <1>1, <1>2, <1>4, <1>5, <2>1, Zenon
<1>7. DataFits'  BY <1>1, <1>2 DEF DataFits
<1>8. Call16Data' \in DataType /\ smm' \in SmmType  BY <1>1, Here
<1> QED BY <1>1, <1>2, <1>6, <1>7, <1>8, ReturnKeeps

\* And so does stack_hop().
LEMMA HopReturnsKeeps ==
  ASSUME ModeInv, HopReturns
  PROVE  ModeInv'
<1> DEFINE s == ExtraStack[mode_cpu.sp]
           c == [mode_cpu EXCEPT !.ss = s.ss, !.sp = s.sp]
<1>1. /\ Returns("hop", c, StackPos) /\ mode_cpu' = c
      /\ Call16Data' = Call16Data /\ StackPos' = StackPos /\ smm' = smm
  BY Zenon DEF HopReturns
<1>2. frames # <<>> /\ Innermost.kind = "hop"  BY <1>1 DEF Returns
<1>3. /\ Innermost.was.mode = "real" /\ mode_cpu.mode = "real" /\ StackPos = Innermost.pos
      /\ Env(mode_cpu) = Env(Innermost.was) /\ mode_cpu.sp = StackPos - 1
  BY <1>2, Inside DEF Entered
<1>4. s = [ss |-> Innermost.was.ss, sp |-> Innermost.was.sp]
  <2>1. UsesCell(Innermost)  BY <1>2 DEF UsesCell
  <2>2. ExtraStack[Innermost.pos - 1] = SavedBy(Innermost)  BY <1>2, <2>1, Inside
  <2> QED BY <1>2, <1>3, <2>2 DEF SavedBy
<1>5. s.ss = Innermost.was.ss /\ s.sp = Innermost.was.sp  BY <1>4
<1> HIDE DEF s
<1>6. mode_cpu \in CpuType /\ Innermost.was \in CpuType
      /\ Innermost.was.ss \in Segments /\ Innermost.was.sp \in Int
  BY <1>2, Here, Inside
<1>7. c \in CpuType /\ c.mode = mode_cpu.mode /\ c.ss = Innermost.was.ss
      /\ c.sp = Innermost.was.sp /\ Env(c) = Env(mode_cpu)
  BY <1>5, <1>6, Zenon DEF CpuType, Env
<1> HIDE DEF c
<1>8. c = Innermost.was
  <2>1. c.a20 = Innermost.was.a20 /\ c.gdt = Innermost.was.gdt
        /\ c.nmi = Innermost.was.nmi /\ c.pe = Innermost.was.pe
    BY <1>3, <1>7 DEF Env
  <2> QED BY <1>3, <1>6, <1>7, <2>1, SameCpu
<1>9. DataFits'  BY <1>1, <1>3, <1>8 DEF DataFits
<1> QED BY <1>1, <1>3, <1>8, <1>9, Here, GivenBack

\* stack_hop_back() finds the extra stack again.
LEMMA HopBackReturnsKeeps ==
  ASSUME ModeInv, HopBackReturns
  PROVE  ModeInv'
<1> DEFINE c == [mode_cpu EXCEPT !.ss = Innermost.was.ss, !.sp = Innermost.was.sp]
<1>1. /\ Returns("hop_back", c, Innermost.pos) /\ mode_cpu' = c
      /\ Call16Data' = Call16Data /\ StackPos' = Innermost.pos /\ smm' = smm
  BY Zenon DEF HopBackReturns
<1>2. frames # <<>> /\ Innermost.kind = "hop_back"  BY <1>1 DEF Returns
<1>3. /\ Innermost.was.mode = "real" /\ mode_cpu.mode = "real"
      /\ Env(mode_cpu) = Env(Innermost.was)
  BY <1>2, Inside DEF Entered
<1>4. mode_cpu \in CpuType /\ Innermost.was \in CpuType
      /\ Innermost.was.ss \in Segments /\ Innermost.was.sp \in Int
  BY <1>2, Here, Inside
<1>5. c \in CpuType /\ c.mode = mode_cpu.mode /\ c.ss = Innermost.was.ss
      /\ c.sp = Innermost.was.sp /\ Env(c) = Env(mode_cpu)
  BY <1>4, Zenon DEF CpuType, Env
<1> HIDE DEF c
<1>6. c = Innermost.was
  <2>1. c.a20 = Innermost.was.a20 /\ c.gdt = Innermost.was.gdt
        /\ c.nmi = Innermost.was.nmi /\ c.pe = Innermost.was.pe
    BY <1>3, <1>5 DEF Env
  <2> QED BY <1>3, <1>4, <1>5, <2>1, SameCpu
<1>7. DataFits'  BY <1>1, <1>3, <1>6 DEF DataFits
<1> QED BY <1>1, <1>6, <1>7, Here, GivenBack

\* call32_post() finds its own data in Call16Data, though calls between have used it.
LEMMA Call32ReturnsKeeps ==
  ASSUME ModeInv, Call32Returns
  PROVE  ModeInv'
<1> DEFINE m == ModeMachine
           via == Innermost.save
           was == Innermost.was
           left == Leave32(via, m)
           p == call32_post(left)
           c == [p.cpu EXCEPT !.ss = was.ss, !.sp = was.sp]
           r == [p EXCEPT !.cpu = c]
<1>1. ModeTypeOK /\ DataFits  BY DEF ModeInv
<1>2. /\ Returns("call32", c, StackPos) /\ Becomes(r) /\ StackPos' = StackPos
  BY Zenon DEF Call32Returns
<1>3. frames # <<>> /\ Innermost.kind = "call32"  BY <1>2 DEF Returns
<1>4. /\ was.mode = "real" /\ via \in {"smm", "big"} /\ mode_cpu.mode = "flat"
      /\ via = "big" => ~was.pe
      /\ StackPos = Innermost.pos
  BY <1>3, Inside DEF Entered
<1>5. /\ Call16Data.method = via /\ Call16Data.nmi = was.nmi
      /\ via = "big" => Call16Data.gdt = was.gdt /\ Call16Data.a20 = was.a20
      /\ via = "smm" => /\ smm.backup2 = [gdt |-> was.gdt, pe |-> was.pe]
                        /\ smm.backup_a20 = was.a20
  BY <1>1, <1>3, <1>4 DEF DataFits
<1>6. m \in MachineType /\ m.cpu = mode_cpu /\ m.data = Call16Data /\ m.smm = smm
  BY <1>1, MachineTypes DEF ModeMachine
<1>7. /\ was \in CpuType /\ was.ss \in Segments /\ was.sp \in Int
      /\ was.a20 \in BOOLEAN /\ was.nmi \in BOOLEAN /\ was.pe \in BOOLEAN
  <2>1. was \in CpuType /\ was.ss \in Segments /\ was.sp \in Int  BY <1>3, Inside
  <2> QED BY <2>1, Zenon DEF CpuType
<1>8. mode_cpu.a20 = TRUE /\ mode_cpu.nmi = FALSE /\ mode_cpu.pe = FALSE
  BY <1>4, Here DEF Sane, Env
<1>9. via \in Methods  BY <1>4 DEF Methods
<1> HIDE DEF m, via, was
<1>10. /\ left \in MachineType /\ left.data = m.data /\ left.smm = m.smm
       /\ left.cpu.mode = "real"
       /\ left.cpu.nmi = m.cpu.nmi
       /\ IF via = "smm"
          THEN /\ left.cpu.pe = m.smm.backup2.pe /\ left.cpu.gdt = m.smm.backup2.gdt
               /\ left.cpu.a20 = (m.cpu.a20 /\ m.smm.backup_a20)
          ELSE left.cpu.pe = m.cpu.pe /\ left.cpu.gdt = m.cpu.gdt /\ left.cpu.a20 = m.cpu.a20
  BY <1>6, <1>9, LeaveFits, Zenon
<1> HIDE DEF left
<1>11. /\ p \in MachineType /\ p.smm = left.smm /\ p.cpu.mode = left.cpu.mode
       /\ p.cpu.pe = left.cpu.pe /\ p.cpu.nmi = (left.cpu.nmi \/ left.data.nmi)
       /\ IF left.data.method = "smm"
          THEN p.cpu.gdt = left.cpu.gdt /\ p.cpu.a20 = left.cpu.a20
          ELSE p.cpu.gdt = left.data.gdt /\ p.cpu.a20 = (left.cpu.a20 /\ left.data.a20)
  BY <1>10, PostFits, Zenon
<1> HIDE DEF p
<1>12. p.cpu \in CpuType /\ p.data \in DataType /\ p.smm \in SmmType
  BY <1>11, Zenon DEF MachineType
<1>13. /\ c \in CpuType /\ c.mode = p.cpu.mode /\ c.ss = was.ss /\ c.sp = was.sp
       /\ c.a20 = p.cpu.a20 /\ c.gdt = p.cpu.gdt /\ c.nmi = p.cpu.nmi /\ c.pe = p.cpu.pe
  BY <1>7, <1>12, Zenon DEF CpuType
<1> HIDE DEF c
<1>14. r.cpu = c /\ r.data = p.data /\ r.smm = p.smm
  BY <1>11, <1>13, Zenon DEF MachineType
<1>15. p.cpu.mode = was.mode  BY <1>4, <1>10, <1>11, Zenon
<1>16. p.cpu.nmi = was.nmi
  <2>1. p.cpu.nmi = (FALSE \/ was.nmi)  BY <1>5, <1>6, <1>8, <1>10, <1>11, Zenon
  <2> QED BY <1>7, <2>1, Zenon
<1>17. p.cpu.a20 = was.a20 /\ p.cpu.gdt = was.gdt /\ p.cpu.pe = was.pe
  <2>1. CASE via = "smm"
    <3> DEFINE b == [gdt |-> was.gdt, pe |-> was.pe]
    <3>1. m.smm.backup2 = b /\ m.smm.backup_a20 = was.a20  BY <1>5, <1>6, <2>1, Zenon
    <3>2. b.gdt = was.gdt /\ b.pe = was.pe  BY Zenon
    <3> HIDE DEF b
    <3>3. left.data.method = "smm"  BY <1>5, <1>6, <1>10, <2>1, Zenon
    <3>4. p.cpu.gdt = was.gdt /\ p.cpu.pe = was.pe
      BY <1>10, <1>11, <2>1, <3>1, <3>2, <3>3, Zenon
    <3>5. p.cpu.a20 = (TRUE /\ was.a20)
      BY <1>6, <1>8, <1>10, <1>11, <2>1, <3>1, <3>3, Zenon
    <3> QED BY <1>7, <3>4, <3>5, Zenon
  <2>2. CASE via = "big"
    <3>1. left.data.method = "big" /\ left.data.method # "smm" /\ via # "smm"
      <4>1. left.data.method = via  BY <1>5, <1>6, <1>10, Zenon
      <4> QED BY <2>2, <4>1
    <3>2. was.pe = FALSE  BY <1>4, <1>7, <2>2, Zenon
    <3>3. p.cpu.gdt = was.gdt /\ p.cpu.pe = was.pe
      BY <1>5, <1>6, <1>8, <1>10, <1>11, <2>2, <3>1, <3>2, Zenon
    <3>4. p.cpu.a20 = (TRUE /\ was.a20)
      BY <1>5, <1>6, <1>8, <1>10, <1>11, <2>2, <3>1, Zenon
    <3> QED BY <1>7, <3>3, <3>4, Zenon
  <2> QED BY <1>4, <2>1, <2>2, Zenon
<1>18. c = was
  BY <1>7, <1>13, <1>15, <1>16, <1>17, SameCpu, Zenon
<1> HIDE DEF r
<1>19. mode_cpu' = Innermost.was /\ Call16Data' = p.data /\ smm' = p.smm
  BY <1>2, <1>14, <1>18, Zenon DEF Becomes, was
<1>20. DataFits'  BY <1>4, <1>19 DEF DataFits, was
<1>21. Returns("call32", Innermost.was, StackPos)  BY <1>2, <1>18, Zenon DEF was
<1> QED BY <1>2, <1>4, <1>12, <1>19, <1>20, <1>21, GivenBack, Zenon

\* call16_helper() puts the data of the call32() around it back into Call16Data.
LEMMA Call16ReturnsKeeps ==
  ASSUME ModeInv, Call16Returns
  PROVE  ModeInv'
<1> DEFINE m == ModeMachine
           method == Innermost.save.method
           via == Innermost.save.via
           stack == Innermost.save.stack
           was == Innermost.was
           p == call32_prep(method, m)
           e == Enter32(via, p)
           c == [e.cpu EXCEPT !.ss = stack, !.sp = was.sp]
           r == [e EXCEPT !.cpu = c]
           g == frames[Len(frames) - 1]
<1>1. ModeTypeOK  BY DEF ModeInv
<1>2. /\ Returns("call16", c, StackPos) /\ Becomes(r) /\ StackPos' = StackPos
  BY Zenon DEF Call16Returns
<1>3. frames # <<>> /\ Innermost.kind = "call16"
      /\ frames' = SubSeq(frames, 1, Len(frames) - 1)
  BY <1>2 DEF Returns
<1>4. /\ Innermost.save \in [via : Methods, stack : Segments, method : Methods]
      /\ was.mode = "flat" /\ stack = was.ss /\ mode_cpu.mode = "real"
      /\ StackPos = Innermost.pos
  BY <1>3, Inside DEF Entered
<1>5. via \in Methods /\ method \in Methods  BY <1>4, Zenon
<1>6. /\ was \in CpuType /\ was.ss \in Segments /\ was.sp \in Int
      /\ was.a20 = TRUE /\ was.gdt = "bios" /\ was.nmi = FALSE /\ was.pe = FALSE
  <2>1. was \in CpuType /\ was.ss \in Segments /\ was.sp \in Int
        /\ Sane(was, Innermost.pos)
    BY <1>3, Inside
  <2> QED BY <1>4, <2>1 DEF Sane, Env
\* The call32() around it, if there is one, has found a processor in real mode, or takes SMM.
<1>7. ASSUME Len(frames) # 1
      PROVE  /\ g.kind = "call32" /\ via = g.save /\ method = g.save
             /\ mode_cpu.ss = g.was.ss /\ Env(mode_cpu) = Env(g.was)
             /\ g.save \in {"smm", "big"} /\ (g.save = "big" => ~g.was.pe)
             /\ g.was \in CpuType
  <2>1. /\ Within(Innermost, mode_cpu, g) /\ g \in FrameType
        /\ Entered(g, was, Innermost.pos)
    BY <1>3, <1>7, Inside
  <2>2. /\ g.kind = "call32" /\ via = g.save /\ method = g.save
        /\ mode_cpu.ss = g.was.ss /\ Env(mode_cpu) = Env(g.was)
    BY <1>3, <2>1 DEF Within
  <2>3. g.save \in {"smm", "big"} /\ (g.save = "big" => ~g.was.pe)
    BY <2>1, <2>2 DEF Entered
  <2>4. g.was \in CpuType  BY <2>1, Zenon DEF FrameType
  <2> QED BY <2>2, <2>3, <2>4
<1>8. (via = "smm" <=> method = "smm") /\ (via # "smm" => ~mode_cpu.pe)
  <2>1. CASE Len(frames) = 1
    <3>1. Far(Innermost, mode_cpu)  BY <1>3, <2>1, Inside
    <3>2. via = "big" /\ method \in {"none", "big"} /\ ~mode_cpu.pe
      BY <1>3, <3>1 DEF Far
    <3> QED BY <3>2
  <2>2. CASE Len(frames) # 1
    <3>1. mode_cpu.pe = g.was.pe  BY <1>7, <2>2 DEF Env
    <3>2. via = method  BY <1>7, <2>2
    <3>3. via # "smm" => ~g.was.pe  BY <1>7, <2>2
    <3> QED BY <3>1, <3>2, <3>3, Zenon
  <2> QED BY <2>1, <2>2
<1>9. m \in MachineType /\ m.cpu = mode_cpu /\ m.data = Call16Data /\ m.smm = smm
  BY <1>1, MachineTypes DEF ModeMachine
<1> HIDE DEF m, via, was, method, stack, g
<1>10. /\ p \in MachineType /\ p.smm = m.smm
       /\ p.cpu.mode = m.cpu.mode /\ p.cpu.ss = m.cpu.ss /\ p.cpu.sp = m.cpu.sp
       /\ p.cpu.gdt = m.cpu.gdt /\ p.cpu.pe = m.cpu.pe /\ p.cpu.nmi = FALSE
       /\ p.data.method = method /\ p.data.ss = m.cpu.ss /\ p.data.nmi = m.cpu.nmi
       /\ IF method = "smm" THEN p.cpu.a20 = m.cpu.a20
          ELSE /\ p.cpu.a20 = TRUE /\ p.data.gdt = m.cpu.gdt
               /\ p.data.a20 = m.cpu.a20
  <2>1. Prepared(method, m, p)  BY <1>5, <1>9, PrepFits
  <2> QED BY <2>1, Zenon DEF Prepared
<1> HIDE DEF p
<1>11. /\ e \in MachineType /\ e.data = p.data
       /\ e.cpu.mode = "flat" /\ e.cpu.ss = p.cpu.ss /\ e.cpu.sp = p.cpu.sp
       /\ e.cpu.gdt = "bios" /\ e.cpu.nmi = p.cpu.nmi
       /\ IF via = "smm"
          THEN /\ e.cpu.pe = FALSE /\ e.cpu.a20 = TRUE
               /\ e.smm.backup2 = [gdt |-> p.cpu.gdt, pe |-> p.cpu.pe]
               /\ e.smm.backup_a20 = p.cpu.a20
          ELSE e.cpu.pe = p.cpu.pe /\ e.cpu.a20 = p.cpu.a20
  BY <1>5, <1>10, EnterFits, ZenonT(40)
<1> HIDE DEF e
<1>12. e.cpu \in CpuType /\ e.data \in DataType /\ e.smm \in SmmType
  BY <1>11, Zenon DEF MachineType
<1>13. stack \in Segments  BY <1>4, <1>6 DEF stack
<1>14. /\ c \in CpuType /\ c.mode = e.cpu.mode /\ c.ss = stack /\ c.sp = was.sp
       /\ c.a20 = e.cpu.a20 /\ c.gdt = e.cpu.gdt /\ c.nmi = e.cpu.nmi /\ c.pe = e.cpu.pe
  BY <1>6, <1>12, <1>13, Zenon DEF CpuType
<1> HIDE DEF c
<1>15. r.cpu = c /\ r.data = e.data /\ r.smm = e.smm
  BY <1>11, <1>14, Zenon DEF MachineType
<1>16. e.cpu.a20 = TRUE /\ e.cpu.pe = FALSE
  <2>1. CASE via = "smm"  BY <1>11, <2>1, Zenon
  <2>2. CASE via # "smm"
    <3>1. method # "smm" /\ ~mode_cpu.pe  BY <1>8, <2>2
    <3>2. mode_cpu.pe \in BOOLEAN  BY Here, Zenon DEF CpuType
    <3>3. mode_cpu.pe = FALSE  BY <3>1, <3>2, Zenon
    <3> QED BY <1>9, <1>10, <1>11, <2>2, <3>1, <3>3, Zenon
  <2> QED BY <2>1, <2>2
<1>17. e.cpu.mode = was.mode /\ stack = was.ss /\ e.cpu.gdt = was.gdt
       /\ e.cpu.nmi = was.nmi /\ e.cpu.a20 = was.a20 /\ e.cpu.pe = was.pe
  BY <1>4, <1>6, <1>10, <1>11, <1>16, Zenon DEF stack
<1>18. c = was  BY <1>6, <1>14, <1>17, SameCpu, Zenon
<1> HIDE DEF r
<1>19. mode_cpu' = Innermost.was /\ Call16Data' = e.data /\ smm' = e.smm
  BY <1>2, <1>15, <1>18, Zenon DEF Becomes, was
<1>20. DataFits'
  <2> SUFFICES ASSUME frames' # <<>> PROVE DataFits'
    BY DEF DataFits
  <2>1. /\ Len(frames) \in Nat \ {0} /\ Len(frames') = Len(frames) - 1
        /\ frames' \in Seq(FrameType)
        /\ \A i \in 1 .. Len(frames) - 1 : frames'[i] = frames[i]
    <3>1. StackPos' = Innermost.pos  BY <1>2, <1>4
    <3> QED BY <1>1, <1>3, <1>19, <3>1, OfReturn
  <2>2. Len(frames) # 1  BY <2>1
  <2>3. Innermost' = g
    <3>1. Len(frames) - 1 \in 1 .. Len(frames) - 1  BY <2>1, <2>2
    <3> QED BY <2>1, <3>1 DEF Innermost, g
  <2>4. /\ g.kind = "call32" /\ via = g.save /\ method = g.save
        /\ mode_cpu.ss = g.was.ss /\ Env(mode_cpu) = Env(g.was)
    BY <1>7, <2>2
  <2>5. mode_cpu.a20 = g.was.a20 /\ mode_cpu.gdt = g.was.gdt /\ mode_cpu.nmi = g.was.nmi
        /\ mode_cpu.pe = g.was.pe
    BY <2>4 DEF Env
  <2>6. /\ Call16Data'.method = g.save /\ Call16Data'.ss = g.was.ss
        /\ Call16Data'.nmi = g.was.nmi
    BY <1>9, <1>10, <1>11, <1>19, <2>4, <2>5, Zenon
  <2>7. g.save = "big" => Call16Data'.gdt = g.was.gdt /\ Call16Data'.a20 = g.was.a20
    <3> SUFFICES ASSUME g.save = "big"
                 PROVE  Call16Data'.gdt = g.was.gdt /\ Call16Data'.a20 = g.was.a20
      OBVIOUS
    <3>1. method # "smm"  BY <2>4
    <3> QED BY <1>9, <1>10, <1>11, <1>19, <2>5, <3>1, Zenon
  <2>8. g.save = "smm" => /\ smm'.backup2 = [gdt |-> g.was.gdt, pe |-> g.was.pe]
                          /\ smm'.backup_a20 = g.was.a20
    BY <1>9, <1>10, <1>11, <1>19, <2>4, <2>5, SMTT(40)
  <2> QED BY <2>3, <2>4, <2>6, <2>7, <2>8, Zenon DEF DataFits
<1>21. Returns("call16", Innermost.was, StackPos)  BY <1>2, <1>18, Zenon DEF was
<1> QED BY <1>2, <1>4, <1>12, <1>19, <1>20, <1>21, GivenBack, Zenon

LEMMA ModeStarts == ModeInit => ModeInv
<1> SUFFICES ASSUME ModeInit PROVE ModeInv
  OBVIOUS
<1>1. frames = <<>> /\ Len(frames) = 0 /\ StackPos = EXTRA_STACK_SIZE + 1 /\ restored = TRUE
  BY DEF ModeInit
<1>2. 2 * MaxDepth \in Int  BY ModeAssumption
<1>3. mode_cpu \in CpuType /\ mode_cpu.ss # "low"
      /\ (mode_cpu.mode = "flat" => Env(mode_cpu) = <<TRUE, "bios", FALSE, FALSE>>)
  <2> DEFINE d == 2 * MaxDepth
  <2>1. d \in Int  BY <1>2
  <2>2. CASE \E env \in Environments :
               mode_cpu = [mode |-> "real", ss |-> env.ss, sp |-> d, a20 |-> env.a20,
                           gdt |-> env.gdt, nmi |-> env.nmi, pe |-> env.pe]
    <3> HIDE DEF d
    <3>1. PICK env \in Environments :
               mode_cpu = [mode |-> "real", ss |-> env.ss, sp |-> d, a20 |-> env.a20,
                           gdt |-> env.gdt, nmi |-> env.nmi, pe |-> env.pe]
      BY <2>2
    <3>2. mode_cpu \in CpuType  BY <2>1, <3>1, EnvType, Zenon DEF CpuType
    <3>3. mode_cpu.ss # "low" /\ mode_cpu.mode = "real"  BY <3>1, EnvType
    <3> QED BY <3>2, <3>3
  <2>3. CASE mode_cpu = [mode |-> "flat", ss |-> "zero", sp |-> d, a20 |-> TRUE,
                         gdt |-> "bios", nmi |-> FALSE, pe |-> FALSE]
    <3> HIDE DEF d
    <3>1. "zero" \in Segments /\ "bios" \in Gdts  BY DEF Segments, Gdts
    <3>2. mode_cpu \in CpuType  BY <2>1, <2>3, <3>1, Zenon DEF CpuType
    <3>3. mode_cpu.ss = "zero" /\ Env(mode_cpu) = <<TRUE, "bios", FALSE, FALSE>>
      BY <2>3, Zenon DEF Env
    <3> QED BY <3>2, <3>3
  <2> QED BY <2>2, <2>3 DEF ModeInit
<1>4. ModeTypeOK
  <2>1. Call16Data \in DataType
    <3>1. "zero" \in Segments /\ "none" \in Gdts /\ "none" \in Methods
      BY DEF Segments, Gdts, Methods
    <3> QED BY <3>1, Zenon DEF ModeInit, DataType
  <2>2. smm \in SmmType
    <3>1. "none" \in Gdts  BY DEF Gdts
    <3> DEFINE b == [gdt |-> "none", pe |-> FALSE]
    <3>2. b \in [gdt : Gdts, pe : BOOLEAN]  BY <3>1, Zenon
    <3>3. smm \in [have : BOOLEAN, backup2 : {b}, backup_a20 : {TRUE}]
      BY DEF ModeInit
    <3> HIDE DEF b
    <3> QED BY <3>2, <3>3, Zenon DEF SmmType
  <2>3. Junk \in Cell  BY DEF Junk, Cell, Segments
  <2>4. ExtraStack \in [1 .. EXTRA_STACK_SIZE -> Cell]  BY <2>3 DEF ModeInit
  <2>5. StackPos \in Positions  BY <1>1, ModeAssumption DEF Positions
  <2>6. frames \in Seq(FrameType)  BY <1>1
  <2> QED BY <1>1, <1>3, <2>1, <2>2, <2>4, <2>5, <2>6 DEF ModeTypeOK
<1>5. Levels
  <2>1. \A i \in 0 .. Len(frames) : Sane(CpuAt(i), PosAt(i))
    <3>1. ASSUME NEW i \in 0 .. Len(frames) PROVE Sane(CpuAt(i), PosAt(i))
      <4>1. i = Len(frames)  BY <1>1
      <4>2. CpuAt(i) = mode_cpu  BY <4>1 DEF CpuAt
      <4> QED BY <1>3, <4>2 DEF Sane
    <3> QED BY <3>1
  <2> QED BY <1>1, <2>1 DEF Levels
<1>6. CellsKept  BY <1>1 DEF CellsKept
<1>7. DataFits  BY <1>1 DEF DataFits
<1> QED BY <1>1, <1>4, <1>5, <1>6, <1>7 DEF ModeInv

LEMMA ModeStutters == ModeInv /\ UNCHANGED modeVars => ModeInv'
<1> SUFFICES ASSUME ModeInv, UNCHANGED modeVars PROVE ModeInv'
  OBVIOUS
<1>1. mode_cpu' = mode_cpu /\ Call16Data' = Call16Data /\ ExtraStack' = ExtraStack
      /\ StackPos' = StackPos /\ smm' = smm /\ frames' = frames /\ restored' = restored
  BY DEF modeVars
<1>2. \A i : CpuAt(i)' = CpuAt(i) /\ PosAt(i)' = PosAt(i)  BY <1>1 DEF CpuAt, PosAt
<1> QED BY <1>1, <1>2 DEF ModeInv, ModeTypeOK, Levels, CellsKept, DataFits, Innermost

\* The invariant tells what ModesRestored does.
LEMMA ModeShows == ModeInv => ModesRestored
<1> SUFFICES ASSUME ModeInv PROVE ModesRestored
  OBVIOUS
<1>1. restored  BY DEF ModeInv
<1>2. mode_cpu.mode = "flat" => mode_cpu.a20 /\ mode_cpu.gdt = "bios" /\ ~mode_cpu.nmi
  <2>1. mode_cpu.mode = "flat" => Env(mode_cpu) = <<TRUE, "bios", FALSE, FALSE>>
    BY Here DEF Sane
  <2>2. mode_cpu.mode = "flat" =>
          mode_cpu.a20 = TRUE /\ mode_cpu.gdt = "bios" /\ mode_cpu.nmi = FALSE
    BY <2>1 DEF Env
  <2> QED BY <2>2, Zenon
<1>3. ASSUME frames # <<>>, Innermost.kind = "call16", Around # {}
      PROVE  LET was == frames[CHOOSE i \in Around : \A j \in Around : j <= i].was
             IN  /\ mode_cpu.ss = was.ss
                 /\ <<mode_cpu.a20, mode_cpu.gdt, mode_cpu.nmi, mode_cpu.pe>>
                      = <<was.a20, was.gdt, was.nmi, was.pe>>
  <2> DEFINE n == Len(frames)
             last == CHOOSE i \in Around : \A j \in Around : j <= i
  <2>1. n \in Nat \ {0} /\ Innermost = frames[n]  BY <1>3, Inside
  <2>2. \A i \in Around : i \in 1 .. n - 1
    BY <1>3, <2>1 DEF Around
  <2>3. n # 1
    <3>1. PICK i \in Around : i \in 1 .. n - 1  BY <1>3, <2>2
    <3> HIDE DEF n
    <3> QED BY <2>1, <3>1
  <2>4. Within(Innermost, mode_cpu, frames[n - 1])  BY <1>3, <2>3, Inside
  <2>5. frames[n - 1].kind = "call32" /\ mode_cpu.ss = frames[n - 1].was.ss
        /\ Env(mode_cpu) = Env(frames[n - 1].was)
    BY <1>3, <2>4 DEF Within
  <2>6. n - 1 \in Around  BY <2>1, <2>3, <2>5 DEF Around
  <2>7. \A j \in Around : j <= n - 1  BY <2>2
  <2>8. last \in Around /\ \A j \in Around : j <= last  BY <2>6, <2>7
  <2> HIDE DEF last
  <2>9. last = n - 1
    <3>1. last \in 1 .. n - 1 /\ n - 1 <= last  BY <2>2, <2>6, <2>8
    <3> QED BY <2>1, <3>1
  <2> QED BY <2>5, <2>9 DEF Env, last
<1> QED BY <1>1, <1>2, <1>3 DEF ModesRestored

LEMMA ModeSteps == ModeInv /\ [ModeNext]_modeVars => ModeInv'
<1> SUFFICES ASSUME ModeInv, [ModeNext]_modeVars PROVE ModeInv'
  OBVIOUS
<1>1. CASE \E env \in Environments, extra \in BOOLEAN : EnterBios(env, extra)
  BY <1>1, EnterBiosKeeps
<1>2. CASE EntryReturns  BY <1>2, EntryReturnsKeeps
<1>3. CASE stack_hop  BY <1>3, StackHopKeeps
<1>4. CASE HopReturns  BY <1>4, HopReturnsKeeps
<1>5. CASE stack_hop_back  BY <1>5, StackHopBackKeeps
<1>6. CASE HopBackReturns  BY <1>6, HopBackReturnsKeeps
<1>7. CASE call32  BY <1>7, Call32Keeps
<1>8. CASE Call32Returns  BY <1>8, Call32ReturnsKeeps
<1>9. CASE call16  BY <1>9, Call16OfBios
<1>10. CASE \E big \in BOOLEAN : farcall16(big)  BY <1>10, Farcall16Keeps
<1>11. CASE Call16Returns  BY <1>11, Call16ReturnsKeeps
<1>12. CASE UNCHANGED modeVars  BY <1>12, ModeStutters
<1> QED BY <1>1, <1>2, <1>3, <1>4, <1>5, <1>6, <1>7, <1>8, <1>9, <1>10, <1>11, <1>12
        DEF ModeNext

\* Every entry, hop and mode switch gives back the mode, the stack, the A20 gate, the
\* descriptor table and the NMI mask that it found, however they nest.
THEOREM ModesCorrect == ModeSpec => []ModesRestored
<1>1. ModeSpec => []ModeInv  BY ModeStarts, ModeSteps, PTL DEF ModeSpec
<1> QED BY <1>1, ModeShows, PTL

----------------------------------------------------------------------------
(* The rings of xHCI: the driver, the controller and whoever drains the       *)
(* events stay in step, for rings of any size and any number of threads.      *)

\* The types of what the driver and the controller keep.
Bits == {0, 1}
Trb == [n : Nat, kind : {"none", "ioc", "stage", Link}, c : Bits]
XhciEvent == [ring : Rings \cup {"port"}, index : 0 .. XHCI_RING_ITEMS - 2, n : Nat,
              cc : {0, 1, 4}, c : Bits]
XhciRing == [trbs : [RingIndex -> Trb], nidx : RingIndex, eidx : RingIndex, cs : Bits,
             evt : XhciEvent, n : Nat, over : BOOLEAN]
EventRing == [trbs : [RingIndex -> XhciEvent], nidx : RingIndex, cs : Bits, taken : Nat]
HcPosition == [deq : RingIndex, cs : Bits, n : Nat, halted : BOOLEAN]
HcEvents == [enq : RingIndex, cs : Bits, posted : Nat]

\* The driver has put the link at the end of the ring: it was there once.
Linked(r) == r.trbs[XHCI_RING_ITEMS - 1].kind = Link

\* What the driver has written: the cycle bit and the numbers of the entries.
RingFilled(r) ==
  /\ r.nidx = 0 => r.n = 0
  /\ r.n >= r.nidx
  /\ Linked(r) => r.n >= XHCI_RING_ITEMS
  /\ ~Linked(r) => r.trbs[XHCI_RING_ITEMS - 1].kind = "none" /\ r.cs = 1 /\ r.nidx = r.n
  /\ r.trbs[XHCI_RING_ITEMS - 1].c = 1 - r.cs
  /\ \A i \in 0 .. XHCI_RING_ITEMS - 2 :
       /\ r.trbs[i].kind # Link
       /\ i < r.nidx => r.trbs[i].c = r.cs /\ r.trbs[i].n = r.n - r.nidx + 1 + i
       /\ i >= r.nidx => r.trbs[i].c = 1 - r.cs
       /\ i >= r.nidx /\ Linked(r) => r.trbs[i].n = r.n - r.nidx + 2 + i - XHCI_RING_ITEMS
  /\ ~r.over => r.n - r.evt.n <= XHCI_RING_ITEMS - 2

\* The entry behind TRB m, one of the last.
Behind(r, m) ==
  IF r.n - m < r.nidx THEN r.nidx - (r.n - m)
  ELSE r.nidx - (r.n - m) + XHCI_RING_ITEMS - 1

\* The controller, and the last event that was taken, are behind the driver.
Follows(r, h) ==
  /\ r.evt.n <= h.n /\ h.n <= r.n
  /\ h.n = 0 => h.deq = 0 /\ h.cs = 1
  /\ h.n > 0 => h.deq = Behind(r, h.n) /\ (h.cs = r.cs <=> r.n - h.n < r.nidx)
  /\ r.evt.n = 0 => r.eidx = 0
  /\ r.evt.n > 0 => r.eidx = Behind(r, r.evt.n)

\* The events that the driver has not taken.
Turn(ev, i) == IF i >= ev.nidx THEN i - ev.nidx ELSE i + XHCI_RING_ITEMS - ev.nidx
Pending(ev, i) == Turn(ev, i) < er.posted - ev.taken

\* The cycle bits of the entries tell how far the controller is.
EventsFilled(ev) ==
  /\ ev.taken <= er.posted
  /\ er.cs = ev.cs => er.enq = ev.nidx + (er.posted - ev.taken)
  /\ er.cs # ev.cs =>
       er.enq = ev.nidx + (er.posted - ev.taken) - XHCI_RING_ITEMS /\ er.enq < ev.nidx
  /\ \A i \in RingIndex : ev.trbs[i].c = IF i < er.enq THEN er.cs ELSE 1 - er.cs

\* Those of a ring are of TRBs that the controller has passed, in order.
EventsUpTo(rs, ev, hcs) ==
  \A i \in RingIndex :
    LET e == ev.trbs[i]
    IN  Pending(ev, i) /\ e.ring \in Rings /\ ~rs[e.ring].over =>
          /\ rs[e.ring].evt.n < e.n /\ e.n <= hcs[e.ring].n
          /\ e.index + 1 = Behind(rs[e.ring], e.n)
          /\ \A k \in RingIndex :
               Pending(ev, k) /\ ev.trbs[k].ring = e.ring /\ Turn(ev, i) < Turn(ev, k) =>
                 e.n < ev.trbs[k].n
EventsTrue(rs, ev) == EventsUpTo(rs, ev, hc)

\* A ring and the controller's position on it.
RingTrue(r, h) ==
  /\ RingFilled(r)
  /\ h.cs = 0 => Linked(r)
  /\ ~r.over => Follows(r, h)

\* All rings and the event ring, while the driver works on them.
RingsInv(rs, ev) ==
  /\ rs \in [Rings -> XhciRing] /\ ev \in EventRing
  /\ \A r \in Rings : RingTrue(rs[r], hc[r])
  /\ EventsFilled(ev) /\ EventsTrue(rs, ev)

\* A thread waits for its last TRB, and holds the mutex while it is one of the
\* command ring; what it got is what it waited for.
XhciThread == [pc : {"idle", "wait"}, ring : Rings, want : Nat, got : Nat, cc : {-1, 0, 1, 4}]

RequestersInv ==
  /\ thread \in [UsbThreads -> XhciThread]
  /\ lock \in UsbThreads \cup {Nobody}
  /\ \A t \in UsbThreads :
       /\ thread[t].ring \in {t, Cmds}
       /\ lock = t <=> thread[t].pc = "wait" /\ thread[t].ring = Cmds
       /\ thread[t].pc = "wait" => thread[t].want = rings[thread[t].ring].n
       /\ thread[t].pc = "idle" /\ thread[t].cc >= 0 /\ ~rings[thread[t].ring].over =>
            thread[t].got = thread[t].want

\* The interrupt pipe has one transfer queued, and the buffer is what was sent last;
\* the transfer that failed brought nothing.
IntrInv ==
  /\ intr \in [bufused : BOOLEAN, buf : Nat, sent : Nat, polls : Nat, data : Seq(Nat)]
  /\ ~rings[Intr].over
  /\ hc[Intr].n = IF hc[Intr].halted THEN intr.sent + 1 ELSE intr.sent
  /\ intr.buf = intr.sent /\ rings[Intr].n = intr.polls
  /\ intr.bufused <=> intr.polls > 0
  /\ Len(intr.data) = IF intr.polls = 0 THEN 0 ELSE intr.polls - 1
  /\ ReportsInOrder /\ Len(intr.data) <= hc[Intr].n

\* The inductive invariant.
XhciInv ==
  /\ hc \in [Rings -> HcPosition] /\ er \in HcEvents
  /\ RingsInv(rings, evts)
  /\ RequestersInv
  /\ IntrInv

----------------------------------------------------------------------------
\* What is written when a TRB is queued.
NextEntry(r) == IF Wraps(r) THEN 0 ELSE r.nidx

\* The entries after a TRB was queued.
RingEntries(r, kind) ==
  [i \in RingIndex |->
     CASE i = NextEntry(r) -> [n |-> r.n + 1, kind |-> kind, c |-> CycleOfNext(r)]
       [] i = r.nidx /\ i # NextEntry(r) -> [n |-> 0, kind |-> Link, c |-> r.cs]
       [] OTHER -> r.trbs[i]]

\* xhci_trb_queue() field by field ...
LEMMA QueueFields ==
  ASSUME NEW r \in XhciRing, NEW kind \in {"ioc", "stage"}, NEW q,
         q = xhci_trb_queue(r, kind)
  PROVE  /\ q \in XhciRing
         /\ q.trbs = RingEntries(r, kind) /\ q.nidx = NextEntry(r) + 1
         /\ q.cs = CycleOfNext(r) /\ q.n = r.n + 1 /\ q.over = Overruns(r)
         /\ q.evt = r.evt /\ q.eidx = r.eidx
<1>1. q = [r EXCEPT !.trbs = RingEntries(r, kind), !.nidx = NextEntry(r) + 1,
                    !.cs = CycleOfNext(r), !.n = r.n + 1, !.over = Overruns(r)]
  BY Zenon DEF xhci_trb_queue, RingEntries, NextEntry
<1>2. /\ r.nidx \in RingIndex /\ r.cs \in Bits /\ r.n \in Nat
      /\ r.trbs \in [RingIndex -> Trb]
  BY Zenon DEF XhciRing
<1>3. /\ NextEntry(r) \in RingIndex /\ NextEntry(r) + 1 \in RingIndex
      /\ CycleOfNext(r) \in Bits /\ r.n + 1 \in Nat
  BY <1>2, XhciAssumption DEF NextEntry, Wraps, CycleOfNext, Bits, RingIndex
<1>4. RingEntries(r, kind) \in [RingIndex -> Trb]
  <2>1. ASSUME NEW i \in RingIndex PROVE RingEntries(r, kind)[i] \in Trb
    BY <1>2, <1>3 DEF RingEntries, Trb
  <2> QED
    BY <2>1, Zenon DEF RingEntries
<1>5. Overruns(r) \in BOOLEAN
  BY Zenon DEF Overruns
<1>6. q \in XhciRing
  BY <1>1, <1>3, <1>4, <1>5, Zenon DEF XhciRing
<1> QED
  BY <1>1, <1>6, Zenon DEF XhciRing

\* ... the ring is filled as before, one TRB further ...
LEMMA QueueFills ==
  ASSUME NEW r \in XhciRing, RingFilled(r), NEW kind \in {"ioc", "stage"}, NEW q,
         q = xhci_trb_queue(r, kind)
  PROVE  /\ RingFilled(q)
         /\ Linked(r) => Linked(q)
<1>1. /\ q.trbs = RingEntries(r, kind) /\ q.nidx = NextEntry(r) + 1
      /\ q.cs = CycleOfNext(r) /\ q.n = r.n + 1 /\ q.evt = r.evt
  BY QueueFields, Zenon
<1>2. /\ r.nidx \in RingIndex /\ r.cs \in Bits /\ r.n \in Nat /\ r.evt.n \in Nat
      /\ r.trbs \in [RingIndex -> Trb]
  BY Zenon DEF XhciRing, XhciEvent
<1>3. ~q.over => r.n + 1 - r.evt.n < XHCI_RING_ITEMS - 1
  <2>1. ~q.over => ~(r.n + 1 - r.evt.n >= XHCI_RING_ITEMS - 1)
    BY QueueFields, Zenon DEF Overruns
  <2> QED
    BY <1>2, <2>1, XhciAssumption
<1>4. /\ r.nidx = 0 => r.n = 0
      /\ r.n >= r.nidx
      /\ Linked(r) => r.n >= XHCI_RING_ITEMS
      /\ ~Linked(r) => /\ r.trbs[XHCI_RING_ITEMS - 1].kind = "none" /\ r.cs = 1
                       /\ r.nidx = r.n
      /\ r.trbs[XHCI_RING_ITEMS - 1].c = 1 - r.cs
      /\ \A i \in 0 .. XHCI_RING_ITEMS - 2 :
           /\ r.trbs[i].kind # Link
           /\ i < r.nidx => r.trbs[i].c = r.cs /\ r.trbs[i].n = r.n - r.nidx + 1 + i
           /\ i >= r.nidx => r.trbs[i].c = 1 - r.cs
           /\ i >= r.nidx /\ Linked(r) =>
                r.trbs[i].n = r.n - r.nidx + 2 + i - XHCI_RING_ITEMS
  BY Zenon DEF RingFilled
<1>5. CASE Wraps(r)
  <2>1. /\ r.nidx = XHCI_RING_ITEMS - 1 /\ q.nidx = 1 /\ q.cs = 1 - r.cs
        /\ NextEntry(r) = 0
    BY <1>1, <1>2, <1>5, XhciAssumption DEF Wraps, NextEntry, CycleOfNext, RingIndex
  <2>2. /\ q.trbs[0] = [n |-> r.n + 1, kind |-> kind, c |-> q.cs]
        /\ q.trbs[XHCI_RING_ITEMS - 1] = [n |-> 0, kind |-> Link, c |-> r.cs]
        /\ \A i \in 1 .. XHCI_RING_ITEMS - 2 : q.trbs[i] = r.trbs[i]
    BY <1>1, <2>1, XhciAssumption DEF RingEntries, RingIndex
  <2>3. Linked(q)
    BY <2>2 DEF Linked
  <2>4. q.trbs[XHCI_RING_ITEMS - 1].c = 1 - q.cs
    BY <1>2, <2>1, <2>2 DEF Bits
  <2>5. ASSUME NEW i \in 0 .. XHCI_RING_ITEMS - 2
        PROVE  /\ q.trbs[i].kind # Link
               /\ i < q.nidx => q.trbs[i].c = q.cs /\ q.trbs[i].n = q.n - q.nidx + 1 + i
               /\ i >= q.nidx => q.trbs[i].c = 1 - q.cs
               /\ i >= q.nidx /\ Linked(q) =>
                    q.trbs[i].n = q.n - q.nidx + 2 + i - XHCI_RING_ITEMS
    <3>1. CASE i = 0
      BY <1>1, <1>2, <2>1, <2>2, <3>1 DEF Link
    <3>2. CASE i # 0
      <4>1. /\ q.trbs[i] = r.trbs[i] /\ r.trbs[i].kind # Link /\ i < r.nidx
            /\ r.trbs[i].c = r.cs /\ r.trbs[i].n = r.n - r.nidx + 1 + i
        BY <1>4, <2>1, <2>2, <3>2, XhciAssumption
      <4>2. r.cs = 1 - q.cs /\ ~(i < q.nidx)
        BY <1>2, <2>1, <3>2 DEF Bits
      <4>3. q.n - q.nidx + 2 + i - XHCI_RING_ITEMS = r.n - r.nidx + 1 + i
        BY <1>1, <1>2, <2>1, XhciAssumption
      <4> HIDE DEF Linked
      <4> QED
        BY <4>1, <4>2, <4>3
    <3> QED
      BY <3>1, <3>2
  <2>6. q.n >= q.nidx /\ q.n >= XHCI_RING_ITEMS /\ q.nidx # 0
    BY <1>1, <1>2, <1>4, <2>1, XhciAssumption
  <2>7. ~q.over => q.n - q.evt.n <= XHCI_RING_ITEMS - 2
    BY <1>1, <1>2, <1>3, XhciAssumption
  <2> QED
    BY <2>3, <2>4, <2>5, <2>6, <2>7, Zenon DEF RingFilled
<1>6. CASE ~Wraps(r)
  <2>1. /\ r.nidx \in 0 .. XHCI_RING_ITEMS - 2 /\ q.nidx = r.nidx + 1 /\ q.cs = r.cs
        /\ NextEntry(r) = r.nidx
    BY <1>1, <1>2, <1>6, XhciAssumption DEF Wraps, NextEntry, CycleOfNext, RingIndex
  <2>2. /\ q.trbs[r.nidx] = [n |-> r.n + 1, kind |-> kind, c |-> r.cs]
        /\ \A i \in RingIndex : i # r.nidx => q.trbs[i] = r.trbs[i]
    BY <1>1, <2>1, XhciAssumption DEF RingEntries, RingIndex
  <2>3. q.trbs[XHCI_RING_ITEMS - 1] = r.trbs[XHCI_RING_ITEMS - 1]
    BY <2>1, <2>2, XhciAssumption DEF RingIndex
  <2>4. Linked(q) <=> Linked(r)
    BY <2>3, Zenon DEF Linked
  <2>5. ASSUME NEW i \in 0 .. XHCI_RING_ITEMS - 2
        PROVE  /\ q.trbs[i].kind # Link
               /\ i < q.nidx => q.trbs[i].c = q.cs /\ q.trbs[i].n = q.n - q.nidx + 1 + i
               /\ i >= q.nidx => q.trbs[i].c = 1 - q.cs
               /\ i >= q.nidx /\ Linked(q) =>
                    q.trbs[i].n = q.n - q.nidx + 2 + i - XHCI_RING_ITEMS
    <3>1. CASE i = r.nidx
      BY <1>1, <1>2, <2>1, <2>2, <3>1 DEF Link
    <3>2. CASE i # r.nidx
      <4>1. q.trbs[i] = r.trbs[i]
        BY <2>2, <3>2, XhciAssumption DEF RingIndex
      <4>2. (i < q.nidx <=> i < r.nidx) /\ (i >= q.nidx <=> i >= r.nidx)
        BY <2>1, <3>2
      <4>3. q.n - q.nidx = r.n - r.nidx
        BY <1>1, <1>2, <2>1
      <4> QED
        BY <1>4, <2>1, <2>4, <4>1, <4>2, <4>3
    <3> QED
      BY <3>1, <3>2
  <2>6. q.n >= q.nidx /\ q.nidx # 0 /\ (Linked(q) => q.n >= XHCI_RING_ITEMS)
    BY <1>1, <1>2, <1>4, <2>1, <2>4, XhciAssumption
  <2>7. ~q.over => q.n - q.evt.n <= XHCI_RING_ITEMS - 2
    BY <1>1, <1>2, <1>3, XhciAssumption
  <2>8. q.nidx = q.n <=> r.nidx = r.n
    BY <1>1, <1>2, <2>1
  <2> QED
    BY <1>4, <2>1, <2>3, <2>4, <2>5, <2>6, <2>7, <2>8, Zenon DEF RingFilled
<1> QED
  BY <1>5, <1>6

\* What queueing leaves as it was.
Grows(r, q) ==
  /\ q \in XhciRing /\ RingFilled(q) /\ q.n > r.n /\ q.evt = r.evt /\ q.eidx = r.eidx
  /\ Linked(r) => Linked(q)
  /\ ~q.over => ~r.over
  /\ \A h \in HcPosition : ~q.over /\ Follows(r, h) => Follows(q, h)
  /\ \A m \in Nat :
       ~q.over /\ r.evt.n <= m /\ 0 < m /\ m <= r.n => Behind(q, m) = Behind(r, m)

\* ... and the controller is as far behind it as it was, by one TRB.
LEMMA QueueGrows ==
  ASSUME NEW r \in XhciRing, RingFilled(r), NEW kind \in {"ioc", "stage"}, NEW q,
         q = xhci_trb_queue(r, kind)
  PROVE  Grows(r, q)
<1>1. /\ q \in XhciRing /\ q.nidx = NextEntry(r) + 1
      /\ q.cs = CycleOfNext(r) /\ q.n = r.n + 1 /\ q.evt = r.evt /\ q.eidx = r.eidx
  BY QueueFields, Zenon
<1>2. /\ r.nidx \in RingIndex /\ r.cs \in Bits /\ r.n \in Nat /\ r.evt.n \in Nat
  BY Zenon DEF XhciRing, XhciEvent
<1>3. ~q.over => ~r.over
  BY QueueFields, Zenon DEF Overruns
<1>4. ~r.over => r.n - r.evt.n <= XHCI_RING_ITEMS - 2
  BY Zenon DEF RingFilled
<1>5. ASSUME NEW m \in Nat, ~q.over, r.evt.n <= m, m <= r.n
      PROVE  /\ 0 < m => Behind(q, m) = Behind(r, m)
             /\ \A c \in Bits : 0 < m => ((c = q.cs <=> q.n - m < q.nidx)
                                           <=> (c = r.cs <=> r.n - m < r.nidx))
  <2>1. r.n - m <= XHCI_RING_ITEMS - 2
    BY <1>2, <1>3, <1>4, <1>5, XhciAssumption
  <2>2. CASE Wraps(r)
    <3>1. r.nidx = XHCI_RING_ITEMS - 1 /\ q.nidx = 1 /\ q.cs = 1 - r.cs
      BY <1>1, <1>2, <2>2, XhciAssumption DEF Wraps, NextEntry, CycleOfNext, RingIndex
    <3>2. r.n - m < r.nidx /\ ~(q.n - m < q.nidx)
      BY <1>1, <1>2, <1>5, <2>1, <3>1, XhciAssumption
    <3> QED
      BY <1>1, <1>2, <3>1, <3>2, XhciAssumption DEF Behind, Bits
  <2>3. CASE ~Wraps(r)
    <3>1. q.nidx = r.nidx + 1 /\ q.cs = r.cs
      BY <1>1, <1>2, <2>3, XhciAssumption DEF Wraps, NextEntry, CycleOfNext, RingIndex
    <3> QED
      BY <1>1, <1>2, <3>1, XhciAssumption DEF Behind, RingIndex
  <2> QED
    BY <2>2, <2>3
<1>6. ASSUME NEW h \in HcPosition, ~q.over, Follows(r, h)
      PROVE  Follows(q, h)
  <2>1. h.n \in Nat /\ h.cs \in Bits
    BY Zenon DEF HcPosition
  <2>2. /\ r.evt.n <= h.n /\ h.n <= r.n
        /\ h.n = 0 => h.deq = 0 /\ h.cs = 1
        /\ h.n > 0 => h.deq = Behind(r, h.n) /\ (h.cs = r.cs <=> r.n - h.n < r.nidx)
        /\ r.evt.n = 0 => r.eidx = 0
        /\ r.evt.n > 0 => r.eidx = Behind(r, r.evt.n)
    BY <1>6, Zenon DEF Follows
  <2>3. h.n > 0 => h.deq = Behind(q, h.n) /\ (h.cs = q.cs <=> q.n - h.n < q.nidx)
    BY <1>5, <1>6, <2>1, <2>2
  <2>4. r.evt.n > 0 => r.eidx = Behind(q, r.evt.n)
    BY <1>2, <1>5, <1>6, <2>1, <2>2
  <2>5. h.n <= q.n
    BY <1>1, <1>2, <2>1, <2>2
  <2> QED
    BY <1>1, <2>2, <2>3, <2>4, <2>5, Zenon DEF Follows
<1>7. q.n > r.n
  BY <1>1, <1>2
<1>8. RingFilled(q) /\ (Linked(r) => Linked(q))
  BY QueueFills, Zenon
<1> QED
  BY <1>1, <1>3, <1>5, <1>6, <1>7, <1>8, Zenon DEF Grows

\* Several TRBs are queued one after the other.
LEMMA GrowsOn ==
  ASSUME NEW r \in XhciRing, NEW q, NEW s, Grows(r, q), Grows(q, s)
  PROVE  Grows(r, s)
<1>1. q \in XhciRing /\ s \in XhciRing
  BY Zenon DEF Grows
<1>2. r.n \in Nat /\ q.n \in Nat /\ s.n \in Nat
  BY <1>1, Zenon DEF XhciRing
<1>3. q.n > r.n /\ s.n > q.n /\ q.evt = r.evt /\ s.evt = q.evt
  BY Zenon DEF Grows
<1>4. s.n > r.n
  BY <1>2, <1>3
<1>5. ASSUME NEW m \in Nat, m <= r.n
      PROVE  m <= q.n
  BY <1>2, <1>3, <1>5
<1> QED
  BY <1>1, <1>3, <1>4, <1>5, Zenon DEF Grows

\* The three forms of a transfer.
LEMMA TransferGrows ==
  ASSUME NEW r \in XhciRing, RingFilled(r), NEW q,
         q \in {xhci_xfer_normal(r), xhci_xfer_setup(r, TRUE), xhci_xfer_setup(r, FALSE)}
  PROVE  Grows(r, q)
<1>1. CASE q = xhci_xfer_normal(r)
  BY <1>1, QueueGrows, Zenon DEF xhci_xfer_normal
<1> DEFINE s == xhci_trb_queue(r, "stage")
           d == xhci_trb_queue(s, "stage")
<1>2. Grows(r, s) /\ s \in XhciRing /\ RingFilled(s)
  BY QueueGrows, Zenon DEF Grows
<1>3. Grows(s, d) /\ d \in XhciRing /\ RingFilled(d)
  <2>1. ASSUME NEW u \in XhciRing, RingFilled(u)
        PROVE  Grows(u, xhci_trb_queue(u, "stage"))
    BY <2>1, QueueGrows, Zenon
  <2> HIDE DEF s
  <2>2. Grows(s, d)
    BY <1>2, <2>1, Zenon
  <2> QED
    BY <2>2, Zenon DEF Grows
<1>4. Grows(r, d)
  BY <1>2, <1>3, GrowsOn, Zenon
<1> HIDE DEF s, d
<1>5. CASE q = xhci_xfer_setup(r, TRUE)
  <2>1. q = xhci_trb_queue(d, "ioc")
    BY <1>5, Zenon DEF xhci_xfer_setup, s, d
  <2>2. Grows(d, q)
    BY <1>3, <2>1, QueueGrows, Zenon
  <2> QED
    BY <1>4, <2>2, GrowsOn, Zenon
<1>6. CASE q = xhci_xfer_setup(r, FALSE)
  <2>1. q = xhci_trb_queue(s, "ioc")
    BY <1>6, Zenon DEF xhci_xfer_setup, s, d
  <2>2. Grows(s, q)
    BY <1>2, <2>1, QueueGrows, Zenon
  <2> QED
    BY <1>2, <2>2, GrowsOn, Zenon
<1> QED
  BY <1>1, <1>5, <1>6

\* The rings with another ring x.
Swapped(rs, x, q) == [rs EXCEPT ![x] = q]

\* A ring that grows stays in step with the controller and the events.
LEMMA GrowKeeps ==
  ASSUME hc \in [Rings -> HcPosition], er \in HcEvents, NEW rs, NEW ev, RingsInv(rs, ev),
         NEW x \in Rings, NEW q, Grows(rs[x], q), NEW r2, r2 = Swapped(rs, x, q)
  PROVE  RingsInv(r2, ev)
<1>1. /\ rs \in [Rings -> XhciRing] /\ ev \in EventRing
      /\ \A r \in Rings : RingTrue(rs[r], hc[r])
      /\ EventsFilled(ev) /\ EventsTrue(rs, ev)
  BY Zenon DEF RingsInv
<1>2. q \in XhciRing
  BY Zenon DEF Grows
<1>3. r2 \in [Rings -> XhciRing] /\ r2[x] = q /\ \A r \in Rings \ {x} : r2[r] = rs[r]
  BY <1>1, <1>2, Zenon DEF Swapped
<1>4. hc[x] \in HcPosition
  BY Zenon
<1>5. RingTrue(q, hc[x])
  BY <1>1, <1>4, Zenon DEF RingTrue, Grows
<1>6. \A r \in Rings : RingTrue(r2[r], hc[r])
  BY <1>1, <1>3, <1>5, Zenon
<1>7. ASSUME NEW i \in RingIndex, Pending(ev, i), ev.trbs[i].ring \in Rings,
             ~r2[ev.trbs[i].ring].over
      PROVE  /\ r2[ev.trbs[i].ring].evt.n < ev.trbs[i].n
             /\ ev.trbs[i].n <= hc[ev.trbs[i].ring].n
             /\ ev.trbs[i].index + 1 = Behind(r2[ev.trbs[i].ring], ev.trbs[i].n)
             /\ \A k \in RingIndex :
                  Pending(ev, k) /\ ev.trbs[k].ring = ev.trbs[i].ring
                    /\ Turn(ev, i) < Turn(ev, k) => ev.trbs[i].n < ev.trbs[k].n
  <2> DEFINE R == ev.trbs[i].ring
             n == ev.trbs[i].n
  <2>1. ~rs[R].over
    BY <1>3, <1>7, Zenon DEF Grows
  <2>2. /\ rs[R].evt.n < n /\ n <= hc[R].n
        /\ ev.trbs[i].index + 1 = Behind(rs[R], n)
        /\ \A k \in RingIndex :
             Pending(ev, k) /\ ev.trbs[k].ring = R /\ Turn(ev, i) < Turn(ev, k) =>
               n < ev.trbs[k].n
    BY <1>1, <1>7, <2>1, Zenon DEF EventsTrue, EventsUpTo
  <2>3. CASE R # x
    BY <1>3, <1>7, <2>2, <2>3, Zenon
  <2>4. CASE R = x
    <3>1. n \in Nat
      BY <1>1, <1>7, Zenon DEF EventRing, XhciEvent
    <3>2. rs[x] \in XhciRing
      BY <1>1, Zenon
    <3>3. rs[x].evt.n \in Nat /\ hc[x].n \in Nat /\ rs[x].n \in Nat
      BY <1>4, <3>2, Zenon DEF XhciRing, XhciEvent, HcPosition
    <3>4. hc[x].n <= rs[x].n
      BY <1>1, <2>1, <2>4, Zenon DEF RingTrue, Follows
    <3>5. rs[x].evt.n <= n /\ 0 < n /\ n <= rs[x].n
      BY <2>2, <2>4, <3>1, <3>3, <3>4
    <3>6. Behind(q, n) = Behind(rs[x], n) /\ q.evt = rs[x].evt
      BY <1>3, <1>7, <2>4, <3>1, <3>5, Zenon DEF Grows
    <3> QED
      BY <1>3, <2>2, <2>4, <3>6, Zenon
  <2> QED
    BY <2>3, <2>4
<1>8. EventsTrue(r2, ev)
  BY <1>7, Zenon DEF EventsTrue, EventsUpTo
<1> QED
  BY <1>1, <1>3, <1>6, <1>8, Zenon DEF RingsInv


\* The event ring after an event was taken.
NextEvents(ev) ==
  [ev EXCEPT !.nidx = IF ev.nidx + 1 = XHCI_RING_ITEMS THEN 0 ELSE ev.nidx + 1,
             !.cs = IF ev.nidx + 1 = XHCI_RING_ITEMS THEN 1 - ev.cs ELSE ev.cs,
             !.taken = ev.taken + 1]
\* An event of a ring in step with the controller, and taking it.
Due(r, h, e) ==
  ~r.over => r.evt.n < e.n /\ e.n <= h.n /\ e.index + 1 = Behind(r, e.n)
Took(r, e) == [r EXCEPT !.evt = e, !.eidx = e.index + 1]

\* What is taken is the first event that is pending, and the others come nearer.
LEMMA TakenTurns ==
  ASSUME er \in HcEvents, NEW ev \in EventRing, EventsFilled(ev),
         ev.trbs[ev.nidx].c = ev.cs, NEW e2, e2 = NextEvents(ev)
  PROVE  /\ e2 \in EventRing /\ e2.trbs = ev.trbs /\ EventsFilled(e2)
         /\ Pending(ev, ev.nidx) /\ Turn(ev, ev.nidx) = 0
         /\ \A i \in RingIndex :
              Pending(e2, i) => /\ i # ev.nidx /\ Pending(ev, i)
                                /\ 0 < Turn(ev, i) /\ Turn(e2, i) = Turn(ev, i) - 1
         /\ \A i \in RingIndex : Turn(ev, i) \in Nat
<1>14. XHCI_RING_ITEMS \in Nat /\ XHCI_RING_ITEMS >= 3
  BY XhciAssumption
<1>15. ev.nidx \in RingIndex
  BY Zenon DEF EventRing
<1> DEFINE last == ev.nidx + 1 = XHCI_RING_ITEMS
           nidx2 == IF last THEN 0 ELSE ev.nidx + 1
           cs2 == IF last THEN 1 - ev.cs ELSE ev.cs
<1>1. /\ ev.nidx \in RingIndex /\ ev.cs \in Bits /\ ev.taken \in Nat
      /\ ev.trbs \in [RingIndex -> XhciEvent]
  BY Zenon DEF EventRing
<1>2. er.enq \in RingIndex /\ er.cs \in Bits /\ er.posted \in Nat
  BY Zenon DEF HcEvents
<1>3. nidx2 \in RingIndex /\ cs2 \in Bits /\ ev.taken + 1 \in Nat
  BY <1>1, XhciAssumption DEF RingIndex, Bits
<1>4. e2 = [ev EXCEPT !.nidx = nidx2, !.cs = cs2, !.taken = ev.taken + 1]
  BY Zenon DEF NextEvents
<1> HIDE DEF nidx2, cs2
<1>5. e2 \in EventRing /\ e2.nidx = nidx2 /\ e2.cs = cs2 /\ e2.taken = ev.taken + 1
      /\ e2.trbs = ev.trbs
  BY <1>3, <1>4, Zenon DEF EventRing
<1>6. /\ ev.taken <= er.posted
      /\ er.cs = ev.cs => er.enq = ev.nidx + (er.posted - ev.taken)
      /\ er.cs # ev.cs => /\ er.enq = ev.nidx + (er.posted - ev.taken) - XHCI_RING_ITEMS
                          /\ er.enq < ev.nidx
  BY Zenon DEF EventsFilled
<1>13. \A i \in RingIndex : ev.trbs[i].c = IF i < er.enq THEN er.cs ELSE 1 - er.cs
  BY Zenon DEF EventsFilled
<1>7. ev.cs = IF ev.nidx < er.enq THEN er.cs ELSE 1 - er.cs
  BY <1>1, <1>13, Zenon
<1>8. er.posted - ev.taken > 0 /\ er.posted - ev.taken < XHCI_RING_ITEMS
  BY <1>1, <1>2, <1>6, <1>7, XhciAssumption DEF RingIndex, Bits
<1>9. EventsFilled(e2)
  <2>1. e2.taken <= er.posted
    BY <1>1, <1>2, <1>5, <1>8
  <2>2. /\ er.cs = e2.cs => er.enq = e2.nidx + (er.posted - e2.taken)
        /\ er.cs # e2.cs => /\ er.enq = e2.nidx + (er.posted - e2.taken) - XHCI_RING_ITEMS
                            /\ er.enq < e2.nidx
    <3>1. er.posted - e2.taken = er.posted - ev.taken - 1
      BY <1>1, <1>2, <1>5
    <3>2. CASE last
      <4>1. e2.nidx = 0 /\ e2.cs = 1 - ev.cs /\ ev.nidx = XHCI_RING_ITEMS - 1
        BY <1>1, <1>5, <3>2, XhciAssumption DEF nidx2, cs2, RingIndex
      <4>2. er.cs # ev.cs
        BY <1>1, <1>2, <1>6, <1>8, <4>1, XhciAssumption DEF RingIndex
      <4>3. er.cs = e2.cs
        BY <1>1, <1>2, <4>1, <4>2 DEF Bits
      <4>4. er.enq = e2.nidx + (er.posted - e2.taken)
        BY <1>1, <1>2, <1>6, <3>1, <4>1, <4>2, XhciAssumption
      <4> QED
        BY <4>3, <4>4
    <3>3. CASE ~last
      <4>1. e2.nidx = ev.nidx + 1 /\ e2.cs = ev.cs
        BY <1>5, <3>3 DEF nidx2, cs2
      <4>2. CASE er.cs = ev.cs
        <5>1. er.enq = ev.nidx + (er.posted - ev.taken)
          BY <1>6, <4>2
        <5>2. er.enq = e2.nidx + (er.posted - e2.taken)
          BY <1>1, <1>2, <3>1, <4>1, <5>1 DEF RingIndex
        <5> QED
          BY <4>1, <4>2, <5>2
      <4>3. CASE er.cs # ev.cs
        <5>1. er.enq = e2.nidx + (er.posted - e2.taken) - XHCI_RING_ITEMS
          BY <1>1, <1>2, <1>6, <3>1, <4>1, <4>3, XhciAssumption DEF RingIndex
        <5>2. er.enq < e2.nidx
          BY <1>1, <1>2, <1>6, <4>1, <4>3, XhciAssumption DEF RingIndex
        <5> QED
          BY <4>1, <4>3, <5>1, <5>2
      <4> QED
        BY <4>2, <4>3
    <3> QED
      BY <3>2, <3>3
  <2> QED
    BY <1>5, <1>13, <2>1, <2>2, Zenon DEF EventsFilled
<1>10. Turn(ev, ev.nidx) = 0 /\ Pending(ev, ev.nidx)
  BY <1>1, <1>8 DEF Turn, Pending, RingIndex
<1>11. ASSUME NEW i \in RingIndex, Pending(e2, i)
       PROVE  /\ i # ev.nidx /\ Pending(ev, i)
              /\ 0 < Turn(ev, i) /\ Turn(e2, i) = Turn(ev, i) - 1
  <2>1. Turn(e2, i) < er.posted - ev.taken - 1
    BY <1>1, <1>2, <1>5, <1>11 DEF Pending
  <2>2. i # ev.nidx
    BY <1>1, <1>2, <1>5, <1>8, <2>1, XhciAssumption DEF Turn, RingIndex, nidx2
  <2>3. 0 < Turn(ev, i) /\ Turn(e2, i) = Turn(ev, i) - 1
    <3>1. e2.nidx = nidx2
      BY <1>5
    <3> QED
      BY <1>14, <1>15, <2>2, <3>1, SMTT(30) DEF Turn, RingIndex, nidx2
  <2>4. Turn(ev, i) \in Nat
    BY <1>14, <1>15, SMTT(30) DEF Turn, RingIndex
  <2>5. Turn(ev, i) < er.posted - ev.taken
    BY <1>1, <1>2, <2>1, <2>3, <2>4
  <2> QED
    BY <2>2, <2>3, <2>5 DEF Pending
<1>12. ASSUME NEW i \in RingIndex PROVE Turn(ev, i) \in Nat
  BY <1>14, <1>15, SMTT(30) DEF Turn, RingIndex
<1> QED
  BY <1>5, <1>9, <1>10, <1>11, <1>12, Zenon

\* Taking events queues nothing.
SameRings(rs, r2) == \A r \in Rings : r2[r].n = rs[r].n /\ r2[r].over = rs[r].over

\* Taking the event of a ring's TRB: the ring is still in step.
LEMMA TakenRing ==
  ASSUME NEW r \in XhciRing, NEW h \in HcPosition, RingTrue(r, h), NEW e \in XhciEvent,
         Due(r, h, e), NEW q, q = Took(r, e)
  PROVE  /\ q \in XhciRing /\ RingTrue(q, h) /\ q.evt = e
         /\ q.n = r.n /\ q.over = r.over /\ \A m \in Nat : Behind(q, m) = Behind(r, m)
<1>1. e.index + 1 \in RingIndex /\ e.n \in Nat
  <2>1. e.index \in 0 .. XHCI_RING_ITEMS - 2 /\ e.n \in Nat
    BY Zenon DEF XhciEvent
  <2> QED
    BY <2>1, XhciAssumption DEF RingIndex
<1>2. /\ q \in XhciRing /\ q.evt = e /\ q.eidx = e.index + 1 /\ q.trbs = r.trbs
      /\ q.nidx = r.nidx /\ q.cs = r.cs /\ q.n = r.n /\ q.over = r.over
  BY <1>1, Zenon DEF XhciRing, Took
<1>3. r.n \in Nat /\ r.evt.n \in Nat /\ h.n \in Nat
  BY Zenon DEF XhciRing, XhciEvent, HcPosition
<1>4. (Linked(q) <=> Linked(r)) /\ \A m \in Nat : Behind(q, m) = Behind(r, m)
  <2>1. Linked(q) <=> Linked(r)
    BY <1>2, Zenon DEF Linked
  <2>2. ASSUME NEW m \in Nat PROVE Behind(q, m) = Behind(r, m)
    BY <1>2, SMTT(30) DEF Behind
  <2> QED
    BY <2>1, <2>2
<1>5. ~r.over => r.n - r.evt.n <= XHCI_RING_ITEMS - 2
  BY Zenon DEF RingTrue, RingFilled
<1>6. ~q.over => q.n - q.evt.n <= XHCI_RING_ITEMS - 2
  <2>1. ~q.over => ~r.over /\ r.evt.n < e.n
    BY <1>2, Zenon DEF Due
  <2>2. q.n = r.n /\ q.evt.n = e.n
    BY <1>2, Zenon
  <2> QED
    BY <1>1, <1>3, <1>5, <2>1, <2>2, XhciAssumption
<1>7. RingFilled(q)
  BY <1>2, <1>4, <1>6, Zenon DEF RingTrue, RingFilled
<1>8. ASSUME ~q.over
      PROVE  Follows(q, h)
  <2>1. ~r.over /\ r.evt.n < e.n /\ e.n <= h.n /\ e.index + 1 = Behind(r, e.n)
    BY <1>2, <1>8, Zenon DEF Due
  <2>2. e.n > 0
    BY <1>1, <1>3, <2>1
  <2>3. Follows(r, h)
    BY <2>1, Zenon DEF RingTrue
  <2>4. e.n # 0
    BY <1>1, <2>2
  <2> QED
    BY <1>1, <1>2, <1>3, <1>4, <2>1, <2>2, <2>3, <2>4, Zenon DEF Follows
<1>9. h.cs = 0 => Linked(q)
  BY <1>4, Zenon DEF RingTrue
<1> QED
  BY <1>2, <1>4, <1>7, <1>8, <1>9, Zenon DEF RingTrue


\* TakeEvent() keeps the rings in step with the controller.
LEMMA TakeKeeps ==
  ASSUME hc \in [Rings -> HcPosition], er \in HcEvents, NEW rs, NEW ev, RingsInv(rs, ev),
         NEW s, s = TakeEvent([rings |-> rs, evts |-> ev])
  PROVE  RingsInv(s.rings, s.evts) /\ SameRings(rs, s.rings)
<1> DEFINE e == ev.trbs[ev.nidx]
           e2 == NextEvents(ev)
           q == Took(rs[e.ring], e)
           r2 == IF e.ring \in Rings THEN [rs EXCEPT ![e.ring] = q] ELSE rs
<1>1. /\ rs \in [Rings -> XhciRing] /\ ev \in EventRing
      /\ \A r \in Rings : RingTrue(rs[r], hc[r])
      /\ EventsFilled(ev) /\ EventsTrue(rs, ev)
  BY Zenon DEF RingsInv
<1>2. CASE e.c # ev.cs
  <2>1. s = [rings |-> rs, evts |-> ev]
    BY <1>2, Zenon DEF TakeEvent
  <2>2. s.rings = rs /\ s.evts = ev
    BY <2>1
  <2> QED
    BY <2>2, Zenon DEF SameRings
<1>3. CASE e.c = ev.cs
  <2>9. s = [rings |-> r2, evts |-> e2]
    BY <1>3, Zenon DEF TakeEvent, NextEvents, Took
  <2>12. ASSUME NEW u, s = [rings |-> u, evts |-> e2]
         PROVE  s.rings = u /\ s.evts = e2
    BY <2>12
  <2>1. s.rings = r2 /\ s.evts = e2
    BY <2>9, <2>12, Zenon
  <2>2. /\ e2 \in EventRing /\ e2.trbs = ev.trbs /\ EventsFilled(e2)
        /\ Pending(ev, ev.nidx) /\ Turn(ev, ev.nidx) = 0
        /\ \A i \in RingIndex :
             Pending(e2, i) => /\ i # ev.nidx /\ Pending(ev, i)
                               /\ 0 < Turn(ev, i) /\ Turn(e2, i) = Turn(ev, i) - 1
        /\ \A i \in RingIndex : Turn(ev, i) \in Nat
    BY <1>1, <1>3, TakenTurns, Zenon DEF e2
  <2>3. ev.nidx \in RingIndex /\ \A i \in RingIndex : ev.trbs[i] \in XhciEvent
    BY <1>1, Zenon DEF EventRing
  <2>4. e \in XhciEvent
    BY <2>3, Zenon
  <2>5. e.ring \in Rings /\ ~rs[e.ring].over =>
          /\ rs[e.ring].evt.n < e.n /\ e.n <= hc[e.ring].n
          /\ e.index + 1 = Behind(rs[e.ring], e.n)
          /\ \A k \in RingIndex :
               Pending(ev, k) /\ ev.trbs[k].ring = e.ring /\ 0 < Turn(ev, k) =>
                 e.n < ev.trbs[k].n
    BY <1>1, <2>2, <2>3, Zenon DEF EventsTrue, EventsUpTo
  <2>6. ASSUME NEW i \in RingIndex, NEW k \in RingIndex, Pending(e2, i), Pending(e2, k),
               Turn(e2, i) < Turn(e2, k)
        PROVE  Turn(ev, i) < Turn(ev, k)
    <3>1. Turn(e2, i) = Turn(ev, i) - 1 /\ Turn(e2, k) = Turn(ev, k) - 1
          /\ Turn(ev, i) \in Nat /\ Turn(ev, k) \in Nat
      BY <2>2, <2>6, Zenon
    <3> HIDE DEF Turn
    <3> QED
      BY <2>6, <3>1
  <2>7. CASE e.ring \in Rings
    <3>1. rs[e.ring] \in XhciRing /\ hc[e.ring] \in HcPosition
          /\ RingTrue(rs[e.ring], hc[e.ring])
      BY <1>1, <2>7, Zenon
    <3>2. /\ q \in XhciRing /\ RingTrue(q, hc[e.ring]) /\ q.evt = e
          /\ q.n = rs[e.ring].n /\ q.over = rs[e.ring].over
          /\ \A m \in Nat : Behind(q, m) = Behind(rs[e.ring], m)
      <4> DEFINE r == rs[e.ring]
                 h == hc[e.ring]
      <4>1. Due(r, h, e)
        BY <2>5, <2>7, Zenon DEF Due
      <4>2. q = Took(r, e)
        BY Zenon
      <4> HIDE DEF r, e, q, h
      <4>3. r \in XhciRing /\ RingTrue(r, h) /\ h \in HcPosition
        BY <3>1, Zenon DEF r, h
      <4>4. /\ q \in XhciRing /\ RingTrue(q, h) /\ q.evt = e
            /\ q.n = r.n /\ q.over = r.over
            /\ \A m \in Nat : Behind(q, m) = Behind(r, m)
        <5>1. ASSUME NEW r0 \in XhciRing, NEW h0 \in HcPosition, NEW e0 \in XhciEvent,
                     RingTrue(r0, h0), Due(r0, h0, e0)
              PROVE  /\ Took(r0, e0) \in XhciRing /\ RingTrue(Took(r0, e0), h0)
                     /\ Took(r0, e0).evt = e0
                     /\ Took(r0, e0).n = r0.n /\ Took(r0, e0).over = r0.over
                     /\ \A m \in Nat : Behind(Took(r0, e0), m) = Behind(r0, m)
          BY <5>1, TakenRing
        <5> QED
          BY <2>4, <4>1, <4>2, <4>3, <5>1, Zenon
      <4> QED
        BY <4>4, Zenon DEF r, h
    <3> HIDE DEF q
    <3>3. /\ r2 \in [Rings -> XhciRing] /\ r2[e.ring] = q
          /\ \A r \in Rings \ {e.ring} : r2[r] = rs[r]
      BY <1>1, <2>7, <3>2, Zenon
    <3> HIDE DEF r2
    <3>4. \A r \in Rings : RingTrue(r2[r], hc[r])
      BY <1>1, <3>2, <3>3, Zenon
    <3>5. SameRings(rs, r2)
      BY <3>2, <3>3, Zenon DEF SameRings
    <3>6. ASSUME NEW i \in RingIndex, Pending(e2, i), ev.trbs[i].ring \in Rings,
                 ~r2[ev.trbs[i].ring].over
          PROVE  /\ r2[ev.trbs[i].ring].evt.n < ev.trbs[i].n
                 /\ ev.trbs[i].n <= hc[ev.trbs[i].ring].n
                 /\ ev.trbs[i].index + 1 = Behind(r2[ev.trbs[i].ring], ev.trbs[i].n)
                 /\ \A k \in RingIndex :
                      Pending(e2, k) /\ ev.trbs[k].ring = ev.trbs[i].ring
                        /\ Turn(e2, i) < Turn(e2, k) => ev.trbs[i].n < ev.trbs[k].n
      <4> DEFINE R == ev.trbs[i].ring
      <4>1. ~rs[R].over /\ Pending(ev, i)
        BY <2>2, <3>5, <3>6, Zenon DEF SameRings
      <4>2. /\ rs[R].evt.n < ev.trbs[i].n /\ ev.trbs[i].n <= hc[R].n
            /\ ev.trbs[i].index + 1 = Behind(rs[R], ev.trbs[i].n)
            /\ \A k \in RingIndex :
                 Pending(ev, k) /\ ev.trbs[k].ring = R /\ Turn(ev, i) < Turn(ev, k) =>
                   ev.trbs[i].n < ev.trbs[k].n
        BY <1>1, <3>6, <4>1, Zenon DEF EventsTrue, EventsUpTo
      <4>3. \A k \in RingIndex :
              Pending(e2, k) /\ ev.trbs[k].ring = R /\ Turn(e2, i) < Turn(e2, k) =>
                ev.trbs[i].n < ev.trbs[k].n
        BY <2>2, <2>6, <3>6, <4>2, Zenon
      <4>4. CASE R # e.ring
        BY <3>3, <3>6, <4>2, <4>3, <4>4, Zenon
      <4>5. CASE R = e.ring
        <5>1. e.n < ev.trbs[i].n
          BY <2>2, <2>5, <2>7, <3>6, <4>1, <4>5, Zenon
        <5>2. ev.trbs[i].n \in Nat
          BY <2>3, Zenon DEF XhciEvent
        <5> QED
          BY <3>2, <3>3, <4>2, <4>3, <4>5, <5>1, <5>2, Zenon
      <4> QED
        BY <4>4, <4>5
    <3>7. EventsTrue(r2, e2)
      BY <2>2, <3>6, Zenon DEF EventsTrue, EventsUpTo
    <3> QED
      BY <2>1, <2>2, <3>3, <3>4, <3>5, <3>7, Zenon DEF RingsInv
  <2>8. CASE e.ring \notin Rings
    <3>1. r2 = rs
      BY <2>8, Zenon
    <3> HIDE DEF r2
    <3>2. ASSUME NEW i \in RingIndex, Pending(e2, i), ev.trbs[i].ring \in Rings,
                 ~rs[ev.trbs[i].ring].over
          PROVE  /\ rs[ev.trbs[i].ring].evt.n < ev.trbs[i].n
                 /\ ev.trbs[i].n <= hc[ev.trbs[i].ring].n
                 /\ ev.trbs[i].index + 1 = Behind(rs[ev.trbs[i].ring], ev.trbs[i].n)
                 /\ \A k \in RingIndex :
                      Pending(e2, k) /\ ev.trbs[k].ring = ev.trbs[i].ring
                        /\ Turn(e2, i) < Turn(e2, k) => ev.trbs[i].n < ev.trbs[k].n
      <4>1. Pending(ev, i)
        BY <2>2, <3>2, Zenon
      <4> QED
        BY <1>1, <2>2, <2>6, <3>2, <4>1, Zenon DEF EventsTrue, EventsUpTo
    <3>3. EventsTrue(rs, e2)
      BY <2>2, <3>2, Zenon DEF EventsTrue, EventsUpTo
    <3>4. SameRings(rs, rs)
      BY Zenon DEF SameRings
    <3> QED
      BY <1>1, <2>1, <2>2, <3>1, <3>3, <3>4, Zenon DEF RingsInv
  <2> QED
    BY <2>7, <2>8
<1> QED
  BY <1>2, <1>3


\* The recursive function After, up to m events: it exists, and so unfolds.
Unfolds(f, m) ==
  f = [k \in 0 .. m |-> IF k = 0 THEN [rings |-> rings, evts |-> evts]
                        ELSE TakeEvent(f[k - 1])]

\* There is such a function for every m (as every m less than the least without one has).
LEMMA AfterExists ==
  ASSUME NEW M \in Nat
  PROVE  \E f : Unfolds(f, M)
<1> DEFINE Bad == {m \in Nat : ~ \E f : Unfolds(f, m)}
<1>1. SUFFICES ASSUME Bad # {} PROVE FALSE
  OBVIOUS
<1>2. PICK m \in Bad : \A k \in Bad : m <= k
  <2>1. Bad \in SUBSET Nat
    OBVIOUS
  <2> HIDE DEF Bad
  <2> QED
    BY <1>1, <2>1, Least
<1>3. m \in Nat /\ ~ \E f : Unfolds(f, m)
  OBVIOUS
<1>4. CASE m = 0
  <2> DEFINE g == [k \in 0 .. 0 |-> [rings |-> rings, evts |-> evts]]
  <2>1. g = [k \in 0 .. 0 |-> IF k = 0 THEN [rings |-> rings, evts |-> evts]
                              ELSE TakeEvent(g[k - 1])]
    <3>1. \A k \in 0 .. 0 : k = 0
      OBVIOUS
    <3> QED
      BY <3>1, Zenon
  <2> QED
    BY <1>3, <1>4, <2>1, Zenon DEF Unfolds
<1>5. CASE m # 0
  <2>1. m - 1 \in Nat /\ ~(m <= m - 1)
    BY <1>3, <1>5
  <2>2. m - 1 \notin Bad
    BY <1>2, <2>1
  <2>3. PICK f : Unfolds(f, m - 1)
    BY <2>1, <2>2
  <2> DEFINE g == [k \in 0 .. m |-> IF k = m THEN TakeEvent(f[m - 1]) ELSE f[k]]
  <2>4. \A k \in 0 .. m - 1 : g[k] = f[k]
    <3>1. \A k \in 0 .. m - 1 : k \in 0 .. m /\ k # m
      BY <1>3
    <3> QED
      BY <3>1, Zenon
  <2>5. g[m] = TakeEvent(g[m - 1])
    <3>1. m \in 0 .. m /\ m - 1 \in 0 .. m - 1
      BY <1>3, <2>1
    <3> QED
      BY <2>4, <3>1, Zenon
  <2>6. ASSUME NEW k \in 0 .. m
        PROVE  g[k] = IF k = 0 THEN [rings |-> rings, evts |-> evts]
                      ELSE TakeEvent(g[k - 1])
    <3> HIDE DEF g
    <3>1. CASE k = m
      BY <1>5, <2>5, <3>1, Zenon
    <3>2. CASE k # m
      <4>1. k \in 0 .. m - 1 /\ (k # 0 => k - 1 \in 0 .. m - 1)
        BY <1>3, <3>2
      <4>2. f[k] = IF k = 0 THEN [rings |-> rings, evts |-> evts]
                   ELSE TakeEvent(f[k - 1])
        BY <2>3, <4>1, Zenon DEF Unfolds
      <4> QED
        BY <2>4, <4>1, <4>2, Zenon
    <3> QED
      BY <3>1, <3>2
  <2>7. g = [k \in 0 .. m |-> IF k = 0 THEN [rings |-> rings, evts |-> evts]
                              ELSE TakeEvent(g[k - 1])]
    BY <2>6, Zenon
  <2> HIDE DEF g
  <2> QED
    BY <1>3, <2>7, Zenon DEF Unfolds
<1> QED
  BY <1>4, <1>5

\* After k events is one event after k - 1.
LEMMA AfterSteps ==
  /\ After[0] = [rings |-> rings, evts |-> evts]
  /\ \A k \in 1 .. XHCI_RING_ITEMS : After[k] = TakeEvent(After[k - 1])
<1>1. PICK f : Unfolds(f, XHCI_RING_ITEMS)
  BY AfterExists, XhciAssumption
<1>2. After = CHOOSE g : Unfolds(g, XHCI_RING_ITEMS)
  BY Zenon DEF After, Unfolds
<1>3. Unfolds(After, XHCI_RING_ITEMS)
  BY <1>1, <1>2, Zenon
<1>4. 0 \in 0 .. XHCI_RING_ITEMS
  BY XhciAssumption
<1>5. \A k \in 1 .. XHCI_RING_ITEMS : k \in 0 .. XHCI_RING_ITEMS /\ k # 0
  BY XhciAssumption
<1> QED
  BY <1>3, <1>4, <1>5, Zenon DEF Unfolds

\* xhci_process_events() keeps the rings in step with the controller.
LEMMA Drained ==
  ASSUME hc \in [Rings -> HcPosition], er \in HcEvents, RingsInv(rings, evts),
         NEW s, s = xhci_process_events
  PROVE  RingsInv(s.rings, s.evts) /\ SameRings(rings, s.rings)
<1> DEFINE Drains(k) ==
             /\ RingsInv(After[k].rings, After[k].evts)
             /\ SameRings(rings, After[k].rings)
             /\ After[k] = [rings |-> After[k].rings, evts |-> After[k].evts]
           Bad == {k \in 0 .. XHCI_RING_ITEMS : ~Drains(k)}
<1>0. XHCI_RING_ITEMS \in Nat
  BY XhciAssumption
<1>1. Drains(0)
  <2>1. After[0].rings = rings /\ After[0].evts = evts
    BY AfterSteps
  <2> QED
    BY <2>1, AfterSteps, Zenon DEF SameRings
<1>2. ASSUME NEW k \in 1 .. XHCI_RING_ITEMS, Drains(k - 1)
      PROVE  Drains(k)
  <2> DEFINE a == After[k - 1].rings
             b == After[k - 1].evts
  <2>1. After[k] = TakeEvent([rings |-> a, evts |-> b])
    BY <1>2, AfterSteps, Zenon
  <2>2. RingsInv(a, b) /\ SameRings(rings, a)
    BY <1>2, Zenon
  <2> HIDE DEF a, b
  <2>3. RingsInv(After[k].rings, After[k].evts) /\ SameRings(a, After[k].rings)
    BY <2>1, <2>2, TakeKeeps
  <2>4. SameRings(rings, After[k].rings)
    BY <2>2, <2>3, Zenon DEF SameRings
  <2>5. TakeEvent([rings |-> a, evts |-> b])
          = [rings |-> TakeEvent([rings |-> a, evts |-> b]).rings,
             evts |-> TakeEvent([rings |-> a, evts |-> b]).evts]
    BY DEF TakeEvent
  <2> QED
    BY <2>1, <2>3, <2>4, <2>5, Zenon
<1> HIDE DEF Drains
<1>3. Bad = {}
  <2>1. SUFFICES ASSUME Bad # {} PROVE FALSE
    OBVIOUS
  <2>2. Bad \in SUBSET Nat
    BY <1>0
  <2>3. PICK k \in Bad : \A j \in Bad : k <= j
    <3> HIDE DEF Bad
    <3> QED
      BY <2>1, <2>2, Least
  <2>4. k \in 0 .. XHCI_RING_ITEMS /\ ~Drains(k)
    OBVIOUS
  <2>5. k # 0
    BY <1>1, <2>4
  <2>6. k \in 1 .. XHCI_RING_ITEMS /\ k - 1 \in 0 .. XHCI_RING_ITEMS /\ ~(k <= k - 1)
    BY <1>0, <2>4, <2>5
  <2>7. Drains(k - 1)
    BY <2>3, <2>6, Zenon
  <2> QED
    BY <1>2, <2>4, <2>6, <2>7, Zenon
<1>4. Drains(XHCI_RING_ITEMS)
  BY <1>0, <1>3
<1> QED
  BY <1>4, Zenon DEF Drains, xhci_process_events


----------------------------------------------------------------------------
\* Where the controller looks, on a ring in any state ...
LEMMA LooksAt ==
  ASSUME NEW r \in XhciRing, NEW h \in HcPosition, RingTrue(r, h), NEW p,
         p = IF r.trbs[h.deq].kind = Link /\ r.trbs[h.deq].c = h.cs
             THEN [deq |-> 0, cs |-> 1 - h.cs] ELSE [deq |-> h.deq, cs |-> h.cs]
  PROVE  /\ p.deq \in RingIndex /\ p.cs \in Bits
         /\ r.trbs[p.deq].c = p.cs =>
              p.deq \in 0 .. XHCI_RING_ITEMS - 2 /\ (p.cs = 0 => Linked(r))
         /\ h.deq # XHCI_RING_ITEMS - 1 => p.deq = h.deq /\ p.cs = h.cs
         /\ h.deq = XHCI_RING_ITEMS - 1 =>
              IF Linked(r) /\ h.cs = 1 - r.cs
              THEN p.deq = 0 /\ p.cs = r.cs
              ELSE p.deq = h.deq /\ p.cs = h.cs /\ r.trbs[p.deq].c # p.cs
<1>1. XHCI_RING_ITEMS \in Nat /\ XHCI_RING_ITEMS >= 3
  BY XhciAssumption
<1>2. h.deq \in RingIndex /\ h.cs \in Bits /\ r.cs \in Bits
  BY Zenon DEF HcPosition, XhciRing
<1>3. /\ ~Linked(r) => r.trbs[XHCI_RING_ITEMS - 1].kind = "none" /\ r.cs = 1
      /\ r.trbs[XHCI_RING_ITEMS - 1].c = 1 - r.cs
      /\ \A i \in 0 .. XHCI_RING_ITEMS - 2 : r.trbs[i].kind # Link
      /\ h.cs = 0 => Linked(r)
  BY Zenon DEF RingTrue, RingFilled
<1>4. p.deq \in RingIndex /\ p.cs \in Bits
  BY <1>1, <1>2 DEF RingIndex, Bits
<1>5. CASE h.deq # XHCI_RING_ITEMS - 1
  <2>1. h.deq \in 0 .. XHCI_RING_ITEMS - 2
    BY <1>1, <1>2, <1>5 DEF RingIndex
  <2>2. r.trbs[h.deq].kind # Link
    BY <1>3, <2>1, Zenon
  <2>3. p = [deq |-> h.deq, cs |-> h.cs]
    BY <2>2, Zenon
  <2>4. p.deq = h.deq /\ p.cs = h.cs
    BY <2>3
  <2> QED
    BY <1>3, <1>4, <1>5, <2>1, <2>4, Zenon
<1>6. CASE h.deq = XHCI_RING_ITEMS - 1
  <2>1. Linked(r) <=> r.trbs[h.deq].kind = Link
    BY <1>6, Zenon DEF Linked
  <2>2. r.trbs[h.deq].c = 1 - r.cs
    BY <1>3, <1>6, Zenon
  <2>3. CASE Linked(r) /\ h.cs = 1 - r.cs
    <3>1. p = [deq |-> 0, cs |-> 1 - h.cs]
      BY <2>1, <2>2, <2>3, Zenon
    <3>2. p.deq = 0 /\ p.cs = r.cs
      BY <1>2, <2>3, <3>1 DEF Bits
    <3>3. 0 \in 0 .. XHCI_RING_ITEMS - 2
      BY <1>1
    <3> QED
      BY <1>4, <1>6, <2>3, <3>2, <3>3, Zenon
  <2>4. CASE ~(Linked(r) /\ h.cs = 1 - r.cs)
    <3>1. ~(r.trbs[h.deq].kind = Link /\ r.trbs[h.deq].c = h.cs)
      BY <2>1, <2>2, <2>4, Zenon
    <3>2. p = [deq |-> h.deq, cs |-> h.cs]
      BY <3>1, Zenon
    <3>3. p.deq = h.deq /\ p.cs = h.cs
      BY <3>2
    <3>4. h.cs # 1 - r.cs
      <4>1. CASE Linked(r)
        BY <2>4, <4>1, Zenon
      <4>2. CASE ~Linked(r)
        <5>1. r.cs = 1 /\ h.cs # 0
          BY <1>3, <4>2, Zenon
        <5> QED
          BY <5>1
      <4> QED
        BY <4>1, <4>2
    <3>5. r.trbs[p.deq].c # p.cs
      BY <2>2, <3>3, <3>4, Zenon
    <3> QED
      BY <1>4, <1>6, <2>4, <3>3, <3>5, Zenon
  <2> QED
    BY <2>3, <2>4
<1> QED
  BY <1>5, <1>6, ZenonT(40)

\* ... and what it finds there, on a ring that has not been full.
LEMMA Finds ==
  ASSUME NEW r \in XhciRing, NEW h \in HcPosition, RingTrue(r, h), ~r.over, NEW p,
         p = IF r.trbs[h.deq].kind = Link /\ r.trbs[h.deq].c = h.cs
             THEN [deq |-> 0, cs |-> 1 - h.cs] ELSE [deq |-> h.deq, cs |-> h.cs]
  PROVE  /\ r.trbs[p.deq].c = p.cs <=> h.n < r.n
         /\ h.n < r.n => /\ r.trbs[p.deq].n = h.n + 1
                         /\ p.deq + 1 = Behind(r, h.n + 1)
                         /\ p.cs = r.cs <=> r.n - (h.n + 1) < r.nidx
<1>1. XHCI_RING_ITEMS \in Nat /\ XHCI_RING_ITEMS >= 3
  BY XhciAssumption
<1>2. /\ h.deq \in RingIndex /\ h.cs \in Bits /\ r.cs \in Bits /\ h.n \in Nat
      /\ r.n \in Nat /\ r.nidx \in RingIndex /\ r.evt.n \in Nat
  BY Zenon DEF HcPosition, XhciRing, XhciEvent
<1>3. /\ h.deq # XHCI_RING_ITEMS - 1 => p.deq = h.deq /\ p.cs = h.cs
      /\ h.deq = XHCI_RING_ITEMS - 1 =>
           IF Linked(r) /\ h.cs = 1 - r.cs
           THEN p.deq = 0 /\ p.cs = r.cs
           ELSE p.deq = h.deq /\ p.cs = h.cs /\ r.trbs[p.deq].c # p.cs
  BY LooksAt, SMTT(40)
<1>4. /\ r.nidx = 0 => r.n = 0
      /\ r.n >= r.nidx
      /\ Linked(r) => r.n >= XHCI_RING_ITEMS
      /\ ~Linked(r) => r.cs = 1 /\ r.nidx = r.n
      /\ r.n - r.evt.n <= XHCI_RING_ITEMS - 2
  BY Zenon DEF RingTrue, RingFilled
<1>5. \A i \in 0 .. XHCI_RING_ITEMS - 2 :
        /\ i < r.nidx => r.trbs[i].c = r.cs /\ r.trbs[i].n = r.n - r.nidx + 1 + i
        /\ i >= r.nidx => r.trbs[i].c = 1 - r.cs
        /\ i >= r.nidx /\ Linked(r) =>
             r.trbs[i].n = r.n - r.nidx + 2 + i - XHCI_RING_ITEMS
  BY Zenon DEF RingTrue, RingFilled
<1>6. /\ r.evt.n <= h.n /\ h.n <= r.n
      /\ h.n = 0 => h.deq = 0 /\ h.cs = 1
      /\ h.n > 0 => h.deq = Behind(r, h.n) /\ (h.cs = r.cs <=> r.n - h.n < r.nidx)
  BY Zenon DEF RingTrue, Follows
<1> DEFINE d == r.n - h.n
<1>7. d \in 0 .. XHCI_RING_ITEMS - 2
  BY <1>1, <1>2, <1>4, <1>6
<1>8. CASE h.n = 0
  <2>1. p.deq = 0 /\ p.cs = 1
    BY <1>1, <1>3, <1>6, <1>8
  <2>2. r.n <= XHCI_RING_ITEMS - 2
    BY <1>1, <1>2, <1>7, <1>8
  <2>3. ~Linked(r)
    BY <1>1, <1>2, <1>4, <2>2
  <2>4. r.cs = 1 /\ r.nidx = r.n
    BY <1>4, <2>3, Zenon
  <2>5. 0 \in 0 .. XHCI_RING_ITEMS - 2
    BY <1>1
  <2>6. CASE r.n = 0
    <3>1. r.trbs[0].c = 1 - r.cs
      BY <1>5, <2>4, <2>5, <2>6
    <3>2. r.trbs[p.deq].c # p.cs
      BY <2>1, <2>4, <3>1
    <3> QED
      BY <1>8, <2>6, <3>2
  <2>7. CASE r.n # 0
    <3>1. r.trbs[0].c = 1 /\ r.trbs[0].n = 1
      BY <1>2, <1>5, <2>4, <2>5, <2>7
    <3>2. Behind(r, 1) = 1 /\ r.n - 1 < r.nidx
      BY <1>2, <2>4, <2>7 DEF Behind
    <3>3. h.n < r.n
      BY <1>2, <1>8, <2>7
    <3> QED
      BY <1>8, <2>1, <2>4, <3>1, <3>2, <3>3
  <2> QED
    BY <2>6, <2>7
<1>9. CASE h.n # 0 /\ d < r.nidx
  <2>1. h.deq = r.nidx - d /\ h.cs = r.cs
    BY <1>2, <1>6, <1>9 DEF Behind
  <2>2. CASE h.deq = XHCI_RING_ITEMS - 1
    <3>1. d = 0
      BY <1>1, <1>2, <1>7, <2>1, <2>2 DEF RingIndex
    <3>2. h.n = r.n
      BY <1>2, <3>1
    <3>3. h.cs # 1 - r.cs
      BY <1>2, <2>1 DEF Bits
    <3>4. r.trbs[p.deq].c # p.cs
      BY <1>3, <2>2, <3>3, Zenon
    <3> QED
      BY <1>2, <3>2, <3>4
  <2>3. CASE h.deq # XHCI_RING_ITEMS - 1
    <3>1. p.deq = h.deq /\ p.cs = r.cs
      BY <1>3, <2>1, <2>3, Zenon
    <3>2. h.deq \in 0 .. XHCI_RING_ITEMS - 2
      BY <1>1, <1>2, <2>3 DEF RingIndex
    <3>3. CASE d = 0
      <4>1. h.n = r.n /\ h.deq >= r.nidx
        BY <1>2, <2>1, <3>3 DEF RingIndex
      <4>2. r.trbs[p.deq].c = 1 - r.cs
        BY <1>5, <3>1, <3>2, <4>1, Zenon
      <4>3. 1 - r.cs # r.cs
        BY <1>2 DEF Bits
      <4> QED
        BY <1>2, <3>1, <4>1, <4>2, <4>3
    <3>4. CASE d # 0
      <4>1. h.n < r.n /\ h.deq < r.nidx /\ r.n - (h.n + 1) < r.nidx
        BY <1>2, <1>7, <1>9, <2>1, <3>4 DEF RingIndex
      <4>2. r.trbs[p.deq].c = r.cs /\ r.trbs[p.deq].n = r.n - r.nidx + 1 + h.deq
        BY <1>5, <3>1, <3>2, <4>1, Zenon
      <4>3. r.n - r.nidx + 1 + h.deq = h.n + 1
        BY <1>2, <2>1 DEF RingIndex
      <4>4. h.deq + 1 = Behind(r, h.n + 1)
        BY <1>2, <2>1, <4>1 DEF Behind, RingIndex
      <4> QED
        BY <3>1, <4>1, <4>2, <4>3, <4>4, Zenon
    <3> QED
      BY <3>3, <3>4
  <2> QED
    BY <2>2, <2>3
<1>10. CASE h.n # 0 /\ ~(d < r.nidx)
  <2>1. h.deq = r.nidx - d + XHCI_RING_ITEMS - 1 /\ h.cs = 1 - r.cs /\ h.cs # r.cs
    BY <1>1, <1>2, <1>6, <1>10 DEF Behind, Bits, RingIndex
  <2>2. r.nidx >= 1 /\ d >= 1 /\ h.n < r.n
    BY <1>2, <1>4, <1>6, <1>10 DEF RingIndex
  <2>3. Linked(r)
    BY <1>2, <1>4, <1>10
  <2>4. CASE d = r.nidx
    <3>1. p.deq = 0 /\ p.cs = r.cs
      BY <1>1, <1>2, <1>3, <2>1, <2>3, <2>4 DEF RingIndex
    <3>2. 0 \in 0 .. XHCI_RING_ITEMS - 2 /\ 0 < r.nidx
      BY <1>1, <1>2, <2>2 DEF RingIndex
    <3>3. r.trbs[0].c = r.cs /\ r.trbs[0].n = r.n - r.nidx + 1 + 0
      BY <1>5, <3>2, Zenon
    <3>4. r.n - r.nidx + 1 + 0 = h.n + 1
      BY <1>2, <2>4 DEF RingIndex
    <3>5. r.n - (h.n + 1) < r.nidx /\ 0 + 1 = Behind(r, h.n + 1)
      BY <1>2, <2>2, <2>4 DEF Behind, RingIndex
    <3> QED
      BY <2>2, <3>1, <3>3, <3>4, <3>5, Zenon
  <2>5. CASE d # r.nidx
    <3>1. h.deq \in 0 .. XHCI_RING_ITEMS - 2 /\ h.deq >= r.nidx
          /\ h.deq # XHCI_RING_ITEMS - 1
      BY <1>1, <1>2, <1>7, <1>10, <2>1, <2>5 DEF RingIndex
    <3>2. p.deq = h.deq /\ p.cs = h.cs
      BY <1>3, <3>1, Zenon
    <3>3. r.trbs[h.deq].c = 1 - r.cs
          /\ r.trbs[h.deq].n = r.n - r.nidx + 2 + h.deq - XHCI_RING_ITEMS
      BY <1>5, <2>3, <3>1, Zenon
    <3>4. r.n - r.nidx + 2 + h.deq - XHCI_RING_ITEMS = h.n + 1
      BY <1>1, <1>2, <2>1 DEF RingIndex
    <3>5. ~(r.n - (h.n + 1) < r.nidx) /\ h.deq + 1 = Behind(r, h.n + 1)
      BY <1>1, <1>2, <1>10, <2>1, <2>5 DEF Behind, RingIndex
    <3> QED
      BY <2>1, <2>2, <3>2, <3>3, <3>4, <3>5, Zenon
  <2> QED
    BY <2>4, <2>5
<1> QED
  BY <1>8, <1>9, <1>10


\* The controller posts an event.
Posts(e) ==
  /\ EventRoom /\ e \in XhciEvent /\ e.c = er.cs
  /\ evts' = [evts EXCEPT !.trbs[er.enq] = e]
  /\ er' = [enq |-> IF er.enq + 1 = XHCI_RING_ITEMS THEN 0 ELSE er.enq + 1,
            cs |-> IF er.enq + 1 = XHCI_RING_ITEMS THEN 1 - er.cs ELSE er.cs,
            posted |-> er.posted + 1]

\* How far the controller is ahead, across the end of the event ring.
LEMMA PostCounts ==
  ASSUME NEW N \in Nat, N >= 3, NEW enq \in 0 .. N - 1, NEW c \in {0, 1}, NEW p \in Nat,
         NEW nidx \in 0 .. N - 1, NEW d \in {0, 1}, NEW t \in Nat, t <= p,
         c = d => enq = nidx + (p - t), c # d => enq = nidx + (p - t) - N /\ enq < nidx,
         NEW enq2, NEW c2, enq2 = IF enq + 1 = N THEN 0 ELSE enq + 1,
         c2 = IF enq + 1 = N THEN 1 - c ELSE c, enq2 # nidx
  PROVE  /\ t <= p + 1
         /\ c2 = d => enq2 = nidx + (p + 1 - t)
         /\ c2 # d => enq2 = nidx + (p + 1 - t) - N /\ enq2 < nidx
         /\ (IF enq >= nidx THEN enq - nidx ELSE enq + N - nidx) = p - t
<1>1. CASE c = d
  <2>1. enq = nidx + (p - t)
    BY <1>1
  <2>2. CASE enq + 1 = N
    <3>1. enq2 = 0 /\ c2 # d
      BY <1>1, <2>2
    <3> QED
      BY <2>1, <2>2, <3>1
  <2>3. CASE enq + 1 # N
    BY <1>1, <2>1, <2>3
  <2> QED
    BY <2>2, <2>3
<1>2. CASE c # d
  <2>1. enq = nidx + (p - t) - N /\ enq < nidx
    BY <1>2
  <2>2. enq2 = enq + 1 /\ c2 = c
    BY <2>1
  <2> QED
    BY <1>2, <2>1, <2>2
<1> QED
  BY <1>1, <1>2

\* The event is the last of those that are pending, and the entries agree.
LEMMA PostFills ==
  ASSUME er \in HcEvents, evts \in EventRing, EventsFilled(evts), NEW e, Posts(e)
  PROVE  /\ er' \in HcEvents /\ evts' \in EventRing /\ EventsFilled(evts)'
         /\ er.enq \in RingIndex /\ evts'.trbs[er.enq] = e
         /\ \A i \in RingIndex : i # er.enq => evts'.trbs[i] = evts.trbs[i]
         /\ \A i \in RingIndex : Turn(evts, i)' = Turn(evts, i) /\ Turn(evts, i) \in Nat
         /\ \A i \in RingIndex :
              Pending(evts, i) => i # er.enq /\ Turn(evts, i) < Turn(evts, er.enq)
         /\ \A i \in RingIndex : Pending(evts, i)' => i = er.enq \/ Pending(evts, i)
<1>1. XHCI_RING_ITEMS \in Nat /\ XHCI_RING_ITEMS >= 3
  BY XhciAssumption
<1>2. /\ evts.nidx \in RingIndex /\ evts.cs \in Bits /\ evts.taken \in Nat
      /\ evts.trbs \in [RingIndex -> XhciEvent]
  BY Zenon DEF EventRing
<1>3. er.enq \in RingIndex /\ er.cs \in Bits /\ er.posted \in Nat
  BY Zenon DEF HcEvents
<1> DEFINE last == er.enq + 1 = XHCI_RING_ITEMS
           enq2 == IF last THEN 0 ELSE er.enq + 1
           cs2 == IF last THEN 1 - er.cs ELSE er.cs
<1>4. enq2 \in RingIndex /\ cs2 \in Bits /\ er.posted + 1 \in Nat
  BY <1>1, <1>3 DEF RingIndex, Bits
<1>5. e \in XhciEvent /\ e.c = er.cs /\ evts' = [evts EXCEPT !.trbs[er.enq] = e]
      /\ er' = [enq |-> enq2, cs |-> cs2, posted |-> er.posted + 1]
  BY Zenon DEF Posts
<1>6. enq2 # evts.nidx
  <2>1. (er.enq + 1) % XHCI_RING_ITEMS # evts.nidx
    BY Zenon DEF Posts, EventRoom
  <2>2. XHCI_RING_ITEMS \in Nat \ {0} /\ er.enq \in 0 .. XHCI_RING_ITEMS - 1
    BY <1>1, <1>3 DEF RingIndex
  <2>3. (er.enq + 1) % XHCI_RING_ITEMS = enq2
    BY <2>2, NextIndex, Zenon
  <2> HIDE DEF enq2
  <2> QED
    BY <2>1, <2>3
<1>22. enq2 = (IF er.enq + 1 = XHCI_RING_ITEMS THEN 0 ELSE er.enq + 1)
       /\ cs2 = (IF er.enq + 1 = XHCI_RING_ITEMS THEN 1 - er.cs ELSE er.cs)
  OBVIOUS
<1> HIDE DEF enq2, cs2
<1>7. er'.enq = enq2 /\ er'.cs = cs2 /\ er'.posted = er.posted + 1
  BY <1>5
<1>8. er' \in HcEvents
  BY <1>4, <1>5, Zenon DEF HcEvents
<1>9. evts' = [evts EXCEPT !.trbs = [evts.trbs EXCEPT ![er.enq] = e]]
  BY <1>5, Zenon
<1>10. [evts.trbs EXCEPT ![er.enq] = e] \in [RingIndex -> XhciEvent]
  BY <1>2, <1>5, Zenon
<1>11. /\ evts' \in EventRing /\ evts'.nidx = evts.nidx /\ evts'.cs = evts.cs
       /\ evts'.taken = evts.taken /\ evts'.trbs = [evts.trbs EXCEPT ![er.enq] = e]
  BY <1>9, <1>10, Zenon DEF EventRing
<1>12. evts'.trbs[er.enq] = e
       /\ \A i \in RingIndex : i # er.enq => evts'.trbs[i] = evts.trbs[i]
  BY <1>2, <1>3, <1>11, Zenon
<1>13. /\ evts.taken <= er.posted
       /\ er.cs = evts.cs => er.enq = evts.nidx + (er.posted - evts.taken)
       /\ er.cs # evts.cs =>
            /\ er.enq = evts.nidx + (er.posted - evts.taken) - XHCI_RING_ITEMS
            /\ er.enq < evts.nidx
  BY Zenon DEF EventsFilled
<1>14. \A i \in RingIndex : evts.trbs[i].c = IF i < er.enq THEN er.cs ELSE 1 - er.cs
  BY Zenon DEF EventsFilled
<1>15. /\ evts.taken <= er.posted + 1
       /\ cs2 = evts.cs => enq2 = evts.nidx + (er.posted + 1 - evts.taken)
       /\ cs2 # evts.cs =>
            /\ enq2 = evts.nidx + (er.posted + 1 - evts.taken) - XHCI_RING_ITEMS
            /\ enq2 < evts.nidx
       /\ (IF er.enq >= evts.nidx THEN er.enq - evts.nidx
           ELSE er.enq + XHCI_RING_ITEMS - evts.nidx) = er.posted - evts.taken
  <2> DEFINE enq == er.enq
             c == er.cs
             p == er.posted
             nidx == evts.nidx
             d == evts.cs
             t == evts.taken
  <2>1. /\ enq \in 0 .. XHCI_RING_ITEMS - 1 /\ c \in {0, 1} /\ p \in Nat
        /\ nidx \in 0 .. XHCI_RING_ITEMS - 1 /\ d \in {0, 1} /\ t \in Nat
    BY <1>2, <1>3, Zenon DEF RingIndex, Bits
  <2>2. /\ t <= p /\ (c = d => enq = nidx + (p - t))
        /\ (c # d => enq = nidx + (p - t) - XHCI_RING_ITEMS /\ enq < nidx)
    BY <1>13, Zenon
  <2>3. /\ enq2 = (IF enq + 1 = XHCI_RING_ITEMS THEN 0 ELSE enq + 1)
        /\ cs2 = (IF enq + 1 = XHCI_RING_ITEMS THEN 1 - c ELSE c) /\ enq2 # nidx
    BY <1>6, <1>22, Zenon
  <2> HIDE DEF enq, c, p, nidx, d, t
  <2>4. /\ t <= p + 1
        /\ cs2 = d => enq2 = nidx + (p + 1 - t)
        /\ cs2 # d => enq2 = nidx + (p + 1 - t) - XHCI_RING_ITEMS /\ enq2 < nidx
        /\ (IF enq >= nidx THEN enq - nidx ELSE enq + XHCI_RING_ITEMS - nidx) = p - t
    BY <1>1, <2>1, <2>2, <2>3, PostCounts
  <2> QED
    BY <2>4, Zenon DEF enq, c, p, nidx, d, t
<1>16. ASSUME NEW i \in RingIndex
       PROVE  evts'.trbs[i].c = IF i < er'.enq THEN er'.cs ELSE 1 - er'.cs
  <2>1. CASE last
    <3>1. ~(i < enq2) /\ 1 - cs2 = er.cs
      BY <1>3, <1>22, <2>1 DEF RingIndex, Bits
    <3>2. i # er.enq => i < er.enq
      BY <1>1, <1>3, <2>1 DEF RingIndex
    <3> QED
      BY <1>5, <1>7, <1>12, <1>14, <3>1, <3>2, Zenon
  <2>2. CASE ~last
    <3>1. enq2 = er.enq + 1 /\ cs2 = er.cs
      BY <1>22, <2>2
    <3>2. i = er.enq => i < enq2
      BY <1>3, <3>1 DEF RingIndex
    <3>3. i # er.enq => (i < enq2 <=> i < er.enq)
      BY <1>3, <3>1 DEF RingIndex
    <3> QED
      BY <1>5, <1>7, <1>12, <1>14, <3>1, <3>2, <3>3, Zenon
  <2> QED
    BY <2>1, <2>2
<1>23. /\ er'.posted = er.posted + 1 /\ evts'.taken = evts.taken
       /\ er'.posted - evts'.taken = er.posted + 1 - evts.taken
  <2>1. er'.posted = er.posted + 1 /\ evts'.taken = evts.taken
    BY <1>7, <1>11, Zenon
  <2> QED
    BY <1>2, <1>3, <2>1, SMTT(30)
<1>17. EventsFilled(evts)'
  <2>1. /\ evts'.taken <= er'.posted
        /\ er'.cs = evts'.cs => er'.enq = evts'.nidx + (er'.posted - evts'.taken)
        /\ er'.cs # evts'.cs =>
             /\ er'.enq = evts'.nidx + (er'.posted - evts'.taken) - XHCI_RING_ITEMS
             /\ er'.enq < evts'.nidx
    <3>1. /\ er'.posted - evts'.taken = er.posted + 1 - evts.taken
          /\ er'.posted = er.posted + 1 /\ evts'.taken = evts.taken
      BY <1>23, Zenon
    <3>2. er'.enq = enq2 /\ er'.cs = cs2 /\ evts'.nidx = evts.nidx /\ evts'.cs = evts.cs
      BY <1>7, <1>11, Zenon
    <3> QED
      BY <1>15, <3>1, <3>2
  <2> QED
    BY <1>16, <2>1, Zenon DEF EventsFilled
<1>18. ASSUME NEW i \in RingIndex
       PROVE  Turn(evts, i)' = Turn(evts, i) /\ Turn(evts, i) \in Nat
  <2>1. Turn(evts, i)' = Turn(evts, i)
    BY <1>11, Zenon DEF Turn
  <2>2. evts.nidx \in RingIndex
    BY <1>2
  <2>3. Turn(evts, i) \in Nat
    BY <1>1, <2>2, SMTT(30) DEF Turn, RingIndex
  <2> QED
    BY <2>1, <2>3
<1>19. Turn(evts, er.enq) = er.posted - evts.taken
  BY <1>15, Zenon DEF Turn
<1>20. ASSUME NEW i \in RingIndex, Pending(evts, i)
       PROVE  i # er.enq /\ Turn(evts, i) < Turn(evts, er.enq)
  <2>1. Turn(evts, i) < Turn(evts, er.enq)
    BY <1>19, <1>20, Zenon DEF Pending
  <2>2. Turn(evts, i) \in Nat
    BY <1>18
  <2> HIDE DEF Turn
  <2>3. Turn(evts, i) # Turn(evts, er.enq)
    BY <2>1, <2>2
  <2> QED
    BY <2>1, <2>3, Zenon
<1>21. ASSUME NEW i \in RingIndex, Pending(evts, i)', i # er.enq
       PROVE  Pending(evts, i)
  <2>5. Turn(evts', i) < er'.posted - evts'.taken
    BY <1>21, Zenon DEF Pending
  <2>6. Turn(evts', i) = Turn(evts, i)
    BY <1>18, Zenon
  <2>1. Turn(evts, i) < er.posted + 1 - evts.taken
    BY <1>23, <2>5, <2>6, Zenon
  <2>2. Turn(evts, i) # Turn(evts, er.enq)
    BY <1>1, <1>2, <1>3, <1>21, SMTT(30) DEF Turn, RingIndex
  <2>3. Turn(evts, i) \in Nat
    BY <1>18
  <2> HIDE DEF Turn
  <2>4. Turn(evts, i) < er.posted - evts.taken
    BY <1>2, <1>3, <1>19, <2>1, <2>2, <2>3
  <2> QED
    BY <2>4, Zenon DEF Pending
<1> QED
  BY <1>3, <1>8, <1>11, <1>12, <1>17, <1>18, <1>20, <1>21, Zenon


\* What an event has to be when it is posted.
IsNext(e, hcs) ==
  e.ring \in Rings /\ ~rings[e.ring].over =>
    /\ rings[e.ring].evt.n < e.n /\ e.n <= hcs[e.ring].n
    /\ e.index + 1 = Behind(rings[e.ring], e.n)
    /\ \A k \in RingIndex :
         Pending(evts, k) /\ evts.trbs[k].ring = e.ring => evts.trbs[k].n < e.n

\* Posting such an event keeps all rings in step.
LEMMA EventPosted ==
  ASSUME er \in HcEvents, evts \in EventRing, EventsFilled(evts),
         rings \in [Rings -> XhciRing], EventsUpTo(rings, evts, hc'),
         \A r \in Rings : RingTrue(rings[r], hc'[r]), rings' = rings,
         NEW e, Posts(e), IsNext(e, hc')
  PROVE  er' \in HcEvents /\ RingsInv(rings, evts)'
<1>1. /\ er' \in HcEvents /\ evts' \in EventRing /\ EventsFilled(evts)'
      /\ er.enq \in RingIndex /\ evts'.trbs[er.enq] = e
      /\ \A i \in RingIndex : i # er.enq => evts'.trbs[i] = evts.trbs[i]
      /\ \A i \in RingIndex : Turn(evts, i)' = Turn(evts, i) /\ Turn(evts, i) \in Nat
      /\ \A i \in RingIndex :
           Pending(evts, i) => i # er.enq /\ Turn(evts, i) < Turn(evts, er.enq)
      /\ \A i \in RingIndex : Pending(evts, i)' => i = er.enq \/ Pending(evts, i)
  BY PostFills, Zenon
<1>2. ASSUME NEW i \in RingIndex, Pending(evts, i)', evts'.trbs[i].ring \in Rings,
             ~rings[evts'.trbs[i].ring].over
      PROVE  /\ rings[evts'.trbs[i].ring].evt.n < evts'.trbs[i].n
             /\ evts'.trbs[i].n <= hc'[evts'.trbs[i].ring].n
             /\ evts'.trbs[i].index + 1 = Behind(rings[evts'.trbs[i].ring], evts'.trbs[i].n)
             /\ \A k \in RingIndex :
                  Pending(evts, k)' /\ evts'.trbs[k].ring = evts'.trbs[i].ring
                    /\ Turn(evts, i)' < Turn(evts, k)' => evts'.trbs[i].n < evts'.trbs[k].n
  <2>1. CASE i = er.enq
    <3>1. evts'.trbs[i] = e
      BY <1>1, <2>1, Zenon
    <3>2. /\ rings[e.ring].evt.n < e.n /\ e.n <= hc'[e.ring].n
          /\ e.index + 1 = Behind(rings[e.ring], e.n)
      BY <1>2, <3>1, Zenon DEF IsNext
    <3>3. ASSUME NEW k \in RingIndex, Pending(evts, k)', Turn(evts, i)' < Turn(evts, k)'
          PROVE  FALSE
      <4>1. Turn(evts, i) < Turn(evts, k) /\ Turn(evts, i) \in Nat /\ Turn(evts, k) \in Nat
        BY <1>1, <3>3, Zenon
      <4>2. k = i \/ Turn(evts, k) < Turn(evts, i)
        BY <1>1, <2>1, <3>3, Zenon
      <4> HIDE DEF Turn
      <4>3. k # i
        BY <4>1
      <4> QED
        BY <4>1, <4>2, <4>3
    <3> QED
      BY <3>1, <3>2, <3>3, Zenon
  <2>2. CASE i # er.enq
    <3>1. evts'.trbs[i] = evts.trbs[i] /\ Pending(evts, i)
      BY <1>1, <1>2, <2>2, Zenon
    <3>2. /\ rings[evts.trbs[i].ring].evt.n < evts.trbs[i].n
          /\ evts.trbs[i].n <= hc'[evts.trbs[i].ring].n
          /\ evts.trbs[i].index + 1 = Behind(rings[evts.trbs[i].ring], evts.trbs[i].n)
          /\ \A k \in RingIndex :
               Pending(evts, k) /\ evts.trbs[k].ring = evts.trbs[i].ring
                 /\ Turn(evts, i) < Turn(evts, k) => evts.trbs[i].n < evts.trbs[k].n
      BY <1>2, <3>1, Zenon DEF EventsUpTo
    <3>3. ASSUME NEW k \in RingIndex, Pending(evts, k)',
                 evts'.trbs[k].ring = evts'.trbs[i].ring, Turn(evts, i)' < Turn(evts, k)'
          PROVE  evts'.trbs[i].n < evts'.trbs[k].n
      <4>1. CASE k = er.enq
        <5>1. evts'.trbs[k] = e /\ e.ring = evts.trbs[i].ring
          BY <1>1, <3>1, <3>3, <4>1, Zenon
        <5>2. evts.trbs[i].n < e.n
          BY <1>2, <3>1, <5>1, Zenon DEF IsNext
        <5> QED
          BY <3>1, <5>1, <5>2, Zenon
      <4>2. CASE k # er.enq
        <5>1. evts'.trbs[k] = evts.trbs[k] /\ Pending(evts, k)
              /\ Turn(evts, i) < Turn(evts, k)
          BY <1>1, <3>3, <4>2, Zenon
        <5> QED
          BY <3>1, <3>2, <3>3, <5>1, Zenon
      <4> QED
        BY <4>1, <4>2
    <3> QED
      BY <3>1, <3>2, <3>3, Zenon
  <2> QED
    BY <2>1, <2>2
<1>3. EventsTrue(rings, evts)'
  BY <1>2, Zenon DEF EventsTrue, EventsUpTo
<1> QED
  BY <1>1, <1>3, Zenon DEF RingsInv

\* The controller may go on on one ring.
LEMMA Advances ==
  ASSUME hc \in [Rings -> HcPosition], RingsInv(rings, evts), NEW x \in Rings,
         NEW q \in HcPosition, RingTrue(rings[x], q), hc[x].n <= q.n,
         hc' = [hc EXCEPT ![x] = q]
  PROVE  /\ hc' \in [Rings -> HcPosition]
         /\ \A r \in Rings : RingTrue(rings[r], hc'[r])
         /\ EventsUpTo(rings, evts, hc')
<1>1. hc' \in [Rings -> HcPosition] /\ hc'[x] = q /\ \A r \in Rings \ {x} : hc'[r] = hc[r]
  BY Zenon
<1>2. /\ \A r \in Rings : RingTrue(rings[r], hc[r])
      /\ EventsTrue(rings, evts) /\ evts \in EventRing
  BY Zenon DEF RingsInv
<1>3. \A r \in Rings : RingTrue(rings[r], hc'[r])
  BY <1>1, <1>2, Zenon
<1>4. \A i \in RingIndex : evts.trbs[i].n \in Nat
  BY <1>2, Zenon DEF EventRing, XhciEvent
<1>5. hc[x].n \in Nat /\ q.n \in Nat
  BY Zenon DEF HcPosition
<1>6. \A m \in Nat : m <= hc[x].n => m <= q.n
  BY <1>5
<1>7. EventsUpTo(rings, evts, hc')
  BY <1>1, <1>2, <1>4, <1>6, Zenon DEF EventsTrue, EventsUpTo
<1> QED
  BY <1>1, <1>3, <1>7

\* A TRB is done, with or without an event: the rings stay in step.
LEMMA CompletesKeep ==
  ASSUME hc \in [Rings -> HcPosition], er \in HcEvents, RingsInv(rings, evts),
         NEW x \in Rings, NEW ok \in BOOLEAN, TrbCompletes(x, ok)
  PROVE  /\ hc' \in [Rings -> HcPosition] /\ er' \in HcEvents /\ RingsInv(rings, evts)'
         /\ hc'[x].n = hc[x].n + 1 /\ (hc'[x].halted <=> ~ok /\ x # Cmds)
         /\ \A r \in Rings \ {x} : hc'[r] = hc[r]
<1> DEFINE h == hc[x]
           r == rings[x]
           p == Position(x)
           q == [deq |-> p.deq + 1, cs |-> p.cs, n |-> h.n + 1, halted |-> ~ok /\ x # Cmds]
           trb == Current(x)
           e == [ring |-> x, index |-> p.deq, n |-> trb.n, cc |-> IF ok THEN 1 ELSE 4,
                 c |-> er.cs]
<1>1. /\ rings \in [Rings -> XhciRing] /\ evts \in EventRing
      /\ RingTrue(r, h) /\ r \in XhciRing /\ h \in HcPosition
      /\ EventsFilled(evts) /\ EventsTrue(rings, evts)
  BY Zenon DEF RingsInv
<1>2. /\ trb.c = p.cs /\ hc' = [hc EXCEPT ![x] = q] /\ rings' = rings
      /\ \/ UNCHANGED <<evts, er>>
         \/ Post(x, p.deq, trb.n, IF ok THEN 1 ELSE 4)
  BY Zenon DEF TrbCompletes, Runs
<1>3. trb = r.trbs[p.deq]
  BY Zenon DEF Current
<1>4. p = IF r.trbs[h.deq].kind = Link /\ r.trbs[h.deq].c = h.cs
          THEN [deq |-> 0, cs |-> 1 - h.cs] ELSE [deq |-> h.deq, cs |-> h.cs]
  BY Zenon DEF Position
<1> HIDE DEF p, trb, r, h
<1>5. /\ p.deq \in 0 .. XHCI_RING_ITEMS - 2 /\ p.cs \in Bits /\ p.deq \in RingIndex
      /\ p.cs = 0 => Linked(r)
  BY <1>1, <1>2, <1>3, <1>4, LooksAt, ZenonT(40)
<1>6. ~r.over => /\ h.n < r.n /\ trb.n = h.n + 1 /\ p.deq + 1 = Behind(r, h.n + 1)
                 /\ p.cs = r.cs <=> r.n - (h.n + 1) < r.nidx
  BY <1>1, <1>2, <1>3, <1>4, Finds, ZenonT(40)
<1>7. h.n \in Nat /\ r.n \in Nat /\ r.evt.n \in Nat
  BY <1>1, Zenon DEF HcPosition, XhciRing, XhciEvent
<1>8. p.deq + 1 \in RingIndex /\ h.n + 1 \in Nat /\ h.n <= h.n + 1
  BY <1>5, <1>7, XhciAssumption DEF RingIndex
<1>9. /\ q \in HcPosition /\ q.deq = p.deq + 1 /\ q.cs = p.cs /\ q.n = h.n + 1
      /\ q.halted <=> ~ok /\ x # Cmds
  BY <1>5, <1>8, Zenon DEF HcPosition
<1> HIDE DEF q
<1>10. ASSUME ~r.over PROVE Follows(r, q)
  <2>1. /\ r.evt.n <= h.n
        /\ r.evt.n = 0 => r.eidx = 0
        /\ r.evt.n > 0 => r.eidx = Behind(r, r.evt.n)
    BY <1>1, <1>10, Zenon DEF RingTrue, Follows
  <2>2. r.evt.n <= h.n + 1 /\ h.n + 1 <= r.n /\ h.n + 1 # 0
    BY <1>6, <1>7, <1>10, <2>1
  <2>3. /\ q.deq = Behind(r, q.n)
        /\ q.cs = r.cs <=> r.n - q.n < r.nidx
        /\ q.n = h.n + 1
    BY <1>6, <1>9, <1>10, Zenon
  <2>4. /\ r.evt.n <= q.n /\ q.n <= r.n /\ q.n # 0
    BY <2>2, <2>3, Zenon
  <2> QED
    BY <2>1, <2>3, <2>4, Zenon DEF Follows
<1>11. RingTrue(r, q)
  BY <1>1, <1>5, <1>9, <1>10, Zenon DEF RingTrue
<1>12. /\ hc' \in [Rings -> HcPosition]
       /\ \A y \in Rings : RingTrue(rings[y], hc'[y])
       /\ EventsUpTo(rings, evts, hc')
  BY <1>2, <1>8, <1>9, <1>11, Advances, Zenon DEF r, h
<1>13. hc'[x] = q /\ \A y \in Rings \ {x} : hc'[y] = hc[y]
  BY <1>2, <1>9, Zenon
<1>14. CASE UNCHANGED <<evts, er>>
  <2>1. evts' = evts /\ er' = er
    BY <1>14, Zenon
  <2>2. EventsFilled(evts)' /\ EventsTrue(rings, evts)'
    BY <1>1, <1>2, <1>12, <2>1, Zenon
      DEF EventsFilled, EventsTrue, EventsUpTo, Pending, Turn
  <2>3. RingsInv(rings, evts)'
    BY <1>1, <1>2, <1>12, <2>1, <2>2, Zenon DEF RingsInv
  <2> QED
    BY <1>9, <1>12, <1>13, <2>1, <2>3, Zenon DEF h
<1>15. CASE Post(x, p.deq, trb.n, IF ok THEN 1 ELSE 4)
  <2>1. trb.n \in Nat
    BY <1>1, <1>3, <1>5, Zenon DEF XhciRing, Trb
  <2>2. er.cs \in Bits
    BY Zenon DEF HcEvents
  <2>3. (IF ok THEN 1 ELSE 4) \in {0, 1, 4}
    BY Zenon
  <2>4. e \in XhciEvent /\ e.ring = x /\ e.index = p.deq /\ e.n = trb.n /\ e.c = er.cs
    BY <1>5, <2>1, <2>2, <2>3, Zenon DEF XhciEvent
  <2>5. Posts(e)
    <3>1. /\ EventRoom /\ evts' = [evts EXCEPT !.trbs[er.enq] = e]
          /\ er' = [er EXCEPT
                      !.enq = IF er.enq + 1 = XHCI_RING_ITEMS THEN 0 ELSE er.enq + 1,
                      !.cs = IF er.enq + 1 = XHCI_RING_ITEMS THEN 1 - er.cs ELSE er.cs,
                      !.posted = er.posted + 1]
      BY <1>15, Zenon DEF Post
    <3>2. er' = [enq |-> IF er.enq + 1 = XHCI_RING_ITEMS THEN 0 ELSE er.enq + 1,
                 cs |-> IF er.enq + 1 = XHCI_RING_ITEMS THEN 1 - er.cs ELSE er.cs,
                 posted |-> er.posted + 1]
      BY <3>1 DEF HcEvents
    <3> QED
      BY <2>4, <3>1, <3>2, Zenon DEF Posts
  <2> HIDE DEF e
  <2>6. IsNext(e, hc')
    <3>1. SUFFICES ASSUME ~rings[e.ring].over
          PROVE  /\ rings[e.ring].evt.n < e.n /\ e.n <= hc'[e.ring].n
                 /\ e.index + 1 = Behind(rings[e.ring], e.n)
                 /\ \A k \in RingIndex :
                      Pending(evts, k) /\ evts.trbs[k].ring = e.ring =>
                        evts.trbs[k].n < e.n
      BY Zenon DEF IsNext
    <3>2. rings[e.ring] = r /\ ~r.over /\ hc'[e.ring] = q
      BY <1>13, <2>4, <3>1, Zenon DEF r
    <3>3. e.n = h.n + 1 /\ e.index + 1 = Behind(r, e.n)
      BY <1>6, <2>4, <3>2, Zenon
    <3>4. r.evt.n <= h.n
      BY <1>1, <3>2, Zenon DEF RingTrue, Follows
    <3>5. r.evt.n < e.n /\ e.n <= q.n
      BY <1>7, <1>9, <3>3, <3>4
    <3>6. ASSUME NEW k \in RingIndex, Pending(evts, k), evts.trbs[k].ring = e.ring
          PROVE  evts.trbs[k].n < e.n
      <4>1. evts.trbs[k].n <= h.n
        BY <1>1, <2>4, <3>1, <3>6, Zenon DEF EventsTrue, EventsUpTo, h
      <4>2. evts.trbs[k].n \in Nat
        BY <1>1, Zenon DEF EventRing, XhciEvent
      <4> QED
        BY <1>7, <3>3, <4>1, <4>2
    <3> QED
      BY <3>2, <3>3, <3>5, <3>6, Zenon
  <2>7. er' \in HcEvents /\ RingsInv(rings, evts)'
    BY <1>1, <1>2, <1>12, <2>5, <2>6, EventPosted, Zenon
  <2> QED
    BY <1>9, <1>12, <1>13, <2>7, Zenon DEF h
<1> QED
  BY <1>2, <1>14, <1>15

\* A ring that is not busy has its last TRB's event.
LEMMA NotBusy ==
  ASSUME NEW r \in XhciRing, NEW h \in HcPosition, RingTrue(r, h), ~r.over,
         ~xhci_ring_busy(r)
  PROVE  r.evt.n = r.n /\ h.n = r.n
<1>1. /\ r.nidx \in RingIndex /\ r.n \in Nat /\ r.evt.n \in Nat /\ h.n \in Nat
      /\ r.eidx \in RingIndex
  BY Zenon DEF XhciRing, XhciEvent, HcPosition
<1>2. /\ r.nidx = 0 => r.n = 0
      /\ r.n - r.evt.n <= XHCI_RING_ITEMS - 2
  BY Zenon DEF RingTrue, RingFilled
<1>3. /\ r.evt.n <= h.n /\ h.n <= r.n
      /\ r.evt.n = 0 => r.eidx = 0
      /\ r.evt.n > 0 => r.eidx = Behind(r, r.evt.n)
  BY Zenon DEF RingTrue, Follows
<1>4. r.eidx = r.nidx
  BY Zenon DEF xhci_ring_busy
<1>5. r.evt.n = r.n
  <2>1. CASE r.evt.n = 0
    BY <1>2, <1>3, <1>4, <2>1, Zenon
  <2>2. CASE r.evt.n # 0
    <3>1. r.nidx = Behind(r, r.evt.n)
      BY <1>1, <1>3, <1>4, <2>2
    <3> DEFINE d == r.n - r.evt.n
    <3>2. d \in 0 .. XHCI_RING_ITEMS - 2
      BY <1>1, <1>2, <1>3, XhciAssumption
    <3>3. r.nidx = IF d < r.nidx THEN r.nidx - d ELSE r.nidx - d + XHCI_RING_ITEMS - 1
      BY <3>1, Zenon DEF Behind
    <3> HIDE DEF d
    <3>4. d = 0
      BY <1>1, <3>2, <3>3, XhciAssumption DEF RingIndex
    <3> QED
      BY <1>1, <3>4 DEF d
  <2> QED
    BY <2>1, <2>2
<1> QED
  BY <1>1, <1>3, <1>5

\* What the lemmas say of a request that is queued.
LEMMA Queueing ==
  ASSUME XhciInv, NEW x \in Rings, NEW q, Grows(rings[x], q),
         rings' = [rings EXCEPT ![x] = q], UNCHANGED <<evts, hc, er>>
  PROVE  /\ RingsInv(rings, evts)' /\ hc' \in [Rings -> HcPosition] /\ er' \in HcEvents
         /\ rings'[x] = q
         /\ ~q.over => ~rings[x].over
         /\ \A r \in Rings \ {x} : rings'[r] = rings[r]
<1>0. hc \in [Rings -> HcPosition] /\ er \in HcEvents /\ RingsInv(rings, evts)
  BY Zenon DEF XhciInv
<1>1. /\ RingsInv(rings', evts) /\ rings'[x] = q
      /\ \A r \in Rings \ {x} : rings'[r] = rings[r]
  <2>1. rings' = Swapped(rings, x, q)
    BY Zenon DEF Swapped
  <2>2. RingsInv(rings', evts)
    BY <1>0, <2>1, GrowKeeps, Zenon
  <2>3. rings \in [Rings -> XhciRing]
    BY <1>0, Zenon DEF RingsInv
  <2> QED
    BY <2>2, <2>3, Zenon
<1>2. RingsInv(rings, evts)'
  BY <1>1, Zenon
    DEF RingsInv, EventsFilled, EventsTrue, EventsUpTo, Pending, Turn
<1> QED
  BY <1>1, <1>2, Zenon DEF XhciInv, Grows

\* A thread that queues a request waits for it.
LEMMA Submitting ==
  ASSUME XhciInv, NEW t \in UsbThreads, NEW x \in {t, Cmds}, NEW q,
         Grows(rings[x], q), rings' = [rings EXCEPT ![x] = q],
         UNCHANGED <<evts, hc, er, intr>>, IdleThread(t), Submitted(t, x),
         IF x = t THEN lock' = lock ELSE lock = Nobody /\ lock' = t
  PROVE  XhciInv'
<1>1. x \in Rings /\ Cmds # Intr /\ t # Cmds /\ t # Intr /\ x # Intr /\ Intr \in Rings
      /\ t \in Rings /\ Nobody \notin UsbThreads
  BY XhciAssumption DEF Rings, Nobody
<1>2. /\ RingsInv(rings, evts)' /\ hc' \in [Rings -> HcPosition] /\ er' \in HcEvents
      /\ rings'[x] = q
      /\ ~q.over => ~rings[x].over
      /\ \A r \in Rings \ {x} : rings'[r] = rings[r]
  BY <1>1, Queueing, Zenon
<1>3. thread \in [UsbThreads -> XhciThread] /\ lock \in UsbThreads \cup {Nobody}
  BY Zenon DEF XhciInv, RequestersInv
<1>4. q.n \in Nat
  BY Zenon DEF Grows, XhciRing
<1>5. thread[t].pc = "idle"
  BY Zenon DEF IdleThread
<1> DEFINE w == [thread[t] EXCEPT !.pc = "wait", !.ring = x, !.want = rings'[x].n]
<1>6. thread' = [thread EXCEPT ![t] = w]
  BY Zenon DEF Submitted
<1>7. w \in XhciThread /\ w.pc = "wait" /\ w.ring = x /\ w.want = rings'[x].n
  <2>1. thread[t] \in XhciThread
    BY <1>3, Zenon
  <2> QED
    BY <1>1, <1>2, <1>4, <2>1 DEF XhciThread
<1> HIDE DEF w
<1>8. /\ thread' \in [UsbThreads -> XhciThread] /\ thread'[t] = w
      /\ \A u \in UsbThreads \ {t} : thread'[u] = thread[u]
  BY <1>3, <1>6, <1>7, Zenon
<1>9. lock' \in UsbThreads \cup {Nobody}
  BY <1>3, Zenon
<1>10. ASSUME NEW u \in UsbThreads
       PROVE  /\ thread[u].ring \in {u, Cmds}
              /\ lock = u <=> thread[u].pc = "wait" /\ thread[u].ring = Cmds
              /\ thread[u].pc = "wait" => thread[u].want = rings[thread[u].ring].n
              /\ thread[u].pc = "idle" /\ thread[u].cc >= 0
                   /\ ~rings[thread[u].ring].over => thread[u].got = thread[u].want
  BY Zenon DEF XhciInv, RequestersInv
<1>11. ASSUME NEW u \in UsbThreads
       PROVE  /\ thread'[u].ring \in {u, Cmds}
              /\ lock' = u <=> thread'[u].pc = "wait" /\ thread'[u].ring = Cmds
              /\ thread'[u].pc = "wait" => thread'[u].want = rings'[thread'[u].ring].n
              /\ thread'[u].pc = "idle" /\ thread'[u].cc >= 0
                   /\ ~rings'[thread'[u].ring].over => thread'[u].got = thread'[u].want
  <2>1. CASE u = t
    <3>1. thread'[u] = w /\ w.pc # "idle"
      BY <1>7, <1>8, <2>1
    <3>2. lock' = t <=> x = Cmds
      <4>1. CASE x = t
        <5>1. lock # t
          BY <1>5, <1>10, Zenon
        <5> QED
          BY <1>1, <4>1, <5>1, Zenon
      <4>2. CASE x # t
        BY <4>2, Zenon
      <4> QED
        BY <4>1, <4>2
    <3> QED
      BY <1>7, <2>1, <3>1, <3>2, Zenon
  <2>2. CASE u # t
    <3>1. thread'[u] = thread[u]
      BY <1>8, <2>2, Zenon
    <3>2. u # x /\ u \in Rings /\ u # Cmds
      BY <1>1, <2>2, XhciAssumption DEF Rings
    <3>3. lock' = u <=> lock = u
      <4>1. CASE x = t
        BY <4>1, Zenon
      <4>2. CASE x # t
        BY <1>1, <2>2, <4>2, Zenon
      <4> QED
        BY <4>1, <4>2
    <3>4. CASE thread[u].ring = u
      <4>1. rings'[u] = rings[u]
        BY <1>2, <3>2, Zenon
      <4> QED
        BY <1>10, <3>1, <3>3, <3>4, <4>1, SMTT(40)
    <3>5. CASE thread[u].ring = Cmds
      <4>1. CASE x = Cmds
        <5>1. thread[u].pc # "wait"
          BY <1>1, <1>10, <3>5, <4>1, Zenon
        <5>2. ~rings'[Cmds].over => ~rings[Cmds].over
          BY <1>2, <4>1, Zenon
        <5>3. thread'[u].ring = Cmds /\ thread'[u].pc # "wait"
          BY <3>1, <3>5, <5>1, Zenon
        <5>4. thread'[u].pc = "idle" /\ thread'[u].cc >= 0 /\ ~rings'[Cmds].over =>
                thread'[u].got = thread'[u].want
          BY <1>10, <3>1, <3>5, <5>2, Zenon
        <5>5. lock' = u <=> FALSE
          BY <1>10, <3>3, <5>1, Zenon
        <5> QED
          BY <5>3, <5>4, <5>5, Zenon
      <4>2. CASE x # Cmds
        <5>1. rings'[Cmds] = rings[Cmds]
          BY <1>2, <4>2, Zenon DEF Rings
        <5> QED
          BY <1>10, <3>1, <3>3, <3>5, <5>1, Zenon
      <4> QED
        BY <4>1, <4>2
    <3> QED
      BY <1>10, <3>4, <3>5, Zenon
  <2> QED
    BY <2>1, <2>2
<1>12. RequestersInv'
  BY <1>8, <1>9, <1>11, Zenon DEF RequestersInv
<1>13. IntrInv'
  <2>1. rings'[Intr] = rings[Intr]
    BY <1>1, <1>2, Zenon
  <2> QED
    BY <2>1, Zenon DEF XhciInv, IntrInv, ReportsInOrder, ReportOf
<1> QED
  BY <1>2, <1>12, <1>13, Zenon DEF XhciInv

\* Draining the events says nothing about how many TRBs there are.
LEMMA Draining ==
  ASSUME XhciInv, rings' = xhci_process_events.rings, evts' = xhci_process_events.evts,
         UNCHANGED <<hc, er>>
  PROVE  /\ RingsInv(rings, evts)' /\ SameRings(rings, rings')
         /\ hc' \in [Rings -> HcPosition] /\ er' \in HcEvents
<1>1. hc \in [Rings -> HcPosition] /\ er \in HcEvents /\ RingsInv(rings, evts)
  BY Zenon DEF XhciInv
<1>2. RingsInv(rings', evts') /\ SameRings(rings, rings')
  BY <1>1, Drained, Zenon
<1>3. RingsInv(rings, evts)'
  BY <1>2, Zenon
    DEF RingsInv, EventsFilled, EventsTrue, EventsUpTo, Pending, Turn
<1> QED
  BY <1>1, <1>2, <1>3, Zenon

\* A thread whose wait ends is idle with its result.
LEMMA Returning ==
  ASSUME XhciInv, NEW t \in UsbThreads, thread[t].pc = "wait",
         NEW w \in XhciThread, w.pc = "idle", w.ring = thread[t].ring,
         w.cc >= 0 /\ ~rings[w.ring].over => w.got = w.want,
         SameRings(rings, rings'), thread' = [thread EXCEPT ![t] = w], lock' = Unlocked(t)
  PROVE  RequestersInv'
<1>1. thread \in [UsbThreads -> XhciThread] /\ lock \in UsbThreads \cup {Nobody}
  BY Zenon DEF XhciInv, RequestersInv
<1>2. /\ thread' \in [UsbThreads -> XhciThread] /\ thread'[t] = w
      /\ \A u \in UsbThreads \ {t} : thread'[u] = thread[u]
  BY <1>1, Zenon
<1>3. ASSUME NEW u \in UsbThreads
      PROVE  /\ thread[u].ring \in {u, Cmds}
             /\ lock = u <=> thread[u].pc = "wait" /\ thread[u].ring = Cmds
             /\ thread[u].pc = "wait" => thread[u].want = rings[thread[u].ring].n
             /\ thread[u].pc = "idle" /\ thread[u].cc >= 0
                  /\ ~rings[thread[u].ring].over => thread[u].got = thread[u].want
  BY Zenon DEF XhciInv, RequestersInv
<1>4. Nobody \notin UsbThreads /\ \A u \in UsbThreads : u \in Rings
  BY XhciAssumption DEF Nobody, Rings
<1>5. \A r \in Rings : rings'[r].n = rings[r].n /\ rings'[r].over = rings[r].over
  BY Zenon DEF SameRings
<1>6. \A u \in UsbThreads : thread[u].ring \in Rings
  BY <1>1, Zenon DEF XhciThread
<1>7. lock' = IF thread[t].ring = Cmds THEN Nobody ELSE lock
  BY Zenon DEF Unlocked
<1>8. lock' \in UsbThreads \cup {Nobody}
  BY <1>1, <1>7, Zenon
<1>9. ASSUME NEW u \in UsbThreads
      PROVE  /\ thread'[u].ring \in {u, Cmds}
             /\ lock' = u <=> thread'[u].pc = "wait" /\ thread'[u].ring = Cmds
             /\ thread'[u].pc = "wait" => thread'[u].want = rings'[thread'[u].ring].n
             /\ thread'[u].pc = "idle" /\ thread'[u].cc >= 0
                  /\ ~rings'[thread'[u].ring].over => thread'[u].got = thread'[u].want
  <2>1. CASE u = t
    <3>1. thread'[u] = w /\ w.pc # "wait"
      BY <1>2, <2>1
    <3>2. lock' # t
      <4>1. CASE thread[t].ring = Cmds
        BY <1>4, <1>7, <4>1, Zenon
      <4>2. CASE thread[t].ring # Cmds
        BY <1>3, <1>7, <4>2, Zenon
      <4> QED
        BY <4>1, <4>2
    <3>3. w.ring \in {t, Cmds} /\ rings'[w.ring].over = rings[w.ring].over
      BY <1>3, <1>5, <1>6, Zenon
    <3> QED
      BY <2>1, <3>1, <3>2, <3>3, Zenon
  <2>2. CASE u # t
    <3>1. thread'[u] = thread[u]
      BY <1>2, <2>2, Zenon
    <3>2. lock' = u <=> lock = u
      <4>1. CASE thread[t].ring = Cmds
        BY <1>3, <1>4, <1>7, <2>2, <4>1, Zenon
      <4>2. CASE thread[t].ring # Cmds
        BY <1>7, <4>2, Zenon
      <4> QED
        BY <4>1, <4>2
    <3>3. /\ rings'[thread[u].ring].over = rings[thread[u].ring].over
          /\ rings'[thread[u].ring].n = rings[thread[u].ring].n
      BY <1>5, <1>6, Zenon
    <3> QED
      BY <1>3, <3>1, <3>2, <3>3, Zenon
  <2> QED
    BY <2>1, <2>2
<1> QED
  BY <1>2, <1>8, <1>9, Zenon DEF RequestersInv

\* The interrupt pipe while nobody polls it.
LEMMA IntrSame ==
  ASSUME XhciInv, SameRings(rings, rings'), UNCHANGED <<hc, intr>>
  PROVE  IntrInv'
<1>1. rings'[Intr].n = rings[Intr].n /\ rings'[Intr].over = rings[Intr].over
  BY Zenon DEF SameRings, Rings
<1> QED
  BY <1>1, Zenon DEF XhciInv, IntrInv, ReportsInOrder, ReportOf

\* The threads while none of them does anything.
LEMMA ThreadsSame ==
  ASSUME XhciInv, UNCHANGED <<thread, lock>>,
         \A r \in Rings \ {Intr} : rings'[r].n = rings[r].n /\ rings'[r].over = rings[r].over
  PROVE  RequestersInv'
<1>1. \A u \in UsbThreads : thread[u].ring \in {u, Cmds}
  BY Zenon DEF XhciInv, RequestersInv
<1>2. \A u \in UsbThreads \cup {Cmds} : u \in Rings \ {Intr}
  BY XhciAssumption DEF Rings
<1>3. \A u \in UsbThreads : /\ rings'[thread[u].ring].over = rings[thread[u].ring].over
                            /\ rings'[thread[u].ring].n = rings[thread[u].ring].n
  BY <1>1, <1>2, Zenon
<1> QED
  BY <1>3, Zenon DEF XhciInv, RequestersInv

\* xhci_event_wait(): the result is that of the last TRB of the ring.
LEMMA WaitKeeps ==
  ASSUME XhciInv, NEW t \in UsbThreads, xhci_event_wait(t)
  PROVE  XhciInv'
<1> DEFINE r == thread[t].ring
<1>1. /\ RingsInv(rings, evts)' /\ SameRings(rings, rings')
      /\ hc' \in [Rings -> HcPosition] /\ er' \in HcEvents /\ hc' = hc
  BY Draining, Zenon DEF xhci_event_wait
<1>2. IntrInv'
  BY <1>1, IntrSame, Zenon DEF xhci_event_wait
<1>3. thread[t] \in XhciThread /\ r \in Rings /\ thread[t].pc = "wait"
      /\ thread[t].want = rings[r].n
  BY Zenon DEF xhci_event_wait, XhciInv, RequestersInv, XhciThread
<1>4. RequestersInv'
  <2>1. CASE xhci_ring_busy(rings'[r])
    BY <1>1, <2>1, ThreadsSame, Zenon DEF xhci_event_wait, SameRings
  <2>2. CASE ~xhci_ring_busy(rings'[r])
    <3> DEFINE e == rings'[r].evt
               w == [thread[t] EXCEPT !.pc = "idle", !.got = e.n, !.cc = e.cc]
    <3>1. thread' = [thread EXCEPT ![t] = w] /\ lock' = Unlocked(t)
      BY <2>2, Zenon DEF xhci_event_wait
    <3>2. rings'[r] \in XhciRing /\ hc'[r] \in HcPosition /\ RingTrue(rings'[r], hc'[r])
      BY <1>1, <1>3, Zenon DEF RingsInv
    <3>3. e.n \in Nat /\ e.cc \in {0, 1, 4}
      BY <3>2, Zenon DEF XhciRing, XhciEvent
    <3>4. rings'[r].n = rings[r].n /\ rings'[r].over = rings[r].over
      BY <1>1, <1>3, Zenon DEF SameRings
    <3> HIDE DEF e
    <3>5. /\ w \in XhciThread /\ w.pc = "idle" /\ w.ring = r /\ w.got = e.n
          /\ w.want = thread[t].want
      BY <1>3, <3>3 DEF XhciThread
    <3> HIDE DEF w, r
    <3>6. w.cc >= 0 /\ ~rings[w.ring].over => w.got = w.want
      BY <1>3, <2>2, <3>2, <3>4, <3>5, NotBusy, Zenon DEF e
    <3> QED
      BY <1>1, <1>3, <3>1, <3>5, <3>6, Returning, Zenon DEF r
  <2> QED
    BY <2>1, <2>2
<1> QED
  BY <1>1, <1>2, <1>4, Zenon DEF XhciInv

\* The same for a request that is given up, which has no result.
LEMMA TimeoutKeeps ==
  ASSUME XhciInv, NEW t \in UsbThreads, WaitTimesOut(t)
  PROVE  XhciInv'
<1>1. /\ RingsInv(rings, evts)' /\ SameRings(rings, rings')
      /\ hc' \in [Rings -> HcPosition] /\ er' \in HcEvents /\ hc' = hc
  BY Draining, Zenon DEF WaitTimesOut
<1>2. IntrInv'
  BY <1>1, IntrSame, Zenon DEF WaitTimesOut
<1>3. thread[t] \in XhciThread /\ thread[t].pc = "wait"
  BY Zenon DEF WaitTimesOut, XhciInv, RequestersInv
<1> DEFINE w == [thread[t] EXCEPT !.pc = "idle", !.got = 0, !.cc = -1, !.want = 0]
<1>4. thread' = [thread EXCEPT ![t] = w] /\ lock' = Unlocked(t)
  BY Zenon DEF WaitTimesOut
<1>5. w \in XhciThread /\ w.pc = "idle" /\ w.ring = thread[t].ring /\ ~(w.cc >= 0)
  <2> DEFINE c == -1
  <2>1. c \in {-1, 0, 1, 4} /\ ~(c >= 0)
    OBVIOUS
  <2> HIDE DEF c
  <2>2. w = [thread[t] EXCEPT !.pc = "idle", !.got = 0, !.cc = c, !.want = 0]
    BY Zenon DEF c
  <2>3. w \in XhciThread /\ w.pc = "idle" /\ w.ring = thread[t].ring /\ w.cc = c
    BY <1>3, <2>1, <2>2 DEF XhciThread
  <2> QED
    BY <2>1, <2>3
<1> HIDE DEF w
<1>6. RequestersInv'
  BY <1>1, <1>3, <1>4, <1>5, Returning, Zenon
<1> QED
  BY <1>1, <1>2, <1>6, Zenon DEF XhciInv

\* Once the ring of the interrupt pipe is empty, a transfer fits.
LEMMA PollQueues ==
  ASSUME XhciInv, NEW rs, NEW ev, RingsInv(rs, ev), SameRings(rings, rs),
         rs[Intr].evt.n = rs[Intr].n,
         rings' = Swapped(rs, Intr, xhci_xfer_normal(rs[Intr])), evts' = ev,
         UNCHANGED <<hc, er, thread, lock>>
  PROVE  /\ RingsInv(rings, evts)' /\ RequestersInv'
         /\ hc' \in [Rings -> HcPosition] /\ er' \in HcEvents
         /\ ~rings'[Intr].over /\ rings'[Intr].n = rings[Intr].n + 1
<1> DEFINE r == rs[Intr]
           q == xhci_xfer_normal(r)
<1>1. hc \in [Rings -> HcPosition] /\ er \in HcEvents /\ Intr \in Rings /\ ~rings[Intr].over
  BY Zenon DEF XhciInv, IntrInv, Rings
<1>2. rs \in [Rings -> XhciRing] /\ r \in XhciRing /\ RingFilled(r)
  BY <1>1, Zenon DEF RingsInv, RingTrue
<1>3. r.n = rings[Intr].n /\ ~r.over
  BY <1>1, Zenon DEF SameRings
<1>4. Grows(r, q)
  BY <1>2, TransferGrows, Zenon
<1>5. q.n = r.n + 1 /\ q.over = Overruns(r)
  BY <1>2, QueueFields, Zenon DEF xhci_xfer_normal
<1>6. ~Overruns(r)
  <2>1. r.n \in Nat /\ r.evt.n = r.n
    BY <1>2, Zenon DEF XhciRing
  <2>2. ~(r.n + 1 - r.evt.n >= XHCI_RING_ITEMS - 1)
    BY <2>1, XhciAssumption
  <2> QED
    BY <1>3, <2>2, Zenon DEF Overruns
<1> HIDE DEF q
<1>7. rings'[Intr] = q /\ \A x \in Rings \ {Intr} : rings'[x] = rs[x]
  BY <1>1, <1>2, Zenon DEF Swapped, q
<1>8. RingsInv(rings', ev)
  BY <1>1, <1>4, GrowKeeps, Zenon DEF q
<1>9. RingsInv(rings, evts)'
  BY <1>8, Zenon
    DEF RingsInv, EventsFilled, EventsTrue, EventsUpTo, Pending, Turn
<1>10. \A x \in Rings \ {Intr} :
         rings'[x].n = rings[x].n /\ rings'[x].over = rings[x].over
  BY <1>7, Zenon DEF SameRings
<1>11. RequestersInv'
  BY <1>10, ThreadsSame, Zenon
<1> QED
  BY <1>1, <1>3, <1>5, <1>6, <1>7, <1>9, <1>11, Zenon

\* xhci_poll_intr(): a report that is handed on is the one the device sent last, though
\* the transfer may have failed.
LEMMA PollKeeps ==
  ASSUME XhciInv, xhci_poll_intr
  PROVE  XhciInv'
<1>1. /\ intr \in [bufused : BOOLEAN, buf : Nat, sent : Nat, polls : Nat, data : Seq(Nat)]
      /\ ~rings[Intr].over
      /\ hc[Intr].n = IF hc[Intr].halted THEN intr.sent + 1 ELSE intr.sent
      /\ intr.buf = intr.sent /\ rings[Intr].n = intr.polls
      /\ intr.bufused <=> intr.polls > 0
      /\ Len(intr.data) = IF intr.polls = 0 THEN 0 ELSE intr.polls - 1
      /\ Len(intr.data) <= hc[Intr].n
      /\ \A i \in 1 .. Len(intr.data) : intr.data[i] = ReportOf(i)
  BY Zenon DEF XhciInv, IntrInv, ReportsInOrder
<1>2. intr.polls \in Nat /\ intr.data \in Seq(Nat) /\ intr.buf \in Nat
      /\ intr.bufused \in BOOLEAN /\ intr.sent \in Nat
  BY <1>1, Zenon
<1>3. Intr \in Rings /\ hc \in [Rings -> HcPosition] /\ er \in HcEvents
      /\ RingsInv(rings, evts) /\ UNCHANGED <<hc, er, thread, lock>>
  BY Zenon DEF Rings, XhciInv, xhci_poll_intr
<1>4. CASE intr.bufused /\ xhci_ring_busy(xhci_process_events.rings[Intr])
  <2>1. rings' = xhci_process_events.rings /\ evts' = xhci_process_events.evts
    BY <1>4, Zenon DEF xhci_poll_intr
  <2>2. /\ RingsInv(rings, evts)' /\ SameRings(rings, rings')
        /\ hc' \in [Rings -> HcPosition] /\ er' \in HcEvents
    BY <1>3, <2>1, Draining, Zenon
  <2>3. RequestersInv'
    BY <1>3, <2>2, ThreadsSame, Zenon DEF SameRings
  <2>4. rings'[Intr].n = rings[Intr].n /\ rings'[Intr].over = rings[Intr].over
    BY <1>3, <2>2, Zenon DEF SameRings
  <2>5. intr' = [intr EXCEPT !.bufused = TRUE, !.polls = intr.polls, !.data = intr.data]
    BY <1>4, Zenon DEF xhci_poll_intr
  <2>6. /\ intr' \in [bufused : BOOLEAN, buf : Nat, sent : Nat, polls : Nat, data : Seq(Nat)]
        /\ intr'.bufused /\ intr'.buf = intr.buf /\ intr'.sent = intr.sent
        /\ intr'.polls = intr.polls /\ intr'.data = intr.data
    BY <1>1, <1>2, <2>5, Zenon
  <2>7. IntrInv'
    BY <1>1, <1>3, <1>4, <2>4, <2>6, Zenon DEF IntrInv, ReportsInOrder, ReportOf
  <2> QED
    BY <2>2, <2>3, <2>7, Zenon DEF XhciInv
<1>5. CASE ~(intr.bufused /\ xhci_ring_busy(xhci_process_events.rings[Intr]))
  <2> DEFINE rs == IF intr.bufused THEN xhci_process_events.rings ELSE rings
             ev == IF intr.bufused THEN xhci_process_events.evts ELSE evts
             d == IF intr.bufused THEN Append(intr.data, intr.buf) ELSE intr.data
  <2>1. /\ rings' = Swapped(rs, Intr, xhci_xfer_normal(rs[Intr])) /\ evts' = ev
        /\ intr' = [intr EXCEPT !.bufused = TRUE, !.polls = intr.polls + 1, !.data = d]
    <3>1. CASE intr.bufused
      BY <1>5, <3>1, Zenon DEF xhci_poll_intr, Swapped
    <3>2. CASE ~intr.bufused
      <4>1. /\ [rings |-> rings, evts |-> evts].rings = rings
            /\ [rings |-> rings, evts |-> evts].evts = evts
        OBVIOUS
      <4> QED
        BY <3>2, <4>1, Zenon DEF xhci_poll_intr, Swapped
    <3> QED
      BY <3>1, <3>2
  <2>2. RingsInv(rs, ev) /\ SameRings(rings, rs)
    <3>1. CASE intr.bufused
      BY <1>3, <3>1, Drained, Zenon
    <3>2. CASE ~intr.bufused
      BY <1>3, <3>2, Zenon DEF SameRings
    <3> QED
      BY <3>1, <3>2
  <2>3. /\ rs[Intr] \in XhciRing /\ hc[Intr] \in HcPosition /\ RingTrue(rs[Intr], hc[Intr])
        /\ ~rs[Intr].over /\ rs[Intr].n = intr.polls
    <3> HIDE DEF rs, ev
    <3> QED
      BY <1>1, <1>3, <2>2, Zenon DEF RingsInv, SameRings
  <2>4. /\ rs[Intr].evt.n = rs[Intr].n
        /\ hc[Intr].n = intr.polls /\ (intr.bufused => intr.buf = ReportOf(intr.polls))
    <3>1. CASE intr.bufused
      <4>1. ~xhci_ring_busy(rs[Intr])
        BY <1>5, <3>1, Zenon
      <4> HIDE DEF rs
      <4>2. rs[Intr].evt.n = rs[Intr].n /\ hc[Intr].n = intr.polls
        BY <1>1, <2>3, <4>1, NotBusy, Zenon
      <4> QED
        BY <1>1, <1>2, <4>2 DEF ReportOf
    <3>2. CASE ~intr.bufused
      <4> HIDE DEF rs
      <4>1. rs[Intr].n = 0 /\ intr.polls = 0
        BY <1>1, <1>2, <2>3, <3>2
      <4>2. rs[Intr].evt.n <= hc[Intr].n /\ hc[Intr].n <= rs[Intr].n
        BY <2>3, Zenon DEF RingTrue, Follows
      <4>3. rs[Intr].evt.n \in Nat /\ hc[Intr].n \in Nat
        BY <2>3, Zenon DEF XhciRing, XhciEvent, HcPosition
      <4> QED
        BY <3>2, <4>1, <4>2, <4>3
    <3> QED
      BY <3>1, <3>2
  <2>5. d \in Seq(Nat) /\ Len(d) = intr.polls /\ \A i \in 1 .. Len(d) : d[i] = ReportOf(i)
    BY <1>1, <1>2, <2>4
  <2> HIDE DEF rs, ev, d
  <2>6. /\ RingsInv(rings, evts)' /\ RequestersInv'
        /\ hc' \in [Rings -> HcPosition] /\ er' \in HcEvents
        /\ ~rings'[Intr].over /\ rings'[Intr].n = rings[Intr].n + 1
    BY <1>3, <2>1, <2>2, <2>4, PollQueues, Zenon
  <2>7. intr.polls + 1 \in Nat /\ intr.polls + 1 > 0 /\ intr.polls + 1 # 0
        /\ intr.polls + 1 - 1 = intr.polls
    BY <1>2
  <2>8. /\ intr' \in [bufused : BOOLEAN, buf : Nat, sent : Nat, polls : Nat, data : Seq(Nat)]
        /\ intr'.bufused /\ intr'.buf = intr.buf /\ intr'.sent = intr.sent
        /\ intr'.polls = intr.polls + 1 /\ intr'.data = d
    BY <1>1, <1>2, <2>1, <2>5, <2>7, Zenon
  <2>9. IntrInv'
    <3>1. /\ hc'[Intr].n = IF hc'[Intr].halted THEN intr'.sent + 1 ELSE intr'.sent
          /\ intr'.buf = intr'.sent /\ rings'[Intr].n = intr'.polls
      BY <1>1, <1>3, <2>6, <2>8, Zenon
    <3>2. intr'.bufused <=> intr'.polls > 0
      BY <2>7, <2>8, Zenon
    <3>3. Len(intr'.data) = IF intr'.polls = 0 THEN 0 ELSE intr'.polls - 1
      <4>1. Len(intr'.data) = intr.polls
        BY <2>5, <2>8, Zenon
      <4> DEFINE m == intr.polls
      <4>2. m \in Nat /\ intr'.polls = m + 1 /\ Len(intr'.data) = m
        BY <1>2, <2>8, <4>1, Zenon
      <4>3. m \in Nat
        BY <4>2
      <4> HIDE DEF m
      <4>4. ASSUME NEW j, j = m + 1 PROVE j # 0 /\ j - 1 = m
        BY <4>3, <4>4
      <4>5. intr'.polls # 0 /\ intr'.polls - 1 = m
        BY <4>2, <4>4, Zenon
      <4> QED
        BY <4>2, <4>5, Zenon
    <3>4. ReportsInOrder'
      BY <1>3, <2>5, <2>8, Zenon DEF ReportsInOrder, ReportOf
    <3>5. Len(intr'.data) <= hc'[Intr].n
      BY <1>2, <1>3, <2>4, <2>5, <2>8
    <3> QED
      BY <2>6, <2>8, <3>1, <3>2, <3>3, <3>4, <3>5, Zenon DEF IntrInv
  <2> QED
    BY <2>6, <2>9, Zenon DEF XhciInv
<1> QED
  BY <1>4, <1>5

\* What the controller does on a ring, or with a port.
LEMMA CompletionKeeps ==
  ASSUME XhciInv, NEW x \in Rings, NEW ok \in BOOLEAN, TrbCompletes(x, ok)
  PROVE  XhciInv'
<1>1. /\ hc' \in [Rings -> HcPosition] /\ er' \in HcEvents /\ RingsInv(rings, evts)'
      /\ hc'[x].n = hc[x].n + 1 /\ (hc'[x].halted <=> ~ok /\ x # Cmds)
      /\ \A r \in Rings \ {x} : hc'[r] = hc[r]
  BY CompletesKeep, Zenon DEF XhciInv
<1>2. rings' = rings /\ lock' = lock /\ thread' = thread /\ Intr \in Rings /\ ~hc[x].halted
      /\ intr' = IF x = Intr /\ ok
                 THEN [intr EXCEPT !.buf = intr.sent + 1, !.sent = intr.sent + 1]
                 ELSE intr
  BY Zenon DEF TrbCompletes, Runs, Rings
<1>3. RequestersInv'
  BY <1>2, ThreadsSame, Zenon
<1>4. /\ intr \in [bufused : BOOLEAN, buf : Nat, sent : Nat, polls : Nat, data : Seq(Nat)]
      /\ ~rings[Intr].over
      /\ hc[Intr].n = IF hc[Intr].halted THEN intr.sent + 1 ELSE intr.sent
      /\ intr.buf = intr.sent /\ rings[Intr].n = intr.polls
      /\ intr.bufused <=> intr.polls > 0
      /\ Len(intr.data) = IF intr.polls = 0 THEN 0 ELSE intr.polls - 1
      /\ Len(intr.data) <= hc[Intr].n
      /\ \A i \in 1 .. Len(intr.data) : intr.data[i] = ReportOf(i)
  BY Zenon DEF XhciInv, IntrInv, ReportsInOrder
<1>5. IntrInv'
  <2>1. CASE x = Intr
    <3>1. intr.sent \in Nat /\ intr.sent + 1 \in Nat /\ Intr # Cmds
      BY <1>4, XhciAssumption
    <3>2. /\ intr' \in [bufused : BOOLEAN, buf : Nat, sent : Nat, polls : Nat,
                        data : Seq(Nat)]
          /\ intr'.sent = IF ok THEN intr.sent + 1 ELSE intr.sent
          /\ intr'.buf = intr'.sent
          /\ intr'.bufused = intr.bufused /\ intr'.polls = intr.polls
          /\ intr'.data = intr.data
      BY <1>2, <1>4, <2>1, <3>1, Zenon
    <3>3. hc[Intr].n = intr.sent /\ hc'[Intr].n = intr.sent + 1
          /\ (hc'[Intr].halted <=> ~ok)
      BY <1>1, <1>2, <1>4, <2>1, <3>1, Zenon
    <3>4. Len(intr.data) \in Nat /\ Len(intr.data) < hc'[Intr].n
      BY <1>4, <3>1, <3>3
    <3>5. hc'[Intr].n \in Nat /\ \A i \in 1 .. Len(intr.data) : i # hc'[Intr].n
      BY <3>1, <3>3, <3>4
    <3>6. \A i \in 1 .. Len(intr.data) : intr.data[i] = i
      BY <1>2, <1>4, <2>1, Zenon DEF ReportOf
    <3>7. ReportsInOrder'
      BY <3>2, <3>5, <3>6, Zenon DEF ReportsInOrder, ReportOf
    <3>8. Len(intr'.data) <= hc'[Intr].n
      BY <3>2, <3>4, <3>5
    <3> QED
      BY <1>1, <1>2, <1>4, <2>1, <3>2, <3>3, <3>7, <3>8, Zenon DEF IntrInv
  <2>2. CASE x # Intr
    BY <1>1, <1>2, <1>4, <2>2, Zenon DEF IntrInv, ReportsInOrder, ReportOf
  <2> QED
    BY <2>1, <2>2
<1> QED
  BY <1>1, <1>3, <1>5, Zenon DEF XhciInv

\* An event of a port is no ring's.
LEMMA PortKeeps ==
  ASSUME XhciInv, PortStatusChange
  PROVE  XhciInv'
<1> DEFINE e == [ring |-> "port", index |-> 0, n |-> 0, cc |-> 1, c |-> er.cs]
<1>1. /\ hc \in [Rings -> HcPosition] /\ er \in HcEvents /\ RingsInv(rings, evts)
      /\ rings' = rings /\ hc' = hc /\ UNCHANGED <<thread, lock, intr>>
  BY Zenon DEF XhciInv, PortStatusChange
<1>2. er.cs \in Bits
  BY <1>1, Zenon DEF HcEvents
<1>3. 0 \in 0 .. XHCI_RING_ITEMS - 2 /\ 0 \in Nat /\ 1 \in {0, 1, 4}
  BY XhciAssumption
<1>4. e \in XhciEvent /\ e.c = er.cs /\ e.ring = "port"
  BY <1>2, <1>3, Zenon DEF XhciEvent
<1>5. "port" \notin Rings
  BY XhciAssumption DEF Rings
<1>6. Posts(e)
  BY <1>4, Zenon DEF PortStatusChange, Posts
<1> HIDE DEF e
<1>7. IsNext(e, hc')
  BY <1>4, <1>5, Zenon DEF IsNext
<1>8. /\ rings \in [Rings -> XhciRing] /\ evts \in EventRing
      /\ EventsFilled(evts) /\ EventsUpTo(rings, evts, hc')
      /\ \A r \in Rings : RingTrue(rings[r], hc'[r])
  BY <1>1, Zenon DEF RingsInv, EventsTrue
<1>9. er' \in HcEvents /\ RingsInv(rings, evts)'
  BY <1>1, <1>6, <1>7, <1>8, EventPosted, Zenon
<1>10. SameRings(rings, rings')
  BY <1>1, Zenon DEF SameRings
<1>11. RequestersInv' /\ IntrInv'
  BY <1>1, <1>10, ThreadsSame, IntrSame, Zenon DEF SameRings
<1> QED
  BY <1>1, <1>9, <1>11, Zenon DEF XhciInv

\* The rings, the threads and the interrupt pipe are set up empty.
LEMMA XhciStarts == XhciInit => XhciInv
<1> SUFFICES ASSUME XhciInit PROVE XhciInv
  OBVIOUS
<1>1. XHCI_RING_ITEMS \in Nat /\ XHCI_RING_ITEMS >= 3 /\ Intr \in Rings /\ Cmds \in Rings
      /\ (\A t \in UsbThreads : t \in Rings) /\ Nobody \notin UsbThreads
  BY XhciAssumption DEF Rings, Nobody
<1> DEFINE r0 == [trbs |-> [i \in RingIndex |-> NoTrb], nidx |-> 0, eidx |-> 0,
                  cs |-> 1, evt |-> NoEvent, n |-> 0, over |-> FALSE]
           h0 == [deq |-> 0, cs |-> 1, n |-> 0, halted |-> FALSE]
           t0(t) == [pc |-> "idle", ring |-> t, want |-> 0, got |-> 0, cc |-> 0]
<1>2. 0 \in RingIndex /\ 0 \in Nat /\ 1 \in Bits /\ 0 \in Bits
      /\ 0 \in 0 .. XHCI_RING_ITEMS - 2
  BY <1>1 DEF RingIndex, Bits
<1>3. NoTrb \in Trb /\ NoTrb.kind = "none" /\ NoTrb.c = 0
  BY <1>2 DEF NoTrb, Trb
<1>4. NoEvent \in XhciEvent /\ NoEvent.n = 0 /\ NoEvent.c = 0
  BY <1>1, <1>2 DEF NoEvent, XhciEvent
<1>5. r0 \in XhciRing /\ h0 \in HcPosition
  <2>1. [i \in RingIndex |-> NoTrb] \in [RingIndex -> Trb]
    BY <1>3, Zenon
  <2> QED
    BY <1>2, <1>4, <2>1, Zenon DEF XhciRing, HcPosition
<1>6. /\ r0.nidx = 0 /\ r0.eidx = 0 /\ r0.cs = 1 /\ r0.evt = NoEvent /\ r0.n = 0
      /\ ~r0.over /\ h0.deq = 0 /\ h0.cs = 1 /\ h0.n = 0 /\ ~h0.halted
  BY Zenon
<1>7. \A i \in RingIndex : r0.trbs[i].kind = "none" /\ r0.trbs[i].c = 0
  BY <1>3, Zenon
<1> HIDE DEF r0, h0
<1>8. RingTrue(r0, h0)
  <2>1. XHCI_RING_ITEMS - 1 \in RingIndex
        /\ (\A i \in 0 .. XHCI_RING_ITEMS - 2 : i \in RingIndex)
    BY <1>1 DEF RingIndex
  <2>2. ~Linked(r0) /\ r0.trbs[XHCI_RING_ITEMS - 1].kind = "none"
        /\ r0.trbs[XHCI_RING_ITEMS - 1].c = 1 - r0.cs
    BY <1>6, <1>7, <2>1 DEF Linked, Link
  <2>3. r0.n >= r0.nidx /\ r0.n - r0.evt.n <= XHCI_RING_ITEMS - 2
    BY <1>1, <1>4, <1>6
  <2>4. ASSUME NEW i \in 0 .. XHCI_RING_ITEMS - 2
        PROVE  r0.trbs[i].kind # Link /\ ~(i < r0.nidx) /\ r0.trbs[i].c = 1 - r0.cs
    BY <1>1, <1>6, <1>7, <2>1 DEF Link
  <2>5. RingFilled(r0)
    BY <1>6, <2>2, <2>3, <2>4, Zenon DEF RingFilled
  <2>6. h0.cs # 0
    BY <1>6
  <2>7. r0.evt.n <= h0.n /\ h0.n <= r0.n /\ ~(h0.n > 0) /\ ~(r0.evt.n > 0)
    BY <1>4, <1>6
  <2>8. Follows(r0, h0)
    BY <1>6, <2>7, Zenon DEF Follows
  <2> QED
    BY <2>5, <2>6, <2>8, Zenon DEF RingTrue
<1>9. rings = [r \in Rings |-> r0] /\ hc = [r \in Rings |-> h0]
  BY Zenon DEF XhciInit, r0, h0
<1>10. rings \in [Rings -> XhciRing] /\ hc \in [Rings -> HcPosition]
       /\ \A r \in Rings : rings[r] = r0 /\ hc[r] = h0
  BY <1>5, <1>9, Zenon
<1>11. evts = [trbs |-> [i \in RingIndex |-> NoEvent], nidx |-> 0, cs |-> 1, taken |-> 0]
       /\ er = [enq |-> 0, cs |-> 1, posted |-> 0]
  BY Zenon DEF XhciInit
<1>12. evts \in EventRing /\ er \in HcEvents
  <2>1. [i \in RingIndex |-> NoEvent] \in [RingIndex -> XhciEvent]
    BY <1>4, Zenon
  <2> QED
    BY <1>2, <1>11, <2>1, Zenon DEF EventRing, HcEvents
<1>13. evts.nidx = 0 /\ evts.cs = 1 /\ evts.taken = 0 /\ er.enq = 0 /\ er.cs = 1
       /\ er.posted = 0 /\ \A i \in RingIndex : evts.trbs[i] = NoEvent
  BY <1>11, Zenon
<1>14. EventsFilled(evts)
  <2>1. \A i \in RingIndex : ~(i < er.enq) /\ evts.trbs[i].c = 1 - er.cs
    BY <1>1, <1>4, <1>13 DEF RingIndex
  <2>2. evts.taken <= er.posted /\ er.enq = evts.nidx + (er.posted - evts.taken)
    BY <1>13
  <2> QED
    BY <1>13, <2>1, <2>2, Zenon DEF EventsFilled
<1>15. EventsTrue(rings, evts)
  <2>1. \A i \in RingIndex : ~Pending(evts, i)
    BY <1>1, <1>13 DEF Pending, Turn, RingIndex
  <2> QED
    BY <2>1, Zenon DEF EventsTrue, EventsUpTo
<1>16. RingsInv(rings, evts)
  BY <1>8, <1>10, <1>12, <1>14, <1>15, Zenon DEF RingsInv
<1>17. thread = [t \in UsbThreads |-> t0(t)] /\ lock = Nobody
       /\ intr = [bufused |-> FALSE, buf |-> 0, sent |-> 0, polls |-> 0, data |-> <<>>]
  BY Zenon DEF XhciInit
<1>18. ASSUME NEW t \in UsbThreads
       PROVE  /\ t0(t) \in XhciThread /\ t0(t).pc = "idle" /\ t0(t).ring = t
              /\ t0(t).got = t0(t).want
  <2>1. 0 \in {-1, 0, 1, 4}
    OBVIOUS
  <2> QED
    BY <1>1, <1>2, <2>1, Zenon DEF XhciThread
<1> HIDE DEF t0
<1>19. thread \in [UsbThreads -> XhciThread] /\ \A t \in UsbThreads : thread[t] = t0(t)
  BY <1>17, <1>18, Zenon
<1>20. RequestersInv
  <2>1. "idle" # "wait"
    OBVIOUS
  <2> QED
    BY <1>1, <1>17, <1>18, <1>19, <2>1, Zenon DEF RequestersInv
<1>21. IntrInv
  <2>1. /\ <<>> \in Seq(Nat) /\ Len(<<>>) = 0 /\ (\A i \in 1 .. 0 : FALSE) /\ ~(0 > 0)
        /\ 0 <= 0
    OBVIOUS
  <2>2. /\ intr \in [bufused : BOOLEAN, buf : Nat, sent : Nat, polls : Nat,
                     data : Seq(Nat)]
        /\ ~intr.bufused /\ intr.buf = 0 /\ intr.sent = 0 /\ intr.polls = 0
        /\ intr.data = <<>>
    BY <1>2, <1>17, <2>1, Zenon
  <2> QED
    BY <1>1, <1>6, <1>10, <2>1, <2>2, Zenon DEF IntrInv, ReportsInOrder
<1> QED
  BY <1>10, <1>12, <1>16, <1>20, <1>21, Zenon DEF XhciInv

\* Every step keeps the rings, the threads and the interrupt pipe as they should be.
LEMMA XhciSteps == XhciInv /\ [XhciNext]_xhciVars => XhciInv'
<1> SUFFICES ASSUME XhciInv, [XhciNext]_xhciVars PROVE XhciInv'
  OBVIOUS
<1>1. ASSUME NEW t \in UsbThreads, xhci_send_pipe(t) PROVE XhciInv'
  <2>1. PICK q \in {xhci_xfer_normal(rings[t]), xhci_xfer_setup(rings[t], TRUE),
                    xhci_xfer_setup(rings[t], FALSE)} :
          rings' = [rings EXCEPT ![t] = q]
    BY <1>1, Zenon DEF xhci_send_pipe
  <2>2. t \in Rings
    BY Zenon DEF Rings
  <2>3. rings[t] \in XhciRing /\ RingFilled(rings[t])
    BY <2>2, Zenon DEF XhciInv, RingsInv, RingTrue
  <2>4. Grows(rings[t], q)
    BY <2>3, TransferGrows, Zenon
  <2>5. UNCHANGED <<evts, hc, er, intr>> /\ IdleThread(t) /\ Submitted(t, t) /\ lock' = lock
    BY <1>1, Zenon DEF xhci_send_pipe
  <2> QED
    BY <2>1, <2>4, <2>5, Submitting, Zenon
<1>2. ASSUME NEW t \in UsbThreads, xhci_cmd_submit(t) PROVE XhciInv'
  <2> DEFINE q == xhci_trb_queue(rings[Cmds], "ioc")
  <2>1. rings' = [rings EXCEPT ![Cmds] = q]
    BY <1>2, Zenon DEF xhci_cmd_submit
  <2>2. Cmds \in Rings /\ Cmds # t
    BY XhciAssumption DEF Rings
  <2>3. rings[Cmds] \in XhciRing /\ RingFilled(rings[Cmds])
    BY <2>2, Zenon DEF XhciInv, RingsInv, RingTrue
  <2>4. Grows(rings[Cmds], q)
    BY <2>3, QueueGrows, Zenon
  <2>5. /\ UNCHANGED <<evts, hc, er, intr>> /\ IdleThread(t) /\ Submitted(t, Cmds)
        /\ lock = Nobody /\ lock' = t
    BY <1>2, Zenon DEF xhci_cmd_submit
  <2> HIDE DEF q
  <2> QED
    BY <2>1, <2>2, <2>4, <2>5, Submitting, Zenon
<1>3. ASSUME NEW t \in UsbThreads, xhci_event_wait(t) PROVE XhciInv'
  BY <1>3, WaitKeeps, Zenon
<1>4. ASSUME NEW t \in UsbThreads, WaitTimesOut(t) PROVE XhciInv'
  BY <1>4, TimeoutKeeps, Zenon
<1>5. CASE xhci_poll_intr
  BY <1>5, PollKeeps, Zenon
<1>6. ASSUME NEW r \in Rings, NEW ok \in BOOLEAN, TrbCompletes(r, ok) PROVE XhciInv'
  BY <1>6, CompletionKeeps, Zenon
<1>7. CASE PortStatusChange
  BY <1>7, PortKeeps, Zenon
<1>8. CASE UNCHANGED xhciVars
  <2>1. /\ rings' = rings /\ evts' = evts /\ hc' = hc /\ er' = er /\ lock' = lock
        /\ thread' = thread /\ intr' = intr
    BY <1>8, Zenon DEF xhciVars
  <2>2. RingsInv(rings, evts)'
    BY <2>1, Zenon
      DEF XhciInv, RingsInv, EventsFilled, EventsTrue, EventsUpTo, Pending, Turn
  <2>3. SameRings(rings, rings')
    BY <2>1, Zenon DEF SameRings
  <2>4. RequestersInv' /\ IntrInv'
    BY <2>1, <2>3, ThreadsSame, IntrSame, Zenon DEF SameRings
  <2> QED
    BY <2>1, <2>2, <2>4, Zenon DEF XhciInv
<1> QED
  BY <1>1, <1>2, <1>3, <1>4, <1>5, <1>6, <1>7, <1>8, Zenon DEF XhciNext

\* The invariant says what RequestsServed asks.
LEMMA XhciAnswers == XhciInv => RequestsServed
<1> SUFFICES ASSUME XhciInv PROVE RequestsServed
  OBVIOUS
<1>1. /\ rings \in [Rings -> XhciRing] /\ hc \in [Rings -> HcPosition]
      /\ evts \in EventRing /\ er \in HcEvents /\ EventsFilled(evts)
      /\ \A r \in Rings : RingTrue(rings[r], hc[r])
  BY Zenon DEF XhciInv, RingsInv
<1>2. RingsTyped
  <2>1. \A r \in Rings : rings[r].nidx \in RingIndex /\ rings[r].eidx \in RingIndex
    BY <1>1, Zenon DEF XhciRing
  <2>2. evts.nidx \in RingIndex /\ lock \in UsbThreads \cup {Nobody}
    BY <1>1, Zenon DEF EventRing, XhciInv, RequestersInv
  <2> QED
    BY <2>1, <2>2, Zenon DEF RingsTyped, RingIndex
<1>3. EventsAgree
  <2>1. /\ evts.nidx \in RingIndex /\ evts.cs \in Bits /\ evts.taken \in Nat
        /\ er.enq \in RingIndex /\ er.cs \in Bits /\ er.posted \in Nat
    BY <1>1, Zenon DEF EventRing, HcEvents
  <2>2. /\ evts.taken <= er.posted
        /\ er.cs = evts.cs => er.enq = evts.nidx + (er.posted - evts.taken)
        /\ er.cs # evts.cs => /\ er.enq = evts.nidx + (er.posted - evts.taken)
                                           - XHCI_RING_ITEMS
                              /\ er.enq < evts.nidx
    BY <1>1, Zenon DEF EventsFilled
  <2>3. evts.trbs[evts.nidx].c = IF evts.nidx < er.enq THEN er.cs ELSE 1 - er.cs
    BY <1>1, <2>1, Zenon DEF EventsFilled
  <2> DEFINE a == evts.nidx
             b == er.enq
             x == evts.cs
             y == er.cs
             p == er.posted
             t == evts.taken
             c == evts.trbs[evts.nidx].c
  <2> HIDE DEF a, b, x, y, p, t, c
  <2>4. /\ a \in RingIndex /\ b \in RingIndex /\ x \in Bits /\ y \in Bits
        /\ p \in Nat /\ t \in Nat /\ t <= p
        /\ y = x => b = a + (p - t)
        /\ y # x => b = a + (p - t) - XHCI_RING_ITEMS /\ b < a
        /\ c = IF a < b THEN y ELSE 1 - y
    BY <2>1, <2>2, <2>3, Zenon DEF a, b, x, y, p, t, c
  <2>5. c = x <=> t < p
    BY <2>4, XhciAssumption DEF Bits, RingIndex
  <2> QED
    BY <2>5, Zenon DEF EventsAgree, c, x, t, p
<1>4. TrbsInOrder
  <2>1. ASSUME NEW r \in Rings, ~hc[r].halted, ~rings[r].over
        PROVE  /\ Runs(r) <=> hc[r].n < rings[r].n
               /\ Runs(r) => Current(r).n = hc[r].n + 1
    <3>1. rings[r] \in XhciRing /\ hc[r] \in HcPosition /\ RingTrue(rings[r], hc[r])
      BY <1>1, Zenon
    <3> DEFINE p == Position(r)
    <3>2. p = IF rings[r].trbs[hc[r].deq].kind = Link /\ rings[r].trbs[hc[r].deq].c = hc[r].cs
              THEN [deq |-> 0, cs |-> 1 - hc[r].cs]
              ELSE [deq |-> hc[r].deq, cs |-> hc[r].cs]
      BY Zenon DEF Position
    <3>3. Current(r) = rings[r].trbs[p.deq]
      BY Zenon DEF Current
    <3>4. Runs(r) <=> rings[r].trbs[p.deq].c = p.cs
      BY <2>1, <3>3, Zenon DEF Runs
    <3> HIDE DEF p
    <3>5. /\ rings[r].trbs[p.deq].c = p.cs <=> hc[r].n < rings[r].n
          /\ hc[r].n < rings[r].n => rings[r].trbs[p.deq].n = hc[r].n + 1
      <4> DEFINE a == rings[r]
                 h == hc[r]
      <4> HIDE DEF a, h
      <4>1. /\ a \in XhciRing /\ h \in HcPosition /\ RingTrue(a, h) /\ ~a.over
            /\ p = IF a.trbs[h.deq].kind = Link /\ a.trbs[h.deq].c = h.cs
                   THEN [deq |-> 0, cs |-> 1 - h.cs] ELSE [deq |-> h.deq, cs |-> h.cs]
        BY <2>1, <3>1, <3>2, Zenon DEF a, h
      <4>2. /\ a.trbs[p.deq].c = p.cs <=> h.n < a.n
            /\ h.n < a.n => /\ a.trbs[p.deq].n = h.n + 1
                            /\ p.deq + 1 = Behind(a, h.n + 1)
                            /\ p.cs = a.cs <=> a.n - (h.n + 1) < a.nidx
        BY <4>1, Finds
      <4> QED
        BY <4>2, Zenon DEF a, h
    <3> QED
      BY <3>3, <3>4, <3>5, Zenon
  <2> QED
    BY <2>1, Zenon DEF TrbsInOrder
<1>5. OwnResult
  BY Zenon DEF XhciInv, RequestersInv, OwnResult
<1>6. ReportsInOrder
  BY Zenon DEF XhciInv, IntrInv
<1> QED
  BY <1>2, <1>3, <1>4, <1>5, <1>6, Zenon DEF RequestsServed

\* For every number of threads and ring size, in every interleaving of the threads, the
\* timer interrupt and the controller: the driver sees an event exactly when there is
\* one, the controller finds every TRB once and in order, and whoever takes the events
\* off the ring, a request returns the completion code of its own last TRB.  Reports are
\* handed on once and in order up to the first transfer that fails; in its place the
\* report before is handed on again, and then no more (usb-xhci.c).
THEOREM RequestsKept == XhciSpec => []RequestsServed
<1>1. XhciSpec => []XhciInv
  BY XhciStarts, XhciSteps, PTL DEF XhciSpec
<1> QED
  BY <1>1, XhciAnswers, PTL

=============================================================================
