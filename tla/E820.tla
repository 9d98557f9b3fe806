-------------------------------- MODULE E820 --------------------------------
(***************************************************************************)
(* The list behind the int 15 e820 memory map (src/e820map.c): a bounded   *)
(* array of ranges that e820_add() keeps sorted, disjoint and merged.      *)
(*                                                                         *)
(* e820_add()'s two loops are written as the position where each stops.    *)
(***************************************************************************)
EXTENDS Naturals, Sequences

CONSTANTS
  Top,             \* bound: ranges lie in 0 .. Top
  Type,            \* E820_RAM, E820_RESERVED, ...
  E820_HOLE,       \* the pseudo type of e820_remove()
  BUILD_MAX_E820   \* size of e820_list

ASSUME E820Assumption ==
  /\ Top \in Nat
  /\ E820_HOLE \notin Type
  /\ BUILD_MAX_E820 \in Nat \ {0}

VARIABLE e820_list   \* the first e820_count entries of the array

Entry == [start : 0 .. Top, size : 0 .. Top, type : Type]

TypeOK ==
  /\ e820_list \in Seq(Entry)
  /\ Len(e820_list) <= BUILD_MAX_E820

End(e) == e.start + e.size

----------------------------------------------------------------------------

\* Remove the entries i .. k-1.
remove_e820(l, i, k) == SubSeq(l, 1, i - 1) \o SubSeq(l, k, Len(l))

\* Insert at position i; a full list drops the new entry (warn_noalloc).
insert_e820(l, i, start, size, type) ==
  IF Len(l) >= BUILD_MAX_E820
  THEN l
  ELSE SubSeq(l, 1, i - 1)
         \o <<[start |-> start, size |-> size, type |-> type]>>
         \o SubSeq(l, i, Len(l))

\* Where a loop that starts at position i and stops at the positions in found
\* ends: behind the list if there is none.
StopsAt(l, i, found) ==
  CASE found # {} -> CHOOSE k \in found : \A m \in found : k <= m
    [] i > Len(l) -> i
    [] OTHER      -> Len(l) + 1

\* The first entry that does not end before start.
FirstReaching(l, start) ==
  StopsAt(l, 1, {k \in 1 .. Len(l) : start <= End(l[k])})

\* The first entry from position i on that end does not cover.
FirstBeyond(l, i, end) ==
  StopsAt(l, i, {k \in i .. Len(l) : end < l[k].start \/ end < End(l[k])})

\* Deviation: the tail of a split entry gets the type of the new range.
PlaceTailMistyped(l, start, size, type) ==
  LET i == FirstReaching(l, start)
      e == l[i]
      cut == [l EXCEPT ![i].size = start - e.start]
      end == start + size
  IN  IF i > Len(l) \/ start <= e.start
      THEN [list |-> l, pos |-> i, start |-> start, size |-> size]
      ELSE IF e.type = type
      THEN [list |-> l, pos |-> i, start |-> e.start,
            size |-> size + (start - e.start)]
      ELSE [list  |-> IF End(e) > end
                      THEN insert_e820(cut, i + 1, end, End(e) - end, type) ELSE cut,
            pos |-> i + 1, start |-> start, size |-> size]

\* First loop: where the new range goes, after splitting the entry it begins
\* in.  A same-typed entry on its left becomes part of it.
Place(l, start, size, type) ==
  LET i == FirstReaching(l, start)
      e == l[i]
  IN  IF i > Len(l) \/ start <= e.start
      THEN [list |-> l, pos |-> i, start |-> start, size |-> size]
      ELSE IF e.type = type
      THEN [list |-> l, pos |-> i, start |-> e.start,
            size |-> size + (start - e.start)]
      ELSE LET cut == [l EXCEPT ![i].size = start - e.start]
               end == start + size
           IN  [list  |-> IF End(e) > end
                          THEN insert_e820(cut, i + 1, end, End(e) - end, e.type)
                          ELSE cut,
                pos   |-> i + 1,
                start |-> start,
                size  |-> size]

\* Second loop: remove the entries the range covers and trim the one it ends
\* in, which becomes part of it if the types agree.
Absorb(p, end, type) ==
  LET k == FirstBeyond(p.list, p.pos, end)
      l == remove_e820(p.list, p.pos, k)
      e == l[p.pos]
  IN  IF p.pos > Len(l) \/ end < e.start
      THEN [p EXCEPT !.list = l]
      ELSE IF e.type = type
      THEN [p EXCEPT !.list = remove_e820(l, p.pos, p.pos + 1),
                     !.size = @ + (End(e) - end)]
      ELSE [p EXCEPT !.list = [l EXCEPT ![p.pos] =
              [e EXCEPT !.start = end, !.size = End(e) - end]]]

\* The list e820_add() leaves behind.
Added(l, start, size, type) ==
  LET p == Absorb(Place(l, start, size, type), start + size, type)
  IN  IF size = 0 THEN l
      ELSE IF type = E820_HOLE THEN p.list
      ELSE insert_e820(p.list, p.pos, p.start, p.size, type)

----------------------------------------------------------------------------

Init == e820_list = <<>>

e820_add(start, size, type) ==
  /\ start + size <= Top
  /\ e820_list' = Added(e820_list, start, size, type)

e820_remove(start, size) == e820_add(start, size, E820_HOLE)

Next ==
  \E start \in 0 .. Top - 1, size \in 0 .. Top :
    \/ \E type \in Type : e820_add(start, size, type)
    \/ e820_remove(start, size)

Spec == Init /\ [][Next]_e820_list

----------------------------------------------------------------------------

\* The entries are in order of address, none is empty and no two share an
\* address.
SortedDisjoint ==
  \A i \in 1 .. Len(e820_list) :
    /\ e820_list[i].size > 0
    /\ \A k \in i + 1 .. Len(e820_list) : End(e820_list[i]) <= e820_list[k].start

\* Neighbours of one type are one entry.
Merged ==
  \A i \in 1 .. Len(e820_list) - 1 :
    LET e == e820_list[i]
        f == e820_list[i + 1]
    IN  End(e) = f.start => e.type # f.type

\* e820_add()'s comment: it "scans for overlaps and keeps the list sorted".
\* The list is the one with the fewest entries for the map it describes, a
\* full list included: sorted, without overlap, and with nothing left to merge.
Canonical == TypeOK /\ SortedDisjoint /\ Merged

\* What the list says of an address.
TypeAt(l, a) ==
  LET covering == {i \in 1 .. Len(l) : l[i].start <= a /\ a < End(l[i])}
  IN  IF covering = {} THEN E820_HOLE
      ELSE l[CHOOSE i \in covering : \A k \in covering : i <= k].type

\* What every possible call would make of the type of an address.
AfterAdd(start, size, type, a) == TypeAt(Added(e820_list, start, size, type), a)

\* What it should make of it.
Described(start, size, type, a) ==
  IF start <= a /\ a < start + size THEN type ELSE TypeAt(e820_list, a)

\* The list is the memory map that was described.  Whatever list a sequence
\* of calls has led to, one more e820_add() or e820_remove() gives exactly the
\* addresses of its range the new type and leaves all others alone.  Only when
\* the array is full are ranges forgotten, and even then no address gets a
\* type nobody asked for: reserved memory does not become RAM.
DescribesExactly ==
  \A start \in 0 .. Top - 1, size \in 0 .. Top, type \in Type \cup {E820_HOLE} :
    start + size <= Top =>
      \A a \in 0 .. Top - 1 :
        \/ AfterAdd(start, size, type, a) = Described(start, size, type, a)
        \/ /\ Len(e820_list) + 2 > BUILD_MAX_E820
           /\ AfterAdd(start, size, type, a) = E820_HOLE

============================================================================
