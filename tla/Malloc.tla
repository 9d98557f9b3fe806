------------------------------- MODULE Malloc -------------------------------
(***************************************************************************)
(* Memory allocation during POST: the zones of src/malloc.c, the PMM calls *)
(* of src/pmm.c that option roms make, and the option rom area they share  *)
(* with ZoneLow.                                                           *)
(*                                                                         *)
(* A zone is a list of ranges from high to low addresses.  Each range has  *)
(* the size in use at its start; the space behind is free and alloc_new()  *)
(* cuts the next allocation from its end.  A range is described by a       *)
(* struct allocinfo_s which lies, as its own allocation, in ZoneTmpHigh or *)
(* ZoneTmpLow; "at" is its address.                                        *)
(*                                                                         *)
(* The functions of malloc.c are operators on a record of the memory's     *)
(* state, so that a handler which makes several calls is one action.       *)
(***************************************************************************)
EXTENDS Integers, Sequences, FiniteSets, FiniteSetsExt

CONSTANTS
  Word,             \* 2^32: u32 arithmetic is modulo Word
  SegWord,          \* 2^20: what the u16 segment ebda_seg can address
  KbWord,           \* 2^26: what the u16 mem_size_kb can count
  MinAlign,         \* MALLOC_MIN_ALIGN
  DetailSize,       \* sizeof(struct allocdetail_s)
  DataOff,          \* offsetof(struct allocdetail_s, datainfo)
  PageSize,         \* PAGE_SIZE
  Kb,               \* 1024
  RomAlign,         \* OPTION_ROM_ALIGN
  HeaderReserve,    \* OPROM_HEADER_RESERVE
  Layouts,          \* bound: builds with CONFIG_MALLOC_UPPERMEMORY (upper) or
                    \* without, the addresses of their config.h and linker
                    \* script, the (zone, size, align) asked for by drivers
                    \* (requests), the sizes asked for through PMM (pmm) and
                    \* the sizes of option roms (roms)
  Handles,          \* bound: handles given to PMM
  DefaultHandle     \* MALLOC_DEFAULT_HANDLE

ASSUME MallocAssumption ==
  /\ {DetailSize, DataOff, PageSize, Kb, RomAlign} \subseteq Nat \ {0}
  /\ MinAlign \in {1, 2, 4, 8, 16, 32}
  /\ {Word, SegWord, KbWord, HeaderReserve} \subseteq Nat
  /\ DataOff < DetailSize /\ DetailSize + MinAlign <= Word /\ 2 * MinAlign <= Word
  /\ DefaultHandle \notin Handles

VARIABLES
  Layout,    \* the build and the machine: one of Layouts
  zones,     \* the lists of ranges
  handle,    \* the handle in each struct allocdetail_s, by its address
  ebda,      \* address of the EBDA
  lowram,    \* BDA mem_size_kb, in bytes
  RomEnd,    \* end of the last confirmed option rom
  running,   \* size of the option rom that is reserved and not confirmed
  romowned,  \* base memory an option rom has taken for itself
  ram,       \* the addresses the e820 map calls RAM
  permtmp,   \* PMM's permanent blocks that were taken from ZoneTmpHigh
  named,     \* the handles of PMM's blocks, as their callers know them
  booted,    \* malloc_prepboot() has run
  overdrawn  \* history: zonelow_expand() has moved the EBDA for a request that
             \* the memory below it is too small for

vars == <<Layout, zones, handle, ebda, lowram, RomEnd, running, romowned, ram, permtmp,
          named, booted, overdrawn>>

UPPERMEMORY == Layout.upper

Zone == {"TmpLow", "Low", "FSeg", "TmpHigh", "High"}
Zones == <<"TmpLow", "Low", "FSeg", "TmpHigh", "High">>

\* tempdetail on the caller's stack, below all zones.
TempDetail == 0
TempData == 1

Address == 2 .. Layout.top

\* Between two calls no list holds a node on a caller's stack.
Info == [start : Address, end : Address, size : 0 .. Layout.top, at : Address]

TypeOK ==
  /\ Layout \in Layouts
  /\ zones \in [Zone -> Seq(Info)]
  /\ DOMAIN handle \subseteq Address
  /\ \A d \in DOMAIN handle : handle[d] \in Handles \cup {DefaultHandle}
  /\ ebda \in Address
  /\ lowram \in Address
  /\ RomEnd \in Address
  /\ running \in Nat
  /\ romowned \subseteq Address
  /\ ram \subseteq Address
  /\ permtmp \subseteq Address
  /\ {booted, overdrawn} \subseteq BOOLEAN

\* The bytes of the ranges of list l.
Covered(l) == UNION {l[i].start .. l[i].end - 1 : i \in DOMAIN l}

ALIGN_DOWN(x, a) == x - (x % a)
ALIGN(x, a) == ALIGN_DOWN(x + a - 1, a)
Bytes(start, size) == start .. start + size - 1

----------------------------------------------------------------------------
(* Low-level reservations.  l is a zone's list.                            *)

\* Where alloc_new() would cut the space from the end of range e.
Cut(e, size, align) == ALIGN_DOWN((e.end - size) % Word, align)

\* Deviation: the space in use in the range is overlooked.
FitsAnywhere(e, size, align) ==
  Cut(e, size, align) >= e.start /\ Cut(e, size, align) <= e.end

Fits(e, size, align) ==
  Cut(e, size, align) >= e.start + e.size /\ Cut(e, size, align) <= e.end

\* Range i of l gives away its end from n on.
TakeFrom(l, i, n, size, fill) ==
  [list |-> SubSeq(l, 1, i - 1)
              \o <<[start |-> n, end |-> l[i].end, size |-> size, at |-> fill],
                   [l[i] EXCEPT !.end = n]>>
              \o SubSeq(l, i + 1, Len(l)),
   data |-> n]

\* The first range with room gives away its end; 0 if there is none.
alloc_new(l, size, align, fill) ==
  LET fitting == {i \in 1 .. Len(l) : Fits(l[i], size, align)}
  IN  IF fitting = {} THEN [list |-> l, data |-> 0]
      ELSE TakeFrom(l, Min(fitting), Cut(l[Min(fitting)], size, align), size, fill)

\* hlist_replace() of the temporary nodes by those in the detail at d.
Settle(zs, d) ==
  [z \in Zone |-> [i \in DOMAIN zs[z] |->
    IF zs[z][i].at = TempDetail THEN [zs[z][i] EXCEPT !.at = d]
    ELSE IF zs[z][i].at = TempData THEN [zs[z][i] EXCEPT !.at = d + DataOff]
    ELSE zs[z][i]]]

\* The reservation r of bookkeeping in zone z, taken into the zones.
Described(zs, z, r) ==
  [zones |-> Settle([zs EXCEPT ![z] = r.list], r.data), data |-> r.data]

FirstDescribed(zs, high, low) ==
  CASE high.data # 0 -> Described(zs, "TmpHigh", high)
    [] high.data = 0 /\ low.data # 0 -> Described(zs, "TmpLow", low)
    [] OTHER -> [zones |-> zs, data |-> 0]

\* Reserve the bookkeeping for the range at TempData.
alloc_new_detail(zs) ==
  FirstDescribed(zs, alloc_new(zs["TmpHigh"], DetailSize, MinAlign, TempDetail),
                 alloc_new(zs["TmpLow"], DetailSize, MinAlign, TempDetail))

\* Deviation: the space is not given back to the range below.
alloc_free_lossy(l, at) == SelectSeq(l, LAMBDA e : e.at # at)

\* Release the range described at "at" to the next one of the list.
alloc_free(l, at) ==
  LET i == CHOOSE k \in 1 .. Len(l) : l[k].at = at
      given == IF i < Len(l) /\ l[i + 1].end = l[i].start
               THEN [l EXCEPT ![i + 1].end = l[i].end] ELSE l
  IN  IF \A k \in 1 .. Len(l) : l[k].at # at THEN l
      ELSE SubSeq(given, 1, i - 1) \o SubSeq(given, i + 1, Len(l))

FreeIn(zs, at) == [z \in Zone |-> alloc_free(zs[z], at)]

\* The place of the first range of l that begins below start.
FirstBelow(l, start) ==
  Min({i \in DOMAIN l : l[i].start < start} \cup {Len(l) + 1})

\* A list with the range start .. end put before the first lower one.
InsertRange(l, start, end) ==
  SubSeq(l, 1, FirstBelow(l, start) - 1)
    \o <<[start |-> start, end |-> end, size |-> 0, at |-> TempData]>>
    \o SubSeq(l, FirstBelow(l, start), Len(l))

\* m with the bookkeeping d, which has no handle yet.
WithDetail(m, d) ==
  [m EXCEPT !.zones = d.zones,
            !.handle = [a \in DOMAIN @ \cup {d.data} |->
                          IF a = d.data THEN DefaultHandle ELSE @[a]]]

AddedWith(m, d) == IF d.data = 0 THEN m ELSE WithDetail(m, d)

\* Add memory to zone z; without room for its bookkeeping nothing is added.
alloc_add(m, z, start, end) ==
  AddedWith(m, alloc_new_detail([m.zones EXCEPT ![z] = InsertRange(@, start, end)]))

Ranges(zs) == UNION {{zs[z][i] : i \in DOMAIN zs[z]} : z \in Zone}

\* The first of the ranges in S that a search through Zones meets.
FirstOf(zs, S) ==
  LET places(n) == {i \in DOMAIN zs[Zones[n]] : zs[Zones[n]][i] \in S}
      n == Min({k \in DOMAIN Zones : places(k) # {}})
  IN  zs[Zones[n]][Min(places(n))]

StartsAt(zs, data) == {e \in Ranges(zs) : e.start = data}

\* The first range of any zone that begins at data.
alloc_find(zs, data) == FirstOf(zs, StartsAt(zs, data))

\* What malloc_pfree() and malloc_sethandle() accept: the start of a range in
\* use that is not a detail (a detail's first member describes itself).
Known(zs, data) ==
  /\ StartsAt(zs, data) # {}
  /\ data # alloc_find(zs, data).at
  /\ alloc_find(zs, data).size # 0

\* container_of(info, struct allocdetail_s, datainfo)
DetailOf(zs, data) == alloc_find(zs, data).at - DataOff

----------------------------------------------------------------------------
(* Growing ZoneLow at the expense of the EBDA.                             *)

\* Deviation: all of base memory is taken to be free below the EBDA's end.
EbdaAtEnd(m) == TRUE

\* relocate_ebda() gives up when the EBDA is not at the end of base memory.
EbdaMovable(m) == m.ebda = m.lowram

LowestLow(m) == m.zones["Low"][Len(m.zones["Low"])]
EbdaEnd(m) == m.ebda + Layout.ebdasize

\* Is the EBDA directly below the space in use in the lowest range?
EbdaAdjoins(m) == EbdaEnd(m) = LowestLow(m).start + LowestLow(m).size

\* What the new space is cut from.
NewTop(m) == IF EbdaAdjoins(m) THEN LowestLow(m).end ELSE EbdaEnd(m)

NewBottom(m, size, align) ==
  ALIGN_DOWN(ALIGN_DOWN((NewTop(m) - size) % Word, align), Kb)

NewEbda(bottom) == ALIGN_DOWN((bottom - Layout.ebdasize) % Word, Kb)

\* relocate_ebda() and the new space from bottom on.
Grown(m, bottom) ==
  LET moved == [m EXCEPT !.ebda = NewEbda(bottom) % SegWord,
                         !.lowram = NewEbda(bottom) % KbWord]
  IN  IF EbdaAdjoins(m)
      THEN [moved EXCEPT !.zones["Low"][Len(m.zones["Low"])].start = bottom]
      ELSE alloc_add(moved, "Low", bottom, EbdaEnd(m))

\* The reservation r in zone z of m, not yet described.
Reserved(m, z, r) == [m |-> [m EXCEPT !.zones[z] = r.list], data |-> r.data]

ReserveIn(m, z, size, align) ==
  Reserved(m, z, alloc_new(m.zones[z], size, align, TempData))

Failed(m) == [m |-> m, data |-> 0]

\* Make room for the request at the expense of the EBDA; 0 without space, or
\* when the EBDA is not at the end of base memory.  (A thread waits with this
\* while an option rom runs: see Threads.)
zonelow_expand(m, size, align) ==
  CASE m.zones["Low"] = <<>> -> Failed(m)
    [] m.zones["Low"] # <<>> /\ Fits(LowestLow(m), size, align) ->
         ReserveIn(m, "Low", size, align)
    [] OTHER ->
         IF NewEbda(NewBottom(m, size, align)) < Layout.ebdaminimum \/ ~EbdaMovable(m)
         THEN Failed(m)
         ELSE ReserveIn(Grown(m, NewBottom(m, size, align)), "Low", size, align)

\* zonelow_expand() will move the EBDA although there is not as much memory
\* below it: one of its subtractions passes zero, and what they leave is not
\* below ebdaminimum.
Overdraws(m, z, size, align) ==
  /\ z = "Low" /\ ~UPPERMEMORY /\ size # 0
  /\ m.zones["Low"] # <<>> /\ ReserveIn(m, z, size, align).data = 0
  /\ ~(NewEbda(NewBottom(m, size, align)) < Layout.ebdaminimum) /\ EbdaMovable(m)
  /\ NewTop(m) < size \/ NewBottom(m, size, align) < Layout.ebdasize

----------------------------------------------------------------------------
(* Tracked allocations.                                                    *)

\* alloc_new(), or zonelow_expand() if that fails.
Reservation(m, z, size, align, r) ==
  IF r.data = 0 /\ ~UPPERMEMORY /\ z = "Low" THEN zonelow_expand(m, size, align) ELSE r

\* Reservation r with its bookkeeping d, or undone.
Track(r, d) ==
  IF d.data = 0 THEN Failed([r.m EXCEPT !.zones = FreeIn(@, TempData)])
  ELSE [r EXCEPT !.m = WithDetail(@, d)]

TrackIfAny(r) == IF r.data = 0 THEN r ELSE Track(r, alloc_new_detail(r.m.zones))

malloc_palloc(m, z, size, align) ==
  IF size = 0 THEN Failed(m)
  ELSE TrackIfAny(Reservation(m, z, size, align, ReserveIn(m, z, size, align)))

malloc_pfree(m, data) ==
  LET d == DetailOf(m.zones, data)
  IN  [m EXCEPT !.zones = FreeIn(FreeIn(@, d + DataOff), d),
                !.handle = [a \in DOMAIN @ \ {d} |-> @[a]]]

malloc_sethandle(m, data, h) ==
  IF Known(m.zones, data)
  THEN [m EXCEPT !.handle[DetailOf(m.zones, data)] = h] ELSE m

\* The free space in a zone, less the bookkeeping if that comes from it too.
malloc_getspace(zs, z) ==
  LET maxspace == Max({zs[z][i].end - zs[z][i].start - zs[z][i].size :
                         i \in DOMAIN zs[z]} \cup {0})
      reserve == ALIGN(DetailSize, MinAlign)
  IN  IF z \notin {"TmpHigh", "TmpLow"} THEN maxspace
      ELSE IF maxspace <= reserve THEN 0 ELSE maxspace - reserve

\* A detail's own range, or any range that looks like one.
IsDetail(e) == e.start = e.at

\* The details with handle h.
WithHandle(zs, hs, h) == {e \in Ranges(zs) : IsDetail(e) /\ hs[e.at] = h}

\* Deviation: the address of the detail is taken for that of the data.
malloc_findhandle_detail(zs, hs, h) ==
  IF WithHandle(zs, hs, h) = {} THEN 0 ELSE FirstOf(zs, WithHandle(zs, hs, h)).start

\* The data of the first detail with handle h.
malloc_findhandle(zs, hs, h) ==
  LET d == FirstOf(zs, WithHandle(zs, hs, h)).at
  IN  IF WithHandle(zs, hs, h) = {} THEN 0
      ELSE (CHOOSE e \in Ranges(zs) : e.at = d + DataOff).start

----------------------------------------------------------------------------
(* 0xc0000-0xf0000 management.                                             *)

\* RomBase: the lowest range of ZoneLow, found once by malloc_init().
rom_get_max(zs) ==
  IF UPPERMEMORY
  THEN ALIGN_DOWN(zs["Low"][Len(zs["Low"])].end - HeaderReserve, RomAlign)
  ELSE Layout.readonly

RoomForRom(zs, newend) == newend <= rom_get_max(zs)

\* Push RomBase up behind the rom that is to end at newend.
rom_reserve(zs, newend) ==
  LET l == zs["Low"]
      top == IF newend < Layout.zonelow THEN Layout.zonelow ELSE newend
  IN  IF UPPERMEMORY
      THEN [zs EXCEPT !["Low"][Len(l)].start = top + HeaderReserve]
      ELSE zs

----------------------------------------------------------------------------
(* Setup.                                                                  *)

\* malloc_preinit(): the ram ranges from the highest on; the first one that
\* is large enough gives ZoneHigh its end.
NewEnd(l, i) ==
  ALIGN_DOWN((l.ram[i].end - l.hightable) % Word, MinAlign)

HighRam(l) ==
  LET fitting == {i \in DOMAIN l.ram :
                    NewEnd(l, i) <= l.ram[i].end /\ NewEnd(l, i) >= l.ram[i].start}
  IN  IF fitting = {} THEN 0 ELSE Min(fitting)

Memory(z, s, e) == [zone |-> z, start |-> s, end |-> e]

TmpHighRegions(l) ==
  [i \in DOMAIN l.ram |->
     Memory("TmpHigh", l.ram[i].start,
            IF i = HighRam(l) THEN NewEnd(l, i) ELSE l.ram[i].end)]

HighRegions(l) ==
  IF HighRam(l) = 0 THEN <<>>
  ELSE <<Memory("High", NewEnd(l, HighRam(l)), NewEnd(l, HighRam(l)) + l.hightable)>>

LowStart(l) == IF l.upper THEN l.zonelow + HeaderReserve ELSE ALIGN_DOWN(l.varlow, Kb)

\* What malloc_preinit() and malloc_init() give to the zones, in this order.
Regions(l) ==
  TmpHighRegions(l)
    \o <<Memory("TmpLow", l.tmplow.start, l.tmplow.end)>>
    \o HighRegions(l)
    \o <<Memory("Low", LowStart(l), l.varlow),
         Memory("FSeg", l.fseg.start, l.fseg.end)>>

\* bda_init(): the EBDA is below the low variables or at the end of base
\* memory.
FirstEbda(l) == (IF l.upper THEN l.lowramend ELSE LowStart(l)) - l.ebdasize

Empty(l) ==
  [zones |-> [z \in Zone |-> <<>>], handle |-> [d \in {} |-> DefaultHandle],
   ebda |-> FirstEbda(l), lowram |-> FirstEbda(l)]

\* The memory after each of the regions.
Setups(l) ==
  LET f[i \in 0 .. Len(Regions(l))] ==
        IF i = 0 THEN Empty(l)
        ELSE alloc_add(f[i - 1], Regions(l)[i].zone, Regions(l)[i].start, Regions(l)[i].end)
  IN  f

Setup(l) == Setups(l)[Len(Regions(l))]

\* The order of what lies in memory: e820 RAM above the f-segment, from the
\* highest on; base memory below it, with the EBDA between the low zones.
AddressesInOrder(l) ==
  /\ l.ram \in Seq([start : 2 .. l.top, end : 2 .. l.top])
  /\ \A i \in DOMAIN l.ram : l.fseg.end <= l.ram[i].start /\ l.ram[i].start <= l.ram[i].end
  /\ \A i, k \in DOMAIN l.ram : i < k => l.ram[k].end <= l.ram[i].start
  /\ l.tmplow.start <= l.tmplow.end /\ l.tmplow.end <= l.ebdaminimum
  /\ l.ebdaminimum <= FirstEbda(l)
  /\ IF l.upper THEN l.lowramend <= l.zonelow /\ l.romstart <= l.zonelow
     ELSE l.varlow <= l.lowramend
  /\ LowStart(l) <= l.varlow
  /\ l.varlow <= l.fseg.start /\ l.fseg.start <= l.fseg.end

\* What a layout tells of the machine can be addressed.
Addressable(l) ==
  /\ l.upper \in BOOLEAN
  /\ l.top \in Nat /\ l.top < Word
  /\ l.lowramend <= SegWord /\ l.lowramend <= KbWord
  /\ {l.ebdasize, l.hightable} \subseteq Nat
  /\ l.hightable + MinAlign <= Word
  /\ {l.tmplow.start, l.tmplow.end, l.ebdaminimum, l.lowramend, l.romstart, l.zonelow,
      l.varlow, l.readonly, l.fseg.start, l.fseg.end} \subseteq 2 .. l.top

\* What drivers ask for is below 4G with its alignment, a multiple of
\* MALLOC_MIN_ALIGN; what PMM's callers ask for is what handle_pmm00() lets
\* pass, a positive s32.
Askable(size, align) ==
  /\ size \in Nat /\ align \in Nat \ {0} /\ align % MinAlign = 0
  /\ size + align <= Word

SizesAskable(l) ==
  /\ \A r \in l.requests : r.zone \in Zone /\ Askable(r.size, r.align)
  /\ \A size \in l.pmm : size \in Nat \ {0} /\ 2 * size < Word
  /\ l.roms \subseteq Nat

\* There is room for the bookkeeping of all that the zones are given.
FindsRoom(l) == \A i \in 1 .. Len(Regions(l)) : Setups(l)[i] # Setups(l)[i - 1]

ASSUME LayoutsAssumption ==
  \A l \in Layouts :
    Addressable(l) /\ AddressesInOrder(l) /\ SizesAskable(l) /\ FindsRoom(l)

HighTable(l) ==
  IF HighRam(l) = 0 THEN {} ELSE Bytes(NewEnd(l, HighRam(l)), l.hightable)

Init ==
  /\ Layout \in Layouts
  /\ \E m \in {Setup(Layout)} :
      /\ zones = m.zones
      /\ handle = m.handle
      /\ ebda = m.ebda
      /\ lowram = m.lowram
      /\ RomEnd = Layout.romstart
      /\ running = 0
      /\ romowned = {}
      /\ ram = ((2 .. FirstEbda(Layout) - 1) \cup
                UNION {Layout.ram[i].start .. Layout.ram[i].end - 1 :
                         i \in DOMAIN Layout.ram}) \ HighTable(Layout)
      /\ permtmp = {}
      /\ named = [d \in {} |-> DefaultHandle]
      /\ booted = FALSE
      /\ overdrawn = FALSE

----------------------------------------------------------------------------
(* Actions.                                                                *)

memory == [zones |-> zones, handle |-> handle, ebda |-> ebda, lowram |-> lowram]

Becomes(m) ==
  /\ zones' = m.zones
  /\ handle' = m.handle
  /\ ebda' = m.ebda
  /\ lowram' = m.lowram

\* A driver's malloc_*() or memalign_*().
_malloc(z, size, align) ==
  /\ ~booted
  /\ Becomes(malloc_palloc(memory, z, size, align).m)
  /\ overdrawn' = (overdrawn \/ Overdraws(memory, z, size, align))
  /\ UNCHANGED <<Layout, RomEnd, running, romowned, ram, permtmp, named, booted>>

\* free() or PMM deallocate of whatever address the caller has; an address
\* at which no range begins is refused without a change.
Free(data) ==
  /\ ~booted
  /\ Known(zones, data)
  /\ Becomes(malloc_pfree(memory, data))
  /\ permtmp' = permtmp \ {data}
  /\ named' = [d \in DOMAIN named \ {data} |-> named[d]]
  /\ UNCHANGED <<Layout, RomEnd, running, romowned, ram, booted, overdrawn>>

\* The bits of an s32.
Bits == {1, 2, 4, 8, 16, 32, 64, 128, 256, 512, 1024, 2048, 4096, 8192, 16384, 32768,
         65536, 131072, 262144, 524288, 1048576, 2097152, 4194304, 8388608, 16777216,
         33554432, 67108864, 134217728, 268435456, 536870912, 1073741824}

\* 1 << __ffs(size)
LowestBit(size) == Max({b \in Bits : size % b = 0})

Plain(r) == [m |-> r.m, data |-> r.data, reserved |-> FALSE]

\* A temporary block that is put into the e820 map to make it permanent.
Kept(r) == [m |-> r.m, data |-> r.data, reserved |-> r.data # 0]

OrPlain(r, z, size, align) ==
  IF r.data # 0 THEN Plain(r) ELSE Plain(malloc_palloc(r.m, z, size, align))

OrKept(r, permanent, size, align) ==
  IF r.data # 0 \/ ~permanent THEN Plain(r)
  ELSE Kept(malloc_palloc(r.m, "TmpHigh", size, align))

LowZone(permanent) == IF permanent THEN "Low" ELSE "TmpLow"

\* The allocation part of handle_pmm00(): where is flags & 3, permanent is
\* flags & 8.
PmmPalloc(size, align, where, permanent) ==
  LET lowzone  == LowZone(permanent)
      highzone == IF permanent THEN "High" ELSE "TmpHigh"
  IN  CASE where = 1 -> Plain(malloc_palloc(memory, lowzone, size, align))
        [] where = 2 ->
             OrKept(malloc_palloc(memory, highzone, size, align), permanent, size, align)
        [] where = 3 ->
             OrPlain(malloc_palloc(memory, lowzone, size, align), highzone, size, align)

\* e820_add(data, size, E820_RESERVED)
Reserve(r, size) == IF r.reserved THEN ram \ Bytes(r.data, size) ELSE ram

PmmAlign(size, aligned) ==
  IF aligned /\ LowestBit(size) > MinAlign THEN LowestBit(size) ELSE MinAlign

handle_pmm00(size, h, where, permanent, aligned) ==
  \E r \in {PmmPalloc(size, PmmAlign(size, aligned), where, permanent)} :
    LET set == r.data # 0 /\ h # DefaultHandle
    IN  /\ ~booted
        /\ Becomes(IF set THEN malloc_sethandle(r.m, r.data, h) ELSE r.m)
        /\ ram' = Reserve(r, size)
        /\ permtmp' = IF r.reserved THEN permtmp \cup {r.data} ELSE permtmp
        /\ named' = IF set THEN [d \in DOMAIN named \cup {r.data} |->
                                  IF d = r.data THEN h ELSE named[d]]
                    ELSE named
        /\ overdrawn' = \/ overdrawn
                        \/ where # 2 /\ Overdraws(memory, LowZone(permanent), size,
                                                  PmmAlign(size, aligned))
        /\ UNCHANGED <<Layout, RomEnd, running, romowned, booted>>

\* init_optionrom() or deploy_romfile(): space for a rom that will run.
ReserveRom(size) ==
  LET newend == ALIGN(RomEnd + size, RomAlign)
  IN  /\ ~booted
      /\ RoomForRom(zones, newend)
      /\ zones' = rom_reserve(zones, newend)
      /\ running' = size
      /\ UNCHANGED <<Layout, handle, ebda, lowram, RomEnd, romowned, ram, permtmp,
                     named, booted, overdrawn>>

\* rom_confirm() with the size the rom has after it ran; too large a rom is
\* given up.
rom_confirm(size) ==
  LET newend == ALIGN(RomEnd + size, RomAlign)
  IN  /\ ~booted /\ running > 0
      /\ IF RoomForRom(zones, newend)
         THEN zones' = rom_reserve(zones, newend) /\ RomEnd' = newend
         ELSE UNCHANGED <<zones, RomEnd>>
      /\ running' = 0
      /\ UNCHANGED <<Layout, handle, ebda, lowram, romowned, ram, permtmp, named, booted,
                     overdrawn>>

\* An option rom takes base memory, below the EBDA or by moving the EBDA.
RomTakesMemory(moves) ==
  /\ ~booted /\ running > 0 /\ ~UPPERMEMORY
  /\ romowned = {}
  /\ lowram = ebda /\ ebda - Kb >= Layout.ebdaminimum
  /\ lowram' = lowram - Kb
  /\ ebda' = IF moves THEN ebda - Kb ELSE ebda
  /\ romowned' = IF moves THEN Bytes(ebda - Kb + Layout.ebdasize, Kb)
                 ELSE Bytes(ebda - Kb, Kb)
  /\ UNCHANGED <<Layout, zones, handle, RomEnd, running, ram, permtmp, named, booted,
                 overdrawn>>

\* The part of ZoneHigh that was never used.
Giveback ==
  LET l == zones["High"]
      free == l[Len(l)]
  IN  IF l = <<>> THEN {}
      ELSE Bytes(free.start, ALIGN_DOWN(free.end - free.start, PageSize))

malloc_prepboot ==
  /\ ~booted /\ running = 0
  /\ ram' = (ram \ (lowram .. Layout.lowramend - 1)) \cup Giveback
  /\ booted' = TRUE
  /\ UNCHANGED <<Layout, zones, handle, ebda, lowram, RomEnd, running, romowned,
                 permtmp, named, overdrawn>>

Booted == booted /\ UNCHANGED vars

Next ==
  \/ \E r \in Layout.requests : _malloc(r.zone, r.size, r.align)
  \/ \E data \in {e.start : e \in Ranges(zones)} : Free(data)
  \/ \E size \in Layout.pmm, h \in Handles \cup {DefaultHandle}, where \in 1 .. 3,
        permanent, aligned \in BOOLEAN :
       handle_pmm00(size, h, where, permanent, aligned)
  \/ \E size \in Layout.roms : ReserveRom(size) \/ rom_confirm(size)
  \/ \E moves \in BOOLEAN : RomTakesMemory(moves)
  \/ malloc_prepboot
  \/ Booted

Spec == Init /\ [][Next]_vars

----------------------------------------------------------------------------
(* Properties.                                                             *)

\* The ranges of a zone are in falling order, contain what they have in use
\* and do not overlap, in any zone: no byte is handed out twice.
RangesDisjoint ==
  /\ \A e \in Ranges(zones) : e.start + e.size <= e.end
  /\ \A z \in Zone : \A i, k \in DOMAIN zones[z] :
       i < k => zones[z][k].end <= zones[z][i].start
  /\ \A y, z \in Zone : y # z => Covered(zones[y]) \cap Covered(zones[z]) = {}

\* The memory that was given to zone z of layout l.
Given(l, z) ==
  UNION {Regions(l)[i].start .. Regions(l)[i].end - 1 :
           i \in {k \in DOMAIN Regions(l) : Regions(l)[k].zone = z}}

\* Every byte that was given to a zone belongs to some range of it at all
\* times: allocating, failing half way and freeing lose no memory.  (ZoneLow
\* grows and gives way to option roms: see LowZoneClear.)
NothingLost ==
  \A z \in Zone \ {"Low"} : Covered(zones[z]) = Given(Layout, z)

\* The ranges of the zones are sound while an allocation takes part of one, a
\* free gives it back, or an allocation of bookkeeping fails between the two:
\* no byte is in two ranges and none is in no range.  Excepted is what follows
\* a request that zonelow_expand() moved the EBDA for without a test that it
\* fits (overdrawn; never in an UPPERMEMORY build): the range it adds does not
\* lie in memory.
ZonesIntact == overdrawn \/ (TypeOK /\ RangesDisjoint /\ NothingLost)

\* PMM find returns a block that was allocated with the handle and not freed,
\* whenever there is one.
FindsNamed ==
  \A h \in Handles :
    LET f == malloc_findhandle(zones, handle, h)
        live == {d \in DOMAIN named : named[d] = h}
    IN  IF live = {} THEN f = 0 ELSE f \in live

\* The space PMM reports for temporary memory can be allocated (in
\* paragraphs), its bookkeeping included.
SpaceIsAvailable ==
  \A z \in {"TmpLow", "TmpHigh"} :
    LET n == ALIGN_DOWN(malloc_getspace(zones, z), MinAlign)
    IN  n > 0 => malloc_palloc(memory, z, n, MinAlign).data # 0

\* What handle_pmm01() and handle_pmm00() with a size of zero tell a program
\* is true of the state they leave: find finds the blocks that have a handle
\* and only those, and the space that is reported can be had, as long as
\* ZoneLow is not overdrawn.
PmmTellsTruth == overdrawn \/ (FindsNamed /\ SpaceIsAvailable)

\* ZoneLow shares its memory with others, and never takes theirs.  In an
\* UPPERMEMORY build no allocation is under a confirmed or running option rom,
\* or in what malloc_prepboot() clears and marks; otherwise the EBDA, wherever
\* zonelow_expand() moves it, stays in base memory, clear of ZoneLow and of
\* the memory an option rom took for itself.
LowZoneClear ==
  LET low == Covered(zones["Low"])
      own == Bytes(ebda, Layout.ebdasize)
  IN  IF UPPERMEMORY
      THEN \A i \in DOMAIN zones["Low"] :
             LET e == zones["Low"][i]
             IN  /\ e.start >= RomEnd + running
                 /\ e.size > 0 => e.start >= rom_get_max(zones) + HeaderReserve
      ELSE /\ own \subseteq Layout.ebdaminimum .. Layout.lowramend - 1
           /\ own \cap (low \cup romowned) = {}
           /\ low \cap romowned = {}

\* What was allocated for good is not RAM in the map the OS gets.
PermanentKept ==
  booted =>
    \A e \in Ranges(zones) :
      \/ e.size = 0
      \/ \E z \in {"TmpLow", "TmpHigh"} : \E i \in DOMAIN zones[z] :
           e = zones[z][i] /\ e.start \notin permtmp
      \/ Bytes(e.start, e.size) \cap ram = {}

\* Memory stays with its owner while roms, EBDA and allocations share an area
\* and when what is left is given to the OS, as long as ZoneLow is not overdrawn:
\* then the EBDA is moved out of base memory.
MemoryKept == overdrawn \/ (LowZoneClear /\ PermanentKept)

Blocks ==
  {[start |-> e.start, size |-> e.size] :
     e \in {f \in Ranges(zones) : f.size > 0 /\ ~IsDetail(f)}}

Abstract == INSTANCE Allocator WITH blocks <- Blocks

\* malloc_palloc() and malloc_pfree() behave as an allocator: a step adds one
\* fresh block or removes one, and never moves or resizes another, as long as
\* ZoneLow is not overdrawn.
ImplementsAllocator ==
  Abstract!AllocatorInit /\ [][overdrawn' \/ Abstract!Alloc \/ Abstract!Free]_Blocks

----------------------------------------------------------------------------
(* The layouts of the run.  One unit stands for four bytes of the real        *)
(* memory: MALLOC_MIN_ALIGN is 4 units, an allocdetail_s is 3 units.          *)

Region(s, e) == [start |-> s, end |-> e]
Request(z, s, a) == [zone |-> z, size |-> s, align |-> a]

\* CONFIG_MALLOC_UPPERMEMORY: ZoneLow above the option roms, two ram ranges;
\* drivers and PMM compete for temporary memory.
PmmLayout ==
  [upper |-> TRUE, requests |-> {Request("TmpHigh", 2, 8), Request("FSeg", 5, 4)},
   pmm |-> {4, 8}, roms |-> {},
   top |-> 112, tmplow |-> Region(4, 12), ebdaminimum |-> 12, ebdasize |-> 4,
   lowramend |-> 20, romstart |-> 24, zonelow |-> 28, varlow |-> 44,
   readonly |-> 48, fseg |-> Region(48, 56), hightable |-> 8,
   ram |-> <<Region(76, 104), Region(60, 68)>>]

\* The same machine; drivers and option roms compete for ZoneLow.
RomLayout ==
  [PmmLayout EXCEPT
     !.requests = {Request("Low", 4, 4), Request("Low", 2, 8), Request("High", 4, 4)},
     !.pmm = {}, !.roms = {3, 8}]

\* ZoneLow below 640K, growing into the EBDA's place; PMM is asked for more than
\* there is.
EbdaLayout ==
  [upper |-> FALSE,
   requests |-> {Request("Low", 4, 4), Request("Low", 2, 8), Request("TmpHigh", 4, 4)},
   pmm |-> {30, 100}, roms |-> {3},
   top |-> 112, tmplow |-> Region(4, 12), ebdaminimum |-> 12, ebdasize |-> 4,
   lowramend |-> 36, romstart |-> 40, zonelow |-> 40, varlow |-> 34,
   readonly |-> 48, fseg |-> Region(48, 56), hightable |-> 8,
   ram |-> <<Region(72, 104)>>]

MCLayouts == {PmmLayout, RomLayout, EbdaLayout}

\* bound: no step is looked at after the one that overdraws ZoneLow, of which
\* nothing is claimed.
MCUntilOverdrawn == ~overdrawn
============================================================================
