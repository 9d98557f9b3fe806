---------------------------- MODULE PciResources ----------------------------
(* How pci_setup() (src/fw/pciinit.c) numbers the PCI buses and gives every   *)
(* base address register of every function an address: bridges are numbered   *)
(* depth first, the needs of a bus are added up into a window of the bridge   *)
(* in front of it, and addresses are handed out from the root down.           *)
(*                                                                            *)
(* Sizes are powers of two in small units: PCI_DEVICE_MEM_MIN is one unit of  *)
(* memory and there are PCI_BRIDGE_IO_MIN units in 0x1000 ports.              *)
EXTENDS Integers, SequencesExt, FiniteSetsExt

CONSTANTS
  Machines,           \* bound: what is plugged in and where memory ends
  MaxBus,             \* 0xff
  PCI_BRIDGE_IO_MIN, PCI_BRIDGE_MEM_MIN,
  IoTop,              \* the end of the port space, 0x10000
  pci_io_low_end,     \* 0xa000
  pcimem_end,         \* the end of the window below 4G
  FourG,
  HugePage            \* the alignment of the window above 4G

VARIABLES
  machine,
  pc,
  path,      \* the bridges pci_bios_init_bus_rec() is in, outermost first
  root,      \* the root bus it started from
  pci_bus,   \* the last bus number in use
  bus,       \* the secondary and subordinate bus number of the bridges
  todo,      \* the functions or buses the current phase has yet to treat
  region,    \* busses[].r[].list: per bus and type; -1 is the window above 4G
  base,      \* busses[].r[].base
  bar,       \* the base address registers that were written
  window     \* the window registers of the bridges

pciVars == <<machine, pc, path, root, pci_bus, bus, todo, region, base, bar, window>>

Types == {"io", "mem", "pref"}
Devs == DOMAIN machine.devs
Dev(d) == machine.devs[d]
Bridges == {d \in Devs : Dev(d).bridge}
Closed == [base |-> 1, limit |-> 0]

----------------------------------------------------------------------------
(* Bus numbers                                                                *)

Unnumbered == {d \in Bridges : bus[d].secondary = 0}

\* The bridges on the bus that is being scanned, in the order they are found.
Here == {d \in Unnumbered :
           IF path = <<>> THEN Dev(d).on = 0 /\ Dev(d).root = root
           ELSE Dev(d).on = path[Len(path)]}

\* The next bridge gets the next number and, for now, all higher ones.
EnterBridge ==
  /\ pc = "number"
  /\ Here # {}
  /\ LET d == Min(Here)
     IN  /\ pci_bus' = pci_bus + 1
         /\ bus' = [bus EXCEPT ![d] = [secondary |-> pci_bus', subordinate |-> MaxBus]]
         /\ path' = Append(path, d)
  /\ UNCHANGED <<machine, pc, root, todo, region, base, bar, window>>

\* The last number behind a bridge that was scanned: with a reservation, the
\* numbers its device asks for count from its secondary bus on.  A reservation
\* that does not fit into a u8 is taken for 0.
LastBusBehind(d) ==
  LET asked == Dev(d).reserve.bus
      res_bus == IF asked + bus[d].secondary > MaxBus THEN 0 ELSE asked
  IN  IF asked = -1 THEN pci_bus
      ELSE IF bus[d].secondary + res_bus > pci_bus THEN bus[d].secondary + res_bus
      ELSE res_bus

LeaveBridge ==
  /\ pc = "number"
  /\ Here = {}
  /\ path # <<>>
  /\ LET d == path[Len(path)]
     IN  /\ pci_bus' = LastBusBehind(d)
         /\ bus' = [bus EXCEPT ![d].subordinate = pci_bus']
  /\ path' = SubSeq(path, 1, Len(path) - 1)
  /\ UNCHANGED <<machine, pc, root, todo, region, base, bar, window>>

\* "etc/extra-pci-roots": every number that is left may be a root bus.
NextRoot ==
  /\ pc = "number"
  /\ Here = {}
  /\ path = <<>>
  /\ IF machine.extraroots /\ pci_bus < MaxBus
     THEN pci_bus' = pci_bus + 1 /\ root' = pci_bus' /\ UNCHANGED <<pc, todo>>
     ELSE pc' = "check" /\ todo' = Devs /\ UNCHANGED <<pci_bus, root>>
  /\ UNCHANGED <<machine, path, bus, region, base, bar, window>>

----------------------------------------------------------------------------
(* What the functions need                                                    *)

\* busses[0] stands for all root buses.
ListOf(d) == IF Dev(d).on = 0 THEN 0 ELSE bus[Dev(d).on].secondary

BusNumber(d) == IF Dev(d).on = 0 THEN Dev(d).root ELSE bus[Dev(d).on].secondary

\* Larger alignments first, then larger sizes.
Inserted(list, e) ==
  LET Ahead(pos) == pos.align > e.align \/ (pos.align = e.align /\ pos.size >= e.size)
      Behind(pos) == ~ Ahead(pos)
  IN  SelectSeq(list, Ahead) \o <<e>> \o SelectSeq(list, Behind)

pci_region_align(list) == IF list = <<>> THEN 1 ELSE list[1].align

SumBefore(list, n) == MapThenSumSet(LAMBDA i : list[i].size, 1 .. n - 1)

pci_region_sum(list) == SumBefore(list, Len(list) + 1)

AlignUp(n, align) == ((n + align - 1) \div align) * align
AlignDown(n, align) == (n \div align) * align

\* One entry for every base address register in use; a 64 bit register takes
\* the place of two.
Entry(d, n) ==
  LET b == Dev(d).bars[n]
      size == IF b.type # "io" /\ b.size < 1 THEN 1 ELSE b.size
  IN  [dev |-> d, bar |-> n, size |-> size, align |-> size, is64 |-> b.is64, type |-> b.type]

\* pci_bios_check_devices(), first loop: the functions in the order of their
\* buses.
CheckDevice ==
  /\ pc = "check"
  /\ todo # {}
  /\ \E first \in {Min({BusNumber(d) : d \in todo})} :
     \E d \in {Min({e \in todo : BusNumber(e) = first})} :
       LET own == [n \in DOMAIN Dev(d).bars |-> Entry(d, n)]
           Of(type) == SelectSeq(own, LAMBDA e : e.type = type)
       IN  /\ region' = [region EXCEPT ![ListOf(d)] =
                           [type \in Types |-> FoldLeft(Inserted, @[type], Of(type))]]
           /\ todo' = todo \ {d}
  /\ UNCHANGED <<machine, pc, path, root, pci_bus, bus, base, bar, window>>

\* A prefetchable window reaches above 4G if the bridge has the registers for
\* it and everything behind it can live there.
pci_bios_bridge_region_is64(d, type, list) ==
  /\ type = "pref"
  /\ Dev(d).pref64
  /\ \A i \in DOMAIN list : list[i].is64

\* Deviation: a window is aligned as a bridge must, not as its contents must.
WindowAlign_min(type, list) ==
  IF type = "io" THEN PCI_BRIDGE_IO_MIN ELSE PCI_BRIDGE_MEM_MIN

WindowAlign(type, list) ==
  Max({IF type = "io" THEN PCI_BRIDGE_IO_MIN ELSE PCI_BRIDGE_MEM_MIN,
       pci_region_align(list)})

\* The window of one type in front of the bus behind bridge d: the sum of what
\* is there, the least size for functions still to be plugged in, or the size
\* the bridge asks for.
WindowEntry(d, type) ==
  LET list == region[bus[d].secondary][type]
      align == WindowAlign(type, list)
      sum == IF pci_region_sum(list) = 0 /\ Dev(d).hotplug /\ ~ (Dev(d).pcie /\ type = "io")
             THEN align ELSE pci_region_sum(list)
      reserve == Dev(d).reserve[type]
      size == IF reserve <= sum THEN AlignUp(sum, align)
              ELSE IF type = "io" THEN reserve ELSE AlignUp(reserve, align)
  IN  [dev |-> d, bar |-> -1, size |-> size, align |-> align, type |-> type,
       is64 |-> pci_bios_bridge_region_is64(d, type, list)]

\* pci_bios_check_devices(), second loop: from the highest bus down.
StartPropagation ==
  /\ pc = "check"
  /\ todo = {}
  /\ pc' = "propagate"
  /\ todo' = Bridges
  /\ UNCHANGED <<machine, path, root, pci_bus, bus, region, base, bar, window>>

PropagateBus ==
  /\ pc = "propagate"
  /\ todo # {}
  /\ \E d \in {CHOOSE e \in todo : \A f \in todo : bus[f].secondary <= bus[e].secondary} :
       /\ region' = [region EXCEPT ![ListOf(d)] =
                       [type \in Types |->
                          IF type \in Dev(d).windows
                          THEN Inserted(@[type], WindowEntry(d, type)) ELSE @[type]]]
       /\ todo' = todo \ {d}
  /\ UNCHANGED <<machine, pc, path, root, pci_bus, bus, base, bar, window>>

\* malloc_tmp() of an entry fails: nothing gets an address.
OutOfMemory ==
  /\ pc \in {"check", "propagate"}
  /\ todo # {}
  /\ pc' = "given up"
  /\ UNCHANGED <<machine, path, root, pci_bus, bus, todo, region, base, bar, window>>

----------------------------------------------------------------------------
(* Addresses                                                                  *)

\* Where the ports of the root buses begin; -1 if they do not fit.
IoBase(sum) ==
  IF sum < 4 * PCI_BRIDGE_IO_MIN THEN IoTop - 4 * PCI_BRIDGE_IO_MIN
  ELSE IF sum < pci_io_low_end - PCI_BRIDGE_IO_MIN THEN PCI_BRIDGE_IO_MIN
  ELSE -1

\* The two memory regions of the root buses fill the window from its end
\* downward, the one with the larger alignment below the other.
MemBases(lists) ==
  LET upper == IF pci_region_align(lists.mem) < pci_region_align(lists.pref)
               THEN "mem" ELSE "pref"
      lower == IF upper = "mem" THEN "pref" ELSE "mem"
      Below(top, type) ==
        AlignDown(top - pci_region_sum(lists[type]), pci_region_align(lists[type]))
      u == Below(pcimem_end, upper)
  IN  [type \in {"mem", "pref"} |-> IF type = upper THEN u ELSE Below(u, lower)]

\* It is unsigned in the code: a sum beyond pcimem_end shows as an address
\* beyond it.
Fits(lists) ==
  LET bases == MemBases(lists)
  IN  Min({bases.mem, bases.pref}) >= machine.pcimem_start

\* Entries that leave the window below 4G; host adapters of USB never do.
Migrates(e) == e.is64 /\ (e.bar = -1 \/ ~ Dev(e.dev).usb)

Stays(e) == ~ Migrates(e)

HighBases(lists) ==
  LET Up(n, list) == AlignUp(AlignUp(n, pci_region_align(list)), HugePage)
      mem == Up(Max({FourG + machine.RamSizeOver4G, machine.reserved_memory_end}),
                lists.mem)
  IN  [io |-> 0, mem |-> mem,
       pref |-> Up(mem + pci_region_sum(lists.mem), lists.pref)]

\* pci_bios_map_devices() up to the loop over the buses.
InitRootRegions ==
  /\ pc = "propagate"
  /\ todo = {}
  /\ LET all == region[0]
         io == IoBase(pci_region_sum(all.io))
         moves == ~ Fits(all)
         Part(Keep(_)) == [type \in Types |->
                             IF type = "io" THEN <<>> ELSE SelectSeq(all[type], Keep)]
         high == IF moves THEN Part(Migrates) ELSE [type \in Types |-> <<>>]
         low == IF moves THEN [Part(Stays) EXCEPT !.io = all.io] ELSE all
     IN  IF io = -1 \/ ~ Fits(low)
         THEN pc' = "panic" /\ UNCHANGED <<region, base, todo>>
         ELSE /\ pc' = "assign"
              /\ region' = [region EXCEPT ![0] = low, ![-1] = high]
              /\ base' = [base EXCEPT ![0] = MemBases(low) @@ [io |-> io],
                                      ![-1] = HighBases(high)]
              /\ todo' = -1 .. MaxBus
  /\ UNCHANGED <<machine, path, root, pci_bus, bus, bar, window>>

\* What a bridge makes of the registers pci_region_map_one_entry() writes:
\* they hold the address bits from the granularity up, and the limit is that
\* of the last byte.
WindowOf(addr, size, type) ==
  LET unit == IF type = "io" THEN PCI_BRIDGE_IO_MIN ELSE PCI_BRIDGE_MEM_MIN \div 2
  IN  [base  |-> (addr \div unit) * unit,
       limit |-> ((addr + size - 1) \div unit) * unit + unit - 1]

\* The entries of one bus at their addresses.
Placed(b) ==
  UNION {{[addr |-> base[b][type] + SumBefore(region[b][type], i), e |-> region[b][type][i]]
            : i \in DOMAIN region[b][type]} : type \in Types}

\* pci_region_map_entries() for the regions of one bus: first those above 4G,
\* then the buses in order.  (What is bound by \E over a set of one is found once.)
MapBus ==
  /\ pc = "assign"
  /\ todo # {}
  /\ \E b \in {Min(todo)} : \E put \in {Placed(b)} :
       /\ bar' = bar \cup {[dev |-> p.e.dev, n |-> p.e.bar, type |-> p.e.type,
                            addr |-> p.addr, size |-> p.e.size]
                           : p \in {q \in put : q.e.bar # -1}}
       /\ window' = [d \in Bridges |-> [type \in Types |->
            LET front == {p \in put : p.e.bar = -1 /\ p.e.dev = d /\ p.e.type = type}
                opened == CHOOSE p \in front : TRUE
            IN  IF front = {} THEN window[d][type]
                ELSE WindowOf(opened.addr, opened.e.size, type)]]
       /\ base' = [n \in DOMAIN base |-> [type \in Types |->
            LET front == {p \in put : /\ p.e.bar = -1 /\ p.e.type = type
                                      /\ bus[p.e.dev].secondary = n}
            IN  IF front = {} THEN base[n][type] ELSE (CHOOSE p \in front : TRUE).addr]]
       /\ region' = [region EXCEPT ![b] = [type \in Types |-> <<>>]]
       /\ todo' = todo \ {b}
  /\ pc' = IF todo' = {} THEN "done" ELSE pc
  /\ UNCHANGED <<machine, path, root, pci_bus, bus>>

----------------------------------------------------------------------------

pciInit ==
  /\ machine \in Machines
  /\ pc = "number"
  /\ path = <<>>
  /\ root = 0
  /\ pci_bus = 0
  /\ bus = [d \in Bridges |-> [secondary |-> 0, subordinate |-> 0]]
  /\ todo = {}
  /\ region = [b \in -1 .. MaxBus |-> [type \in Types |-> <<>>]]
  /\ base = [b \in -1 .. MaxBus |-> [type \in Types |-> 0]]
  /\ bar = {}
  /\ window = [d \in Bridges |-> [type \in Types |-> Closed]]

pciNext ==
  \/ EnterBridge
  \/ LeaveBridge
  \/ NextRoot
  \/ CheckDevice
  \/ StartPropagation
  \/ PropagateBus
  \/ OutOfMemory
  \/ InitRootRegions
  \/ MapBus

pciSpec == pciInit /\ [][pciNext]_pciVars

----------------------------------------------------------------------------
(* Properties                                                                 *)

\* The bridges in front of d.
Above[d \in Devs] ==
  IF Dev(d).on = 0 THEN {} ELSE {Dev(d).on} \cup Above[Dev(d).on]

\* "set to max for access to all subordinate buses.  later set it to accurate
\* value": when the buses have their numbers, no two have the same one, and the
\* numbers from the secondary to the subordinate one of a bridge are those of
\* the buses behind it and of no other.
BusesReachable ==
  pc = "check" =>
    \A c, d \in Bridges :
      LET routed == bus[d].secondary <= bus[c].secondary
                      /\ bus[c].secondary <= bus[d].subordinate
      IN  /\ c # d => bus[c].secondary # bus[d].secondary
          /\ routed <=> c = d \/ d \in Above[c]

\* Whether the addresses from addr on are forwarded by bridge d.
Reaches(d, type, addr) ==
  \E t \in Types :
    /\ (t = "io") <=> (type = "io")
    /\ window[d][t].base <= addr /\ addr <= window[d][t].limit

\* The memory that is left for functions, and the ports.
Free(b) ==
  LET last == b.addr + b.size - 1
  IN  IF b.type = "io"
      THEN b.addr >= PCI_BRIDGE_IO_MIN /\ last < IoTop
      ELSE \/ b.addr >= machine.pcimem_start /\ last < pcimem_end
           \/ /\ Dev(b.dev).bars[b.n].is64
              /\ ~ Dev(b.dev).usb
              /\ b.addr >= FourG + machine.RamSizeOver4G
              /\ b.addr >= machine.reserved_memory_end

\* Unless the machine is refused, every base address register ends up with an
\* address of its own, a multiple of its size, out of the memory and ports that
\* are free; all bridges in front of the function forward it and no other
\* bridge does.
EveryBarPlaced ==
  pc = "done" =>
    /\ \A d \in Devs : \A n \in DOMAIN Dev(d).bars :
         \E b \in bar : b.dev = d /\ b.n = n
    /\ \A b \in bar :
         /\ b.addr % b.size = 0
         /\ Free(b)
         /\ \A d \in Bridges : \A a \in {b.addr, b.addr + b.size - 1} :
              Reaches(d, b.type, a) <=> d \in Above[b.dev]
         /\ \A c \in bar \ {b} :
              (b.type = "io") = (c.type = "io") =>
                b.addr + b.size <= c.addr \/ c.addr + c.size <= b.addr

\* pci_setup() makes every function reachable, by its bus and its addresses.
DevicesReachable == BusesReachable /\ EveryBarPlaced
=============================================================================
