----------------------------------- MODULE Vmm ----------------------------------
(***************************************************************************)
(* The page tables, mm/vmm.c, on top of the physical pages of mm/pmm.c.    *)
(*                                                                         *)
(* Memory is one record: the PMM's stack, and what each frame holds, as a  *)
(* page table, as a heap region's descriptor or as bytes.  The functions   *)
(* of the kernel are operators from memory to memory: only the boot thread *)
(* calls them, before the first process runs, so a call is one step.       *)
(*                                                                         *)
(* HIGHER_HALF(0) is not NULL: most callers of pmm_request_page test the   *)
(* higher-half address and therefore use frame 0 when memory has run out.  *)
(* That is the event "frame0".  Events are history.                        *)
(*                                                                         *)
(* After some of them two structures share a frame, or the list of regions *)
(* is no list any more: memory is wild, and the kernel is not followed any *)
(* further.                                                                *)
(***************************************************************************)
EXTENDS Integers, Sequences, FiniteSets, SequencesExt

CONSTANTS Fan,        \* entries of a table, 512 in the code
          Half,       \* the first entry of the upper half, 256 in the code
          MaxRam,     \* usable frames at most
          PAGE_SIZE,  \* bytes of a page
          Gb4         \* pages that vmm_init maps directly, 4 GiB in the code

ASSUME VmmAssumption ==
    /\ {Fan, MaxRam, PAGE_SIZE, Gb4} \subseteq Nat \ {0}
    /\ Half \in 1 .. (Fan - 2) /\ Fan >= 4    \* each section of the kernel has an entry
    /\ Gb4 <= Fan * Fan * Fan /\ Gb4 <= MaxRam + 1   \* MaxRam: of frames mapped, too

NULL == -1
KernelPhys == MaxRam + 1                  \* __kernel_phys_base: not usable memory
LastFrame == KernelPhys + 3               \* of the kernel's image, at the end of memory
Frame == 0 .. LastFrame
Virt == 0 .. (Fan * Fan * Fan * Fan - 1)
Lower == 0 .. (Half * Fan * Fan * Fan - 1)
Flags == {"P", "W", "NX"}    \* VMM_PRESENT, VMM_WRITABLE, VMM_NX

NoEntry == [to |-> 0, flags |-> {}]
NoTable == [i \in 0 .. (Fan - 1) |-> NoEntry]
NoRegion == [start |-> 0, size |-> 0, next |-> NULL, prev |-> NULL]
Zeroes == [b \in 0 .. (PAGE_SIZE - 1) |-> 0]

\* After pmm_init: the usable frames on the stack, the highest one on top.
FreshMemory(ram) ==
    [stack |-> [k \in 1 .. ram |-> k], max |-> ram,
     table |-> [f \in Frame |-> NoTable], region |-> [f \in Frame |-> NoRegion],
     data |-> [f \in Frame |-> Zeroes],
     kernel |-> 0, ctx |-> 0, root |-> 0,     \* kernel_pagemap, ctx, ctx->root
     held |-> {}, stale |-> {}, events |-> {}]

Note(m, event) == [m EXCEPT !.events = @ \cup {event}]

Wild(m) ==
    m.events \cap {"frame0", "twice", "ctxfreed", "shared", "stolen", "overlap", "lost"} # {}

--------------------------------------------------------------------------------
(* pmm_request_page and pmm_free_page, as mm/vmm.c and its callers use them *)

\* Every frame is reached through the higher half, also one behind the 4 GiB that
\* vmm_init maps there.
pmm_request_page(m) ==
    IF m.stack = << >> THEN [page |-> 0, mem |-> m]
    ELSE LET f == Last(m.stack)
         IN [page |-> f,
             mem |-> [(IF f \in m.held THEN Note(m, "twice") ELSE m) EXCEPT
                         !.stack = Front(@), !.held = @ \cup {f},
                         !.table[f] = NoTable, !.region[f] = NoRegion,
                         !.data[f] = Zeroes]]

\* HIGHER_HALF(pmm_request_page()) is used whether or not there was a page.
NeverNull(r) == IF r.page = 0 THEN [r EXCEPT !.mem = Note(@, "frame0")] ELSE r

RequestHigherHalf(m) == NeverNull(pmm_request_page(m))

\* The pointer is a frame, or a higher-half address if it is negative.
HigherHalf(f) == -f

pmm_free_page(m, ptr) ==
    LET freed == [m EXCEPT !.stack = IF Len(@) >= m.max THEN @ ELSE Append(@, ptr),
                           !.held = @ \ {ptr}]
    IN  CASE ptr = 0 -> m
          [] ptr < 0 -> Note(freed, "alias")
          [] ptr > 0 -> IF ptr \in m.held THEN freed ELSE Note(freed, "stray")

--------------------------------------------------------------------------------
(* Walking and changing the tables *)

\* The pages that one entry of a table of this level stands for.
Span(level) ==
    CASE level = 1 -> 1 [] level = 2 -> Fan [] level = 3 -> Fan * Fan [] level = 4 -> Fan * Fan * Fan

Index(virt, level) == (virt \div Span(level)) % Fan

Present(entry) == "P" \in entry.flags

\* The entries the walk of a virtual page meets, from pml4 down to pml1.
Walk(m, pagemap, virt) ==
    LET e4 == m.table[pagemap][Index(virt, 4)]
        e3 == m.table[e4.to][Index(virt, 3)]
        e2 == m.table[e3.to][Index(virt, 2)]
        e1 == m.table[e2.to][Index(virt, 1)]
    IN <<e4, e3, e2, e1>>

virt_to_phys(m, pagemap, virt) ==
    LET w == Walk(m, pagemap, virt)
    IN IF \A k \in 1 .. 3 : Present(w[k]) THEN w[4].to ELSE 0

SetEntry(m, table, i, to, flags) == [m EXCEPT !.table[table][i] = [to |-> to, flags |-> flags]]

\* Down one level from a table, whose entry is made if need be with the flags of
\* the page to map.
Enter(a, i, flags) ==
    LET Made(r) == [mem |-> SetEntry(r.mem, a.table, i, r.page, flags), table |-> r.page]
    IN IF Present(a.mem.table[a.table][i])
       THEN [a EXCEPT !.table = a.mem.table[@][i].to]
       ELSE Made(RequestHigherHalf(a.mem))

vmm_map(m, pagemap, virt, phys, flags) ==
    LET Down(a, level) == Enter(a, Index(virt, level), flags)
        Leaf(a) == SetEntry(a.mem, a.table, Index(virt, 1), phys, flags)
    IN Leaf(Down(Down(Down([mem |-> m, table |-> pagemap], 4), 3), 2))

\* The first entry that is not present, or else the last one, becomes 0.
vmm_unmap(m, pagemap, virt) ==
    LET w == Walk(m, pagemap, virt)
        tables == <<pagemap, w[1].to, w[2].to, w[3].to>>
        last == CHOOSE k \in 1 .. 4 :
                   /\ \A l \in 1 .. (k - 1) : Present(w[l])
                   /\ k = 4 \/ ~Present(w[k])
    IN [m EXCEPT !.table[tables[last]][Index(virt, 5 - last)] = NoEntry]

\* Mutant: the whole of the kernel's page map is copied.
vmm_new_pagemap_whole(m) ==
    LET r == RequestHigherHalf(m)
    IN [page |-> r.page, mem |-> [r.mem EXCEPT !.table[r.page] = m.table[m.kernel]]]

vmm_new_pagemap(m) ==
    LET r == RequestHigherHalf(m)
    IN [page |-> r.page,
        mem |-> [r.mem EXCEPT !.table[r.page] =
                    [i \in DOMAIN NoTable |->
                        IF i >= Half THEN r.mem.table[m.kernel][i] ELSE NoEntry]]]

\* The caller's pointer is the page map's higher-half address.
vmm_destroy_pagemap(m, pagemap) == pmm_free_page(m, HigherHalf(pagemap))

--------------------------------------------------------------------------------
(* vmm_init *)

HHDM == Half * Fan * Fan * Fan            \* hhdm_offset, in pages
KernelBase == (Fan - 1) * Fan * Fan * Fan \* __kernel_virt_base, in pages

\* The kernel's sections in the order of the loops, a page each.
Section(k, flags) == [virt |-> KernelBase + k, phys |-> KernelPhys + k, flags |-> flags]

\* Mutant: .text is mapped before the boot loader's requests.
TextFirst ==
    <<Section(1, {"P"}), Section(0, {"P", "W"}), Section(2, {"P", "NX"}),
      Section(3, {"P", "W", "NX"})>>

Sections ==
    <<Section(0, {"P", "W"}),         \* the boot loader's requests
      Section(1, {"P"}),              \* .text
      Section(2, {"P", "NX"}),        \* .rodata
      Section(3, {"P", "W", "NX"})>>  \* .data

\* The page map itself and the loops over the sections.
vmm_init_sections(m) ==
    LET r == RequestHigherHalf(m)
        MapOne(a, x) == vmm_map(a, r.page, x.virt, x.phys, x.flags)
    IN FoldLeft(MapOne, [r.mem EXCEPT !.kernel = r.page], Sections)

\* One iteration of the last loop: a frame at its own address and in the HHDM.
vmm_init_direct(m, gb4) ==
    LET own == vmm_map(m, m.kernel, gb4, gb4, {"P", "W"})
    IN IF Wild(own) THEN own ELSE vmm_map(own, m.kernel, HHDM + gb4, gb4, {"P", "W"})

--------------------------------------------------------------------------------
(* What the processor makes of the tables *)

\* A page may be used as every entry on its way allows.
Narrow(rights, entry) ==
    (rights \cap entry.flags \cap {"P", "W"}) \cup ((rights \cup entry.flags) \cap {"NX"})

Rights(m, pagemap, virt) ==
    LET w == Walk(m, pagemap, virt)
    IN IF \A k \in 1 .. 4 : Present(w[k])
       THEN Narrow(Narrow(Narrow(Narrow({"P", "W"}, w[1]), w[2]), w[3]), w[4])
       ELSE {}

\* The virtual pages that can be reached: what each is translated to and its rights.
OneLevelDown(m, nodes) ==
    UNION {{[virt |-> n.virt * Fan + i, to |-> m.table[n.to][i].to,
             rights |-> Narrow(n.rights, m.table[n.to][i])] :
              i \in {i \in DOMAIN NoTable : Present(m.table[n.to][i])}} : n \in nodes}

Translations(m, pagemap) ==
    LET pml4 == {[virt |-> 0, to |-> pagemap, rights |-> {"P", "W"}]}
    IN OneLevelDown(m, OneLevelDown(m, OneLevelDown(m, OneLevelDown(m, pml4))))
================================================================================
