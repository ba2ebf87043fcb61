------------------------------ MODULE ProcessMemory -----------------------------
(***************************************************************************)
(* The users of the page tables and of the heap: the boot sequence, the    *)
(* hooks of liballoc, the ELF loader and the creation of processes.        *)
(*                                                                         *)
(* An image is what an ELF file says: whether its header is accepted, its  *)
(* entry point, and its program headers in file order, addresses and sizes *)
(* in bytes.  Byte k of the file is the number k + 1, so that every byte   *)
(* can be told from the others and from 0.                                 *)
(*                                                                         *)
(* The kernel is followed as long as memory is not wild (see Vmm).         *)
(***************************************************************************)
EXTENDS Vma

CONSTANTS RamSizes,       \* how many usable frames the machine may have
          HeapSizes,      \* the pages liballoc may ask for at a time
          BufferSizes,    \* those it may ask for when a file's buffer is made
          Images,         \* the files that may be started
          MAX_PROCESSES,
          VMM_TESTS,
          MaxCalls        \* bound: calls after boot, process creations counted twice

ASSUME CallAssumption ==
    /\ RamSizes \subseteq 1 .. MaxRam
    /\ HeapSizes \subseteq 1 .. PAGE_SIZE    \* a kmalloc of at most 16 MiB
    /\ BufferSizes \subseteq HeapSizes
    /\ {MAX_PROCESSES, VMM_TESTS, MaxCalls} \subseteq Nat
    /\ 1 + VMM_TESTS + PAGE_SIZE * MaxCalls <= HHDM    \* the heap stays in the lower half

VARIABLES mem,
          pc,      \* "vmm", "direct", "vma", "test": the boot sequence; "run": its
                   \* end, that allocates; "user": processes only
          gb4,     \* loop counter of vmm_init
          owned,   \* the heap regions handed out: [start, size]
          procs,   \* the processes: [proc, stack, pagemap, image, alive]
          calls    \* calls made since boot

vars == <<mem, pc, gb4, owned, procs, calls>>

Init ==
    /\ \E ram \in RamSizes : mem = FreshMemory(ram)
    /\ pc = "vmm" /\ gb4 = 0
    /\ owned = {} /\ procs = << >> /\ calls = 0

--------------------------------------------------------------------------------
(* kmain: vmm_init, vma_create_context, test_vmm whose result is ignored *)

BootStep(at, then, m) ==
    /\ ~Wild(mem) /\ pc = at /\ pc' = then
    /\ mem' = m
    /\ UNCHANGED <<owned, procs, calls>>

MapSections == BootStep("vmm", "direct", vmm_init_sections(mem)) /\ UNCHANGED gb4

MapDirect ==
    /\ gb4' = gb4 + 1
    /\ BootStep("direct", IF gb4 + 1 < Gb4 THEN "direct" ELSE "vma", vmm_init_direct(mem, gb4))

CreateContext == BootStep("vma", "test", vma_create_context(mem)) /\ UNCHANGED gb4

TestVmm == BootStep("test", "run", test_vmm(mem, VMM_TESTS)) /\ UNCHANGED gb4

Call(weight) ==
    /\ ~Wild(mem) /\ pc = "run" /\ calls + weight <= MaxCalls
    /\ calls' = calls + weight
    /\ UNCHANGED <<pc, gb4>>

Given(r, size) == IF r.start = NULL THEN {} ELSE {[start |-> r.start, size |-> size]}

\* History: a page of a heap block lies on a frame that was given to somebody else.
\* The block's owner writes there, and nothing is certain from then on.  A page on the
\* PMM's array or on the kernel's image is as wrong but is not noticed here.
Shared(m, regions) ==
    IF \E r \in regions : \E page \in (r.start + 1) .. (End(r) - 1) :
          virt_to_phys(m, m.kernel, page) \in m.held
    THEN Note(m, "shared") ELSE m

liballoc_alloc(pages) ==
    /\ Call(1)
    /\ LET r == vma_alloc(mem, pages)
       IN owned' = owned \cup Given(r, pages) /\ mem' = Shared(r.mem, owned')
    /\ UNCHANGED procs

liballoc_free(reg) ==
    /\ Call(1)
    /\ mem' = vma_free(mem, reg.start)
    /\ owned' = owned \ {reg}
    /\ UNCHANGED procs

--------------------------------------------------------------------------------
(* elf_load *)

ALIGN_DOWN(x) == x - (x % PAGE_SIZE)
ALIGN_UP(x) == ALIGN_DOWN(x + PAGE_SIZE - 1)

FirstPage(ph) == ALIGN_DOWN(ph.vaddr) \div PAGE_SIZE
LastPage(ph) == ALIGN_UP(ph.vaddr + ph.memsz) \div PAGE_SIZE - 1

\* Mutant: p_flags are used as they are.
PageFlagsRaw(ph) == {"P"} \cup ph.flags

\* p_flags, a subset of {"R", "W", "X"}, as the flags of a page.
PageFlags(ph) ==
    {"P"} \cup (IF "W" \in ph.flags THEN {"W"} ELSE {})
          \cup (IF "X" \in ph.flags THEN {} ELSE {"NX"})

\* Mutant: every page is filled from the start of the segment.
PageBytesFromStart(ph, page) ==
    [b \in 0 .. (PAGE_SIZE - 1) |-> IF b < ph.filesz THEN ph.offset + b + 1 ELSE 0]

\* What the copy leaves in a page: its share of the file, then zeroes.  Byte b of
\* the page is byte b of the copy wherever in the page the segment starts.
PageBytes(ph, page) ==
    [b \in 0 .. (PAGE_SIZE - 1) |->
        LET at == (page - FirstPage(ph)) * PAGE_SIZE + b
        IN IF at < ph.filesz THEN ph.offset + at + 1 ELSE 0]

LoadPage(a, x) ==
    IF ~a.ok THEN a
    ELSE LET r == pmm_request_page(a.mem)
             mapped == vmm_map(r.mem, a.pagemap, x.page, r.page, PageFlags(x.ph))
         IN IF r.page = 0 THEN [a EXCEPT !.ok = FALSE, !.mem = Note(@, "nomem")]
            ELSE [a EXCEPT !.mem = [mapped EXCEPT !.data[r.page] = PageBytes(x.ph, x.page)]]

\* The pages in the order of the two loops: of the PT_LOAD headers, in turn.
LoadOrder(image) ==
    LET PagesOf(ph) ==
            IF ph.type # "PT_LOAD" THEN << >>
            ELSE [k \in 1 .. (LastPage(ph) - FirstPage(ph) + 1) |->
                     [ph |-> ph, page |-> FirstPage(ph) + k - 1]]
    IN FlattenSeq([k \in DOMAIN image.headers |-> PagesOf(image.headers[k])])

\* What a file may say: elf_load relies on its addresses being those of user
\* space, which nothing checks.
ProgramHeader ==
    [type : {"PT_LOAD", "PT_NOTE"}, vaddr : Nat, offset : Nat, filesz : Nat, memsz : Nat,
     flags : SUBSET {"R", "W", "X"}]

ASSUME ImageAssumption ==
    \A image \in Images :
        /\ image.valid \in BOOLEAN /\ image.entry \in Nat
        /\ image.headers \in Seq(ProgramHeader)
        /\ \A x \in Range(LoadOrder(image)) : x.page \in Lower

\* A file whose entry point is 0 is loaded and yet reported as a failure.
elf_load(m, image, pagemap) ==
    LET refused == [mem |-> Note(m, "badelf"), pagemap |-> pagemap, ok |-> FALSE]
        loaded == FoldLeft(LoadPage, [mem |-> m, pagemap |-> pagemap, ok |-> TRUE],
                           LoadOrder(image))
    IN IF ~image.valid THEN refused
       ELSE IF loaded.ok /\ image.entry = 0
            THEN [loaded EXCEPT !.ok = FALSE, !.mem = Note(@, "badelf")]
       ELSE loaded

--------------------------------------------------------------------------------
(* The memory side of process creation *)

process_create(m, pagemap, image) ==
    LET proc == RequestHigherHalf(m)
        stack == RequestHigherHalf(proc.mem)
    IN [mem |-> stack.mem,
        proc |-> [proc |-> proc.page, stack |-> stack.page,
                  pagemap |-> pagemap, image |-> image, alive |-> TRUE]]

KernelThread == [valid |-> TRUE, entry |-> 1, headers |-> << >>]   \* nothing is loaded

scheduler_create_process ==
    /\ Call(2) /\ Len(procs) < MAX_PROCESSES
    /\ LET p == vmm_new_pagemap(mem)
           c == process_create(p.mem, p.page, KernelThread)
       IN mem' = Shared(c.mem, owned) /\ procs' = Append(procs, c.proc)
    /\ UNCHANGED owned

\* kmalloc of the file's buffer is served from a block that the heap has, or
\* takes a new one of so many pages.  Its failure goes unnoticed, but then no page
\* is left for the page map either, and frame 0 is used.
kmalloc(m, pages) ==
    IF pages = 0 THEN [mem |-> m, start |-> NULL] ELSE vma_alloc(m, pages)

\* A file that cannot be loaded is dropped: its page map and pages are not freed.
scheduler_create_elf_process(image, pages) ==
    /\ Call(2) /\ Len(procs) < MAX_PROCESSES
    /\ LET d == kmalloc(mem, pages)
           p == vmm_new_pagemap(d.mem)
           e == elf_load(p.mem, image, p.page)
           c == process_create(e.mem, p.page, image)
       IN /\ owned' = owned \cup Given(d, pages)
          /\ mem' = Shared(IF e.ok THEN c.mem ELSE e.mem, owned')
          /\ procs' = IF e.ok THEN Append(procs, c.proc) ELSE procs

\* The first tick takes the CPU from the boot thread for good.
Dispatch ==
    /\ ~Wild(mem) /\ pc = "run" /\ procs # << >>
    /\ pc' = "user"
    /\ UNCHANGED <<mem, gb4, owned, procs, calls>>

\* Four frees, all of higher-half addresses, the page map's twice and the stack's
\* wherever rsp was saved last.
process_destroy(m, p) ==
    LET pagemap_freed == pmm_free_page(vmm_destroy_pagemap(m, p.pagemap), HigherHalf(p.pagemap))
    IN  pmm_free_page(pmm_free_page(pagemap_freed, HigherHalf(p.stack)), HigherHalf(p.proc))

Exit(k) ==
    /\ pc = "user" /\ procs[k].alive
    /\ mem' = process_destroy(mem, procs[k])
    /\ procs' = [procs EXCEPT ![k].alive = FALSE]
    /\ UNCHANGED <<pc, gb4, owned, calls>>

Idle == \A k \in DOMAIN procs : ~procs[k].alive

\* The model stops here: the bound is reached, memory is not to be trusted, or
\* every process has exited.
Done ==
    /\ calls = MaxCalls \/ Wild(mem) \/ (pc = "user" /\ Idle)
    /\ UNCHANGED vars

Next ==
    \/ MapSections \/ MapDirect \/ CreateContext \/ TestVmm
    \/ \E pages \in HeapSizes : liballoc_alloc(pages)
    \/ \E reg \in owned : liballoc_free(reg)
    \/ scheduler_create_process
    \/ \E image \in Images, pages \in BufferSizes \cup {0} :
          scheduler_create_elf_process(image, pages)
    \/ Dispatch
    \/ \E k \in DOMAIN procs : Exit(k)
    \/ Done

Spec == Init /\ [][Next]_vars

--------------------------------------------------------------------------------
(* Properties *)

\* What pmm_free_page may be given.
Pointer == Frame \cup {HigherHalf(f) : f \in Frame}

\* The variables have their types; in particular the tables hold page flags and
\* never the ELF file's own, and the PMM's stack stays within stack.max.
TypeOK ==
    /\ mem.stack \in Seq(Pointer \ {0}) /\ Len(mem.stack) <= mem.max
    /\ mem.held \subseteq Frame \ {0}
    /\ \A f \in Frame :
          /\ \A i \in DOMAIN NoTable : mem.table[f][i].flags \subseteq Flags
          /\ {mem.region[f].next, mem.region[f].prev} \subseteq Frame \cup {NULL}
    /\ gb4 \in 0 .. Gb4 /\ pc \in {"vmm", "direct", "vma", "test", "run", "user"}
    /\ \A r \in owned : r.start \in Lower /\ r.size \in HeapSizes
    /\ Len(procs) <= MAX_PROCESSES
    /\ calls \in 0 .. MaxCalls

Regions == Range(RegionList(mem))

\* Nothing happened that makes a frame or a region belong to two.
Sane == ~Wild(mem)

\* vma_alloc and vma_free keep the list of regions a doubly linked list, ordered
\* and without overlap, that holds every region handed out, each with a first
\* page of its own; except that a region put into a gap leaves prev stale behind
\* it, which holds until that successor is freed.
HeapSound ==
    pc \in {"run", "user"} /\ Sane =>
        /\ \A f \in Regions : LET r == mem.region[f] IN
              r.next # NULL =>
                 /\ mem.region[r.next].start >= End(r)
                 /\ r.next \in mem.stale \/ mem.region[r.next].prev = f
        /\ \A r \in owned :
              /\ \E f \in Regions : mem.region[f].start = r.start /\ mem.region[f].size = r.size
              /\ virt_to_phys(mem, mem.kernel, r.start) \in mem.held
        /\ \A r, s \in owned :
              virt_to_phys(mem, mem.kernel, r.start) = virt_to_phys(mem, mem.kernel, s.start)
                 => r = s

\* The tables that the present ones of these entries lead to.
NextTables(m, tables, entries) ==
    UNION {{m.table[t][i].to : i \in {i \in entries : Present(m.table[t][i])}} : t \in tables}

\* The tables of a page map that are reached through these entries, and itself.
TablesOf(m, pagemap, entries) ==
    LET pml3 == NextTables(m, {pagemap}, entries)
        pml2 == NextTables(m, pml3, DOMAIN NoTable)
        pml1 == NextTables(m, pml2, DOMAIN NoTable)
    IN {pagemap} \cup pml3 \cup pml2 \cup pml1

ImagePages(image) == {x.page : x \in Range(LoadOrder(image))}

\* The frames that each part of the kernel (0) and of each process uses.
Use(of, part, frames) == [of |-> of, part |-> part, frames |-> frames]

KernelUses ==
    {Use(0, "tables", TablesOf(mem, mem.kernel, DOMAIN NoTable)),
     Use(0, "regions", Regions),
     Use(0, "context", {mem.ctx}),
     Use(0, "heap", {virt_to_phys(mem, mem.kernel, r.start) : r \in owned})}

ProcessUses(k) == LET p == procs[k] IN
    {Use(k, "tables", TablesOf(mem, p.pagemap, 0 .. (Half - 1))),
     Use(k, "process", {p.proc}),
     Use(k, "stack", {p.stack}),
     Use(k, "image", {virt_to_phys(mem, p.pagemap, v) : v \in ImagePages(p.image)})}

Users == KernelUses \cup UNION {ProcessUses(k) : k \in DOMAIN procs}

\* No two program headers of an image share a page.
Separate(image) ==
    Len(LoadOrder(image)) = Cardinality(ImagePages(image))

\* Until a free gives back frames that the region never had: no frame serves two
\* purposes or is free while it is used, and if nothing failed either, every
\* frame is free or used: creating tables, regions and processes leaks nothing.
FramesAccounted ==
    pc \in {"run", "user"} /\ Sane /\ "stray" \notin mem.events =>
        LET users == Users
            free == Range(mem.stack)
        IN /\ \A u, v \in users : u # v => u.frames \cap v.frames = {}
           /\ \A u \in users : u.frames \cap free = {}
           /\ mem.events = {} /\ (\A k \in DOMAIN procs : Separate(procs[k].image))
                 => (UNION {u.frames : u \in users}) \cup free = 1 .. mem.max

\* The bytes a process sees at its page, through its own page map.
Seen(p, page) == mem.data[virt_to_phys(mem, p.pagemap, page)]

Aligned(image) ==
    \A k \in DOMAIN image.headers : image.headers[k].vaddr % PAGE_SIZE = 0

\* elf_load copies page by page through the direct map: whatever else is loaded
\* or allocated afterwards, a process finds every byte of an aligned image at
\* its address, and zeroes in the rest of each segment.
ElfImage ==
    Sane =>
        \A k \in DOMAIN procs : LET p == procs[k] IN
            Aligned(p.image) /\ Separate(p.image) =>
                \A h \in DOMAIN p.image.headers : LET ph == p.image.headers[h] IN
                    ph.type = "PT_LOAD" =>
                        \A o \in 0 .. (ph.memsz - 1) :
                            Seen(p, (ph.vaddr + o) \div PAGE_SIZE)[(ph.vaddr + o) % PAGE_SIZE]
                               = IF o < ph.filesz THEN ph.offset + o + 1 ELSE 0

\* vmm_init gives every table the flags of the first page mapped in it; in the
\* order of its loops each section of the kernel ends up with the rights asked
\* for, in the kernel's page map and in that of every process.
KernelRights ==
    pc # "vmm" /\ Sane =>
        \A k \in DOMAIN Sections :
            \A pagemap \in {mem.kernel} \cup {procs[n].pagemap : n \in DOMAIN procs} :
                Rights(mem, pagemap, Sections[k].virt) = Sections[k].flags

\* Whatever a process or a heap user does to its own space, no other space and
\* no region of another owner is translated differently, and every process
\* shares the kernel's upper half.
Spaces == INSTANCE AddressSpace WITH
    view <- [space |-> IF pc \notin {"run", "user"} THEN << >>
                       ELSE [s \in 0 .. Len(procs) |->
                               Translations(mem, IF s = 0 THEN mem.kernel
                                                 ELSE procs[s].pagemap)],
             owned |-> owned, broken |-> ~Sane]
IsAddressSpace == Spaces!Spec

\* liballoc counts on all the pages it asked for: "Resource allocated %x of %i
\* pages" (liballoc.c:186).  Every page of a region handed out is a frame that
\* the heap was given.
HeapPages ==
    Sane => \A r \in owned : \A page \in r.start .. (End(r) - 1) :
                virt_to_phys(mem, mem.kernel, page) \in mem.held

\* A page of a process may be used as its program header says: "#define PF_W 0x2
\* // Write" (elf.c:56) and its neighbours.
ElfRights ==
    Sane => \A k \in DOMAIN procs : LET p == procs[k] IN
        Separate(p.image) => \A x \in Range(LoadOrder(p.image)) :
            Rights(mem, p.pagemap, x.page) = PageFlags(x.ph)
================================================================================
