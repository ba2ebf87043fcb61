----------------------------------- MODULE Vma ----------------------------------
(***************************************************************************)
(* Virtual memory regions, mm/vma.c: the list the kernel heap is made of.  *)
(*                                                                         *)
(* A region descriptor fills a frame of its own; a pointer to one is that  *)
(* frame's number, or NULL.  Starts are page numbers.                      *)
(*                                                                         *)
(* History: "overlap", a region was put into a gap too small for it; stale,*)
(* the descriptors whose prev was not corrected when a region was put      *)
(* before them; "lost", one of those was freed; "stolen", a free gave back *)
(* a frame that somebody else holds; "nomem", an allocation failed.        *)
(***************************************************************************)
EXTENDS Vmm

CONSTANT WordSize    \* 2^64: what region arithmetic wraps at

ASSUME WordAssumption == WordSize \in Nat /\ WordSize > 2 * PAGE_SIZE * Fan * Fan * Fan * Fan

HeapFlags == {"P", "W"}

End(r) == r.start + r.size

vma_create_context(m) ==
    LET c == RequestHigherHalf(m)
        r == RequestHigherHalf(c.mem)
    IN [r.mem EXCEPT !.ctx = c.page, !.root = r.page,
                     !.region[r.page] = [NoRegion EXCEPT !.size = 1]]

\* The frames of the list from the root on, which are not more than there are.
RegionList(m) ==
    LET upTo[k \in 1 .. LastFrame] ==
            IF k = 1 THEN <<m.root>>
            ELSE LET l == upTo[k - 1]
                     n == m.region[Last(l)].next
                 IN IF n = NULL THEN l ELSE Append(l, n)
    IN upTo[LastFrame]

vma_destroy_context(m) ==
    Note(pmm_free_page(FoldLeft(pmm_free_page, m, RegionList(m)), m.ctx), "ctxfreed")

--------------------------------------------------------------------------------
(* vma_alloc *)

\* end - next->start >= size, unsigned, in bytes on the left and in pages on the
\* right.  A NULL next is read too: the word at address 0 is the real-mode
\* interrupt table's, larger than any heap address, and the test then holds.
GapFound(m, r, size) ==
    LET next == m.region[r].next
    IN \/ next = NULL
       \/ ((End(m.region[r]) - m.region[next].start) * PAGE_SIZE) % WordSize >= size

\* The region the new one is put after: the root when it is alone, else the first
\* one behind the root that passes the test, at the latest the last one.
After(m, size) ==
    LET l == RegionList(m)
    IN IF Len(l) = 1 THEN m.root
       ELSE l[CHOOSE k \in 2 .. Len(l) :
                 /\ k = Len(l) \/ GapFound(m, l[k], size)
                 /\ \A j \in 2 .. (k - 1) : ~GapFound(m, l[j], size)]

\* The new descriptor goes between r and its successor, whose prev stays.
Link(m, r, new, size) ==
    LET next == m.region[r].next
        start == End(m.region[r])
    IN [(IF next # NULL /\ m.region[next].start < start + size
            THEN Note(m, "overlap") ELSE m) EXCEPT
            !.region[new] = [start |-> start, size |-> size, next |-> next, prev |-> r],
            !.region[r].next = new,
            !.stale = IF next = NULL THEN @ ELSE @ \cup {next}]

\* size is in pages, and yet rounded up to pages: one page is mapped for it.
MappedPages(size) == (size + PAGE_SIZE - 1) \div PAGE_SIZE

\* One iteration of the loop that maps the region; a failure ends it.
MapHeapPage(a, page) ==
    IF a.start = NULL THEN a
    ELSE LET r == pmm_request_page(a.mem)
         IN IF r.page = 0 THEN [mem |-> Note(a.mem, "nomem"), start |-> NULL]
            ELSE [a EXCEPT !.mem = vmm_map(r.mem, a.mem.kernel, page, r.page, HeapFlags)]

\* Returns the memory and the start of the region, or NULL.
vma_alloc(m, size) ==
    LET r == After(m, size)
        new == RequestHigherHalf(m)
        start == End(m.region[r])
    IN FoldLeft(MapHeapPage,
                [mem |-> Link(new.mem, r, new.page, size), start |-> start],
                [i \in 1 .. MappedPages(size) |-> start + i - 1])

--------------------------------------------------------------------------------
(* vma_free *)

\* Mutant: the page is unmapped before its frame is looked up.
UnmapFirst(m, page, first) ==
    LET unmapped == vmm_unmap(m, m.kernel, page)
    IN pmm_free_page(unmapped, virt_to_phys(unmapped, m.kernel, page))

\* One iteration of its loop.  Only the first page's frame was given to the region.
FreeHeapPage(m, page, first) ==
    LET f == virt_to_phys(m, m.kernel, page)
        freed == pmm_free_page(m, f)
    IN vmm_unmap(IF page # first /\ f \in m.held THEN Note(freed, "stolen") ELSE freed,
                 m.kernel, page)

FreeHeapPages(m, start, size) ==
    LET FreeOne(a, page) == FreeHeapPage(a, page, start)
    IN FoldLeft(FreeOne, m, [i \in 1 .. size |-> start + i - 1])

\* Mutant: the next region keeps its pointer to the one that is freed.
UnlinkForward(m, r) ==
    LET prev == m.region[r].prev
    IN [m EXCEPT !.region = IF prev = NULL THEN @
                            ELSE [@ EXCEPT ![prev].next = m.region[r].next]]

Unlink(m, r) ==
    LET prev == m.region[r].prev
        next == m.region[r].next
    IN [m EXCEPT !.region = [f \in Frame |->
                     CASE f = prev -> [@[f] EXCEPT !.next = next]
                       [] f = next -> [@[f] EXCEPT !.prev = prev]
                       [] OTHER    -> @[f]],
                 !.root = IF r = m.root THEN next ELSE @,
                 !.stale = @ \ {r, next}]

vma_free(m, start) ==
    LET l == RegionList(m)
        found == {k \in DOMAIN l : m.region[l[k]].start = start}
        r == l[CHOOSE k \in found : \A j \in found : k <= j]
        noted == IF r \in m.stale THEN Note(m, "lost") ELSE m
        unmapped == FreeHeapPages(noted, start, m.region[r].size)
    IN IF found = {} THEN m ELSE pmm_free_page(Unlink(unmapped, r), r)

--------------------------------------------------------------------------------
(* test_vmm: allocate a page and free it, again and again *)

test_vmm(m, tests) ==
    LET Test(a, i) ==
            IF Wild(a) THEN a
            ELSE LET r == vma_alloc(a, 1)
                 IN IF r.start = NULL THEN vma_destroy_context(r.mem)
                    ELSE vma_free(r.mem, r.start)
    IN FoldLeft(Test, m, [i \in 1 .. tests |-> i])
================================================================================
