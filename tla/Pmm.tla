---------------------------------- MODULE Pmm ----------------------------------
(***************************************************************************)
(* The physical memory manager, mm/pmm.c.                                  *)
(*                                                                         *)
(* A frame is a page number: the boot loader's usable entries are page     *)
(* aligned, so base, length and array_size are counted in pages and        *)
(* PtrsPerPage stands for PAGE_SIZE / 8.  pmm_init runs with one action    *)
(* per loop iteration; afterwards any caller may request or free a page.   *)
(*                                                                         *)
(* Callers are not trusted: pmm_free_page takes any pointer, and           *)
(* process_destroy does pass it pages twice and virtual addresses.  The    *)
(* history variable misused records that some caller has freed a page it   *)
(* did not hold, and the frames freed may then be any: vma_free even frees *)
(* identity-mapped frames that were never handed out.                      *)
(***************************************************************************)
EXTENDS Integers, Sequences, FiniteSets

CONSTANTS MemMaps,      \* the memory maps the boot loader may hand over
          PtrsPerPage,  \* stack entries that fit in one page
          Alias         \* pointers that are no frame: HIGHER_HALF addresses

Null == 0

Frames(e) == e.base .. (e.base + e.length - 1)

UsableFrames(mm, n) ==
    UNION {Frames(mm[k]) : k \in {k \in DOMAIN mm : k <= n /\ mm[k].type = "usable"}}

Entry == [base : Nat \ {0}, length : Nat, type : {"usable", "other"}]

(***************************************************************************)
(* What the boot protocol guarantees: usable entries do not overlap, and   *)
(* frame 0 is never usable.                                                *)
(***************************************************************************)
WellFormed(mm) ==
    /\ mm \in Seq(Entry)
    /\ \A k, l \in DOMAIN mm :
          k # l /\ mm[k].type = "usable" /\ mm[l].type = "usable"
             => Frames(mm[k]) \cap Frames(mm[l]) = {}

ASSUME PtrsAssumption == PtrsPerPage \in Nat \ {0}
ASSUME MapAssumption == \A mm \in MemMaps : WellFormed(mm)
ASSUME AliasAssumption ==
    /\ Alias \subseteq Nat \ {0}
    /\ \A mm \in MemMaps : Alias \cap UsableFrames(mm, Len(mm)) = {}

VARIABLES
    limine,      \* the memory map as the boot loader left it
    memmap,      \* _memmap: the same entries, as pmm_init changes them
    pc,          \* the loop pmm_init is in, "ready" after it, "fault" on a CPU fault
    i, j,        \* its loop counters
    free_pages, array_size,
    pages,       \* stack.pages: first frame of the stack's array, or Null
    slot,        \* what the array holds
    idx, max,    \* stack.idx, stack.max
    held,        \* frames handed out and not freed since
    misused      \* some caller freed a page it did not hold

init_vars == <<limine, memmap, i, j, free_pages, array_size, pages, max>>
vars == <<limine, memmap, pc, i, j, free_pages, array_size, pages, slot, idx, max,
          held, misused>>

Managed == UsableFrames(limine, Len(limine))
ArrayFrames == IF pages = Null THEN {} ELSE pages .. (pages + array_size - 1)
Stacked == {slot[k] : k \in 0 .. (idx - 1)}

\* Mutant: the index is incremented before the store.
PutNext(f, k, v) == [n \in DOMAIN f \cup {k + 1} |-> IF n = k + 1 THEN v ELSE f[n]]

Put(f, k, v) == [n \in DOMAIN f \cup {k} |-> IF n = k THEN v ELSE f[n]]

Init ==
    /\ limine \in MemMaps
    /\ memmap = limine
    /\ pc = "count"
    /\ i = 1 /\ j = 0
    /\ free_pages = 0 /\ array_size = 0
    /\ pages = Null /\ slot = << >>
    /\ idx = 0 /\ max = 0
    /\ held = {} /\ misused = FALSE

--------------------------------------------------------------------------------
(* pmm_init *)

\* First loop: count the pages of the usable entries.
CountEntry ==
    /\ pc = "count" /\ i <= Len(memmap)
    /\ free_pages' = free_pages + (IF memmap[i].type = "usable" THEN memmap[i].length ELSE 0)
    /\ i' = i + 1
    /\ UNCHANGED <<limine, memmap, pc, j, array_size, pages, slot, idx, max, held, misused>>

\* Mutant: the size of the array is rounded down to whole pages.
DIV_ROUND_DOWN(x, y) == x \div y

DIV_ROUND_UP(x, y) == (x + (y - 1)) \div y

SizeArray ==
    /\ pc = "count" /\ i > Len(memmap)
    /\ array_size' = DIV_ROUND_UP(free_pages, PtrsPerPage)
    /\ pc' = "place" /\ i' = 1
    /\ UNCHANGED <<limine, memmap, j, free_pages, pages, slot, idx, max, held, misused>>

\* Second loop: the first usable entry that is long enough hosts the array.
Hosts(e) == e.length >= array_size /\ e.type = "usable"

\* Mutant: the entry's base is not moved past the array.
BehindKeepBase(e) ==
    [base |-> e.base, length |-> e.length - array_size, type |-> e.type]

Behind(e) ==    \* what is left of the entry
    [base |-> e.base + array_size, length |-> e.length - array_size, type |-> e.type]

SkipEntry ==
    /\ pc = "place" /\ i <= Len(memmap) /\ ~Hosts(memmap[i])
    /\ i' = i + 1
    /\ UNCHANGED <<limine, memmap, pc, j, free_pages, array_size, pages, slot, idx, max,
                   held, misused>>

PlaceArray ==
    /\ pc = "place" /\ i <= Len(memmap) /\ Hosts(memmap[i])
    /\ pages' = memmap[i].base
    /\ memmap' = [memmap EXCEPT ![i] = Behind(@)]
    /\ pc' = "push" /\ i' = 1 /\ j' = 0
    /\ UNCHANGED <<limine, free_pages, array_size, slot, idx, max, held, misused>>

\* No entry is long enough: the loop ends and stack.pages stays NULL.
NoPlace ==
    /\ pc = "place" /\ i > Len(memmap)
    /\ pc' = "push" /\ i' = 1 /\ j' = 0
    /\ UNCHANGED <<limine, memmap, free_pages, array_size, pages, slot, idx, max, held,
                   misused>>

\* Third loop: push every page of every usable entry.
MorePages == i <= Len(memmap) /\ memmap[i].type = "usable" /\ j < memmap[i].length

\* Mutant: pages are counted from one instead of zero.
PageAfter == memmap[i].base + j + 1

PageAt == memmap[i].base + j

PushPage ==
    /\ pc = "push" /\ MorePages /\ pages # Null
    /\ slot' = Put(slot, idx, PageAt)
    /\ idx' = idx + 1 /\ j' = j + 1
    /\ UNCHANGED <<limine, memmap, pc, i, free_pages, array_size, pages, max, held, misused>>

\* With stack.pages NULL the first push writes to an address that is not mapped.
PushFault ==
    /\ pc = "push" /\ MorePages /\ pages = Null
    /\ pc' = "fault"
    /\ UNCHANGED <<init_vars, slot, idx, held, misused>>

NextEntry ==
    /\ pc = "push" /\ i <= Len(memmap) /\ ~MorePages
    /\ i' = i + 1 /\ j' = 0
    /\ UNCHANGED <<limine, memmap, pc, free_pages, array_size, pages, slot, idx, max, held,
                   misused>>

FinishInit ==
    /\ pc = "push" /\ i > Len(memmap)
    /\ max' = idx /\ pc' = "ready"
    /\ UNCHANGED <<limine, memmap, i, j, free_pages, array_size, pages, slot, idx, held,
                   misused>>

pmm_init ==
    \/ CountEntry \/ SizeArray \/ SkipEntry \/ PlaceArray \/ NoPlace
    \/ PushPage \/ PushFault \/ NextEntry \/ FinishInit

--------------------------------------------------------------------------------
(* pmm_request_page *)

Top == slot[idx - 1]

\* memset(HIGHER_HALF(f), 0, PAGE_SIZE): clearing a frame of the stack's array
\* clears the entries that lie in it.
Cleared(f) ==
    [n \in DOMAIN slot |->
        IF f \in ArrayFrames /\ n \div PtrsPerPage = f - pages THEN Null ELSE slot[n]]

\* Mutant: the index is not decremented.
RequestPageKeepIdx ==
    /\ pc = "ready" /\ idx > 0 /\ Top \in Managed \cup {Null}
    /\ held' = held \cup ({Top} \ {Null})
    /\ slot' = Cleared(Top)
    /\ UNCHANGED <<init_vars, pc, idx, misused>>

RequestPage ==
    /\ pc = "ready" /\ idx > 0 /\ Top \in Managed \cup {Null}
    /\ idx' = idx - 1
    /\ held' = held \cup ({Top} \ {Null})
    /\ slot' = Cleared(Top)
    /\ UNCHANGED <<init_vars, pc, misused>>

\* HIGHER_HALF of an entry that is no frame is not an address: the memset
\* faults and the kernel halts.
RequestFault ==
    /\ pc = "ready" /\ idx > 0 /\ Top \notin Managed \cup {Null}
    /\ idx' = idx - 1
    /\ pc' = "fault"
    /\ UNCHANGED <<init_vars, slot, held, misused>>

RequestNone ==
    /\ pc = "ready" /\ idx = 0
    /\ UNCHANGED vars

pmm_request_page == RequestPage \/ RequestFault \/ RequestNone

--------------------------------------------------------------------------------
(* pmm_free_page *)

Callers(ptr) ==   \* what the call does to the callers' side
    /\ held' = held \ {ptr}
    /\ misused' = (misused \/ ptr \notin held)

\* Mutant: one entry of the stack is kept spare.
FullEarly == idx + 1 >= max

Full == idx >= max

FreePage(ptr) ==
    /\ pc = "ready" /\ ptr # Null /\ ~Full
    /\ slot' = Put(slot, idx, ptr)
    /\ idx' = idx + 1
    /\ Callers(ptr)
    /\ UNCHANGED <<init_vars, pc>>

FreeRefused(ptr) ==
    /\ pc = "ready" /\ ptr # Null /\ Full
    /\ Callers(ptr)
    /\ UNCHANGED <<init_vars, pc, slot, idx>>

FreeNull(ptr) == pc = "ready" /\ ptr = Null /\ UNCHANGED vars

pmm_free_page(ptr) == FreePage(ptr) \/ FreeRefused(ptr) \/ FreeNull(ptr)

--------------------------------------------------------------------------------
Halted == pc = "fault" /\ UNCHANGED vars   \* panic, then hcf()

Next ==
    \/ pmm_init
    \/ pmm_request_page
    \/ \E ptr \in Managed \cup Alias \cup {Null} : pmm_free_page(ptr)
    \/ Halted

Spec == Init /\ [][Next]_vars

--------------------------------------------------------------------------------
(* Properties *)

\* The variables have their types; in particular the stack holds one entry for
\* every index below stack.idx.
TypeOK ==
    /\ limine \in MemMaps
    /\ memmap \in Seq(Entry)
    /\ pc \in {"count", "place", "push", "ready", "fault"}
    /\ i \in Nat \ {0} /\ j \in Nat
    /\ free_pages \in Nat /\ array_size \in Nat
    /\ pages \in Nat
    /\ idx \in Nat /\ max \in Nat
    /\ \A k \in 0 .. (idx - 1) : k \in DOMAIN slot /\ slot[k] \in Nat
    /\ held \subseteq Nat \ {0}
    /\ misused \in BOOLEAN

\* pmm.c sizes the array in one loop and fills it in another, from a map changed
\* in between, and pmm_free_page pushes what it is given: the stack never grows
\* past the pages that pmm_init set aside for it, whatever the callers free.
StackFits == idx <= PtrsPerPage * array_size

\* The frames that hold the stack's own array are never on the stack nor handed
\* out, as long as callers free only what they hold.
ArrayReserved == ~misused => ArrayFrames \cap (Stacked \cup held) = {}

\* No frame is on the stack twice, or on the stack while a caller owns it, as
\* long as callers free only what they hold: no page gets two owners.
NoDoubleUse ==
    ~misused =>
        /\ \A k, l \in 0 .. (idx - 1) : slot[k] = slot[l] => k = l
        /\ Stacked \cap held = {}

\* After pmm_init no frame is lost: whatever is not the array itself is free or
\* held.  In particular the "Stack overflow" refusal of pmm_free_page never
\* drops a page that a caller was entitled to return.
Conserved ==
    pc = "ready" /\ ~misused => Stacked \cup held = Managed \ ArrayFrames

\* pmm.c implements the page allocator it is used as.
Allocator == INSTANCE PageAllocator WITH
    Frame <- UNION {UsableFrames(mm, Len(mm)) : mm \in MemMaps},
    free <- IF misused THEN {} ELSE Stacked,
    held <- IF misused THEN {} ELSE held,
    sealed <- pc = "ready" \/ misused,
    broken <- misused
IsAllocator == Allocator!Spec
================================================================================
