------------------------------ MODULE MemoryProofs ------------------------------
(***************************************************************************)
(* What is proved of ProcessMemory, for every size of memory, every set of *)
(* files and every number of calls: who uses the frames that VmaProofs     *)
(* labels, and what follows from it.  Exits only push on the PMM's stack   *)
(* addresses that are no frame's number, so memory in the last phase is    *)
(* that of the phase before but for the stack.                             *)
(***************************************************************************)
EXTENDS ProcessMemory, VmaProofs

--------------------------------------------------------------------------------
(* Who uses what: the state of memory that is not wild *)

FirstFrame(m, r) == virt_to_phys(m, m.kernel, r.start)
ImageFrame(m, i) == virt_to_phys(m, i[1], i[2])

SectionRights(m) == \A k \in 1 .. 4 : Rights(m, m.kernel, Sections[k].virt) = Sections[k].flags

\* Each heap region handed out has a first page of its own,
HeapOwned(m, use, handed) ==
    /\ \A r \in handed : use[FirstFrame(m, r)] = HeapUse
    /\ \A r, s \in handed : FirstFrame(m, r) = FirstFrame(m, s) => r = s

\* and so has each page of an image: the page map and the virtual page.
ImagesOwned(m, use, maps, images) ==
    /\ \A i \in images : i \in Frame \X Lower /\ i[1] \in maps /\ use[ImageFrame(m, i)] = ImageUse
    /\ \A i, j \in images : ImageFrame(m, i) = ImageFrame(m, j) => i = j

MapsOwned(m, use, maps) == \A p \in maps : p \in Frame /\ use[p] = 4 /\ p # m.kernel
OthersOwned(use, others) == \A f \in others : f \in Frame /\ use[f] = OtherUse

\* Every table but the page maps hangs in one.
Parented(m, use) ==
    \A f \in Frame : use[f] \in 1 .. 3 =>
       \E g \in Frame, j \in Slots : use[g] = use[f] + 1 /\ Present(m.table[g][j])
                                        /\ m.table[g][j].to = f

\* There are no other page maps, descriptors and so on than these.
Complete(m, use, l, handed, maps, others) ==
    \A f \in Frame :
        /\ use[f] = 4 => f = m.kernel \/ f \in maps
        /\ use[f] = RegionUse => f \in Members(l)
        /\ use[f] = HeapUse => \E r \in handed : f = FirstFrame(m, r)
        /\ use[f] = OtherUse => f \in others

Sound(m, use, l, handed, maps, others, images) ==
    /\ use \in Uses /\ Tree(m, use) /\ HeapList(m, use, l) /\ SectionRights(m)
    /\ handed \subseteq RegionsOf(m, l) /\ HeapOwned(m, use, handed)
    /\ MapsOwned(m, use, maps) /\ OthersOwned(use, others) /\ ImagesOwned(m, use, maps, images)
    /\ Parented(m, use) /\ ("stray" \notin m.events => Whole(m))

\* As long as nothing failed, nothing is lost either.
Good(m, use, l, handed, maps, others, images) ==
    /\ Sound(m, use, l, handed, maps, others, images)
    /\ m.events = {} => Complete(m, use, l, handed, maps, others)

\* Where the regions of a chain lie.
LEMMA RegionBounds ==
    ASSUME NEW P, NEW B \in Nat, B <= HHDM, NEW m \in Memory(P, B), NEW l, Chain(m, l),
           NEW x \in RegionsOf(m, l)
    PROVE  /\ x.start \in Nat /\ x.size \in Nat /\ x.size >= 1 /\ x.start >= 1
           /\ x.start + x.size <= B /\ PagesOf(x) \subseteq Lower /\ x.start \in Lower
           /\ x.start \in Virt /\ x = [start |-> x.start, size |-> x.size]
<1>0. m.region \in [Frame -> Region] /\ l \in Seq(Frame) /\ \A f \in Frame : End(m.region[f]) <= B
  BY DEF Memory, MemoryRecord, Chain
<1>1. PICK k \in 2 .. Len(l) : x = Extent(m, l[k])
  BY DEF RegionsOf
<1>2. PICK N \in Nat : N = Len(l) /\ k \in 1 .. N /\ 1 \in 1 .. N /\ 1 < k
  BY <1>0, <1>1
<1>3. PICK f \in Frame, g \in Frame : f = l[k] /\ g = l[1]
  BY <1>0, <1>2
<1>4. m.region[f].size >= 1 /\ m.region[g].size >= 1 /\ m.region[g].start = 0
      /\ End(m.region[g]) <= m.region[f].start
  BY <1>2, <1>3 DEF Chain
<1>5. PICK s \in Nat, z \in Nat, y \in Nat :
         s = m.region[f].start /\ z = m.region[f].size /\ y = m.region[g].size
  BY <1>0 DEF Region
<1>6. x = [start |-> s, size |-> z]
  BY <1>1, <1>3, <1>5 DEF Extent
<1>7. z >= 1 /\ y >= 1 /\ 0 + y <= s /\ s + z <= B
  BY <1>0, <1>4, <1>5 DEF End
<1>8. s >= 1 /\ \A p \in s .. (s + z - 1) : p \in Nat /\ p < HHDM
  <2>1. HHDM \in Nat
    BY LowerVirt
  <2> QED BY <1>7, <2>1
<1>9. s .. (s + z - 1) \subseteq Lower /\ s \in Lower
  <2>1. s \in s .. (s + z - 1)
    BY <1>7
  <2> QED BY <1>8, <2>1, LowerVirt
<1> QED BY <1>6, <1>7, <1>8, <1>9, LowerVirt DEF PagesOf

\* Two regions of a chain do not overlap.
LEMMA RegionsApart ==
    ASSUME NEW P, NEW B \in Nat, NEW m \in Memory(P, B), NEW l, Chain(m, l),
           NEW x \in RegionsOf(m, l), NEW y \in RegionsOf(m, l), x # y
    PROVE  x.start + x.size <= y.start \/ y.start + y.size <= x.start
<1>0. l \in Seq(Frame)
  BY DEF Chain
<1>1. PICK j \in 2 .. Len(l), k \in 2 .. Len(l) : x = Extent(m, l[j]) /\ y = Extent(m, l[k])
  BY DEF RegionsOf
<1>2. j # k /\ j \in 1 .. Len(l) /\ k \in 1 .. Len(l) /\ (j < k \/ k < j)
  BY <1>0, <1>1
<1>3. /\ End(m.region[l[j]]) = x.start + x.size /\ End(m.region[l[k]]) = y.start + y.size
      /\ m.region[l[j]].start = x.start /\ m.region[l[k]].start = y.start
  BY <1>1 DEF Extent, End
<1> QED BY <1>2, <1>3 DEF Chain

\* The sections lie in the upper half.
LEMMA SectionsUpper ==
    ASSUME NEW k \in 1 .. 4
    PROVE  Sections[k].virt \in Virt /\ Sections[k].virt \notin Lower
<1>0. /\ Fan \in Nat /\ Fan >= 4 /\ Half \in Nat /\ Half >= 1 /\ Half < Fan - 1
  BY Constants
<1>1. PICK C \in Nat : C = Fan * Fan * Fan /\ C >= 4
  <2>1. Fan * Fan \in Nat /\ Fan * Fan >= 4
    BY <1>0
  <2>2. (Fan * Fan) * Fan \in Nat /\ (Fan * Fan) * Fan >= 4
    BY <1>0, <2>1
  <2> QED BY <2>2
<1>2. KernelBase = (Fan - 1) * C /\ HHDM = Half * C /\ Fan * Fan * Fan * Fan = Fan * C
  <2>1. /\ (Fan - 1) * Fan * Fan * Fan = (Fan - 1) * (Fan * Fan * Fan)
        /\ Half * Fan * Fan * Fan = Half * (Fan * Fan * Fan)
        /\ Fan * Fan * Fan * Fan = Fan * (Fan * Fan * Fan)
    BY <1>0
  <2> QED BY <1>1, <2>1 DEF KernelBase, HHDM
<1>3. (Fan - 1) * C \in Nat /\ Half * C \in Nat /\ Fan * C = (Fan - 1) * C + C
      /\ Half * C <= (Fan - 1) * C
  BY <1>0, <1>1
<1>4. Sections[k].virt = (Fan - 1) * C + (k - 1)
  BY <1>2, SectionsAre
<1>5. Sections[k].virt \in 0 .. (Fan * C - 1) /\ Sections[k].virt \notin 0 .. (Half * C - 1)
  BY <1>1, <1>3, <1>4
<1> QED BY <1>2, <1>5 DEF Virt, Lower, HHDM

\* A step that leaves the users of memory their frames, and all views but those of
\* the pages S of the page map q.
Moves(m, n, use, use2, q, S) ==
    /\ use2 \in Uses /\ Tree(n, use2) /\ SameBut(m, n, use, q, S)
    /\ n.kernel = m.kernel /\ n.ctx = m.ctx /\ m.events \subseteq n.events
    /\ Parented(m, use) => Parented(n, use2)
    /\ "stray" \notin n.events /\ Whole(m) => Whole(n)
    /\ \A f \in Frame : use[f] \in {4, OtherUse, ImageUse} => use2[f] = use[f]
    /\ \A f \in Frame : use[f] = ImageUse => n.data[f] = m.data[f]

\* The pages S of the page map q are nobody's.
Untouched(m, q, S, handed, images) ==
    /\ q = m.kernel => S \cap Virt \subseteq Lower /\ \A r \in handed : r.start \notin S
    /\ \A i \in images : ~(i[1] = q /\ i[2] \in S)

\* The users keep what they have.
LEMMA SoundKept ==
    ASSUME NEW B \in Nat, B <= HHDM, NEW m \in Memory(Frame, B), NEW use, NEW l, NEW owned1,
           NEW maps, NEW others, NEW images, Sound(m, use, l, owned1, maps, others, images),
           NEW n, NEW use2, NEW q, NEW S, Moves(m, n, use, use2, q, S),
           NEW owned2, owned2 \subseteq owned1, Untouched(m, q, S, owned2, images),
           NEW l2, HeapList(n, use2, l2), owned2 \subseteq RegionsOf(n, l2),
           \A r \in owned2 : use2[FirstFrame(m, r)] = HeapUse
    PROVE  /\ Sound(n, use2, l2, owned2, maps, others, images)
           /\ \A r \in owned2 : FirstFrame(n, r) = FirstFrame(m, r)
           /\ \A i \in images : ImageFrame(n, i) = ImageFrame(m, i) /\ ImageFrame(m, i) \in Frame
<1>0. /\ use \in Uses /\ Tree(m, use) /\ Chain(m, l) /\ m.kernel \in Frame /\ use[m.kernel] = 4
      /\ MapsOwned(m, use, maps) /\ OthersOwned(use, others) /\ ImagesOwned(m, use, maps, images)
      /\ HeapOwned(m, use, owned1) /\ SectionRights(m) /\ owned1 \subseteq RegionsOf(m, l)
      /\ Parented(m, use) /\ ("stray" \notin m.events => Whole(m))
  BY DEF Sound, HeapList, Tree, Memory, MemoryRecord
<1>1. /\ use2 \in Uses /\ Tree(n, use2) /\ SameBut(m, n, use, q, S)
      /\ n.kernel = m.kernel /\ m.events \subseteq n.events
      /\ Parented(n, use2) /\ ("stray" \notin n.events => Whole(n))
      /\ \A f \in Frame : use[f] \in {4, OtherUse, ImageUse} => use2[f] = use[f]
  BY <1>0 DEF Moves
<1>2. \A p \in Frame, w \in Virt : use[p] = 4 /\ ~(p = q /\ w \in S) => View(n, p, w) = View(m, p, w)
  BY <1>1 DEF SameBut
<1>3. \A a, p, w : View(a, p, w)[1] = virt_to_phys(a, p, w) /\ View(a, p, w)[2] = Rights(a, p, w)
  BY DEF View
<1>4. SectionRights(n)
  <2> SUFFICES ASSUME NEW k \in 1 .. 4
               PROVE  Rights(n, m.kernel, Sections[k].virt) = Sections[k].flags
    BY <1>1 DEF SectionRights
  <2>1. PICK w : w = Sections[k].virt /\ w \in Virt /\ w \notin Lower
    BY SectionsUpper
  <2>2. ~(m.kernel = q /\ w \in S)
    BY <2>1 DEF Untouched
  <2>3. View(n, m.kernel, w) = View(m, m.kernel, w)
    BY <1>0, <1>2, <2>1, <2>2
  <2>4. Rights(n, m.kernel, w) = Rights(m, m.kernel, w)
    BY <1>3, <2>3
  <2> QED BY <1>0, <2>1, <2>4 DEF SectionRights
<1>5. \A r \in owned2 : FirstFrame(n, r) = FirstFrame(m, r)
  <2> TAKE r \in owned2
  <2>1. r.start \in Virt
    BY <1>0, RegionBounds
  <2>2. ~(m.kernel = q /\ r.start \in S)
    BY DEF Untouched
  <2>3. View(n, m.kernel, r.start) = View(m, m.kernel, r.start)
    BY <1>0, <1>2, <2>1, <2>2
  <2> QED BY <1>1, <1>3, <2>3 DEF FirstFrame
<1>6. HeapOwned(n, use2, owned2)
  BY <1>0, <1>5 DEF HeapOwned
<1>7. MapsOwned(n, use2, maps)
  BY <1>0, <1>1 DEF MapsOwned
<1>8. OthersOwned(use2, others)
  BY <1>0, <1>1 DEF OthersOwned
<1>9. \A i \in images : ImageFrame(n, i) = ImageFrame(m, i) /\ ImageFrame(m, i) \in Frame
  <2> TAKE i \in images
  <2>1. i[1] \in Frame /\ i[2] \in Virt /\ use[i[1]] = 4 /\ i[2] \in Nat
    BY <1>0, LowerVirt, VirtNat DEF ImagesOwned, MapsOwned
  <2>2. ~(i[1] = q /\ i[2] \in S)
    BY DEF Untouched
  <2>3. View(n, i[1], i[2]) = View(m, i[1], i[2])
    BY <1>2, <2>1, <2>2
  <2>4. virt_to_phys(m, i[1], i[2]) \in Frame
    BY <2>1, TranslatedType
  <2> QED BY <1>3, <2>3, <2>4 DEF ImageFrame
<1>10. ImagesOwned(n, use2, maps, images)
  BY <1>0, <1>1, <1>9 DEF ImagesOwned
<1>11. Sound(n, use2, l2, owned2, maps, others, images)
  BY <1>1, <1>4, <1>6, <1>7, <1>8, <1>10 DEF Sound
<1> QED BY <1>5, <1>9, <1>11

\* Tables that were parented still are, and the new ones hang in the tree.
LEMMA StillParented ==
    ASSUME NEW m, NEW n, NEW use, NEW use2, Parented(m, use), Still(use, use2),
           Reached(n, use, use2),
           \A f \in Frame, i \in Slots :
              use[f] \in 2 .. 4 /\ Present(m.table[f][i]) => n.table[f][i] = m.table[f][i],
           use \in Uses
    PROVE  Parented(n, use2)
<1> SUFFICES ASSUME NEW f \in Frame, use2[f] \in 1 .. 3
             PROVE  \E g \in Frame, j \in Slots : use2[g] = use2[f] + 1 /\ Present(n.table[g][j])
                                                     /\ n.table[g][j].to = f
  BY DEF Parented
<1>1. CASE use[f] = 0
  BY <1>1 DEF Reached
<1>2. CASE use[f] # 0
  <2>1. use2[f] = use[f]
    BY <1>2 DEF Still
  <2>2. PICK g \in Frame, j \in Slots : /\ use[g] = use[f] + 1 /\ Present(m.table[g][j])
                                        /\ m.table[g][j].to = f
    BY <2>1 DEF Parented
  <2>3. use[g] \in 2 .. 4 /\ use[g] # 0
    BY <2>1, <2>2
  <2>4. use2[g] = use2[f] + 1 /\ n.table[g][j] = m.table[g][j]
    BY <2>1, <2>2, <2>3 DEF Still
  <2> QED BY <2>2, <2>4
<1> QED BY <1>1, <1>2

\* Growth keeps memory whole.
LEMMA KeptWhole ==
    ASSUME NEW m, NEW n, Kept(m, n), Whole(m)
    PROVE  Whole(n)
BY DEF Kept, Whole

\* No page of an image came into use.
NoImages(use, use2) == \A f \in Frame : use2[f] = ImageUse => use[f] = ImageUse

\* What a caller of vma_alloc may count on.
GoodAlloc(m, r, use, use2, l2, handed, maps, others, images, size) ==
    /\ Good(r.mem, use2, l2, handed \cup Given(r, size), maps, others, images)
    /\ Moves(m, r.mem, use, use2, m.kernel, {r.start})
    /\ r.mem.root = m.root /\ NoImages(use, use2)
    /\ r.start # NULL => /\ [start |-> r.start, size |-> size] \notin handed
                         /\ r.start .. (r.start + size - 1) \subseteq Lower
                         /\ \A x \in handed : PagesOf(x) \cap (r.start .. (r.start + size - 1)) = {}

\* vma_alloc keeps memory good.
LEMMA AllocGood ==
    ASSUME NEW B \in Nat, NEW m \in Memory(Frame, B), NEW use, NEW l, NEW owned1,
           NEW maps, NEW others, NEW images, Good(m, use, l, owned1, maps, others, images),
           NEW size \in 1 .. PAGE_SIZE, B + size <= HHDM, NEW r, r = vma_alloc(m, size),
           ~Wild(r.mem)
    PROVE  \E use2, l2 : GoodAlloc(m, r, use, use2, l2, owned1, maps, others, images, size)
<1>0. /\ use \in Uses /\ Tree(m, use) /\ HeapList(m, use, l) /\ Chain(m, l) /\ HHDM \in Nat
      /\ owned1 \subseteq RegionsOf(m, l) /\ HeapOwned(m, use, owned1) /\ m.kernel \in Frame
      /\ MapsOwned(m, use, maps) /\ ImagesOwned(m, use, maps, images) /\ Parented(m, use)
      /\ (m.events = {} => Complete(m, use, l, owned1, maps, others)) /\ use[m.kernel] = 4
  BY LowerVirt DEF Good, Sound, HeapList, Memory, MemoryRecord, Tree
<1>1. size \in Nat /\ size >= 1 /\ B < HHDM /\ B <= HHDM
  BY <1>0, Constants
<1>2. PICK use2 \in Uses, l2 \in Seq(Frame), start \in Nat, new \in Frame :
         Allocates(m, r, use, use2, l, l2, start, size, new)
  BY <1>0, <1>1, AllocStep
<1>3. PICK n, v : n = r.mem /\ v = r.start
  OBVIOUS
<1>4. /\ Tree(n, use2) /\ HeapList(n, use2, l2) /\ Kept(m, n) /\ Still(use, use2)
      /\ SameBut(m, n, use, m.kernel, {v}) /\ start >= 1 /\ v \in {start, NULL}
      /\ RegionsOf(n, l2) = RegionsOf(m, l) \cup {[start |-> start, size |-> size]}
      /\ Members(l2) = Members(l) \cup {new}
      /\ \A x \in RegionsOf(m, l) : x.start + x.size <= start \/ start + size <= x.start
      /\ use[new] = 0 /\ use2[new] = RegionUse
      /\ v = NULL => OnlyNew(n, use, use2, {new}) /\ "nomem" \in n.events
      /\ \A f \in Frame, i \in Slots :
            use[f] \in 2 .. 4 /\ Present(m.table[f][i]) => n.table[f][i] = m.table[f][i]
  BY <1>2, <1>3 DEF Allocates
<1>5. v # NULL => \E g \in Frame : /\ g = virt_to_phys(n, m.kernel, start) /\ use[g] = 0
                                   /\ use2[g] = HeapUse /\ OnlyNew(n, use, use2, {new, g})
  BY <1>2, <1>3 DEF Allocates
<1>6. /\ n.kernel = m.kernel /\ n.ctx = m.ctx /\ m.events \subseteq n.events /\ n.root = m.root
      /\ \A f \in m.held : n.data[f] = m.data[f]
  BY <1>3, <1>4 DEF Kept
<1>7. PICK reg : reg = [start |-> start, size |-> size]
  OBVIOUS
<1>8. n \in Memory(Frame, B + size) /\ B + size \in Nat /\ reg \in RegionsOf(n, l2) /\ Chain(n, l2)
  <2>1. m.root \in Frame
    <3>1. PICK N \in Nat : N = Len(l) /\ N >= 1 /\ l[1] = m.root /\ l \in Seq(Frame)
      BY <1>0 DEF Chain
    <3> QED BY <3>1
  <2>2. PICK at, s : at = After(m, size) /\ s = End(m.region[at])
    OBVIOUS
  <2>3. r \in [mem : Memory(Frame, B + size), start : Nat \cup {NULL}]
    BY <2>1, <2>2, Allocated
  <2> QED BY <1>1, <1>3, <1>4, <1>7, <2>3 DEF HeapList
<1>9. PagesOf(reg) \subseteq Lower /\ start \in Lower /\ start \in Virt /\ start # NULL
  <2>1. reg.start = start
    BY <1>7
  <2>2. PagesOf(reg) \subseteq Lower /\ reg.start \in Lower /\ reg.start \in Virt
    BY <1>8, RegionBounds
  <2> QED BY <1>4, <2>1, <2>2 DEF NULL
<1>10. \A x \in owned1 : PagesOf(x) \cap PagesOf(reg) = {} /\ x.start # start /\ x # reg
  <2> TAKE x \in owned1
  <2>1. x.start \in Nat /\ x.size \in Nat /\ x.size >= 1
    BY <1>0, <1>1, RegionBounds
  <2>2. x.start + x.size <= start \/ start + size <= x.start
    BY <1>0, <1>4
  <2>3. PICK s \in Nat, z \in Nat : s = x.start /\ z = x.size
    BY <2>1
  <2>4. z >= 1 /\ (s + z <= start \/ start + size <= s)
    BY <2>1, <2>2, <2>3
  <2>5. (s .. (s + z - 1)) \cap (start .. (start + size - 1)) = {} /\ s # start
    BY <1>1, <2>4
  <2> QED BY <1>7, <2>3, <2>5 DEF PagesOf
<1>11. \A f \in Frame : use[f] = 0 /\ use2[f] # 0 =>
          use2[f] \in 1 .. 3 \/ f = new \/ (v # NULL /\ f = virt_to_phys(n, m.kernel, start))
  BY <1>4, <1>5 DEF OnlyNew
<1>12. Reached(n, use, use2)
  BY <1>4, <1>5 DEF OnlyNew
<1>13. Moves(m, n, use, use2, m.kernel, {v})
  <2>1. Parented(n, use2)
    BY <1>0, <1>4, <1>12, StillParented
  <2>2. Whole(m) => Whole(n)
    BY <1>4, KeptWhole
  <2>3. 0 \notin {4, OtherUse, ImageUse} /\ ImageUse # 0
    BY DEF OtherUse, ImageUse
  <2>4. \A f \in Frame : use[f] \in {4, OtherUse, ImageUse} => use2[f] = use[f]
    BY <1>4, <2>3 DEF Still
  <2>5. \A f \in Frame : use[f] = ImageUse => n.data[f] = m.data[f]
    <3>1. \A f \in Frame : use[f] # 0 => f \in m.held
      BY <1>0 DEF Tree
    <3> QED BY <1>6, <2>3, <3>1
  <2> QED BY <1>4, <1>6, <2>1, <2>2, <2>4, <2>5 DEF Moves
<1>14. Untouched(m, m.kernel, {v}, owned1, images)
  <2>1. {v} \cap Virt \subseteq Lower
    BY <1>4, <1>9, VirtNat DEF NULL
  <2>2. \A x \in owned1 : x.start \notin {v}
    <3> TAKE x \in owned1
    <3>1. x.start \in Nat
      BY <1>0, <1>1, RegionBounds
    <3> QED BY <1>4, <1>10, <3>1 DEF NULL
  <2>3. \A i \in images : i[1] # m.kernel
    BY <1>0 DEF ImagesOwned, MapsOwned
  <2> QED BY <2>1, <2>2, <2>3 DEF Untouched
<1>15. HeapUse # 0 /\ RegionUse # HeapUse /\ RegionUse \notin 0 .. 4 /\ HeapUse \notin 0 .. 4
       /\ OtherUse \notin 0 .. 6 /\ HeapUse = 6 /\ RegionUse = 5
  BY DEF HeapUse, RegionUse, OtherUse
<1>16. \A x \in owned1 : FirstFrame(m, x) \in Frame /\ use[FirstFrame(m, x)] = HeapUse
  <2> TAKE x \in owned1
  <2>1. x.start \in Nat
    BY <1>0, <1>1, RegionBounds
  <2> QED BY <1>0, <2>1, TranslatedType DEF FirstFrame, HeapOwned
<1>17. \A x \in owned1 : use2[FirstFrame(m, x)] = HeapUse
  BY <1>4, <1>15, <1>16 DEF Still
<1>18. owned1 \subseteq RegionsOf(n, l2)
  BY <1>0, <1>4
<1>19. ASSUME n.events = {}
       PROVE  /\ v # NULL /\ \A f \in Frame :
                    /\ use2[f] = 4 => f = n.kernel \/ f \in maps
                    /\ use2[f] = RegionUse => f \in Members(l2)
                    /\ use2[f] = HeapUse => (\E x \in owned1 : f = FirstFrame(m, x))
                         \/ f = FirstFrame(n, reg)
                    /\ use2[f] = OtherUse => f \in others
  <2>1. v # NULL /\ m.events = {}
    BY <1>4, <1>6, <1>19
  <2>2. Complete(m, use, l, owned1, maps, others)
    BY <1>0, <2>1
  <2>3. FirstFrame(n, reg) = virt_to_phys(n, m.kernel, start)
    BY <1>6, <1>7 DEF FirstFrame
  <2>4. use2[FirstFrame(n, reg)] = HeapUse
    BY <1>5, <2>1, <2>3
  <2> SUFFICES ASSUME NEW f \in Frame
               PROVE  /\ use2[f] = 4 => f = m.kernel \/ f \in maps
                      /\ use2[f] = RegionUse => f \in Members(l2)
                      /\ use2[f] = HeapUse => (\E x \in owned1 : f = FirstFrame(m, x))
                           \/ f = FirstFrame(n, reg)
                      /\ use2[f] = OtherUse => f \in others
    BY <1>6, <2>1
  <2>5. CASE use[f] # 0
    <3>1. use2[f] = use[f]
      BY <1>4, <2>5 DEF Still
    <3> QED BY <1>4, <2>2, <3>1 DEF Complete
  <2>6. CASE use[f] = 0
    <3>1. use2[f] = 0 \/ use2[f] \in 1 .. 3 \/ f = new \/ f = FirstFrame(n, reg)
      BY <1>11, <2>3, <2>6
    <3>2. CASE use2[f] = 0 \/ use2[f] \in 1 .. 3
      <4>1. use2[f] # 4 /\ use2[f] # RegionUse /\ use2[f] # HeapUse /\ use2[f] # OtherUse
        BY <1>15, <3>2
      <4> QED BY <4>1
    <3>3. CASE f = new
      BY <1>4, <1>15, <3>3
    <3>4. CASE f = FirstFrame(n, reg)
      BY <1>15, <2>4, <3>4
    <3> QED BY <3>1, <3>2, <3>3, <3>4
  <2> QED BY <2>5, <2>6
<1>22. /\ Sound(n, use2, l2, owned1, maps, others, images)
       /\ \A x \in owned1 : FirstFrame(n, x) = FirstFrame(m, x)
  <2>1. Sound(m, use, l, owned1, maps, others, images)
    BY DEF Good
  <2> QED BY <1>1, <1>4, <1>13, <1>14, <1>17, <1>18, <2>1, SoundKept
<1>23. NoImages(use, use2)
  <2> SUFFICES ASSUME NEW f \in Frame, use2[f] = ImageUse, use[f] # ImageUse PROVE FALSE
    BY DEF NoImages
  <2>1. ImageUse = 8
    BY DEF ImageUse
  <2>2. use[f] = 0 /\ use2[f] # 0 /\ use2[f] \notin 1 .. 3
    BY <1>4, <2>1 DEF Still
  <2>3. f = new \/ (v # NULL /\ f = virt_to_phys(n, m.kernel, start))
    BY <1>11, <2>2
  <2>4. CASE f = new
    BY <1>4, <1>15, <2>1, <2>4
  <2>5. CASE v # NULL /\ f = virt_to_phys(n, m.kernel, start)
    <3>1. use2[f] = HeapUse
      BY <1>5, <2>5
    <3> QED BY <1>15, <2>1, <3>1
  <2> QED BY <2>3, <2>4, <2>5
<1>20. CASE v = NULL
  <2>1. n.events # {}
    BY <1>19, <1>20
  <2>2. Good(n, use2, l2, owned1, maps, others, images)
    BY <1>22, <2>1 DEF Good
  <2>3. Given(r, size) = {}
    BY <1>3, <1>20 DEF Given
  <2>4. owned1 \cup Given(r, size) = owned1
    BY <2>3
  <2>5. GoodAlloc(m, r, use, use2, l2, owned1, maps, others, images, size)
    BY <1>3, <1>6, <1>13, <1>20, <1>23, <2>2, <2>4 DEF GoodAlloc
  <2> QED BY <2>5
<1>21. CASE v # NULL
  <2>1. v = start /\ Given(r, size) = {reg}
    BY <1>3, <1>4, <1>7, <1>21 DEF Given
  <2>2. PICK g \in Frame : /\ g = virt_to_phys(n, m.kernel, start) /\ use[g] = 0
                           /\ use2[g] = HeapUse
    BY <1>5, <1>21
  <2>3. FirstFrame(n, reg) = g
    BY <1>6, <1>7, <2>2 DEF FirstFrame
  <2>5. \A x \in owned1 : FirstFrame(n, x) = FirstFrame(m, x)
    BY <1>22
  <2>6. PICK O : O = owned1 \cup {reg}
    OBVIOUS
  <2>7. HeapOwned(n, use2, O)
    <3>1. \A x \in owned1 : FirstFrame(n, x) # g
      BY <1>15, <1>16, <2>2, <2>5
    <3>2. \A x \in owned1 : use2[FirstFrame(n, x)] = HeapUse
      BY <1>17, <2>5
    <3>3. \A x, y \in owned1 : FirstFrame(n, x) = FirstFrame(n, y) => x = y
      BY <1>0, <2>5 DEF HeapOwned
    <3> QED BY <2>2, <2>3, <2>6, <3>1, <3>2, <3>3 DEF HeapOwned
  <2>8. n.events = {} => Complete(n, use2, l2, O, maps, others)
    BY <1>19, <2>5, <2>6 DEF Complete
  <2>9. O \subseteq RegionsOf(n, l2)
    BY <1>8, <1>18, <2>6
  <2>10. Good(n, use2, l2, O, maps, others, images)
    BY <1>22, <2>7, <2>8, <2>9 DEF Good, Sound
  <2>11. PagesOf(reg) = v .. (v + size - 1)
    BY <1>7, <2>1 DEF PagesOf
  <2>12. /\ [start |-> v, size |-> size] \notin owned1 /\ v .. (v + size - 1) \subseteq Lower
         /\ \A x \in owned1 : PagesOf(x) \cap (v .. (v + size - 1)) = {}
    BY <1>7, <1>9, <1>10, <2>1, <2>11
  <2>13. GoodAlloc(m, r, use, use2, l2, owned1, maps, others, images, size)
    BY <1>3, <1>6, <1>13, <1>23, <2>1, <2>6, <2>10, <2>12 DEF GoodAlloc
  <2> QED BY <2>13
<1> QED BY <1>20, <1>21

\* What a caller of vma_free may count on.
GoodFree(m, n, use, use2, l2, handed, maps, others, images, reg) ==
    /\ Good(n, use2, l2, handed \ {reg}, maps, others, images)
    /\ Moves(m, n, use, use2, m.kernel, PagesOf(reg)) /\ n.root = m.root /\ NoImages(use, use2)

\* vma_free of a region that was handed out keeps memory good.
LEMMA FreeGood ==
    ASSUME NEW B \in Nat, B <= HHDM, NEW m \in Memory(Frame, B), NEW use, NEW l, NEW owned1,
           NEW maps, NEW others, NEW images, Good(m, use, l, owned1, maps, others, images),
           NEW reg \in owned1, NEW n, n = vma_free(m, reg.start), ~Wild(n)
    PROVE  \E use2, l2 : GoodFree(m, n, use, use2, l2, owned1, maps, others, images, reg)
<1>0. /\ use \in Uses /\ Tree(m, use) /\ HeapList(m, use, l) /\ Chain(m, l)
      /\ owned1 \subseteq RegionsOf(m, l) /\ HeapOwned(m, use, owned1) /\ m.kernel \in Frame
      /\ MapsOwned(m, use, maps) /\ ImagesOwned(m, use, maps, images) /\ Parented(m, use)
      /\ (m.events = {} => Complete(m, use, l, owned1, maps, others))
      /\ Sound(m, use, l, owned1, maps, others, images)
  BY DEF Good, Sound, HeapList, Memory, MemoryRecord
<1>1. /\ reg \in RegionsOf(m, l) /\ PagesOf(reg) \subseteq Lower /\ reg.start \in Nat
      /\ reg.size \in Nat
  BY <1>0, RegionBounds
<1>2. \A x \in owned1 : FirstFrame(m, x) \in Frame /\ use[FirstFrame(m, x)] = HeapUse
  <2> TAKE x \in owned1
  <2>1. x.start \in Nat
    BY <1>0, RegionBounds
  <2> QED BY <1>0, <2>1, TranslatedType DEF FirstFrame, HeapOwned
<1>3. PICK g \in Frame, start \in Nat : g = FirstFrame(m, reg) /\ start = reg.start
  BY <1>1, <1>2
<1>4. g = virt_to_phys(m, m.kernel, start) /\ use[g] = HeapUse /\ n = vma_free(m, start)
  BY <1>2, <1>3 DEF FirstFrame
<1>5. PICK use2 \in Uses, l2 \in Seq(Frame), d \in Frame : Frees(m, n, use, use2, l, l2, reg, d, g)
  BY <1>0, <1>1, <1>3, <1>4, FreeStep
<1>6. /\ Tree(n, use2) /\ HeapList(n, use2, l2) /\ SameBut(m, n, use, m.kernel, PagesOf(reg))
      /\ RegionsOf(n, l2) = RegionsOf(m, l) \ {reg} /\ Members(l2) = Members(l) \ {d}
      /\ use2[g] = 0 /\ use2[d] = 0 /\ use[d] = RegionUse
      /\ \A f \in Frame : f # g /\ f # d => use2[f] = use[f]
      /\ \A f \in Frame : use[f] # 1 => n.table[f] = m.table[f]
      /\ n.kernel = m.kernel /\ n.ctx = m.ctx /\ n.root = m.root
      /\ n.data = m.data /\ m.events \subseteq n.events
      /\ "stray" \notin n.events /\ Whole(m) => Whole(n)
  BY <1>5 DEF Frees
<1>7. /\ HeapUse \notin 0 .. 4 /\ RegionUse \notin 0 .. 4 /\ HeapUse # RegionUse
      /\ HeapUse \notin {4, OtherUse, ImageUse} /\ RegionUse \notin {4, OtherUse, ImageUse}
      /\ OtherUse # 0
  BY DEF HeapUse, RegionUse, OtherUse, ImageUse
<1>8. Parented(n, use2)
  <2> SUFFICES ASSUME NEW f \in Frame, use2[f] \in 1 .. 3
               PROVE  \E h \in Frame, j \in Slots : use2[h] = use2[f] + 1 /\ Present(n.table[h][j])
                                                       /\ n.table[h][j].to = f
    BY DEF Parented
  <2>1. use2[f] = use[f]
    BY <1>6
  <2>2. PICK h \in Frame, j \in Slots : /\ use[h] = use[f] + 1 /\ Present(m.table[h][j])
                                        /\ m.table[h][j].to = f
    BY <1>0, <2>1 DEF Parented
  <2>3. use[h] \in 2 .. 4
    BY <2>1, <2>2
  <2>4. h # g /\ h # d /\ use[h] # 1
    BY <1>4, <1>6, <1>7, <2>3
  <2> QED BY <1>6, <2>1, <2>2, <2>4
<1>9. Moves(m, n, use, use2, m.kernel, PagesOf(reg))
  <2>1. \A f \in Frame : use[f] \in {4, OtherUse, ImageUse} => use2[f] = use[f]
    BY <1>4, <1>6, <1>7
  <2> QED BY <1>6, <1>8, <2>1 DEF Moves
<1>10. PICK O : O = owned1 \ {reg}
  OBVIOUS
<1>11. \A x \in O : x.start \notin PagesOf(reg) /\ x \in RegionsOf(n, l2)
  <2> TAKE x \in O
  <2>1. x \in owned1 /\ x # reg
    BY <1>10
  <2>2. x.start + x.size <= reg.start \/ reg.start + reg.size <= x.start
    BY <1>0, <1>1, <2>1, RegionsApart
  <2>3. PICK s \in Nat, z \in Nat : s = x.start /\ z = x.size /\ z >= 1
    BY <1>0, <2>1, RegionBounds
  <2>4. PICK t \in Nat, y \in Nat : t = reg.start /\ y = reg.size
    BY <1>1
  <2>5. s + z <= t \/ t + y <= s
    BY <2>2, <2>3, <2>4
  <2>6. s \notin t .. (t + y - 1)
    BY <2>3, <2>5
  <2> QED BY <1>0, <1>6, <2>1, <2>3, <2>4, <2>6 DEF PagesOf
<1>12. Untouched(m, m.kernel, PagesOf(reg), O, images)
  <2>1. \A i \in images : i[1] # m.kernel
    BY <1>0 DEF ImagesOwned, MapsOwned
  <2> QED BY <1>1, <1>11, <2>1 DEF Untouched
<1>13. \A x \in O : use2[FirstFrame(m, x)] = HeapUse
  <2> TAKE x \in O
  <2>1. x \in owned1 /\ x # reg
    BY <1>10
  <2>2. FirstFrame(m, x) # g
    BY <1>0, <1>3, <2>1 DEF HeapOwned
  <2>3. FirstFrame(m, x) # d
    BY <1>2, <1>6, <1>7, <2>1
  <2> QED BY <1>2, <1>6, <2>1, <2>2, <2>3
<1>14. /\ Sound(n, use2, l2, O, maps, others, images)
       /\ \A x \in O : FirstFrame(n, x) = FirstFrame(m, x)
  <2>1. O \subseteq owned1 /\ O \subseteq RegionsOf(n, l2)
    BY <1>10, <1>11
  <2> QED BY <1>0, <1>6, <1>9, <1>12, <1>13, <2>1, SoundKept
<1>15. ASSUME n.events = {} PROVE Complete(n, use2, l2, O, maps, others)
  <2>1. Complete(m, use, l, owned1, maps, others)
    BY <1>0, <1>6, <1>15
  <2> SUFFICES ASSUME NEW f \in Frame
               PROVE  /\ use2[f] = 4 => f = n.kernel \/ f \in maps
                      /\ use2[f] = RegionUse => f \in Members(l2)
                      /\ use2[f] = HeapUse => \E r \in O : f = FirstFrame(n, r)
                      /\ use2[f] = OtherUse => f \in others
    BY DEF Complete
  <2>2. CASE f = g \/ f = d
    <3>1. use2[f] = 0 /\ 0 # 4 /\ 0 # RegionUse /\ 0 # HeapUse /\ 0 # OtherUse
      BY <1>6, <1>7, <2>2
    <3> QED BY <3>1
  <2>3. CASE f # g /\ f # d
    <3>1. use2[f] = use[f]
      BY <1>6, <2>3
    <3>2. use[f] = HeapUse => \E r \in O : f = FirstFrame(n, r)
      <4> SUFFICES ASSUME use[f] = HeapUse PROVE \E r \in O : f = FirstFrame(n, r)
        OBVIOUS
      <4>1. PICK r \in owned1 : f = FirstFrame(m, r)
        BY <2>1 DEF Complete
      <4>2. r \in O
        BY <1>3, <1>10, <2>3, <4>1
      <4> QED BY <1>14, <4>1, <4>2
    <3> QED BY <1>6, <2>1, <2>3, <3>1, <3>2 DEF Complete
  <2> QED BY <2>2, <2>3
<1>17. NoImages(use, use2)
  <2>1. ImageUse # 0
    BY DEF ImageUse
  <2> QED BY <1>6, <2>1 DEF NoImages
<1>16. GoodFree(m, n, use, use2, l2, owned1, maps, others, images, reg)
  BY <1>6, <1>9, <1>10, <1>14, <1>15, <1>17 DEF GoodFree, Good
<1> QED BY <1>16

\* Memory grew and the tables of the tree with it.
LEMMA GrowMoves ==
    ASSUME NEW m, NEW n, NEW use \in Uses, NEW use2 \in Uses, Tree(m, use), Tree(n, use2), NEW q,
           NEW S,
           SameBut(m, n, use, q, S), Still(use, use2), Reached(n, use, use2),
           \A f \in Frame, i \in Slots :
              use[f] \in 2 .. 4 /\ Present(m.table[f][i]) => n.table[f][i] = m.table[f][i],
           Kept(m, n), ~Wild(n)
    PROVE  Moves(m, n, use, use2, q, S)
<1>1. Parented(m, use) => Parented(n, use2)
  BY StillParented
<1>2. Whole(m) => Whole(n)
  BY KeptWhole
<1>3. 0 \notin {4, OtherUse, ImageUse} /\ ImageUse # 0
  BY DEF OtherUse, ImageUse
<1>4. \A f \in Frame : use[f] \in {4, OtherUse, ImageUse} => use2[f] = use[f]
  BY <1>3 DEF Still
<1>5. \A f \in Frame : use[f] = ImageUse => n.data[f] = m.data[f]
  <2>1. \A f \in Frame : use[f] # 0 => f \in m.held
    BY DEF Tree
  <2> QED BY <1>3, <2>1 DEF Kept
<1> QED BY <1>1, <1>2, <1>4, <1>5 DEF Moves, Kept

\* Who had memory before it grew still has it.
LEMMA GrowSound ==
    ASSUME NEW B \in Nat, B <= HHDM, NEW m \in Memory(Frame, B), NEW use, NEW l, NEW owned1,
           NEW maps, NEW others, NEW images, Sound(m, use, l, owned1, maps, others, images),
           NEW n, NEW use2, NEW q, NEW S, Moves(m, n, use, use2, q, S),
           Untouched(m, q, S, owned1, images), Still(use, use2), Grows(m, n), ~Wild(n)
    PROVE  /\ Sound(n, use2, l, owned1, maps, others, images)
           /\ \A r \in owned1 : FirstFrame(n, r) = FirstFrame(m, r)
           /\ \A i \in images : ImageFrame(n, i) = ImageFrame(m, i) /\ ImageFrame(m, i) \in Frame
<1>0. /\ use \in Uses /\ HeapList(m, use, l) /\ Chain(m, l) /\ l \in Seq(Frame) /\ m.kernel \in Frame
      /\ owned1 \subseteq RegionsOf(m, l) /\ HeapOwned(m, use, owned1)
  BY DEF Sound, HeapList, Chain, Memory, MemoryRecord
<1>1. HeapUse # 0 /\ RegionUse # 0
  BY DEF HeapUse, RegionUse
<1>2. HeapList(n, use2, l)
  <2>1. Chain(n, l)
    BY <1>0, ChainGrows
  <2>2. \A k \in 1 .. Len(l) : l[k] \in Frame /\ use[l[k]] = RegionUse
    BY <1>0 DEF HeapList
  <2> QED BY <1>1, <2>1, <2>2 DEF HeapList, Still
<1>3. RegionsOf(n, l) = RegionsOf(m, l)
  <2>1. PICK N \in Nat : N = Len(l)
    BY <1>0
  <2>2. \A j \in 1 .. N : l[j] \in m.held
    BY <1>0, <2>1 DEF Chain
  <2>3. \A j \in 2 .. N : j \in 1 .. N
    OBVIOUS
  <2>4. \A j \in 2 .. N : Extent(n, l[j]) = Extent(m, l[j])
    BY <2>2, <2>3 DEF Extent, Grows
  <2> QED BY <2>1, <2>4 DEF RegionsOf
<1>4. \A x \in owned1 : use2[FirstFrame(m, x)] = HeapUse
  <2> TAKE x \in owned1
  <2>1. x.start \in Nat
    BY <1>0, RegionBounds
  <2>2. FirstFrame(m, x) \in Frame /\ use[FirstFrame(m, x)] = HeapUse
    BY <1>0, <2>1, TranslatedType DEF FirstFrame, HeapOwned
  <2> QED BY <1>1, <2>2 DEF Still
<1>5. owned1 \subseteq owned1 /\ owned1 \subseteq RegionsOf(n, l)
  BY <1>0, <1>3
<1> QED BY <1>2, <1>4, <1>5, SoundKept

\* A page taken for the heap's context, a process or its stack.
GoodTake(m, n, use, use2, l, handed, maps, others, images, f) ==
    /\ Good(n, use2, l, handed, maps, others \cup {f}, images)
    /\ Moves(m, n, use, use2, m.kernel, {}) /\ use[f] = 0 /\ f \in Frame /\ NoImages(use, use2)

\* What completeness says of the frames that were in use, when memory grew.
LEMMA CompleteOn ==
    ASSUME NEW m, NEW n, NEW use \in Uses, NEW use2 \in Uses, NEW l, NEW owned1, NEW maps, NEW others,
           Complete(m, use, l, owned1, maps, others), Still(use, use2), n.kernel = m.kernel,
           \A r \in owned1 : FirstFrame(n, r) = FirstFrame(m, r),
           NEW maps2, NEW others2, maps \subseteq maps2, others \subseteq others2,
           \A f \in Frame : use[f] = 0 /\ use2[f] # 0 =>
              \/ use2[f] \in 1 .. 3 \/ use2[f] = ImageUse
              \/ use2[f] = 4 /\ f \in maps2
              \/ use2[f] = OtherUse /\ f \in others2
    PROVE  Complete(n, use2, l, owned1, maps2, others2)
<1> SUFFICES ASSUME NEW f \in Frame
             PROVE  /\ use2[f] = 4 => f = n.kernel \/ f \in maps2
                    /\ use2[f] = RegionUse => f \in Members(l)
                    /\ use2[f] = HeapUse => \E r \in owned1 : f = FirstFrame(n, r)
                    /\ use2[f] = OtherUse => f \in others2
  BY DEF Complete
<1>1. RegionUse = 5 /\ HeapUse = 6 /\ OtherUse = 7 /\ ImageUse = 8
  BY DEF RegionUse, HeapUse, OtherUse, ImageUse
<1>2. CASE use[f] # 0
  <2>1. use2[f] = use[f]
    BY <1>2 DEF Still
  <2>2. use2[f] = HeapUse => \E r \in owned1 : f = FirstFrame(n, r)
    BY <2>1 DEF Complete
  <2> QED BY <2>1, <2>2 DEF Complete
<1>3. CASE use[f] = 0 /\ use2[f] # 0
  <2>1. CASE use2[f] \in 1 .. 3
    BY <1>1, <2>1
  <2>2. CASE use2[f] = ImageUse
    BY <1>1, <2>2
  <2>3. CASE use2[f] = 4 /\ f \in maps2
    BY <1>1, <2>3
  <2>4. CASE use2[f] = OtherUse /\ f \in others2
    BY <1>1, <2>4
  <2> QED BY <1>3, <2>1, <2>2, <2>3, <2>4
<1>4. CASE use2[f] = 0
  BY <1>1, <1>4
<1> QED BY <1>2, <1>3, <1>4

\* A request that does not make memory wild.
LEMMA TakeGood ==
    ASSUME NEW B \in Nat, B <= HHDM, NEW m \in Memory(Frame, B), NEW use, NEW l, NEW owned1,
           NEW maps, NEW others, NEW images, Good(m, use, l, owned1, maps, others, images),
           NEW r, r = RequestHigherHalf(m), NEW n, n = r.mem, NEW f, f = r.page, ~Wild(n)
    PROVE  \E use2 : GoodTake(m, n, use, use2, l, owned1, maps, others, images, f)
<1>0. /\ use \in Uses /\ Tree(m, use) /\ m.kernel \in Frame /\ OthersOwned(use, others)
      /\ Sound(m, use, l, owned1, maps, others, images)
      /\ (m.events = {} => Complete(m, use, l, owned1, maps, others))
  BY DEF Good, Sound, Memory, MemoryRecord
<1>1. \/ n = Note(m, "frame0") /\ f = 0 /\ m.stack = << >>
      \/ Took(m, n, f)
  BY RequestedHigherHalf
<1>2. Grows(m, n) /\ Took(m, n, f) /\ f \notin m.held
  BY <1>1, HigherHalfGrows
<1>3. PICK u : u = OtherUse /\ u \in 1 .. 8 /\ u # 4 /\ u \notin 1 .. 4 /\ u # 0
  BY DEF OtherUse
<1>4. PICK use2 : Gives(use, use2, f, u)
  BY DEF Gives
<1>5. /\ use2 \in Uses /\ use[f] = 0 /\ use2[f] = u /\ Tree(n, use2)
      /\ \A g \in Frame : g # f => use2[g] = use[g] /\ n.table[g] = m.table[g]
  BY <1>0, <1>2, <1>3, <1>4, GivenUse
<1>6. Still(use, use2) /\ f \in Frame
  BY <1>2, <1>5 DEF Still, Took
<1>7. \A g \in Frame : use[g] # 0 => n.table[g] = m.table[g]
  BY <1>5
<1>8. SameBut(m, n, use, m.kernel, {})
  <2>1. \A g \in Frame : use[g] \in 1 .. 4 => n.table[g] = m.table[g]
    BY <1>7
  <2>2. SameViews(m, n, use)
    BY <1>0, <2>1, TablesKept
  <2> QED BY <2>2 DEF SameBut, SameViews
<1>9. Reached(n, use, use2)
  BY <1>3, <1>5 DEF Reached
<1>10. Moves(m, n, use, use2, m.kernel, {})
  <2>1. \A g \in Frame, i \in Slots :
           use[g] \in 2 .. 4 /\ Present(m.table[g][i]) => n.table[g][i] = m.table[g][i]
    BY <1>7
  <2>2. Kept(m, n)
    BY <1>2, GrowsKept
  <2> QED BY <1>0, <1>5, <1>6, <1>8, <1>9, <2>1, <2>2, GrowMoves
<1>11. Untouched(m, m.kernel, {}, owned1, images)
  BY DEF Untouched
<1>12. /\ Sound(n, use2, l, owned1, maps, others, images)
       /\ \A x \in owned1 : FirstFrame(n, x) = FirstFrame(m, x)
  BY <1>0, <1>2, <1>6, <1>10, <1>11, GrowSound
<1>13. Sound(n, use2, l, owned1, maps, others \cup {f}, images)
  <2>1. OthersOwned(use2, others \cup {f})
    BY <1>3, <1>5, <1>6, <1>12 DEF Sound, OthersOwned
  <2> QED BY <1>12, <2>1 DEF Sound
<1>14. ASSUME n.events = {} PROVE Complete(n, use2, l, owned1, maps, others \cup {f})
  <2>1. Complete(m, use, l, owned1, maps, others) /\ n.kernel = m.kernel
    BY <1>0, <1>2, <1>14 DEF Grows
  <2>2. \A g \in Frame : use[g] = 0 /\ use2[g] # 0 =>
              \/ use2[g] \in 1 .. 3 \/ use2[g] = ImageUse
              \/ use2[g] = 4 /\ g \in maps
              \/ use2[g] = OtherUse /\ g \in others \cup {f}
    BY <1>3, <1>5
  <2>3. PICK O : O = others \cup {f} /\ others \subseteq O
    OBVIOUS
  <2> QED BY <1>0, <1>5, <1>6, <1>12, <2>1, <2>2, <2>3, CompleteOn
<1>16. NoImages(use, use2)
  <2>1. ImageUse # OtherUse
    BY DEF ImageUse, OtherUse
  <2> QED BY <1>3, <1>5, <2>1 DEF NoImages
<1>15. GoodTake(m, n, use, use2, l, owned1, maps, others, images, f)
  BY <1>5, <1>6, <1>10, <1>13, <1>14, <1>16 DEF GoodTake, Good
<1> QED BY <1>15

\* A new page map.
GoodMap(m, n, use, use2, l, handed, maps, others, images, f) ==
    /\ Good(n, use2, l, handed, maps \cup {f}, others, images)
    /\ Moves(m, n, use, use2, m.kernel, {}) /\ use[f] = 0 /\ f \in Frame /\ NoImages(use, use2)
    /\ \A w \in Virt : View(n, f, w) = IF w \in Lower THEN <<0, {}>> ELSE View(m, m.kernel, w)

\* vmm_new_pagemap keeps memory good.
LEMMA MapGood ==
    ASSUME NEW B \in Nat, B <= HHDM, NEW m \in Memory(Frame, B), NEW use, NEW l, NEW owned1,
           NEW maps, NEW others, NEW images, Good(m, use, l, owned1, maps, others, images),
           NEW r, r = vmm_new_pagemap(m), NEW n, n = r.mem, NEW f, f = r.page, ~Wild(n)
    PROVE  \E use2 : GoodMap(m, n, use, use2, l, owned1, maps, others, images, f)
<1>0. /\ use \in Uses /\ Tree(m, use) /\ m.kernel \in Frame
      /\ Sound(m, use, l, owned1, maps, others, images)
      /\ (m.events = {} => Complete(m, use, l, owned1, maps, others))
  BY DEF Good, Sound, Memory, MemoryRecord
<1>1. f \in Frame /\ f \notin m.held /\ Grows(m, n)
      /\ \E use2 \in Uses : NewSpace(m, n, use, use2, f)
  BY <1>0, PagemapStep
<1>2. PICK use2 \in Uses : NewSpace(m, n, use, use2, f)
  BY <1>1
<1>3. /\ Gives(use, use2, f, 4) /\ use[f] = 0 /\ Tree(n, use2) /\ SameViews(m, n, use)
      /\ \A w \in Virt : View(n, f, w) = IF w \in Lower THEN <<0, {}>> ELSE View(m, m.kernel, w)
      /\ \A g \in Frame : use[g] \in 1 .. 4 => n.table[g] = m.table[g]
  BY <1>2 DEF NewSpace
<1>4. use2[f] = 4 /\ \A g \in Frame : g # f => use2[g] = use[g]
  BY <1>0, <1>1, <1>3 DEF Gives, Uses
<1>5. Still(use, use2)
  BY <1>3, <1>4 DEF Still
<1>6. SameBut(m, n, use, m.kernel, {})
  BY <1>3 DEF SameBut, SameViews
<1>7. Reached(n, use, use2)
  BY <1>4 DEF Reached
<1>8. Moves(m, n, use, use2, m.kernel, {})
  <2>1. \A g \in Frame, i \in Slots :
           use[g] \in 2 .. 4 /\ Present(m.table[g][i]) => n.table[g][i] = m.table[g][i]
    BY <1>3
  <2>2. Kept(m, n)
    BY <1>1, GrowsKept
  <2> QED BY <1>0, <1>3, <1>5, <1>6, <1>7, <2>1, <2>2, GrowMoves
<1>9. Untouched(m, m.kernel, {}, owned1, images)
  BY DEF Untouched
<1>10. /\ Sound(n, use2, l, owned1, maps, others, images)
       /\ \A x \in owned1 : FirstFrame(n, x) = FirstFrame(m, x)
  BY <1>0, <1>1, <1>5, <1>8, <1>9, GrowSound
<1>11. Sound(n, use2, l, owned1, maps \cup {f}, others, images)
  <2>1. n.kernel = m.kernel /\ use[m.kernel] = 4
    BY <1>0, <1>1 DEF Grows, Tree
  <2>2. f # n.kernel
    BY <1>3, <2>1
  <2>3. MapsOwned(n, use2, maps \cup {f})
    BY <1>1, <1>4, <1>10, <2>2 DEF Sound, MapsOwned
  <2>4. ImagesOwned(n, use2, maps \cup {f}, images)
    BY <1>10 DEF Sound, ImagesOwned
  <2> QED BY <1>10, <2>3, <2>4 DEF Sound
<1>12. ASSUME n.events = {} PROVE Complete(n, use2, l, owned1, maps \cup {f}, others)
  <2>1. Complete(m, use, l, owned1, maps, others) /\ n.kernel = m.kernel
    BY <1>0, <1>1, <1>12 DEF Grows
  <2>2. \A g \in Frame : use[g] = 0 /\ use2[g] # 0 =>
              \/ use2[g] \in 1 .. 3 \/ use2[g] = ImageUse
              \/ use2[g] = 4 /\ g \in maps \cup {f}
              \/ use2[g] = OtherUse /\ g \in others
    BY <1>4
  <2>3. PICK O : O = maps \cup {f} /\ maps \subseteq O
    OBVIOUS
  <2> QED BY <1>0, <1>2, <1>5, <1>10, <2>1, <2>2, <2>3, CompleteOn
<1>14. NoImages(use, use2)
  <2>1. ImageUse # 4
    BY DEF ImageUse
  <2> QED BY <1>4, <2>1 DEF NoImages
<1>13. GoodMap(m, n, use, use2, l, owned1, maps, others, images, f)
  BY <1>1, <1>3, <1>8, <1>11, <1>12, <1>14 DEF GoodMap, Good
<1> QED BY <1>13

\* A page of an image, loaded for the page map p.
GoodLoad(m, n, use, use2, l, handed, maps, others, images, p, page, bytes) ==
    /\ Good(n, use2, l, handed, maps, others, images \cup {<<p, page>>})
    /\ Moves(m, n, use, use2, p, {page})
    /\ n.data[ImageFrame(n, <<p, page>>)] = bytes
    /\ \A j \in images : j # <<p, page>> =>
          /\ ImageFrame(n, j) = ImageFrame(m, j)
          /\ n.data[ImageFrame(n, j)] = m.data[ImageFrame(m, j)]
    /\ \A f \in Frame : use2[f] = ImageUse => use[f] = ImageUse \/ f = ImageFrame(n, <<p, page>>)

\* The bytes of a page are written.
Filled(k, n, f, bytes) == n = [k EXCEPT !.data[f] = bytes]

\* One page of elf_load: a page is taken, mapped and filled.
LEMMA LoadGood ==
    ASSUME NEW B \in Nat, B <= HHDM, NEW m \in Memory(Frame, B), NEW use, NEW l, NEW owned1,
           NEW maps, NEW others, NEW images, Good(m, use, l, owned1, maps, others, images),
           NEW p \in maps, NEW page \in Lower, NEW flags \in SUBSET Flags, "P" \in flags,
           NEW bytes \in Bytes, NEW o \in Memory(Frame, B), NEW f, Took(m, o, f),
           NEW k, k = vmm_map(o, p, page, f, flags), NEW n, Filled(k, n, f, bytes),
           ~Wild(n)
    PROVE  \E use2 : GoodLoad(m, n, use, use2, l, owned1, maps, others, images, p, page, bytes)
<1>0. /\ use \in Uses /\ Tree(m, use) /\ m.kernel \in Frame /\ p \in Frame /\ use[p] = 4
      /\ p # m.kernel /\ ImagesOwned(m, use, maps, images) /\ f \in Frame
      /\ Sound(m, use, l, owned1, maps, others, images) /\ page \in Virt /\ page \in Nat
      /\ (m.events = {} => Complete(m, use, l, owned1, maps, others))
  BY LowerVirt, VirtNat DEF Good, Sound, MapsOwned, Memory, MemoryRecord, Took
<1>1. k \in Memory(Frame, B) /\ Grows(o, k)
  BY <1>0, MapGrows
<1>2. /\ n.table = k.table /\ n.held = k.held /\ n.kernel = k.kernel /\ n.events = k.events
      /\ n.stack = k.stack /\ n.max = k.max /\ n.ctx = k.ctx /\ n.root = k.root
      /\ n.stale = k.stale /\ n.region = k.region
      /\ n.data[f] = bytes /\ \A g \in Frame : g # f => n.data[g] = k.data[g]
  BY <1>0, <1>1 DEF Memory, MemoryRecord, Filled
<1>3. ~Wild(k) /\ ~Wild(o)
  <2>1. ~Wild(k)
    BY <1>2 DEF Wild
  <2> QED BY <1>1, <2>1, WildStays DEF Grows
<1>4. Grows(m, o) /\ f \notin m.held
  BY <1>3, TookGrows
<1>5. PICK u : u = ImageUse /\ u \in 1 .. 8 /\ u # 4 /\ u \notin 1 .. 4 /\ u # 0
  BY DEF ImageUse
<1>6. PICK use1 : Gives(use, use1, f, u)
  BY DEF Gives
<1>7. /\ use1 \in Uses /\ use[f] = 0 /\ use1[f] = u /\ Tree(o, use1)
      /\ \A g \in Frame : g # f => use1[g] = use[g] /\ o.table[g] = m.table[g]
  BY <1>0, <1>4, <1>5, <1>6, GivenUse
<1>8. use1[p] = 4
  BY <1>0, <1>7
<1>9. PICK use2 \in Uses : Maps(o, k, use1, use2, p, page, f, flags)
  BY <1>0, <1>3, <1>7, <1>8, MapStep
<1>10. /\ Tree(k, use2) /\ Extends(o, use1, use2) /\ SameBut(o, k, use1, p, {page})
       /\ \A g \in Frame, i \in Slots :
             use1[g] \in 2 .. 4 /\ Present(o.table[g][i]) => k.table[g][i] = o.table[g][i]
       /\ Reached(k, use1, use2) /\ Three(k, p, page)
       /\ E1(k, p, page) = [to |-> f, flags |-> flags]
  BY <1>9 DEF Maps
<1>11. Tree(n, use2)
  BY <1>2, <1>10, SameTree
<1>12. \A g \in Frame : use1[g] # 0 => use2[g] = use1[g]
  BY <1>7, <1>10 DEF Extends, Tree
<1>13. Still(use, use2) /\ use2[f] = u
  BY <1>0, <1>5, <1>7, <1>12 DEF Still
<1>14. \A q, w : View(n, q, w) = View(k, q, w)
  <2>1. n.table = k.table
    BY <1>2
  <2> QED BY <2>1, SameTables
<1>15. SameBut(m, n, use, p, {page})
  <2>1. \A g \in Frame : use[g] \in 1 .. 4 => o.table[g] = m.table[g]
    BY <1>7
  <2>2. SameViews(m, o, use)
    BY <1>0, <2>1, TablesKept
  <2>3. \A g \in Frame : use[g] = 4 => use1[g] = 4
    BY <1>7
  <2> QED BY <1>10, <1>14, <2>2, <2>3 DEF SameBut, SameViews
<1>16. Reached(n, use, use2)
  <2> SUFFICES ASSUME NEW g \in Frame, use[g] = 0, use2[g] \in 1 .. 3
               PROVE  \E h \in Frame, j \in Slots : use2[h] = use2[g] + 1 /\ Present(n.table[h][j])
                                                       /\ n.table[h][j].to = g
    BY DEF Reached
  <2>1. g # f
    BY <1>5, <1>13
  <2>2. use1[g] = 0
    BY <1>7, <2>1
  <2> QED BY <1>2, <1>10, <2>2 DEF Reached
<1>17. \A g \in Frame, i \in Slots :
          use[g] \in 2 .. 4 /\ Present(m.table[g][i]) => n.table[g][i] = m.table[g][i]
  <2> TAKE g \in Frame, i \in Slots
  <2> SUFFICES ASSUME use[g] \in 2 .. 4, Present(m.table[g][i]) PROVE n.table[g][i] = m.table[g][i]
    OBVIOUS
  <2>1. use1[g] = use[g] /\ o.table[g] = m.table[g]
    BY <1>7
  <2> QED BY <1>2, <1>10, <2>1
<1>18. Grows(m, n)
  <2>1. Grows(m, k)
    BY <1>1, <1>4, GrowsOn
  <2>2. \A g \in m.held : g \in Frame
    BY DEF Memory, MemoryRecord
  <2>3. m.held \subseteq n.held /\ \A g \in m.held : n.region[g] = m.region[g]
           /\ n.data[g] = m.data[g]
    BY <1>2, <1>3, <1>4, <2>1, <2>2 DEF Grows
  <2> QED BY <1>2, <2>1, <2>3 DEF Grows, Tidy
<1>19. Moves(m, n, use, use2, p, {page})
  <2>1. Kept(m, n)
    BY <1>18, GrowsKept
  <2> QED BY <1>0, <1>9, <1>11, <1>13, <1>15, <1>16, <1>17, <2>1, GrowMoves
<1>20. PICK I : I = <<p, page>> /\ I[1] = p /\ I[2] = page
  <2>1. <<p, page>>[1] = p /\ <<p, page>>[2] = page
    OBVIOUS
  <2> QED BY <2>1
<1>21. PICK J : J = images \ {I}
  OBVIOUS
<1>22. Sound(m, use, l, owned1, maps, others, J)
  <2>1. ImagesOwned(m, use, maps, J)
    BY <1>0, <1>21 DEF ImagesOwned
  <2> QED BY <1>0, <2>1 DEF Sound
<1>23. Untouched(m, p, {page}, owned1, J)
  <2>1. ASSUME NEW i \in J, i[1] = p, i[2] = page PROVE FALSE
    <3>1. i \in Frame \X Lower /\ i # I
      BY <1>0, <1>21 DEF ImagesOwned
    <3> QED BY <1>20, <2>1, <3>1
  <2> QED BY <1>0, <2>1 DEF Untouched
<1>24. /\ Sound(n, use2, l, owned1, maps, others, J)
       /\ \A r \in owned1 : FirstFrame(n, r) = FirstFrame(m, r)
       /\ \A i \in J : ImageFrame(n, i) = ImageFrame(m, i) /\ ImageFrame(m, i) \in Frame
  BY <1>13, <1>18, <1>19, <1>22, <1>23, GrowSound
<1>25. ImageFrame(n, I) = f
  <2>1. View(k, p, page)[1] = f
    BY <1>10, ViewIs
  <2>2. View(n, p, page)[1] = virt_to_phys(n, p, page)
    BY DEF View
  <2> QED BY <1>14, <1>20, <2>1, <2>2 DEF ImageFrame
<1>26. \A j \in J : ImageFrame(n, j) # f /\ n.data[ImageFrame(n, j)] = m.data[ImageFrame(m, j)]
  <2> TAKE j \in J
  <2>1. use[ImageFrame(m, j)] = ImageUse /\ ImageFrame(m, j) \in Frame
    BY <1>0, <1>21, <1>24 DEF ImagesOwned
  <2>2. n.data[ImageFrame(m, j)] = m.data[ImageFrame(m, j)]
    BY <1>19, <2>1 DEF Moves
  <2> QED BY <1>5, <1>7, <1>24, <2>1, <2>2
<1>27. Sound(n, use2, l, owned1, maps, others, images \cup {I})
  <2>1. I \in Frame \X Lower
    BY <1>0, <1>20
  <2>2. images \cup {I} = J \cup {I}
    BY <1>21
  <2>3. ImagesOwned(n, use2, maps, J)
    BY <1>24 DEF Sound
  <2>4. \A i \in J \cup {I} : i \in Frame \X Lower /\ i[1] \in maps
              /\ use2[ImageFrame(n, i)] = ImageUse
    BY <1>5, <1>13, <1>20, <1>25, <2>1, <2>3 DEF ImagesOwned
  <2>5. \A i, j \in J \cup {I} : ImageFrame(n, i) = ImageFrame(n, j) => i = j
    BY <1>25, <1>26, <2>3 DEF ImagesOwned
  <2>6. ImagesOwned(n, use2, maps, images \cup {I})
    BY <2>2, <2>4, <2>5 DEF ImagesOwned
  <2> QED BY <1>24, <2>6 DEF Sound
<1>28. ASSUME n.events = {} PROVE Complete(n, use2, l, owned1, maps, others)
  <2>1. Complete(m, use, l, owned1, maps, others) /\ n.kernel = m.kernel
    BY <1>0, <1>18, <1>28 DEF Grows
  <2>2. \A g \in Frame : use[g] = 0 /\ use2[g] # 0 =>
              \/ use2[g] \in 1 .. 3 \/ use2[g] = ImageUse
              \/ use2[g] = 4 /\ g \in maps
              \/ use2[g] = OtherUse /\ g \in others
    <3> TAKE g \in Frame
    <3>1. CASE g = f
      BY <1>5, <1>13, <3>1
    <3>2. CASE g # f
      <4>1. use1[g] = use[g] /\ (use2[g] = use1[g] \/ use2[g] \in 1 .. 3)
        BY <1>7, <1>10, <3>2 DEF Extends
      <4> QED BY <4>1
    <3> QED BY <3>1, <3>2
  <2>3. maps \subseteq maps /\ others \subseteq others
    OBVIOUS
  <2> QED BY <1>0, <1>9, <1>13, <1>24, <2>1, <2>2, <2>3, CompleteOn
<1>29. \A g \in Frame : use2[g] = ImageUse => use[g] = ImageUse \/ g = f
  <2> TAKE g \in Frame
  <2>1. use2[g] = use1[g] \/ use2[g] \in 1 .. 3
    BY <1>10 DEF Extends
  <2> QED BY <1>5, <1>7, <2>1
<1>30. \A j \in images : j # I => j \in J
  BY <1>21
<1>31. GoodLoad(m, n, use, use2, l, owned1, maps, others, images, p, page, bytes)
  BY <1>2, <1>19, <1>20, <1>24, <1>25, <1>26, <1>27, <1>28, <1>29, <1>30 DEF GoodLoad, Good
<1> QED BY <1>31

--------------------------------------------------------------------------------
(* elf_load *)

Flattens(f, seqs, N) == f[1] = seqs[1] /\ \A i \in 2 .. N : f[i] = f[i - 1] \o seqs[i]

\* What a flattened sequence is the last of.
LEMMA Flattening ==
    ASSUME NEW S, NEW N \in Nat, N >= 1, NEW seqs \in [1 .. N -> Seq(S)]
    PROVE  \E f \in [1 .. N -> Seq(S)] : Flattens(f, seqs, N) /\ FlattenSeq(seqs) = f[N]
<1> DEFINE Is(g) == g = [i \in 1 .. N |-> IF i = 1 THEN seqs[i] ELSE g[i - 1] \o seqs[i]]
           f == CHOOSE g : Is(g)
<1>0. Len(seqs) = N
  OBVIOUS
<1>1. FlattenSeq(seqs) = f[N]
  BY <1>0 DEF FlattenSeq
<1> DEFINE step == [i \in 1 .. N |-> [v \in Seq(S) |-> v \o seqs[i]]]
<1>2. << >> \in Seq(S) /\ step \in [1 .. N -> [Seq(S) -> Seq(S)]]
  <2>1. ASSUME NEW i \in 1 .. N, NEW v \in Seq(S) PROVE v \o seqs[i] \in Seq(S)
    OBVIOUS
  <2> QED BY <2>1
<1>3. PICK h \in [0 .. N -> Seq(S)] : Iterates(h, N, << >>, step)
  <2> HIDE DEF step
  <2> QED BY <1>2, Iteration
<1>4. h[0] = << >> /\ \A i \in 1 .. N : h[i] = h[i - 1] \o seqs[i]
  <2>1. ASSUME NEW i \in 1 .. N PROVE h[i] = h[i - 1] \o seqs[i]
    <3>1. h[i - 1] \in Seq(S)
      OBVIOUS
    <3>2. h[i] = step[i][h[i - 1]]
      BY <1>3 DEF Iterates
    <3> QED BY <3>1, <3>2
  <2> QED BY <1>3, <2>1 DEF Iterates
<1> DEFINE g == [i \in 1 .. N |-> h[i]]
<1>5. g \in [1 .. N -> Seq(S)]
  OBVIOUS
<1>6. Is(g)
  <2> SUFFICES ASSUME NEW i \in 1 .. N
               PROVE  h[i] = IF i = 1 THEN seqs[i] ELSE g[i - 1] \o seqs[i]
    OBVIOUS
  <2>1. CASE i = 1
    <3>0. 1 \in 1 .. N /\ 1 - 1 = 0
      OBVIOUS
    <3>1. seqs[1] \in Seq(S) /\ h[1] = << >> \o seqs[1]
      BY <1>4, <3>0
    <3> QED BY <2>1, <3>1
  <2>2. CASE i # 1
    <3>1. i - 1 \in 1 .. N
      BY <2>2
    <3> QED BY <1>4, <2>2, <3>1
  <2> QED BY <2>1, <2>2
<1>7. Is(f)
  <2> HIDE DEF Is, g
  <2> QED BY <1>6
<1> HIDE DEF f, step
<1>8. f[1] = seqs[1] /\ \A i \in 2 .. N : f[i] = f[i - 1] \o seqs[i]
  <2>1. 1 \in 1 .. N /\ \A i \in 2 .. N : i \in 1 .. N /\ i # 1
    OBVIOUS
  <2>2. \A i \in 1 .. N : f[i] = IF i = 1 THEN seqs[i] ELSE f[i - 1] \o seqs[i]
    BY <1>7
  <2> QED BY <2>1, <2>2
<1>9. f = g
  <2> DEFINE T == {i \in 0 .. (N - 1) : f[i + 1] = g[i + 1]}
  <2>a. \A i \in 1 .. N : g[i] = IF i = 1 THEN seqs[i] ELSE g[i - 1] \o seqs[i]
    <3> HIDE DEF g
    <3> QED BY <1>6
  <2> HIDE DEF g
  <2>b. N - 1 \in Nat /\ 0 + 1 = 1 /\ 1 \in 1 .. N /\ 0 \in 0 .. (N - 1)
    OBVIOUS
  <2>1. 0 \in T
    <3>1. f[1] = g[1]
      BY <1>8, <2>a, <2>b
    <3> QED BY <2>b, <3>1
  <2>2. \A i \in 1 .. (N - 1) : i - 1 \in T => i \in T
    <3> TAKE i \in 1 .. (N - 1)
    <3> HAVE i - 1 \in T
    <3>1. f[(i - 1) + 1] = g[(i - 1) + 1] /\ (i - 1) + 1 = i
      OBVIOUS
    <3>2. i + 1 \in 1 .. N /\ (i + 1) - 1 = i /\ i + 1 # 1
      OBVIOUS
    <3>3. f[i + 1] = f[i] \o seqs[i + 1]
      <4>1. i + 1 \in 2 .. N
        OBVIOUS
      <4> QED BY <1>8, <3>2, <4>1
    <3>4. g[i + 1] = g[i] \o seqs[i + 1]
      BY <2>a, <3>2
    <3>5. f[i] = g[i] /\ i \in 0 .. (N - 1)
      BY <3>1
    <3>6. f[i + 1] = g[i + 1]
      BY <3>3, <3>4, <3>5
    <3> QED BY <3>5, <3>6
  <2>3. 0 .. (N - 1) \subseteq T
    <3> HIDE DEF T
    <3> QED BY <2>1, <2>2, <2>b, Induction
  <2>4. \A i \in 1 .. N : f[i] = g[i]
    <3> TAKE i \in 1 .. N
    <3>0. i - 1 \in 0 .. (N - 1) /\ (i - 1) + 1 = i
      OBVIOUS
    <3>1. i - 1 \in T /\ (i - 1) + 1 = i
      BY <2>3, <3>0
    <3> QED BY <3>1
  <2>5. DOMAIN f = 1 .. N /\ f = [i \in 1 .. N |-> f[i]]
    BY <1>7
  <2>6. g = [i \in 1 .. N |-> g[i]]
    BY <1>5
  <2> QED BY <2>4, <2>5, <2>6
<1>10. f \in [1 .. N -> Seq(S)]
  BY <1>5, <1>9
<1> QED BY <1>1, <1>8, <1>10 DEF Flattens

\* What is in a sequence is in one of its parts.
Joins(t, seqs, N) ==
    /\ \A k \in 1 .. Len(t) : \E i \in 1 .. N : \E j \in 1 .. Len(seqs[i]) : t[k] = seqs[i][j]
    /\ \A i \in 1 .. N : \A j \in 1 .. Len(seqs[i]) : \E k \in 1 .. Len(t) : t[k] = seqs[i][j]

\* A flattened sequence joins its parts.
LEMMA Flattened ==
    ASSUME NEW S, NEW N \in Nat, NEW seqs \in [1 .. N -> Seq(S)], NEW t, t = FlattenSeq(seqs)
    PROVE  t \in Seq(S) /\ Joins(t, seqs, N)
<1>1. CASE N = 0
  <2>1. Len(seqs) = 0 /\ seqs = << >>
    BY <1>1
  <2>2. t = << >>
    BY <2>1 DEF FlattenSeq
  <2> QED BY <1>1, <2>2 DEF Joins
<1>2. CASE N >= 1
  <2>1. PICK f \in [1 .. N -> Seq(S)] : Flattens(f, seqs, N) /\ t = f[N]
    BY <1>2, Flattening
  <2> DEFINE In(n) ==
         /\ \A k \in 1 .. Len(f[n]) :
               \E i \in 1 .. n : \E j \in 1 .. Len(seqs[i]) : f[n][k] = seqs[i][j]
         /\ \A i \in 1 .. n : \A j \in 1 .. Len(seqs[i]) :
               \E k \in 1 .. Len(f[n]) : f[n][k] = seqs[i][j]
             T == {n \in 0 .. (N - 1) : In(n + 1)}
  <2>2. 0 \in T
    <3>1. f[1] = seqs[1] /\ \A i \in 1 .. 1 : i = 1
      BY <2>1 DEF Flattens
    <3>2. In(1)
      BY <3>1
    <3> QED BY <1>2, <3>2
  <2>3. ASSUME NEW n \in 1 .. (N - 1), n - 1 \in T PROVE n \in T
    <3>1. (n - 1) + 1 = n /\ In(n)
      <4>1. (n - 1) + 1 = n
        OBVIOUS
      <4>2. In((n - 1) + 1)
        BY <2>3
      <4> HIDE DEF In
      <4> QED BY <4>1, <4>2
    <3>2. n + 1 \in 2 .. N /\ (n + 1) - 1 = n /\ n \in 1 .. N /\ n + 1 \in 1 .. N
      OBVIOUS
    <3>3. f[n + 1] = f[n] \o seqs[n + 1]
      BY <2>1, <3>2 DEF Flattens
    <3>4. PICK a \in Seq(S), b \in Seq(S), c \in Seq(S) : a = f[n] /\ b = seqs[n + 1] /\ c = f[n + 1]
      BY <3>2
    <3>5. c = a \o b /\ Len(c) = Len(a) + Len(b)
      BY <3>3, <3>4
    <3>6. \A k \in 1 .. Len(c) : \/ k \in 1 .. Len(a) /\ c[k] = a[k]
                                 \/ k - Len(a) \in 1 .. Len(b) /\ c[k] = b[k - Len(a)]
      BY <3>5
    <3>7. \A k \in 1 .. Len(a) : k \in 1 .. Len(c) /\ c[k] = a[k]
      BY <3>5
    <3>8. \A k \in 1 .. Len(b) : k + Len(a) \in 1 .. Len(c) /\ c[k + Len(a)] = b[k]
      BY <3>5
    <3>9. \A k \in 1 .. Len(c) : \E i \in 1 .. (n + 1) : \E j \in 1 .. Len(seqs[i]) : c[k] = seqs[i][j]
      <4> TAKE k \in 1 .. Len(c)
      <4>1. CASE k \in 1 .. Len(a) /\ c[k] = a[k]
        <5>1. PICK i \in 1 .. n : \E j \in 1 .. Len(seqs[i]) : a[k] = seqs[i][j]
          BY <3>1, <3>4, <4>1
        <5>2. i \in 1 .. (n + 1)
          OBVIOUS
        <5> QED BY <4>1, <5>1, <5>2
      <4>2. CASE k - Len(a) \in 1 .. Len(b) /\ c[k] = b[k - Len(a)]
        <5>1. n + 1 \in 1 .. (n + 1)
          OBVIOUS
        <5> QED BY <3>4, <4>2, <5>1
      <4> QED BY <3>6, <4>1, <4>2
    <3>10. \A i \in 1 .. (n + 1) : \A j \in 1 .. Len(seqs[i]) : \E k \in 1 .. Len(c) : c[k] = seqs[i][j]
      <4> TAKE i \in 1 .. (n + 1)
      <4> TAKE j \in 1 .. Len(seqs[i])
      <4>1. CASE i \in 1 .. n
        <5>1. PICK k \in 1 .. Len(a) : a[k] = seqs[i][j]
          BY <3>1, <3>4, <4>1
        <5> QED BY <3>7, <5>1
      <4>2. CASE i = n + 1
        <5>1. j \in 1 .. Len(b)
          BY <3>4, <4>2
        <5> QED BY <3>4, <3>8, <4>2, <5>1
      <4> QED BY <4>1, <4>2
    <3>11. In(n + 1)
      BY <3>4, <3>9, <3>10
    <3> QED BY <3>11
  <2>4. 0 .. (N - 1) \subseteq T
    <3>1. N - 1 \in Nat
      BY <1>2
    <3> HIDE DEF T
    <3> QED BY <2>2, <2>3, <3>1, Induction
  <2>5. N - 1 \in T /\ (N - 1) + 1 = N
    <3>1. N - 1 \in 0 .. (N - 1) /\ (N - 1) + 1 = N
      BY <1>2
    <3> QED BY <2>4, <3>1
  <2>6. In(N)
    <3>1. In((N - 1) + 1)
      BY <2>5
    <3> HIDE DEF In
    <3> QED BY <2>5, <3>1
  <2>7. N \in 1 .. N
    BY <1>2
  <2>8. t \in Seq(S) /\ f[N] = t
    BY <2>1, <2>7
  <2> QED BY <2>6, <2>8 DEF Joins
<1>3. N = 0 \/ N >= 1
  OBVIOUS
<1> QED BY <1>1, <1>2, <1>3

\* What the loader needs to know of a file.
Proper(image) ==
    /\ image.valid \in BOOLEAN /\ image.entry \in Nat /\ image.headers \in Seq(ProgramHeader)
    /\ \A x \in Range(LoadOrder(image)) : x.page \in Lower

\* Which pages a segment has.
LEMMA SegmentBounds ==
    ASSUME NEW ph \in ProgramHeader
    PROVE  /\ ph.vaddr \in Nat /\ ph.memsz \in Nat /\ ph.filesz \in Nat /\ ph.offset \in Nat
           /\ FirstPage(ph) \in Nat /\ LastPage(ph) - FirstPage(ph) + 1 \in Nat
           /\ FirstPage(ph) = ph.vaddr \div PAGE_SIZE
           /\ LastPage(ph) + 1 = (ph.vaddr + ph.memsz + PAGE_SIZE - 1) \div PAGE_SIZE
<1>1. PICK P \in Nat \ {0} : P = PAGE_SIZE
  BY Constants
<1>2. PICK v \in Nat, z \in Nat : v = ph.vaddr /\ z = ph.memsz
  BY DEF ProgramHeader
<1>3. ph.filesz \in Nat /\ ph.offset \in Nat
  BY DEF ProgramHeader
<1>4. ASSUME NEW x \in Nat PROVE (x - (x % P)) \div P = x \div P /\ x \div P \in Nat
  <2>1. PICK q \in Nat, r \in 0 .. (P - 1) : x = q * P + r /\ q = x \div P /\ r = x % P
    <3>1. x \div P \in Nat /\ x % P \in 0 .. (P - 1) /\ x = (x \div P) * P + (x % P)
      BY <1>1
    <3> QED BY <3>1
  <2>2. x - (x % P) = q * P
    BY <2>1
  <2>3. (q * P) \div P = q
    <3>1. q * P = q * P + 0 /\ 0 \in 0 .. (P - 1)
      BY <1>1
    <3> QED BY <1>1, <3>1
  <2> QED BY <2>1, <2>2, <2>3
<1>5. FirstPage(ph) = v \div P /\ v \div P \in Nat
  BY <1>1, <1>2, <1>4 DEF FirstPage, ALIGN_DOWN
<1>6. PICK y \in Nat : y = v + z + P - 1 /\ v <= y
  BY <1>1, <1>2
<1>7. LastPage(ph) = (y \div P) - 1 /\ y \div P \in Nat
  <2>1. ALIGN_UP(ph.vaddr + ph.memsz) = y - (y % P)
    BY <1>1, <1>2, <1>6 DEF ALIGN_UP, ALIGN_DOWN
  <2>2. (y - (y % P)) \div P = y \div P /\ y \div P \in Nat
    BY <1>4, <1>6
  <2> QED BY <1>1, <2>1, <2>2 DEF LastPage
<1>8. v \div P <= y \div P
  <2>1. PICK q \in Nat, r \in 0 .. (P - 1) : v = q * P + r /\ q = v \div P
    <3>1. v \div P \in Nat /\ v % P \in 0 .. (P - 1) /\ v = (v \div P) * P + (v % P)
      BY <1>1, <1>2
    <3> QED BY <3>1
  <2>2. PICK s \in Nat, t \in 0 .. (P - 1) : y = s * P + t /\ s = y \div P
    <3>1. y \div P \in Nat /\ y % P \in 0 .. (P - 1) /\ y = (y \div P) * P + (y % P)
      BY <1>1, <1>6
    <3> QED BY <3>1
  <2>3. q <= s
    <3> SUFFICES ASSUME q >= s + 1 PROVE FALSE
      BY <2>1, <2>2
    <3>1. q * P >= (s + 1) * P
      BY <1>1
    <3>2. (s + 1) * P = s * P + P
      BY <1>1
    <3>3. PICK a \in Nat, b \in Nat : a = q * P /\ b = s * P
      BY <1>1
    <3> QED BY <1>1, <1>6, <2>1, <2>2, <3>1, <3>2, <3>3
  <2> QED BY <2>1, <2>2, <2>3
<1>9. PICK a \in Nat, b \in Nat : a = v \div P /\ b = y \div P
  BY <1>5, <1>7
<1>10. LastPage(ph) - FirstPage(ph) + 1 \in Nat /\ LastPage(ph) + 1 = b
  BY <1>5, <1>7, <1>8, <1>9
<1>11. ph.vaddr + ph.memsz + PAGE_SIZE - 1 = y
  BY <1>1, <1>2, <1>6
<1> QED BY <1>1, <1>2, <1>3, <1>5, <1>9, <1>10, <1>11

\* The pages of one header, in order.
LoadPages(ph) ==
    IF ph.type # "PT_LOAD" THEN << >>
    ELSE [k \in 1 .. (LastPage(ph) - FirstPage(ph) + 1) |-> [ph |-> ph, page |-> FirstPage(ph) + k - 1]]

LoadItem == [ph : ProgramHeader, page : Nat]

\* They are pages of that header.
LEMMA LoadPagesAre ==
    ASSUME NEW ph \in ProgramHeader
    PROVE  /\ LoadPages(ph) \in Seq(LoadItem)
           /\ ph.type = "PT_LOAD" => Len(LoadPages(ph)) = LastPage(ph) - FirstPage(ph) + 1
           /\ ph.type # "PT_LOAD" => Len(LoadPages(ph)) = 0
           /\ \A k \in 1 .. Len(LoadPages(ph)) :
                 LoadPages(ph)[k] = [ph |-> ph, page |-> FirstPage(ph) + k - 1]
<1>1. PICK n \in Nat, a \in Nat : n = LastPage(ph) - FirstPage(ph) + 1 /\ a = FirstPage(ph)
  BY SegmentBounds
<1>2. CASE ph.type # "PT_LOAD"
  <2>1. LoadPages(ph) = << >>
    BY <1>2 DEF LoadPages
  <2> QED BY <1>2, <2>1
<1>3. CASE ph.type = "PT_LOAD"
  <2> DEFINE s == [k \in 1 .. n |-> [ph |-> ph, page |-> a + k - 1]]
  <2>1. LoadPages(ph) = s
    BY <1>1, <1>3 DEF LoadPages
  <2>2. \A k \in 1 .. n : [ph |-> ph, page |-> a + k - 1] \in LoadItem
    BY DEF LoadItem
  <2>3. s \in Seq(LoadItem) /\ Len(s) = n /\ \A k \in 1 .. n : s[k] = [ph |-> ph, page |-> a + k - 1]
    <3>1. s \in [1 .. n -> LoadItem]
      BY <2>2
    <3> QED BY <3>1
  <2> QED BY <1>1, <1>3, <2>1, <2>3
<1> QED BY <1>2, <1>3

\* The order of the pages: each belongs to a header, and every header's is there.
LEMMA OrderIs ==
    ASSUME NEW image, image.headers \in Seq(ProgramHeader), NEW t, t = LoadOrder(image)
    PROVE  /\ t \in Seq(LoadItem)
           /\ \A k \in 1 .. Len(t) : \E h \in 1 .. Len(image.headers) :
                 /\ t[k].ph = image.headers[h] /\ t[k].ph.type = "PT_LOAD"
                 /\ t[k].page \in FirstPage(t[k].ph) .. LastPage(t[k].ph)
           /\ \A h \in 1 .. Len(image.headers) : image.headers[h].type = "PT_LOAD" =>
                 \A page \in FirstPage(image.headers[h]) .. LastPage(image.headers[h]) :
                    \E k \in 1 .. Len(t) : t[k] = [ph |-> image.headers[h], page |-> page]
<1>1. PICK H \in Seq(ProgramHeader), N \in Nat : H = image.headers /\ N = Len(H)
  OBVIOUS
<1>2. DOMAIN H = 1 .. N /\ \A h \in 1 .. N : H[h] \in ProgramHeader
  BY <1>1
<1> DEFINE seqs == [h \in 1 .. N |-> LoadPages(H[h])]
<1>3. t = FlattenSeq(seqs)
  BY <1>1, <1>2 DEF LoadOrder, LoadPages
<1>4. seqs \in [1 .. N -> Seq(LoadItem)]
  BY <1>2, LoadPagesAre
<1>5. \A h \in 1 .. N : seqs[h] = LoadPages(H[h])
  OBVIOUS
<1> HIDE DEF seqs
<1>6. /\ t \in Seq(LoadItem)
      /\ \A k \in 1 .. Len(t) : \E i \in 1 .. N : \E j \in 1 .. Len(seqs[i]) : t[k] = seqs[i][j]
      /\ \A i \in 1 .. N : \A j \in 1 .. Len(seqs[i]) : \E k \in 1 .. Len(t) : t[k] = seqs[i][j]
  <2>1. t \in Seq(LoadItem) /\ Joins(t, seqs, N)
    BY <1>3, <1>4, Flattened
  <2> QED BY <2>1 DEF Joins
<1>7. ASSUME NEW k \in 1 .. Len(t)
      PROVE  \E h \in 1 .. N : /\ t[k].ph = H[h] /\ t[k].ph.type = "PT_LOAD"
                               /\ t[k].page \in FirstPage(t[k].ph) .. LastPage(t[k].ph)
  <2>1. PICK h \in 1 .. N : \E j \in 1 .. Len(seqs[h]) : t[k] = seqs[h][j]
    BY <1>6
  <2>2. PICK j \in 1 .. Len(seqs[h]) : t[k] = seqs[h][j]
    BY <2>1
  <2>3. PICK ph \in ProgramHeader : ph = H[h] /\ seqs[h] = LoadPages(ph)
    BY <1>2, <1>5
  <2>4. ph.type = "PT_LOAD"
    <3>1. ph.type # "PT_LOAD" => Len(LoadPages(ph)) = 0
      BY LoadPagesAre
    <3> QED BY <2>3, <3>1
  <2>5. PICK n \in Nat, a \in Nat : n = LastPage(ph) - FirstPage(ph) + 1 /\ a = FirstPage(ph)
    BY SegmentBounds
  <2>6. Len(LoadPages(ph)) = n /\ t[k] = [ph |-> ph, page |-> a + j - 1]
    BY <2>2, <2>3, <2>4, <2>5, LoadPagesAre
  <2>7. j \in 1 .. n /\ LastPage(ph) = n + a - 1
    <3>2. LastPage(ph) \in Int
      <4>1. PICK v \in Nat, z \in Nat, P \in Nat \ {0} : v = ph.vaddr /\ z = ph.memsz /\ P = PAGE_SIZE
        BY SegmentBounds, Constants
      <4>2. v + z + P - 1 \in Nat
        BY <4>1
      <4>3. ALIGN_UP(v + z) \in Int
        BY <4>1, <4>2 DEF ALIGN_UP, ALIGN_DOWN
      <4> QED BY <4>1, <4>3 DEF LastPage
    <3> QED BY <2>3, <2>5, <2>6, <3>2
  <2>8. a + j - 1 \in a .. (n + a - 1)
    BY <2>7
  <2>9. t[k].ph = ph /\ t[k].page = a + j - 1
    BY <2>6
  <2>10. t[k].page \in FirstPage(ph) .. LastPage(ph)
    BY <2>5, <2>7, <2>8, <2>9
  <2> QED BY <2>3, <2>4, <2>9, <2>10
<1>8. ASSUME NEW h \in 1 .. N, H[h].type = "PT_LOAD", NEW page \in FirstPage(H[h]) .. LastPage(H[h])
      PROVE  \E k \in 1 .. Len(t) : t[k] = [ph |-> H[h], page |-> page]
  <2>1. PICK ph \in ProgramHeader : ph = H[h] /\ seqs[h] = LoadPages(ph)
    BY <1>2, <1>5
  <2>2. PICK n \in Nat, a \in Nat : n = LastPage(ph) - FirstPage(ph) + 1 /\ a = FirstPage(ph)
    BY SegmentBounds
  <2>3. Len(LoadPages(ph)) = n
    BY <1>8, <2>1, <2>2, LoadPagesAre
  <2>4. LastPage(ph) \in Int
    <3>1. PICK v \in Nat, z \in Nat, P \in Nat \ {0} : v = ph.vaddr /\ z = ph.memsz /\ P = PAGE_SIZE
      BY SegmentBounds, Constants
    <3>2. v + z + P - 1 \in Nat
      BY <3>1
    <3>3. ALIGN_UP(v + z) \in Int
      BY <3>1, <3>2 DEF ALIGN_UP, ALIGN_DOWN
    <3> QED BY <3>1, <3>3 DEF LastPage
  <2>5. page \in Int /\ a <= page /\ page <= n + a - 1
    BY <1>8, <2>1, <2>2, <2>4
  <2>6. PICK j \in 1 .. n : j = page - a + 1
    BY <2>5
  <2>7. LoadPages(ph)[j] = [ph |-> ph, page |-> a + j - 1]
    BY <2>2, <2>3, LoadPagesAre
  <2>8. a + j - 1 = page
    BY <2>5, <2>6
  <2>9. \E k \in 1 .. Len(t) : t[k] = seqs[h][j]
    BY <1>6, <2>1, <2>3
  <2> QED BY <2>1, <2>7, <2>8, <2>9
<1> QED BY <1>1, <1>6, <1>7, <1>8

\* An event that does not make memory wild is noted.
LEMMA NoteGood ==
    ASSUME NEW B \in Nat, B <= HHDM, NEW m \in Memory(Frame, B), NEW use, NEW l, NEW owned1,
           NEW maps, NEW others, NEW images, Good(m, use, l, owned1, maps, others, images),
           NEW e \in Events, NEW n, n = Note(m, e), ~Wild(n), NEW q, NEW S
    PROVE  /\ n \in Memory(Frame, B) /\ n.events # {} /\ n.table = m.table /\ n.data = m.data
           /\ Good(n, use, l, owned1, maps, others, images) /\ Moves(m, n, use, use, q, S)
<1>1. /\ n \in Memory(Frame, B) /\ n.events = m.events \cup {e} /\ Alike(m, n)
      /\ n.table = m.table /\ n.stack = m.stack /\ n.held = m.held
  BY Noted
<1>2. Grows(m, n)
  BY <1>1, AlikeGrows
<1>3. use \in Uses /\ Tree(m, use) /\ Sound(m, use, l, owned1, maps, others, images)
         /\ m.kernel \in Frame
  BY DEF Good, Sound, Memory, MemoryRecord
<1>4. \A a, w : View(n, a, w) = View(m, a, w)
  BY <1>1, SameTables
<1>5. Tree(n, use)
  BY <1>1, <1>3, SameTree DEF Alike
<1>6. ASSUME NEW a, NEW T PROVE Moves(m, n, use, use, a, T)
  <2>1. SameBut(m, n, use, a, T)
    BY <1>4 DEF SameBut
  <2>2. Still(use, use)
    BY DEF Still
  <2>3. Reached(n, use, use)
    BY DEF Reached
  <2>4. \A f \in Frame, i \in Slots :
           use[f] \in 2 .. 4 /\ Present(m.table[f][i]) => n.table[f][i] = m.table[f][i]
    BY <1>1
  <2>5. Kept(m, n)
    BY <1>2, GrowsKept
  <2> QED BY <1>3, <1>5, <2>1, <2>2, <2>3, <2>4, <2>5, GrowMoves
<1>7. Sound(n, use, l, owned1, maps, others, images)
  <2>1. PICK T : T = {}
    OBVIOUS
  <2>2. Untouched(m, m.kernel, T, owned1, images)
    BY <2>1 DEF Untouched
  <2>3. Still(use, use)
    BY DEF Still
  <2>4. Moves(m, n, use, use, m.kernel, T)
    BY <1>6
  <2> QED BY <1>2, <1>3, <2>2, <2>3, <2>4, GrowSound
<1>8. Good(n, use, l, owned1, maps, others, images)
  BY <1>1, <1>7 DEF Good
<1>9. n.data = m.data /\ n.events # {}
  BY <1>1 DEF Alike
<1> QED BY <1>1, <1>6, <1>8, <1>9

\* One move after the other.
LEMMA MovesOn ==
    ASSUME NEW k, NEW m, NEW n, NEW use, NEW use1, NEW use2, NEW p, NEW P, NEW q, NEW Q,
           Moves(k, m, use, use1, p, P), Moves(m, n, use1, use2, q, Q),
           \A a \in Frame, w \in Virt : use[a] = 4 /\ ~(a = p /\ w \in P) => ~(a = q /\ w \in Q)
    PROVE  Moves(k, n, use, use2, p, P)
<1>1. /\ use2 \in Uses /\ Tree(n, use2) /\ n.kernel = k.kernel /\ n.ctx = k.ctx
      /\ k.events \subseteq n.events /\ m.events \subseteq n.events
      /\ Parented(k, use) => Parented(n, use2)
  BY DEF Moves
<1>2. "stray" \notin n.events /\ Whole(k) => Whole(n)
  BY <1>1 DEF Moves
<1>3. \A f \in Frame : use[f] \in {4, OtherUse, ImageUse} => use1[f] = use[f]
  BY DEF Moves
<1>4. \A f \in Frame : use1[f] \in {4, OtherUse, ImageUse} => use2[f] = use1[f]
  BY DEF Moves
<1>5. \A f \in Frame : use[f] \in {4, OtherUse, ImageUse} => use2[f] = use[f]
  BY <1>3, <1>4
<1>6. \A f \in Frame : use[f] = ImageUse => n.data[f] = k.data[f]
  <2> TAKE f \in Frame
  <2> HAVE use[f] = ImageUse
  <2>1. use1[f] = ImageUse
    BY <1>3
  <2>2. m.data[f] = k.data[f] /\ n.data[f] = m.data[f]
    BY <2>1 DEF Moves
  <2> QED BY <2>2
<1>7. SameBut(k, n, use, p, P)
  <2> SUFFICES ASSUME NEW a \in Frame, NEW w \in Virt, use[a] = 4, ~(a = p /\ w \in P)
               PROVE  View(n, a, w) = View(k, a, w)
    BY DEF SameBut
  <2>1. SameBut(k, m, use, p, P) /\ SameBut(m, n, use1, q, Q)
    BY DEF Moves
  <2>2. use1[a] = 4
    BY <1>3
  <2>3. View(m, a, w) = View(k, a, w)
    BY <2>1 DEF SameBut
  <2>4. ~(a = q /\ w \in Q)
    OBVIOUS
  <2>5. View(n, a, w) = View(m, a, w)
    BY <2>1, <2>2, <2>4 DEF SameBut
  <2> QED BY <2>3, <2>5
<1> QED BY <1>1, <1>2, <1>5, <1>6, <1>7 DEF Moves

\* Memory that is good for more images is good for fewer.
LEMMA FewerImages ==
    ASSUME NEW m, NEW use, NEW l, NEW owned1, NEW maps, NEW others, NEW images, NEW images2,
           Good(m, use, l, owned1, maps, others, images), images2 \subseteq images
    PROVE  Good(m, use, l, owned1, maps, others, images2)
<1>1. Sound(m, use, l, owned1, maps, others, images) /\ ImagesOwned(m, use, maps, images)
  BY DEF Good, Sound
<1>2. ImagesOwned(m, use, maps, images2)
  BY <1>1 DEF ImagesOwned
<1> QED BY <1>1, <1>2 DEF Good, Sound

\* The images that a move does not touch.
LEMMA ImagesKept ==
    ASSUME NEW B, NEW m \in Memory(Frame, B), NEW use, NEW maps, NEW images,
           ImagesOwned(m, use, maps, images), MapsOwned(m, use, maps),
           NEW n, NEW use2, NEW q, NEW S, Moves(m, n, use, use2, q, S),
           NEW i \in images, ~(i[1] = q /\ i[2] \in S)
    PROVE  /\ ImageFrame(n, i) = ImageFrame(m, i) /\ ImageFrame(m, i) \in Frame
           /\ n.data[ImageFrame(n, i)] = m.data[ImageFrame(m, i)]
<1>1. i[1] \in Frame /\ i[2] \in Virt /\ i[2] \in Nat /\ use[i[1]] = 4
         /\ use[ImageFrame(m, i)] = ImageUse
  BY LowerVirt, VirtNat DEF ImagesOwned, MapsOwned
<1>2. SameBut(m, n, use, q, S)
  BY DEF Moves
<1>3. View(n, i[1], i[2]) = View(m, i[1], i[2])
  BY <1>1, <1>2 DEF SameBut
<1>4. ImageFrame(n, i) = ImageFrame(m, i)
  BY <1>3 DEF View, ImageFrame
<1>5. ImageFrame(m, i) \in Frame
  BY <1>1, TranslatedType DEF ImageFrame
<1>6. n.data[ImageFrame(m, i)] = m.data[ImageFrame(m, i)]
  BY <1>1, <1>5 DEF Moves
<1> QED BY <1>4, <1>5, <1>6

LoadRecord(B) == [mem : Memory(Frame, B), pagemap : Frame, ok : BOOLEAN]

\* The flags of a page and its bytes.
LEMMA PageTypes ==
    ASSUME NEW ph \in ProgramHeader, NEW page \in Nat
    PROVE  PageFlags(ph) \in SUBSET Flags /\ "P" \in PageFlags(ph) /\ PageBytes(ph, page) \in Bytes
<1>1. PageFlags(ph) \in SUBSET Flags /\ "P" \in PageFlags(ph)
  BY DEF PageFlags, Flags
<1>2. PICK P \in Nat \ {0}, a \in Nat, o \in Nat, z \in Nat :
         P = PAGE_SIZE /\ a = FirstPage(ph) /\ o = ph.offset /\ z = ph.filesz
  BY Constants, SegmentBounds
<1>3. ASSUME NEW b \in 0 .. (P - 1)
      PROVE  (IF (page - a) * P + b < z THEN o + ((page - a) * P + b) + 1 ELSE 0) \in Int
  BY <1>2
<1>4. PageBytes(ph, page) = [b \in 0 .. (P - 1) |->
         IF (page - a) * P + b < z THEN o + ((page - a) * P + b) + 1 ELSE 0]
  BY <1>2 DEF PageBytes
<1>5. PageBytes(ph, page) \in [0 .. (P - 1) -> Int]
  BY <1>3, <1>4
<1> QED BY <1>1, <1>2, <1>5 DEF Bytes

PageIn(a, b, x, B) ==
    \E f \in Frame, o \in Memory(Frame, B), k \in Memory(Frame, B) :
        /\ Took(a.mem, o, f) /\ k = vmm_map(o, a.pagemap, x.page, f, PageFlags(x.ph))
        /\ Filled(k, b.mem, f, PageBytes(x.ph, x.page))

\* One page: there is none, or it is taken, mapped and filled.
LEMMA LoadedPage ==
    ASSUME NEW B \in Nat, NEW a \in LoadRecord(B), NEW x \in LoadItem, NEW b, b = LoadPage(a, x)
    PROVE  /\ b \in LoadRecord(B) /\ b.pagemap = a.pagemap
           /\ ~a.ok => b = a
           /\ a.ok /\ ~b.ok => b.mem = Note(a.mem, "nomem")
           /\ a.ok /\ b.ok => PageIn(a, b, x, B)
<1>0. /\ a.mem \in Memory(Frame, B) /\ a.pagemap \in Frame /\ a.ok \in BOOLEAN
      /\ x.ph \in ProgramHeader /\ x.page \in Nat
      /\ a = [mem |-> a.mem, pagemap |-> a.pagemap, ok |-> a.ok]
  BY DEF LoadRecord, LoadItem
<1>1. CASE ~a.ok
  BY <1>1 DEF LoadPage
<1>2. CASE a.ok
  <2>1. PICK r : r = pmm_request_page(a.mem)
    OBVIOUS
  <2>2. /\ r.page \in Frame /\ r.mem \in Memory(Frame, B)
        /\ \/ a.mem.stack = << >> /\ r.page = 0 /\ r.mem = a.mem
           \/ Took(a.mem, r.mem, r.page)
    <3>1. PICK m \in Memory(Frame, B) : m = a.mem
      BY <1>0
    <3>2. r = pmm_request_page(m)
      BY <2>1, <3>1
    <3>3. /\ r \in [page : Frame, mem : Memory(Frame, B)]
          /\ \/ m.stack = << >> /\ r.page = 0 /\ r.mem = m
             \/ Took(m, r.mem, r.page)
      BY <3>2, Requested
    <3> QED BY <3>1, <3>3
  <2>3. CASE r.page = 0
    <3>1. b = [a EXCEPT !.ok = FALSE, !.mem = Note(a.mem, "nomem")]
      BY <1>2, <2>1, <2>3 DEF LoadPage
    <3>2. "nomem" \in Events
      BY DEF Events
    <3>3. Note(a.mem, "nomem") \in Memory(Frame, B)
      BY <1>0, <3>2, Noted
    <3>4. b = [mem |-> Note(a.mem, "nomem"), pagemap |-> a.pagemap, ok |-> FALSE]
      BY <1>0, <3>1
    <3> QED BY <1>0, <1>2, <3>3, <3>4 DEF LoadRecord
  <2>4. CASE r.page # 0
    <3>1. PICK o \in Memory(Frame, B), f \in Frame : o = r.mem /\ f = r.page /\ Took(a.mem, o, f)
      BY <2>2, <2>4
    <3>2. PICK k : k = vmm_map(o, a.pagemap, x.page, f, PageFlags(x.ph))
      OBVIOUS
    <3>3. k \in Memory(Frame, B)
      BY <1>0, <3>2, Mapped, PageTypes
    <3>4. PICK bytes \in Bytes : bytes = PageBytes(x.ph, x.page)
      BY <1>0, PageTypes
    <3>5. PICK n : n = [k EXCEPT !.data[f] = bytes]
      OBVIOUS
    <3>6. n \in Memory(Frame, B)
      BY <3>3, <3>5 DEF Memory, MemoryRecord
    <3>7. b = [a EXCEPT !.mem = n]
      BY <1>2, <2>1, <2>4, <3>1, <3>2, <3>4, <3>5 DEF LoadPage
    <3>8. b = [mem |-> n, pagemap |-> a.pagemap, ok |-> a.ok]
      BY <1>0, <3>7
    <3>9. b \in LoadRecord(B) /\ b.mem = n /\ b.pagemap = a.pagemap /\ b.ok = a.ok
      BY <1>0, <3>6, <3>8 DEF LoadRecord
    <3>10. Filled(k, b.mem, f, PageBytes(x.ph, x.page))
      BY <3>4, <3>5, <3>9 DEF Filled
    <3>11. PageIn(a, b, x, B)
      BY <3>1, <3>2, <3>3, <3>10 DEF PageIn
    <3> QED BY <1>2, <3>9, <3>11
  <2> QED BY <2>3, <2>4
<1> QED BY <1>1, <1>2

\* The loader after each page.
LoadLoop(f, a, b, t, N) ==
    f[0] = a /\ f[N] = b /\ \A k \in 1 .. N : f[k] = LoadPage(f[k - 1], t[k])

\* The loops of elf_load over the pages of an image.
LEMMA LoopLoaded ==
    ASSUME NEW B \in Nat, NEW a \in LoadRecord(B), NEW t \in Seq(LoadItem), NEW N \in Nat, N = Len(t),
           NEW b, b = FoldLeft(LoadPage, a, t)
    PROVE  \E f \in [0 .. N -> LoadRecord(B)] : LoadLoop(f, a, b, t, N)
<1> DEFINE V == LoadRecord(B)
           Is(g) == g = [s \in SUBSET (1 .. N) |->
                            IF s = {} THEN a ELSE LoadPage(g[s \ {Max(s)}], t[Max(s)])]
           step == [i \in 1 .. N |-> [v \in V |-> LoadPage(v, t[i])]]
           iter == CHOOSE g : Is(g)
<1>0. DOMAIN t = 1 .. N /\ \A i \in 1 .. N : t[i] \in LoadItem
  OBVIOUS
<1>1. b = iter[1 .. N]
  BY <1>0 DEF FoldLeft, MapThenFoldSet
<1>3. ASSUME NEW v \in V, NEW i \in 1 .. N PROVE LoadPage(v, t[i]) \in V
  <2>1. PICK x \in LoadItem : x = t[i]
    BY <1>0
  <2> QED BY <2>1, LoadedPage
<1>4. a \in V
  OBVIOUS
<1> HIDE DEF V
<1>5. step \in [1 .. N -> [V -> V]]
  BY <1>3
<1>6. PICK g \in [SUBSET (1 .. N) -> V] : Folds(g, N, a, step)
  <2> HIDE DEF step
  <2> QED BY <1>4, <1>5, Folding
<1>7. Is(g)
  <2>1. ASSUME NEW s \in SUBSET (1 .. N), s # {}
        PROVE  step[Max(s)][g[s \ {Max(s)}]] = LoadPage(g[s \ {Max(s)}], t[Max(s)])
    <3>1. Max(s) \in 1 .. N
      BY <2>1, MaxIs
    <3>2. g[s \ {Max(s)}] \in V
      OBVIOUS
    <3> QED BY <3>1, <3>2
  <2> QED BY <1>6, <2>1 DEF Folds
<1>8. Is(iter)
  <2> HIDE DEF Is
  <2> QED BY <1>7
<1> HIDE DEF iter, step
<1> DEFINE f == [k \in 0 .. N |-> iter[1 .. k]]
<1>9. f[0] = a
  <2>1. 1 .. 0 = {} /\ 0 \in 0 .. N /\ {} \in SUBSET (1 .. N)
    OBVIOUS
  <2> QED BY <1>8, <2>1
<1>10. ASSUME NEW k \in 1 .. N PROVE f[k] = LoadPage(f[k - 1], t[k])
  <2>1. 1 .. k \in SUBSET (1 .. N) /\ 1 .. k # {} /\ k \in 1 .. k /\ k \in Nat
    OBVIOUS
  <2>2. Max(1 .. k) = k /\ (1 .. k) \ {k} = 1 .. (k - 1)
    BY <2>1, MaxTop
  <2>3. iter[1 .. k] = LoadPage(iter[1 .. (k - 1)], t[k])
    BY <1>8, <2>1, <2>2
  <2> QED BY <2>3
<1>11. f[N] = b
  BY <1>1
<1> HIDE DEF Is, f
<1> DEFINE S == {k \in 0 .. N : f[k] \in V}
<1>12. 0 .. N \subseteq S
  <2>1. 0 \in S
    BY <1>4, <1>9
  <2>2. \A k \in 1 .. N : k - 1 \in S => k \in S
    BY <1>3, <1>10
  <2> HIDE DEF S
  <2> QED BY <2>1, <2>2, Induction
<1>13. f \in [0 .. N -> V]
  BY <1>12 DEF f
<1> QED BY <1>9, <1>10, <1>11, <1>13 DEF V, LoadLoop

\* The first n pages of t in the page map p.
Pairs(p, t, n) == {<<p, t[k].page>> : k \in 1 .. n}

\* Each holds the bytes of a segment that claims it.
Contents(m, p, t, n) ==
    \A k \in 1 .. n : \E j \in 1 .. n :
        t[j].page = t[k].page /\ m.data[ImageFrame(m, <<p, t[k].page>>)] = PageBytes(t[j].ph, t[j].page)

Distinct(t) == \A j, k \in 1 .. Len(t) : t[j].page = t[k].page => j = k

\* The only frames that hold pages of images now and did not before.
OnlyPairs(m, use, use2, p, t, n) ==
    \A f \in Frame : use2[f] = ImageUse =>
        use[f] = ImageUse \/ \E k \in 1 .. n : f = ImageFrame(m, <<p, t[k].page>>)

\* Where the loader is after n pages.
LoadedTo(m, a, use, use2, l, handed, maps, others, images, p, t, n) ==
    /\ Moves(m, a.mem, use, use2, p, Lower)
    /\ a.ok => /\ Good(a.mem, use2, l, handed, maps, others, images \cup Pairs(p, t, n))
               /\ Contents(a.mem, p, t, n)
               /\ Distinct(t) => OnlyPairs(a.mem, use, use2, p, t, n)
    /\ ~a.ok => Good(a.mem, use2, l, handed, maps, others, images) /\ a.mem.events # {}

\* One page more.
LEMMA LoadOn ==
    ASSUME NEW B \in Nat, B <= HHDM, NEW m, NEW use, NEW l, NEW owned1, NEW maps, NEW others,
           NEW images, NEW p \in maps, NEW t \in Seq(LoadItem), NEW n \in 1 .. Len(t),
           t[n].page \in Lower,
           NEW a \in LoadRecord(B), a.pagemap = p, NEW use1,
           LoadedTo(m, a, use, use1, l, owned1, maps, others, images, p, t, n - 1),
           NEW b, b = LoadPage(a, t[n]), ~Wild(b.mem), images \in SUBSET (Frame \X Lower)
    PROVE  \E use2 : LoadedTo(m, b, use, use2, l, owned1, maps, others, images, p, t, n)
<1>0. PICK x \in LoadItem : x = t[n] /\ x.page \in Lower /\ x.ph \in ProgramHeader /\ x.page \in Nat
  <2>1. PICK y \in LoadItem : y = t[n]
    OBVIOUS
  <2> QED BY <2>1 DEF LoadItem
<1>1. /\ b \in LoadRecord(B) /\ b.pagemap = a.pagemap
      /\ ~a.ok => b = a
      /\ a.ok /\ ~b.ok => b.mem = Note(a.mem, "nomem")
      /\ a.ok /\ b.ok => PageIn(a, b, x, B)
  BY <1>0, LoadedPage
<1>2. CASE ~a.ok
  BY <1>1, <1>2 DEF LoadedTo
<1>3. CASE a.ok
  <2>0. /\ Moves(m, a.mem, use, use1, p, Lower) /\ a.mem \in Memory(Frame, B)
        /\ Good(a.mem, use1, l, owned1, maps, others, images \cup Pairs(p, t, n - 1))
        /\ Contents(a.mem, p, t, n - 1)
        /\ Distinct(t) => OnlyPairs(a.mem, use, use1, p, t, n - 1)
    BY <1>3 DEF LoadedTo, LoadRecord
  <2>a. PICK k \in Memory(Frame, B) : k = a.mem
    BY <2>0
  <2>b. PICK J : J = images \cup Pairs(p, t, n - 1)
    OBVIOUS
  <2>1. k = a.mem /\ J = images \cup Pairs(p, t, n - 1)
    BY <2>a, <2>b
  <2>2. CASE ~b.ok
    <3>1. PICK e \in Events : e = "nomem"
      BY DEF Events
    <3>2. PICK c : c = b.mem
      OBVIOUS
    <3>3. c = Note(k, e) /\ ~Wild(c) /\ Good(k, use1, l, owned1, maps, others, J)
      BY <1>1, <1>3, <2>0, <2>1, <2>2, <3>1, <3>2
    <3>4. /\ c.events # {} /\ Good(c, use1, l, owned1, maps, others, J)
          /\ Moves(k, c, use1, use1, p, Lower)
      BY <3>3, NoteGood
    <3>5. images \subseteq J
      BY <2>1
    <3>6. Good(c, use1, l, owned1, maps, others, images)
      BY <3>4, <3>5, FewerImages
    <3>7. Moves(m, c, use, use1, p, Lower)
      BY <2>0, <2>1, <3>4, MovesOn
    <3> QED BY <2>2, <3>2, <3>4, <3>6, <3>7 DEF LoadedTo
  <2>3. CASE b.ok
    <3>1. PICK f \in Frame, o \in Memory(Frame, B), c \in Memory(Frame, B) :
             /\ Took(k, o, f) /\ c = vmm_map(o, p, x.page, f, PageFlags(x.ph))
             /\ Filled(c, b.mem, f, PageBytes(x.ph, x.page))
      BY <1>1, <1>3, <2>1, <2>3 DEF PageIn
    <3>2. PICK page \in Lower, flags \in SUBSET Flags, bytes \in Bytes :
             page = x.page /\ flags = PageFlags(x.ph) /\ bytes = PageBytes(x.ph, x.page)
      BY <1>0, PageTypes
    <3>3. PICK d : d = b.mem
      OBVIOUS
    <3>4. /\ "P" \in flags /\ Good(k, use1, l, owned1, maps, others, J) /\ ~Wild(d)
          /\ c = vmm_map(o, p, page, f, flags) /\ Filled(c, d, f, bytes)
      BY <1>0, <2>0, <2>1, <3>1, <3>2, <3>3, PageTypes
    <3>5. PICK use2 : GoodLoad(k, d, use1, use2, l, owned1, maps, others, J, p, page, bytes)
      BY <3>1, <3>4, LoadGood
    <3>6. PICK I : I = <<p, page>>
      OBVIOUS
    <3>7. /\ Good(d, use2, l, owned1, maps, others, J \cup {I}) /\ Moves(k, d, use1, use2, p, {page})
          /\ d.data[ImageFrame(d, I)] = bytes
          /\ \A j \in J : j # I => /\ ImageFrame(d, j) = ImageFrame(k, j)
                                  /\ d.data[ImageFrame(d, j)] = k.data[ImageFrame(k, j)]
          /\ \A g \in Frame : use2[g] = ImageUse => use1[g] = ImageUse \/ g = ImageFrame(d, I)
      BY <3>5, <3>6 DEF GoodLoad
    <3>8. n \in Nat /\ \A i \in 1 .. n : i = n \/ i \in 1 .. (n - 1)
      OBVIOUS
    <3>9. \A i \in 1 .. (n - 1) : i \in 1 .. n /\ i \in 1 .. Len(t) /\ i # n
      OBVIOUS
    <3>10. J \cup {I} = images \cup Pairs(p, t, n)
      <4>1. Pairs(p, t, n) = Pairs(p, t, n - 1) \cup {<<p, t[n].page>>}
        BY <3>8, <3>9 DEF Pairs
      <4> QED BY <1>0, <2>1, <3>2, <3>6, <4>1
    <3>11. Moves(m, d, use, use2, p, Lower)
      <4>1. \A q \in Frame, w \in Virt : use[q] = 4 /\ ~(q = p /\ w \in Lower)
                  => ~(q = p /\ w \in {page})
        OBVIOUS
      <4>2. Moves(m, k, use, use1, p, Lower)
        BY <2>0, <2>1
      <4> QED BY <3>7, <4>1, <4>2, MovesOn
    <3>12. \A i \in 1 .. (n - 1) : <<p, t[i].page>> \in J
      BY <2>1 DEF Pairs
    <3>13. Contents(d, p, t, n)
      <4> SUFFICES ASSUME NEW i \in 1 .. n
                   PROVE  \E j \in 1 .. n :
                             /\ t[j].page = t[i].page
                             /\ d.data[ImageFrame(d, <<p, t[i].page>>)] = PageBytes(t[j].ph, t[j].page)
        BY DEF Contents
      <4>1. CASE t[i].page = page
        <5>1. n \in 1 .. n /\ t[n].page = t[i].page
          BY <1>0, <3>2, <3>8, <4>1
        <5>2. d.data[ImageFrame(d, <<p, t[i].page>>)] = PageBytes(t[n].ph, t[n].page)
          BY <1>0, <3>2, <3>6, <3>7, <4>1
        <5> QED BY <5>1, <5>2
      <4>2. CASE t[i].page # page
        <5>1. i \in 1 .. (n - 1)
          BY <1>0, <3>2, <3>8, <4>2
        <5>2. PICK j \in 1 .. (n - 1) :
                 /\ t[j].page = t[i].page
                 /\ k.data[ImageFrame(k, <<p, t[i].page>>)] = PageBytes(t[j].ph, t[j].page)
          BY <2>0, <2>1, <5>1 DEF Contents
        <5>3. PICK h : h = <<p, t[i].page>>
          OBVIOUS
        <5>4. h \in J /\ h # I
          BY <3>6, <3>12, <4>2, <5>1, <5>3
        <5>5. d.data[ImageFrame(d, h)] = k.data[ImageFrame(k, h)]
          BY <3>7, <5>4
        <5> QED BY <3>9, <5>2, <5>3, <5>5
      <4> QED BY <4>1, <4>2
    <3>14. ASSUME Distinct(t) PROVE OnlyPairs(d, use, use2, p, t, n)
      <4> SUFFICES ASSUME NEW g \in Frame, use2[g] = ImageUse, use[g] # ImageUse
                   PROVE  \E i \in 1 .. n : g = ImageFrame(d, <<p, t[i].page>>)
        BY DEF OnlyPairs
      <4>1. CASE g = ImageFrame(d, I)
        <5>1. n \in 1 .. n /\ I = <<p, t[n].page>>
          BY <1>0, <3>2, <3>6
        <5> QED BY <4>1, <5>1
      <4>2. CASE use1[g] = ImageUse
        <5>1. PICK i \in 1 .. (n - 1) : g = ImageFrame(k, <<p, t[i].page>>)
          BY <2>0, <2>1, <3>14, <4>2 DEF OnlyPairs
        <5>2. t[i].page # page /\ i \in 1 .. n
          BY <1>0, <3>2, <3>9, <3>14 DEF Distinct
        <5>3. PICK h : h = <<p, t[i].page>>
          OBVIOUS
        <5>4. h \in J /\ h # I
          BY <3>6, <3>12, <5>2, <5>3
        <5>5. ImageFrame(d, h) = ImageFrame(k, h)
          BY <3>7, <5>4
        <5> QED BY <5>1, <5>2, <5>3, <5>5
      <4> QED BY <3>7, <4>1, <4>2
    <3>15. Good(d, use2, l, owned1, maps, others, images \cup Pairs(p, t, n))
      BY <3>7, <3>10
    <3> QED BY <2>3, <3>3, <3>11, <3>13, <3>14, <3>15 DEF LoadedTo
  <2> QED BY <2>2, <2>3
<1> QED BY <1>2, <1>3

\* Memory that is wild stays so.
LEMMA LoadWild ==
    ASSUME NEW B \in Nat, NEW a \in LoadRecord(B), NEW x \in LoadItem, NEW b, b = LoadPage(a, x),
           Wild(a.mem)
    PROVE  Wild(b.mem)
<1>0. /\ a.mem \in Memory(Frame, B) /\ a.pagemap \in Frame /\ a.ok \in BOOLEAN
      /\ x.ph \in ProgramHeader /\ x.page \in Nat
  BY DEF LoadRecord, LoadItem
<1>1. /\ b \in LoadRecord(B) /\ b.pagemap = a.pagemap
      /\ ~a.ok => b = a
      /\ a.ok /\ ~b.ok => b.mem = Note(a.mem, "nomem")
      /\ a.ok /\ b.ok => PageIn(a, b, x, B)
  BY LoadedPage
<1>2. CASE ~a.ok
  BY <1>1, <1>2
<1>3. CASE a.ok /\ ~b.ok
  <2>1. PICK e \in Events : e = "nomem"
    BY DEF Events
  <2>2. PICK m \in Memory(Frame, B) : m = a.mem
    BY <1>0
  <2>3. b.mem = Note(m, e)
    BY <1>1, <1>3, <2>1, <2>2
  <2>4. m.events \subseteq b.mem.events
    BY <2>3, Noted
  <2> QED BY <2>2, <2>4, WildStays
<1>4. CASE a.ok /\ b.ok
  <2>1. PICK f \in Frame, o \in Memory(Frame, B), k \in Memory(Frame, B) :
           /\ Took(a.mem, o, f) /\ k = vmm_map(o, a.pagemap, x.page, f, PageFlags(x.ph))
           /\ Filled(k, b.mem, f, PageBytes(x.ph, x.page))
    BY <1>1, <1>4 DEF PageIn
  <2>2. a.mem.events \subseteq o.events
    BY <2>1 DEF Took
  <2>3. Grows(o, k)
    BY <1>0, <2>1, PageTypes, MapGrows
  <2>4. o.events \subseteq k.events /\ b.mem.events = k.events
    BY <2>1, <2>3 DEF Grows, Filled, Memory, MemoryRecord
  <2> QED BY <2>2, <2>4, WildStays
<1> QED BY <1>0, <1>1, <1>2, <1>3, <1>4 DEF LoadRecord

\* The pages of a proper image.
LEMMA ProperOrder ==
    ASSUME NEW image, Proper(image), NEW t, t = LoadOrder(image)
    PROVE  /\ t \in Seq(LoadItem) /\ \A k \in 1 .. Len(t) : t[k].page \in Lower
           /\ \A p : {<<p, v>> : v \in ImagePages(image)} = Pairs(p, t, Len(t))
<1>1. image.headers \in Seq(ProgramHeader) /\ \A x \in Range(t) : x.page \in Lower
  BY DEF Proper
<1>2. t \in Seq(LoadItem)
  BY <1>1, OrderIs
<1>3. Range(t) = {t[k] : k \in 1 .. Len(t)}
  BY <1>2 DEF Range
<1>4. \A k \in 1 .. Len(t) : t[k].page \in Lower
  BY <1>1, <1>3
<1>5. ImagePages(image) = {t[k].page : k \in 1 .. Len(t)}
  BY <1>3 DEF ImagePages
<1>6. \A p : {<<p, v>> : v \in ImagePages(image)} = Pairs(p, t, Len(t))
  BY <1>5 DEF Pairs
<1> QED BY <1>2, <1>4, <1>6

\* What the creator of a process may count on.
GoodElf(m, e, use, use2, l, handed, maps, others, images, p, image) ==
    LET t == LoadOrder(image)
    IN LoadedTo(m, e, use, use2, l, handed, maps, others, images, p, t, Len(t))

\* elf_load keeps memory good.
LEMMA ElfGood ==
    ASSUME NEW B \in Nat, B <= HHDM, NEW m \in Memory(Frame, B), NEW p \in Frame,
           NEW image, Proper(image), NEW e, e = elf_load(m, image, p)
    PROVE  /\ e \in LoadRecord(B)
           /\ Wild(m) => Wild(e.mem)
           /\ \A use, l, owned1, maps, others, images :
                 /\ ~Wild(e.mem) /\ Good(m, use, l, owned1, maps, others, images) /\ p \in maps
                 /\ images \in SUBSET (Frame \X Lower)
                 => \E use2 : GoodElf(m, e, use, use2, l, owned1, maps, others, images, p, image)
<1>0. PICK t : t = LoadOrder(image)
  OBVIOUS
<1>1. t \in Seq(LoadItem) /\ \A k \in 1 .. Len(t) : t[k].page \in Lower
  BY <1>0, ProperOrder
<1>2. PICK N \in Nat : N = Len(t)
  BY <1>1
<1>3. PICK bad \in Events : bad = "badelf"
  BY DEF Events
<1>4. PICK a : a = [mem |-> m, pagemap |-> p, ok |-> TRUE]
  OBVIOUS
<1>5. a \in LoadRecord(B) /\ a.mem = m /\ a.pagemap = p /\ a.ok
  BY <1>4 DEF LoadRecord
<1>6. PICK b : b = FoldLeft(LoadPage, a, t)
  OBVIOUS
<1>7. PICK f \in [0 .. N -> LoadRecord(B)] : LoadLoop(f, a, b, t, N)
  BY <1>1, <1>2, <1>5, <1>6, LoopLoaded
<1>8. /\ f[0] = a /\ f[N] = b /\ \A k \in 1 .. N : f[k] = LoadPage(f[k - 1], t[k])
      /\ b \in LoadRecord(B)
  BY <1>7 DEF LoadLoop
<1>9. \A k \in 1 .. N : f[k - 1] \in LoadRecord(B) /\ t[k] \in LoadItem /\ t[k].page \in Lower
  BY <1>1, <1>2
<1>10. \A k \in 1 .. N : Wild(f[k - 1].mem) => Wild(f[k].mem)
  BY <1>8, <1>9, LoadWild
<1>11. b.pagemap = p /\ \A k \in 0 .. N : f[k].pagemap = p
  <2> DEFINE S == {k \in 0 .. N : f[k].pagemap = p}
  <2>1. 0 \in S
    BY <1>5, <1>8
  <2>2. \A k \in 1 .. N : k - 1 \in S => k \in S
    BY <1>8, <1>9, LoadedPage
  <2>3. 0 .. N \subseteq S
    <3> HIDE DEF S
    <3> QED BY <2>1, <2>2, Induction
  <2>4. N \in 0 .. N
    OBVIOUS
  <2> QED BY <1>8, <2>3, <2>4
<1>12. Wild(m) => Wild(b.mem)
  <2> SUFFICES ASSUME Wild(m) PROVE Wild(b.mem)
    OBVIOUS
  <2> DEFINE S == {k \in 0 .. N : Wild(f[k].mem)}
  <2>1. 0 \in S
    BY <1>5, <1>8
  <2>2. \A k \in 1 .. N : k - 1 \in S => k \in S
    BY <1>10
  <2>3. 0 .. N \subseteq S
    <3> HIDE DEF S
    <3> QED BY <2>1, <2>2, Induction
  <2>4. N \in 0 .. N
    OBVIOUS
  <2> QED BY <1>8, <2>3, <2>4
<1>13. ASSUME NEW use, NEW l, NEW owned1, NEW maps, NEW others, NEW images,
              Good(m, use, l, owned1, maps, others, images), p \in maps,
              images \in SUBSET (Frame \X Lower), ~Wild(b.mem)
       PROVE  \E use2 : LoadedTo(m, b, use, use2, l, owned1, maps, others, images, p, t, N)
  <2> DEFINE L(c, use2, k) == LoadedTo(m, c, use, use2, l, owned1, maps, others, images, p, t, k)
             S == {k \in 0 .. N : Wild(f[k].mem) \/ \E use2 : L(f[k], use2, k)}
  <2>1. 0 \in S
    <3>1. Pairs(p, t, 0) = {} /\ Contents(m, p, t, 0) /\ OnlyPairs(m, use, use, p, t, 0)
      BY DEF Pairs, Contents, OnlyPairs
    <3>2. images \cup Pairs(p, t, 0) = images
      BY <3>1
    <3>3. Moves(m, m, use, use, p, Lower)
      <4>1. use \in Uses /\ Tree(m, use)
        BY <1>13 DEF Good, Sound
      <4> QED BY <4>1 DEF Moves, SameBut
    <3>4. L(a, use, 0)
      BY <1>5, <1>13, <3>1, <3>2, <3>3 DEF LoadedTo
    <3>5. 0 \in 0 .. N
      OBVIOUS
    <3> HIDE DEF L
    <3> QED BY <1>8, <3>4, <3>5
  <2>2. ASSUME NEW k \in 1 .. N, k - 1 \in S PROVE k \in S
    <3>1. CASE Wild(f[k].mem)
      BY <3>1
    <3>2. CASE ~Wild(f[k].mem)
      <4>1. ~Wild(f[k - 1].mem)
        BY <1>10, <3>2
      <4>2. PICK use1 : L(f[k - 1], use1, k - 1)
        BY <2>2, <4>1
      <4>3. PICK c, d : c = f[k - 1] /\ d = f[k]
        OBVIOUS
      <4>4. /\ c \in LoadRecord(B) /\ c.pagemap = p /\ d = LoadPage(c, t[k]) /\ ~Wild(d.mem)
            /\ L(c, use1, k - 1) /\ k \in 1 .. Len(t) /\ t[k].page \in Lower
        <5>1. k - 1 \in 0 .. N
          OBVIOUS
        <5> HIDE DEF L
        <5> QED BY <1>2, <1>8, <1>9, <1>11, <3>2, <4>2, <4>3, <5>1
      <4>5. \E use2 : L(d, use2, k)
        BY <1>1, <1>13, <4>4, LoadOn
      <4> HIDE DEF L
      <4> QED BY <4>3, <4>5
    <3> QED BY <3>1, <3>2
  <2>3. 0 .. N \subseteq S
    <3> HIDE DEF S
    <3> QED BY <2>1, <2>2, Induction
  <2>4. N \in S
    <3>1. N \in 0 .. N
      OBVIOUS
    <3> HIDE DEF S
    <3> QED BY <2>3, <3>1
  <2> QED BY <1>8, <1>13, <2>4
<1>14. CASE ~image.valid
  <2>1. e = [mem |-> Note(m, "badelf"), pagemap |-> p, ok |-> FALSE]
    BY <1>14 DEF elf_load
  <2>2. PICK n : n = Note(m, bad)
    OBVIOUS
  <2>3. n \in Memory(Frame, B) /\ m.events \subseteq n.events
    BY <2>2, Noted
  <2>4. e.mem = n /\ ~e.ok /\ e \in LoadRecord(B)
    BY <1>3, <2>1, <2>2, <2>3 DEF LoadRecord
  <2>5. ASSUME NEW use, NEW l, NEW owned1, NEW maps, NEW others, NEW images,
               Good(m, use, l, owned1, maps, others, images), ~Wild(e.mem)
        PROVE  \E use2 : GoodElf(m, e, use, use2, l, owned1, maps, others, images, p, image)
    <3>1. /\ n.events # {} /\ Good(n, use, l, owned1, maps, others, images)
          /\ Moves(m, n, use, use, p, Lower)
      BY <2>2, <2>4, <2>5, NoteGood
    <3>2. GoodElf(m, e, use, use, l, owned1, maps, others, images, p, image)
      BY <2>4, <3>1 DEF GoodElf, LoadedTo
    <3> QED BY <3>2
  <2>6. Wild(m) => Wild(e.mem)
    BY <2>3, <2>4, WildStays
  <2> QED BY <2>4, <2>5, <2>6
<1>15. CASE image.valid /\ b.ok /\ image.entry = 0
  <2>1. e = [b EXCEPT !.ok = FALSE, !.mem = Note(b.mem, "badelf")]
    BY <1>0, <1>4, <1>6, <1>15 DEF elf_load
  <2>2. PICK k \in Memory(Frame, B) : k = b.mem
    BY <1>8 DEF LoadRecord
  <2>3. PICK n : n = Note(k, bad)
    OBVIOUS
  <2>4. n \in Memory(Frame, B) /\ k.events \subseteq n.events
    BY <2>3, Noted
  <2>5. e.mem = n /\ ~e.ok /\ e \in LoadRecord(B)
    BY <1>3, <1>8, <2>1, <2>2, <2>3, <2>4 DEF LoadRecord
  <2>6. Wild(b.mem) => Wild(e.mem)
    BY <2>2, <2>4, <2>5, WildStays
  <2>7. ASSUME NEW use, NEW l, NEW owned1, NEW maps, NEW others, NEW images,
               Good(m, use, l, owned1, maps, others, images), p \in maps,
               images \in SUBSET (Frame \X Lower), ~Wild(e.mem)
        PROVE  \E use2 : GoodElf(m, e, use, use2, l, owned1, maps, others, images, p, image)
    <3>1. PICK use2 : LoadedTo(m, b, use, use2, l, owned1, maps, others, images, p, t, N)
      BY <1>13, <2>6, <2>7
    <3>2. PICK J : J = images \cup Pairs(p, t, N) /\ images \subseteq J
      OBVIOUS
    <3>3. Good(k, use2, l, owned1, maps, others, J) /\ Moves(m, k, use, use2, p, Lower)
      BY <1>15, <2>2, <3>1, <3>2 DEF LoadedTo
    <3>4. /\ n.events # {} /\ Good(n, use2, l, owned1, maps, others, J)
          /\ Moves(k, n, use2, use2, p, Lower)
      BY <2>3, <2>5, <2>7, <3>3, NoteGood
    <3>5. Good(n, use2, l, owned1, maps, others, images)
      BY <3>2, <3>4, FewerImages
    <3>6. Moves(m, n, use, use2, p, Lower)
      BY <3>3, <3>4, MovesOn
    <3>7. GoodElf(m, e, use, use2, l, owned1, maps, others, images, p, image)
      BY <2>5, <3>4, <3>5, <3>6 DEF GoodElf, LoadedTo
    <3> QED BY <3>7
  <2> QED BY <1>12, <2>5, <2>6, <2>7
<1>16. CASE image.valid /\ ~(b.ok /\ image.entry = 0)
  <2>1. e = b
    BY <1>0, <1>4, <1>6, <1>16 DEF elf_load
  <2>2. ASSUME NEW use, NEW l, NEW owned1, NEW maps, NEW others, NEW images,
               Good(m, use, l, owned1, maps, others, images), p \in maps,
               images \in SUBSET (Frame \X Lower), ~Wild(e.mem)
        PROVE  \E use2 : GoodElf(m, e, use, use2, l, owned1, maps, others, images, p, image)
    <3>1. PICK use2 : LoadedTo(m, b, use, use2, l, owned1, maps, others, images, p, t, N)
      BY <1>13, <2>1, <2>2
    <3>2. GoodElf(m, e, use, use2, l, owned1, maps, others, images, p, image)
      BY <1>0, <1>2, <2>1, <3>1 DEF GoodElf
    <3> QED BY <3>2
  <2> QED BY <1>8, <1>12, <2>1, <2>2
<1> QED BY <1>14, <1>15, <1>16

--------------------------------------------------------------------------------
(* Processes *)

\* What a process is.
Process ==
    [proc : Frame, stack : Frame, pagemap : Frame, image : Images \cup {KernelThread},
     alive : BOOLEAN]

\* The pages taken for a process and its stack.
GoodProcess(m, n, use, use2, l, handed, maps, others, images, f, g) ==
    /\ Good(n, use2, l, handed, maps, others \cup {f, g}, images)
    /\ Moves(m, n, use, use2, m.kernel, {}) /\ NoImages(use, use2)
    /\ use[f] = 0 /\ use[g] = 0 /\ f # g

\* process_create keeps memory good.
LEMMA ProcessCreated ==
    ASSUME NEW B \in Nat, B <= HHDM, NEW m \in Memory(Frame, B), NEW p \in Frame,
           NEW image \in Images \cup {KernelThread}, NEW c, c = process_create(m, p, image)
    PROVE  /\ c.mem \in Memory(Frame, B) /\ c.proc \in Process
           /\ c.proc.pagemap = p /\ c.proc.image = image /\ c.proc.alive
           /\ m.events \subseteq c.mem.events
           /\ \A use, l, owned1, maps, others, images :
                 ~Wild(c.mem) /\ Good(m, use, l, owned1, maps, others, images)
                 => \E use2 : GoodProcess(m, c.mem, use, use2, l, owned1, maps, others, images,
                                          c.proc.proc, c.proc.stack)
<1>1. PICK r : r = RequestHigherHalf(m)
  OBVIOUS
<1>2. /\ r \in [page : Frame, mem : Memory(Frame, B)]
      /\ \/ m.stack = << >> /\ r.page = 0 /\ r.mem = Note(m, "frame0")
         \/ Took(m, r.mem, r.page)
  BY <1>1, RequestedHigherHalf
<1>3. PICK k \in Memory(Frame, B), f \in Frame : k = r.mem /\ f = r.page
  BY <1>2
<1>4. PICK s : s = RequestHigherHalf(k)
  OBVIOUS
<1>5. /\ s \in [page : Frame, mem : Memory(Frame, B)]
      /\ \/ k.stack = << >> /\ s.page = 0 /\ s.mem = Note(k, "frame0")
         \/ Took(k, s.mem, s.page)
  BY <1>4, RequestedHigherHalf
<1>6. PICK n \in Memory(Frame, B), g \in Frame : n = s.mem /\ g = s.page
  BY <1>5
<1>7. c = [mem |-> n, proc |-> [proc |-> f, stack |-> g, pagemap |-> p, image |-> image,
                                alive |-> TRUE]]
  BY <1>1, <1>3, <1>4, <1>6 DEF process_create
<1>8. /\ c.mem = n /\ c.proc = [proc |-> f, stack |-> g, pagemap |-> p, image |-> image, alive |-> TRUE]
      /\ c.proc \in Process /\ c.proc.proc = f /\ c.proc.stack = g
      /\ c.proc.pagemap = p /\ c.proc.image = image /\ c.proc.alive
  BY <1>7 DEF Process
<1>9. Grows(m, k)
  BY <1>2, <1>3, HigherHalfGrows
<1>10. Grows(k, n)
  BY <1>5, <1>6, HigherHalfGrows
<1>11. m.events \subseteq n.events /\ k.events \subseteq n.events
  BY <1>9, <1>10 DEF Grows
<1>12. ASSUME NEW use, NEW l, NEW owned1, NEW maps, NEW others, NEW images,
              ~Wild(n), Good(m, use, l, owned1, maps, others, images)
       PROVE  \E use2 : GoodProcess(m, n, use, use2, l, owned1, maps, others, images, f, g)
  <2>1. ~Wild(k)
    BY <1>11, <1>12, WildStays
  <2>2. PICK use1 : GoodTake(m, k, use, use1, l, owned1, maps, others, images, f)
    BY <1>1, <1>3, <1>12, <2>1, TakeGood
  <2>3. PICK O : O = others \cup {f}
    OBVIOUS
  <2>4. /\ Good(k, use1, l, owned1, maps, O, images) /\ Moves(m, k, use, use1, m.kernel, {})
        /\ use[f] = 0 /\ NoImages(use, use1) /\ k.kernel = m.kernel
    BY <2>2, <2>3 DEF GoodTake, Moves
  <2>5. PICK use2 : GoodTake(k, n, use1, use2, l, owned1, maps, O, images, g)
    BY <1>4, <1>6, <1>12, <2>4, TakeGood
  <2>6. /\ Good(n, use2, l, owned1, maps, O \cup {g}, images) /\ Moves(k, n, use1, use2, k.kernel, {})
        /\ use1[g] = 0 /\ NoImages(use1, use2)
    BY <2>5 DEF GoodTake
  <2>7. Moves(m, n, use, use2, m.kernel, {})
    BY <2>4, <2>6, MovesOn
  <2>8. NoImages(use, use2)
    BY <2>4, <2>6 DEF NoImages
  <2>9. O \cup {g} = others \cup {f, g}
    BY <2>3
  <2>10. use1[f] = OtherUse /\ OtherUse # 0 /\ OtherUse \in {4, OtherUse, ImageUse}
    BY <2>3, <2>4 DEF Good, Sound, OthersOwned, OtherUse
  <2>11. f # g
    BY <2>6, <2>10
  <2>12. use[g] = 0
    <3>1. use \in Uses /\ Tree(m, use) /\ Tree(k, use1)
      BY <1>12, <2>4 DEF Good, Sound
    <3>2. k.held = m.held \cup {f}
      <4>1. Took(m, k, f)
        BY <1>2, <1>3, <2>1, HigherHalfGrows
      <4> QED BY <4>1 DEF Took
    <3> QED BY <2>6, <3>1, <3>2 DEF Tree
  <2>13. GoodProcess(m, n, use, use2, l, owned1, maps, others, images, f, g)
    BY <2>4, <2>6, <2>7, <2>8, <2>9, <2>11, <2>12 DEF GoodProcess
  <2> QED BY <2>13
<1> QED BY <1>8, <1>11, <1>12

\* Sharing is noted, and memory is wild then.
LEMMA SharedIs ==
    ASSUME NEW P, NEW B, NEW m \in Memory(P, B), NEW regions, NEW n, n = Shared(m, regions)
    PROVE  n \in Memory(P, B) /\ (n = m \/ Wild(n)) /\ m.events \subseteq n.events
<1>1. n = m \/ n = Note(m, "shared")
  BY DEF Shared
<1>2. CASE n = Note(m, "shared")
  <2>1. PICK e \in Events : e = "shared"
    BY DEF Events
  <2>2. n \in Memory(P, B) /\ n.events = m.events \cup {e}
    BY <1>2, <2>1, Noted
  <2> QED BY <2>1, <2>2 DEF Wild
<1> QED BY <1>1, <1>2

--------------------------------------------------------------------------------
(* The boot sequence *)

\* Memory of vmm_init: the kernel's tables and nothing else.
Booting(m, use) ==
    /\ use \in Uses /\ Tree(m, use) /\ Alone(m, use) /\ SectionRights(m) /\ Parented(m, use)
    /\ Whole(m) /\ \A f \in Frame : use[f] \in 0 .. 4

NoImage(use) == \A f \in Frame : use[f] # ImageUse

\* vma_create_context: the heap's list has its root.
LEMMA ContextMade ==
    ASSUME NEW B \in Nat, 1 <= B, NEW m \in Memory(Frame, B), NEW n, n = vma_create_context(m)
    PROVE  /\ n \in Memory(Frame, B) /\ n.root \in Frame
           /\ \A use : Booting(m, use) /\ ~Wild(n) =>
                 \E use2, l : Good(n, use2, l, {}, {}, {n.ctx}, {}) /\ NoImage(use2)
<1>1. PICK r : r = RequestHigherHalf(m)
  OBVIOUS
<1>2. /\ r \in [page : Frame, mem : Memory(Frame, B)]
      /\ \/ m.stack = << >> /\ r.page = 0 /\ r.mem = Note(m, "frame0")
         \/ Took(m, r.mem, r.page)
  BY <1>1, RequestedHigherHalf
<1>3. PICK k \in Memory(Frame, B), f \in Frame : k = r.mem /\ f = r.page
  BY <1>2
<1>4. PICK s : s = RequestHigherHalf(k)
  OBVIOUS
<1>5. /\ s \in [page : Frame, mem : Memory(Frame, B)]
      /\ \/ k.stack = << >> /\ s.page = 0 /\ s.mem = Note(k, "frame0")
         \/ Took(k, s.mem, s.page)
  BY <1>4, RequestedHigherHalf
<1>6. PICK o \in Memory(Frame, B), g \in Frame : o = s.mem /\ g = s.page
  BY <1>5
<1>7. PICK reg : reg = [start |-> 0, size |-> 1, next |-> NULL, prev |-> NULL]
  OBVIOUS
<1>8. n = [o EXCEPT !.ctx = f, !.root = g, !.region[g] = reg]
  <2>1. [NoRegion EXCEPT !.size = 1] = reg
    BY <1>7 DEF NoRegion
  <2> QED BY <1>1, <1>3, <1>4, <1>6, <2>1 DEF vma_create_context
<1>9. /\ n.ctx = f /\ n.root = g /\ n.region = [o.region EXCEPT ![g] = reg] /\ n.table = o.table
      /\ n.kernel = o.kernel /\ n.held = o.held /\ n.stack = o.stack /\ n.max = o.max
      /\ n.events = o.events /\ n.stale = o.stale /\ n.data = o.data
  BY <1>8 DEF Memory, MemoryRecord
<1>10. reg \in Region /\ End(reg) = 1
  BY <1>7, Constants DEF Region, End
<1>11. o.region \in [Frame -> Region] /\ \A h \in Frame : End(o.region[h]) <= B
  BY DEF Memory, MemoryRecord
<1>12. n.region \in [Frame -> Region] /\ \A h \in Frame : End(n.region[h]) <= B
  BY <1>9, <1>10, <1>11
<1>13. n \in Memory(Frame, B)
  <2>1. n \in MemoryRecord(Frame)
    BY <1>8, <1>12, <1>9 DEF Memory, MemoryRecord
  <2> QED BY <1>9, <1>12, <2>1 DEF Memory
<1>14. ASSUME NEW use, Booting(m, use), ~Wild(n)
       PROVE  \E use2, l : Good(n, use2, l, {}, {}, {n.ctx}, {}) /\ NoImage(use2)
  <2>1. ~Wild(o)
    BY <1>9, <1>14 DEF Wild
  <2>2. Grows(m, k) /\ Grows(k, o)
    BY <1>2, <1>3, <1>5, <1>6, HigherHalfGrows
  <2>3. ~Wild(k)
    BY <2>1, <2>2, WildStays DEF Grows
  <2>4. Took(m, k, f) /\ f \notin m.held /\ Took(k, o, g) /\ g \notin k.held
    BY <1>2, <1>3, <1>5, <1>6, <2>1, <2>3, HigherHalfGrows
  <2>5. /\ use \in Uses /\ Tree(m, use) /\ Alone(m, use) /\ SectionRights(m) /\ Parented(m, use)
        /\ Whole(m) /\ \A h \in Frame : use[h] \in 0 .. 4
    BY <1>14 DEF Booting
  <2>6. PICK u, v : /\ u = OtherUse /\ u \in 1 .. 8 /\ u \notin 1 .. 4 /\ u # 4 /\ u # 0
                    /\ v = RegionUse /\ v \in 1 .. 8 /\ v \notin 1 .. 4 /\ v # 4 /\ v # 0 /\ u # v
    BY DEF OtherUse, RegionUse
  <2>7. PICK use1 : Gives(use, use1, f, u)
    BY DEF Gives
  <2>8. /\ use1 \in Uses /\ use[f] = 0 /\ use1[f] = u /\ Tree(k, use1)
        /\ \A h \in Frame : h # f => use1[h] = use[h] /\ k.table[h] = m.table[h]
    BY <2>4, <2>5, <2>6, <2>7, GivenUse
  <2>9. PICK use2 : Gives(use1, use2, g, v)
    BY DEF Gives
  <2>10. /\ use2 \in Uses /\ use1[g] = 0 /\ use2[g] = v /\ Tree(o, use2)
         /\ \A h \in Frame : h # g => use2[h] = use1[h] /\ o.table[h] = k.table[h]
    BY <2>4, <2>6, <2>8, <2>9, GivenUse
  <2>11. Tree(n, use2)
    BY <1>9, <2>10, SameTree
  <2>12. f # g /\ use[g] = 0 /\ use2[f] = u
    BY <2>6, <2>8, <2>10
  <2>13. \A h \in Frame : h # f /\ h # g => use2[h] = use[h] /\ n.table[h] = m.table[h]
    BY <1>9, <2>8, <2>10
  <2>14. \A h \in Frame : use[h] # 0 => use2[h] = use[h] /\ n.table[h] = m.table[h]
    BY <2>8, <2>12, <2>13
  <2>15. SameViews(m, n, use)
    <3>1. \A h \in Frame : use[h] \in 1 .. 4 => n.table[h] = m.table[h]
      BY <2>14
    <3> QED BY <2>5, <3>1, TablesKept
  <2>16. n.kernel = m.kernel /\ m.kernel \in Frame /\ use[m.kernel] = 4
    BY <1>9, <2>2, <2>5 DEF Grows, Tree, Memory, MemoryRecord
  <2>17. SectionRights(n)
    <3> SUFFICES ASSUME NEW i \in 1 .. 4
                 PROVE  Rights(n, n.kernel, Sections[i].virt) = Sections[i].flags
      BY DEF SectionRights
    <3>1. PICK w \in Virt : w = Sections[i].virt
      BY SectionsUpper
    <3>2. View(n, m.kernel, w) = View(m, m.kernel, w)
      BY <2>15, <2>16 DEF SameViews
    <3>3. Rights(n, m.kernel, w) = Rights(m, m.kernel, w)
      BY <3>2 DEF View
    <3> QED BY <2>5, <2>16, <3>1, <3>3 DEF SectionRights
  <2>18. Parented(n, use2)
    <3> SUFFICES ASSUME NEW h \in Frame, use2[h] \in 1 .. 3
                 PROVE  \E i \in Frame, j \in Slots : use2[i] = use2[h] + 1 /\ Present(n.table[i][j])
                                                       /\ n.table[i][j].to = h
      BY DEF Parented
    <3>1. h # f /\ h # g
      BY <2>6, <2>10, <2>12
    <3>2. use2[h] = use[h]
      BY <2>13, <3>1
    <3>3. PICK i \in Frame, j \in Slots : /\ use[i] = use[h] + 1 /\ Present(m.table[i][j])
                                          /\ m.table[i][j].to = h
      BY <2>5, <3>2 DEF Parented
    <3>4. use[i] # 0
      BY <3>2, <3>3
    <3> QED BY <2>14, <3>2, <3>3, <3>4
  <2>19. Whole(n)
    <3>1. Grows(m, o)
      BY <2>2, GrowsOn
    <3>2. Whole(o)
      BY <2>5, <3>1 DEF Whole, Grows
    <3> QED BY <1>9, <3>2 DEF Whole, Tidy
  <2>20. PICK l : l = <<g>>
    OBVIOUS
  <2>21. l \in Seq(Frame) /\ Len(l) = 1 /\ l[1] = g
    BY <2>20
  <2>22. n.region[g] = reg /\ g \in n.held
    BY <1>9, <1>11, <2>4 DEF Took
  <2>23. HeapList(n, use2, l)
    <3>1. \A i \in 1 .. Len(l) : i = 1
      BY <2>21
    <3>2. \A i \in 2 .. Len(l) : FALSE
      BY <2>21
    <3>3. \A i, j \in 1 .. Len(l) : ~(i < j)
      BY <2>21
    <3>4. reg.size >= 1 /\ reg.next = NULL /\ reg.start = 0
      BY <1>7
    <3>5. \A i \in 1 .. Len(l) : l[i] \in n.held /\ n.region[l[i]].size >= 1
      BY <2>21, <2>22, <3>1, <3>4
    <3>6. \A i \in 1 .. Len(l) : n.region[l[i]].next = IF i = Len(l) THEN NULL ELSE l[i + 1]
      BY <2>21, <2>22, <3>1, <3>4
    <3>7. Chain(n, l)
      BY <1>9, <2>21, <2>22, <3>2, <3>3, <3>4, <3>5, <3>6 DEF Chain
    <3>8. \A i \in 1 .. Len(l) : use2[l[i]] = RegionUse
      BY <2>6, <2>10, <2>21, <3>1
    <3> QED BY <3>7, <3>8 DEF HeapList
  <2>24. PICK O : O = {n.ctx} /\ O = {f}
    BY <1>9
  <2>25. Sound(n, use2, l, {}, {}, O, {})
    <3>1. HeapOwned(n, use2, {}) /\ MapsOwned(n, use2, {}) /\ ImagesOwned(n, use2, {}, {})
      BY DEF HeapOwned, MapsOwned, ImagesOwned
    <3>2. OthersOwned(use2, O)
      BY <2>6, <2>12, <2>24 DEF OthersOwned
    <3>3. {} \subseteq RegionsOf(n, l)
      OBVIOUS
    <3> QED BY <2>10, <2>11, <2>17, <2>18, <2>19, <2>23, <3>1, <3>2, <3>3 DEF Sound
  <2>26. Complete(n, use2, l, {}, {}, O)
    <3> SUFFICES ASSUME NEW h \in Frame
                 PROVE  /\ use2[h] = 4 => h = n.kernel \/ h \in {}
                        /\ use2[h] = RegionUse => h \in Members(l)
                        /\ use2[h] = HeapUse => \E x \in {} : h = FirstFrame(n, x)
                        /\ use2[h] = OtherUse => h \in O
      BY DEF Complete
    <3>0. RegionUse = 5 /\ HeapUse = 6 /\ OtherUse = 7
      BY DEF RegionUse, HeapUse, OtherUse
    <3>1. CASE h = f
      BY <2>6, <2>12, <2>24, <3>0, <3>1
    <3>2. CASE h = g
      <4>1. h \in Members(l)
        <5>1. 1 \in 1 .. Len(l)
          BY <2>21
        <5> QED BY <2>21, <3>2, <5>1 DEF Members
      <4> QED BY <2>6, <2>10, <3>0, <3>2, <4>1
    <3>3. CASE h # f /\ h # g
      <4>1. use2[h] = use[h] /\ use[h] \in 0 .. 4
        BY <2>5, <2>13, <3>3
      <4>2. use[h] = 4 => h = m.kernel
        BY <2>5 DEF Alone
      <4> QED BY <2>16, <3>0, <4>1, <4>2
    <3> QED BY <3>1, <3>2, <3>3
  <2>27. Good(n, use2, l, {}, {}, O, {})
    BY <2>25, <2>26 DEF Good
  <2>28. NoImage(use2)
    <3>1. \A h \in Frame : use2[h] \in 0 .. 4 \/ use2[h] = u \/ use2[h] = v
      BY <2>5, <2>10, <2>12, <2>13
    <3> QED BY <2>6, <3>1 DEF NoImage, ImageUse, OtherUse, RegionUse
  <2> QED BY <2>24, <2>27, <2>28
<1> QED BY <1>9, <1>13, <1>14

\* vma_alloc keeps the root and the history, even in wild memory.
LEMMA AllocKeeps ==
    ASSUME NEW B \in Nat, NEW m \in Memory(Frame, B), m.root \in Frame,
           NEW size \in 1 .. PAGE_SIZE, NEW r, r = vma_alloc(m, size)
    PROVE  r.mem.root = m.root /\ m.events \subseteq r.mem.events
<1>1. PICK at, start : at = After(m, size) /\ start = End(m.region[at])
  OBVIOUS
<1>2. at \in Frame /\ start \in Nat
  BY <1>1, Allocated
<1>3. PICK new \in Frame, o \in Memory(Frame, B), l \in Memory(Frame, B + size),
          q \in [page : Frame, mem : Memory(Frame, B + size)] :
          /\ \/ o = Note(m, "frame0") /\ new = 0 /\ m.stack = << >>
             \/ Took(m, o, new)
          /\ l = Link(o, at, new, size) /\ q = pmm_request_page(l)
          /\ IF q.page = 0 THEN r.mem = Note(l, "nomem") /\ r.start = NULL
             ELSE /\ r.mem = vmm_map(q.mem, l.kernel, start, q.page, HeapFlags)
                  /\ r.start = start
  BY <1>1, Allocated
<1>4. Grows(m, o)
  BY <1>3, HigherHalfGrows
<1>5. size \in Nat /\ B + size \in Nat
  OBVIOUS
<1>6. PICK next, s : Links(o, l, at, new, size, next, s)
  BY <1>2, <1>3, <1>5, Linked
<1>7. l.root = m.root /\ m.events \subseteq l.events
  BY <1>4, <1>6 DEF Grows, Links
<1>8. CASE q.page = 0
  <2>1. "nomem" \in Events
    BY DEF Events
  <2>2. PICK n : n = r.mem /\ n = Note(l, "nomem")
    BY <1>3, <1>8
  <2>3. Alike(l, n) /\ n.events = l.events \cup {"nomem"}
    BY <1>3, <2>1, <2>2, Noted
  <2> QED BY <1>7, <2>2, <2>3 DEF Alike
<1>9. CASE q.page # 0
  <2>0. PICK n : n = r.mem
    OBVIOUS
  <2>1. PICK d \in Memory(Frame, B + size), f \in Frame, k \in Frame :
           d = q.mem /\ f = q.page /\ k = l.kernel /\ n = r.mem
    BY <1>3, <2>0 DEF Memory, MemoryRecord
  <2>2. n = vmm_map(d, k, start, f, HeapFlags)
    BY <1>3, <1>9, <2>1
  <2>3. Grows(d, n)
    BY <1>2, <1>5, <2>1, <2>2, MapGrows, HeapFlagsType
  <2>4. (l.stack = << >> /\ q.page = 0 /\ q.mem = l) \/ Took(l, q.mem, q.page)
    BY <1>3, <1>5, Requested
  <2>5. Took(l, d, f)
    BY <1>9, <2>1, <2>4
  <2>6. d.root = l.root /\ l.events \subseteq d.events
    BY <2>5 DEF Took
  <2> QED BY <1>7, <2>1, <2>3, <2>6 DEF Grows
<1> QED BY <1>8, <1>9

\* vma_free keeps the history.
LEMMA FreeKeeps ==
    ASSUME NEW B \in Nat, NEW m \in Memory(Frame, B), m.root \in Frame, NEW start \in Nat,
           NEW n, n = vma_free(m, start)
    PROVE  n \in Memory(Frame, B) /\ m.events \subseteq n.events
<1>1. PICK l : l = RegionList(m)
  OBVIOUS
<1>2. /\ n \in Memory(Frame, B)
      /\ n = m \/ \E k \in 1 .. Len(l) : RegionOut(m, n, B, start, l[k])
  BY <1>1, RegionFreed
<1>3. CASE n = m
  BY <1>2, <1>3
<1>4. ASSUME NEW k \in 1 .. Len(l), RegionOut(m, n, B, start, l[k])
      PROVE  m.events \subseteq n.events
  <2>1. PICK r \in Frame : r = l[k]
    BY <1>1, ListType
  <2>2. PICK size \in Nat : size = m.region[r].size
    BY <2>1 DEF Memory, MemoryRecord, Region
  <2>3. RegionOut(m, n, B, start, r)
    BY <1>4, <2>1
  <2>4. \E f \in [0 .. size -> Memory(Frame, B)], u \in Memory(Frame, B) :
             /\ FreeLoop(f, IF r \in m.stale THEN Note(m, "lost") ELSE m, f[size], start, size)
             /\ u = Unlink(f[size], r) /\ n = pmm_free_page(u, r)
    BY <2>2, <2>3 DEF RegionOut
  <2>5. PICK f \in [0 .. size -> Memory(Frame, B)], u \in Memory(Frame, B) :
             /\ FreeLoop(f, IF r \in m.stale THEN Note(m, "lost") ELSE m, f[size], start, size)
             /\ u = Unlink(f[size], r) /\ n = pmm_free_page(u, r)
    BY <2>4
  <2>6. /\ f[0] = IF r \in m.stale THEN Note(m, "lost") ELSE m
        /\ \A j \in 1 .. size : f[j] = FreeHeapPage(f[j - 1], start + j - 1, start)
    BY <2>5 DEF FreeLoop
  <2>7. m.events \subseteq f[0].events
    <3>1. "lost" \in Events
      BY DEF Events
    <3>2. Note(m, "lost").events = m.events \cup {"lost"}
      BY <3>1, Noted
    <3> QED BY <2>6, <3>2
  <2>8. \A j \in 1 .. size : f[j - 1].events \subseteq f[j].events
    <3> TAKE j \in 1 .. size
    <3>1. PICK a \in Memory(Frame, B), b \in Memory(Frame, B), p \in Nat :
             a = f[j - 1] /\ b = f[j] /\ p = start + j - 1
      <4>1. start + j - 1 \in Nat /\ j - 1 \in 0 .. size
        OBVIOUS
      <4> QED BY <4>1
    <3>2. b = FreeHeapPage(a, p, start)
      BY <2>6, <3>1
    <3> QED BY <3>1, <3>2, PageFreedEvents
  <2> DEFINE S == {j \in 0 .. size : m.events \subseteq f[j].events}
  <2>9. 0 \in S
    BY <2>7
  <2>10. ASSUME NEW j \in 1 .. size, j - 1 \in S PROVE j \in S
    BY <2>8, <2>10
  <2>11. 0 .. size \subseteq S
    <3> HIDE DEF S
    <3> QED BY <2>9, <2>10, Induction
  <2>12. m.events \subseteq f[size].events
    BY <2>11
  <2>13. PICK d \in Memory(Frame, B) : d = f[size]
    BY <2>5
  <2>14. u.events = d.events
    BY <2>1, <2>5, <2>13, Unlinked
  <2>15. Frame \subseteq Int
    BY Constants
  <2>16. Returns(u, n, r)
    BY <2>5, <2>15, Freed
  <2> QED BY <2>12, <2>13, <2>14, <2>16 DEF Returns
<1> QED BY <1>2, <1>3, <1>4

\* Memory of test_vmm: the heap has no region but its root.
Tested(B) ==
    {m \in Memory(Frame, B) :
        Wild(m) \/ \E use, l : Good(m, use, l, {}, {}, {m.ctx}, {}) /\ NoImage(use)}

TestOnce(m) ==
    LET r == vma_alloc(m, 1)
    IN IF r.start = NULL THEN vma_destroy_context(r.mem) ELSE vma_free(r.mem, r.start)

\* One allocation of a page, and its free.
LEMMA TestStep ==
    ASSUME NEW B \in Nat, B + 1 <= HHDM, NEW m \in Tested(B), ~Wild(m),
           NEW n, n = TestOnce(m)
    PROVE  n \in Tested(B + 1)
<1>1. m \in Memory(Frame, B) /\ B + 1 \in Nat
  BY DEF Tested
<1>2. PICK use, l : Good(m, use, l, {}, {}, {m.ctx}, {}) /\ NoImage(use)
  BY DEF Tested
<1>3. m.root \in Frame
  <2>1. Chain(m, l)
    BY <1>2 DEF Good, Sound, HeapList
  <2> QED BY <2>1 DEF Chain
<1>4. PICK r : r = vma_alloc(m, 1)
  OBVIOUS
<1>5. 1 \in 1 .. PAGE_SIZE
  BY Constants
<1>6. r \in [mem : Memory(Frame, B + 1), start : Nat \cup {NULL}]
  BY <1>1, <1>3, <1>4, <1>5, Allocated
<1>7. r.mem.root = m.root /\ m.events \subseteq r.mem.events
  BY <1>1, <1>3, <1>4, <1>5, AllocKeeps
<1>8. PICK o \in Memory(Frame, B + 1) : o = r.mem /\ o.root \in Frame
  BY <1>3, <1>6, <1>7
<1>9. CASE r.start = NULL
  <2>1. n = vma_destroy_context(o)
    BY <1>4, <1>8, <1>9 DEF TestOnce
  <2> QED BY <1>1, <1>8, <2>1, Destroyed DEF Tested
<1>10. CASE r.start # NULL
  <2>1. PICK start \in Nat : start = r.start
    BY <1>6, <1>10
  <2>2. n = vma_free(o, start)
    BY <1>4, <1>8, <1>10, <2>1 DEF TestOnce
  <2>3. n \in Memory(Frame, B + 1) /\ o.events \subseteq n.events
    BY <1>1, <1>8, <2>2, FreeKeeps
  <2>4. CASE Wild(n)
    BY <2>3, <2>4 DEF Tested
  <2>5. CASE ~Wild(n)
    <3>1. ~Wild(o)
      BY <2>3, <2>5, WildStays
    <3>2. PICK use1, l1 : GoodAlloc(m, r, use, use1, l1, {}, {}, {m.ctx}, {}, 1)
      BY <1>1, <1>2, <1>4, <1>5, <1>8, <3>1, AllocGood
    <3>3. PICK reg : reg = [start |-> start, size |-> 1]
      OBVIOUS
    <3>4. PICK owned1 : owned1 = {reg}
      OBVIOUS
    <3>5. {} \cup Given(r, 1) = owned1
      BY <1>10, <2>1, <3>3, <3>4 DEF Given
    <3>6. Good(o, use1, l1, owned1, {}, {m.ctx}, {})
      BY <1>8, <3>2, <3>5 DEF GoodAlloc
    <3>7. o.ctx = m.ctx
      BY <1>8, <3>2 DEF GoodAlloc, Moves
    <3>8. n = vma_free(o, reg.start)
      BY <2>2, <3>3
    <3>9. PICK use2, l2 : GoodFree(o, n, use1, use2, l2, owned1, {}, {m.ctx}, {}, reg)
      BY <1>1, <1>8, <2>5, <3>4, <3>6, <3>8, FreeGood
    <3>10. Good(n, use2, l2, owned1 \ {reg}, {}, {m.ctx}, {}) /\ n.ctx = o.ctx
      BY <3>9 DEF GoodFree, Moves
    <3>11. owned1 \ {reg} = {}
      BY <3>4
    <3>12. Good(n, use2, l2, {}, {}, {n.ctx}, {})
      BY <3>7, <3>10, <3>11
    <3>13. NoImages(use, use1) /\ NoImages(use1, use2)
      BY <3>2, <3>9 DEF GoodAlloc, GoodFree
    <3>14. NoImage(use2)
      BY <1>2, <3>13 DEF NoImage, NoImages
    <3> QED BY <2>3, <3>12, <3>14 DEF Tested
  <2> QED BY <2>4, <2>5
<1> QED BY <1>9, <1>10

TestIf(m) == IF Wild(m) THEN m ELSE TestOnce(m)

\* test_vmm is a loop that stops in wild memory.
LEMMA TestsAre ==
    ASSUME NEW m, NEW N \in Nat
    PROVE  test_vmm(m, N) =
              LET iter == CHOOSE g : g = [s \in SUBSET (1 .. N) |->
                                            IF s = {} THEN m ELSE TestIf(g[s \ {Max(s)}])]
              IN iter[1 .. N]
  BY DEF test_vmm, TestIf, TestOnce, FoldLeft, MapThenFoldSet

\* test_vmm leaves the heap as it was, or memory wild.
LEMMA TestsRun ==
    ASSUME NEW B \in Nat, NEW N \in Nat, B + N <= HHDM, NEW m \in Tested(B), NEW n, n = test_vmm(m, N)
    PROVE  n \in Tested(B + N)
<1> DEFINE V == Memory(Frame, B + N)
           G == [i \in 0 .. N |-> Tested(B + i)]
           Is(g) == g = [s \in SUBSET (1 .. N) |-> IF s = {} THEN m ELSE TestIf(g[s \ {Max(s)}])]
           step == [i \in 1 .. N |-> [v \in V |-> TestIf(v)]]
           iter == CHOOSE g : Is(g)
<1>1. n = iter[1 .. N]
  BY TestsAre
<1>2. \A i \in 0 .. N : B + i \in Nat /\ B + i <= B + N /\ B + N \in Nat
  OBVIOUS
<1>3. \A i \in 0 .. N : Tested(B + i) \subseteq V
  <2> TAKE i \in 0 .. N
  <2> SUFFICES ASSUME NEW v \in Tested(B + i) PROVE v \in Memory(Frame, B + N)
    OBVIOUS
  <2>1. PICK C \in Nat, D \in Nat : C = B + i /\ D = B + N /\ C <= D
    BY <1>2
  <2>2. v \in Memory(Frame, C)
    BY <2>1 DEF Tested
  <2>3. v \in Memory(Frame, D)
    BY <2>1, <2>2, Wider
  <2> QED BY <2>1, <2>3
<1>4. ASSUME NEW i \in 1 .. N
      PROVE  /\ Tested(B + (i - 1)) \subseteq Tested(B + i)
             /\ \A v \in Tested(B + (i - 1)) : TestIf(v) \in Tested(B + i)
  <2>1. HHDM \in Nat
    BY LowerVirt
  <2>2. PICK C \in Nat, D \in Nat : C = B + (i - 1) /\ D = B + i /\ D = C + 1 /\ C <= D
                                       /\ C + 1 <= HHDM
    <3>1. B + (i - 1) \in Nat /\ B + i \in Nat /\ B + i = B + (i - 1) + 1 /\ B + i <= HHDM
      BY <2>1
    <3> QED BY <3>1
  <2>3. ASSUME NEW v \in Tested(C) PROVE v \in Tested(D)
    <3>1. v \in Memory(Frame, C)
      BY DEF Tested
    <3>2. v \in Memory(Frame, D)
      BY <2>2, <3>1, Wider
    <3> QED BY <3>2 DEF Tested
  <2>4. ASSUME NEW v \in Tested(C) PROVE TestIf(v) \in Tested(D)
    <3>1. CASE Wild(v)
      BY <2>3, <3>1 DEF TestIf
    <3>2. CASE ~Wild(v)
      <4>1. TestOnce(v) \in Tested(C + 1)
        BY <2>2, <3>2, TestStep
      <4> QED BY <2>2, <3>2, <4>1 DEF TestIf
    <3> QED BY <3>1, <3>2
  <2> QED BY <2>2, <2>3, <2>4
<1>5. G \in [0 .. N -> SUBSET V]
  BY <1>3
<1>6. m \in G[0]
  <2>1. B + 0 = B /\ 0 \in 0 .. N
    OBVIOUS
  <2> QED BY <2>1
<1>7. LeadsUp(G, N, step)
  <2> SUFFICES ASSUME NEW i \in 1 .. N
               PROVE  G[i - 1] \subseteq G[i] /\ \A v \in G[i - 1] : step[i][v] \in G[i]
    BY DEF LeadsUp
  <2>1. i - 1 \in 0 .. N /\ i \in 0 .. N
    OBVIOUS
  <2>2. G[i - 1] = Tested(B + (i - 1)) /\ G[i] = Tested(B + i) /\ Tested(B + (i - 1)) \subseteq V
    BY <1>3, <2>1
  <2> HIDE DEF G, V
  <2>3. \A v \in V : step[i][v] = TestIf(v)
    OBVIOUS
  <2> QED BY <1>4, <2>2, <2>3
<1>8. PICK g \in [SUBSET (1 .. N) -> V] :
         /\ Folds(g, N, m, step)
         /\ StaysIn(g, G, N)
  <2> HIDE DEF step, V, G, Is, iter
  <2> QED BY <1>5, <1>6, <1>7, FoldingUp
<1>9. Is(g)
  <2> HIDE DEF V, G
  <2>1. ASSUME NEW s \in SUBSET (1 .. N), s # {}
        PROVE  step[Max(s)][g[s \ {Max(s)}]] = TestIf(g[s \ {Max(s)}])
    <3>1. Max(s) \in 1 .. N
      BY <2>1, MaxIs
    <3>2. g[s \ {Max(s)}] \in V
      BY <1>8
    <3> QED BY <3>1, <3>2
  <2> QED BY <1>8, <2>1 DEF Folds
<1>10. Is(iter)
  <2> HIDE DEF Is
  <2> QED BY <1>9
<1>11. iter = g
  <2> SUFFICES \A s \in SUBSET (1 .. N) : iter[s] = g[s]
    BY <1>8, <1>10
  <2> DEFINE S == {n1 \in 0 .. N : \A s \in SUBSET (1 .. n1) : iter[s] = g[s]}
  <2> HIDE DEF iter, V, G
  <2>1. 0 \in S
    <3>1. \A s \in SUBSET (1 .. 0) : s = {} /\ s \in SUBSET (1 .. N)
      OBVIOUS
    <3> QED BY <1>9, <1>10, <3>1
  <2>2. ASSUME NEW k \in 1 .. N, k - 1 \in S PROVE k \in S
    <3>1. ASSUME NEW s \in SUBSET (1 .. k) PROVE iter[s] = g[s]
      <4>1. CASE k \notin s
        <5>1. s \in SUBSET (1 .. (k - 1))
          BY <4>1
        <5> QED BY <2>2, <5>1
      <4>2. CASE k \in s
        <5>1. s \ {k} \in SUBSET (1 .. (k - 1)) /\ s \in SUBSET (1 .. N) /\ s # {} /\ k \in Nat
          BY <4>2
        <5>2. Max(s) = k
          BY <4>2, <5>1, MaxTop
        <5>3. iter[s \ {k}] = g[s \ {k}]
          BY <2>2, <5>1
        <5> QED BY <1>9, <1>10, <5>1, <5>2, <5>3
      <4> QED BY <4>1, <4>2
    <3> QED BY <3>1
  <2>3. 0 .. N \subseteq S
    <3> HIDE DEF S
    <3> QED BY <2>1, <2>2, Induction
  <2>4. N \in 0 .. N
    OBVIOUS
  <2> QED BY <2>3, <2>4
<1>12. g[1 .. N] \in G[N] /\ N \in 0 .. N
  <2>1. 1 .. N \in SUBSET (1 .. N) /\ N \in 0 .. N
    OBVIOUS
  <2> HIDE DEF G
  <2> QED BY <1>8, <2>1 DEF StaysIn
<1> QED BY <1>1, <1>11, <1>12

\* The indices of the kernel's sections: they share all tables.
LEMMA SectionIndex ==
    ASSUME NEW k \in 1 .. 4, NEW v, v = Sections[k].virt
    PROVE  /\ Index(v, 4) = Fan - 1 /\ Index(v, 3) = 0 /\ Index(v, 2) = 0 /\ Index(v, 1) = k - 1
           /\ v = KernelBase + (k - 1)
<1>0. Fan \in Nat /\ Fan >= 4
  BY Constants
<1>1. v = KernelBase + (k - 1)
  BY SectionsAre
<1>2. PICK i \in Nat : i = k - 1 /\ i < Fan /\ i \in 0 .. (Fan - 1)
  BY <1>0
<1>3. PICK a \in Nat : a = (Fan - 1) * Fan /\ a % Fan = 0 /\ a \div Fan = Fan - 1
  <2>1. (Fan - 1) * Fan \in Nat
    BY <1>0
  <2>2. PICK F \in Nat \ {0}, g \in Nat, b \in Nat :
           F = Fan /\ g = Fan - 1 /\ b = (Fan - 1) * Fan /\ b = g * F + 0 /\ 0 \in 0 .. (F - 1)
    BY <1>0, <2>1
  <2>3. b \div F = g /\ b % F = 0
    BY <2>2
  <2> QED BY <2>2, <2>3
<1>4. PICK b \in Nat : b = a * Fan /\ b % Fan = 0 /\ b \div Fan = a
  <2>2. PICK F \in Nat \ {0}, c \in Nat : F = Fan /\ c = a * F + 0 /\ 0 \in 0 .. (F - 1)
    BY <1>0
  <2>3. c \div F = a /\ c % F = 0
    BY <2>2
  <2> QED BY <2>2, <2>3
<1>5. KernelBase = b * Fan
  BY <1>3, <1>4 DEF KernelBase
<1>6. v \div 1 = v /\ v % Fan = i /\ v \div Fan = b
  <2>1. PICK F \in Nat \ {0} : F = Fan /\ v = b * F + i /\ i \in 0 .. (F - 1)
    BY <1>0, <1>1, <1>2, <1>5
  <2>2. v \in Nat /\ v \div F = b /\ v % F = i
    BY <2>1
  <2> QED BY <2>1, <2>2
<1>7. v \in Nat
  BY SectionsAre
<1>8. v \div (Fan * Fan) = a /\ v \div (Fan * Fan * Fan) = Fan - 1
  <2>1. PICK F \in Nat \ {0}, FF \in Nat \ {0} : F = Fan /\ FF = F * F
    BY <1>0
  <2>2. (v \div F) \div F = v \div (F * F)
    BY <1>7, <2>1, DivDiv
  <2>3. (v \div FF) \div F = v \div (FF * F)
    BY <1>7, <2>1, DivDiv
  <2> QED BY <1>3, <1>4, <1>6, <2>1, <2>2, <2>3
<1>9. Span(1) = 1 /\ Span(2) = Fan /\ Span(3) = Fan * Fan /\ Span(4) = Fan * Fan * Fan
  BY Spans
<1>10. (Fan - 1) % Fan = Fan - 1
  BY <1>0
<1> QED BY <1>1, <1>2, <1>3, <1>4, <1>6, <1>8, <1>9, <1>10 DEF Index

\* Where the direct map lies.
LEMMA DirectPages ==
    ASSUME NEW g \in 0 .. (Gb4 - 1)
    PROVE  /\ g \in Frame /\ g \in Lower /\ g \in Virt /\ HHDM + g \in Virt
           /\ \A k \in 1 .. 4 : Sections[k].virt # g /\ Sections[k].virt # HHDM + g
<1>0. /\ Fan \in Nat /\ Fan >= 4 /\ Half \in Nat /\ Half >= 1 /\ Half < Fan - 1 /\ Gb4 \in Nat
           /\ Gb4 <= MaxRam + 1
      /\ MaxRam \in Nat /\ LastFrame = MaxRam + 4
  BY Constants
<1>1. Gb4 <= Fan * Fan * Fan
  BY VmmAssumption
<1>2. PICK C \in Nat : C = Fan * Fan * Fan
  BY <1>0
<1>3. HHDM = Half * C /\ KernelBase = (Fan - 1) * C /\ Fan * Fan * Fan * Fan = Fan * C
  BY <1>0, <1>2 DEF HHDM, KernelBase
<1>4. PICK h \in Nat, b \in Nat, e \in Nat : h = Half * C /\ b = (Fan - 1) * C /\ e = Fan * C
  BY <1>0
<1>5. h >= C
  BY <1>0, <1>4
<1>6. h + C <= b
  <2>1. Half + 1 <= Fan - 1
    BY <1>0
  <2>2. PICK d \in Nat : Fan - 1 = Half + 1 + d
    <3>1. (Fan - 1) - (Half + 1) \in Nat
      BY <1>0, <2>1
    <3> QED BY <1>0, <3>1
  <2>3. b = Half * C + C + d * C /\ d * C \in Nat
    BY <1>0, <1>4, <2>2
  <2> QED BY <1>4, <2>3
<1>7. b + C = e
  BY <1>0, <1>4
<1>8. g \in Nat /\ g < C /\ g < h /\ h + g < b /\ h + g < e
  BY <1>0, <1>1, <1>2, <1>5, <1>6, <1>7
<1>9. g \in Frame
  BY <1>0 DEF Frame
<1>10. g \in Lower
  BY <1>3, <1>4, <1>8, LowerVirt
<1>11. HHDM + g \in Virt
  <2>1. HHDM + g \in Nat /\ HHDM + g < Fan * C
    BY <1>3, <1>4, <1>8
  <2> QED BY <1>3, <1>4, <2>1 DEF Virt
<1>12. \A k \in 1 .. 4 : Sections[k].virt # g /\ Sections[k].virt # HHDM + g
  <2> TAKE k \in 1 .. 4
  <2>1. PICK v : v = Sections[k].virt
    OBVIOUS
  <2>2. v = KernelBase + (k - 1)
    BY <2>1, SectionsAre
  <2> QED BY <1>3, <1>4, <1>8, <2>1, <2>2
<1> QED BY <1>9, <1>10, <1>11, <1>12, LowerVirt

\* Narrowed by entries that allow all that can be written, the rights are those of the last.
LEMMA NarrowTo ==
    ASSUME NEW a, NEW b, NEW c, NEW e, a.flags = {"P", "W"}, b.flags = {"P", "W"},
           c.flags = {"P", "W"},
           e.flags \in SUBSET Flags
    PROVE  Narrow(Narrow(Narrow(Narrow({"P", "W"}, a), b), c), e) = e.flags
<1>1. Narrow({"P", "W"}, a) = {"P", "W"} /\ Narrow({"P", "W"}, b) = {"P", "W"}
         /\ Narrow({"P", "W"}, c) = {"P", "W"}
  BY DEF Narrow
<1>2. Narrow({"P", "W"}, e) = e.flags
  BY DEF Narrow, Flags
<1> QED BY <1>1, <1>2

\* The kernel's tables while they are made.
Building(m, use) ==
    /\ use \in Uses /\ Tree(m, use) /\ Alone(m, use) /\ Parented(m, use)
    /\ Whole(m) /\ \A f \in Frame : use[f] \in 0 .. 4

\* vmm_map during vmm_init.
LEMMA BuildOn ==
    ASSUME NEW B \in Nat, NEW m \in Memory(Frame, B), NEW use, Building(m, use), NEW q, q = m.kernel,
           NEW v \in Virt, NEW phys \in Frame, NEW flags \in SUBSET Flags, "P" \in flags,
           NEW n, n = vmm_map(m, q, v, phys, flags), ~Wild(n)
    PROVE  /\ n.kernel = q
           /\ \E use2 : Building(n, use2) /\ Maps(m, n, use, use2, q, v, phys, flags)
<1>0. q \in Frame /\ use[q] = 4 /\ use \in Uses /\ Tree(m, use) /\ Alone(m, use) /\ v \in Nat
  BY VirtNat DEF Building, Tree, Memory, MemoryRecord
<1>1. n \in Memory(Frame, B) /\ Grows(m, n)
  BY <1>0, MapGrows
<1>2. PICK use2 \in Uses : Maps(m, n, use, use2, q, v, phys, flags)
  BY <1>0, MapStep
<1>3. n.kernel = q
  BY <1>1 DEF Grows
<1>4. Tree(n, use2) /\ Extends(m, use, use2) /\ Reached(n, use, use2)
  BY <1>2 DEF Maps
<1>5. Alone(n, use2)
  <2> SUFFICES ASSUME NEW f \in Frame, use2[f] = 4 PROVE f = n.kernel
    BY DEF Alone
  <2>1. use[f] = 4
    BY <1>4 DEF Extends
  <2> QED BY <1>0, <1>3, <2>1 DEF Alone
<1>6. Still(use, use2)
  BY <1>0, <1>4 DEF Still, Extends, Tree
<1>7. Parented(n, use2)
  <2>1. Parented(m, use)
    BY DEF Building
  <2>2. \A f \in Frame, i \in Slots :
           use[f] \in 2 .. 4 /\ Present(m.table[f][i]) => n.table[f][i] = m.table[f][i]
    BY <1>2 DEF Maps
  <2> QED BY <1>0, <1>4, <1>6, <2>1, <2>2, StillParented
<1>8. Whole(n)
  <2>1. Kept(m, n)
    BY <1>1, GrowsKept
  <2> QED BY <2>1, KeptWhole DEF Building
<1>9. \A f \in Frame : use2[f] \in 0 .. 4
  <2> TAKE f \in Frame
  <2>1. use[f] \in 0 .. 4
    BY DEF Building
  <2> QED BY <1>4, <2>1 DEF Extends
<1> QED BY <1>2, <1>3, <1>4, <1>5, <1>7, <1>8, <1>9 DEF Building

\* vmm_init's last loop keeps the kernel's tables and the rights of its sections.
LEMMA BootOn ==
    ASSUME NEW B \in Nat, NEW m \in Memory(Frame, B), NEW use, Booting(m, use), NEW q, q = m.kernel,
           NEW v \in Virt, \A k \in 1 .. 4 : Sections[k].virt # v,
           NEW phys \in Frame, NEW flags \in SUBSET Flags, "P" \in flags,
           NEW n, n = vmm_map(m, q, v, phys, flags), ~Wild(n)
    PROVE  n.kernel = q /\ \E use2 : Booting(n, use2)
<1>1. Building(m, use)
  BY DEF Booting, Building
<1>2. PICK use2 : Building(n, use2) /\ Maps(m, n, use, use2, q, v, phys, flags) /\ n.kernel = q
  BY <1>1, BuildOn
<1>3. SameBut(m, n, use, q, {v}) /\ q \in Frame /\ use[q] = 4
  BY <1>2 DEF Maps, Booting, Tree, Memory, MemoryRecord
<1>4. SectionRights(n)
  <2> SUFFICES ASSUME NEW k \in 1 .. 4
               PROVE  Rights(n, n.kernel, Sections[k].virt) = Sections[k].flags
    BY DEF SectionRights
  <2>1. PICK w \in Virt : w = Sections[k].virt /\ w # v
    BY SectionsUpper
  <2>2. View(n, q, w) = View(m, q, w)
    BY <1>3, <2>1 DEF SameBut
  <2>3. Rights(n, q, w) = Rights(m, q, w)
    BY <2>2 DEF View
  <2>4. Rights(m, q, w) = Sections[k].flags
    BY <2>1 DEF Booting, SectionRights
  <2> QED BY <1>2, <2>1, <2>3, <2>4
<1> QED BY <1>2, <1>4 DEF Booting, Building

\* One iteration of vmm_init's last loop.
LEMMA DirectMapped ==
    ASSUME NEW B \in Nat, NEW m \in Memory(Frame, B), NEW g \in 0 .. (Gb4 - 1),
           NEW n, n = vmm_init_direct(m, g)
    PROVE  /\ n \in Memory(Frame, B)
           /\ \A use : Booting(m, use) /\ ~Wild(n) => \E use2 : Booting(n, use2)
<1>0. PICK q \in Frame, flags \in SUBSET Flags : q = m.kernel /\ flags = {"P", "W"} /\ "P" \in flags
  <2>1. {"P", "W"} \in SUBSET Flags /\ "P" \in {"P", "W"}
    BY DEF Flags
  <2>2. m.kernel \in Frame
    BY DEF Memory, MemoryRecord
  <2> QED BY <2>1, <2>2
<1>1. /\ g \in Frame /\ g \in Virt /\ HHDM + g \in Virt
      /\ \A k \in 1 .. 4 : Sections[k].virt # g /\ Sections[k].virt # HHDM + g
  BY DirectPages
<1>2. PICK o : o = vmm_map(m, q, g, g, flags)
  OBVIOUS
<1>3. g \in Nat /\ HHDM + g \in Nat
  BY <1>1, VirtNat
<1>4. o \in Memory(Frame, B) /\ Grows(m, o)
  BY <1>1, <1>2, <1>3, MapGrows
<1>5. PICK h \in Virt : h = HHDM + g /\ h \in Nat
  BY <1>1, <1>3
<1>6. n = IF Wild(o) THEN o ELSE vmm_map(o, q, h, g, flags)
  BY <1>0, <1>2, <1>5 DEF vmm_init_direct
<1>7. CASE Wild(o)
  BY <1>4, <1>6, <1>7
<1>8. CASE ~Wild(o)
  <2>1. n = vmm_map(o, q, h, g, flags)
    BY <1>6, <1>8
  <2>2. n \in Memory(Frame, B)
    BY <1>1, <1>4, <1>5, <2>1, MapGrows
  <2>3. ASSUME NEW use, Booting(m, use), ~Wild(n) PROVE \E use2 : Booting(n, use2)
    <3>1. PICK use1 : Booting(o, use1) /\ o.kernel = q
      BY <1>0, <1>1, <1>2, <1>8, <2>3, BootOn
    <3>2. \A k \in 1 .. 4 : Sections[k].virt # h
      BY <1>1, <1>5
    <3> QED BY <1>0, <1>1, <1>4, <2>1, <2>3, <3>1, <3>2, BootOn
  <2> QED BY <2>2, <2>3
<1> QED BY <1>7, <1>8

\* Memory as pmm_init leaves it.
LEMMA FreshIs ==
    ASSUME NEW ram \in 1 .. MaxRam, NEW B \in Nat, NEW m, m = FreshMemory(ram)
    PROVE  /\ m \in Memory(Frame, B) /\ Whole(m) /\ m.stack # << >> /\ m.held = {} /\ m.events = {}
           /\ \A f \in Frame : m.table[f] = NoTable
           /\ m.kernel = 0
<1>0. MaxRam \in Nat /\ LastFrame = MaxRam + 4 /\ 0 \in Frame
  BY Constants
<1>1. PICK s : s = [k \in 1 .. ram |-> k]
  OBVIOUS
<1>2. s \in Seq(Frame \ {0}) /\ Len(s) = ram /\ s # << >>
  <2>1. \A k \in 1 .. ram : k \in Frame \ {0}
    BY <1>0 DEF Frame
  <2>2. s \in [1 .. ram -> Frame \ {0}] /\ ram \in Nat
    BY <1>1, <2>1
  <2>3. s \in Seq(Frame \ {0}) /\ Len(s) = ram
    BY <2>2
  <2> QED BY <2>3
<1>3. /\ m.stack = s /\ m.max = ram /\ m.table = [f \in Frame |-> NoTable]
      /\ m.region = [f \in Frame |-> NoRegion] /\ m.data = [f \in Frame |-> Zeroes]
      /\ m.kernel = 0 /\ m.ctx = 0 /\ m.root = 0 /\ m.held = {} /\ m.stale = {} /\ m.events = {}
  BY <1>1 DEF FreshMemory
<1>4. m.table \in [Frame -> [Slots -> Entry]] /\ m.region \in [Frame -> Region]
         /\ m.data \in [Frame -> Bytes]
  BY <1>3, Cleared
<1>5. m \in MemoryRecord(Frame)
  <2>1. m = [stack |-> m.stack, max |-> m.max, table |-> m.table, region |-> m.region,
             data |-> m.data, kernel |-> m.kernel, ctx |-> m.ctx, root |-> m.root,
             held |-> m.held, stale |-> m.stale, events |-> m.events]
    BY DEF FreshMemory
  <2>2. ram \in Nat
    OBVIOUS
  <2> QED BY <1>0, <1>2, <1>3, <1>4, <2>1, <2>2 DEF MemoryRecord
<1>6. \A f \in Frame : End(m.region[f]) <= B
  <2>1. \A f \in Frame : m.region[f] = NoRegion
    BY <1>3
  <2>2. End(NoRegion) = 0
    BY DEF End, NoRegion
  <2> QED BY <2>1, <2>2
<1>7. Len(m.stack) <= m.max
  BY <1>2, <1>3
<1>8. m \in Memory(Frame, B)
  BY <1>5, <1>6, <1>7 DEF Memory
<1>9. Whole(m)
  <2>1. DOMAIN m.stack = 1 .. ram /\ \A k \in 1 .. ram : m.stack[k] = k
    BY <1>1, <1>3
  <2>2. Range(m.stack) = 1 .. ram
    BY <2>1 DEF Range
  <2> QED BY <1>3, <2>1, <2>2 DEF Whole, Tidy
<1> QED BY <1>2, <1>3, <1>8, <1>9

KernelSet(m, n, q) == n = [m EXCEPT !.kernel = q]

\* The page map is taken: a table of the fourth level, and nothing else is used.
LEMMA KernelTaken ==
    ASSUME NEW ram \in 1 .. MaxRam, NEW B \in Nat, NEW m, m = FreshMemory(ram),
           NEW r, r = RequestHigherHalf(m), NEW q, q = r.page,
           NEW n \in Memory(Frame, B), KernelSet(r.mem, n, q)
    PROVE  /\ n.kernel = q /\ q \in Frame
           /\ \E use : Building(n, use)
           /\ ~Present(n.table[q][Fan - 1])
<1>1. /\ m \in Memory(Frame, B) /\ Whole(m) /\ m.stack # << >> /\ m.held = {} /\ m.events = {}
      /\ \A f \in Frame : m.table[f] = NoTable
  BY FreshIs
<1>2. r \in [page : Frame, mem : Memory(Frame, B)] /\ Took(m, r.mem, r.page)
  BY <1>1, RequestedHigherHalf
<1>3. PICK o \in Memory(Frame, B) : o = r.mem /\ Took(m, o, q) /\ q \in Frame
  BY <1>2
<1>4. /\ n.kernel = q /\ n.table = o.table /\ n.held = o.held /\ n.stack = o.stack /\ n.max = o.max
  <2>1. n = [o EXCEPT !.kernel = q]
    BY <1>3 DEF KernelSet
  <2> QED BY <2>1 DEF Memory, MemoryRecord
<1>5. n.held = {q} /\ \A f \in Frame : n.table[f] = NoTable
  <2>1. o.held = m.held \cup {q} /\ o.table = [m.table EXCEPT ![q] = NoTable]
    BY <1>3 DEF Took
  <2>2. m.table \in [Frame -> [Slots -> Entry]]
    BY <1>1 DEF Memory, MemoryRecord
  <2> QED BY <1>1, <1>4, <2>1, <2>2
<1>6. \A f \in Frame, i \in Slots : n.table[f][i] = NoEntry
  <2>1. \A i \in Slots : NoTable[i] = NoEntry
    BY DEF NoTable, Slots
  <2> QED BY <1>5, <2>1
<1>7. ~Present(NoEntry)
  BY DEF Present, NoEntry
<1>8. Fan - 1 \in Slots
  BY Constants DEF Slots
<1>9. PICK use : use = [f \in Frame |-> IF f = q THEN 4 ELSE 0]
  OBVIOUS
<1>10. use \in Uses /\ \A f \in Frame : use[f] \in {0, 4} /\ (use[f] = 4 <=> f = q)
  BY <1>9 DEF Uses
<1>11. Tree(n, use)
  <2>1. \A f \in Frame : use[f] # 0 <=> f \in n.held
    BY <1>5, <1>10
  <2>2. use[n.kernel] = 4
    BY <1>3, <1>4, <1>10
  <2>3. \A f \in Frame, i \in Slots : ~Present(n.table[f][i])
    BY <1>6, <1>7
  <2>4. \A f \in Frame, i \in Slots : use[f] = 4 /\ i >= Half => n.table[f][i] = n.table[n.kernel][i]
    BY <1>3, <1>4, <1>10
  <2> QED BY <1>6, <2>1, <2>2, <2>3, <2>4 DEF Tree
<1>12. Alone(n, use)
  BY <1>4, <1>10 DEF Alone
<1>13. Parented(n, use)
  <2>1. \A f \in Frame : use[f] \notin 1 .. 3
    BY <1>10
  <2> QED BY <2>1 DEF Parented
<1>14. Whole(n)
  <2>1. Kept(m, o)
    <3>1. Grows(m, o)
      BY <1>1, <1>3, TookGrows
    <3> QED BY <3>1, GrowsKept
  <2>2. Whole(o)
    BY <1>1, <2>1, KeptWhole
  <2> QED BY <1>4, <2>2 DEF Whole, Tidy
<1>15. \A f \in Frame : use[f] \in 0 .. 4
  BY <1>10
<1>16. Building(n, use)
  BY <1>10, <1>11, <1>12, <1>13, <1>14, <1>15 DEF Building
<1>17. ~Present(n.table[q][Fan - 1])
  BY <1>3, <1>6, <1>7, <1>8
<1> QED BY <1>3, <1>4, <1>16, <1>17

\* The sections share their tables.
LEMMA SharedPath ==
    ASSUME NEW m, NEW q, NEW j \in 1 .. 4, NEW k \in 1 .. 4, NEW v, v = Sections[j].virt,
           NEW w, w = Sections[k].virt
    PROVE  /\ E4(m, q, v) = E4(m, q, w) /\ E3(m, q, v) = E3(m, q, w) /\ E2(m, q, v) = E2(m, q, w)
           /\ E4(m, q, v) = m.table[q][Fan - 1]
           /\ Three(m, q, v) = Three(m, q, w)
<1>1. Index(v, 4) = Fan - 1 /\ Index(v, 3) = 0 /\ Index(v, 2) = 0
  BY SectionIndex
<1>2. Index(w, 4) = Fan - 1 /\ Index(w, 3) = 0 /\ Index(w, 2) = 0
  BY SectionIndex
<1> QED BY <1>1, <1>2 DEF E4, E3, E2, Three

\* The way to a page, through entries that may be written.
Open(m, q, v) ==
    /\ Three(m, q, v) /\ E4(m, q, v).flags = {"P", "W"} /\ E3(m, q, v).flags = {"P", "W"}
    /\ E2(m, q, v).flags = {"P", "W"}

\* The first k sections are mapped.
Built(m, use, q, k) ==
    /\ Building(m, use) /\ m.kernel = q
    /\ k = 0 => ~Present(m.table[q][Fan - 1])
    /\ k >= 1 => \A j \in 1 .. 4 : Open(m, q, Sections[j].virt)
    /\ \A j \in 1 .. k : Rights(m, q, Sections[j].virt) = Sections[j].flags

\* One more: it finds the tables that the first one made.
LEMMA BuiltOn ==
    ASSUME NEW B \in Nat, NEW m \in Memory(Frame, B), NEW use, NEW q, NEW k \in 1 .. 4,
           Built(m, use, q, k - 1), NEW s, s = Sections[k],
           NEW n, n = vmm_map(m, q, s.virt, s.phys, s.flags), ~Wild(n)
    PROVE  \E use2 : Built(n, use2, q, k)
<1>0. /\ s \in [virt : Nat, phys : Frame, flags : SUBSET Flags] /\ "P" \in s.flags
      /\ k = 1 => s.flags = {"P", "W"}
  BY SectionsAre
<1>1. PICK v \in Virt, phys \in Frame, flags \in SUBSET Flags :
         v = s.virt /\ phys = s.phys /\ flags = s.flags /\ "P" \in flags
  BY <1>0, SectionsUpper
<1>2. Building(m, use) /\ q = m.kernel
  BY DEF Built
<1>3. PICK use2 : Building(n, use2) /\ Maps(m, n, use, use2, q, v, phys, flags) /\ n.kernel = q
  BY <1>1, <1>2, BuildOn
<1>4. /\ Three(n, q, v) /\ E1(n, q, v) = [to |-> phys, flags |-> flags]
      /\ Three(m, q, v) => /\ E4(n, q, v) = E4(m, q, v) /\ E3(n, q, v) = E3(m, q, v)
                           /\ E2(n, q, v) = E2(m, q, v)
      /\ ~Present(E4(m, q, v)) => /\ E4(n, q, v).flags = flags /\ E3(n, q, v).flags = flags
                                  /\ E2(n, q, v).flags = flags
      /\ SameBut(m, n, use, q, {v})
  BY <1>3 DEF Maps
<1>5. Open(n, q, v)
  <2>1. CASE k = 1
    <3>1. ~Present(m.table[q][Fan - 1])
      BY <2>1 DEF Built
    <3>2. ~Present(E4(m, q, v))
      BY <1>1, <3>1, SharedPath
    <3> QED BY <1>0, <1>1, <1>4, <2>1, <3>2 DEF Open
  <2>2. CASE k # 1
    <3>0. k - 1 >= 1
      BY <2>2
    <3>1. Open(m, q, v)
      BY <1>1, <3>0 DEF Built
    <3> QED BY <1>4, <3>1 DEF Open
  <2> QED BY <2>1, <2>2
<1>6. \A j \in 1 .. 4 : Open(n, q, Sections[j].virt)
  <2> TAKE j \in 1 .. 4
  <2>1. PICK w : w = Sections[j].virt
    OBVIOUS
  <2>2. /\ E4(n, q, v) = E4(n, q, w) /\ E3(n, q, v) = E3(n, q, w) /\ E2(n, q, v) = E2(n, q, w)
        /\ Three(n, q, v) = Three(n, q, w)
    BY <1>1, <2>1, SharedPath
  <2> QED BY <1>5, <2>1, <2>2 DEF Open
<1>7. Rights(n, q, v) = flags
  <2>1. PICK e : e = E1(n, q, v) /\ e.flags = flags
    BY <1>4
  <2>2. Present(e)
    BY <1>1, <2>1 DEF Present
  <2>3. PICK a, b, c : a = E4(n, q, v) /\ b = E3(n, q, v) /\ c = E2(n, q, v)
    OBVIOUS
  <2>4. View(n, q, v) = <<e.to, Narrow(Narrow(Narrow(Narrow({"P", "W"}, a), b), c), e)>>
    BY <1>4, <2>1, <2>2, <2>3, ViewIs
  <2>5. a.flags = {"P", "W"} /\ b.flags = {"P", "W"} /\ c.flags = {"P", "W"}
    BY <1>5, <2>3 DEF Open
  <2>6. Narrow(Narrow(Narrow(Narrow({"P", "W"}, a), b), c), e) = flags
    BY <1>1, <2>1, <2>5, NarrowTo
  <2> QED BY <2>4, <2>6 DEF View
<1>8. \A j \in 1 .. k : Rights(n, q, Sections[j].virt) = Sections[j].flags
  <2> TAKE j \in 1 .. k
  <2>1. CASE j = k
    BY <1>1, <1>7, <2>1
  <2>2. CASE j # k
    <3>0. j \in 1 .. 4 /\ j \in 1 .. (k - 1)
      BY <2>2
    <3>1. PICK w \in Virt : w = Sections[j].virt
      BY <3>0, SectionsUpper
    <3>2. w # v
      BY <1>1, <2>2, <3>0, <3>1, SectionIndex
    <3>3. q \in Frame /\ use[q] = 4
      BY <1>2 DEF Building, Tree, Memory, MemoryRecord
    <3>4. View(n, q, w) = View(m, q, w)
      BY <1>4, <3>2, <3>3 DEF SameBut
    <3>5. Rights(n, q, w) = Rights(m, q, w)
      BY <3>4 DEF View
    <3>6. Rights(m, q, w) = Sections[j].flags
      BY <3>0, <3>1 DEF Built
    <3> QED BY <3>1, <3>5, <3>6
  <2> QED BY <2>1, <2>2
<1>9. Built(n, use2, q, k)
  BY <1>3, <1>6, <1>8 DEF Built
<1> QED BY <1>9

\* The loops of vmm_init over the kernel's sections.
LEMMA SectionsBuilt ==
    ASSUME NEW ram \in 1 .. MaxRam, NEW B \in Nat, NEW m, m = FreshMemory(ram),
           NEW n, n = vmm_init_sections(m)
    PROVE  n \in Memory(Frame, B) /\ (~Wild(n) => \E use : Booting(n, use))
<1>1. m \in Memory(Frame, B)
  BY FreshIs
<1>2. PICK r : r = RequestHigherHalf(m)
  OBVIOUS
<1>3. PICK f \in [0 .. 4 -> Memory(Frame, B)] :
              /\ f[0] = [r.mem EXCEPT !.kernel = r.page] /\ f[4] = n
              /\ \A k \in 1 .. 4 :
                    f[k] = vmm_map(f[k - 1], r.page, Sections[k].virt, Sections[k].phys,
                                   Sections[k].flags)
  BY <1>1, <1>2, SectionsMapped
<1>4. PICK q \in Frame : q = r.page
  <2>1. r \in [page : Frame, mem : Memory(Frame, B)]
    BY <1>1, <1>2, RequestedHigherHalf
  <2> QED BY <2>1
<1>5. n \in Memory(Frame, B)
  BY <1>3
<1>6. \A k \in 1 .. 4 : Grows(f[k - 1], f[k])
  <2> TAKE k \in 1 .. 4
  <2>1. PICK a \in Memory(Frame, B), b \in Memory(Frame, B) : a = f[k - 1] /\ b = f[k]
    <3>1. k - 1 \in 0 .. 4 /\ k \in 0 .. 4
      OBVIOUS
    <3> QED BY <3>1
  <2>2. PICK v \in Nat, phys \in Frame, flags \in SUBSET Flags :
           v = Sections[k].virt /\ phys = Sections[k].phys /\ flags = Sections[k].flags
    BY SectionsAre
  <2>3. b = vmm_map(a, q, v, phys, flags)
    BY <1>3, <1>4, <2>1, <2>2
  <2> QED BY <2>1, <2>3, MapGrows
<1>7. ASSUME ~Wild(n) PROVE \E use : Booting(n, use)
  <2>1. ~Wild(f[4]) /\ ~Wild(f[3]) /\ ~Wild(f[2]) /\ ~Wild(f[1])
    <3>1. Grows(f[3], f[4]) /\ Grows(f[2], f[3]) /\ Grows(f[1], f[2])
      <4>1. 4 \in 1 .. 4 /\ 3 \in 1 .. 4 /\ 2 \in 1 .. 4 /\ 4 - 1 = 3 /\ 3 - 1 = 2 /\ 2 - 1 = 1
        OBVIOUS
      <4> QED BY <1>6, <4>1
    <3>2. f[3].events \subseteq f[4].events /\ f[2].events \subseteq f[3].events
             /\ f[1].events \subseteq f[2].events
      BY <3>1 DEF Grows
    <3> QED BY <1>3, <1>7, <3>2, WildStays
  <2>2. PICK a0 \in Memory(Frame, B) : a0 = f[0]
    OBVIOUS
  <2>3. KernelSet(r.mem, a0, q)
    BY <1>3, <1>4, <2>2 DEF KernelSet
  <2>4. PICK use0 : Building(a0, use0) /\ a0.kernel = q /\ ~Present(a0.table[q][Fan - 1])
    BY <1>2, <1>4, <2>3, KernelTaken
  <2>5. Built(a0, use0, q, 0)
    BY <2>4 DEF Built
  <2>6. ASSUME NEW k \in 1 .. 4, NEW use, Built(f[k - 1], use, q, k - 1), ~Wild(f[k])
        PROVE  \E use2 : Built(f[k], use2, q, k)
    <3>1. PICK a \in Memory(Frame, B), b \in Memory(Frame, B) : a = f[k - 1] /\ b = f[k]
      <4>1. k - 1 \in 0 .. 4 /\ k \in 0 .. 4
        OBVIOUS
      <4> QED BY <4>1
    <3>2. PICK s : s = Sections[k]
      OBVIOUS
    <3>3. b = vmm_map(a, q, s.virt, s.phys, s.flags)
      BY <1>3, <1>4, <3>1, <3>2
    <3>4. Built(a, use, q, k - 1) /\ ~Wild(b)
      BY <2>6, <3>1
    <3>5. PICK use2 : Built(b, use2, q, k)
      BY <3>2, <3>3, <3>4, BuiltOn
    <3> QED BY <3>1, <3>5
  <2>7. 1 \in 1 .. 4 /\ 1 - 1 = 0 /\ 2 \in 1 .. 4 /\ 2 - 1 = 1 /\ 3 \in 1 .. 4 /\ 3 - 1 = 2
           /\ 4 \in 1 .. 4 /\ 4 - 1 = 3
    OBVIOUS
  <2>8. PICK use1 : Built(f[1], use1, q, 1)
    BY <2>1, <2>2, <2>5, <2>6, <2>7
  <2>9. PICK use2 : Built(f[2], use2, q, 2)
    BY <2>1, <2>8, <2>6, <2>7
  <2>10. PICK use3 : Built(f[3], use3, q, 3)
    BY <2>1, <2>9, <2>6, <2>7
  <2>11. PICK use4 : Built(f[4], use4, q, 4)
    BY <2>1, <2>10, <2>6, <2>7
  <2>12. Built(n, use4, q, 4)
    BY <1>3, <2>11
  <2>13. SectionRights(n)
    BY <2>12 DEF Built, SectionRights
  <2> QED BY <2>12, <2>13 DEF Built, Building, Booting
<1> QED BY <1>5, <1>7

--------------------------------------------------------------------------------
(* The kernel after boot *)

MapsOf(ps) == {ps[k].pagemap : k \in 1 .. Len(ps)}
OthersOf(c, ps) == {c} \cup {ps[k].proc : k \in 1 .. Len(ps)} \cup {ps[k].stack : k \in 1 .. Len(ps)}

ImagePairs(p) == LET t == LoadOrder(p.image) IN Pairs(p.pagemap, t, Len(t))
PairsOf(ps) == UNION {ImagePairs(ps[k]) : k \in 1 .. Len(ps)}

\* Each process has a page map, a descriptor and a stack of its own.
Different(c, ps) ==
    /\ \A j, k \in 1 .. Len(ps) : j # k =>
          /\ ps[j].pagemap # ps[k].pagemap /\ ps[j].proc # ps[k].proc
          /\ ps[j].stack # ps[k].stack
    /\ \A j, k \in 1 .. Len(ps) : ps[j].proc # ps[k].stack
    /\ \A k \in 1 .. Len(ps) : ps[k].proc # c /\ ps[k].stack # c

ImageLoaded(m, p) == LET t == LoadOrder(p.image) IN Contents(m, p.pagemap, t, Len(t))
ImagesLoaded(m, ps) == \A k \in 1 .. Len(ps) : ImageLoaded(m, ps[k])

\* If every page was loaded once, no frame holds a page of an image that nobody sees.
AllImages(m, use, ps) ==
    m.events = {} /\ (\A k \in 1 .. Len(ps) : Distinct(LoadOrder(ps[k].image))) =>
        \A f \in Frame : use[f] = ImageUse => \E i \in PairsOf(ps) : f = ImageFrame(m, i)

\* Memory that is not wild, and its users.
Running(m, use, l, handed, ps) ==
    /\ Good(m, use, l, handed, MapsOf(ps), OthersOf(m.ctx, ps), PairsOf(ps))
    /\ Different(m.ctx, ps) /\ ImagesLoaded(m, ps) /\ AllImages(m, use, ps)

\* What the files are, and that nothing is loaded for a kernel thread.
LEMMA ImageProper ==
    ASSUME NEW image \in Images \cup {KernelThread}
    PROVE  Proper(image) /\ (image = KernelThread => LoadOrder(image) = << >>)
<1>1. CASE image \in Images /\ image # KernelThread
  BY <1>1, ImageAssumption DEF Proper
<1>2. CASE image = KernelThread
  <2>1. image.valid = TRUE /\ image.entry = 1 /\ image.headers = << >>
    BY <1>2 DEF KernelThread
  <2>2. image.headers \in Seq(ProgramHeader) /\ Len(image.headers) = 0
    BY <2>1
  <2>3. PICK t : t = LoadOrder(image)
    OBVIOUS
  <2>4. /\ t \in Seq(LoadItem)
        /\ \A k \in 1 .. Len(t) : \E h \in 1 .. Len(image.headers) : t[k].ph = image.headers[h]
    BY <2>2, <2>3, OrderIs
  <2>5. \A k \in 1 .. Len(t) : FALSE
    BY <2>2, <2>4
  <2>6. t = << >>
    BY <2>4, <2>5
  <2>7. Range(t) = {}
    BY <2>6 DEF Range
  <2>8. \A x \in Range(LoadOrder(image)) : x.page \in Lower
    BY <2>3, <2>7
  <2>9. Proper(image)
    <3>1. image.valid \in BOOLEAN
      BY <2>1, Zenon
    <3>2. image.entry \in Nat
      BY <2>1
    <3> QED BY <2>2, <2>8, <3>1, <3>2 DEF Proper
  <2> QED BY <2>3, <2>6, <2>9
<1> QED BY <1>1, <1>2

\* What good memory says of the images in it.
LEMMA GoodImages ==
    ASSUME NEW m, NEW use, NEW l, NEW owned1, NEW maps, NEW others, NEW images,
           Good(m, use, l, owned1, maps, others, images)
    PROVE  /\ ImagesOwned(m, use, maps, images) /\ MapsOwned(m, use, maps)
           /\ images \in SUBSET (Frame \X Lower)
           /\ \A i \in images : i[1] \in maps /\ i[1] # m.kernel /\ use[i[1]] = 4
<1>1. ImagesOwned(m, use, maps, images) /\ MapsOwned(m, use, maps)
  BY DEF Good, Sound
<1> QED BY <1>1 DEF ImagesOwned, MapsOwned

\* These pages of images lie where they did, and hold what they did.
AsWere(m, n, images) ==
    \A i \in images : /\ ImageFrame(n, i) = ImageFrame(m, i) /\ ImageFrame(m, i) \in Frame
                      /\ n.data[ImageFrame(n, i)] = m.data[ImageFrame(m, i)]

\* A move in the kernel's page map keeps the images.
LEMMA LoadedOn ==
    ASSUME NEW B, NEW m \in Memory(Frame, B), NEW use, NEW l, NEW owned1, NEW maps, NEW others,
           NEW images, Good(m, use, l, owned1, maps, others, images),
           NEW n, NEW use2, NEW q, q = m.kernel, NEW S, Moves(m, n, use, use2, q, S)
    PROVE  AsWere(m, n, images)
<1>1. /\ ImagesOwned(m, use, maps, images) /\ MapsOwned(m, use, maps)
      /\ \A i \in images : i[1] # m.kernel
  BY GoodImages
<1> SUFFICES ASSUME NEW i \in images
             PROVE  /\ ImageFrame(n, i) = ImageFrame(m, i) /\ ImageFrame(m, i) \in Frame
                    /\ n.data[ImageFrame(n, i)] = m.data[ImageFrame(m, i)]
  BY DEF AsWere
<1>3. ~(i[1] = q /\ i[2] \in S) /\ Moves(m, n, use, use2, q, S)
  BY <1>1
<1> QED BY <1>1, <1>3, ImagesKept

\* The contents of an image that is kept.
LEMMA ContentsOn ==
    ASSUME NEW m, NEW n, NEW p, NEW t, NEW N \in Nat, Contents(m, p, t, N),
           \A i \in Pairs(p, t, N) : n.data[ImageFrame(n, i)] = m.data[ImageFrame(m, i)]
    PROVE  Contents(n, p, t, N)
<1> SUFFICES ASSUME NEW k \in 1 .. N
             PROVE  \E j \in 1 .. N : t[j].page = t[k].page
                       /\ n.data[ImageFrame(n, <<p, t[k].page>>)] = PageBytes(t[j].ph, t[j].page)
  BY DEF Contents
<1>1. <<p, t[k].page>> \in Pairs(p, t, N)
  BY DEF Pairs
<1>2. PICK j \in 1 .. N : t[j].page = t[k].page
                       /\ m.data[ImageFrame(m, <<p, t[k].page>>)] = PageBytes(t[j].ph, t[j].page)
  BY DEF Contents
<1> QED BY <1>1, <1>2

\* What the heap does in the kernel's page map is nothing to the processes.
LEMMA RunsOn ==
    ASSUME NEW B, NEW m \in Memory(Frame, B), NEW use, NEW l, NEW owned1, NEW ps \in Seq(Process),
           Running(m, use, l, owned1, ps), NEW n, NEW use2, NEW S,
           Moves(m, n, use, use2, m.kernel, S),
           NoImages(use, use2) \/ n.events # {}, NEW l2, NEW owned2,
           Good(n, use2, l2, owned2, MapsOf(ps), OthersOf(m.ctx, ps), PairsOf(ps))
    PROVE  Running(n, use2, l2, owned2, ps)
<1>1. Good(m, use, l, owned1, MapsOf(ps), OthersOf(m.ctx, ps), PairsOf(ps))
  BY DEF Running
<1>a. PICK q : q = m.kernel
  OBVIOUS
<1>b. AsWere(m, n, PairsOf(ps))
  BY <1>1, <1>a, LoadedOn
<1>2. \A i \in PairsOf(ps) : /\ ImageFrame(n, i) = ImageFrame(m, i) /\ ImageFrame(m, i) \in Frame
                             /\ n.data[ImageFrame(n, i)] = m.data[ImageFrame(m, i)]
  BY <1>b DEF AsWere
<1>3. n.ctx = m.ctx /\ m.events \subseteq n.events
  BY DEF Moves
<1>4. ImagesLoaded(n, ps)
  <2> SUFFICES ASSUME NEW k \in 1 .. Len(ps) PROVE ImageLoaded(n, ps[k])
    BY DEF ImagesLoaded
  <2>1. PICK t, p, N : t = LoadOrder(ps[k].image) /\ p = ps[k].pagemap /\ N = Len(t)
    OBVIOUS
  <2>2. Contents(m, p, t, N)
    BY <2>1 DEF Running, ImagesLoaded, ImageLoaded
  <2>3. \A i \in Pairs(p, t, N) : i \in PairsOf(ps)
    BY <2>1 DEF PairsOf, ImagePairs
  <2>4. N \in Nat
    <3>1. PICK image \in Images \cup {KernelThread} : image = ps[k].image
      <4>1. ps[k] \in Process
        OBVIOUS
      <4> QED BY <4>1 DEF Process
    <3>3. t \in Seq(LoadItem)
      BY <2>1, <3>1, ImageProper, ProperOrder
    <3> QED BY <2>1, <3>3
  <2>5. Contents(n, p, t, N)
    BY <1>2, <2>2, <2>3, <2>4, ContentsOn
  <2> QED BY <2>1, <2>5 DEF ImageLoaded
<1>5. AllImages(n, use2, ps)
  <2> SUFFICES ASSUME n.events = {}, \A k \in 1 .. Len(ps) : Distinct(LoadOrder(ps[k].image)),
                      NEW f \in Frame, use2[f] = ImageUse
               PROVE  \E i \in PairsOf(ps) : f = ImageFrame(n, i)
    BY DEF AllImages
  <2>1. m.events = {} /\ use[f] = ImageUse
    BY <1>3 DEF NoImages
  <2>2. PICK i \in PairsOf(ps) : f = ImageFrame(m, i)
    BY <2>1 DEF Running, AllImages
  <2> QED BY <1>2, <2>2
<1> QED BY <1>3, <1>4, <1>5 DEF Running

\* Memory after the page map p was made and the pages t were loaded in it.
Loaded(d, e, use, use2, l, handed, ps, p, t) ==
    /\ Good(e, use2, l, handed, MapsOf(ps) \cup {p}, OthersOf(d.ctx, ps),
            PairsOf(ps) \cup Pairs(p, t, Len(t)))
    /\ Moves(d, e, use, use2, d.kernel, {}) /\ use[p] = 0 /\ p \in Frame
    /\ Contents(e, p, t, Len(t))
    /\ Distinct(t) => OnlyPairs(e, use, use2, p, t, Len(t))

WithOne(ps, ps2, pr, c, t) ==
    /\ ps2 \in Seq(Process) /\ Len(ps2) = Len(ps) + 1 /\ Len(ps) \in Nat
    /\ \A k \in 1 .. Len(ps) : ps2[k] = ps[k]
    /\ ps2[Len(ps) + 1] = pr
    /\ MapsOf(ps2) = MapsOf(ps) \cup {pr.pagemap}
    /\ OthersOf(c, ps2) = OthersOf(c, ps) \cup {pr.proc, pr.stack}
    /\ PairsOf(ps2) = PairsOf(ps) \cup Pairs(pr.pagemap, t, Len(t))

\* The parts of a sequence with one more process.
LEMMA OneMore ==
    ASSUME NEW ps \in Seq(Process), NEW pr \in Process, NEW ps2, ps2 = Append(ps, pr), NEW c,
           NEW t, t = LoadOrder(pr.image)
    PROVE  WithOne(ps, ps2, pr, c, t)
<1>1. /\ ps2 \in Seq(Process) /\ Len(ps2) = Len(ps) + 1 /\ Len(ps) \in Nat
      /\ \A k \in 1 .. Len(ps) : ps2[k] = ps[k]
      /\ ps2[Len(ps) + 1] = pr
  OBVIOUS
<1>2. PICK N \in Nat : N = Len(ps)
  OBVIOUS
<1>3. 1 .. Len(ps2) = (1 .. N) \cup {N + 1}
  BY <1>1, <1>2
<1>4. MapsOf(ps2) = MapsOf(ps) \cup {pr.pagemap}
  BY <1>1, <1>2, <1>3 DEF MapsOf
<1>5. OthersOf(c, ps2) = OthersOf(c, ps) \cup {pr.proc, pr.stack}
  BY <1>1, <1>2, <1>3 DEF OthersOf
<1>6. ImagePairs(pr) = Pairs(pr.pagemap, t, Len(t))
  BY DEF ImagePairs
<1>7. PairsOf(ps2) = PairsOf(ps) \cup ImagePairs(pr)
  BY <1>1, <1>2, <1>3 DEF PairsOf
<1> QED BY <1>1, <1>4, <1>5, <1>6, <1>7 DEF WithOne

\* The process is created and joins the others.
LEMMA Joined ==
    ASSUME NEW B \in Nat, B <= HHDM, NEW d \in Memory(Frame, B), NEW use, NEW l, NEW owned1,
           NEW ps \in Seq(Process), Running(d, use, l, owned1, ps), NEW e \in Memory(Frame, B),
           NEW image \in Images \cup {KernelThread}, NEW t, t = LoadOrder(image), NEW use2, NEW p,
           Loaded(d, e, use, use2, l, owned1, ps, p, t), NEW c, c = process_create(e, p, image),
           NEW n, n = c.mem, ~Wild(n), NEW pr, pr = c.proc, NEW ps2, ps2 = Append(ps, pr)
    PROVE  \E use3 : Running(n, use3, l, owned1, ps2) /\ Moves(d, n, use, use3, d.kernel, {})
<1>0. PICK M, O, I, N, q : /\ M = MapsOf(ps) \cup {p} /\ O = OthersOf(d.ctx, ps)
                           /\ N = Len(t) /\ I = PairsOf(ps) \cup Pairs(p, t, N) /\ q = d.kernel
  OBVIOUS
<1>1. t \in Seq(LoadItem) /\ N \in Nat
  BY <1>0, ImageProper, ProperOrder
<1>2. /\ Good(e, use2, l, owned1, M, O, I) /\ Moves(d, e, use, use2, q, {}) /\ use[p] = 0
           /\ p \in Frame
      /\ Contents(e, p, t, N) /\ (Distinct(t) => OnlyPairs(e, use, use2, p, t, N))
  BY <1>0 DEF Loaded
<1>3. /\ n \in Memory(Frame, B) /\ pr \in Process /\ pr.pagemap = p /\ pr.image = image
      /\ e.events \subseteq n.events
  BY <1>2, ProcessCreated
<1>4. PICK f, g : f = pr.proc /\ g = pr.stack
  OBVIOUS
<1>5. PICK use3 : GoodProcess(e, n, use2, use3, l, owned1, M, O, I, f, g)
  BY <1>2, <1>4, ProcessCreated
<1>6. /\ Good(n, use3, l, owned1, M, O \cup {f, g}, I) /\ Moves(e, n, use2, use3, e.kernel, {})
      /\ NoImages(use2, use3) /\ use2[f] = 0 /\ use2[g] = 0 /\ f # g
  BY <1>5 DEF GoodProcess
<1>7. e.kernel = q /\ e.ctx = d.ctx /\ n.ctx = e.ctx /\ d.events \subseteq n.events
  BY <1>0, <1>2, <1>3, <1>6 DEF Moves
<1>8. Moves(d, n, use, use3, q, {})
  <2>1. Moves(e, n, use2, use3, q, {})
    BY <1>6, <1>7
  <2> QED BY <1>2, <2>1, MovesOn
<1>9. /\ ps2 \in Seq(Process) /\ Len(ps2) = Len(ps) + 1 /\ Len(ps) \in Nat
      /\ \A k \in 1 .. Len(ps) : ps2[k] = ps[k]
      /\ ps2[Len(ps) + 1] = pr
      /\ MapsOf(ps2) = M /\ OthersOf(n.ctx, ps2) = O \cup {f, g} /\ PairsOf(ps2) = I
  <2>1. PICK x : x = n.ctx
    OBVIOUS
  <2>2. t = LoadOrder(pr.image)
    BY <1>3
  <2>3. WithOne(ps, ps2, pr, x, t)
    BY <1>3, <2>2, OneMore
  <2> QED BY <1>0, <1>3, <1>4, <1>7, <2>1, <2>3 DEF WithOne
<1>10. \A k \in 1 .. Len(ps2) : k \in 1 .. Len(ps) \/ k = Len(ps) + 1
  BY <1>9
<1>11. Good(n, use3, l, owned1, MapsOf(ps2), OthersOf(n.ctx, ps2), PairsOf(ps2))
  BY <1>6, <1>9
<1>12. Good(d, use, l, owned1, MapsOf(ps), OthersOf(d.ctx, ps), PairsOf(ps)) /\ Different(d.ctx, ps)
  BY DEF Running
<1>13. Different(n.ctx, ps2)
  <2>1. \A x \in MapsOf(ps) : x # p
    <3>1. MapsOwned(d, use, MapsOf(ps))
      BY <1>12 DEF Good, Sound
    <3> QED BY <1>2, <3>1 DEF MapsOwned
  <2>2. \A x \in O : x # f /\ x # g
    <3>1. OthersOwned(use2, O)
      BY <1>2 DEF Good, Sound
    <3> QED BY <1>6, <3>1 DEF OthersOwned, OtherUse
  <2>3. \A k \in 1 .. Len(ps) : ps[k].pagemap # p
    BY <2>1 DEF MapsOf
  <2>4. d.ctx # f /\ d.ctx # g /\ \A k \in 1 .. Len(ps) : /\ ps[k].proc # f /\ ps[k].proc # g
                                                        /\ ps[k].stack # f /\ ps[k].stack # g
    BY <1>0, <2>2 DEF OthersOf
  <2>5. PICK x : x = n.ctx /\ x = d.ctx
    BY <1>7
  <2>6. /\ \A j, k \in 1 .. Len(ps) : j # k =>
             /\ ps[j].pagemap # ps[k].pagemap /\ ps[j].proc # ps[k].proc
             /\ ps[j].stack # ps[k].stack
        /\ \A j, k \in 1 .. Len(ps) : ps[j].proc # ps[k].stack
        /\ \A k \in 1 .. Len(ps) : ps[k].proc # x /\ ps[k].stack # x
    BY <1>12, <2>5 DEF Different
  <2>7. \A j, k \in 1 .. Len(ps2) : j # k =>
             /\ ps2[j].pagemap # ps2[k].pagemap /\ ps2[j].proc # ps2[k].proc
             /\ ps2[j].stack # ps2[k].stack
    BY <1>3, <1>4, <1>9, <1>10, <2>3, <2>4, <2>6
  <2>8. \A j, k \in 1 .. Len(ps2) : ps2[j].proc # ps2[k].stack
    BY <1>4, <1>6, <1>9, <1>10, <2>4, <2>6
  <2>9. \A k \in 1 .. Len(ps2) : ps2[k].proc # x /\ ps2[k].stack # x
    BY <1>4, <1>9, <1>10, <2>4, <2>5, <2>6
  <2> QED BY <2>5, <2>7, <2>8, <2>9 DEF Different
<1>14. AsWere(d, n, PairsOf(ps))
  BY <1>0, <1>8, <1>12, LoadedOn
<1>15. AsWere(e, n, I)
  <2>1. Moves(e, n, use2, use3, q, {}) /\ q = e.kernel
    BY <1>6, <1>7
  <2> QED BY <1>2, <2>1, LoadedOn
<1>16. ImagesLoaded(n, ps2)
  <2> SUFFICES ASSUME NEW k \in 1 .. Len(ps2) PROVE ImageLoaded(n, ps2[k])
    BY DEF ImagesLoaded
  <2>1. CASE k \in 1 .. Len(ps)
    <3>1. PICK s, x, L : s = LoadOrder(ps[k].image) /\ x = ps[k].pagemap /\ L = Len(s)
      OBVIOUS
    <3>2. Contents(d, x, s, L)
      BY <2>1, <3>1 DEF Running, ImagesLoaded, ImageLoaded
    <3>3. \A i \in Pairs(x, s, L) : i \in PairsOf(ps)
      BY <2>1, <3>1 DEF PairsOf, ImagePairs
    <3>4. L \in Nat
      <4>1. PICK im \in Images \cup {KernelThread} : im = ps[k].image
        <5>1. ps[k] \in Process
          BY <2>1
        <5> QED BY <5>1 DEF Process
      <4>2. s \in Seq(LoadItem)
        BY <3>1, <4>1, ImageProper, ProperOrder
      <4> QED BY <3>1, <4>2
    <3>5. \A i \in Pairs(x, s, L) : n.data[ImageFrame(n, i)] = d.data[ImageFrame(d, i)]
      BY <1>14, <3>3 DEF AsWere
    <3>6. Contents(n, x, s, L)
      BY <3>2, <3>4, <3>5, ContentsOn
    <3> QED BY <1>9, <2>1, <3>1, <3>6 DEF ImageLoaded
  <2>2. CASE k = Len(ps) + 1
    <3>1. \A i \in Pairs(p, t, N) : n.data[ImageFrame(n, i)] = e.data[ImageFrame(e, i)]
      BY <1>0, <1>15 DEF AsWere
    <3>2. Contents(n, p, t, N)
      BY <1>1, <1>2, <3>1, ContentsOn
    <3> QED BY <1>0, <1>3, <1>9, <2>2, <3>2 DEF ImageLoaded
  <2> QED BY <1>10, <2>1, <2>2
<1>17. AllImages(n, use3, ps2)
  <2> SUFFICES ASSUME n.events = {}, \A k \in 1 .. Len(ps2) : Distinct(LoadOrder(ps2[k].image)),
                      NEW h \in Frame, use3[h] = ImageUse
               PROVE  \E i \in PairsOf(ps2) : h = ImageFrame(n, i)
    BY DEF AllImages
  <2>1. d.events = {} /\ use2[h] = ImageUse
    BY <1>6, <1>7 DEF NoImages
  <2>2. Distinct(t)
    <3>1. Len(ps) + 1 \in 1 .. Len(ps2)
      BY <1>9
    <3> QED BY <1>3, <1>9, <3>1
  <2>3. use[h] = ImageUse \/ \E k \in 1 .. N : h = ImageFrame(e, <<p, t[k].page>>)
    BY <1>2, <2>1, <2>2 DEF OnlyPairs
  <2>4. CASE use[h] = ImageUse
    <3>1. \A k \in 1 .. Len(ps) : Distinct(LoadOrder(ps[k].image))
      <4> TAKE k \in 1 .. Len(ps)
      <4>1. k \in 1 .. Len(ps2)
        BY <1>9
      <4> QED BY <1>9, <4>1
    <3>2. PICK i \in PairsOf(ps) : h = ImageFrame(d, i)
      BY <2>1, <2>4, <3>1 DEF Running, AllImages
    <3> QED BY <1>0, <1>9, <1>14, <3>2 DEF AsWere
  <2>5. ASSUME NEW k \in 1 .. N, h = ImageFrame(e, <<p, t[k].page>>)
        PROVE  \E i \in PairsOf(ps2) : h = ImageFrame(n, i)
    <3>1. PICK i : i = <<p, t[k].page>> /\ i \in I
      BY <1>0 DEF Pairs
    <3> QED BY <1>9, <1>15, <2>5, <3>1 DEF AsWere
  <2> QED BY <2>3, <2>4, <2>5
<1>18. Running(n, use3, l, owned1, ps2)
  BY <1>11, <1>13, <1>16, <1>17 DEF Running
<1> QED BY <1>0, <1>8, <1>18

\* The list has a root.
LEMMA RunningRoot ==
    ASSUME NEW m, NEW use, NEW l, NEW owned1, NEW ps, Running(m, use, l, owned1, ps)
    PROVE  m.root \in Frame
<1>1. Chain(m, l)
  BY DEF Running, Good, Sound, HeapList
<1> QED BY <1>1 DEF Chain

\* What liballoc may count on: a region that nobody has, and everything else as it was.
Allocs(m, r, use, use2, l2, handed, ps, size) ==
    /\ Running(r.mem, use2, l2, handed \cup Given(r, size), ps)
    /\ Moves(m, r.mem, use, use2, m.kernel, {r.start})
    /\ r.start # NULL => /\ [start |-> r.start, size |-> size] \notin handed
                         /\ r.start .. (r.start + size - 1) \subseteq Lower
                         /\ \A x \in handed : PagesOf(x) \cap (r.start .. (r.start + size - 1)) = {}

\* vma_alloc while the kernel runs.
LEMMA AllocRuns ==
    ASSUME NEW B \in Nat, NEW m \in Memory(Frame, B), NEW use, NEW l, NEW owned1,
           NEW ps \in Seq(Process), Running(m, use, l, owned1, ps),
           NEW size \in 1 .. PAGE_SIZE, B + size <= HHDM, NEW r, r = vma_alloc(m, size)
    PROVE  /\ r \in [mem : Memory(Frame, B + size), start : Nat \cup {NULL}]
           /\ r.start # NULL => r.start \in Lower
           /\ m.events \subseteq r.mem.events
           /\ ~Wild(r.mem) => \E use2, l2 : Allocs(m, r, use, use2, l2, owned1, ps, size)
<1>0. m.root \in Frame
  BY RunningRoot
<1>1. PICK at, start : at = After(m, size) /\ start = End(m.region[at])
  OBVIOUS
<1>2. /\ r \in [mem : Memory(Frame, B + size), start : Nat \cup {NULL}]
      /\ start \in Nat /\ start <= B /\ r.start \in {start, NULL}
  BY <1>0, <1>1, Allocated
<1>3. r.start # NULL => r.start \in Lower
  <2>1. HHDM \in Nat /\ \A w \in Nat : w \in Lower <=> w < HHDM
    BY LowerVirt
  <2>2. start < HHDM
    BY <1>2, <2>1
  <2> QED BY <1>2, <2>1, <2>2
<1>4. m.events \subseteq r.mem.events
  BY <1>0, AllocKeeps
<1>5. ASSUME ~Wild(r.mem) PROVE \E use2, l2 : Allocs(m, r, use, use2, l2, owned1, ps, size)
  <2>1. PICK M, O, I : M = MapsOf(ps) /\ O = OthersOf(m.ctx, ps) /\ I = PairsOf(ps)
    OBVIOUS
  <2>2. Good(m, use, l, owned1, M, O, I)
    BY <2>1 DEF Running
  <2>3. PICK use2, l2 : GoodAlloc(m, r, use, use2, l2, owned1, M, O, I, size)
    BY <1>5, <2>2, AllocGood
  <2>4. PICK n, own2, q : n = r.mem /\ own2 = owned1 \cup Given(r, size) /\ q = m.kernel
    OBVIOUS
  <2>5. /\ Good(n, use2, l2, own2, MapsOf(ps), OthersOf(m.ctx, ps), PairsOf(ps))
        /\ Moves(m, n, use, use2, m.kernel, {r.start}) /\ NoImages(use, use2)
    BY <2>1, <2>3, <2>4 DEF GoodAlloc
  <2>6. Running(n, use2, l2, own2, ps)
    BY <2>5, RunsOn
  <2> QED BY <2>3, <2>4, <2>6 DEF GoodAlloc, Allocs
<1> QED BY <1>2, <1>3, <1>4, <1>5

FreesFor(m, n, use, use2, l2, handed, ps, reg) ==
    /\ Running(n, use2, l2, handed \ {reg}, ps)
    /\ Moves(m, n, use, use2, m.kernel, PagesOf(reg))

\* vma_free of a region that was handed out, while the kernel runs.
LEMMA FreeRuns ==
    ASSUME NEW B \in Nat, B <= HHDM, NEW m \in Memory(Frame, B), NEW use, NEW l, NEW owned1,
           NEW ps \in Seq(Process), Running(m, use, l, owned1, ps),
           NEW reg \in owned1, NEW n, n = vma_free(m, reg.start)
    PROVE  /\ n \in Memory(Frame, B)
           /\ ~Wild(n) => \E use2, l2 : FreesFor(m, n, use, use2, l2, owned1, ps, reg)
<1>0. m.root \in Frame
  BY RunningRoot
<1>1. PICK M, O, I : M = MapsOf(ps) /\ O = OthersOf(m.ctx, ps) /\ I = PairsOf(ps)
  OBVIOUS
<1>2. Good(m, use, l, owned1, M, O, I)
  BY <1>1 DEF Running
<1>3. PICK start \in Nat : start = reg.start
  <2>1. Chain(m, l) /\ reg \in RegionsOf(m, l)
    BY <1>2 DEF Good, Sound, HeapList
  <2> QED BY <2>1, RegionBounds
<1>4. n = vma_free(m, start)
  BY <1>3
<1>5. n \in Memory(Frame, B)
  BY <1>0, <1>4, FreeKeeps
<1>6. ASSUME ~Wild(n) PROVE \E use2, l2 : FreesFor(m, n, use, use2, l2, owned1, ps, reg)
  <2>1. PICK use2, l2 : GoodFree(m, n, use, use2, l2, owned1, M, O, I, reg)
    BY <1>2, <1>6, FreeGood
  <2>2. PICK own2, S : own2 = owned1 \ {reg} /\ S = PagesOf(reg)
    OBVIOUS
  <2>3. /\ Good(n, use2, l2, own2, MapsOf(ps), OthersOf(m.ctx, ps), PairsOf(ps))
        /\ Moves(m, n, use, use2, m.kernel, S) /\ NoImages(use, use2)
    BY <1>1, <2>1, <2>2 DEF GoodFree
  <2>4. Running(n, use2, l2, own2, ps)
    BY <2>3, RunsOn
  <2> QED BY <2>2, <2>3, <2>4 DEF FreesFor
<1> QED BY <1>5, <1>6

\* A process, or the failure to load one, leaves everything as it was.
JoinsFor(m, n, use, use2, l, handed, ps) ==
    Running(n, use2, l, handed, ps) /\ Moves(m, n, use, use2, m.kernel, {})

\* vmm_new_pagemap while the kernel runs.
LEMMA PagemapRuns ==
    ASSUME NEW B \in Nat, B <= HHDM, NEW m \in Memory(Frame, B),
           NEW r, r = vmm_new_pagemap(m), NEW k, k = r.mem, NEW p, p = r.page
    PROVE  /\ k \in Memory(Frame, B) /\ p \in Frame /\ m.events \subseteq k.events
           /\ \A use, l, owned1, ps :
                 Running(m, use, l, owned1, ps) /\ ~Wild(k) =>
                    \E use2 : GoodMap(m, k, use, use2, l, owned1, MapsOf(ps), OthersOf(m.ctx, ps),
                                      PairsOf(ps), p)
<1>1. /\ r \in [page : Frame, mem : Memory(Frame, B)]
      /\ \E n \in Memory(Frame, B) :
                 /\ \/ n = Note(m, "frame0") /\ r.page = 0 /\ m.stack = << >>
                    \/ Took(m, n, r.page)
                 /\ Alike(n, r.mem) /\ r.mem.stack = n.stack /\ r.mem.held = n.held
                 /\ r.mem.events = n.events
                 /\ Copied(n, r.mem, r.page, m.kernel)
  BY MadePagemap
<1>2. PICK n \in Memory(Frame, B) :
           /\ (n = Note(m, "frame0") /\ p = 0 /\ m.stack = << >>) \/ Took(m, n, p)
           /\ k.events = n.events
  BY <1>1
<1>3. Grows(m, n)
  BY <1>2, HigherHalfGrows
<1>4. m.events \subseteq k.events
  BY <1>2, <1>3 DEF Grows
<1>5. ASSUME NEW use, NEW l, NEW owned1, NEW ps, Running(m, use, l, owned1, ps), ~Wild(k)
      PROVE  \E use2 : GoodMap(m, k, use, use2, l, owned1, MapsOf(ps), OthersOf(m.ctx, ps),
                                      PairsOf(ps), p)
  <2>1. PICK M, O, I : M = MapsOf(ps) /\ O = OthersOf(m.ctx, ps) /\ I = PairsOf(ps)
    OBVIOUS
  <2>2. Good(m, use, l, owned1, M, O, I)
    BY <1>5, <2>1 DEF Running
  <2>3. PICK use2 : GoodMap(m, k, use, use2, l, owned1, M, O, I, p)
    BY <1>5, <2>2, MapGood
  <2> QED BY <2>1, <2>3
<1> QED BY <1>1, <1>4, <1>5

\* The creation of a kernel thread.
LEMMA ThreadRuns ==
    ASSUME NEW B \in Nat, B <= HHDM, NEW m \in Memory(Frame, B), NEW use, NEW l, NEW owned1,
           NEW ps \in Seq(Process), Running(m, use, l, owned1, ps),
           NEW r, r = vmm_new_pagemap(m), NEW c, c = process_create(r.mem, r.page, KernelThread)
    PROVE  /\ c.mem \in Memory(Frame, B) /\ c.proc \in Process
           /\ ~Wild(c.mem) => \E use2 : JoinsFor(m, c.mem, use, use2, l, owned1, Append(ps, c.proc))
<1>1. PICK k, p : k = r.mem /\ p = r.page
  OBVIOUS
<1>2. k \in Memory(Frame, B) /\ p \in Frame /\ m.events \subseteq k.events
  BY <1>1, PagemapRuns
<1>3. PICK image \in Images \cup {KernelThread} : image = KernelThread
  OBVIOUS
<1>4. c = process_create(k, p, image)
  BY <1>1, <1>3
<1>5. c.mem \in Memory(Frame, B) /\ c.proc \in Process /\ k.events \subseteq c.mem.events
  BY <1>2, <1>4, ProcessCreated
<1>6. ASSUME ~Wild(c.mem)
      PROVE  \E use2 : JoinsFor(m, c.mem, use, use2, l, owned1, Append(ps, c.proc))
  <2>1. ~Wild(k)
    BY <1>5, <1>6, WildStays
  <2>2. PICK use1 : GoodMap(m, k, use, use1, l, owned1, MapsOf(ps), OthersOf(m.ctx, ps), PairsOf(ps), p)
    BY <1>1, <2>1, PagemapRuns
  <2>3. PICK t : t = LoadOrder(image) /\ t = << >>
    BY <1>3, ImageProper
  <2>4. Pairs(p, t, Len(t)) = {} /\ Len(t) = 0
    BY <2>3 DEF Pairs
  <2>5. Contents(k, p, t, Len(t))
    BY <2>4 DEF Contents
  <2>6. OnlyPairs(k, use, use1, p, t, Len(t))
    BY <2>2 DEF GoodMap, NoImages, OnlyPairs
  <2>7. PairsOf(ps) \cup Pairs(p, t, Len(t)) = PairsOf(ps)
    BY <2>4
  <2>8. Loaded(m, k, use, use1, l, owned1, ps, p, t)
    BY <2>2, <2>5, <2>6, <2>7 DEF Loaded, GoodMap
  <2>9. PICK n, pr, ps2 : n = c.mem /\ pr = c.proc /\ ps2 = Append(ps, pr)
    OBVIOUS
  <2>10. PICK use2 : Running(n, use2, l, owned1, ps2) /\ Moves(m, n, use, use2, m.kernel, {})
    BY <1>2, <1>4, <1>6, <2>3, <2>8, <2>9, Joined
  <2> QED BY <2>9, <2>10 DEF JoinsFor
<1> QED BY <1>5, <1>6

\* A page map that nobody has is no loss to the others once something failed.
LEMMA FewerMaps ==
    ASSUME NEW m, NEW use, NEW l, NEW owned1, NEW maps, NEW others, NEW images, NEW maps2,
           Good(m, use, l, owned1, maps2, others, images), maps \subseteq maps2, m.events # {},
           \A i \in images : i[1] \in maps
    PROVE  Good(m, use, l, owned1, maps, others, images)
<1>1. Sound(m, use, l, owned1, maps2, others, images)
  BY DEF Good
<1>2. MapsOwned(m, use, maps)
  BY <1>1 DEF Sound, MapsOwned
<1>3. ImagesOwned(m, use, maps, images)
  BY <1>1 DEF Sound, ImagesOwned
<1> QED BY <1>1, <1>2, <1>3 DEF Good, Sound

\* elf_load in a new page map, while the kernel runs.
LEMMA ElfRuns ==
    ASSUME NEW B \in Nat, B <= HHDM, NEW d \in Memory(Frame, B), NEW use, NEW l, NEW owned1,
           NEW ps \in Seq(Process), Running(d, use, l, owned1, ps),
           NEW image \in Images, NEW r, r = vmm_new_pagemap(d),
           NEW k \in Memory(Frame, B), k = r.mem, NEW p \in Frame, p = r.page,
           NEW e, e = elf_load(k, image, p), NEW o, o = e.mem, ~Wild(o), NEW t, t = LoadOrder(image)
    PROVE  /\ e.ok => \E use2 : Loaded(d, o, use, use2, l, owned1, ps, p, t)
           /\ ~e.ok => \E use2 : JoinsFor(d, o, use, use2, l, owned1, ps)
<1>1. Proper(image)
  BY ImageProper
<1>2. e \in LoadRecord(B) /\ (Wild(k) => Wild(o))
  BY <1>1, ElfGood
<1>3. ~Wild(k)
  BY <1>2
<1>4. PICK M, O, I, q : M = MapsOf(ps) /\ O = OthersOf(d.ctx, ps) /\ I = PairsOf(ps) /\ q = d.kernel
  OBVIOUS
<1>5. PICK use1 : GoodMap(d, k, use, use1, l, owned1, M, O, I, p)
  BY <1>3, <1>4, PagemapRuns
<1>6. /\ Good(k, use1, l, owned1, M \cup {p}, O, I) /\ Moves(d, k, use, use1, q, {})
      /\ use[p] = 0 /\ NoImages(use, use1)
  BY <1>4, <1>5 DEF GoodMap
<1>a. PICK M2 : M2 = M \cup {p}
  OBVIOUS
<1>7. M2 = M \cup {p} /\ p \in M2 /\ M \subseteq M2
  BY <1>a
<1>8. Good(k, use1, l, owned1, M2, O, I) /\ I \in SUBSET (Frame \X Lower)
  BY <1>6, <1>7, GoodImages
<1>9. PICK use2 : GoodElf(k, e, use1, use2, l, owned1, M2, O, I, p, image)
  BY <1>1, <1>7, <1>8, ElfGood
<1>10. PICK N \in Nat : N = Len(t)
  <2>1. t \in Seq(LoadItem)
    BY <1>1, ProperOrder
  <2> QED BY <2>1
<1>11. LoadedTo(k, e, use1, use2, l, owned1, M2, O, I, p, t, N)
  BY <1>9, <1>10 DEF GoodElf
<1>12. Moves(k, o, use1, use2, p, Lower)
  BY <1>11 DEF LoadedTo
<1>13. Moves(d, o, use, use2, q, {})
  <2>1. \A a \in Frame, w \in Virt : use[a] = 4 /\ ~(a = q /\ w \in {}) => ~(a = p /\ w \in Lower)
    BY <1>6
  <2> QED BY <1>6, <1>12, <2>1, MovesOn
<1>14. ASSUME e.ok PROVE Loaded(d, o, use, use2, l, owned1, ps, p, t)
  <2>1. /\ Good(o, use2, l, owned1, M2, O, I \cup Pairs(p, t, N)) /\ Contents(o, p, t, N)
        /\ Distinct(t) => OnlyPairs(o, use1, use2, p, t, N)
    BY <1>11, <1>14 DEF LoadedTo
  <2>2. Distinct(t) => OnlyPairs(o, use, use2, p, t, N)
    BY <1>6, <2>1 DEF OnlyPairs, NoImages
  <2> QED BY <1>4, <1>6, <1>7, <1>10, <1>13, <2>1, <2>2 DEF Loaded
<1>15. ASSUME ~e.ok PROVE JoinsFor(d, o, use, use2, l, owned1, ps)
  <2>1. Good(o, use2, l, owned1, M2, O, I) /\ o.events # {}
    BY <1>11, <1>15 DEF LoadedTo
  <2>2. \A i \in I : i[1] \in M
    <3>1. Good(d, use, l, owned1, M, O, I)
      BY <1>4 DEF Running
    <3> QED BY <3>1, GoodImages
  <2>3. Good(o, use2, l, owned1, M, O, I)
    BY <1>7, <2>1, <2>2, FewerMaps
  <2>4. /\ Good(o, use2, l, owned1, MapsOf(ps), OthersOf(d.ctx, ps), PairsOf(ps))
        /\ Moves(d, o, use, use2, d.kernel, {})
    BY <1>4, <1>13, <2>3
  <2>5. Running(o, use2, l, owned1, ps)
    BY <2>1, <2>4, RunsOn
  <2> QED BY <2>4, <2>5 DEF JoinsFor
<1> QED BY <1>14, <1>15

\* scheduler_create_elf_process once the file is in its buffer.
LEMMA CreateRuns ==
    ASSUME NEW B \in Nat, B <= HHDM, NEW d \in Memory(Frame, B),
           NEW image \in Images, NEW r, r = vmm_new_pagemap(d), NEW e,
           e = elf_load(r.mem, image, r.page),
           NEW c, c = process_create(e.mem, r.page, image),
           NEW n, n = IF e.ok THEN c.mem ELSE e.mem
    PROVE  /\ n \in Memory(Frame, B) /\ c.proc \in Process
           /\ Wild(d) => Wild(n)
           /\ \A use, l, owned1, ps :
                 ps \in Seq(Process) /\ Running(d, use, l, owned1, ps) /\ ~Wild(n) =>
                    \E use2 : JoinsFor(d, n, use, use2, l, owned1,
                                     IF e.ok THEN Append(ps, c.proc) ELSE ps)
<1>1. PICK k, p : k = r.mem /\ p = r.page
  OBVIOUS
<1>2. k \in Memory(Frame, B) /\ p \in Frame /\ d.events \subseteq k.events
  BY <1>1, PagemapRuns
<1>3. Proper(image)
  BY ImageProper
<1>4. e = elf_load(k, image, p)
  BY <1>1
<1>5. e \in LoadRecord(B) /\ (Wild(k) => Wild(e.mem))
  BY <1>2, <1>3, <1>4, ElfGood
<1>6. PICK o \in Memory(Frame, B) : o = e.mem
  BY <1>5 DEF LoadRecord
<1>7. c = process_create(o, p, image) /\ image \in Images \cup {KernelThread}
  BY <1>1, <1>6
<1>8. c.mem \in Memory(Frame, B) /\ c.proc \in Process /\ o.events \subseteq c.mem.events
  BY <1>2, <1>7, ProcessCreated
<1>9. n \in Memory(Frame, B)
  BY <1>6, <1>8
<1>10. Wild(o) => Wild(n)
  <2>1. Wild(o) => Wild(c.mem)
    BY <1>8, WildStays
  <2> QED BY <1>6, <2>1
<1>11. Wild(d) => Wild(n)
  <2>1. Wild(d) => Wild(k)
    BY <1>2, WildStays
  <2> QED BY <1>5, <1>6, <1>10, <2>1
<1>12. ASSUME NEW use, NEW l, NEW owned1, NEW ps, ps \in Seq(Process),
              Running(d, use, l, owned1, ps), ~Wild(n)
       PROVE  \E use2 : JoinsFor(d, n, use, use2, l, owned1, IF e.ok THEN Append(ps, c.proc) ELSE ps)
  <2>1. ~Wild(o)
    BY <1>10, <1>12
  <2>2. PICK t : t = LoadOrder(image)
    OBVIOUS
  <2>3. /\ e.ok => \E use2 : Loaded(d, o, use, use2, l, owned1, ps, p, t)
        /\ ~e.ok => \E use2 : JoinsFor(d, o, use, use2, l, owned1, ps)
    BY <1>1, <1>2, <1>4, <1>6, <1>12, <2>1, <2>2, ElfRuns
  <2>4. CASE e.ok
    <3>1. PICK use1 : Loaded(d, o, use, use1, l, owned1, ps, p, t)
      BY <2>3, <2>4
    <3>2. PICK pr, ps2 : pr = c.proc /\ ps2 = Append(ps, pr)
      OBVIOUS
    <3>3. n = c.mem
      BY <2>4
    <3>4. PICK use2 : Running(n, use2, l, owned1, ps2) /\ Moves(d, n, use, use2, d.kernel, {})
      BY <1>7, <1>12, <2>2, <3>1, <3>2, <3>3, Joined
    <3> QED BY <2>4, <3>2, <3>4 DEF JoinsFor
  <2>5. CASE ~e.ok
    BY <1>6, <2>3, <2>5
  <2> QED BY <2>4, <2>5
<1> QED BY <1>8, <1>9, <1>11, <1>12

\* The kernel's page map and those of the processes show what they did, but for the
\* pages S of the kernel's.
KeepsViews(m, n, ps, S) ==
    \A w \in Virt :
        /\ w \notin S => View(n, n.kernel, w) = View(m, m.kernel, w)
        /\ \A k \in 1 .. Len(ps) : View(n, ps[k].pagemap, w) = View(m, ps[k].pagemap, w)

\* A move in the kernel's page map does.
LEMMA ViewsKept ==
    ASSUME NEW B, NEW m \in Memory(Frame, B), NEW use, NEW l, NEW owned1,
           NEW ps \in Seq(Process), Running(m, use, l, owned1, ps), NEW n, NEW use2, NEW S, NEW T,
           Moves(m, n, use, use2, m.kernel, S), S \cap Virt \subseteq T
    PROVE  KeepsViews(m, n, ps, T)
<1>1. /\ SameBut(m, n, use, m.kernel, S) /\ n.kernel = m.kernel
      /\ MapsOwned(m, use, MapsOf(ps)) /\ use[m.kernel] = 4 /\ m.kernel \in Frame
  BY DEF Moves, Running, Good, Sound, Tree, Memory, MemoryRecord
<1> SUFFICES ASSUME NEW w \in Virt
             PROVE  /\ w \notin T => View(n, n.kernel, w) = View(m, m.kernel, w)
                    /\ \A k \in 1 .. Len(ps) : View(n, ps[k].pagemap, w) = View(m, ps[k].pagemap, w)
  BY DEF KeepsViews
<1>2. w \notin T => View(n, n.kernel, w) = View(m, m.kernel, w)
  BY <1>1 DEF SameBut
<1>3. ASSUME NEW k \in 1 .. Len(ps) PROVE View(n, ps[k].pagemap, w) = View(m, ps[k].pagemap, w)
  <2>1. PICK p : p = ps[k].pagemap
    OBVIOUS
  <2>2. p \in MapsOf(ps)
    BY <2>1 DEF MapsOf
  <2>3. p \in Frame /\ use[p] = 4 /\ p # m.kernel
    BY <1>1, <2>2 DEF MapsOwned
  <2> QED BY <1>1, <2>1, <2>3 DEF SameBut
<1> QED BY <1>2, <1>3

\* One after the other.
LEMMA KeepsOn ==
    ASSUME NEW k, NEW m, NEW n, NEW ps, NEW S, KeepsViews(k, m, ps, S), KeepsViews(m, n, ps, {})
    PROVE  KeepsViews(k, n, ps, S)
BY DEF KeepsViews

\* To do nothing.
LEMMA KeepsSelf ==
    ASSUME NEW m, NEW ps
    PROVE  KeepsViews(m, m, ps, {})
BY DEF KeepsViews

\* What an allocation does to the spaces: the region, if there is one, is a part of
\* the lower half that nobody had.
AllocEffect(m, n, ps, own, own2) ==
    \/ own2 = own /\ KeepsViews(m, n, ps, {})
    \/ \E reg \in own2 \ own :
          /\ own2 = own \cup {reg} /\ PagesOf(reg) \subseteq Lower
          /\ \A x \in own : PagesOf(x) \cap PagesOf(reg) = {}
          /\ KeepsViews(m, n, ps, PagesOf(reg))

\* vma_alloc has it.
LEMMA AllocsEffect ==
    ASSUME NEW B, NEW m \in Memory(Frame, B), NEW use, NEW l, NEW owned1,
           NEW ps \in Seq(Process), Running(m, use, l, owned1, ps),
           NEW size \in 1 .. PAGE_SIZE, NEW r, r.start \in Nat \cup {NULL}, NEW use2, NEW l2,
           Allocs(m, r, use, use2, l2, owned1, ps, size), NEW n, n = r.mem,
           NEW own2, own2 = owned1 \cup Given(r, size)
    PROVE  AllocEffect(m, n, ps, owned1, own2)
<1>1. CASE r.start = NULL
  <2>1. {r.start} \cap Virt \subseteq {}
    BY <1>1, VirtNat, Constants
  <2>2. Moves(m, n, use, use2, m.kernel, {r.start})
    BY DEF Allocs
  <2>3. KeepsViews(m, n, ps, {})
    BY <2>1, <2>2, ViewsKept
  <2>4. own2 = owned1
    BY <1>1 DEF Given
  <2> QED BY <2>3, <2>4 DEF AllocEffect
<1>2. CASE r.start # NULL
  <2>1. PICK reg : reg = [start |-> r.start, size |-> size]
    OBVIOUS
  <2>2. own2 = owned1 \cup {reg}
    BY <1>2, <2>1 DEF Given
  <2>3. PagesOf(reg) = r.start .. (r.start + size - 1) /\ r.start \in PagesOf(reg)
    BY <1>2, <2>1 DEF PagesOf
  <2>4. /\ Moves(m, n, use, use2, m.kernel, {r.start}) /\ reg \notin owned1
        /\ PagesOf(reg) \subseteq Lower /\ \A x \in owned1 : PagesOf(x) \cap PagesOf(reg) = {}
    BY <1>2, <2>1, <2>3 DEF Allocs
  <2>5. {r.start} \cap Virt \subseteq PagesOf(reg)
    BY <2>3
  <2>6. KeepsViews(m, n, ps, PagesOf(reg))
    BY <2>4, <2>5, ViewsKept
  <2>7. reg \in own2 \ owned1
    BY <2>2, <2>4
  <2> QED BY <2>2, <2>4, <2>6, <2>7 DEF AllocEffect
<1> QED BY <1>1, <1>2

\* kmalloc of a file's buffer: from the heap, or a new region.
LEMMA BufferRuns ==
    ASSUME NEW B \in Nat, NEW m \in Memory(Frame, B), NEW use, NEW l, NEW owned1,
           NEW ps \in Seq(Process), Running(m, use, l, owned1, ps),
           NEW pages \in 0 .. PAGE_SIZE, B + PAGE_SIZE <= HHDM, NEW d, d = kmalloc(m, pages)
    PROVE  /\ d.mem \in Memory(Frame, B + PAGE_SIZE)
           /\ d.start \in Nat \cup {NULL} /\ (d.start # NULL => d.start \in Lower /\ pages # 0)
           /\ ~Wild(d.mem) => \E use2, l2 :
                 /\ Running(d.mem, use2, l2, owned1 \cup Given(d, pages), ps)
                 /\ AllocEffect(m, d.mem, ps, owned1, owned1 \cup Given(d, pages))
<1>0. PAGE_SIZE \in Nat \ {0} /\ HHDM \in Nat
  BY Constants, LowerVirt
<1>1. CASE pages = 0
  <2>1. d.mem = m /\ d.start = NULL
    BY <1>1 DEF kmalloc
  <2>2. owned1 \cup Given(d, pages) = owned1
    BY <2>1 DEF Given
  <2>3. AllocEffect(m, m, ps, owned1, owned1)
    BY KeepsSelf DEF AllocEffect
  <2>4. m \in Memory(Frame, B + PAGE_SIZE)
    <3>1. PICK C \in Nat : C = B + PAGE_SIZE /\ B <= C
      BY <1>0
    <3> QED BY <3>1, Wider
  <2> QED BY <2>1, <2>2, <2>3, <2>4
<1>2. CASE pages # 0
  <2>1. pages \in 1 .. PAGE_SIZE /\ d = vma_alloc(m, pages) /\ B + pages <= HHDM
    BY <1>0, <1>2 DEF kmalloc
  <2>2. /\ d \in [mem : Memory(Frame, B + pages), start : Nat \cup {NULL}]
        /\ d.start # NULL => d.start \in Lower
        /\ ~Wild(d.mem) => \E use2, l2 : Allocs(m, d, use, use2, l2, owned1, ps, pages)
    BY <2>1, AllocRuns
  <2>3. d.mem \in Memory(Frame, B + PAGE_SIZE)
    <3>1. PICK C \in Nat, D \in Nat : C = B + pages /\ D = B + PAGE_SIZE /\ C <= D
      <4>1. B + pages \in Nat /\ B + PAGE_SIZE \in Nat /\ B + pages <= B + PAGE_SIZE
        BY <1>0
      <4> QED BY <4>1
    <3>2. PICK x \in Memory(Frame, C) : x = d.mem
      BY <2>2, <3>1
    <3> QED BY <3>1, <3>2, Wider
  <2>4. ASSUME ~Wild(d.mem)
        PROVE  \E use2, l2 :
                 /\ Running(d.mem, use2, l2, owned1 \cup Given(d, pages), ps)
                 /\ AllocEffect(m, d.mem, ps, owned1, owned1 \cup Given(d, pages))
    <3>1. PICK use2, l2 : Allocs(m, d, use, use2, l2, owned1, ps, pages)
      BY <2>2, <2>4
    <3>2. PICK n, own2 : n = d.mem /\ own2 = owned1 \cup Given(d, pages)
      OBVIOUS
    <3>3. d.start \in Nat \cup {NULL}
      BY <2>2
    <3>4. AllocEffect(m, n, ps, owned1, own2)
      BY <2>1, <3>1, <3>2, <3>3, AllocsEffect
    <3> QED BY <3>1, <3>2, <3>4 DEF Allocs
  <2> QED BY <1>2, <2>2, <2>3, <2>4
<1> QED BY <1>1, <1>2

--------------------------------------------------------------------------------
(* The invariant *)

\* Where the heap's regions end at the latest.
Bound(at, n) == IF at \in {"run", "user"} THEN 1 + VMM_TESTS + PAGE_SIZE * n ELSE 1

TypeInv ==
    /\ pc \in {"vmm", "direct", "vma", "test", "run", "user"}
    /\ gb4 \in 0 .. Gb4 /\ (pc \in {"vmm", "direct"} => gb4 < Gb4)
    /\ calls \in 0 .. MaxCalls
    /\ mem \in Memory(IF pc = "user" THEN Pointer ELSE Frame, Bound(pc, calls))
    /\ owned \subseteq [start : Lower, size : HeapSizes]
    /\ procs \in Seq(Process) /\ Len(procs) <= MAX_PROCESSES
    /\ pc \notin {"run", "user"} => calls = 0 /\ owned = {} /\ procs = << >>

\* What exits leave of the memory m: more on the stack, none of it a frame's number.
Leaves(m, n) ==
    /\ Alike(m, n) /\ n.table = m.table /\ n.held = m.held
    /\ m.events \subseteq n.events /\ n.events \subseteq m.events \cup {"alias"}
    /\ Range(n.stack) \cap Frame \subseteq Range(m.stack)
    /\ n.events = {} => n.stack = m.stack

UsersInv ==
    /\ pc = "vmm" => \E ram \in RamSizes : mem = FreshMemory(ram)
    /\ pc \in {"direct", "vma"} /\ ~Wild(mem) => \E use : Booting(mem, use)
    /\ pc = "test" => mem \in Tested(1)
    /\ pc = "run" /\ ~Wild(mem) => \E use, l : Running(mem, use, l, owned, procs)
    /\ pc = "user" =>
          /\ ~Wild(mem)
          /\ \E m \in Memory(Frame, Bound(pc, calls)) :
                Leaves(m, mem) /\ \E use, l : Running(m, use, l, owned, procs)

Inv == TypeInv /\ UsersInv

\* The bounds of the heap.
LEMMA Bounds ==
    ASSUME NEW n \in 0 .. MaxCalls
    PROVE  /\ Bound("run", n) \in Nat /\ Bound("run", n) <= HHDM /\ Bound("user", n) = Bound("run", n)
           /\ \A k \in Nat : n + k <= MaxCalls
                   => Bound("run", n + k) = Bound("run", n) + PAGE_SIZE * k
           /\ Bound("run", 0) = 1 + VMM_TESTS /\ 1 + VMM_TESTS <= HHDM /\ VMM_TESTS \in Nat
           /\ HHDM \in Nat /\ MaxCalls \in Nat /\ PAGE_SIZE \in Nat \ {0}
<1>1. /\ VMM_TESTS \in Nat /\ MaxCalls \in Nat /\ PAGE_SIZE \in Nat \ {0} /\ HHDM \in Nat
      /\ 1 + VMM_TESTS + PAGE_SIZE * MaxCalls <= HHDM
  BY CallAssumption, Constants, LowerVirt
<1>2. PICK x \in Nat, y \in Nat : x = PAGE_SIZE * n /\ y = PAGE_SIZE * MaxCalls
  BY <1>1
<1>3. x <= y
  <2>1. PICK z \in Nat : MaxCalls = n + z
    <3>1. MaxCalls - n \in Nat
      BY <1>1
    <3> QED BY <1>1, <3>1
  <2>2. y = x + PAGE_SIZE * z /\ PAGE_SIZE * z \in Nat
    BY <1>1, <1>2, <2>1
  <2> QED BY <2>2
<1>4. Bound("run", n) = 1 + VMM_TESTS + x /\ Bound("user", n) = Bound("run", n)
  BY <1>2 DEF Bound
<1>5. \A k \in Nat : Bound("run", n + k) = Bound("run", n) + PAGE_SIZE * k
  <2> TAKE k \in Nat
  <2>1. PAGE_SIZE * (n + k) = x + PAGE_SIZE * k /\ PAGE_SIZE * k \in Nat
    BY <1>1, <1>2
  <2>2. Bound("run", n + k) = 1 + VMM_TESTS + PAGE_SIZE * (n + k)
    BY DEF Bound
  <2> QED BY <1>1, <1>4, <2>1, <2>2
<1>6. Bound("run", 0) = 1 + VMM_TESTS
  <2>1. PAGE_SIZE * 0 = 0
    BY <1>1
  <2> QED BY <1>1, <2>1 DEF Bound
<1>7. Bound("run", n) <= HHDM /\ 1 + VMM_TESTS <= HHDM
  BY <1>1, <1>2, <1>3, <1>4
<1>8. Bound("run", n) \in Nat
  BY <1>1, <1>2, <1>4
<1> QED BY <1>1, <1>4, <1>5, <1>6, <1>7, <1>8

\* The initial state.
LEMMA InitInv == Init => Inv
<1> SUFFICES ASSUME Init PROVE Inv
  OBVIOUS
<1>0. /\ Gb4 \in Nat \ {0} /\ MaxCalls \in Nat /\ MAX_PROCESSES \in Nat
           /\ RamSizes \subseteq 1 .. MaxRam
  BY Constants, CallAssumption
<1>1. PICK ram \in RamSizes : mem = FreshMemory(ram)
  BY DEF Init
<1>2. /\ pc = "vmm" /\ gb4 = 0 /\ owned = {} /\ procs = << >> /\ calls = 0
  BY DEF Init
<1>3. mem \in Memory(Frame, 1)
  BY <1>0, <1>1, FreshIs
<1>4. Bound(pc, calls) = 1
  BY <1>2 DEF Bound
<1>5. TypeInv
  <2>1. procs \in Seq(Process) /\ Len(procs) = 0
    BY <1>2
  <2> QED BY <1>0, <1>2, <1>3, <1>4, <2>1 DEF TypeInv
<1>6. UsersInv
  BY <1>1, <1>2 DEF UsersInv
<1> QED BY <1>5, <1>6 DEF Inv

\* vmm_init's first loops.
LEMMA SectionsInv ==
    ASSUME Inv, MapSections
    PROVE  Inv'
<1>1. /\ pc = "vmm" /\ pc' = "direct" /\ mem' = vmm_init_sections(mem) /\ gb4' = gb4
      /\ owned' = owned /\ procs' = procs /\ calls' = calls
  BY DEF MapSections, BootStep
<1>2. PICK ram \in RamSizes : mem = FreshMemory(ram)
  BY <1>1 DEF Inv, UsersInv
<1>3. ram \in 1 .. MaxRam
  BY CallAssumption
<1>4. mem' \in Memory(Frame, 1) /\ (~Wild(mem') => \E use : Booting(mem', use))
  BY <1>1, <1>2, <1>3, SectionsBuilt
<1>5. TypeInv'
  <2>1. Bound(pc', calls') = 1
    BY <1>1 DEF Bound
  <2> QED BY <1>1, <1>4, <2>1 DEF Inv, TypeInv
<1>6. UsersInv'
  BY <1>1, <1>4 DEF UsersInv
<1> QED BY <1>5, <1>6 DEF Inv

\* and its last.
LEMMA DirectInv ==
    ASSUME Inv, MapDirect
    PROVE  Inv'
<1>1. /\ pc = "direct" /\ pc' \in {"direct", "vma"} /\ mem' = vmm_init_direct(mem, gb4)
           /\ gb4' = gb4 + 1
      /\ owned' = owned /\ procs' = procs /\ calls' = calls /\ ~Wild(mem)
      /\ pc' = "direct" => gb4 + 1 < Gb4
  BY DEF MapDirect, BootStep
<1>2. Gb4 \in Nat \ {0}
  BY Constants
<1>3. PICK g \in 0 .. (Gb4 - 1) : g = gb4
  BY <1>1, <1>2 DEF Inv, TypeInv
<1>4. mem \in Memory(Frame, 1)
  <2>1. Bound(pc, calls) = 1
    BY <1>1 DEF Bound
  <2> QED BY <1>1, <2>1 DEF Inv, TypeInv
<1>5. PICK use : Booting(mem, use)
  BY <1>1 DEF Inv, UsersInv
<1>6. mem' \in Memory(Frame, 1) /\ (~Wild(mem') => \E use2 : Booting(mem', use2))
  BY <1>1, <1>3, <1>4, <1>5, DirectMapped
<1>7. TypeInv'
  <2>1. Bound(pc', calls') = 1
    BY <1>1 DEF Bound
  <2>2. gb4' \in 0 .. Gb4 /\ (pc' \in {"vmm", "direct"} => gb4' < Gb4)
    BY <1>1, <1>2, <1>3
  <2> QED BY <1>1, <1>6, <2>1, <2>2 DEF Inv, TypeInv
<1>8. UsersInv'
  BY <1>1, <1>6 DEF UsersInv
<1> QED BY <1>7, <1>8 DEF Inv

\* vma_create_context.
LEMMA ContextInv ==
    ASSUME Inv, CreateContext
    PROVE  Inv'
<1>1. /\ pc = "vma" /\ pc' = "test" /\ mem' = vma_create_context(mem) /\ gb4' = gb4
      /\ owned' = owned /\ procs' = procs /\ calls' = calls /\ ~Wild(mem)
  BY DEF CreateContext, BootStep
<1>4. mem \in Memory(Frame, 1)
  <2>1. Bound(pc, calls) = 1
    BY <1>1 DEF Bound
  <2> QED BY <1>1, <2>1 DEF Inv, TypeInv
<1>5. PICK use : Booting(mem, use)
  BY <1>1 DEF Inv, UsersInv
<1>6. PICK n : n = mem'
  OBVIOUS
<1>7. /\ n \in Memory(Frame, 1)
      /\ ~Wild(n) => \E use2, l : Good(n, use2, l, {}, {}, {n.ctx}, {}) /\ NoImage(use2)
  BY <1>1, <1>4, <1>5, <1>6, ContextMade
<1>8. mem' \in Tested(1) /\ mem' \in Memory(Frame, 1)
  BY <1>6, <1>7 DEF Tested
<1>9. TypeInv'
  <2>1. Bound(pc', calls') = 1
    BY <1>1 DEF Bound
  <2> QED BY <1>1, <1>8, <2>1 DEF Inv, TypeInv
<1>10. UsersInv'
  BY <1>1, <1>8 DEF UsersInv
<1> QED BY <1>9, <1>10 DEF Inv

\* test_vmm.
LEMMA TestInv ==
    ASSUME Inv, TestVmm
    PROVE  Inv'
<1>1. /\ pc = "test" /\ pc' = "run" /\ mem' = test_vmm(mem, VMM_TESTS) /\ gb4' = gb4
      /\ owned' = owned /\ procs' = procs /\ calls' = calls
      /\ owned = {} /\ procs = << >> /\ calls = 0
  BY DEF TestVmm, BootStep, Inv, TypeInv
<1>2. /\ Bound("run", 0) = 1 + VMM_TESTS /\ 1 + VMM_TESTS <= HHDM /\ VMM_TESTS \in Nat
  <2>1. 0 \in 0 .. MaxCalls
    BY CallAssumption
  <2> QED BY <2>1, Bounds
<1>3. mem \in Tested(1)
  BY <1>1 DEF Inv, UsersInv
<1>4. PICK n : n = mem'
  OBVIOUS
<1>5. n \in Tested(1 + VMM_TESTS)
  BY <1>1, <1>2, <1>3, <1>4, TestsRun
<1>6. n \in Memory(Frame, 1 + VMM_TESTS)
  BY <1>5 DEF Tested
<1>7. TypeInv'
  <2>1. Bound(pc', calls') = 1 + VMM_TESTS
    BY <1>1, <1>2
  <2> QED BY <1>1, <1>4, <1>6, <2>1 DEF Inv, TypeInv
<1>8. ASSUME ~Wild(n) PROVE \E use, l : Running(n, use, l, {}, << >>)
  <2>1. PICK use, l : Good(n, use, l, {}, {}, {n.ctx}, {}) /\ NoImage(use)
    BY <1>5, <1>8 DEF Tested
  <2>2. 1 .. Len(<< >>) = {}
    OBVIOUS
  <2>3. MapsOf(<< >>) = {} /\ OthersOf(n.ctx, << >>) = {n.ctx} /\ PairsOf(<< >>) = {}
    BY <2>2 DEF MapsOf, OthersOf, PairsOf
  <2>4. Different(n.ctx, << >>) /\ ImagesLoaded(n, << >>)
    BY <2>2 DEF Different, ImagesLoaded
  <2>5. AllImages(n, use, << >>)
    BY <2>1 DEF AllImages, NoImage
  <2> QED BY <2>1, <2>3, <2>4, <2>5 DEF Running
<1>9. UsersInv'
  BY <1>1, <1>4, <1>8 DEF UsersInv
<1> QED BY <1>7, <1>9 DEF Inv

\* What holds when a call is made.
LEMMA CallState ==
    ASSUME Inv, NEW w \in 1 .. 2, Call(w)
    PROVE  /\ ~Wild(mem) /\ pc = "run" /\ pc' = "run" /\ gb4' = gb4 /\ calls' = calls + w
           /\ calls \in 0 .. MaxCalls /\ calls' \in 0 .. MaxCalls
           /\ Bound(pc, calls) \in Nat /\ Bound(pc, calls) <= HHDM
           /\ Bound(pc', calls') = Bound(pc, calls) + PAGE_SIZE * w /\ Bound(pc', calls') <= HHDM
           /\ Bound(pc', calls') \in Nat
           /\ mem \in Memory(Frame, Bound(pc, calls)) /\ procs \in Seq(Process)
           /\ \E use, l : Running(mem, use, l, owned, procs)
<1>1. /\ ~Wild(mem) /\ pc = "run" /\ pc' = "run" /\ gb4' = gb4 /\ calls' = calls + w
           /\ calls + w <= MaxCalls
  BY DEF Call
<1>2. calls \in 0 .. MaxCalls /\ mem \in Memory(Frame, Bound(pc, calls)) /\ procs \in Seq(Process)
  BY <1>1 DEF Inv, TypeInv
<1>3. PICK c \in 0 .. MaxCalls : c = calls
  BY <1>2
<1>4. w \in Nat
  OBVIOUS
<1>5. /\ Bound("run", c) \in Nat /\ Bound("run", c) <= HHDM /\ MaxCalls \in Nat
      /\ \A k \in Nat : c + k <= MaxCalls => Bound("run", c + k) = Bound("run", c) + PAGE_SIZE * k
  BY Bounds
<1>6. c + w \in 0 .. MaxCalls
  BY <1>1, <1>3, <1>5
<1>7. Bound("run", c + w) \in Nat /\ Bound("run", c + w) <= HHDM
  BY <1>6, Bounds
<1>8. Bound("run", c + w) = Bound("run", c) + PAGE_SIZE * w
  BY <1>1, <1>3, <1>4, <1>5
<1>9. \E use, l : Running(mem, use, l, owned, procs)
  BY <1>1 DEF Inv, UsersInv
<1> QED BY <1>1, <1>2, <1>3, <1>5, <1>6, <1>7, <1>8, <1>9

\* A state of the end of boot.
LEMMA RunState ==
    ASSUME Inv, pc' = "run", gb4' = gb4, calls' \in 0 .. MaxCalls,
           mem' \in Memory(Frame, Bound(pc', calls')),
           owned' \subseteq [start : Lower, size : HeapSizes],
           procs' \in Seq(Process), Len(procs') <= MAX_PROCESSES,
           ~Wild(mem') => \E use, l : Running(mem', use, l, owned', procs')
    PROVE  Inv'
<1>1. TypeInv'
  BY DEF Inv, TypeInv
<1>2. UsersInv'
  BY DEF UsersInv
<1> QED BY <1>1, <1>2 DEF Inv

\* The sizes that liballoc asks for.
LEMMA SizesType == HeapSizes \subseteq 1 .. PAGE_SIZE /\ BufferSizes \subseteq HeapSizes
BY CallAssumption

\* liballoc_alloc.
LEMMA AllocInv ==
    ASSUME Inv, NEW pages \in HeapSizes, liballoc_alloc(pages)
    PROVE  Inv' /\ (~Wild(mem') => AllocEffect(mem, mem', procs, owned, owned'))
<1>1. Call(1) /\ procs' = procs
  BY DEF liballoc_alloc
<1>2. PICK r : r = vma_alloc(mem, pages)
  OBVIOUS
<1>3. owned' = owned \cup Given(r, pages) /\ mem' = Shared(r.mem, owned')
  BY <1>2 DEF liballoc_alloc
<1>4. 1 \in 1 .. 2 /\ pages \in 1 .. PAGE_SIZE /\ PAGE_SIZE * 1 = PAGE_SIZE /\ PAGE_SIZE \in Nat
         /\ HHDM \in Nat
  BY SizesType, Constants, LowerVirt
<1>5. PICK m, own, ps, B : m = mem /\ own = owned /\ ps = procs /\ B = Bound(pc, calls)
  OBVIOUS
<1>6. /\ pc' = "run" /\ gb4' = gb4 /\ calls' \in 0 .. MaxCalls
      /\ B \in Nat /\ B <= HHDM /\ Bound(pc', calls') = B + PAGE_SIZE /\ B + PAGE_SIZE <= HHDM
      /\ m \in Memory(Frame, B) /\ ps \in Seq(Process)
      /\ \E use, l : Running(m, use, l, own, ps)
  BY <1>1, <1>4, <1>5, CallState
<1>7. PICK use, l : Running(m, use, l, own, ps)
  BY <1>6
<1>8. B + pages <= HHDM /\ B + pages <= B + PAGE_SIZE /\ B + pages \in Nat /\ B + PAGE_SIZE \in Nat
  BY <1>4, <1>6
<1>9. /\ r \in [mem : Memory(Frame, B + pages), start : Nat \cup {NULL}]
      /\ r.start # NULL => r.start \in Lower
      /\ ~Wild(r.mem) => \E use2, l2 : Allocs(m, r, use, use2, l2, own, ps, pages)
  BY <1>2, <1>4, <1>5, <1>6, <1>7, <1>8, AllocRuns
<1>10. PICK C \in Nat, D \in Nat : C = B + pages /\ D = B + PAGE_SIZE /\ C <= D
  BY <1>8
<1>11. PICK o \in Memory(Frame, C) : o = r.mem
  BY <1>9, <1>10
<1>12. o \in Memory(Frame, D)
  BY <1>10, <1>11, Wider
<1>13. PICK n, own2 : n = mem' /\ own2 = owned'
  OBVIOUS
<1>14. n = Shared(o, own2)
  BY <1>3, <1>11, <1>13
<1>15. n \in Memory(Frame, D) /\ (n = o \/ Wild(n)) /\ o.events \subseteq n.events
  BY <1>12, <1>14, SharedIs
<1>16. owned' \subseteq [start : Lower, size : HeapSizes]
  <2>1. Given(r, pages) \subseteq [start : Lower, size : HeapSizes]
    BY <1>9 DEF Given
  <2> QED BY <1>3, <2>1 DEF Inv, TypeInv
<1>17. ASSUME ~Wild(n) PROVE (\E use2, l2 : Running(n, use2, l2, own2, ps))
                 /\ AllocEffect(m, n, ps, own, own2)
  <2>1. n = o /\ ~Wild(r.mem)
    BY <1>11, <1>15, <1>17
  <2>2. PICK use2, l2 : Allocs(m, r, use, use2, l2, own, ps, pages)
    BY <1>9, <2>1
  <2>3. own2 = own \cup Given(r, pages) /\ n = r.mem /\ r.start \in Nat \cup {NULL}
    BY <1>3, <1>5, <1>9, <1>11, <1>13, <2>1
  <2>4. AllocEffect(m, n, ps, own, own2)
    BY <1>4, <1>6, <1>7, <2>2, <2>3, AllocsEffect
  <2>5. Running(n, use2, l2, own2, ps)
    BY <2>2, <2>3 DEF Allocs
  <2> QED BY <2>4, <2>5
<1>18. Inv'
  <2>1. mem' \in Memory(Frame, Bound(pc', calls'))
    BY <1>6, <1>10, <1>13, <1>15
  <2>2. procs' \in Seq(Process) /\ Len(procs') <= MAX_PROCESSES
    BY <1>1 DEF Inv, TypeInv
  <2>3. ~Wild(mem') => \E use2, l2 : Running(mem', use2, l2, owned', procs')
    BY <1>1, <1>5, <1>13, <1>17
  <2> QED BY <1>6, <1>16, <2>1, <2>2, <2>3, RunState
<1> QED BY <1>5, <1>13, <1>17, <1>18

\* liballoc_free.
LEMMA FreeInv ==
    ASSUME Inv, NEW reg \in owned, liballoc_free(reg)
    PROVE  Inv' /\ (~Wild(mem') => KeepsViews(mem, mem', procs, PagesOf(reg)))
<1>1. Call(1) /\ procs' = procs /\ mem' = vma_free(mem, reg.start) /\ owned' = owned \ {reg}
  BY DEF liballoc_free
<1>4. 1 \in 1 .. 2 /\ PAGE_SIZE * 1 = PAGE_SIZE /\ PAGE_SIZE \in Nat /\ HHDM \in Nat
  BY Constants, LowerVirt
<1>5. PICK m, own, ps, B : m = mem /\ own = owned /\ ps = procs /\ B = Bound(pc, calls)
  OBVIOUS
<1>6. /\ pc' = "run" /\ gb4' = gb4 /\ calls' \in 0 .. MaxCalls
      /\ B \in Nat /\ B <= HHDM /\ Bound(pc', calls') = B + PAGE_SIZE
      /\ m \in Memory(Frame, B) /\ ps \in Seq(Process)
      /\ \E use, l : Running(m, use, l, own, ps)
  BY <1>1, <1>4, <1>5, CallState
<1>7. PICK use, l : Running(m, use, l, own, ps)
  BY <1>6
<1>8. PICK n : n = mem'
  OBVIOUS
<1>9. /\ n \in Memory(Frame, B)
      /\ ~Wild(n) => \E use2, l2 : FreesFor(m, n, use, use2, l2, own, ps, reg)
  BY <1>1, <1>5, <1>6, <1>7, <1>8, FreeRuns
<1>10. PICK D \in Nat : D = B + PAGE_SIZE /\ B <= D
  BY <1>4, <1>6
<1>11. n \in Memory(Frame, D)
  BY <1>6, <1>9, <1>10, Wider
<1>12. owned' \subseteq [start : Lower, size : HeapSizes]
  BY <1>1 DEF Inv, TypeInv
<1>13. ASSUME ~Wild(n)
       PROVE  (\E use2, l2 : Running(n, use2, l2, own \ {reg}, ps))
                 /\ KeepsViews(m, n, ps, PagesOf(reg))
  <2>1. PICK use2, l2 : FreesFor(m, n, use, use2, l2, own, ps, reg)
    BY <1>9, <1>13
  <2>2. PICK S : S = PagesOf(reg)
    OBVIOUS
  <2>3. Running(n, use2, l2, own \ {reg}, ps) /\ Moves(m, n, use, use2, m.kernel, S)
    BY <2>1, <2>2 DEF FreesFor
  <2>4. KeepsViews(m, n, ps, S)
    BY <1>6, <1>7, <2>3, ViewsKept
  <2> QED BY <2>2, <2>3, <2>4
<1>14. Inv'
  <2>1. mem' \in Memory(Frame, Bound(pc', calls'))
    BY <1>6, <1>8, <1>10, <1>11
  <2>2. procs' \in Seq(Process) /\ Len(procs') <= MAX_PROCESSES
    BY <1>1 DEF Inv, TypeInv
  <2>3. ~Wild(mem') => \E use2, l2 : Running(mem', use2, l2, owned', procs')
    BY <1>1, <1>5, <1>8, <1>13
  <2> QED BY <1>6, <1>12, <2>1, <2>2, <2>3, RunState
<1> QED BY <1>5, <1>8, <1>13, <1>14

\* scheduler_create_process.
LEMMA ThreadInv ==
    ASSUME Inv, scheduler_create_process
    PROVE  /\ Inv' /\ owned' = owned
           /\ \E pr : procs' = Append(procs, pr)
           /\ ~Wild(mem') => KeepsViews(mem, mem', procs, {})
<1>1. Call(2) /\ Len(procs) < MAX_PROCESSES /\ owned' = owned
  BY DEF scheduler_create_process
<1>2. PICK r : r = vmm_new_pagemap(mem)
  OBVIOUS
<1>3. PICK c : c = process_create(r.mem, r.page, KernelThread)
  OBVIOUS
<1>4. mem' = Shared(c.mem, owned) /\ procs' = Append(procs, c.proc)
  BY <1>2, <1>3 DEF scheduler_create_process
<1>5. 2 \in 1 .. 2 /\ PAGE_SIZE \in Nat /\ HHDM \in Nat /\ PAGE_SIZE * 2 \in Nat
  BY Constants, LowerVirt
<1>6. PICK m, own, ps, B : m = mem /\ own = owned /\ ps = procs /\ B = Bound(pc, calls)
  OBVIOUS
<1>7. /\ pc' = "run" /\ gb4' = gb4 /\ calls' \in 0 .. MaxCalls
      /\ B \in Nat /\ B <= HHDM /\ Bound(pc', calls') = B + PAGE_SIZE * 2
      /\ m \in Memory(Frame, B) /\ ps \in Seq(Process)
      /\ \E use, l : Running(m, use, l, own, ps)
  BY <1>1, <1>5, <1>6, CallState
<1>8. PICK use, l : Running(m, use, l, own, ps)
  BY <1>7
<1>9. /\ c.mem \in Memory(Frame, B) /\ c.proc \in Process
      /\ ~Wild(c.mem) => \E use2 : JoinsFor(m, c.mem, use, use2, l, own, Append(ps, c.proc))
  BY <1>2, <1>3, <1>6, <1>7, <1>8, ThreadRuns
<1>10. PICK D \in Nat : D = B + PAGE_SIZE * 2 /\ B <= D
  BY <1>5, <1>7
<1>11. PICK o \in Memory(Frame, B) : o = c.mem
  BY <1>9
<1>12. o \in Memory(Frame, D)
  BY <1>7, <1>10, Wider
<1>13. PICK n : n = mem'
  OBVIOUS
<1>14. n = Shared(o, own)
  BY <1>4, <1>6, <1>11, <1>13
<1>15. n \in Memory(Frame, D) /\ (n = o \/ Wild(n))
  BY <1>12, <1>14, SharedIs
<1>16. PICK ps2 : ps2 = Append(ps, c.proc)
  OBVIOUS
<1>17. ASSUME ~Wild(n)
       PROVE  (\E use2 : Running(n, use2, l, own, ps2)) /\ KeepsViews(m, n, ps, {})
  <2>1. n = o /\ ~Wild(c.mem) /\ n = c.mem
    BY <1>11, <1>15, <1>17
  <2>2. PICK use2 : JoinsFor(m, c.mem, use, use2, l, own, Append(ps, c.proc))
    BY <1>9, <2>1
  <2>3. Running(n, use2, l, own, ps2) /\ Moves(m, n, use, use2, m.kernel, {})
    BY <1>16, <2>1, <2>2 DEF JoinsFor
  <2>4. PICK S : S = {}
    OBVIOUS
  <2>5. S \cap Virt \subseteq S /\ Moves(m, n, use, use2, m.kernel, S)
    BY <2>3, <2>4
  <2>6. KeepsViews(m, n, ps, S)
    BY <1>7, <1>8, <2>5, ViewsKept
  <2> QED BY <2>3, <2>4, <2>6
<1>18. Inv'
  <2>1. mem' \in Memory(Frame, Bound(pc', calls'))
    BY <1>7, <1>10, <1>13, <1>15
  <2>2. procs' \in Seq(Process) /\ Len(procs') <= MAX_PROCESSES
    <3>1. MAX_PROCESSES \in Nat
      BY CallAssumption
    <3>2. ps2 \in Seq(Process) /\ Len(ps2) = Len(ps) + 1 /\ Len(ps) \in Nat
      BY <1>7, <1>9, <1>16
    <3> QED BY <1>1, <1>4, <1>6, <1>16, <3>1, <3>2
  <2>3. ~Wild(mem') => \E use2, l2 : Running(mem', use2, l2, owned', procs')
    BY <1>1, <1>4, <1>6, <1>13, <1>16, <1>17
  <2>4. owned' \subseteq [start : Lower, size : HeapSizes]
    BY <1>1 DEF Inv, TypeInv
  <2> QED BY <1>7, <2>1, <2>2, <2>3, <2>4, RunState
<1> QED BY <1>1, <1>4, <1>6, <1>13, <1>17, <1>18

\* An allocation whose effect nothing adds to.
LEMMA EffectOn ==
    ASSUME NEW k, NEW m, NEW n, NEW ps, NEW own, NEW own2,
           AllocEffect(k, m, ps, own, own2), KeepsViews(m, n, ps, {})
    PROVE  AllocEffect(k, n, ps, own, own2)
<1>1. CASE own2 = own /\ KeepsViews(k, m, ps, {})
  <2>1. PICK S : S = {}
    OBVIOUS
  <2>2. KeepsViews(k, n, ps, S)
    BY <1>1, <2>1, KeepsOn
  <2> QED BY <1>1, <2>1, <2>2 DEF AllocEffect
<1>2. CASE \E reg \in own2 \ own :
              /\ own2 = own \cup {reg} /\ PagesOf(reg) \subseteq Lower
              /\ \A x \in own : PagesOf(x) \cap PagesOf(reg) = {}
              /\ KeepsViews(k, m, ps, PagesOf(reg))
  <2>1. PICK reg \in own2 \ own :
              /\ own2 = own \cup {reg} /\ PagesOf(reg) \subseteq Lower
              /\ \A x \in own : PagesOf(x) \cap PagesOf(reg) = {}
              /\ KeepsViews(k, m, ps, PagesOf(reg))
    BY <1>2
  <2>2. KeepsViews(k, n, ps, PagesOf(reg))
    BY <2>1, KeepsOn
  <2> QED BY <2>1, <2>2 DEF AllocEffect
<1> QED BY <1>1, <1>2 DEF AllocEffect

\* scheduler_create_elf_process.
LEMMA ElfInv ==
    ASSUME Inv, NEW image \in Images, NEW pages \in BufferSizes \cup {0},
           scheduler_create_elf_process(image, pages)
    PROVE  /\ Inv'
           /\ procs' = procs \/ \E pr : procs' = Append(procs, pr)
           /\ ~Wild(mem') => AllocEffect(mem, mem', procs, owned, owned')
<1>1. Call(2) /\ Len(procs) < MAX_PROCESSES
  BY DEF scheduler_create_elf_process
<1>2. PICK d : d = kmalloc(mem, pages)
  OBVIOUS
<1>3. PICK r : r = vmm_new_pagemap(d.mem)
  OBVIOUS
<1>4. PICK e : e = elf_load(r.mem, image, r.page)
  OBVIOUS
<1>5. PICK c : c = process_create(e.mem, r.page, image)
  OBVIOUS
<1>6. PICK o : o = IF e.ok THEN c.mem ELSE e.mem
  OBVIOUS
<1>7. /\ owned' = owned \cup Given(d, pages) /\ mem' = Shared(o, owned')
      /\ procs' = IF e.ok THEN Append(procs, c.proc) ELSE procs
  BY <1>2, <1>3, <1>4, <1>5, <1>6 DEF scheduler_create_elf_process
<1>8. /\ 2 \in 1 .. 2 /\ pages \in 0 .. PAGE_SIZE /\ PAGE_SIZE \in Nat /\ HHDM \in Nat
      /\ PAGE_SIZE * 2 = PAGE_SIZE + PAGE_SIZE
  BY SizesType, Constants, LowerVirt
<1>9. PICK m, own, ps, B : m = mem /\ own = owned /\ ps = procs /\ B = Bound(pc, calls)
  OBVIOUS
<1>10. /\ pc' = "run" /\ gb4' = gb4 /\ calls' \in 0 .. MaxCalls
       /\ B \in Nat /\ B <= HHDM /\ Bound(pc', calls') = B + PAGE_SIZE * 2
            /\ B + PAGE_SIZE * 2 <= HHDM
       /\ m \in Memory(Frame, B) /\ ps \in Seq(Process)
       /\ \E use, l : Running(m, use, l, own, ps)
  <2>1. Bound(pc', calls') <= HHDM
    BY <1>1, <1>8, CallState
  <2> QED BY <1>1, <1>8, <1>9, <2>1, CallState
<1>11. PICK use, l : Running(m, use, l, own, ps)
  BY <1>10
<1>12. PICK C \in Nat, D \in Nat : C = B + PAGE_SIZE /\ D = B + PAGE_SIZE * 2 /\ C <= D /\ C <= HHDM
  BY <1>8, <1>10
<1>13. PICK own2 : own2 = own \cup Given(d, pages)
  OBVIOUS
<1>14. PICK dm : dm = d.mem
  OBVIOUS
<1>15. /\ dm \in Memory(Frame, C)
       /\ d.start \in Nat \cup {NULL} /\ (d.start # NULL => d.start \in Lower /\ pages # 0)
       /\ ~Wild(dm) => \E use2, l2 :
             /\ Running(dm, use2, l2, own2, ps)
             /\ AllocEffect(m, dm, ps, own, own2)
  <2>1. /\ d.mem \in Memory(Frame, B + PAGE_SIZE)
        /\ d.start \in Nat \cup {NULL} /\ (d.start # NULL => d.start \in Lower /\ pages # 0)
        /\ ~Wild(d.mem) => \E use2, l2 :
              /\ Running(d.mem, use2, l2, own \cup Given(d, pages), ps)
              /\ AllocEffect(m, d.mem, ps, own, own \cup Given(d, pages))
    BY <1>2, <1>8, <1>9, <1>10, <1>11, <1>12, BufferRuns
  <2> QED BY <1>12, <1>13, <1>14, <2>1
<1>16. /\ o \in Memory(Frame, C) /\ c.proc \in Process
       /\ Wild(dm) => Wild(o)
       /\ \A use2, l2, owned1, ps1 :
             ps1 \in Seq(Process) /\ Running(dm, use2, l2, owned1, ps1) /\ ~Wild(o) =>
                \E use3 : JoinsFor(dm, o, use2, use3, l2, owned1,
                                 IF e.ok THEN Append(ps1, c.proc) ELSE ps1)
  BY <1>3, <1>4, <1>5, <1>6, <1>12, <1>14, <1>15, CreateRuns
<1>17. o \in Memory(Frame, D)
  BY <1>12, <1>16, Wider
<1>18. PICK n : n = mem'
  OBVIOUS
<1>19. n = Shared(o, own2)
  BY <1>7, <1>9, <1>13, <1>18
<1>20. n \in Memory(Frame, D) /\ (n = o \/ Wild(n))
  BY <1>17, <1>19, SharedIs
<1>21. PICK ps2 : ps2 = IF e.ok THEN Append(ps, c.proc) ELSE ps
  OBVIOUS
<1>22. ASSUME ~Wild(n)
       PROVE  (\E use3, l3 : Running(n, use3, l3, own2, ps2)) /\ AllocEffect(m, n, ps, own, own2)
  <2>1. n = o /\ ~Wild(o) /\ ~Wild(dm)
    BY <1>16, <1>20, <1>22
  <2>2. PICK use2, l2 : Running(dm, use2, l2, own2, ps) /\ AllocEffect(m, dm, ps, own, own2)
    BY <1>15, <2>1
  <2>3. \E use3 : JoinsFor(dm, o, use2, use3, l2, own2, IF e.ok THEN Append(ps, c.proc) ELSE ps)
    BY <1>10, <1>16, <2>1, <2>2
  <2>4. PICK use3 : JoinsFor(dm, o, use2, use3, l2, own2, ps2)
    BY <1>21, <2>3
  <2>5. Running(n, use3, l2, own2, ps2) /\ Moves(dm, n, use2, use3, dm.kernel, {})
    BY <2>1, <2>4 DEF JoinsFor
  <2>6. PICK S : S = {}
    OBVIOUS
  <2>7. S \cap Virt \subseteq S /\ Moves(dm, n, use2, use3, dm.kernel, S)
    BY <2>5, <2>6
  <2>8. KeepsViews(dm, n, ps, S)
    BY <1>10, <1>15, <2>2, <2>7, ViewsKept
  <2>9. AllocEffect(m, n, ps, own, own2)
    BY <2>2, <2>6, <2>8, EffectOn
  <2> QED BY <2>5, <2>9
<1>23. Inv'
  <2>1. mem' \in Memory(Frame, Bound(pc', calls'))
    BY <1>10, <1>12, <1>18, <1>20
  <2>2. procs' \in Seq(Process) /\ Len(procs') <= MAX_PROCESSES
    <3>1. MAX_PROCESSES \in Nat
      BY CallAssumption
    <3>2. Append(ps, c.proc) \in Seq(Process) /\ Len(Append(ps, c.proc)) = Len(ps) + 1
             /\ Len(ps) \in Nat
      BY <1>10, <1>16
    <3>3. procs' = Append(ps, c.proc) \/ procs' = ps
      BY <1>7, <1>9
    <3> QED BY <1>1, <1>9, <1>10, <3>1, <3>2, <3>3
  <2>3. ~Wild(mem') => \E use2, l2 : Running(mem', use2, l2, owned', procs')
    <3>1. own2 = owned' /\ ps2 = procs'
      BY <1>7, <1>9, <1>13, <1>21
    <3> QED BY <1>18, <1>22, <3>1
  <2>4. owned' \subseteq [start : Lower, size : HeapSizes]
    <3>1. Given(d, pages) \subseteq [start : Lower, size : HeapSizes]
      BY <1>15, SizesType DEF Given
    <3> QED BY <1>7, <3>1 DEF Inv, TypeInv
  <2> QED BY <1>10, <2>1, <2>2, <2>3, <2>4, RunState
<1>24. owned' = own2
  BY <1>7, <1>9, <1>13
<1> QED BY <1>7, <1>9, <1>18, <1>22, <1>23, <1>24

\* A stack of frames is one of pointers.
LEMMA AsPointers ==
    ASSUME NEW B, NEW m \in Memory(Frame, B)
    PROVE  m \in Memory(Pointer, B)
<1>1. Frame \subseteq Pointer
  BY DEF Pointer
<1>2. m \in MemoryRecord(Frame) /\ Len(m.stack) <= m.max /\ \A f \in Frame : End(m.region[f]) <= B
  BY DEF Memory
<1>3. m.stack \in Seq(Frame \ {0})
  BY <1>2 DEF MemoryRecord
<1>4. m.stack \in Seq(Pointer \ {0})
  BY <1>1, <1>3
<1>5. m \in MemoryRecord(Pointer)
  BY <1>2, <1>4 DEF MemoryRecord
<1> QED BY <1>2, <1>5 DEF Memory

\* The first tick.
LEMMA DispatchInv ==
    ASSUME Inv, Dispatch
    PROVE  Inv'
<1>1. /\ ~Wild(mem) /\ pc = "run" /\ pc' = "user" /\ mem' = mem /\ gb4' = gb4 /\ owned' = owned
      /\ procs' = procs /\ calls' = calls
  BY DEF Dispatch
<1>2. calls \in 0 .. MaxCalls /\ mem \in Memory(Frame, Bound(pc, calls))
  BY <1>1 DEF Inv, TypeInv
<1>3. PICK m, B : m = mem /\ B = Bound(pc, calls)
  OBVIOUS
<1>4. Bound(pc', calls') = B
  BY <1>1, <1>3 DEF Bound
<1>5. m \in Memory(Frame, B)
  BY <1>2, <1>3
<1>6. m \in Memory(Pointer, B)
  BY <1>5, AsPointers
<1>7. Leaves(m, m)
  BY DEF Leaves, Alike
<1>8. \E use, l : Running(m, use, l, owned, procs)
  BY <1>1, <1>3 DEF Inv, UsersInv
<1>9. TypeInv'
  BY <1>1, <1>3, <1>4, <1>6 DEF Inv, TypeInv
<1>10. UsersInv'
  BY <1>1, <1>3, <1>4, <1>5, <1>7, <1>8 DEF UsersInv
<1> QED BY <1>9, <1>10 DEF Inv

\* A higher-half address goes on the stack: it is no frame's number.
LEMMA AliasFreed ==
    ASSUME NEW B, NEW k, NEW m \in Memory(Pointer, B), Leaves(k, m), NEW f \in Frame,
           NEW n, n = pmm_free_page(m, HigherHalf(f))
    PROVE  n \in Memory(Pointer, B) /\ Leaves(k, n)
<1>1. Pointer \subseteq Int
  <2>1. \A x \in Frame : x \in Int /\ -x \in Int
    BY Constants
  <2> QED BY <2>1 DEF Pointer, HigherHalf
<1>2. PICK ptr : ptr = HigherHalf(f)
  OBVIOUS
<1>3. ptr \in Pointer /\ ptr <= 0 /\ (ptr < 0 => ptr \notin Frame) /\ ptr \in Int
  BY <1>2, Constants DEF Pointer, HigherHalf
<1>4. n \in Memory(Pointer, B) /\ Returns(m, n, ptr)
  BY <1>1, <1>2, <1>3, Freed
<1>5. m.held \subseteq Frame \ {0} /\ m.stack \in Seq(Pointer \ {0})
  BY DEF Memory, MemoryRecord
<1>6. n.held = m.held
  <2>1. ptr \notin m.held
    BY <1>3, <1>5
  <2> QED BY <1>4, <2>1 DEF Returns
<1>7. Alike(k, n) /\ n.table = k.table /\ n.held = k.held
  BY <1>4, <1>6 DEF Returns, Leaves, Alike
<1>8. CASE ptr = 0
  <2>1. n.stack = m.stack /\ n.events = m.events
    BY <1>4, <1>8 DEF Returns
  <2> QED BY <1>4, <1>7, <2>1 DEF Leaves
<1>9. CASE ptr < 0
  <2>1. n.events = m.events \cup {"alias"}
    BY <1>4, <1>9 DEF Returns
  <2>2. n.stack = m.stack \/ n.stack = Append(m.stack, ptr)
    BY <1>4 DEF Returns
  <2>3. Range(n.stack) \subseteq Range(m.stack) \cup {ptr}
    <3>1. CASE n.stack = m.stack
      BY <3>1
    <3>2. CASE n.stack = Append(m.stack, ptr)
      <4> SUFFICES ASSUME NEW j \in DOMAIN n.stack PROVE n.stack[j] \in Range(m.stack) \cup {ptr}
        BY DEF Range
      <4>1. j \in 1 .. (Len(m.stack) + 1)
        BY <1>5, <3>2
      <4>2. CASE j \in 1 .. Len(m.stack)
        BY <1>5, <3>2, <4>2 DEF Range
      <4>3. CASE j = Len(m.stack) + 1
        BY <1>5, <3>2, <4>3
      <4> QED BY <1>5, <4>1, <4>2, <4>3
    <3> QED BY <2>2, <3>1, <3>2
  <2>4. Range(n.stack) \cap Frame \subseteq Range(m.stack)
    BY <1>3, <1>9, <2>3
  <2>5. n.events # {}
    BY <2>1
  <2> QED BY <1>4, <1>7, <2>1, <2>4, <2>5 DEF Leaves
<1> QED BY <1>3, <1>8, <1>9

\* process_destroy: four such frees.
LEMMA DestroyLeaves ==
    ASSUME NEW B, NEW k, NEW m \in Memory(Pointer, B), Leaves(k, m), NEW p \in Process,
           NEW n, n = process_destroy(m, p)
    PROVE  n \in Memory(Pointer, B) /\ Leaves(k, n)
<1>1. p.pagemap \in Frame /\ p.stack \in Frame /\ p.proc \in Frame
  BY DEF Process
<1>2. PICK f, g, h : f = p.pagemap /\ g = p.stack /\ h = p.proc
  OBVIOUS
<1>3. f \in Frame /\ g \in Frame /\ h \in Frame
  BY <1>1, <1>2
<1>4. PICK a : a = pmm_free_page(m, HigherHalf(f))
  OBVIOUS
<1>5. PICK b : b = pmm_free_page(a, HigherHalf(f))
  OBVIOUS
<1>6. PICK c : c = pmm_free_page(b, HigherHalf(g))
  OBVIOUS
<1>7. n = pmm_free_page(c, HigherHalf(h))
  BY <1>2, <1>4, <1>5, <1>6 DEF process_destroy, vmm_destroy_pagemap
<1>8. a \in Memory(Pointer, B) /\ Leaves(k, a)
  BY <1>3, <1>4, AliasFreed
<1>9. b \in Memory(Pointer, B) /\ Leaves(k, b)
  BY <1>3, <1>5, <1>8, AliasFreed
<1>10. c \in Memory(Pointer, B) /\ Leaves(k, c)
  BY <1>3, <1>6, <1>9, AliasFreed
<1> QED BY <1>3, <1>7, <1>10, AliasFreed

\* The same processes, whether or not they are alive.
SameProcs(ps, ps2) ==
    /\ Len(ps2) = Len(ps)
    /\ \A k \in 1 .. Len(ps) : /\ ps2[k].pagemap = ps[k].pagemap /\ ps2[k].proc = ps[k].proc
                               /\ ps2[k].stack = ps[k].stack /\ ps2[k].image = ps[k].image

\* use their frames as before.
LEMMA SameRunning ==
    ASSUME NEW m, NEW use, NEW l, NEW own, NEW ps, NEW ps2, SameProcs(ps, ps2),
           Running(m, use, l, own, ps)
    PROVE  Running(m, use, l, own, ps2)
<1>1. MapsOf(ps2) = MapsOf(ps)
  BY DEF MapsOf, SameProcs
<1>2. OthersOf(m.ctx, ps2) = OthersOf(m.ctx, ps)
  BY DEF OthersOf, SameProcs
<1>3. \A k \in 1 .. Len(ps) : ImagePairs(ps2[k]) = ImagePairs(ps[k])
  BY DEF ImagePairs, SameProcs
<1>4. PairsOf(ps2) = PairsOf(ps)
  BY <1>3 DEF PairsOf, SameProcs
<1>5. Different(m.ctx, ps2)
  BY DEF Different, SameProcs, Running
<1>6. ImagesLoaded(m, ps2)
  BY DEF ImagesLoaded, ImageLoaded, SameProcs, Running
<1>7. AllImages(m, use, ps2)
  BY <1>4 DEF AllImages, SameProcs, Running
<1> QED BY <1>1, <1>2, <1>4, <1>5, <1>6, <1>7 DEF Running

\* Exit.
LEMMA ExitInv ==
    ASSUME Inv, NEW k \in DOMAIN procs, Exit(k)
    PROVE  /\ Inv' /\ SameProcs(procs, procs') /\ Len(procs) \in Nat /\ ~Wild(mem) /\ ~Wild(mem')
           /\ mem'.table = mem.table /\ mem'.kernel = mem.kernel
<1>1. /\ pc = "user" /\ pc' = "user" /\ gb4' = gb4 /\ owned' = owned /\ calls' = calls
      /\ mem' = process_destroy(mem, procs[k]) /\ procs' = [procs EXCEPT ![k].alive = FALSE]
  BY DEF Exit
<1>2. mem \in Memory(Pointer, Bound(pc, calls)) /\ procs \in Seq(Process)
  BY <1>1 DEF Inv, TypeInv
<1>3. PICK n, n2, B, own, ps, ps2 : /\ n = mem /\ n2 = mem' /\ B = Bound(pc, calls)
                                         /\ own = owned /\ ps = procs
                                    /\ ps2 = procs'
  OBVIOUS
<1>4. ps \in Seq(Process) /\ n \in Memory(Pointer, B) /\ DOMAIN ps = 1 .. Len(ps) /\ Len(ps) \in Nat
  BY <1>2, <1>3
<1>5. ~Wild(n) /\ \E m \in Memory(Frame, B) : Leaves(m, n) /\ \E use, l : Running(m, use, l, own, ps)
  BY <1>1, <1>3 DEF Inv, UsersInv
<1>6. PICK m \in Memory(Frame, B) : Leaves(m, n) /\ \E use, l : Running(m, use, l, own, ps)
  BY <1>5
<1>7. PICK use, l : Running(m, use, l, own, ps)
  BY <1>6
<1>8. PICK p \in Process : p = ps[k]
  BY <1>3, <1>4
<1>9. n2 = process_destroy(n, p)
  BY <1>1, <1>3, <1>8
<1>10. n2 \in Memory(Pointer, B) /\ Leaves(m, n2)
  BY <1>4, <1>6, <1>9, DestroyLeaves
<1>11. ~Wild(n2)
  BY <1>5, <1>6, <1>10 DEF Leaves, Wild
<1>12. [p EXCEPT !.alive = FALSE] \in Process
  <2>1. FALSE \in BOOLEAN
    OBVIOUS
  <2> QED BY <2>1 DEF Process
<1>13. ps2 = [ps EXCEPT ![k] = [p EXCEPT !.alive = FALSE]]
  BY <1>1, <1>3, <1>8
<1>14. ps2 \in Seq(Process) /\ Len(ps2) = Len(ps)
  BY <1>3, <1>4, <1>12, <1>13
<1>15. SameProcs(ps, ps2)
  <2>1. \A j \in 1 .. Len(ps) : j # k => ps2[j] = ps[j]
    BY <1>4, <1>13
  <2>2. ps2[k] = [ps[k] EXCEPT !.alive = FALSE]
    BY <1>3, <1>4, <1>8, <1>13
  <2>3. \A j \in 1 .. Len(ps) : ps[j] \in Process
    BY <1>4
  <2>4. \A j \in 1 .. Len(ps) : /\ ps2[j].pagemap = ps[j].pagemap /\ ps2[j].proc = ps[j].proc
                                /\ ps2[j].stack = ps[j].stack /\ ps2[j].image = ps[j].image
    <3> TAKE j \in 1 .. Len(ps)
    <3>1. CASE j = k
      BY <1>8, <2>2, <3>1 DEF Process
    <3>2. CASE j # k
      BY <2>1, <3>2
    <3> QED BY <3>1, <3>2
  <2> QED BY <1>14, <2>4 DEF SameProcs
<1>16. Running(m, use, l, own, ps2)
  BY <1>7, <1>15, SameRunning
<1>17. TypeInv'
  <2>1. Bound(pc', calls') = B
    BY <1>1, <1>3
  <2> QED BY <1>1, <1>3, <1>10, <1>14, <2>1 DEF Inv, TypeInv
<1>18. UsersInv'
  <2>1. Bound(pc', calls') = B
    BY <1>1, <1>3
  <2> QED BY <1>1, <1>3, <1>6, <1>10, <1>11, <1>16, <2>1 DEF UsersInv
<1>19. n2.table = n.table /\ n2.kernel = n.kernel
  BY <1>6, <1>10 DEF Leaves, Alike
<1>20. ~Wild(mem) /\ ~Wild(mem')
  BY <1>3, <1>5, <1>11
<1> QED BY <1>3, <1>4, <1>15, <1>17, <1>18, <1>19, <1>20 DEF Inv

\* Every step keeps the invariant.
LEMMA NextInv == Inv /\ [Next]_vars => Inv'
<1> SUFFICES ASSUME Inv, [Next]_vars PROVE Inv'
  OBVIOUS
<1>1. CASE MapSections
  BY <1>1, SectionsInv
<1>2. CASE MapDirect
  BY <1>2, DirectInv
<1>3. CASE CreateContext
  BY <1>3, ContextInv
<1>4. CASE TestVmm
  BY <1>4, TestInv
<1>5. ASSUME NEW pages \in HeapSizes, liballoc_alloc(pages) PROVE Inv'
  BY <1>5, AllocInv
<1>6. ASSUME NEW reg \in owned, liballoc_free(reg) PROVE Inv'
  BY <1>6, FreeInv
<1>7. CASE scheduler_create_process
  BY <1>7, ThreadInv
<1>8. ASSUME NEW image \in Images, NEW pages \in BufferSizes \cup {0},
             scheduler_create_elf_process(image, pages)
      PROVE  Inv'
  BY <1>8, ElfInv
<1>9. CASE Dispatch
  BY <1>9, DispatchInv
<1>10. ASSUME NEW k \in DOMAIN procs, Exit(k) PROVE Inv'
  BY <1>10, ExitInv
<1>11. CASE UNCHANGED vars
  BY <1>11 DEF vars, Inv, TypeInv, UsersInv
<1>12. CASE Done
  BY <1>11, <1>12 DEF Done
<1> QED BY <1>1, <1>2, <1>3, <1>4, <1>5, <1>6, <1>7, <1>8, <1>9, <1>10, <1>11, <1>12 DEF Next

\* Whatever boot, liballoc's hooks, elf_load, the creation of processes and their
\* exits do, until memory is wild every held frame has one use in a tree of tables
\* and a chain of regions.
THEOREM Invariant == Spec => []Inv
BY InitInv, NextInv, PTL DEF Spec

\* The invariant has the types.
LEMMA InvType == Inv => TypeOK
<1> SUFFICES ASSUME Inv PROVE TypeOK
  OBVIOUS
<1>1. mem \in Memory(Pointer, Bound(pc, calls))
  <2>1. PICK m, B : m = mem /\ B = Bound(pc, calls)
    OBVIOUS
  <2>2. m \in Memory(Frame, B) => m \in Memory(Pointer, B)
    BY AsPointers
  <2> QED BY <2>1, <2>2 DEF Inv, TypeInv
<1>2. mem \in MemoryRecord(Pointer) /\ Len(mem.stack) <= mem.max
  BY <1>1 DEF Memory
<1>3. mem.stack \in Seq(Pointer \ {0}) /\ mem.held \subseteq Frame \ {0}
  BY <1>2 DEF MemoryRecord
<1>4. \A f \in Frame : \A i \in DOMAIN NoTable : mem.table[f][i].flags \subseteq Flags
  <2>1. DOMAIN NoTable = Slots
    BY DEF NoTable, Slots
  <2>2. \A f \in Frame : mem.table[f] \in [Slots -> Entry]
    BY <1>2 DEF MemoryRecord
  <2>3. \A f \in Frame : \A i \in Slots : mem.table[f][i] \in Entry
    BY <2>2
  <2> QED BY <2>1, <2>3 DEF Entry
<1>5. \A f \in Frame : {mem.region[f].next, mem.region[f].prev} \subseteq Frame \cup {NULL}
  <2>1. \A f \in Frame : mem.region[f] \in Region
    BY <1>2 DEF MemoryRecord
  <2> QED BY <2>1 DEF Region
<1>6. \A r \in owned : r.start \in Lower /\ r.size \in HeapSizes
  BY DEF Inv, TypeInv
<1> QED BY <1>2, <1>3, <1>4, <1>5, <1>6 DEF Inv, TypeInv, TypeOK

\* The variables keep their types: the PMM's stack stays within stack.max although
\* pmm_free_page is called more often than pages were taken, tables hold page flags,
\* and the pointers of regions lead to frames.
THEOREM TypeCorrect == Spec => []TypeOK
BY Invariant, InvType, PTL

--------------------------------------------------------------------------------
(* What the invariant says of the kernel that runs *)

\* Once boot is over: memory whose users are known, but for what exits left.
LEMMA RunningState ==
    ASSUME Inv, pc \in {"run", "user"}, Sane
    PROVE  \E B \in Nat : \E m \in Memory(Frame, B) : \E use, l :
              /\ B <= HHDM /\ mem \in Memory(Pointer, B) /\ Leaves(m, mem)
              /\ Running(m, use, l, owned, procs) /\ procs \in Seq(Process)
<1>1. PICK n, B, c : n = mem /\ B = Bound(pc, calls) /\ c = calls
  OBVIOUS
<1>2. c \in 0 .. MaxCalls /\ procs \in Seq(Process) /\ ~Wild(n)
  BY <1>1 DEF Inv, TypeInv, Sane
<1>3. B \in Nat /\ B <= HHDM
  <2>1. /\ Bound("run", c) \in Nat /\ Bound("run", c) <= HHDM /\ Bound("user", c) = Bound("run", c)
    BY <1>2, Bounds
  <2> QED BY <1>1, <2>1
<1>4. CASE pc = "run"
  <2>1. n \in Memory(Frame, B) /\ \E use, l : Running(n, use, l, owned, procs)
    BY <1>1, <1>2, <1>4 DEF Inv, TypeInv, UsersInv
  <2>2. n \in Memory(Pointer, B)
    BY <2>1, AsPointers
  <2>3. Leaves(n, n)
    BY DEF Leaves, Alike
  <2> QED BY <1>1, <1>2, <1>3, <2>1, <2>2, <2>3
<1>5. CASE pc = "user"
  <2>1. n \in Memory(Pointer, B)
    BY <1>1, <1>5 DEF Inv, TypeInv
  <2>2. \E m \in Memory(Frame, B) : Leaves(m, n) /\ \E use, l : Running(m, use, l, owned, procs)
    BY <1>1, <1>5 DEF Inv, UsersInv
  <2> QED BY <1>1, <1>2, <1>3, <2>1, <2>2
<1> QED BY <1>4, <1>5

\* Every page map shows the kernel's upper half.
LEMMA UpperShared ==
    ASSUME NEW m, NEW use, Tree(m, use), NEW q \in Frame, use[q] = 4, NEW w \in Virt, w \notin Lower
    PROVE  View(m, q, w) = View(m, m.kernel, w)
<1>1. Index(w, 4) \in Slots /\ Index(w, 4) >= Half
  <2>1. w \in Nat /\ 4 \in 1 .. 4
    BY VirtNat
  <2>2. Index(w, 4) \in Slots /\ ~(Index(w, 4) < Half)
    BY <2>1, IndexType, LowerIndex
  <2> QED BY <2>2, Constants DEF Slots
<1>2. PICK k : k = m.kernel
  OBVIOUS
<1>3. E4(m, q, w) = E4(m, k, w)
  BY <1>1, <1>2 DEF Tree, E4
<1>4. E3(m, q, w) = E3(m, k, w)
  BY <1>3 DEF E3
<1>5. E2(m, q, w) = E2(m, k, w)
  BY <1>4 DEF E2
<1>6. E1(m, q, w) = E1(m, k, w) /\ Three(m, q, w) = Three(m, k, w)
  BY <1>3, <1>4, <1>5 DEF E1, Three
<1>7. /\ ~Three(m, q, w) => View(m, q, w) = <<0, {}>>
      /\ Three(m, q, w) => View(m, q, w) =
           <<E1(m, q, w).to,
             IF Present(E1(m, q, w))
             THEN Narrow(Narrow(Narrow(Narrow({"P", "W"}, E4(m, q, w)), E3(m, q, w)),
                                E2(m, q, w)), E1(m, q, w))
             ELSE {}>>
  BY ViewIs
<1>8. /\ ~Three(m, k, w) => View(m, k, w) = <<0, {}>>
      /\ Three(m, k, w) => View(m, k, w) =
           <<E1(m, k, w).to,
             IF Present(E1(m, k, w))
             THEN Narrow(Narrow(Narrow(Narrow({"P", "W"}, E4(m, k, w)), E3(m, k, w)),
                                E2(m, k, w)), E1(m, k, w))
             ELSE {}>>
  BY ViewIs
<1> QED BY <1>2, <1>3, <1>4, <1>5, <1>6, <1>7, <1>8

\* The sections' rights in the page maps of a running kernel.
LEMMA RightsEverywhere ==
    ASSUME NEW m, NEW use, NEW l, NEW own, NEW ps \in Seq(Process), Running(m, use, l, own, ps),
           NEW n, n.table = m.table, n.kernel = m.kernel,
           NEW k \in 1 .. 4, NEW q \in {n.kernel} \cup {ps[j].pagemap : j \in DOMAIN ps}
    PROVE  Rights(n, q, Sections[k].virt) = Sections[k].flags
<1>1. /\ Tree(m, use) /\ SectionRights(m) /\ MapsOwned(m, use, MapsOf(ps))
  BY DEF Running, Good, Sound
<1>2. PICK v : v = Sections[k].virt
  OBVIOUS
<1>3. v \in Virt /\ v \notin Lower
  BY <1>2, SectionsUpper
<1>4. q = m.kernel \/ (q \in Frame /\ use[q] = 4)
  <2>1. DOMAIN ps = 1 .. Len(ps)
    OBVIOUS
  <2>2. q = m.kernel \/ q \in MapsOf(ps)
    BY <2>1 DEF MapsOf
  <2> QED BY <1>1, <2>2 DEF MapsOwned
<1>5. View(m, q, v) = View(m, m.kernel, v)
  BY <1>1, <1>3, <1>4, UpperShared
<1>6. View(n, q, v) = View(m, q, v)
  BY SameTables
<1>7. Rights(n, q, v) = Rights(m, m.kernel, v)
  BY <1>5, <1>6 DEF View
<1> QED BY <1>1, <1>2, <1>7 DEF SectionRights

\* The invariant has the rights.
LEMMA InvRights == Inv => KernelRights
<1> SUFFICES ASSUME Inv, pc # "vmm", Sane,
                    NEW k \in DOMAIN Sections,
                    NEW q \in {mem.kernel} \cup {procs[j].pagemap : j \in DOMAIN procs}
             PROVE  Rights(mem, q, Sections[k].virt) = Sections[k].flags
  BY DEF KernelRights
<1>1. k \in 1 .. 4
  BY SectionsAre
<1>2. CASE pc \in {"direct", "vma", "test"}
  <2>1. procs = << >>
    BY <1>2 DEF Inv, TypeInv
  <2>2. q = mem.kernel
    BY <2>1
  <2>3. SectionRights(mem)
    <3>1. CASE pc \in {"direct", "vma"}
      BY <3>1 DEF Inv, UsersInv, Sane, Booting
    <3>2. CASE pc = "test"
      BY <3>2 DEF Inv, UsersInv, Sane, Tested, Good, Sound
    <3> QED BY <1>2, <3>1, <3>2
  <2> QED BY <1>1, <2>2, <2>3 DEF SectionRights
<1>3. CASE pc \in {"run", "user"}
  <2>1. PICK B \in Nat : \E m \in Memory(Frame, B) : \E use, l :
              /\ B <= HHDM /\ mem \in Memory(Pointer, B) /\ Leaves(m, mem)
              /\ Running(m, use, l, owned, procs) /\ procs \in Seq(Process)
    BY <1>3, RunningState
  <2>2. PICK m \in Memory(Frame, B) : \E use, l :
              /\ B <= HHDM /\ mem \in Memory(Pointer, B) /\ Leaves(m, mem)
              /\ Running(m, use, l, owned, procs) /\ procs \in Seq(Process)
    BY <2>1
  <2>3. PICK use, l : Leaves(m, mem) /\ Running(m, use, l, owned, procs) /\ procs \in Seq(Process)
    BY <2>2
  <2>4. PICK n, ps : n = mem /\ ps = procs
    OBVIOUS
  <2>5. n.table = m.table /\ n.kernel = m.kernel /\ Running(m, use, l, owned, ps)
           /\ ps \in Seq(Process)
    BY <2>3, <2>4 DEF Leaves, Alike
  <2>6. q \in {n.kernel} \cup {ps[j].pagemap : j \in DOMAIN ps}
    BY <2>4
  <2>7. Rights(n, q, Sections[k].virt) = Sections[k].flags
    BY <1>1, <2>5, <2>6, RightsEverywhere
  <2> QED BY <2>4, <2>7
<1>4. pc \in {"direct", "vma", "test", "run", "user"}
  BY DEF Inv, TypeInv
<1> QED BY <1>2, <1>3, <1>4

\* After vmm_init every section of the kernel has the rights asked for, in the kernel's
\* page map and in the one of every process that vmm_new_pagemap made, although a
\* table gets the flags of the first page that vmm_map put in it.
THEOREM SectionsProtected == Spec => []KernelRights
BY Invariant, InvRights, PTL

\* The heap of a running kernel.
LEMMA HeapIs ==
    ASSUME NEW B \in Nat, NEW m \in Memory(Frame, B), NEW n \in Memory(Pointer, B), Leaves(m, n),
           NEW use, NEW l, NEW own, NEW ps, Running(m, use, l, own, ps)
    PROVE  /\ Chain(n, l) /\ RegionList(n) = l /\ DOMAIN l = 1 .. Len(l) /\ Len(l) \in Nat
           /\ Range(RegionList(n)) = Members(l)
           /\ \A r \in own : /\ FirstFrame(n, r) = FirstFrame(m, r)
                             /\ \E k \in 2 .. Len(l) : r = Extent(n, l[k])
<1>1. Chain(m, l) /\ own \subseteq RegionsOf(m, l)
  BY DEF Running, Good, Sound, HeapList
<1>2. Alike(m, n) /\ n.table = m.table /\ n.held = m.held
  BY DEF Leaves
<1>3. \A k \in 1 .. Len(l) : l[k] \in n.held
  BY <1>1, <1>2 DEF Chain
<1>4. Chain(n, l)
  BY <1>1, <1>2, <1>3, ChainAlike
<1>5. RegionList(n) = l
  BY <1>4, ChainList
<1>6. l \in Seq(Frame) /\ DOMAIN l = 1 .. Len(l) /\ Len(l) \in Nat
  BY <1>4 DEF Chain
<1>7. Range(RegionList(n)) = Members(l)
  BY <1>5, <1>6 DEF Range, Members
<1>8. \A r \in own : FirstFrame(n, r) = FirstFrame(m, r)
  <2> TAKE r \in own
  <2>1. View(n, m.kernel, r.start) = View(m, m.kernel, r.start)
    BY <1>2, SameTables
  <2> QED BY <1>2, <2>1 DEF View, FirstFrame, Alike
<1>9. \A r \in own : \E k \in 2 .. Len(l) : r = Extent(n, l[k])
  BY <1>1, <1>2 DEF RegionsOf, Extent, Alike
<1> QED BY <1>4, <1>5, <1>6, <1>7, <1>8, <1>9

\* The invariant keeps the heap.
LEMMA InvHeap == Inv => HeapSound
<1> SUFFICES ASSUME Inv, pc \in {"run", "user"}, Sane PROVE HeapSound
  BY DEF HeapSound
<1>1. PICK B \in Nat : \E m \in Memory(Frame, B) : \E use, l :
            /\ B <= HHDM /\ mem \in Memory(Pointer, B) /\ Leaves(m, mem)
            /\ Running(m, use, l, owned, procs) /\ procs \in Seq(Process)
  BY RunningState
<1>2. PICK m \in Memory(Frame, B) : \E use, l :
            /\ B <= HHDM /\ mem \in Memory(Pointer, B) /\ Leaves(m, mem)
            /\ Running(m, use, l, owned, procs) /\ procs \in Seq(Process)
  BY <1>1
<1>3. PICK use, l : /\ mem \in Memory(Pointer, B) /\ Leaves(m, mem)
                         /\ Running(m, use, l, owned, procs)
  BY <1>2
<1>4. PICK n, own : n = mem /\ own = owned
  OBVIOUS
<1>5. n \in Memory(Pointer, B) /\ Leaves(m, n) /\ Running(m, use, l, own, procs)
  BY <1>3, <1>4
<1>6. /\ Chain(n, l) /\ RegionList(n) = l /\ DOMAIN l = 1 .. Len(l) /\ Len(l) \in Nat
      /\ Range(RegionList(n)) = Members(l)
      /\ \A r \in own : /\ FirstFrame(n, r) = FirstFrame(m, r)
                        /\ \E k \in 2 .. Len(l) : r = Extent(n, l[k])
  BY <1>5, HeapIs
<1>7. Regions = Members(l)
  BY <1>4, <1>6 DEF Regions
<1>8. HeapOwned(m, use, own) /\ Tree(m, use) /\ n.kernel = m.kernel /\ n.held = m.held
  BY <1>5 DEF Running, Good, Sound, Leaves, Alike
<1>9. ASSUME NEW f \in Regions, mem.region[f].next # NULL
      PROVE  /\ mem.region[mem.region[f].next].start >= End(mem.region[f])
             /\ mem.region[f].next \in mem.stale \/ mem.region[mem.region[f].next].prev = f
  <2>1. PICK k \in 1 .. Len(l) : f = l[k]
    BY <1>7 DEF Members
  <2>2. k # Len(l) /\ n.region[f].next = l[k + 1]
    BY <1>4, <1>6, <1>9, <2>1 DEF Chain
  <2>3. k + 1 \in 1 .. Len(l) /\ k + 1 \in 2 .. Len(l) /\ k < k + 1 /\ (k + 1) - 1 = k
    <3>1. PICK L \in Nat : L = Len(l)
      BY <1>6
    <3>2. k \in 1 .. L /\ k # L
      BY <2>2, <3>1
    <3>3. k + 1 \in 1 .. L /\ k + 1 \in 2 .. L /\ k < k + 1 /\ (k + 1) - 1 = k
      BY <3>1, <3>2
    <3> QED BY <3>1, <3>3
  <2>4. End(n.region[l[k]]) <= n.region[l[k + 1]].start
    BY <1>6, <2>3 DEF Chain
  <2>5. l[k + 1] \in n.stale \/ n.region[l[k + 1]].prev = l[k]
    BY <1>6, <2>3 DEF Chain
  <2>6. End(n.region[l[k]]) \in Nat /\ n.region[l[k + 1]].start \in Nat
    <3>1. l[k] \in Frame /\ l[k + 1] \in Frame
      <4>1. l \in Seq(Frame)
        BY <1>6 DEF Chain
      <4> QED BY <2>3, <4>1
    <3>2. n.region \in [Frame -> Region]
      BY <1>5 DEF Memory, MemoryRecord
    <3>3. n.region[l[k]] \in Region /\ n.region[l[k + 1]] \in Region
      BY <3>1, <3>2
    <3> QED BY <3>3 DEF Region, End
  <2>7. n.region[l[k + 1]].start >= End(n.region[l[k]])
    BY <2>4, <2>6
  <2> QED BY <1>4, <2>1, <2>2, <2>5, <2>7
<1>10. ASSUME NEW r \in owned
       PROVE  /\ \E f \in Regions : mem.region[f].start = r.start /\ mem.region[f].size = r.size
              /\ virt_to_phys(mem, mem.kernel, r.start) \in mem.held
  <2>1. r \in own /\ FirstFrame(n, r) = FirstFrame(m, r) /\ \E k \in 2 .. Len(l) : r = Extent(n, l[k])
    BY <1>4, <1>6
  <2>2. PICK k \in 2 .. Len(l) : r = Extent(n, l[k])
    BY <2>1
  <2>3. k \in 1 .. Len(l)
    BY <1>6
  <2>4. l[k] \in Regions
    BY <1>7, <2>3 DEF Members
  <2>5. n.region[l[k]].start = r.start /\ n.region[l[k]].size = r.size
    BY <2>2 DEF Extent
  <2>6. use[FirstFrame(m, r)] = HeapUse
    BY <1>8, <2>1 DEF HeapOwned
  <2>7. FirstFrame(m, r) \in Frame
    <3>1. r.start \in Nat
      BY <2>1, LowerVirt, VirtNat DEF Inv, TypeInv
    <3>2. m.kernel \in Frame
      BY DEF Memory, MemoryRecord
    <3> QED BY <3>1, <3>2, TranslatedType DEF FirstFrame
  <2>8. FirstFrame(m, r) \in m.held
    BY <1>8, <2>6, <2>7 DEF Tree, HeapUse
  <2>9. virt_to_phys(n, n.kernel, r.start) \in n.held
    BY <1>8, <2>1, <2>8 DEF FirstFrame
  <2> QED BY <1>4, <2>4, <2>5, <2>9
<1>11. ASSUME NEW r \in owned, NEW s \in owned,
              virt_to_phys(mem, mem.kernel, r.start) = virt_to_phys(mem, mem.kernel, s.start)
       PROVE  r = s
  <2>1. FirstFrame(m, r) = FirstFrame(m, s)
    BY <1>4, <1>6, <1>11 DEF FirstFrame
  <2> QED BY <1>4, <1>8, <2>1 DEF HeapOwned
<1> QED BY <1>9, <1>10, <1>11 DEF HeapSound

\* vma_alloc and vma_free keep the list of regions linked, ordered and without overlap,
\* and every region handed out in it, with a first page of its own.
THEOREM HeapKept == Spec => []HeapSound
BY Invariant, InvHeap, PTL

--------------------------------------------------------------------------------
(* What the processor makes of the tables, page by page *)

\* One digit more.
LEMMA Digit ==
    ASSUME NEW F \in Nat \ {0}, NEW G \in Nat \ {0}, NEW a \in 0 .. (G - 1), NEW d \in 0 .. (F - 1),
           NEW x, x = a * F + d
    PROVE  x \div F = a /\ x % F = d /\ x \in 0 .. (G * F - 1)
<1>1. x \in Nat /\ x \div F = a /\ x % F = d
  BY a \in Nat, d \in Nat, a * F \in Nat
<1>2. x <= G * F - 1
  <2>1. PICK c \in Nat : G = a + 1 + c
    <3>1. G - 1 - a \in Nat /\ G = a + 1 + (G - 1 - a)
      OBVIOUS
    <3> QED BY <3>1
  <2>2. G * F = a * F + F + c * F /\ c * F \in Nat /\ a * F \in Nat
    BY <2>1
  <2> QED BY <2>2
<1>3. G * F \in Nat
  OBVIOUS
<1> QED BY <1>1, <1>2, <1>3

\* A page from its four indices.
LEMMA Compose ==
    ASSUME NEW a \in Slots, NEW b \in Slots, NEW c \in Slots, NEW d \in Slots,
           NEW p, p = a * Fan + b, NEW q, q = p * Fan + c, NEW w, w = q * Fan + d
    PROVE  w \in Virt /\ Index(w, 4) = a /\ Index(w, 3) = b /\ Index(w, 2) = c /\ Index(w, 1) = d
<1>1. PICK F \in Nat \ {0} : F = Fan
  BY Constants
<1>2. a \in 0 .. (F - 1) /\ b \in 0 .. (F - 1) /\ c \in 0 .. (F - 1) /\ d \in 0 .. (F - 1)
  BY <1>1 DEF Slots
<1>3. PICK G \in Nat \ {0}, H \in Nat \ {0} : G = F * F /\ H = F * F * F
  OBVIOUS
<1>a. p = a * F + b /\ q = p * F + c /\ w = q * F + d
  BY <1>1
<1>4. p \div F = a /\ p % F = b /\ p \in 0 .. (F * F - 1)
  BY <1>2, <1>a, Digit
<1>5. p \in 0 .. (G - 1)
  BY <1>3, <1>4
<1>6. q \div F = p /\ q % F = c /\ q \in 0 .. (G * F - 1)
  BY <1>2, <1>5, <1>a, Digit
<1>7. q \in 0 .. (H - 1)
  BY <1>3, <1>6
<1>8. w \div F = q /\ w % F = d /\ w \in 0 .. (H * F - 1)
  BY <1>2, <1>7, <1>a, Digit
<1>9. w \in Virt /\ w \in Nat
  BY <1>1, <1>3, <1>8 DEF Virt
<1>10. w \div G = p
  <2>1. (w \div F) \div F = w \div (F * F)
    BY <1>9, DivDiv
  <2> QED BY <1>3, <1>6, <1>8, <2>1
<1>11. w \div H = a
  <2>1. (w \div G) \div F = w \div (G * F)
    BY <1>9, DivDiv
  <2> QED BY <1>3, <1>4, <1>10, <2>1
<1>12. a % F = a
  BY <1>2
<1>13. w \div 1 = w
  BY <1>9
<1>14. Index(w, 4) = (w \div H) % F /\ Index(w, 3) = (w \div G) % F /\ Index(w, 2) = (w \div F) % F
       /\ Index(w, 1) = (w \div 1) % F
  <2>1. Span(4) = H /\ Span(3) = G /\ Span(2) = F /\ Span(1) = 1
    BY <1>1, <1>3, Spans
  <2> QED BY <1>1, <2>1 DEF Index
<1> QED BY <1>4, <1>6, <1>8, <1>9, <1>10, <1>11, <1>12, <1>13, <1>14

\* A node of the walk, one level below another.
Below(m, n, i) == [virt |-> n.virt * Fan + i, to |-> m.table[n.to][i].to,
                   rights |-> Narrow(n.rights, m.table[n.to][i])]

\* The nodes one level down.
LEMMA LevelDown ==
    ASSUME NEW m, NEW nodes, NEW x
    PROVE  x \in OneLevelDown(m, nodes) <=>
              \E n \in nodes, i \in Slots : Present(m.table[n.to][i]) /\ x = Below(m, n, i)
<1>1. DOMAIN NoTable = Slots
  BY DEF NoTable, Slots
<1> QED BY <1>1 DEF OneLevelDown, Below

\* A page that is present is shown with its frame and its rights.
Shown(m, q, w) == [virt |-> w, to |-> View(m, q, w)[1], rights |-> View(m, q, w)[2]]

\* All four entries are present exactly when there are rights.
LEMMA RightsPresent ==
    ASSUME NEW m, NEW q, NEW w
    PROVE  /\ "P" \in View(m, q, w)[2] <=> Three(m, q, w) /\ Present(E1(m, q, w))
           /\ "P" \in View(m, q, w)[2] => Shown(m, q, w) =
                [virt |-> w, to |-> E1(m, q, w).to,
                 rights |-> Narrow(Narrow(Narrow(Narrow({"P", "W"}, E4(m, q, w)), E3(m, q, w)),
                                          E2(m, q, w)), E1(m, q, w))]
<1>1. PICK a, b, c, e : a = E4(m, q, w) /\ b = E3(m, q, w) /\ c = E2(m, q, w) /\ e = E1(m, q, w)
  OBVIOUS
<1>2. PICK R : R = Narrow(Narrow(Narrow(Narrow({"P", "W"}, a), b), c), e)
  OBVIOUS
<1>3. /\ ~Three(m, q, w) => View(m, q, w) = <<0, {}>>
      /\ Three(m, q, w) => View(m, q, w) = <<e.to, IF Present(e) THEN R ELSE {}>>
  BY <1>1, <1>2, ViewIs
<1>4. Present(a) /\ Present(b) /\ Present(c) /\ Present(e) => "P" \in R
  <2>1. "P" \in {"P", "W"}
    OBVIOUS
  <2>2. \A r, x : "P" \in r /\ Present(x) => "P" \in Narrow(r, x)
    BY <2>1 DEF Narrow, Present
  <2> QED BY <1>2, <2>1, <2>2
<1>5. Three(m, q, w) <=> Present(a) /\ Present(b) /\ Present(c)
  BY <1>1 DEF Three
<1>6. CASE Three(m, q, w) /\ Present(e)
  <2>1. View(m, q, w) = <<e.to, R>> /\ "P" \in R
    BY <1>3, <1>4, <1>5, <1>6
  <2> QED BY <1>1, <1>2, <1>6, <2>1 DEF Shown
<1>7. CASE ~(Three(m, q, w) /\ Present(e))
  <2>1. View(m, q, w)[2] = {}
    BY <1>3, <1>7
  <2> QED BY <1>1, <1>7, <2>1
<1> QED BY <1>6, <1>7

\* A node of a level and the indices that lead there.
LEMMA TranslationsAre ==
    ASSUME NEW P, NEW B, NEW m \in Memory(P, B), NEW q \in Frame, NEW x
    PROVE  x \in Translations(m, q) <=>
              \E w \in Virt : "P" \in View(m, q, w)[2] /\ x = Shown(m, q, w)
<1>0. Fan \in Nat /\ Slots \subseteq Nat
  BY Constants DEF Slots
<1>1. PICK top : top = [virt |-> 0, to |-> q, rights |-> {"P", "W"}]
  OBVIOUS
<1>2. PICK N4, N3, N2, N1 : /\ N4 = OneLevelDown(m, {top}) /\ N3 = OneLevelDown(m, N4)
                            /\ N2 = OneLevelDown(m, N3) /\ N1 = OneLevelDown(m, N2)
  OBVIOUS
<1>3. Translations(m, q) = N1
  BY <1>1, <1>2 DEF Translations
<1>4. \A y : y \in N4 <=> \E i \in Slots : Present(m.table[q][i]) /\ y = Below(m, top, i)
  <2> TAKE y
  <2>1. y \in N4 <=> \E n \in {top}, i \in Slots : Present(m.table[n.to][i]) /\ y = Below(m, n, i)
    BY <1>2, LevelDown
  <2>2. top.to = q
    BY <1>1
  <2> QED BY <2>1, <2>2
<1>5. \A y : y \in N3 <=> \E n \in N4, i \in Slots : Present(m.table[n.to][i]) /\ y = Below(m, n, i)
  BY <1>2, LevelDown
<1>6. \A y : y \in N2 <=> \E n \in N3, i \in Slots : Present(m.table[n.to][i]) /\ y = Below(m, n, i)
  BY <1>2, LevelDown
<1>7. \A y : y \in N1 <=> \E n \in N2, i \in Slots : Present(m.table[n.to][i]) /\ y = Below(m, n, i)
  BY <1>2, LevelDown
<1>8. ASSUME x \in N1
      PROVE  \E w \in Virt : "P" \in View(m, q, w)[2] /\ x = Shown(m, q, w)
  <2>1. PICK z \in N2, d \in Slots : Present(m.table[z.to][d]) /\ x = Below(m, z, d)
    BY <1>7, <1>8
  <2>2. PICK y \in N3, c \in Slots : Present(m.table[y.to][c]) /\ z = Below(m, y, c)
    BY <1>6
  <2>3. PICK n \in N4, b \in Slots : Present(m.table[n.to][b]) /\ y = Below(m, n, b)
    BY <1>5
  <2>4. PICK a \in Slots : Present(m.table[q][a]) /\ n = Below(m, top, a)
    BY <1>4
  <2>5. PICK e4 : e4 = m.table[q][a]
    OBVIOUS
  <2>6. PICK e3 : e3 = m.table[e4.to][b]
    OBVIOUS
  <2>7. PICK e2 : e2 = m.table[e3.to][c]
    OBVIOUS
  <2>8. PICK e1 : e1 = m.table[e2.to][d]
    OBVIOUS
  <2>9. n.virt = a /\ n.to = e4.to /\ n.rights = Narrow({"P", "W"}, e4)
    <3>1. 0 * Fan + a = a
      BY <1>0
    <3> QED BY <1>1, <2>4, <2>5, <3>1 DEF Below
  <2>10. PICK p : p = a * Fan + b
    OBVIOUS
  <2>11. y.virt = p /\ y.to = e3.to /\ y.rights = Narrow(Narrow({"P", "W"}, e4), e3)
    BY <2>3, <2>6, <2>9, <2>10 DEF Below
  <2>12. PICK r : r = p * Fan + c
    OBVIOUS
  <2>13. z.virt = r /\ z.to = e2.to /\ z.rights = Narrow(Narrow(Narrow({"P", "W"}, e4), e3), e2)
    BY <2>2, <2>7, <2>11, <2>12 DEF Below
  <2>14. PICK w : w = r * Fan + d
    OBVIOUS
  <2>15. x = [virt |-> w, to |-> e1.to,
              rights |-> Narrow(Narrow(Narrow(Narrow({"P", "W"}, e4), e3), e2), e1)]
    BY <2>1, <2>8, <2>13, <2>14 DEF Below
  <2>16. w \in Virt /\ Index(w, 4) = a /\ Index(w, 3) = b /\ Index(w, 2) = c /\ Index(w, 1) = d
    BY <2>10, <2>12, <2>14, Compose
  <2>17. E4(m, q, w) = e4
    BY <2>5, <2>16 DEF E4
  <2>18. E3(m, q, w) = e3
    BY <2>6, <2>16, <2>17 DEF E3
  <2>19. E2(m, q, w) = e2
    BY <2>7, <2>16, <2>18 DEF E2
  <2>20. E1(m, q, w) = e1
    BY <2>8, <2>16, <2>19 DEF E1
  <2>21. Present(e4) /\ Present(e3) /\ Present(e2) /\ Present(e1)
    BY <2>1, <2>2, <2>3, <2>4, <2>5, <2>6, <2>7, <2>8, <2>9, <2>11, <2>13
  <2>22. Three(m, q, w) /\ Present(E1(m, q, w))
    BY <2>17, <2>18, <2>19, <2>20, <2>21 DEF Three
  <2>23. "P" \in View(m, q, w)[2] /\ Shown(m, q, w) = x
    BY <2>15, <2>17, <2>18, <2>19, <2>20, <2>22, RightsPresent
  <2> QED BY <2>16, <2>23
<1>9. ASSUME NEW w \in Virt, "P" \in View(m, q, w)[2], x = Shown(m, q, w)
      PROVE  x \in N1
  <2>0. w \in Nat
    BY VirtNat
  <2>1. PICK a, b, c, d : a = Index(w, 4) /\ b = Index(w, 3) /\ c = Index(w, 2) /\ d = Index(w, 1)
    OBVIOUS
  <2>2. a \in Slots /\ b \in Slots /\ c \in Slots /\ d \in Slots
    <3>1. 1 \in 1 .. 4 /\ 2 \in 1 .. 4 /\ 3 \in 1 .. 4 /\ 4 \in 1 .. 4
      OBVIOUS
    <3> QED BY <2>0, <2>1, <3>1, IndexType
  <2>3. PICK p, r \in Nat : p = a * Fan + b /\ r = p * Fan + c /\ w = r * Fan + d
    BY <2>1, Digits
  <2>4. PICK e4, e3, e2, e1 : /\ e4 = E4(m, q, w) /\ e3 = E3(m, q, w)
                              /\ e2 = E2(m, q, w) /\ e1 = E1(m, q, w)
    OBVIOUS
  <2>5. e4 = m.table[q][a] /\ e3 = m.table[e4.to][b] /\ e2 = m.table[e3.to][c]
           /\ e1 = m.table[e2.to][d]
    BY <2>1, <2>4 DEF E4, E3, E2, E1
  <2>6. Present(e4) /\ Present(e3) /\ Present(e2) /\ Present(e1)
    BY <1>9, <2>4, RightsPresent DEF Three
  <2>7. x = [virt |-> w, to |-> e1.to,
             rights |-> Narrow(Narrow(Narrow(Narrow({"P", "W"}, e4), e3), e2), e1)]
    BY <1>9, <2>4, RightsPresent
  <2>8. PICK n : n = Below(m, top, a)
    OBVIOUS
  <2>9. n \in N4
    BY <1>4, <2>2, <2>5, <2>6, <2>8
  <2>10. n.virt = a /\ n.to = e4.to /\ n.rights = Narrow({"P", "W"}, e4)
    <3>1. 0 * Fan + a = a
      BY <1>0, <2>2
    <3> QED BY <1>1, <2>5, <2>8, <3>1 DEF Below
  <2>11. PICK y : y = Below(m, n, b)
    OBVIOUS
  <2>12. y \in N3
    BY <1>5, <2>2, <2>5, <2>6, <2>9, <2>10, <2>11
  <2>13. y.virt = p /\ y.to = e3.to /\ y.rights = Narrow(Narrow({"P", "W"}, e4), e3)
    BY <2>3, <2>5, <2>10, <2>11 DEF Below
  <2>14. PICK z : z = Below(m, y, c)
    OBVIOUS
  <2>15. z \in N2
    BY <1>6, <2>2, <2>5, <2>6, <2>12, <2>13, <2>14
  <2>16. z.virt = r /\ z.to = e2.to /\ z.rights = Narrow(Narrow(Narrow({"P", "W"}, e4), e3), e2)
    BY <2>3, <2>5, <2>13, <2>14 DEF Below
  <2>17. x = Below(m, z, d)
    BY <2>3, <2>5, <2>7, <2>16 DEF Below
  <2> QED BY <1>7, <2>2, <2>5, <2>6, <2>15, <2>16, <2>17
<1> QED BY <1>3, <1>8, <1>9

\* Pages seen alike through two page maps are translated alike.
LEMMA SeenAlike ==
    ASSUME NEW P, NEW B, NEW m \in Memory(P, B), NEW q \in Frame,
           NEW Q, NEW C, NEW n \in Memory(Q, C), NEW p \in Frame, NEW T,
           \A w \in Virt : w \notin T => View(n, p, w) = View(m, q, w)
    PROVE  Spaces!Outside(Translations(n, p), T) = Spaces!Outside(Translations(m, q), T)
<1>1. ASSUME NEW x PROVE x \in Translations(m, q) /\ x.virt \notin T
                           <=> x \in Translations(n, p) /\ x.virt \notin T
  <2>1. x \in Translations(m, q) <=> \E w \in Virt : "P" \in View(m, q, w)[2] /\ x = Shown(m, q, w)
    BY TranslationsAre
  <2>2. x \in Translations(n, p) <=> \E w \in Virt : "P" \in View(n, p, w)[2] /\ x = Shown(n, p, w)
    BY TranslationsAre
  <2>3. ASSUME NEW w \in Virt, x = Shown(m, q, w) \/ x = Shown(n, p, w) PROVE x.virt = w
    BY <2>3 DEF Shown
  <2>4. \A w \in Virt : w \notin T => Shown(m, q, w) = Shown(n, p, w)
    BY DEF Shown
  <2> QED BY <2>1, <2>2, <2>3, <2>4
<1> QED BY <1>1 DEF Spaces!Outside

\* So are all of them.
LEMMA SeenSame ==
    ASSUME NEW P, NEW B, NEW m \in Memory(P, B), NEW Q, NEW C, NEW n \in Memory(Q, C),
           NEW q \in Frame,
           \A w \in Virt : View(n, q, w) = View(m, q, w)
    PROVE  Translations(n, q) = Translations(m, q)
<1>1. ASSUME NEW x PROVE x \in Translations(m, q) <=> x \in Translations(n, q)
  <2>1. x \in Translations(m, q) <=> \E w \in Virt : "P" \in View(m, q, w)[2] /\ x = Shown(m, q, w)
    BY TranslationsAre
  <2>2. x \in Translations(n, q) <=> \E w \in Virt : "P" \in View(n, q, w)[2] /\ x = Shown(n, q, w)
    BY TranslationsAre
  <2>3. \A w \in Virt : Shown(m, q, w) = Shown(n, q, w)
    BY DEF Shown
  <2> QED BY <2>1, <2>2, <2>3
<1> QED BY <1>1

\* The spaces of the kernel and its processes.
SpaceOf(m, ps) ==
    [s \in 0 .. Len(ps) |-> Translations(m, IF s = 0 THEN m.kernel ELSE ps[s].pagemap)]

\* Views that are kept, as AddressSpace says it.
LEMMA KernelOnly ==
    ASSUME NEW P, NEW B, NEW m \in Memory(P, B), NEW Q, NEW C, NEW n \in Memory(Q, C),
           NEW ps \in Seq(Process), NEW ps2, Len(ps2) \in Nat, Len(ps) <= Len(ps2),
           \A k \in 1 .. Len(ps) : ps2[k] = ps[k],
           NEW S, NEW T, S \subseteq T, KeepsViews(m, n, ps, S),
           NEW t, t.space = SpaceOf(m, ps), NEW u, u.space = SpaceOf(n, ps2)
    PROVE  Spaces!OnlyKernel(t, u, T)
<1>1. Len(ps) \in Nat /\ m.kernel \in Frame /\ n.kernel \in Frame
  BY DEF Memory, MemoryRecord
<1>2. DOMAIN t.space = 0 .. Len(ps) /\ 0 \in 0 .. Len(ps) /\ 0 \in 0 .. Len(ps2)
  BY <1>1 DEF SpaceOf
<1>3. Spaces!Outside(u.space[0], T) = Spaces!Outside(t.space[0], T)
  <2>1. t.space[0] = Translations(m, m.kernel) /\ u.space[0] = Translations(n, n.kernel)
    BY <1>2 DEF SpaceOf
  <2>2. PICK q, p : q = m.kernel /\ p = n.kernel
    OBVIOUS
  <2>3. \A w \in Virt : w \notin T => View(n, p, w) = View(m, q, w)
    BY <2>2 DEF KeepsViews
  <2>4. Spaces!Outside(Translations(n, p), T) = Spaces!Outside(Translations(m, q), T)
    BY <1>1, <2>2, <2>3, SeenAlike
  <2> QED BY <2>1, <2>2, <2>4
<1>4. ASSUME NEW s \in 0 .. Len(ps), s # 0 PROVE u.space[s] = t.space[s]
  <2>1. s \in 1 .. Len(ps) /\ s \in 0 .. Len(ps2)
    BY <1>1, <1>4
  <2>2. PICK q : q = ps[s].pagemap
    OBVIOUS
  <2>3. q \in Frame
    <3>1. ps[s] \in Process
      BY <2>1
    <3> QED BY <2>2, <3>1 DEF Process
  <2>4. t.space[s] = Translations(m, q) /\ u.space[s] = Translations(n, q)
    BY <1>4, <2>1, <2>2 DEF SpaceOf
  <2>5. \A w \in Virt : View(n, q, w) = View(m, q, w)
    BY <2>1, <2>2 DEF KeepsViews
  <2>6. Translations(n, q) = Translations(m, q)
    BY <2>3, <2>5, SeenSame
  <2> QED BY <2>4, <2>6
<1> QED BY <1>2, <1>3, <1>4 DEF Spaces!OnlyKernel

\* The pages of a region.
LEMMA PagesAre ==
    ASSUME NEW r
    PROVE  Spaces!Pages(r) = PagesOf(r)
BY DEF Spaces!Pages, PagesOf

\* Where an allocation changes what is seen.
LEMMA EffectPages ==
    ASSUME NEW m, NEW n, NEW ps, NEW own, NEW own2, AllocEffect(m, n, ps, own, own2),
           NEW t, t.owned = own
    PROVE  \E S : /\ KeepsViews(m, n, ps, S) /\ S \subseteq Lower \ Spaces!OwnedPages(t)
                  /\ \/ own2 = own
                     \/ \E r \in own2 \ own : own2 = own \cup {r} /\ S = Spaces!Pages(r)
<1>1. Spaces!OwnedPages(t) = UNION {PagesOf(r) : r \in own}
  BY PagesAre DEF Spaces!OwnedPages
<1>2. CASE own2 = own /\ KeepsViews(m, n, ps, {})
  <2>1. {} \subseteq Lower \ Spaces!OwnedPages(t)
    OBVIOUS
  <2> QED BY <1>2, <2>1
<1>3. ASSUME NEW reg \in own2 \ own, own2 = own \cup {reg}, PagesOf(reg) \subseteq Lower,
             \A x \in own : PagesOf(x) \cap PagesOf(reg) = {}, KeepsViews(m, n, ps, PagesOf(reg))
      PROVE  \E S : /\ KeepsViews(m, n, ps, S) /\ S \subseteq Lower \ Spaces!OwnedPages(t)
                    /\ \/ own2 = own
                       \/ \E r \in own2 \ own : own2 = own \cup {r} /\ S = Spaces!Pages(r)
  <2>1. PICK S : S = PagesOf(reg)
    OBVIOUS
  <2>2. S \subseteq Lower \ Spaces!OwnedPages(t)
    BY <1>1, <1>3, <2>1
  <2>3. S = Spaces!Pages(reg) /\ KeepsViews(m, n, ps, S)
    BY <1>3, <2>1, PagesAre
  <2> QED BY <1>3, <2>2, <2>3
<1> QED BY <1>2, <1>3 DEF AllocEffect

\* An allocation, done or failed.
LEMMA AllocShown ==
    ASSUME NEW P, NEW B, NEW m \in Memory(P, B), NEW Q, NEW C, NEW n \in Memory(Q, C),
           NEW ps \in Seq(Process), NEW own, NEW own2, AllocEffect(m, n, ps, own, own2),
           NEW t, t.space = SpaceOf(m, ps), t.owned = own,
           NEW u, u.space = SpaceOf(n, ps), u.owned = own2
    PROVE  Spaces!Alloc(t, u) \/ Spaces!AllocFails(t, u)
<1>1. PICK S : /\ KeepsViews(m, n, ps, S) /\ S \subseteq Lower \ Spaces!OwnedPages(t)
               /\ \/ own2 = own
                  \/ \E r \in own2 \ own : own2 = own \cup {r} /\ S = Spaces!Pages(r)
  BY EffectPages
<1>2. Len(ps) \in Nat /\ Len(ps) <= Len(ps) /\ \A k \in 1 .. Len(ps) : ps[k] = ps[k]
  OBVIOUS
<1>3. DOMAIN u.space = DOMAIN t.space
  BY DEF SpaceOf
<1>4. CASE own2 = own
  <2>1. PICK T : T = Lower \ Spaces!OwnedPages(t)
    OBVIOUS
  <2>2. Spaces!OnlyKernel(t, u, T)
    BY <1>1, <1>2, <2>1, KernelOnly
  <2> QED BY <1>3, <1>4, <2>1, <2>2 DEF Spaces!AllocFails
<1>5. CASE \E r \in own2 \ own : own2 = own \cup {r} /\ S = Spaces!Pages(r)
  <2>1. PICK r \in own2 \ own : own2 = own \cup {r} /\ S = Spaces!Pages(r)
    BY <1>5
  <2>2. S \subseteq S
    OBVIOUS
  <2>3. Spaces!OnlyKernel(t, u, S)
    BY <1>1, <1>2, <2>2, KernelOnly
  <2> QED BY <1>1, <1>3, <2>1, <2>3 DEF Spaces!Alloc
<1> QED BY <1>1, <1>4, <1>5

\* A new process.
LEMMA CreateShown ==
    ASSUME NEW B, NEW m \in Memory(Frame, B), NEW C, NEW n \in Memory(Frame, C),
           NEW ps \in Seq(Process), NEW own, NEW own2, AllocEffect(m, n, ps, own, own2),
           NEW pr, NEW ps2 \in Seq(Process), ps2 = Append(ps, pr), NEW use, NEW l,
           Running(n, use, l, own2, ps2),
           NEW t, t.space = SpaceOf(m, ps), t.owned = own,
           NEW u, u.space = SpaceOf(n, ps2), u.owned = own2
    PROVE  Spaces!Create(t, u)
<1>1. PICK S : /\ KeepsViews(m, n, ps, S) /\ S \subseteq Lower \ Spaces!OwnedPages(t)
               /\ \/ own2 = own
                  \/ \E r \in own2 \ own : own2 = own \cup {r} /\ S = Spaces!Pages(r)
  BY EffectPages
<1>2. PICK N \in Nat : N = Len(ps)
  OBVIOUS
<1>3. Len(ps2) = N + 1 /\ Len(ps2) \in Nat /\ Len(ps) <= Len(ps2)
         /\ \A k \in 1 .. Len(ps) : ps2[k] = ps[k]
  BY <1>2
<1>4. PICK T : T = Lower \ Spaces!OwnedPages(t)
  OBVIOUS
<1>5. Spaces!OnlyKernel(t, u, T)
  BY <1>1, <1>3, <1>4, KernelOnly
<1>6. /\ DOMAIN t.space = 0 .. N /\ DOMAIN u.space = 0 .. (N + 1) /\ 0 \in 0 .. N
      /\ N + 1 \in (0 .. (N + 1)) \ (0 .. N) /\ 0 .. (N + 1) = (0 .. N) \cup {N + 1}
  BY <1>2, <1>3 DEF SpaceOf
<1>7. own \subseteq own2
  BY <1>1
<1>8. Spaces!Outside(u.space[N + 1], Lower) = Spaces!Outside(t.space[0], Lower)
  <2>1. PICK q, k : q = ps2[N + 1].pagemap /\ k = m.kernel
    OBVIOUS
  <2>2. u.space[N + 1] = Translations(n, q) /\ t.space[0] = Translations(m, k)
    <3>1. N + 1 # 0 /\ N + 1 \in 0 .. Len(ps2) /\ 0 \in 0 .. Len(ps)
      BY <1>2, <1>3
    <3> QED BY <2>1, <3>1 DEF SpaceOf
  <2>3. q \in MapsOf(ps2) /\ N + 1 \in 1 .. Len(ps2)
    BY <1>3, <2>1 DEF MapsOf
  <2>4. Tree(n, use) /\ q \in Frame /\ use[q] = 4
    BY <2>3 DEF Running, Good, Sound, MapsOwned
  <2>5. k \in Frame
    BY <2>1 DEF Memory, MemoryRecord
  <2>6. \A w \in Virt : w \notin Lower => View(n, q, w) = View(m, k, w)
    <3> SUFFICES ASSUME NEW w \in Virt, w \notin Lower PROVE View(n, q, w) = View(m, k, w)
      OBVIOUS
    <3>1. View(n, q, w) = View(n, n.kernel, w)
      BY <2>4, UpperShared
    <3>2. View(n, n.kernel, w) = View(m, m.kernel, w)
      BY <1>1 DEF KeepsViews
    <3> QED BY <2>1, <3>1, <3>2
  <2>7. Spaces!Outside(Translations(n, q), Lower) = Spaces!Outside(Translations(m, k), Lower)
    BY <2>4, <2>5, <2>6, SeenAlike
  <2> QED BY <2>2, <2>7
<1>9. \E s \in DOMAIN u.space \ DOMAIN t.space :
          /\ DOMAIN u.space = DOMAIN t.space \cup {s}
          /\ Spaces!Outside(u.space[s], Lower) = Spaces!Outside(t.space[0], Lower)
  BY <1>6, <1>8
<1> QED BY <1>4, <1>5, <1>6, <1>7, <1>9 DEF Spaces!Create

\* The view that AddressSpace is about.
ViewNow ==
    [space |-> IF pc \notin {"run", "user"} THEN << >>
               ELSE [s \in 0 .. Len(procs) |->
                       Translations(mem, IF s = 0 THEN mem.kernel
                                         ELSE procs[s].pagemap)],
     owned |-> owned, broken |-> ~Sane]

ShowsNow(t) ==
    /\ t.space = (IF pc \notin {"run", "user"} THEN << >> ELSE SpaceOf(mem, procs))
    /\ t.owned = owned /\ (t.broken <=> Wild(mem))

\* Its parts.
LEMMA NowIs == ShowsNow(ViewNow)
<1>1. /\ ViewNow.space = (IF pc \notin {"run", "user"} THEN << >> ELSE SpaceOf(mem, procs))
      /\ ViewNow.owned = owned
  BY DEF ViewNow, SpaceOf
<1>2. ViewNow.broken = ~Sane
  BY Zenon DEF ViewNow
<1>3. ViewNow.broken <=> Wild(mem)
  BY <1>2, Zenon DEF Sane
<1> QED BY <1>1, <1>3 DEF ShowsNow

\* Nothing is seen of a step that leaves these alone.
LEMMA NowSame ==
    ASSUME \/ pc \notin {"run", "user"} /\ pc' \notin {"run", "user"}
           \/ /\ pc \in {"run", "user"} /\ pc' \in {"run", "user"} /\ Len(procs') = Len(procs)
              /\ \A k \in 1 .. Len(procs) : procs'[k].pagemap = procs[k].pagemap
              /\ mem'.kernel = mem.kernel /\ mem'.table = mem.table,
           owned' = owned, ~Wild(mem), ~Wild(mem'), Len(procs) \in Nat
    PROVE  ViewNow' = ViewNow
<1>1. Sane /\ Sane'
  BY DEF Sane
<1>2. CASE pc \notin {"run", "user"} /\ pc' \notin {"run", "user"}
  BY <1>1, <1>2 DEF ViewNow
<1>3. CASE /\ pc \in {"run", "user"} /\ pc' \in {"run", "user"} /\ Len(procs') = Len(procs)
           /\ \A k \in 1 .. Len(procs) : procs'[k].pagemap = procs[k].pagemap
           /\ mem'.kernel = mem.kernel /\ mem'.table = mem.table
  <2>1. \A q : Translations(mem', q) = Translations(mem, q)
    BY <1>3 DEF Translations, OneLevelDown
  <2>2. \A s \in 0 .. Len(procs) : Translations(mem', IF s = 0 THEN mem'.kernel ELSE procs'[s].pagemap)
                                     = Translations(mem, IF s = 0 THEN mem.kernel ELSE procs[s].pagemap)
    <3> TAKE s \in 0 .. Len(procs)
    <3>1. CASE s = 0
      BY <1>3, <2>1, <3>1
    <3>2. CASE s # 0
      <4>1. s \in 1 .. Len(procs)
        BY <3>2
      <4> QED BY <1>3, <2>1, <3>2, <4>1
    <3> QED BY <3>1, <3>2
  <2>3. SpaceOf(mem, procs)' = SpaceOf(mem, procs)
    BY <1>3, <2>2 DEF SpaceOf
  <2> QED BY <1>1, <1>3, <2>3 DEF ViewNow, SpaceOf
<1> QED BY <1>2, <1>3

\* The state after a call.
LEMMA CalledState ==
    ASSUME Inv, Inv', NEW w \in 1 .. 2, Call(w)
    PROVE  /\ pc = "run" /\ pc' = "run" /\ ~Wild(mem) /\ procs \in Seq(Process)
                /\ procs' \in Seq(Process)
           /\ mem \in Memory(Frame, Bound(pc, calls)) /\ mem' \in Memory(Frame, Bound(pc', calls'))
           /\ ~Wild(mem') => \E use, l : Running(mem', use, l, owned', procs')
<1>1. pc = "run" /\ pc' = "run" /\ ~Wild(mem)
  BY DEF Call
<1>2. /\ procs \in Seq(Process) /\ procs' \in Seq(Process)
      /\ mem \in Memory(Frame, Bound(pc, calls)) /\ mem' \in Memory(Frame, Bound(pc', calls'))
  BY <1>1 DEF Inv, TypeInv
<1>3. ~Wild(mem') => \E use, l : Running(mem', use, l, owned', procs')
  BY <1>1 DEF Inv, UsersInv
<1> QED BY <1>1, <1>2, <1>3

\* Every step of the kernel is one of address spaces, or nothing of it is seen.
LEMMA StepShown ==
    ASSUME Inv, Inv', [Next]_vars
    PROVE  Spaces!Step(ViewNow, ViewNow') \/ ViewNow' = ViewNow
<1>1. PICK t, u : t = ViewNow /\ u = ViewNow'
  OBVIOUS
<1>2. /\ t.space = (IF pc \notin {"run", "user"} THEN << >> ELSE SpaceOf(mem, procs))
      /\ t.owned = owned /\ (t.broken <=> Wild(mem))
  BY <1>1, NowIs DEF ShowsNow
<1>3. /\ u.space = (IF pc' \notin {"run", "user"} THEN << >> ELSE SpaceOf(mem', procs'))
      /\ u.owned = owned' /\ (u.broken <=> Wild(mem'))
  <2>1. ShowsNow(ViewNow)'
    BY NowIs, PTL
  <2> QED BY <1>1, <2>1 DEF ShowsNow
<1>4. CASE Wild(mem')
  BY <1>1, <1>3, <1>4 DEF Spaces!Step
<1>5. CASE ~Wild(mem')
  <2>0. procs \in Seq(Process) /\ Len(procs) \in Nat
    BY DEF Inv, TypeInv
  <2>1. CASE MapSections \/ MapDirect \/ CreateContext
    <3>1. ~Wild(mem) /\ pc \notin {"run", "user"} /\ pc' \notin {"run", "user"} /\ owned' = owned
      BY <2>1 DEF MapSections, MapDirect, CreateContext, BootStep
    <3> QED BY <1>5, <2>0, <3>1, NowSame
  <2>2. CASE TestVmm
    <3>1. ~Wild(mem) /\ pc = "test" /\ pc' = "run" /\ owned' = owned /\ procs' = procs
      BY <2>2 DEF TestVmm, BootStep
    <3>2. procs' = << >> /\ Len(procs') = 0
      BY <3>1 DEF Inv, TypeInv
    <3>3. t.space = << >> /\ u.space = SpaceOf(mem', procs') /\ u.owned = t.owned /\ ~t.broken
      BY <1>2, <1>3, <3>1
    <3>4. DOMAIN u.space = {0}
      <4>1. 0 .. Len(procs') = {0}
        BY <3>2
      <4>2. DOMAIN u.space = 0 .. Len(procs')
        BY <3>3 DEF SpaceOf
      <4> QED BY <4>1, <4>2
    <3>5. Spaces!Boot(t, u)
      BY <3>3, <3>4 DEF Spaces!Boot
    <3> QED BY <1>1, <3>3, <3>5 DEF Spaces!Step
  <2>3. ASSUME NEW w \in 1 .. 2, Call(w), procs' = procs, AllocEffect(mem, mem', procs, owned, owned')
        PROVE  Spaces!Step(t, u)
    <3>1. PICK m, n, ps, own, own2, B, C : /\ m = mem /\ n = mem' /\ ps = procs /\ own = owned
                                           /\ own2 = owned' /\ B = Bound(pc, calls)
                                                /\ C = Bound(pc', calls')
      OBVIOUS
    <3>2. /\ pc = "run" /\ pc' = "run" /\ ~Wild(m) /\ ps \in Seq(Process)
          /\ m \in Memory(Frame, B) /\ n \in Memory(Frame, C)
      BY <2>3, <3>1, CalledState
    <3>3. /\ t.space = SpaceOf(m, ps) /\ t.owned = own /\ ~t.broken
          /\ u.space = SpaceOf(n, ps) /\ u.owned = own2
      BY <1>2, <1>3, <2>3, <3>1, <3>2
    <3>4. AllocEffect(m, n, ps, own, own2)
      BY <2>3, <3>1
    <3>5. Spaces!Alloc(t, u) \/ Spaces!AllocFails(t, u)
      BY <3>2, <3>3, <3>4, AllocShown
    <3> QED BY <3>3, <3>5 DEF Spaces!Step
  <2>4. ASSUME NEW pages \in HeapSizes, liballoc_alloc(pages) PROVE Spaces!Step(t, u)
    <3>1. Call(1) /\ procs' = procs /\ 1 \in 1 .. 2
      BY <2>4 DEF liballoc_alloc
    <3>2. AllocEffect(mem, mem', procs, owned, owned')
      BY <1>5, <2>4, AllocInv
    <3> QED BY <2>3, <3>1, <3>2
  <2>5. ASSUME NEW reg \in owned, liballoc_free(reg) PROVE Spaces!Step(t, u)
    <3>1. Call(1) /\ procs' = procs /\ owned' = owned \ {reg} /\ 1 \in 1 .. 2
      BY <2>5 DEF liballoc_free
    <3>2. KeepsViews(mem, mem', procs, PagesOf(reg))
      BY <1>5, <2>5, FreeInv
    <3>3. PICK m, n, ps, B, C, S : /\ m = mem /\ n = mem' /\ ps = procs
                                   /\ B = Bound(pc, calls) /\ C = Bound(pc', calls')
                                        /\ S = PagesOf(reg)
      OBVIOUS
    <3>4. /\ pc = "run" /\ pc' = "run" /\ ~Wild(m) /\ ps \in Seq(Process)
          /\ m \in Memory(Frame, B) /\ n \in Memory(Frame, C)
      BY <3>1, <3>3, CalledState
    <3>5. /\ t.space = SpaceOf(m, ps) /\ t.owned = owned /\ ~t.broken
          /\ u.space = SpaceOf(n, ps) /\ u.owned = owned \ {reg}
      BY <1>2, <1>3, <3>1, <3>3, <3>4
    <3>6. Len(ps) \in Nat /\ Len(ps) <= Len(ps) /\ (\A k \in 1 .. Len(ps) : ps[k] = ps[k])
          /\ S \subseteq S /\ KeepsViews(m, n, ps, S)
      BY <3>2, <3>3, <3>4
    <3>7. Spaces!OnlyKernel(t, u, S)
      BY <3>4, <3>5, <3>6, KernelOnly
    <3>8. S = Spaces!Pages(reg) /\ DOMAIN u.space = DOMAIN t.space /\ reg \in t.owned \ u.owned
      BY <3>3, <3>5, PagesAre DEF SpaceOf
    <3>9. Spaces!Free(t, u)
      BY <3>5, <3>7, <3>8 DEF Spaces!Free
    <3> QED BY <3>5, <3>9 DEF Spaces!Step
  <2>6. ASSUME Call(2), NEW pr, procs' = Append(procs, pr),
               AllocEffect(mem, mem', procs, owned, owned')
        PROVE  Spaces!Step(t, u)
    <3>1. PICK m, n, ps, ps2, own, own2, B, C : /\ m = mem /\ n = mem' /\ ps = procs
                                                     /\ ps2 = procs' /\ own = owned
                                                /\ own2 = owned' /\ B = Bound(pc, calls)
                                                     /\ C = Bound(pc', calls')
      OBVIOUS
    <3>2. 2 \in 1 .. 2
      OBVIOUS
    <3>3. /\ pc = "run" /\ pc' = "run" /\ ~Wild(m) /\ ps \in Seq(Process) /\ ps2 \in Seq(Process)
          /\ m \in Memory(Frame, B) /\ n \in Memory(Frame, C)
          /\ ~Wild(n) => \E use, l : Running(n, use, l, own2, ps2)
      BY <2>6, <3>1, <3>2, CalledState
    <3>4. PICK use, l : Running(n, use, l, own2, ps2)
      BY <1>5, <3>1, <3>3
    <3>5. /\ t.space = SpaceOf(m, ps) /\ t.owned = own /\ ~t.broken
          /\ u.space = SpaceOf(n, ps2) /\ u.owned = own2
      BY <1>2, <1>3, <3>1, <3>3
    <3>6. AllocEffect(m, n, ps, own, own2) /\ ps2 = Append(ps, pr)
      BY <2>6, <3>1
    <3>7. Spaces!Create(t, u)
      BY <3>3, <3>4, <3>5, <3>6, CreateShown
    <3> QED BY <3>5, <3>7 DEF Spaces!Step
  <2>7. CASE scheduler_create_process
    <3>1. Call(2)
      BY <2>7 DEF scheduler_create_process
    <3>2. /\ owned' = owned /\ (\E pr : procs' = Append(procs, pr))
               /\ KeepsViews(mem, mem', procs, {})
      BY <1>5, <2>7, ThreadInv
    <3>3. AllocEffect(mem, mem', procs, owned, owned')
      BY <3>2 DEF AllocEffect
    <3> QED BY <1>1, <2>6, <3>1, <3>2, <3>3
  <2>8. ASSUME NEW image \in Images, NEW pages \in BufferSizes \cup {0},
               scheduler_create_elf_process(image, pages)
        PROVE  Spaces!Step(t, u)
    <3>1. Call(2) /\ 2 \in 1 .. 2
      BY <2>8 DEF scheduler_create_elf_process
    <3>2. /\ procs' = procs \/ \E pr : procs' = Append(procs, pr)
          /\ AllocEffect(mem, mem', procs, owned, owned')
      BY <1>5, <2>8, ElfInv
    <3> QED BY <2>3, <2>6, <3>1, <3>2
  <2>9. CASE Dispatch \/ Done \/ UNCHANGED vars
    <3>1. mem' = mem /\ procs' = procs /\ owned' = owned
      BY <2>9 DEF Dispatch, Done, vars
    <3>2. pc' = pc \/ (pc = "run" /\ pc' = "user")
      BY <2>9 DEF Dispatch, Done, vars
    <3> QED BY <1>5, <2>0, <3>1, <3>2, NowSame
  <2>10. ASSUME NEW k \in DOMAIN procs, Exit(k) PROVE ViewNow' = ViewNow
    <3>1. pc = "user" /\ pc' = "user" /\ owned' = owned
      BY <2>10 DEF Exit
    <3>2. /\ SameProcs(procs, procs') /\ Len(procs) \in Nat /\ ~Wild(mem) /\ ~Wild(mem')
          /\ mem'.table = mem.table /\ mem'.kernel = mem.kernel
      BY <2>10, ExitInv
    <3> QED BY <3>1, <3>2, NowSame DEF SameProcs
  <2> QED BY <1>1, <2>1, <2>2, <2>4, <2>5, <2>7, <2>8, <2>9, <2>10 DEF Next
<1> QED BY <1>4, <1>5

\* vmm_map, vmm_unmap and vmm_destroy_pagemap, called on one page map, change no
\* translation of another, nor one of a heap region of another owner: the detailed
\* specification implements AddressSpace.
THEOREM Isolated == Spec => IsAddressSpace
<1>1. Init => Spaces!Init
  <2> SUFFICES ASSUME Init PROVE Spaces!Init
    OBVIOUS
  <2>1. pc = "vmm" /\ owned = {} /\ \E ram \in RamSizes : mem = FreshMemory(ram)
    BY DEF Init
  <2>2. Sane
    BY <2>1 DEF Sane, Wild, FreshMemory
  <2>3. ViewNow = [space |-> << >>, owned |-> {}, broken |-> FALSE]
    BY <2>1, <2>2 DEF ViewNow
  <2> QED BY <2>3 DEF Spaces!Init, ViewNow
<1>2. Inv /\ Inv' /\ [Next]_vars =>
        [Spaces!Next]_([space |-> IF pc \notin {"run", "user"} THEN << >>
                                  ELSE [s \in 0 .. Len(procs) |->
                                          Translations(mem, IF s = 0 THEN mem.kernel
                                                            ELSE procs[s].pagemap)],
                        owned |-> owned, broken |-> ~Sane])
  BY StepShown DEF Spaces!Next, ViewNow
<1> QED BY <1>1, <1>2, Invariant, PTL DEF Spec, IsAddressSpace, Spaces!Spec

--------------------------------------------------------------------------------
(* The images of the processes *)

\* An image whose program headers share no page has each page once.
LEMMA SeparateDistinct ==
    ASSUME NEW image \in Images \cup {KernelThread}, Separate(image), NEW t, t = LoadOrder(image)
    PROVE  Distinct(t)
<1>1. t \in Seq(LoadItem) /\ Len(t) \in Nat
  <2>1. Proper(image)
    BY ImageProper
  <2> QED BY <2>1, ProperOrder
<1>2. PICK N \in Nat : N = Len(t)
  BY <1>1
<1>3. DOMAIN t = 1 .. N
  BY <1>1, <1>2
<1>4. PICK g : g = [k \in 1 .. N |-> t[k].page]
  OBVIOUS
<1>5. PICK S : S = ImagePages(image)
  OBVIOUS
<1>6. S = {t[k].page : k \in 1 .. N}
  BY <1>3, <1>5 DEF ImagePages, Range
<1>7. g \in Surjection(1 .. N, S)
  BY <1>4, <1>6 DEF Surjection
<1>8. IsFiniteSet(1 .. N) /\ Cardinality(1 .. N) = N
  <2>1. 1 \in Int /\ N \in Int /\ (IF 1 > N THEN 0 ELSE N - 1 + 1) = N
    OBVIOUS
  <2> QED BY <2>1, FS_Interval
<1>9. Cardinality(S) = N
  BY <1>2, <1>5 DEF Separate
<1>10. g \in Injection(1 .. N, S)
  BY <1>7, <1>8, <1>9, FS_SurjSameCardinalityImpliesInj
<1>11. \A j, k \in 1 .. N : g[j] = g[k] => j = k
  BY <1>10 DEF Injection, IsInjective
<1> QED BY <1>2, <1>4, <1>11 DEF Distinct

\* Where byte o of an aligned segment is.
LEMMA BytePlace ==
    ASSUME NEW ph \in ProgramHeader, ph.vaddr % PAGE_SIZE = 0, NEW o \in 0 .. (ph.memsz - 1),
           NEW page, page = (ph.vaddr + o) \div PAGE_SIZE, NEW b, b = (ph.vaddr + o) % PAGE_SIZE
    PROVE  /\ page \in FirstPage(ph) .. LastPage(ph) /\ b \in 0 .. (PAGE_SIZE - 1)
           /\ (page - FirstPage(ph)) * PAGE_SIZE + b = o /\ page \in Nat
<1>1. PICK F \in Nat \ {0} : F = PAGE_SIZE
  BY Constants
<1>2. /\ ph.vaddr \in Nat /\ ph.memsz \in Nat /\ FirstPage(ph) = ph.vaddr \div F
      /\ LastPage(ph) + 1 = (ph.vaddr + ph.memsz + F - 1) \div F
           /\ LastPage(ph) - FirstPage(ph) + 1 \in Nat
      /\ FirstPage(ph) \in Nat
  BY <1>1, SegmentBounds
<1>a. LastPage(ph) \in Int
  <2>1. PICK x : x = ALIGN_UP(ph.vaddr + ph.memsz)
    OBVIOUS
  <2>2. PICK y \in Nat : y = ph.vaddr + ph.memsz
    BY <1>2
  <2>3. y + F - 1 \in Int /\ (y + F - 1) % F \in Int
    OBVIOUS
  <2>4. x \in Int
    BY <1>1, <2>1, <2>2, <2>3 DEF ALIGN_UP, ALIGN_DOWN
  <2>5. x \div F \in Int
    BY <2>4
  <2>6. LastPage(ph) = x \div F - 1
    BY <1>1, <2>1 DEF LastPage
  <2> QED BY <2>5, <2>6
<1>3. PICK v \in Nat, z \in Nat, first \in Nat : v = ph.vaddr /\ z = ph.memsz /\ first = FirstPage(ph)
  BY <1>2
<1>4. v = first * F
  <2>1. v % F = 0 /\ first = v \div F
    BY <1>1, <1>2, <1>3
  <2>2. v = (v \div F) * F + (v % F) /\ v \div F \in Nat
    OBVIOUS
  <2>3. first * F \in Nat
    OBVIOUS
  <2> QED BY <2>1, <2>2, <2>3
<1>5. o \in Nat /\ o <= z - 1
  BY <1>3
<1>6. PICK q \in Nat, r \in 0 .. (F - 1) : o = q * F + r
  <2>1. o \div F \in Nat /\ o % F \in 0 .. (F - 1) /\ o = (o \div F) * F + (o % F)
    BY <1>5
  <2> QED BY <2>1
<1>7. v + o = (first + q) * F + r
  BY <1>4, <1>6
<1>8. PICK a \in Nat : a = first + q
  BY <1>3
<1>9. v + o = a * F + r
  BY <1>7, <1>8
<1>10. (v + o) \div F = a /\ (v + o) % F = r
  BY <1>9
<1>11. page = a /\ b = r
  BY <1>1, <1>3, <1>10
<1>12. page - first = q
  BY <1>8, <1>11
<1>13. a <= LastPage(ph)
  <2>1. PICK y \in Nat : y = v + z + F - 1
    <3>1. v + z + F - 1 \in Nat
      BY <1>3
    <3> QED BY <3>1
  <2>2. PICK c \in Nat : y = v + o + F + c
    <3>1. y - (v + o + F) \in Nat
      BY <1>3, <1>5, <2>1
    <3>2. y = v + o + F + (y - (v + o + F))
      BY <1>5, <2>1
    <3> QED BY <3>1, <3>2
  <2>3. y = (a + 1) * F + (r + c)
    <3>1. (a + 1) * F = a * F + F /\ a * F \in Nat
      OBVIOUS
    <3> QED BY <1>9, <2>2, <3>1
  <2>4. PICK d \in Nat, s \in 0 .. (F - 1) : y = d * F + s /\ d = y \div F
    <3>1. y \div F \in Nat /\ y % F \in 0 .. (F - 1) /\ y = (y \div F) * F + (y % F)
      OBVIOUS
    <3> QED BY <3>1
  <2>5. a + 1 <= d
    <3>1. CASE d <= a
      <4>1. PICK e \in Nat : a = d + e
        <5>1. a - d \in Nat
          BY <3>1
        <5> QED BY <5>1
      <4>2. (a + 1) * F = d * F + e * F + F /\ e * F \in Nat /\ d * F \in Nat
        BY <4>1
      <4>3. y >= d * F + F
        BY <2>3, <4>2
      <4> QED BY <2>4, <4>2, <4>3
    <3> QED BY <3>1
  <2>6. LastPage(ph) + 1 = d /\ LastPage(ph) \in Int
    BY <1>2, <1>3, <1>a, <2>1, <2>4
  <2> QED BY <2>5, <2>6
<1>14. page \in FirstPage(ph) .. LastPage(ph)
  <2>1. first <= a
    BY <1>8
  <2> QED BY <1>3, <1>11, <1>13, <1>a, <2>1
<1>15. b \in 0 .. (PAGE_SIZE - 1) /\ page \in Nat
  BY <1>1, <1>11
<1>16. (page - FirstPage(ph)) * PAGE_SIZE + b = o
  BY <1>1, <1>3, <1>6, <1>11, <1>12
<1> QED BY <1>14, <1>15, <1>16

\* The bytes of a process, when its image is loaded and its pages are its own.
LEMMA BytesLoaded ==
    ASSUME NEW m, NEW p \in Process, ImageLoaded(m, p), Aligned(p.image), Separate(p.image),
           NEW h \in DOMAIN p.image.headers, NEW ph, ph = p.image.headers[h], ph.type = "PT_LOAD",
           NEW o \in 0 .. (ph.memsz - 1)
    PROVE  m.data[virt_to_phys(m, p.pagemap, (ph.vaddr + o) \div PAGE_SIZE)][(ph.vaddr + o) % PAGE_SIZE]
              = IF o < ph.filesz THEN ph.offset + o + 1 ELSE 0
<1>1. PICK image \in Images \cup {KernelThread} : image = p.image
  BY DEF Process
<1>2. PICK t : t = LoadOrder(image)
  OBVIOUS
<1>3. Distinct(t)
  BY <1>1, <1>2, SeparateDistinct
<1>4. image.headers \in Seq(ProgramHeader)
  BY ImageProper DEF Proper
<1>5. h \in 1 .. Len(image.headers) /\ ph \in ProgramHeader /\ image.headers[h] = ph
  BY <1>1, <1>4
<1>6. ph.vaddr % PAGE_SIZE = 0
  BY <1>1, <1>5 DEF Aligned
<1>7. PICK page, b : page = (ph.vaddr + o) \div PAGE_SIZE /\ b = (ph.vaddr + o) % PAGE_SIZE
  OBVIOUS
<1>8. /\ page \in FirstPage(ph) .. LastPage(ph) /\ b \in 0 .. (PAGE_SIZE - 1)
      /\ (page - FirstPage(ph)) * PAGE_SIZE + b = o /\ page \in Nat
  BY <1>5, <1>6, <1>7, BytePlace
<1>9. /\ t \in Seq(LoadItem)
      /\ \A i \in 1 .. Len(image.headers) : image.headers[i].type = "PT_LOAD" =>
            \A x \in FirstPage(image.headers[i]) .. LastPage(image.headers[i]) :
               \E k \in 1 .. Len(t) : t[k] = [ph |-> image.headers[i], page |-> x]
  BY <1>2, <1>4, OrderIs
<1>10. PICK k \in 1 .. Len(t) : t[k] = [ph |-> ph, page |-> page]
  BY <1>5, <1>8, <1>9
<1>11. t[k].page = page /\ t[k].ph = ph
  BY <1>10
<1>12. Contents(m, p.pagemap, t, Len(t))
  BY <1>1, <1>2 DEF ImageLoaded
<1>13. PICK j \in 1 .. Len(t) :
          /\ t[j].page = t[k].page
          /\ m.data[ImageFrame(m, <<p.pagemap, t[k].page>>)] = PageBytes(t[j].ph, t[j].page)
  BY <1>12 DEF Contents
<1>14. j = k
  BY <1>3, <1>13 DEF Distinct
<1>15. m.data[virt_to_phys(m, p.pagemap, page)] = PageBytes(ph, page)
  BY <1>11, <1>13, <1>14 DEF ImageFrame
<1>16. PageBytes(ph, page)[b] = IF o < ph.filesz THEN ph.offset + o + 1 ELSE 0
  BY <1>8 DEF PageBytes
<1> QED BY <1>7, <1>15, <1>16

\* The invariant keeps the images.
LEMMA InvImage == Inv => ElfImage
<1> SUFFICES ASSUME Inv, Sane,
                    NEW k \in DOMAIN procs, Aligned(procs[k].image), Separate(procs[k].image),
                    NEW h \in DOMAIN procs[k].image.headers,
                    procs[k].image.headers[h].type = "PT_LOAD",
                    NEW o \in 0 .. (procs[k].image.headers[h].memsz - 1)
             PROVE  LET ph == procs[k].image.headers[h]
                    IN Seen(procs[k], (ph.vaddr + o) \div PAGE_SIZE)[(ph.vaddr + o) % PAGE_SIZE]
                               = IF o < ph.filesz THEN ph.offset + o + 1 ELSE 0
  BY DEF ElfImage
<1>1. pc \in {"run", "user"}
  <2>1. procs # << >>
    OBVIOUS
  <2> QED BY <2>1 DEF Inv, TypeInv
<1>2. PICK B \in Nat : \E m \in Memory(Frame, B) : \E use, l :
            /\ B <= HHDM /\ mem \in Memory(Pointer, B) /\ Leaves(m, mem)
            /\ Running(m, use, l, owned, procs) /\ procs \in Seq(Process)
  BY <1>1, RunningState
<1>3. PICK m \in Memory(Frame, B) : \E use, l :
            /\ B <= HHDM /\ mem \in Memory(Pointer, B) /\ Leaves(m, mem)
            /\ Running(m, use, l, owned, procs) /\ procs \in Seq(Process)
  BY <1>2
<1>4. Leaves(m, mem) /\ procs \in Seq(Process) /\ \E use, l : Running(m, use, l, owned, procs)
  BY <1>3
<1>5. k \in 1 .. Len(procs)
  BY <1>4
<1>6. PICK p \in Process : p = procs[k]
  BY <1>4, <1>5
<1>7. ImageLoaded(m, p)
  BY <1>4, <1>5, <1>6 DEF Running, ImagesLoaded
<1>8. PICK ph : ph = p.image.headers[h]
  OBVIOUS
<1>9. /\ h \in DOMAIN p.image.headers /\ ph.type = "PT_LOAD" /\ o \in 0 .. (ph.memsz - 1)
      /\ Aligned(p.image) /\ Separate(p.image)
  BY <1>6, <1>8
<1>10. m.data[virt_to_phys(m, p.pagemap, (ph.vaddr + o) \div PAGE_SIZE)][(ph.vaddr + o) % PAGE_SIZE]
          = IF o < ph.filesz THEN ph.offset + o + 1 ELSE 0
  BY <1>7, <1>8, <1>9, BytesLoaded
<1>11. PICK page : page = (ph.vaddr + o) \div PAGE_SIZE
  OBVIOUS
<1>12. Seen(p, page) = m.data[virt_to_phys(m, p.pagemap, page)]
  <2>1. PICK n : n = mem
    OBVIOUS
  <2>2. n.table = m.table /\ n.data = m.data
    BY <1>4, <2>1 DEF Leaves, Alike
  <2>3. View(n, p.pagemap, page) = View(m, p.pagemap, page)
    BY <2>2, SameTables
  <2>4. virt_to_phys(n, p.pagemap, page) = virt_to_phys(m, p.pagemap, page)
    BY <2>3 DEF View
  <2> QED BY <2>1, <2>2, <2>4 DEF Seen
<1> QED BY <1>6, <1>8, <1>10, <1>11, <1>12

\* Whatever is loaded or allocated after elf_load, a process finds every byte of an
\* aligned image whose segments share no page at its address, and zeroes behind it.
THEOREM ImagesKeptIntact == Spec => []ElfImage
BY Invariant, InvImage, PTL

--------------------------------------------------------------------------------
(* Each frame has one use *)

\* Two entries of tables of one level that lead to the same.
LEMMA OneParent ==
    ASSUME NEW m, NEW use, Tree(m, use), NEW g \in Frame, NEW h \in Frame, NEW x \in 2 .. 4,
           use[g] = x, use[h] = x, NEW j \in Slots, NEW i \in Slots, Present(m.table[g][j]),
           Present(m.table[h][i]), m.table[g][j].to = m.table[h][i].to
    PROVE  i = j /\ (g = h \/ (x = 4 /\ j >= Half))
<1>1. \A f2, g2 \in Frame, i2, j2 \in Slots :
         use[f2] \in 2 .. 4 /\ use[g2] = use[f2] /\ Present(m.table[f2][i2])
             /\ Present(m.table[g2][j2])
            /\ m.table[f2][i2].to = m.table[g2][j2].to
            => i2 = j2 /\ (f2 = g2 \/ (use[f2] = 4 /\ i2 >= Half))
  BY DEF Tree
<1>2. use[g] \in 2 .. 4 /\ use[h] = use[g]
  OBVIOUS
<1> QED BY <1>1, <1>2

\* A table that one of these leads to.
LEMMA InNext ==
    ASSUME NEW m, NEW T, NEW S, NEW f
    PROVE  f \in NextTables(m, T, S) <=>
              \E g \in T : \E j \in S : Present(m.table[g][j]) /\ f = m.table[g][j].to
BY DEF NextTables

\* The tables of a page map, level by level.
Pml3(m, q, S) == NextTables(m, {q}, S)
Pml2(m, q, S) == NextTables(m, Pml3(m, q, S), Slots)
Pml1(m, q, S) == NextTables(m, Pml2(m, q, S), Slots)

\* They are all its tables.
LEMMA TablesAre ==
    ASSUME NEW m, NEW q, NEW S
    PROVE  TablesOf(m, q, S) = {q} \cup Pml3(m, q, S) \cup Pml2(m, q, S) \cup Pml1(m, q, S)
<1>1. DOMAIN NoTable = Slots
  BY DEF NoTable, Slots
<1> QED BY <1>1 DEF TablesOf, Pml3, Pml2, Pml1

\* Tables of one level lead to tables of the next,
LEMMA NextUse ==
    ASSUME NEW P, NEW B, NEW m \in Memory(P, B), NEW use, Tree(m, use), NEW x \in 2 .. 4,
           NEW T, \A g \in T : g \in Frame /\ use[g] = x, NEW S, S \subseteq Slots
    PROVE  \A f \in NextTables(m, T, S) : f \in Frame /\ use[f] = x - 1
<1> TAKE f \in NextTables(m, T, S)
<1>1. PICK g \in T : \E j \in S : Present(m.table[g][j]) /\ f = m.table[g][j].to
  BY InNext
<1>2. PICK j \in S : Present(m.table[g][j]) /\ f = m.table[g][j].to
  BY <1>1
<1>3. m.table \in [Frame -> [Slots -> Entry]]
  BY DEF Memory, MemoryRecord
<1>4. g \in Frame /\ j \in Slots
  OBVIOUS
<1>5. m.table[g][j] \in Entry
  BY <1>3, <1>4
<1>6. f \in Frame
  BY <1>2, <1>5 DEF Entry
<1> QED BY <1>2, <1>4, <1>6 DEF Tree

\* and different ones to different ones.
LEMMA NextApart ==
    ASSUME NEW m, NEW use, Tree(m, use), NEW x \in 2 .. 3,
           NEW T, \A g \in T : g \in Frame /\ use[g] = x,
           NEW U, \A g \in U : g \in Frame /\ use[g] = x, T \cap U = {}
    PROVE  NextTables(m, T, Slots) \cap NextTables(m, U, Slots) = {}
<1> SUFFICES ASSUME NEW f, f \in NextTables(m, T, Slots), f \in NextTables(m, U, Slots)
             PROVE  FALSE
  OBVIOUS
<1>1. PICK g \in T : \E j \in Slots : Present(m.table[g][j]) /\ f = m.table[g][j].to
  BY InNext
<1>2. PICK j \in Slots : Present(m.table[g][j]) /\ f = m.table[g][j].to
  BY <1>1
<1>3. PICK h \in U : \E i \in Slots : Present(m.table[h][i]) /\ f = m.table[h][i].to
  BY InNext
<1>4. PICK i \in Slots : Present(m.table[h][i]) /\ f = m.table[h][i].to
  BY <1>3
<1>5. g \in Frame /\ h \in Frame /\ use[g] = x /\ use[h] = x /\ g # h /\ x \in 2 .. 4 /\ x # 4
  OBVIOUS
<1>6. i = j /\ (g = h \/ (x = 4 /\ j >= Half))
  <2>1. m.table[g][j].to = m.table[h][i].to /\ Present(m.table[g][j]) /\ Present(m.table[h][i])
    BY <1>2, <1>4
  <2>2. g \in Frame /\ h \in Frame /\ x \in 2 .. 4 /\ use[g] = x /\ use[h] = x /\ j \in Slots
           /\ i \in Slots
    BY <1>5
  <2> QED BY <2>1, <2>2, OneParent
<1> QED BY <1>5, <1>6

\* The uses of the tables of a page map.
LEMMA LevelUses ==
    ASSUME NEW P, NEW B, NEW m \in Memory(P, B), NEW use, Tree(m, use),
           NEW q \in Frame, use[q] = 4, NEW S, S \subseteq Slots
    PROVE  /\ \A f \in Pml3(m, q, S) : f \in Frame /\ use[f] = 3
           /\ \A f \in Pml2(m, q, S) : f \in Frame /\ use[f] = 2
           /\ \A f \in Pml1(m, q, S) : f \in Frame /\ use[f] = 1
<1>1. \A f \in Pml3(m, q, S) : f \in Frame /\ use[f] = 3
  <2>1. PICK T : T = {q}
    OBVIOUS
  <2>2. \A g \in T : g \in Frame /\ use[g] = 4
    BY <2>1
  <2>3. \A f \in NextTables(m, T, S) : f \in Frame /\ use[f] = 4 - 1
    BY <2>2, NextUse
  <2> QED BY <2>1, <2>3 DEF Pml3
<1>2. \A f \in Pml2(m, q, S) : f \in Frame /\ use[f] = 2
  <2>1. PICK T : T = Pml3(m, q, S)
    OBVIOUS
  <2>2. \A g \in T : g \in Frame /\ use[g] = 3
    BY <1>1, <2>1
  <2>3. \A f \in NextTables(m, T, Slots) : f \in Frame /\ use[f] = 3 - 1
    BY <2>2, NextUse
  <2> QED BY <2>1, <2>3 DEF Pml2
<1>3. \A f \in Pml1(m, q, S) : f \in Frame /\ use[f] = 1
  <2>1. PICK T : T = Pml2(m, q, S)
    OBVIOUS
  <2>2. \A g \in T : g \in Frame /\ use[g] = 2
    BY <1>2, <2>1
  <2>3. \A f \in NextTables(m, T, Slots) : f \in Frame /\ use[f] = 2 - 1
    BY <2>2, NextUse
  <2> QED BY <2>1, <2>3 DEF Pml1
<1> QED BY <1>1, <1>2, <1>3

LowerSlots == 0 .. (Half - 1)

\* Two page maps share no table but those of the upper half.
LEMMA TablesApart ==
    ASSUME NEW P, NEW B, NEW m \in Memory(P, B), NEW use, Tree(m, use),
           NEW q \in Frame, use[q] = 4, NEW p \in Frame, use[p] = 4, q # p,
           NEW S, S \subseteq Slots
    PROVE  TablesOf(m, q, LowerSlots) \cap TablesOf(m, p, S) = {}
<1>0. LowerSlots \subseteq Slots /\ \A i \in LowerSlots : ~(i >= Half)
  BY Constants DEF LowerSlots, Slots
<1>1. /\ \A f \in Pml3(m, q, LowerSlots) : f \in Frame /\ use[f] = 3
      /\ \A f \in Pml2(m, q, LowerSlots) : f \in Frame /\ use[f] = 2
      /\ \A f \in Pml1(m, q, LowerSlots) : f \in Frame /\ use[f] = 1
  BY <1>0, LevelUses
<1>2. /\ \A f \in Pml3(m, p, S) : f \in Frame /\ use[f] = 3
      /\ \A f \in Pml2(m, p, S) : f \in Frame /\ use[f] = 2
      /\ \A f \in Pml1(m, p, S) : f \in Frame /\ use[f] = 1
  BY LevelUses
<1>3. Pml3(m, q, LowerSlots) \cap Pml3(m, p, S) = {}
  <2> SUFFICES ASSUME NEW f, f \in NextTables(m, {q}, LowerSlots), f \in NextTables(m, {p}, S)
               PROVE  FALSE
    BY DEF Pml3
  <2>1. PICK j \in LowerSlots : Present(m.table[q][j]) /\ f = m.table[q][j].to
    <3>1. \E g \in {q} : \E j \in LowerSlots : Present(m.table[g][j]) /\ f = m.table[g][j].to
      BY InNext
    <3> QED BY <3>1
  <2>2. PICK i \in S : Present(m.table[p][i]) /\ f = m.table[p][i].to
    <3>1. \E g \in {p} : \E i \in S : Present(m.table[g][i]) /\ f = m.table[g][i].to
      BY InNext
    <3> QED BY <3>1
  <2>3. j \in Slots /\ i \in Slots /\ ~(j >= Half) /\ 4 \in 2 .. 4
    BY <1>0
  <2>4. PICK x \in 2 .. 4 : x = 4
    OBVIOUS
  <2>5. i = j /\ (q = p \/ (x = 4 /\ j >= Half))
    <3>1. m.table[q][j].to = m.table[p][i].to /\ Present(m.table[q][j]) /\ Present(m.table[p][i])
      BY <2>1, <2>2
    <3>2. use[q] = x /\ use[p] = x /\ j \in Slots /\ i \in Slots
      BY <2>3, <2>4
    <3> QED BY <3>1, <3>2, OneParent
  <2> QED BY <2>3, <2>5
<1>4. Pml2(m, q, LowerSlots) \cap Pml2(m, p, S) = {}
  <2>1. PICK T, U : T = Pml3(m, q, LowerSlots) /\ U = Pml3(m, p, S)
    OBVIOUS
  <2>2. (\A g \in T : g \in Frame /\ use[g] = 3) /\ T \cap U = {}
    BY <1>1, <1>3, <2>1
  <2>3. \A g \in U : g \in Frame /\ use[g] = 3
    BY <1>2, <2>1
  <2>4. NextTables(m, T, Slots) \cap NextTables(m, U, Slots) = {}
    BY <2>2, <2>3, NextApart
  <2> QED BY <2>1, <2>4 DEF Pml2
<1>5. Pml1(m, q, LowerSlots) \cap Pml1(m, p, S) = {}
  <2>1. PICK T, U : T = Pml2(m, q, LowerSlots) /\ U = Pml2(m, p, S)
    OBVIOUS
  <2>2. (\A g \in T : g \in Frame /\ use[g] = 2) /\ T \cap U = {}
    BY <1>1, <1>4, <2>1
  <2>3. \A g \in U : g \in Frame /\ use[g] = 2
    BY <1>2, <2>1
  <2>4. NextTables(m, T, Slots) \cap NextTables(m, U, Slots) = {}
    BY <2>2, <2>3, NextApart
  <2> QED BY <2>1, <2>4 DEF Pml1
<1>6. PICK q3, q2, q1 : /\ q3 = Pml3(m, q, LowerSlots) /\ q2 = Pml2(m, q, LowerSlots)
                        /\ q1 = Pml1(m, q, LowerSlots)
  OBVIOUS
<1>7. PICK p3, p2, p1 : p3 = Pml3(m, p, S) /\ p2 = Pml2(m, p, S) /\ p1 = Pml1(m, p, S)
  OBVIOUS
<1>8. ASSUME NEW f, f \in {q} \cup q3 \cup q2 \cup q1, f \in {p} \cup p3 \cup p2 \cup p1
      PROVE  FALSE
  BY <1>1, <1>2, <1>3, <1>4, <1>5, <1>6, <1>7, <1>8
<1>9. /\ TablesOf(m, q, LowerSlots) = {q} \cup q3 \cup q2 \cup q1
      /\ TablesOf(m, p, S) = {p} \cup p3 \cup p2 \cup p1
  BY <1>6, <1>7, TablesAre
<1> QED BY <1>8, <1>9

\* The uses of frames, by what the labelling calls them.
TablesUse(m, ps, u) ==
    u.part = "tables" /\
    (\/ u.of = 0 /\ u.frames = TablesOf(m, m.kernel, Slots)
     \/ u.of \in 1 .. Len(ps) /\ u.frames = TablesOf(m, ps[u.of].pagemap, LowerSlots))
RegionsUse(l, u) == u.part = "regions" /\ u.of = 0 /\ u.frames = Members(l)
BlocksUse(m, own, u) == u.part = "heap" /\ u.of = 0 /\ u.frames = {FirstFrame(m, r) : r \in own}
OneFrameUse(m, ps, u) ==
    \/ u.part = "context" /\ u.of = 0 /\ u.frames = {m.ctx}
    \/ u.part = "process" /\ u.of \in 1 .. Len(ps) /\ u.frames = {ps[u.of].proc}
    \/ u.part = "stack" /\ u.of \in 1 .. Len(ps) /\ u.frames = {ps[u.of].stack}
PagesUse(m, ps, u) ==
    /\ u.part = "image" /\ u.of \in 1 .. Len(ps)
    /\ u.frames = {ImageFrame(m, i) : i \in ImagePairs(ps[u.of])}

UseOf(m, l, own, ps, u) ==
    /\ u = Use(u.of, u.part, u.frames)
    /\ \/ TablesUse(m, ps, u) \/ RegionsUse(l, u) \/ BlocksUse(m, own, u)
       \/ OneFrameUse(m, ps, u) \/ PagesUse(m, ps, u)

\* The processes of a running kernel.
LEMMA ProcessFrames ==
    ASSUME NEW m, NEW use, NEW l, NEW own, NEW ps \in Seq(Process), Running(m, use, l, own, ps),
           NEW k \in 1 .. Len(ps)
    PROVE  /\ ps[k].pagemap \in Frame /\ use[ps[k].pagemap] = 4 /\ ps[k].pagemap # m.kernel
           /\ ps[k].proc \in Frame /\ use[ps[k].proc] = OtherUse
           /\ ps[k].stack \in Frame /\ use[ps[k].stack] = OtherUse
<1>1. MapsOwned(m, use, MapsOf(ps)) /\ OthersOwned(use, OthersOf(m.ctx, ps))
  BY DEF Running, Good, Sound
<1>2. ps[k].pagemap \in MapsOf(ps)
  BY DEF MapsOf
<1>3. ps[k].proc \in OthersOf(m.ctx, ps) /\ ps[k].stack \in OthersOf(m.ctx, ps)
  BY DEF OthersOf
<1> QED BY <1>1, <1>2, <1>3 DEF MapsOwned, OthersOwned

\* The page map a use of tables is about.
LEMMA TablesUsed ==
    ASSUME NEW B \in Nat, NEW m \in Memory(Frame, B), NEW use, NEW l, NEW own,
           NEW ps \in Seq(Process),
           Running(m, use, l, own, ps), NEW u, TablesUse(m, ps, u)
    PROVE  \E q \in Frame : \E S : /\ use[q] = 4 /\ S \subseteq Slots /\ u.frames = TablesOf(m, q, S)
                               /\ (u.of = 0 => q = m.kernel)
                               /\ (u.of # 0 => /\ u.of \in 1 .. Len(ps) /\ q = ps[u.of].pagemap
                                               /\ q # m.kernel /\ S = LowerSlots)
<1>0. LowerSlots \subseteq Slots
  BY Constants DEF LowerSlots, Slots
<1>1. CASE u.of = 0 /\ u.frames = TablesOf(m, m.kernel, Slots)
  <2>1. m.kernel \in Frame
    BY DEF Memory, MemoryRecord
  <2>2. use[m.kernel] = 4
    BY DEF Running, Good, Sound, Tree
  <2> QED BY <1>1, <2>1, <2>2
<1>2. CASE u.of \in 1 .. Len(ps) /\ u.frames = TablesOf(m, ps[u.of].pagemap, LowerSlots)
  <2>1. PICK k \in 1 .. Len(ps) : k = u.of
    BY <1>2
  <2>2. ps[k].pagemap \in Frame /\ use[ps[k].pagemap] = 4 /\ ps[k].pagemap # m.kernel
    BY ProcessFrames
  <2>3. k # 0
    OBVIOUS
  <2> QED BY <1>0, <1>2, <2>1, <2>2, <2>3
<1> QED BY <1>1, <1>2 DEF TablesUse

\* What the labelling says of a frame that is used.
Labelled(use, u, f) ==
    /\ f \in Frame
    /\ u.part = "tables" => use[f] \in 1 .. 4
    /\ u.part = "regions" => use[f] = RegionUse
    /\ u.part = "heap" => use[f] = HeapUse
    /\ u.part \in {"context", "process", "stack"} => use[f] = OtherUse
    /\ u.part = "image" => use[f] = ImageUse

\* It says what the frame is used for.
LEMMA UseLabelled ==
    ASSUME NEW B \in Nat, NEW m \in Memory(Frame, B), NEW use, NEW l, NEW own,
           NEW ps \in Seq(Process),
           Running(m, use, l, own, ps), \A r \in own : r.start \in Nat,
           NEW u, UseOf(m, l, own, ps, u), NEW f \in u.frames
    PROVE  Labelled(use, u, f)
<1>0. Tree(m, use) /\ m.kernel \in Frame
  BY DEF Running, Good, Sound, Memory, MemoryRecord
<1>1. CASE TablesUse(m, ps, u)
  <2>1. PICK q, S : q \in Frame /\ use[q] = 4 /\ S \subseteq Slots /\ u.frames = TablesOf(m, q, S)
    <3>1. \E q \in Frame : \E S : /\ use[q] = 4 /\ S \subseteq Slots /\ u.frames = TablesOf(m, q, S)
                               /\ (u.of = 0 => q = m.kernel)
                               /\ (u.of # 0 => /\ u.of \in 1 .. Len(ps) /\ q = ps[u.of].pagemap
                                               /\ q # m.kernel /\ S = LowerSlots)
      BY <1>1, TablesUsed
    <3> QED BY <3>1
  <2>2. /\ \A g \in Pml3(m, q, S) : g \in Frame /\ use[g] = 3
        /\ \A g \in Pml2(m, q, S) : g \in Frame /\ use[g] = 2
        /\ \A g \in Pml1(m, q, S) : g \in Frame /\ use[g] = 1
    BY <1>0, <2>1, LevelUses
  <2>3. f \in {q} \cup Pml3(m, q, S) \cup Pml2(m, q, S) \cup Pml1(m, q, S)
    BY <2>1, TablesAre
  <2>4. f \in Frame /\ use[f] \in 1 .. 4
    BY <2>1, <2>2, <2>3
  <2> QED BY <1>1, <2>4 DEF Labelled, TablesUse
<1>2. CASE RegionsUse(l, u)
  <2>1. Chain(m, l) /\ \A k \in 1 .. Len(l) : use[l[k]] = RegionUse
    BY DEF Running, Good, Sound, HeapList
  <2>2. PICK k \in 1 .. Len(l) : f = l[k]
    BY <1>2 DEF RegionsUse, Members
  <2>3. f \in Frame
    <3>1. l \in Seq(Frame)
      BY <2>1 DEF Chain
    <3> QED BY <2>2, <3>1
  <2> QED BY <1>2, <2>1, <2>2, <2>3 DEF Labelled, RegionsUse
<1>3. CASE BlocksUse(m, own, u)
  <2>1. PICK r \in own : f = FirstFrame(m, r)
    BY <1>3 DEF BlocksUse
  <2>2. use[f] = HeapUse
    BY <2>1 DEF Running, Good, Sound, HeapOwned
  <2>3. f \in Frame
    BY <1>0, <2>1, TranslatedType DEF FirstFrame
  <2> QED BY <1>3, <2>2, <2>3 DEF Labelled, BlocksUse
<1>4. CASE OneFrameUse(m, ps, u)
  <2>1. f \in Frame /\ use[f] = OtherUse
    <3>1. CASE u.part = "context" /\ u.of = 0 /\ u.frames = {m.ctx}
      <4>1. OthersOwned(use, OthersOf(m.ctx, ps)) /\ m.ctx \in OthersOf(m.ctx, ps)
        BY DEF Running, Good, Sound, OthersOf
      <4> QED BY <3>1, <4>1 DEF OthersOwned
    <3>2. CASE u.part = "process" /\ u.of \in 1 .. Len(ps) /\ u.frames = {ps[u.of].proc}
      BY <3>2, ProcessFrames
    <3>3. CASE u.part = "stack" /\ u.of \in 1 .. Len(ps) /\ u.frames = {ps[u.of].stack}
      BY <3>3, ProcessFrames
    <3> QED BY <1>4, <3>1, <3>2, <3>3 DEF OneFrameUse
  <2>2. u.part \in {"context", "process", "stack"}
    BY <1>4 DEF OneFrameUse
  <2> QED BY <2>1, <2>2 DEF Labelled
<1>5. CASE PagesUse(m, ps, u)
  <2>1. PICK k \in 1 .. Len(ps) : k = u.of
    BY <1>5 DEF PagesUse
  <2>2. PICK i \in ImagePairs(ps[k]) : f = ImageFrame(m, i)
    BY <1>5, <2>1 DEF PagesUse
  <2>3. i \in PairsOf(ps)
    BY <2>2 DEF PairsOf
  <2>4. i \in Frame \X Lower /\ use[ImageFrame(m, i)] = ImageUse
    BY <2>3 DEF Running, Good, Sound, ImagesOwned
  <2>5. f \in Frame
    <3>1. PICK q, v : q = i[1] /\ v = i[2]
      OBVIOUS
    <3>2. q \in Frame /\ v \in Nat
      BY <2>4, <3>1, VirtNat
    <3>3. virt_to_phys(m, q, v) \in Frame
      BY <3>2, TranslatedType
    <3> QED BY <2>2, <3>1, <3>3 DEF ImageFrame
  <2> QED BY <1>5, <2>2, <2>4, <2>5 DEF Labelled, PagesUse
<1> QED BY <1>1, <1>2, <1>3, <1>4, <1>5 DEF UseOf

\* A use is known by whose it is and for what.
LEMMA UseKnown ==
    ASSUME NEW m, NEW l, NEW own, NEW ps, NEW u, UseOf(m, l, own, ps, u), NEW v,
           UseOf(m, l, own, ps, v),
           u.of = v.of, u.part = v.part, Len(ps) \in Nat
    PROVE  u = v
<1>0. 0 \notin 1 .. Len(ps)
  OBVIOUS
<1>1. u.frames = v.frames
  <2>1. CASE TablesUse(m, ps, u)
    <3>1. TablesUse(m, ps, v)
      BY <2>1 DEF UseOf, TablesUse, RegionsUse, BlocksUse, OneFrameUse, PagesUse
    <3> QED BY <1>0, <2>1, <3>1 DEF TablesUse
  <2>2. CASE RegionsUse(l, u)
    <3>1. RegionsUse(l, v)
      BY <2>2 DEF UseOf, TablesUse, RegionsUse, BlocksUse, OneFrameUse, PagesUse
    <3> QED BY <2>2, <3>1 DEF RegionsUse
  <2>3. CASE BlocksUse(m, own, u)
    <3>1. BlocksUse(m, own, v)
      BY <2>3 DEF UseOf, TablesUse, RegionsUse, BlocksUse, OneFrameUse, PagesUse
    <3> QED BY <2>3, <3>1 DEF BlocksUse
  <2>4. CASE OneFrameUse(m, ps, u)
    <3>1. OneFrameUse(m, ps, v)
      BY <2>4 DEF UseOf, TablesUse, RegionsUse, BlocksUse, OneFrameUse, PagesUse
    <3> QED BY <2>4, <3>1 DEF OneFrameUse
  <2>5. CASE PagesUse(m, ps, u)
    <3>1. PagesUse(m, ps, v)
      BY <2>5 DEF UseOf, TablesUse, RegionsUse, BlocksUse, OneFrameUse, PagesUse
    <3> QED BY <2>5, <3>1 DEF PagesUse
  <2> QED BY <2>1, <2>2, <2>3, <2>4, <2>5 DEF UseOf
<1>2. u = Use(u.of, u.part, u.frames) /\ v = Use(v.of, v.part, v.frames)
  BY DEF UseOf
<1> QED BY <1>1, <1>2

\* Two uses of tables that share one are the same.
LEMMA TablesOnce ==
    ASSUME NEW B \in Nat, NEW m \in Memory(Frame, B), NEW use, NEW l, NEW own,
           NEW ps \in Seq(Process),
           Running(m, use, l, own, ps), NEW u, TablesUse(m, ps, u), NEW v, TablesUse(m, ps, v),
           NEW f, f \in u.frames, f \in v.frames
    PROVE  u.of = v.of
<1>0. Tree(m, use) /\ Different(m.ctx, ps)
  BY DEF Running, Good, Sound
<1>1. PICK q, S : /\ q \in Frame /\ use[q] = 4 /\ S \subseteq Slots /\ u.frames = TablesOf(m, q, S)
                  /\ (u.of = 0 => q = m.kernel)
                  /\ (u.of # 0 => /\ u.of \in 1 .. Len(ps) /\ q = ps[u.of].pagemap
                                  /\ q # m.kernel /\ S = LowerSlots)
  <2>1. \E q \in Frame : \E S : /\ use[q] = 4 /\ S \subseteq Slots /\ u.frames = TablesOf(m, q, S)
                               /\ (u.of = 0 => q = m.kernel)
                               /\ (u.of # 0 => /\ u.of \in 1 .. Len(ps) /\ q = ps[u.of].pagemap
                                               /\ q # m.kernel /\ S = LowerSlots)
    BY TablesUsed
  <2> QED BY <2>1
<1>2. PICK p, T : /\ p \in Frame /\ use[p] = 4 /\ T \subseteq Slots /\ v.frames = TablesOf(m, p, T)
                  /\ (v.of = 0 => p = m.kernel)
                  /\ (v.of # 0 => /\ v.of \in 1 .. Len(ps) /\ p = ps[v.of].pagemap
                                  /\ p # m.kernel /\ T = LowerSlots)
  <2>1. \E p \in Frame : \E T : /\ use[p] = 4 /\ T \subseteq Slots /\ v.frames = TablesOf(m, p, T)
                               /\ (v.of = 0 => p = m.kernel)
                               /\ (v.of # 0 => /\ v.of \in 1 .. Len(ps) /\ p = ps[v.of].pagemap
                                               /\ p # m.kernel /\ T = LowerSlots)
    BY TablesUsed
  <2> QED BY <2>1
<1> SUFFICES ASSUME u.of # v.of PROVE FALSE
  OBVIOUS
<1>3. q # p
  <2>1. CASE u.of = 0 \/ v.of = 0
    BY <1>1, <1>2, <2>1
  <2>2. CASE u.of # 0 /\ v.of # 0
    BY <1>0, <1>1, <1>2, <2>2 DEF Different
  <2> QED BY <2>1, <2>2
<1>4. CASE u.of # 0
  <2>1. TablesOf(m, q, LowerSlots) \cap TablesOf(m, p, T) = {}
    BY <1>0, <1>1, <1>2, <1>3, TablesApart
  <2> QED BY <1>1, <1>2, <1>4, <2>1
<1>5. CASE v.of # 0
  <2>1. TablesOf(m, p, LowerSlots) \cap TablesOf(m, q, S) = {}
    BY <1>0, <1>1, <1>2, <1>3, TablesApart
  <2> QED BY <1>1, <1>2, <1>5, <2>1
<1> QED BY <1>4, <1>5

\* A frame has one use.
LEMMA OnePurpose ==
    ASSUME NEW B \in Nat, NEW m \in Memory(Frame, B), NEW use, NEW l, NEW own,
           NEW ps \in Seq(Process),
           Running(m, use, l, own, ps), \A r \in own : r.start \in Nat,
           NEW u, UseOf(m, l, own, ps, u), NEW v, UseOf(m, l, own, ps, v),
           NEW f, f \in u.frames, f \in v.frames
    PROVE  u = v
<1>0. Labelled(use, u, f) /\ Labelled(use, v, f)
  BY UseLabelled
<1>1. Different(m.ctx, ps) /\ ImagesOwned(m, use, MapsOf(ps), PairsOf(ps))
  BY DEF Running, Good, Sound
<1>2. Len(ps) \in Nat
  OBVIOUS
<1>3. u.of = v.of /\ u.part = v.part
  <2>1. CASE TablesUse(m, ps, u)
    <3>1. TablesUse(m, ps, v)
      BY <1>0, <2>1 DEF Labelled, UseOf, TablesUse, RegionsUse, BlocksUse, OneFrameUse, PagesUse,
         RegionUse, HeapUse, OtherUse, ImageUse
    <3>2. u.of = v.of
      BY <2>1, <3>1, TablesOnce
    <3> QED BY <2>1, <3>1, <3>2 DEF TablesUse
  <2>2. CASE RegionsUse(l, u)
    <3>1. RegionsUse(l, v)
      BY <1>0, <2>2 DEF Labelled, UseOf, TablesUse, RegionsUse, BlocksUse, OneFrameUse, PagesUse,
         RegionUse, HeapUse, OtherUse, ImageUse
    <3> QED BY <2>2, <3>1 DEF RegionsUse
  <2>3. CASE BlocksUse(m, own, u)
    <3>1. BlocksUse(m, own, v)
      BY <1>0, <2>3 DEF Labelled, UseOf, TablesUse, RegionsUse, BlocksUse, OneFrameUse, PagesUse,
         RegionUse, HeapUse, OtherUse, ImageUse
    <3> QED BY <2>3, <3>1 DEF BlocksUse
  <2>4. CASE OneFrameUse(m, ps, u)
    <3>1. OneFrameUse(m, ps, v)
      BY <1>0, <2>4 DEF Labelled, UseOf, TablesUse, RegionsUse, BlocksUse, OneFrameUse, PagesUse,
         RegionUse, HeapUse, OtherUse, ImageUse
    <3> QED BY <1>1, <2>4, <3>1 DEF OneFrameUse, Different
  <2>5. CASE PagesUse(m, ps, u)
    <3>1. PagesUse(m, ps, v)
      BY <1>0, <2>5 DEF Labelled, UseOf, TablesUse, RegionsUse, BlocksUse, OneFrameUse, PagesUse,
         RegionUse, HeapUse, OtherUse, ImageUse
    <3>2. PICK j \in 1 .. Len(ps), k \in 1 .. Len(ps) : j = u.of /\ k = v.of
      BY <2>5, <3>1 DEF PagesUse
    <3>3. PICK i \in ImagePairs(ps[j]) : f = ImageFrame(m, i)
      BY <2>5, <3>2 DEF PagesUse
    <3>4. PICK h \in ImagePairs(ps[k]) : f = ImageFrame(m, h)
      BY <3>1, <3>2 DEF PagesUse
    <3>5. i \in PairsOf(ps) /\ h \in PairsOf(ps)
      BY <3>3, <3>4 DEF PairsOf
    <3>6. i = h
      BY <1>1, <3>3, <3>4, <3>5 DEF ImagesOwned
    <3>7. i[1] = ps[j].pagemap /\ h[1] = ps[k].pagemap
      BY <3>3, <3>4 DEF ImagePairs, Pairs
    <3>8. j = k
      BY <1>1, <3>6, <3>7 DEF Different
    <3> QED BY <2>5, <3>1, <3>2, <3>8 DEF PagesUse
  <2> QED BY <2>1, <2>2, <2>3, <2>4, <2>5 DEF UseOf
<1> QED BY <1>2, <1>3, UseKnown

\* A table that the entries of a used one lead to is used alike.
LEMMA TablesClosed ==
    ASSUME NEW m, NEW q, NEW S, NEW x, NEW g, NEW j, Present(m.table[g][j])
    PROVE  /\ g = q /\ j \in S => m.table[g][j].to \in Pml3(m, q, S)
           /\ g \in Pml3(m, q, S) /\ j \in Slots => m.table[g][j].to \in Pml2(m, q, S)
           /\ g \in Pml2(m, q, S) /\ j \in Slots => m.table[g][j].to \in Pml1(m, q, S)
<1>1. ASSUME g = q, j \in S
      PROVE  m.table[g][j].to \in Pml3(m, q, S)
  BY <1>1, InNext DEF Pml3
<1>2. ASSUME g \in Pml3(m, q, S), j \in Slots
      PROVE  m.table[g][j].to \in Pml2(m, q, S)
  BY <1>2, InNext DEF Pml2
<1>3. ASSUME g \in Pml2(m, q, S), j \in Slots
      PROVE  m.table[g][j].to \in Pml1(m, q, S)
  BY <1>3, InNext DEF Pml1
<1> QED BY <1>1, <1>2, <1>3

\* Where the tables of a level are.
Hangs(m, ps, x, f) ==
    \E q, S : /\ (q = m.kernel /\ S = Slots) \/ (q \in MapsOf(ps) /\ S = LowerSlots)
              /\ (x = 4 => f = q) /\ (x = 3 => f \in Pml3(m, q, S))
              /\ (x = 2 => f \in Pml2(m, q, S)) /\ (x = 1 => f \in Pml1(m, q, S))

\* The table behind an entry of one.
LEMMA HangsBelow ==
    ASSUME NEW m, NEW ps, NEW x \in 2 .. 3, NEW g, Hangs(m, ps, x, g),
           NEW j \in Slots, Present(m.table[g][j]), NEW f, m.table[g][j].to = f
    PROVE  Hangs(m, ps, x - 1, f)
<1>1. PICK q, S : /\ (q = m.kernel /\ S = Slots) \/ (q \in MapsOf(ps) /\ S = LowerSlots)
                  /\ (x = 4 => g = q) /\ (x = 3 => g \in Pml3(m, q, S))
                  /\ (x = 2 => g \in Pml2(m, q, S)) /\ (x = 1 => g \in Pml1(m, q, S))
  BY DEF Hangs
<1>2. /\ g \in Pml3(m, q, S) /\ j \in Slots => m.table[g][j].to \in Pml2(m, q, S)
      /\ g \in Pml2(m, q, S) /\ j \in Slots => m.table[g][j].to \in Pml1(m, q, S)
  BY TablesClosed
<1>3. CASE x = 3
  BY <1>1, <1>2, <1>3 DEF Hangs
<1>4. CASE x = 2
  BY <1>1, <1>2, <1>4 DEF Hangs
<1> QED BY <1>3, <1>4

\* While nothing was lost, every table is one of the kernel's or of a process'.
LEMMA TablesHang ==
    ASSUME NEW B \in Nat, NEW m \in Memory(Frame, B), NEW use, NEW l, NEW own,
           NEW ps \in Seq(Process),
           Running(m, use, l, own, ps), m.events = {}
    PROVE  \A f \in Frame : use[f] \in 1 .. 4 => Hangs(m, ps, use[f], f)
<1>0. /\ Tree(m, use) /\ Parented(m, use) /\ m.kernel \in Frame
      /\ Complete(m, use, l, own, MapsOf(ps), OthersOf(m.ctx, ps))
  BY DEF Running, Good, Sound, Memory, MemoryRecord
<1>p. ASSUME NEW f \in Frame, use[f] \in 1 .. 3
      PROVE  \E g \in Frame, j \in Slots : use[g] = use[f] + 1 /\ Present(m.table[g][j])
                                               /\ m.table[g][j].to = f
  BY <1>0, <1>p DEF Parented
<1>4. ASSUME NEW f \in Frame, use[f] = 4
      PROVE  Hangs(m, ps, 4, f)
  <2>1. f = m.kernel \/ f \in MapsOf(ps)
    BY <1>0, <1>4 DEF Complete
  <2> QED BY <2>1 DEF Hangs
<1>3. ASSUME NEW f \in Frame, use[f] = 3
      PROVE  Hangs(m, ps, 3, f)
  <2>1. PICK g \in Frame, j \in Slots : use[g] = 4 /\ Present(m.table[g][j]) /\ m.table[g][j].to = f
    BY <1>p, <1>3
  <2>2. g = m.kernel \/ g \in MapsOf(ps)
    BY <1>0, <2>1 DEF Complete
  <2>3. CASE g = m.kernel
    <3>1. g = m.kernel /\ j \in Slots => m.table[g][j].to \in Pml3(m, m.kernel, Slots)
      BY <2>1, TablesClosed
    <3> QED BY <2>1, <2>3, <3>1 DEF Hangs
  <2>4. CASE g \in MapsOf(ps) /\ j < Half
    <3>1. j \in LowerSlots
      BY <2>4, Constants DEF Slots, LowerSlots
    <3>2. g = g /\ j \in LowerSlots => m.table[g][j].to \in Pml3(m, g, LowerSlots)
      BY <2>1, TablesClosed
    <3> QED BY <2>1, <2>4, <3>1, <3>2 DEF Hangs
  <2>5. CASE j >= Half
    <3>1. m.table[g][j] = m.table[m.kernel][j]
      BY <1>0, <2>1, <2>5 DEF Tree
    <3>2. PICK h : h = m.kernel
      OBVIOUS
    <3>3. Present(m.table[h][j]) /\ m.table[h][j].to = f
      BY <2>1, <3>1, <3>2
    <3>4. h = m.kernel /\ j \in Slots => m.table[h][j].to \in Pml3(m, m.kernel, Slots)
      BY <3>3, TablesClosed
    <3> QED BY <3>2, <3>3, <3>4 DEF Hangs
  <2>6. j < Half \/ j >= Half
    BY Constants DEF Slots
  <2> QED BY <2>2, <2>3, <2>4, <2>5, <2>6
<1>2. ASSUME NEW f \in Frame, use[f] = 2
      PROVE  Hangs(m, ps, 2, f)
  <2>1. PICK g \in Frame, j \in Slots : use[g] = 3 /\ Present(m.table[g][j]) /\ m.table[g][j].to = f
    BY <1>p, <1>2
  <2>2. PICK x \in 2 .. 3 : x = 3
    OBVIOUS
  <2>3. Hangs(m, ps, x, g)
    BY <1>3, <2>1, <2>2
  <2>4. Hangs(m, ps, x - 1, f)
    BY <2>1, <2>3, HangsBelow
  <2> QED BY <2>2, <2>4
<1>1. ASSUME NEW f \in Frame, use[f] = 1
      PROVE  Hangs(m, ps, 1, f)
  <2>1. PICK g \in Frame, j \in Slots : use[g] = 2 /\ Present(m.table[g][j]) /\ m.table[g][j].to = f
    BY <1>p, <1>1
  <2>2. PICK x \in 2 .. 3 : x = 2
    OBVIOUS
  <2>3. Hangs(m, ps, x, g)
    BY <1>2, <2>1, <2>2
  <2>4. Hangs(m, ps, x - 1, f)
    BY <2>1, <2>3, HangsBelow
  <2> QED BY <2>2, <2>4
<1> QED BY <1>1, <1>2, <1>3, <1>4

Used(m, l, own, ps, f) == \E u : UseOf(m, l, own, ps, u) /\ f \in u.frames

\* Each kind of use, by its frames.
LEMMA UsedFor ==
    ASSUME NEW m, NEW l, NEW own, NEW ps, NEW f
    PROVE  /\ f \in TablesOf(m, m.kernel, Slots) => Used(m, l, own, ps, f)
           /\ \A k \in 1 .. Len(ps) : f \in TablesOf(m, ps[k].pagemap, LowerSlots)
                   => Used(m, l, own, ps, f)
           /\ f \in Members(l) => Used(m, l, own, ps, f)
           /\ (\E r \in own : f = FirstFrame(m, r)) => Used(m, l, own, ps, f)
           /\ f \in OthersOf(m.ctx, ps) => Used(m, l, own, ps, f)
           /\ (\E i \in PairsOf(ps) : f = ImageFrame(m, i)) => Used(m, l, own, ps, f)
<1>1. ASSUME f \in TablesOf(m, m.kernel, Slots) PROVE Used(m, l, own, ps, f)
  <2>1. PICK u : u = Use(0, "tables", TablesOf(m, m.kernel, Slots))
    OBVIOUS
  <2>2. u.of = 0 /\ u.part = "tables" /\ u.frames = TablesOf(m, m.kernel, Slots)
    BY <2>1 DEF Use
  <2> QED BY <1>1, <2>1, <2>2 DEF Used, UseOf, TablesUse
<1>2. ASSUME NEW k \in 1 .. Len(ps), f \in TablesOf(m, ps[k].pagemap, LowerSlots)
      PROVE  Used(m, l, own, ps, f)
  <2>1. PICK u : u = Use(k, "tables", TablesOf(m, ps[k].pagemap, LowerSlots))
    OBVIOUS
  <2>2. u.of = k /\ u.part = "tables" /\ u.frames = TablesOf(m, ps[k].pagemap, LowerSlots)
    BY <2>1 DEF Use
  <2> QED BY <1>2, <2>1, <2>2 DEF Used, UseOf, TablesUse
<1>3. ASSUME f \in Members(l) PROVE Used(m, l, own, ps, f)
  <2>1. PICK u : u = Use(0, "regions", Members(l))
    OBVIOUS
  <2>2. u.of = 0 /\ u.part = "regions" /\ u.frames = Members(l)
    BY <2>1 DEF Use
  <2> QED BY <1>3, <2>1, <2>2 DEF Used, UseOf, RegionsUse
<1>4. ASSUME NEW r \in own, f = FirstFrame(m, r) PROVE Used(m, l, own, ps, f)
  <2>1. PICK u : u = Use(0, "heap", {FirstFrame(m, s) : s \in own})
    OBVIOUS
  <2>2. u.of = 0 /\ u.part = "heap" /\ u.frames = {FirstFrame(m, s) : s \in own}
    BY <2>1 DEF Use
  <2> QED BY <1>4, <2>1, <2>2 DEF Used, UseOf, BlocksUse
<1>5. ASSUME f = m.ctx PROVE Used(m, l, own, ps, f)
  <2>1. PICK u : u = Use(0, "context", {m.ctx})
    OBVIOUS
  <2>2. u.of = 0 /\ u.part = "context" /\ u.frames = {m.ctx}
    BY <2>1 DEF Use
  <2> QED BY <1>5, <2>1, <2>2 DEF Used, UseOf, OneFrameUse
<1>6. ASSUME NEW k \in 1 .. Len(ps), f = ps[k].proc PROVE Used(m, l, own, ps, f)
  <2>1. PICK u : u = Use(k, "process", {ps[k].proc})
    OBVIOUS
  <2>2. u.of = k /\ u.part = "process" /\ u.frames = {ps[k].proc}
    BY <2>1 DEF Use
  <2> QED BY <1>6, <2>1, <2>2 DEF Used, UseOf, OneFrameUse
<1>7. ASSUME NEW k \in 1 .. Len(ps), f = ps[k].stack PROVE Used(m, l, own, ps, f)
  <2>1. PICK u : u = Use(k, "stack", {ps[k].stack})
    OBVIOUS
  <2>2. u.of = k /\ u.part = "stack" /\ u.frames = {ps[k].stack}
    BY <2>1 DEF Use
  <2> QED BY <1>7, <2>1, <2>2 DEF Used, UseOf, OneFrameUse
<1>8. ASSUME NEW k \in 1 .. Len(ps), NEW i \in ImagePairs(ps[k]), f = ImageFrame(m, i)
      PROVE  Used(m, l, own, ps, f)
  <2>1. PICK u : u = Use(k, "image", {ImageFrame(m, j) : j \in ImagePairs(ps[k])})
    OBVIOUS
  <2>2. u.of = k /\ u.part = "image" /\ u.frames = {ImageFrame(m, j) : j \in ImagePairs(ps[k])}
    BY <2>1 DEF Use
  <2> QED BY <1>8, <2>1, <2>2 DEF Used, UseOf, PagesUse
<1>9. ASSUME f \in OthersOf(m.ctx, ps) PROVE Used(m, l, own, ps, f)
  BY <1>5, <1>6, <1>7, <1>9 DEF OthersOf
<1>10. ASSUME \E i \in PairsOf(ps) : f = ImageFrame(m, i) PROVE Used(m, l, own, ps, f)
  BY <1>8, <1>10 DEF PairsOf
<1> QED BY <1>1, <1>2, <1>3, <1>4, <1>9, <1>10

\* While nothing was lost, every held frame is used.
LEMMA HeldUsed ==
    ASSUME NEW B \in Nat, NEW m \in Memory(Frame, B), NEW use, NEW l, NEW own,
           NEW ps \in Seq(Process),
           Running(m, use, l, own, ps), m.events = {},
           \A k \in 1 .. Len(ps) : Distinct(LoadOrder(ps[k].image)), NEW f \in m.held
    PROVE  Used(m, l, own, ps, f)
<1>0. /\ Tree(m, use) /\ use \in Uses /\ AllImages(m, use, ps)
      /\ Complete(m, use, l, own, MapsOf(ps), OthersOf(m.ctx, ps))
  BY DEF Running, Good, Sound
<1>1. f \in Frame
  BY DEF Memory, MemoryRecord
<1>2. use[f] \in 0 .. 8 /\ use[f] # 0
  BY <1>0, <1>1 DEF Uses, Tree
<1>3. CASE use[f] \in 1 .. 4
  <2>1. Hangs(m, ps, use[f], f)
    BY <1>1, <1>3, TablesHang
  <2>2. PICK q, S : /\ (q = m.kernel /\ S = Slots) \/ (q \in MapsOf(ps) /\ S = LowerSlots)
                    /\ (use[f] = 4 => f = q) /\ (use[f] = 3 => f \in Pml3(m, q, S))
                    /\ (use[f] = 2 => f \in Pml2(m, q, S)) /\ (use[f] = 1 => f \in Pml1(m, q, S))
    BY <2>1 DEF Hangs
  <2>3. f \in {q} \cup Pml3(m, q, S) \cup Pml2(m, q, S) \cup Pml1(m, q, S)
    BY <1>3, <2>2
  <2>4. f \in TablesOf(m, q, S)
    BY <2>3, TablesAre
  <2>5. CASE q = m.kernel /\ S = Slots
    BY <2>4, <2>5, UsedFor
  <2>6. CASE q \in MapsOf(ps) /\ S = LowerSlots
    <3>1. PICK k \in 1 .. Len(ps) : q = ps[k].pagemap
      BY <2>6 DEF MapsOf
    <3>2. f \in TablesOf(m, ps[k].pagemap, LowerSlots)
      BY <2>4, <2>6, <3>1
    <3>3. \A j \in 1 .. Len(ps) : f \in TablesOf(m, ps[j].pagemap, LowerSlots)
                => Used(m, l, own, ps, f)
      BY UsedFor
    <3> QED BY <3>2, <3>3
  <2> QED BY <2>2, <2>5, <2>6
<1>4. CASE use[f] = RegionUse
  <2>1. f \in Members(l)
    BY <1>0, <1>1, <1>4 DEF Complete
  <2> QED BY <2>1, UsedFor
<1>5. CASE use[f] = HeapUse
  <2>1. \E r \in own : f = FirstFrame(m, r)
    BY <1>0, <1>1, <1>5 DEF Complete
  <2> QED BY <2>1, UsedFor
<1>6. CASE use[f] = OtherUse
  <2>1. f \in OthersOf(m.ctx, ps)
    BY <1>0, <1>1, <1>6 DEF Complete
  <2> QED BY <2>1, UsedFor
<1>7. CASE use[f] = ImageUse
  <2>1. \E i \in PairsOf(ps) : f = ImageFrame(m, i)
    BY <1>0, <1>1, <1>7 DEF AllImages
  <2> QED BY <2>1, UsedFor
<1>8. \/ use[f] \in 1 .. 4 \/ use[f] = RegionUse \/ use[f] = HeapUse \/ use[f] = OtherUse
      \/ use[f] = ImageUse
  BY <1>2 DEF RegionUse, HeapUse, OtherUse, ImageUse
<1> QED BY <1>3, <1>4, <1>5, <1>6, <1>7, <1>8

ShownFrames(m, p) == {virt_to_phys(m, p.pagemap, v) : v \in ImagePages(p.image)}
LoadedFrames(m, p) == {ImageFrame(m, i) : i \in ImagePairs(p)}

\* The frames of an image, from the pages of its file.
LEMMA PagesShown ==
    ASSUME NEW m, NEW n, n.table = m.table, NEW p \in Process
    PROVE  ShownFrames(n, p) = LoadedFrames(m, p)
<1>1. PICK t : t = LoadOrder(p.image)
  OBVIOUS
<1>2. DOMAIN t = 1 .. Len(t)
  <2>0. p.image \in Images \cup {KernelThread}
    BY DEF Process
  <2>1. Proper(p.image)
    BY <2>0, ImageProper
  <2>2. t \in Seq(LoadItem)
    BY <1>1, <2>1, ProperOrder
  <2> QED BY <2>2
<1>3. ImagePages(p.image) = {t[k].page : k \in 1 .. Len(t)}
  BY <1>1, <1>2 DEF ImagePages, Range
<1>4. ImagePairs(p) = {<<p.pagemap, t[k].page>> : k \in 1 .. Len(t)}
  BY <1>1 DEF ImagePairs, Pairs
<1>5. \A v : virt_to_phys(n, p.pagemap, v) = virt_to_phys(m, p.pagemap, v)
  <2> TAKE v
  <2>1. View(n, p.pagemap, v) = View(m, p.pagemap, v)
    BY SameTables
  <2> QED BY <2>1 DEF View
<1>6. \A k \in 1 .. Len(t) : ImageFrame(m, <<p.pagemap, t[k].page>>) = virt_to_phys(n, p.pagemap, t[k].page)
  BY <1>5 DEF ImageFrame
<1>7. {ImageFrame(m, i) : i \in ImagePairs(p)}
         = {ImageFrame(m, <<p.pagemap, t[k].page>>) : k \in 1 .. Len(t)}
  BY <1>4
<1>8. {virt_to_phys(n, p.pagemap, v) : v \in ImagePages(p.image)}
         = {virt_to_phys(n, p.pagemap, t[k].page) : k \in 1 .. Len(t)}
  BY <1>3
<1> QED BY <1>6, <1>7, <1>8 DEF ShownFrames, LoadedFrames

\* The uses that the property is about.
LEMMA UsersAre ==
    ASSUME NEW m, m.table = mem.table, m.kernel = mem.kernel, m.ctx = mem.ctx,
           NEW l, Regions = Members(l), procs \in Seq(Process),
           \A r \in owned : virt_to_phys(mem, mem.kernel, r.start) = FirstFrame(m, r), NEW u
    PROVE  u \in Users <=> UseOf(m, l, owned, procs, u)
<1>0. DOMAIN procs = 1 .. Len(procs) /\ DOMAIN NoTable = Slots /\ LowerSlots = 0 .. (Half - 1)
  BY DEF NoTable, Slots, LowerSlots
<1>1. \A q, S : TablesOf(mem, q, S) = TablesOf(m, q, S)
  BY DEF TablesOf, NextTables
<1>2. KernelUses = {Use(0, "tables", TablesOf(m, m.kernel, Slots)), Use(0, "regions", Members(l)),
                    Use(0, "context", {m.ctx}), Use(0, "heap", {FirstFrame(m, r) : r \in owned})}
  <2>1. {virt_to_phys(mem, mem.kernel, r.start) : r \in owned} = {FirstFrame(m, r) : r \in owned}
    OBVIOUS
  <2> QED BY <1>0, <1>1, <2>1 DEF KernelUses
<1>3. \A k \in 1 .. Len(procs) :
         ProcessUses(k) = {Use(k, "tables", TablesOf(m, procs[k].pagemap, LowerSlots)),
                           Use(k, "process", {procs[k].proc}), Use(k, "stack", {procs[k].stack}),
                           Use(k, "image", {ImageFrame(m, i) : i \in ImagePairs(procs[k])})}
  <2> TAKE k \in 1 .. Len(procs)
  <2>1. PICK p \in Process : p = procs[k]
    OBVIOUS
  <2>2. PICK n : n = mem
    OBVIOUS
  <2>3. {virt_to_phys(n, p.pagemap, v) : v \in ImagePages(p.image)} = {ImageFrame(m, i) : i \in ImagePairs(p)}
    <3>1. n.table = m.table
      BY <2>2
    <3>2. ShownFrames(n, p) = LoadedFrames(m, p)
      BY <3>1, PagesShown
    <3> QED BY <3>2 DEF ShownFrames, LoadedFrames
  <2> QED BY <1>0, <1>1, <2>1, <2>2, <2>3 DEF ProcessUses
<1>4. Users = KernelUses \cup UNION {ProcessUses(k) : k \in 1 .. Len(procs)}
  BY <1>0 DEF Users
<1>5. ASSUME u \in KernelUses PROVE UseOf(m, l, owned, procs, u)
  <2>1. CASE u = Use(0, "tables", TablesOf(m, m.kernel, Slots))
    <3>1. u.of = 0 /\ u.part = "tables" /\ u.frames = TablesOf(m, m.kernel, Slots)
      BY <2>1 DEF Use
    <3> QED BY <2>1, <3>1 DEF UseOf, TablesUse
  <2>2. CASE u = Use(0, "regions", Members(l))
    <3>1. u.of = 0 /\ u.part = "regions" /\ u.frames = Members(l)
      BY <2>2 DEF Use
    <3> QED BY <2>2, <3>1 DEF UseOf, RegionsUse
  <2>3. CASE u = Use(0, "context", {m.ctx})
    <3>1. u.of = 0 /\ u.part = "context" /\ u.frames = {m.ctx}
      BY <2>3 DEF Use
    <3> QED BY <2>3, <3>1 DEF UseOf, OneFrameUse
  <2>4. CASE u = Use(0, "heap", {FirstFrame(m, r) : r \in owned})
    <3>1. u.of = 0 /\ u.part = "heap" /\ u.frames = {FirstFrame(m, r) : r \in owned}
      BY <2>4 DEF Use
    <3> QED BY <2>4, <3>1 DEF UseOf, BlocksUse
  <2> QED BY <1>2, <1>5, <2>1, <2>2, <2>3, <2>4
<1>6. ASSUME NEW k \in 1 .. Len(procs), u \in ProcessUses(k) PROVE UseOf(m, l, owned, procs, u)
  <2>1. CASE u = Use(k, "tables", TablesOf(m, procs[k].pagemap, LowerSlots))
    <3>1. u.of = k /\ u.part = "tables" /\ u.frames = TablesOf(m, procs[k].pagemap, LowerSlots)
      BY <2>1 DEF Use
    <3> QED BY <2>1, <3>1 DEF UseOf, TablesUse
  <2>2. CASE u = Use(k, "process", {procs[k].proc})
    <3>1. u.of = k /\ u.part = "process" /\ u.frames = {procs[k].proc}
      BY <2>2 DEF Use
    <3> QED BY <2>2, <3>1 DEF UseOf, OneFrameUse
  <2>3. CASE u = Use(k, "stack", {procs[k].stack})
    <3>1. u.of = k /\ u.part = "stack" /\ u.frames = {procs[k].stack}
      BY <2>3 DEF Use
    <3> QED BY <2>3, <3>1 DEF UseOf, OneFrameUse
  <2>4. CASE u = Use(k, "image", {ImageFrame(m, i) : i \in ImagePairs(procs[k])})
    <3>1. u.of = k /\ u.part = "image" /\ u.frames = {ImageFrame(m, i) : i \in ImagePairs(procs[k])}
      BY <2>4 DEF Use
    <3> QED BY <2>4, <3>1 DEF UseOf, PagesUse
  <2> QED BY <1>3, <1>6, <2>1, <2>2, <2>3, <2>4
<1>7. ASSUME UseOf(m, l, owned, procs, u) PROVE u \in Users
  <2>0. u = Use(u.of, u.part, u.frames)
    BY <1>7 DEF UseOf
  <2>1. CASE TablesUse(m, procs, u)
    <3>1. CASE u.of = 0 /\ u.frames = TablesOf(m, m.kernel, Slots)
      <4>1. u \in KernelUses
        BY <1>2, <2>0, <2>1, <3>1 DEF TablesUse
      <4> QED BY <1>4, <4>1
    <3>2. CASE u.of \in 1 .. Len(procs) /\ u.frames = TablesOf(m, procs[u.of].pagemap, LowerSlots)
      <4>1. u \in ProcessUses(u.of)
        BY <1>3, <2>0, <2>1, <3>2 DEF TablesUse
      <4> QED BY <1>4, <3>2, <4>1
    <3> QED BY <2>1, <3>1, <3>2 DEF TablesUse
  <2>2. CASE RegionsUse(l, u)
    <3>1. u \in KernelUses
      BY <1>2, <2>0, <2>2 DEF RegionsUse
    <3> QED BY <1>4, <3>1
  <2>3. CASE BlocksUse(m, owned, u)
    <3>1. u \in KernelUses
      BY <1>2, <2>0, <2>3 DEF BlocksUse
    <3> QED BY <1>4, <3>1
  <2>4. CASE OneFrameUse(m, procs, u)
    <3>1. CASE u.part = "context" /\ u.of = 0 /\ u.frames = {m.ctx}
      <4>1. u \in KernelUses
        BY <1>2, <2>0, <3>1
      <4> QED BY <1>4, <4>1
    <3>2. CASE u.part = "process" /\ u.of \in 1 .. Len(procs) /\ u.frames = {procs[u.of].proc}
      <4>1. u \in ProcessUses(u.of)
        BY <1>3, <2>0, <3>2
      <4> QED BY <1>4, <3>2, <4>1
    <3>3. CASE u.part = "stack" /\ u.of \in 1 .. Len(procs) /\ u.frames = {procs[u.of].stack}
      <4>1. u \in ProcessUses(u.of)
        BY <1>3, <2>0, <3>3
      <4> QED BY <1>4, <3>3, <4>1
    <3> QED BY <2>4, <3>1, <3>2, <3>3 DEF OneFrameUse
  <2>5. CASE PagesUse(m, procs, u)
    <3>1. u.of \in 1 .. Len(procs) /\ u \in ProcessUses(u.of)
      BY <1>3, <2>0, <2>5 DEF PagesUse
    <3> QED BY <1>4, <3>1
  <2> QED BY <1>7, <2>1, <2>2, <2>3, <2>4, <2>5 DEF UseOf
<1> QED BY <1>4, <1>5, <1>6, <1>7

\* The invariant accounts for every frame.
LEMMA InvFrames == Inv => FramesAccounted
<1> SUFFICES ASSUME Inv, pc \in {"run", "user"}, Sane, "stray" \notin mem.events
             PROVE  FramesAccounted
  BY DEF FramesAccounted
<1>1. PICK B \in Nat : \E m \in Memory(Frame, B) : \E use, l :
            /\ B <= HHDM /\ mem \in Memory(Pointer, B) /\ Leaves(m, mem)
            /\ Running(m, use, l, owned, procs) /\ procs \in Seq(Process)
  BY RunningState
<1>2. PICK m \in Memory(Frame, B) : \E use, l :
            /\ B <= HHDM /\ mem \in Memory(Pointer, B) /\ Leaves(m, mem)
            /\ Running(m, use, l, owned, procs) /\ procs \in Seq(Process)
  BY <1>1
<1>3. PICK use, l : /\ mem \in Memory(Pointer, B) /\ Leaves(m, mem)
                         /\ Running(m, use, l, owned, procs)
                    /\ procs \in Seq(Process)
  BY <1>2
<1>4. PICK n, own, ps : n = mem /\ own = owned /\ ps = procs
  OBVIOUS
<1>5. n \in Memory(Pointer, B) /\ Leaves(m, n) /\ Running(m, use, l, own, ps) /\ ps \in Seq(Process)
  BY <1>3, <1>4
<1>6. /\ Chain(n, l) /\ RegionList(n) = l /\ DOMAIN l = 1 .. Len(l) /\ Len(l) \in Nat
      /\ Range(RegionList(n)) = Members(l)
      /\ \A r \in own : /\ FirstFrame(n, r) = FirstFrame(m, r)
                        /\ \E k \in 2 .. Len(l) : r = Extent(n, l[k])
  BY <1>5, HeapIs
<1>7. Regions = Members(l)
  BY <1>4, <1>6 DEF Regions
<1>8. /\ m.table = mem.table /\ m.kernel = mem.kernel /\ m.ctx = mem.ctx /\ m.max = mem.max
      /\ m.held = mem.held
  BY <1>3 DEF Leaves, Alike
<1>9. \A r \in owned : virt_to_phys(mem, mem.kernel, r.start) = FirstFrame(m, r)
  BY <1>4, <1>6 DEF FirstFrame
<1>10. \A u : u \in Users <=> UseOf(m, l, own, ps, u)
  BY <1>3, <1>4, <1>7, <1>8, <1>9, UsersAre
<1>11. \A r \in own : r.start \in Nat
  BY <1>4, VirtNat DEF Inv, TypeInv
<1>12. ASSUME NEW u \in Users, NEW v \in Users, u # v
       PROVE  u.frames \cap v.frames = {}
  <2> SUFFICES ASSUME NEW f, f \in u.frames, f \in v.frames PROVE FALSE
    OBVIOUS
  <2>1. UseOf(m, l, own, ps, u) /\ UseOf(m, l, own, ps, v)
    BY <1>10
  <2>2. u = v
    BY <1>5, <1>11, <2>1, OnePurpose
  <2> QED BY <1>12, <2>2
<1>13. Whole(m) /\ Tree(m, use)
  <2>1. "stray" \notin m.events
    BY <1>3 DEF Leaves
  <2> QED BY <1>5, <2>1 DEF Running, Good, Sound
<1>14. ASSUME NEW u \in Users, NEW f \in u.frames
       PROVE  f \in m.held /\ f \notin Range(mem.stack)
  <2>1. UseOf(m, l, own, ps, u)
    BY <1>10
  <2>2. Labelled(use, u, f)
    BY <1>5, <1>11, <2>1, UseLabelled
  <2>3. u.part \in {"tables", "regions", "heap", "context", "process", "stack", "image"}
    BY <2>1 DEF UseOf, TablesUse, RegionsUse, BlocksUse, OneFrameUse, PagesUse
  <2>4. f \in Frame /\ use[f] # 0
    BY <2>2, <2>3 DEF Labelled, RegionUse, HeapUse, OtherUse, ImageUse
  <2>5. f \in m.held
    BY <1>13, <2>4 DEF Tree
  <2>6. f \notin Range(m.stack)
    BY <1>13, <2>5 DEF Whole, Tidy
  <2>7. Range(mem.stack) \cap Frame \subseteq Range(m.stack)
    BY <1>3 DEF Leaves
  <2> QED BY <2>4, <2>5, <2>6, <2>7
<1>15. ASSUME mem.events = {}, \A k \in DOMAIN procs : Separate(procs[k].image)
       PROVE  (UNION {u.frames : u \in Users}) \cup Range(mem.stack) = 1 .. mem.max
  <2>1. m.events = {} /\ Range(mem.stack) = Range(m.stack)
    BY <1>3, <1>15 DEF Leaves
  <2>2. \A k \in 1 .. Len(ps) : Distinct(LoadOrder(ps[k].image))
    <3> TAKE k \in 1 .. Len(ps)
    <3>1. PICK image, t : image = ps[k].image /\ t = LoadOrder(image)
      OBVIOUS
    <3>2. ps[k] \in Process
      BY <1>5
    <3>3. image \in Images \cup {KernelThread}
      BY <3>1, <3>2 DEF Process
    <3>4. k \in DOMAIN procs
      BY <1>4, <1>5
    <3>5. Separate(image)
      BY <1>4, <1>15, <3>1, <3>4
    <3>6. Distinct(t)
      BY <3>1, <3>3, <3>5, SeparateDistinct
    <3> QED BY <3>1, <3>6
  <2>3. \A f \in m.held : Used(m, l, own, ps, f)
    BY <1>5, <2>1, <2>2, HeldUsed
  <2>4. \A f \in m.held : \E u \in Users : f \in u.frames
    BY <1>10, <2>3 DEF Used
  <2>5. Range(m.stack) \cup m.held = 1 .. m.max
    BY <1>13 DEF Whole
  <2>6. PICK X : X = UNION {u.frames : u \in Users}
    OBVIOUS
  <2>7. X = m.held
    BY <1>14, <2>4, <2>6
  <2>8. m.max = mem.max
    BY <1>8
  <2>9. m.held \cup Range(mem.stack) = 1 .. m.max
    BY <2>1, <2>5
  <2> QED BY <2>6, <2>7, <2>8, <2>9
<1>16. \A u \in Users : u.frames \cap Range(mem.stack) = {}
  BY <1>14
<1> QED BY <1>12, <1>15, <1>16 DEF FramesAccounted

\* Until vma_free gives back frames the region never had: no frame that pmm_request_page
\* gave out has two uses or is free while it is used, and as long as nothing failed every
\* frame is free or used: tables, regions, images and processes leak nothing.
THEOREM FramesHaveOneUse == Spec => []FramesAccounted
BY Invariant, InvFrames, PTL
================================================================================
