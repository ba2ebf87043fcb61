------------------------------- MODULE PmmProofs -------------------------------
(***************************************************************************)
(* Proofs about the physical memory manager, for every memory map and      *)
(* every number of stack entries per page.                                 *)
(***************************************************************************)
EXTENDS Pmm, FiniteSetTheorems, TLAPS

(***************************************************************************)
(* The inductive invariant.                                                *)
(***************************************************************************)
MemMapInv ==    \* the entries pmm_init pushes from are the map without the array
    /\ Len(memmap) = Len(limine)
    /\ \A k \in DOMAIN limine :
          /\ memmap[k].type = limine[k].type
          /\ memmap[k].type = "usable" => Frames(memmap[k]) = Frames(limine[k]) \ ArrayFrames

Counted == IF pc = "count" THEN UsableFrames(limine, i - 1) ELSE Managed

CountInv ==     \* free_pages is the number of usable frames met so far
    /\ pc = "count" => i <= Len(limine) + 1
    /\ IsFiniteSet(Counted)
    /\ free_pages = Cardinality(Counted)
    /\ pc # "count" => array_size = DIV_ROUND_UP(free_pages, PtrsPerPage)

Early ==        \* before the third loop nothing is on the stack
    pc \in {"count", "place"} => memmap = limine /\ pages = Null /\ idx = 0

Current ==      \* the pages of entry i that are already pushed
    IF i <= Len(memmap) /\ memmap[i].type = "usable"
    THEN memmap[i].base .. (memmap[i].base + j - 1) ELSE {}

Distinct == \A k, l \in 0 .. (idx - 1) : slot[k] = slot[l] => k = l

PushInv ==      \* the stack holds the pages met so far, each of them once
    pc = "push" =>
        /\ pages = Null => idx = 0
        /\ i <= Len(memmap) + 1
        /\ i <= Len(memmap) /\ memmap[i].type = "usable" => j <= memmap[i].length
        /\ Stacked = UsableFrames(memmap, i - 1) \cup Current
        /\ Distinct
        /\ IsFiniteSet(Stacked) /\ Cardinality(Stacked) = idx

Untouched == pc \in {"count", "place", "push"} => held = {}

FaultInv == pc = "fault" /\ ~misused => idx = 0 /\ held = {}

Misuse == misused => pc \in {"ready", "fault"}

Owned ==        \* every frame is on the stack or held, and never both
    pc = "ready" /\ ~misused =>
        /\ Distinct
        /\ Stacked \cap held = {}
        /\ Stacked \cup held = Managed \ ArrayFrames
        /\ IsFiniteSet(Stacked) /\ Cardinality(Stacked) = idx
        /\ max = Cardinality(Managed \ ArrayFrames)

Bounded ==      \* the stack is never higher than the number of usable frames
    /\ pc = "ready" => idx <= max /\ max <= free_pages
    /\ pc # "count" => idx <= free_pages

Inv == /\ TypeOK /\ MemMapInv /\ CountInv /\ Early /\ PushInv /\ FaultInv
       /\ Misuse /\ Owned /\ Bounded /\ Untouched

--------------------------------------------------------------------------------
(* Lemmas about the operators. *)

\* DIV_ROUND_UP rounds up: that many pages have room for n entries.
LEMMA RoundUp ==
    ASSUME NEW n \in Nat
    PROVE  /\ DIV_ROUND_UP(n, PtrsPerPage) \in Nat
           /\ n <= PtrsPerPage * DIV_ROUND_UP(n, PtrsPerPage)
<1> DEFINE q == (n + (PtrsPerPage - 1)) \div PtrsPerPage
           r == (n + (PtrsPerPage - 1)) % PtrsPerPage
<1>1. n + (PtrsPerPage - 1) = PtrsPerPage * q + r /\ r <= PtrsPerPage - 1 /\ q \in Nat /\ r \in Nat
  BY PtrsAssumption
<1> QED BY <1>1, PtrsAssumption DEF DIV_ROUND_UP

\* A frame is usable when some usable entry holds it.
LEMMA UsableMember ==
    ASSUME NEW mm, NEW n, NEW f
    PROVE  f \in UsableFrames(mm, n) <=>
              \E k \in DOMAIN mm : k <= n /\ mm[k].type = "usable" /\ f \in Frames(mm[k])
BY DEF UsableFrames

\* One more entry adds its own frames if it is usable.
LEMMA UsableStep ==
    ASSUME NEW mm \in Seq(Entry), NEW n \in 1 .. Len(mm)
    PROVE  UsableFrames(mm, n) =
              UsableFrames(mm, n - 1) \cup (IF mm[n].type = "usable" THEN Frames(mm[n]) ELSE {})
<1>1. \A k \in DOMAIN mm : k <= n <=> (k <= n - 1 \/ k = n)
  OBVIOUS
<1>2. n \in DOMAIN mm
  OBVIOUS
<1> QED BY <1>1, <1>2, UsableMember, Zenon

\* No entry, no frame.
LEMMA UsableNone ==
    ASSUME NEW mm \in Seq(Entry)
    PROVE  UsableFrames(mm, 0) = {}
BY DEF UsableFrames

\* The number of frames of an entry is its length.
LEMMA EntryFrames ==
    ASSUME NEW e \in Entry
    PROVE  IsFiniteSet(Frames(e)) /\ Cardinality(Frames(e)) = e.length
<1>1. e.base \in Nat /\ e.length \in Nat /\ e.base + e.length - 1 \in Int /\ e.base \in Int
  BY DEF Entry
<1>2. IsFiniteSet(Frames(e)) /\ Cardinality(Frames(e)) =
        IF e.base > e.base + e.length - 1 THEN 0 ELSE (e.base + e.length - 1) - e.base + 1
  BY <1>1, FS_Interval DEF Frames
<1> QED BY <1>1, <1>2

--------------------------------------------------------------------------------
(* The invariant holds initially and is preserved by every action. *)

\* What the invariant says of the boot loader's map.
LEMMA MapFacts ==
    ASSUME TypeOK
    PROVE  /\ limine \in Seq(Entry)
           /\ \A k, l \in DOMAIN limine :
                 k # l /\ limine[k].type = "usable" /\ limine[l].type = "usable"
                    => Frames(limine[k]) \cap Frames(limine[l]) = {}
           /\ Managed \subseteq Nat \ {0}
<1>1. WellFormed(limine)
  BY MapAssumption DEF TypeOK
<1>2. \A k \in DOMAIN limine : limine[k] \in Entry
  BY <1>1 DEF WellFormed
<1>3. \A k \in DOMAIN limine : Frames(limine[k]) \subseteq Nat \ {0}
  BY <1>2 DEF Frames, Entry
<1>4. Managed \subseteq Nat \ {0}
  BY <1>3, UsableMember DEF Managed
<1> QED BY <1>1, <1>4 DEF WellFormed

\* Before pmm_init nothing is counted, placed or pushed.
LEMMA InitInv == Init => Inv
<1> SUFFICES ASSUME Init PROVE Inv
  OBVIOUS
<1>1. limine \in Seq(Entry) /\ memmap = limine
  BY MapAssumption DEF Init, WellFormed
<1>2. TypeOK
  <2>1. misused \in BOOLEAN
    BY Zenon DEF Init
  <2> QED BY <1>1, <2>1 DEF Init, TypeOK, Null
<1>3. MemMapInv
  BY <1>1 DEF Init, MemMapInv, ArrayFrames
<1>4. CountInv
  <2>1. Counted = {}
    BY <1>1, UsableNone DEF Init, Counted
  <2> QED BY <2>1, <1>1, FS_EmptySet DEF Init, CountInv
<1> QED BY <1>2, <1>3, <1>4 DEF Init, Inv, Early, PushInv, FaultInv, Misuse, Owned, Bounded, Untouched

\* Counting one entry adds its frames to those counted.
LEMMA CountEntryInv == Inv /\ CountEntry => Inv'
<1> SUFFICES ASSUME Inv, CountEntry PROVE Inv'
  OBVIOUS
<1> USE DEF CountEntry
<1>1. /\ TypeOK /\ pc = "count" /\ memmap = limine /\ i \in 1 .. Len(limine)
      /\ free_pages = Cardinality(UsableFrames(limine, i - 1))
      /\ IsFiniteSet(UsableFrames(limine, i - 1))
  BY DEF Inv, CountInv, Early, Counted, TypeOK
<1>2. limine[i] \in Entry /\ limine[i].length \in Nat
  <2>1. limine[i] \in Entry
    BY <1>1, MapFacts
  <2> QED BY <2>1 DEF Entry
<1>3. TypeOK'
  BY <1>1, <1>2 DEF TypeOK
<1>4. CountInv'
  <2>1. Counted' = UsableFrames(limine, i)
    BY <1>1 DEF Counted
  <2>2. CASE limine[i].type = "usable"
    <3>1. UsableFrames(limine, i) = UsableFrames(limine, i - 1) \cup Frames(limine[i])
      BY <1>1, <2>2, MapFacts, UsableStep
    <3>2. UsableFrames(limine, i - 1) \cap Frames(limine[i]) = {}
      <4>1. \A k \in DOMAIN limine : k <= i - 1 => k # i
        BY <1>1, MapFacts
      <4>2. i \in DOMAIN limine
        BY <1>1, MapFacts
      <4> QED BY <1>1, <2>2, <4>1, <4>2, MapFacts, UsableMember, Zenon
    <3>3. IsFiniteSet(UsableFrames(limine, i)) /\
          Cardinality(UsableFrames(limine, i)) = free_pages + limine[i].length - 0
      <4>1. IsFiniteSet(Frames(limine[i])) /\ Cardinality(Frames(limine[i])) = limine[i].length
        BY <1>2, EntryFrames
      <4>2. /\ IsFiniteSet(UsableFrames(limine, i))
            /\ Cardinality(UsableFrames(limine, i)) =
                 Cardinality(UsableFrames(limine, i - 1)) + Cardinality(Frames(limine[i]))
                   - Cardinality({})
        BY <1>1, <3>1, <3>2, <4>1, FS_Union, Zenon
      <4> QED BY <1>1, <4>1, <4>2, FS_EmptySet
    <3> QED BY <1>1, <1>2, <2>1, <2>2, <3>3 DEF CountInv, TypeOK
  <2>3. CASE limine[i].type # "usable"
    <3>1. UsableFrames(limine, i) = UsableFrames(limine, i - 1)
      <4>1. UsableFrames(limine, i) = UsableFrames(limine, i - 1) \cup {}
        BY <1>1, <2>3, MapFacts, UsableStep
      <4> QED BY <4>1, Zenon
    <3> QED BY <1>1, <2>1, <2>3, <3>1 DEF CountInv, TypeOK
  <2> QED BY <2>2, <2>3
<1>5. MemMapInv'
  BY <1>1 DEF Inv, MemMapInv, ArrayFrames
<1> QED
  BY <1>1, <1>3, <1>4, <1>5
  DEF Inv, Early, PushInv, FaultInv, Misuse, Owned, Bounded, Untouched

\* The array is as long as DIV_ROUND_UP says.
LEMMA SizeArrayInv == Inv /\ SizeArray => Inv'
<1> SUFFICES ASSUME Inv, SizeArray PROVE Inv'
  OBVIOUS
<1> USE DEF SizeArray
<1>1. /\ TypeOK /\ pc = "count" /\ memmap = limine /\ i = Len(limine) + 1
      /\ limine \in Seq(Entry)
  BY MapFacts DEF Inv, CountInv, Early, TypeOK
<1>2. Managed' = Counted
  BY <1>1 DEF Managed, Counted
<1>3. TypeOK'
  BY <1>1, RoundUp DEF TypeOK
<1>4. CountInv'
  BY <1>1, <1>2 DEF Inv, CountInv, Counted
<1>5. MemMapInv'
  BY <1>1 DEF Inv, MemMapInv, ArrayFrames, Early
<1> QED
  BY <1>1, <1>3, <1>4, <1>5
  DEF Inv, Early, PushInv, FaultInv, Misuse, Owned, Bounded, Untouched, TypeOK

\* An entry that cannot host the array is left as it is.
LEMMA SkipEntryInv == Inv /\ SkipEntry => Inv'
<1> SUFFICES ASSUME Inv, SkipEntry PROVE Inv'
  OBVIOUS
<1> USE DEF SkipEntry
<1>1. TypeOK'
  BY DEF Inv, TypeOK
<1>2. CountInv'
  BY DEF Inv, CountInv, Counted, Managed
<1>3. MemMapInv'
  BY DEF Inv, MemMapInv, ArrayFrames
<1> QED
  BY <1>1, <1>2, <1>3
  DEF Inv, Early, PushInv, FaultInv, Misuse, Owned, Bounded, Untouched

\* The pages to push are the usable frames without those of the array.
LEMMA PushedFrames ==
    ASSUME TypeOK, MemMapInv, NEW n
    PROVE  UsableFrames(memmap, n) = UsableFrames(limine, n) \ ArrayFrames
<1>1. DOMAIN memmap = DOMAIN limine
  BY MapFacts DEF MemMapInv, TypeOK
<1>2. \A f : f \in UsableFrames(memmap, n) <=>
             f \in UsableFrames(limine, n) /\ f \notin ArrayFrames
  <2> TAKE f
  <2>1. f \in UsableFrames(memmap, n) <=>
           \E k \in DOMAIN memmap : k <= n /\ memmap[k].type = "usable" /\ f \in Frames(memmap[k])
    BY UsableMember
  <2>2. f \in UsableFrames(limine, n) <=>
           \E k \in DOMAIN limine : k <= n /\ limine[k].type = "usable" /\ f \in Frames(limine[k])
    BY UsableMember
  <2> QED BY <1>1, <2>1, <2>2 DEF MemMapInv
<1> QED BY <1>2, Zenon

\* A stack of height 0 is empty.
LEMMA EmptyStack == idx = 0 => Stacked = {} /\ Distinct
BY DEF Stacked, Distinct

\* The array takes the first array_size frames of its entry, and of no other.
LEMMA PlaceArrayInv == Inv /\ PlaceArray => Inv'
<1> SUFFICES ASSUME Inv, PlaceArray PROVE Inv'
  OBVIOUS
<1>1. /\ TypeOK /\ pc = "place" /\ memmap = limine /\ i \in 1 .. Len(limine) /\ idx = 0
      /\ limine \in Seq(Entry) /\ i \in DOMAIN limine
  BY MapFacts DEF Inv, Early, TypeOK, PlaceArray
<1>2. limine[i] \in Entry
  BY <1>1
<1>3. /\ limine[i].base \in Nat \ {0} /\ limine[i].length \in Nat /\ limine[i].type = "usable"
      /\ limine[i].type \in {"usable", "other"}
      /\ array_size \in Nat /\ limine[i].length >= array_size
  BY <1>1, <1>2 DEF Entry, PlaceArray, Hosts, TypeOK
<1> DEFINE e == [base |-> limine[i].base + array_size,
                 length |-> limine[i].length - array_size,
                 type |-> limine[i].type]
<1>4. e \in Entry
  <2>1. limine[i].base + array_size \in Nat \ {0} /\ limine[i].length - array_size \in Nat
    BY <1>3
  <2> QED BY <1>3, <2>1, Zenon DEF Entry
<1>5. memmap' = [limine EXCEPT ![i] = e] /\ limine' = limine
  BY <1>1 DEF PlaceArray, Behind
<1>6. /\ memmap' \in Seq(Entry) /\ Len(memmap') = Len(limine)
      /\ memmap'[i] = e /\ \A k \in DOMAIN limine : k # i => memmap'[k] = limine[k]
  BY <1>1, <1>4, <1>5
<1>7. TypeOK'
  BY <1>1, <1>3, <1>6 DEF TypeOK, PlaceArray
<1>8. ArrayFrames' = limine[i].base .. (limine[i].base + array_size - 1)
  BY <1>1, <1>3 DEF PlaceArray, ArrayFrames, Null
<1>9. MemMapInv'
  <2>1. ArrayFrames' \subseteq Frames(limine[i])
    BY <1>3, <1>8 DEF Frames
  <2>2. ASSUME NEW k \in DOMAIN limine
        PROVE  /\ memmap'[k].type = limine[k].type
               /\ memmap'[k].type = "usable" => Frames(memmap'[k]) = Frames(limine[k]) \ ArrayFrames'
    <3>1. CASE k = i
      <4>1. memmap'[k].type = limine[k].type
        BY <1>2, <1>6, <3>1 DEF Entry
      <4>2. Frames(e) = Frames(limine[i]) \ ArrayFrames'
        BY <1>2, <1>3, <1>8 DEF Frames, Entry
      <4> QED BY <1>6, <3>1, <4>1, <4>2
    <3>2. CASE k # i
      <4>1. memmap'[k] = limine[k]
        BY <1>6, <3>2
      <4>2. limine[k].type = "usable" => Frames(limine[k]) \cap Frames(limine[i]) = {}
        BY <1>1, <1>3, <3>2, MapFacts
      <4> QED BY <2>1, <4>1, <4>2, Zenon
    <3> QED BY <3>1, <3>2
  <2> QED BY <1>5, <1>6, <2>2 DEF MemMapInv
<1>10. CountInv'
  BY <1>1, <1>5 DEF Inv, CountInv, Counted, Managed, PlaceArray
<1>11. PushInv'
  <2>1. Stacked' = {} /\ Distinct'
    BY <1>1 DEF PlaceArray, Stacked, Distinct
  <2>2. UsableFrames(memmap', 0) = {}
    BY <1>6, UsableNone
  <2>4. 1 <= Len(memmap') => memmap'[1].length \in Nat /\ memmap'[1].base \in Nat
    <3>1. 1 <= Len(memmap') => memmap'[1] \in Entry
      BY <1>6
    <3> QED BY <3>1 DEF Entry
  <2>3. Current' = {}
    <3>1. i' = 1 /\ j' = 0
      BY DEF PlaceArray
    <3>2. 1 <= Len(memmap') => memmap'[1].base \in Nat
      BY <1>6, <2>4
    <3> QED BY <3>1, <3>2 DEF Current
  <2>5. i' = 1 /\ j' = 0 /\ idx' = 0 /\ i' - 1 = 0 /\ 1 <= Len(memmap') + 1
    BY <1>1, <1>6 DEF PlaceArray
  <2>6. Stacked' = UsableFrames(memmap', i' - 1) \cup Current'
    BY <2>1, <2>2, <2>3, <2>5, Zenon
  <2> QED BY <2>1, <2>4, <2>5, <2>6, FS_EmptySet DEF PushInv
<1> QED
  BY <1>1, <1>7, <1>9, <1>10, <1>11
  DEF Inv, Early, FaultInv, Misuse, Owned, Bounded, Untouched, PlaceArray, TypeOK

\* Without a host the third loop starts with no array and an empty stack.
LEMMA NoPlaceInv == Inv /\ NoPlace => Inv'
<1> SUFFICES ASSUME Inv, NoPlace PROVE Inv'
  OBVIOUS
<1>1. TypeOK /\ pc = "place" /\ memmap \in Seq(Entry) /\ idx = 0
  BY DEF Inv, Early, TypeOK, NoPlace
<1>2. TypeOK'
  BY <1>1 DEF TypeOK, NoPlace
<1>3. CountInv'
  BY <1>1 DEF Inv, CountInv, Counted, Managed, NoPlace
<1>4. MemMapInv'
  BY DEF Inv, MemMapInv, ArrayFrames, NoPlace
<1>5. PushInv'
  <2>1. Stacked' = {} /\ Distinct'
    BY <1>1 DEF NoPlace, Stacked, Distinct
  <2>2. UsableFrames(memmap, 0) = {}
    BY <1>1, UsableNone
  <2>3. 1 <= Len(memmap) => memmap[1].length \in Nat /\ memmap[1].base \in Nat
    <3>1. 1 <= Len(memmap) => memmap[1] \in Entry
      BY <1>1
    <3> QED BY <3>1 DEF Entry
  <2>4. Current' = {}
    BY <2>3 DEF Current, NoPlace
  <2>5. i' = 1 /\ j' = 0 /\ idx' = 0 /\ i' - 1 = 0 /\ 1 <= Len(memmap) + 1 /\ memmap' = memmap
    BY <1>1 DEF NoPlace
  <2>6. Stacked' = UsableFrames(memmap', i' - 1) \cup Current'
    BY <2>1, <2>2, <2>4, <2>5, Zenon
  <2> QED BY <2>1, <2>3, <2>5, <2>6, FS_EmptySet DEF PushInv
<1> QED
  BY <1>1, <1>2, <1>3, <1>4, <1>5
  DEF Inv, Early, FaultInv, Misuse, Owned, Bounded, Untouched, NoPlace, TypeOK

\* Pushing onto the stack adds one entry and keeps the others.
LEMMA PushStack ==
    ASSUME TypeOK, NEW v, slot' = Put(slot, idx, v), idx' = idx + 1
    PROVE  /\ Stacked' = Stacked \cup {v}
           /\ \A k \in 0 .. (idx - 1) : k \in DOMAIN slot' /\ slot'[k] = slot[k]
           /\ idx \in DOMAIN slot' /\ slot'[idx] = v
           /\ Distinct /\ v \notin Stacked => Distinct'
<1>1. idx \in Nat /\ \A k \in 0 .. (idx - 1) : k \in DOMAIN slot
  BY DEF TypeOK
<1>2. \A k \in 0 .. (idx - 1) : k \in DOMAIN slot' /\ slot'[k] = slot[k]
  BY <1>1 DEF Put
<1>3. idx \in DOMAIN slot' /\ slot'[idx] = v
  BY <1>1 DEF Put
<1>4. 0 .. (idx' - 1) = (0 .. (idx - 1)) \cup {idx}
  BY <1>1
<1>5. Stacked' = {slot'[k] : k \in 0 .. (idx - 1)} \cup {slot'[idx]}
  BY <1>4, Zenon DEF Stacked
<1>6. Stacked' = Stacked \cup {v}
  BY <1>2, <1>3, <1>5, Zenon DEF Stacked
<1>7. ASSUME Distinct, v \notin Stacked PROVE Distinct'
  <2>1. \A k \in 0 .. (idx - 1) : slot[k] # v
    BY <1>7 DEF Stacked
  <2> QED BY <1>2, <1>3, <1>4, <1>7, <2>1 DEF Distinct
<1> QED BY <1>2, <1>3, <1>6, <1>7

\* What is on the stack during pmm_init is usable.
LEMMA StackUsable == ASSUME Inv, pc = "push" PROVE Stacked \subseteq Managed
<1>1. /\ TypeOK /\ MemMapInv /\ PushInv /\ memmap \in Seq(Entry) /\ limine \in Seq(Entry)
      /\ i \in Nat /\ i <= Len(limine) + 1 /\ DOMAIN memmap = DOMAIN limine
      /\ Len(memmap) = Len(limine) /\ j \in Nat
  BY MapFacts DEF Inv, TypeOK, PushInv, MemMapInv
<1>2. UsableFrames(memmap, i - 1) \subseteq UsableFrames(memmap, Len(limine))
  <2>1. \A k \in DOMAIN memmap : k <= i - 1 => k <= Len(limine)
    BY <1>1
  <2> QED BY <2>1, UsableMember
<1>3. Current \subseteq UsableFrames(memmap, Len(limine))
  <2>1. CASE i <= Len(memmap) /\ memmap[i].type = "usable"
    <3>1. i \in DOMAIN memmap /\ memmap[i] \in Entry
      BY <1>1, <2>1 DEF TypeOK
    <3>2. Current \subseteq Frames(memmap[i])
      BY <1>1, <2>1, <3>1 DEF Current, Frames, PushInv, Entry
    <3>3. i <= Len(limine)
      BY <1>1, <2>1
    <3> QED BY <2>1, <3>1, <3>2, <3>3, UsableMember
  <2>2. CASE ~(i <= Len(memmap) /\ memmap[i].type = "usable")
    BY <2>2, Zenon DEF Current
  <2> QED BY <2>1, <2>2
<1>4. UsableFrames(memmap, Len(limine)) \subseteq Managed
  BY <1>1, PushedFrames DEF Managed
<1> QED BY <1>1, <1>2, <1>3, <1>4, Zenon DEF PushInv

\* The page pushed is a usable frame that is not on the stack yet.
LEMMA PageToPush ==
    ASSUME Inv, PushPage
    PROVE  /\ memmap[i].base + j \in Managed
           /\ memmap[i].base + j \notin Stacked
           /\ Current' = Current \cup {memmap[i].base + j}
           /\ j + 1 <= memmap[i].length
<1> DEFINE f == memmap[i].base + j
<1>1. /\ TypeOK /\ MemMapInv /\ PushInv /\ pc = "push" /\ memmap \in Seq(Entry)
      /\ i \in 1 .. Len(memmap) /\ i \in DOMAIN memmap /\ i \in DOMAIN limine
      /\ j \in Nat /\ i <= Len(limine)
      /\ DOMAIN memmap = DOMAIN limine
  BY MapFacts DEF Inv, TypeOK, PushPage, MorePages, MemMapInv
<1>2. memmap[i] \in Entry
  BY <1>1
<1>3. /\ memmap[i].base \in Nat \ {0} /\ memmap[i].length \in Nat
      /\ memmap[i].type = "usable" /\ j < memmap[i].length
  BY <1>2 DEF Entry, PushPage, MorePages
<1>4. f \in Frames(memmap[i])
  BY <1>1, <1>3 DEF Frames
<1>5. f \in Managed
  <2>1. f \in UsableFrames(memmap, Len(limine))
    BY <1>1, <1>3, <1>4, UsableMember
  <2> QED BY <1>1, <2>1, PushedFrames DEF Managed
<1>6. f \notin Stacked
  <2>1. f \notin UsableFrames(memmap, i - 1)
    <3> SUFFICES ASSUME NEW k \in DOMAIN memmap, k <= i - 1, memmap[k].type = "usable",
                        f \in Frames(memmap[k])
                 PROVE  FALSE
      BY UsableMember
    <3>1. f \in Frames(limine[k]) /\ f \in Frames(limine[i]) /\ limine[k].type = "usable"
          /\ limine[i].type = "usable"
      BY <1>1, <1>3, <1>4 DEF MemMapInv
    <3>2. k # i
      BY <1>1
    <3> QED BY <1>1, <3>1, <3>2, MapFacts
  <2>2. f \notin Current
    BY <1>1, <1>3 DEF Current
  <2> QED BY <1>1, <2>1, <2>2 DEF PushInv
<1>7. Current' = Current \cup {f}
  BY <1>1, <1>3 DEF Current, PushPage
<1> QED BY <1>1, <1>3, <1>5, <1>6, <1>7

\* One more page on the stack, still no more than there are usable frames.
LEMMA PushPageInv == Inv /\ PushPage => Inv'
<1> SUFFICES ASSUME Inv, PushPage PROVE Inv'
  OBVIOUS
<1> DEFINE f == memmap[i].base + j
<1>1. /\ TypeOK /\ MemMapInv /\ CountInv /\ PushInv /\ pc = "push" /\ idx \in Nat /\ j \in Nat
  BY DEF Inv, TypeOK, PushPage
<1>2. /\ f \in Managed /\ f \notin Stacked /\ Current' = Current \cup {f}
      /\ j + 1 <= memmap[i].length
  BY PageToPush
<1>3. /\ slot' = Put(slot, idx, f) /\ idx' = idx + 1 /\ j' = j + 1 /\ pages # Null
      /\ UNCHANGED <<limine, memmap, pc, i, free_pages, array_size, pages, max, held, misused>>
  BY DEF PushPage, PageAt
<1>4. /\ Stacked' = Stacked \cup {f} /\ Distinct'
      /\ \A k \in 0 .. (idx - 1) : k \in DOMAIN slot' /\ slot'[k] = slot[k]
      /\ idx \in DOMAIN slot' /\ slot'[idx] = f
  BY <1>1, <1>2, <1>3, PushStack DEF PushInv
<1>5. TypeOK'
  <2>1. f \in Nat
    BY <1>1, <1>2, MapFacts
  <2> QED BY <1>1, <1>3, <1>4, <2>1 DEF TypeOK
<1>6. IsFiniteSet(Stacked') /\ Cardinality(Stacked') = idx'
  BY <1>1, <1>2, <1>3, <1>4, FS_AddElement DEF PushInv
<1>7. PushInv'
  <2>1. Stacked' = UsableFrames(memmap, i - 1) \cup Current'
    BY <1>1, <1>2, <1>4, Zenon DEF PushInv
  <2> QED BY <1>1, <1>2, <1>3, <1>4, <1>6, <2>1 DEF PushInv
<1>8. MemMapInv' /\ CountInv'
  BY <1>1, <1>3 DEF MemMapInv, CountInv, ArrayFrames, Counted, Managed
<1>9. idx' <= free_pages
  <2>1. Stacked' \subseteq Managed
    BY <1>1, <1>2, <1>4, StackUsable, Zenon
  <2>2. IsFiniteSet(Managed) /\ free_pages = Cardinality(Managed)
    BY <1>1 DEF CountInv, Counted
  <2> QED BY <1>6, <2>1, <2>2, FS_Subset
<1> QED
  BY <1>1, <1>3, <1>5, <1>7, <1>8, <1>9
  DEF Inv, Early, FaultInv, Misuse, Owned, Bounded, Untouched

\* With no array the first push faults, with nothing on the stack.
LEMMA PushFaultInv == Inv /\ PushFault => Inv'
<1> SUFFICES ASSUME Inv, PushFault PROVE Inv'
  OBVIOUS
<1>1. /\ pc = "push" /\ pc' = "fault" /\ pages = Null
      /\ UNCHANGED <<limine, memmap, i, j, free_pages, array_size, pages, max, slot, idx,
                     held, misused>>
  BY DEF PushFault, init_vars
<1>2. TypeOK' /\ MemMapInv' /\ CountInv'
  BY <1>1 DEF Inv, TypeOK, MemMapInv, CountInv, ArrayFrames, Counted, Managed
<1> QED
  BY <1>1, <1>2
  DEF Inv, Early, PushInv, FaultInv, Misuse, Owned, Bounded, Untouched

\* At the end of an entry all its frames are on the stack.
LEMMA NextEntryInv == Inv /\ NextEntry => Inv'
<1> SUFFICES ASSUME Inv, NextEntry PROVE Inv'
  OBVIOUS
<1>1. /\ TypeOK /\ MemMapInv /\ CountInv /\ PushInv /\ pc = "push" /\ memmap \in Seq(Entry)
      /\ i \in 1 .. Len(memmap) /\ j \in Nat
      /\ i' = i + 1 /\ j' = 0 /\ memmap' = memmap /\ i' - 1 = i
      /\ UNCHANGED <<limine, pc, free_pages, array_size, pages, slot, idx, max, held, misused>>
  BY DEF Inv, TypeOK, NextEntry
<1>2. memmap[i] \in Entry
  BY <1>1
<1>3. memmap[i].base \in Nat /\ memmap[i].length \in Nat
  BY <1>2 DEF Entry
<1>4. Current = IF memmap[i].type = "usable" THEN Frames(memmap[i]) ELSE {}
  BY <1>1, <1>3 DEF Current, Frames, PushInv, NextEntry, MorePages
<1>5. Stacked = UsableFrames(memmap, i)
  BY <1>1, <1>4, UsableStep DEF PushInv
<1>6. TypeOK' /\ MemMapInv' /\ CountInv'
  BY <1>1 DEF TypeOK, MemMapInv, CountInv, ArrayFrames, Counted, Managed
<1>7. PushInv'
  <2>1. i' <= Len(memmap) => memmap[i'].base \in Nat /\ memmap[i'].length \in Nat
    <3>1. i' <= Len(memmap) => memmap[i'] \in Entry
      BY <1>1
    <3> QED BY <3>1 DEF Entry
  <2>2. Current' = {}
    BY <1>1, <2>1 DEF Current
  <2>3. Stacked' = Stacked /\ Distinct' = Distinct
    BY <1>1 DEF Stacked, Distinct
  <2>4. Stacked' = UsableFrames(memmap', i' - 1) \cup Current'
    BY <1>1, <1>5, <2>2, <2>3, Zenon
  <2> QED BY <1>1, <2>1, <2>3, <2>4 DEF PushInv
<1> QED
  BY <1>1, <1>6, <1>7
  DEF Inv, Early, FaultInv, Misuse, Owned, Bounded, Untouched

\* When pmm_init ends the stack holds every usable frame but the array's.
LEMMA FinishInitInv == Inv /\ FinishInit => Inv'
<1> SUFFICES ASSUME Inv, FinishInit PROVE Inv'
  OBVIOUS
<1>1. /\ TypeOK /\ MemMapInv /\ CountInv /\ PushInv /\ pc = "push" /\ memmap \in Seq(Entry)
      /\ i = Len(memmap) + 1 /\ i - 1 = Len(limine) /\ idx \in Nat
      /\ max' = idx /\ pc' = "ready" /\ held = {}
      /\ UNCHANGED <<limine, memmap, i, j, free_pages, array_size, pages, slot, idx, held,
                     misused>>
  BY MapFacts DEF Inv, TypeOK, FinishInit, PushInv, MemMapInv, Untouched
<1>2. TypeOK' /\ MemMapInv' /\ CountInv'
  BY <1>1 DEF TypeOK, MemMapInv, CountInv, ArrayFrames, Counted, Managed
<1>3. Owned'
  <2>1. Current = {}
    BY <1>1 DEF Current
  <2>2. Stacked = UsableFrames(memmap, Len(limine))
    BY <1>1, <2>1, Zenon DEF PushInv
  <2>3. Stacked = Managed \ ArrayFrames
    BY <1>1, <2>2, PushedFrames DEF Managed
  <2>4. UNCHANGED <<Stacked, Distinct, Managed, ArrayFrames>>
    BY <1>1 DEF Stacked, Distinct, Managed, ArrayFrames
  <2> QED BY <1>1, <2>3, <2>4 DEF Owned, PushInv
<1> QED
  BY <1>1, <1>2, <1>3
  DEF Inv, Early, PushInv, FaultInv, Misuse, Bounded, Untouched

--------------------------------------------------------------------------------
(* The calls that follow pmm_init. *)

\* Popping the stack removes its top entry; a frame of the array is never popped
\* while callers keep to their pages, so clearing the page leaves the stack alone.
LEMMA PopStack ==
    ASSUME Inv, RequestPage, ~misused
    PROVE  /\ Top \in Stacked /\ Stacked' = Stacked \ {Top}
           /\ held' = held \cup {Top} /\ Distinct'
<1>1. /\ TypeOK /\ pc = "ready" /\ idx \in Nat \ {0} /\ idx' = idx - 1
      /\ held' = held \cup ({Top} \ {Null}) /\ slot' = Cleared(Top)
  BY DEF Inv, TypeOK, RequestPage
<1>2. Distinct /\ Stacked \subseteq Managed /\ Stacked \cap ArrayFrames = {}
  BY <1>1, Zenon DEF Inv, Owned
<1>3. Top \in Stacked
  BY <1>1 DEF Top, Stacked
<1>4. Top \notin ArrayFrames /\ Top # Null
  BY <1>1, <1>2, <1>3, MapFacts DEF Null
<1>5. \A k \in 0 .. (idx - 1) : slot'[k] = slot[k]
  BY <1>1, <1>4 DEF TypeOK, Cleared
<1>6. 0 .. (idx - 1) = (0 .. (idx' - 1)) \cup {idx - 1} /\ idx - 1 \notin 0 .. (idx' - 1)
  BY <1>1
<1>7. \A k \in 0 .. (idx' - 1) : slot'[k] = slot[k] /\ slot[k] # Top
  BY <1>2, <1>5, <1>6 DEF Distinct, Top
<1>8. Stacked' = Stacked \ {Top}
  BY <1>6, <1>7, Zenon DEF Stacked, Top
<1>9. Distinct'
  BY <1>1, <1>2, <1>5 DEF Distinct
<1> QED BY <1>1, <1>3, <1>4, <1>8, <1>9

\* A page popped moves from the stack to its caller.
LEMMA RequestPageInv == Inv /\ RequestPage => Inv'
<1> SUFFICES ASSUME Inv, RequestPage PROVE Inv'
  OBVIOUS
<1>1. /\ TypeOK /\ pc = "ready" /\ idx \in Nat \ {0} /\ idx' = idx - 1
      /\ held' = held \cup ({Top} \ {Null}) /\ slot' = Cleared(Top)
      /\ UNCHANGED <<limine, memmap, i, j, free_pages, array_size, pages, max, pc, misused>>
  BY DEF Inv, TypeOK, RequestPage, init_vars
<1>2. /\ DOMAIN slot' = DOMAIN slot
      /\ \A k \in DOMAIN slot : slot'[k] = slot[k] \/ slot'[k] = Null
      /\ Top \notin ArrayFrames => \A k \in DOMAIN slot : slot'[k] = slot[k]
  BY <1>1 DEF Cleared
<1>3. Top \in Nat
  BY <1>1 DEF TypeOK, Top
<1>4. TypeOK'
  <2>1. \A k \in 0 .. (idx' - 1) : k \in DOMAIN slot' /\ slot'[k] \in Nat
    BY <1>1, <1>2 DEF TypeOK, Null
  <2>2. held' \subseteq Nat \ {0}
    BY <1>1, <1>3 DEF TypeOK, Null
  <2> QED BY <1>1, <2>1, <2>2 DEF TypeOK
<1>5. MemMapInv' /\ CountInv'
  BY <1>1 DEF Inv, MemMapInv, CountInv, ArrayFrames, Counted, Managed
<1>6. Owned'
  <2> SUFFICES ASSUME ~misused PROVE Owned'
    BY <1>1 DEF Owned
  <2>1. /\ Distinct /\ Stacked \cap held = {} /\ Stacked \cup held = Managed \ ArrayFrames
        /\ IsFiniteSet(Stacked) /\ Cardinality(Stacked) = idx
        /\ max = Cardinality(Managed \ ArrayFrames)
    BY <1>1 DEF Inv, Owned
  <2>2. /\ Top \in Stacked /\ Stacked' = Stacked \ {Top}
        /\ held' = held \cup {Top} /\ Distinct'
    BY PopStack
  <2>3. Stacked' \cap held' = {} /\ Stacked' \cup held' = Managed \ ArrayFrames
    BY <2>1, <2>2, Zenon
  <2>4. IsFiniteSet(Stacked') /\ Cardinality(Stacked') = idx'
    BY <1>1, <2>1, <2>2, FS_RemoveElement
  <2>5. UNCHANGED <<Managed, ArrayFrames>>
    BY <1>1 DEF Managed, ArrayFrames
  <2> QED BY <1>1, <2>1, <2>2, <2>3, <2>4, <2>5 DEF Owned
<1>7. Bounded'
  BY <1>1 DEF Inv, Bounded, TypeOK
<1> QED
  BY <1>1, <1>4, <1>5, <1>6, <1>7
  DEF Inv, Early, PushInv, FaultInv, Misuse, Untouched

\* Only a page that some caller freed without holding it can fault the request.
LEMMA RequestFaultInv == Inv /\ RequestFault => Inv' /\ misused
<1> SUFFICES ASSUME Inv, RequestFault PROVE Inv' /\ misused
  OBVIOUS
<1>1. /\ TypeOK /\ pc = "ready" /\ pc' = "fault" /\ idx \in Nat \ {0} /\ idx' = idx - 1
      /\ Top \notin Managed
      /\ UNCHANGED <<limine, memmap, i, j, free_pages, array_size, pages, max, slot, held, misused>>
  BY DEF Inv, TypeOK, RequestFault, init_vars
<1>2. misused
  <2>1. Top \in Stacked
    BY <1>1 DEF Top, Stacked
  <2>2. ~misused => Stacked \subseteq Managed
    BY <1>1, Zenon DEF Inv, Owned
  <2> QED BY <1>1, <2>1, <2>2
<1>3. TypeOK'
  BY <1>1 DEF TypeOK
<1>4. MemMapInv' /\ CountInv'
  BY <1>1 DEF Inv, MemMapInv, CountInv, ArrayFrames, Counted, Managed
<1>5. Bounded'
  BY <1>1 DEF Inv, Bounded, TypeOK
<1> QED
  BY <1>1, <1>2, <1>3, <1>4, <1>5
  DEF Inv, Early, PushInv, FaultInv, Misuse, Owned, Untouched

\* The pointers a caller may free.
Pointers == Managed \cup Alias \cup {Null}

\* A page freed by its holder moves back; any other page marks the misuse.
LEMMA FreePageInv == \A ptr \in Pointers : Inv /\ FreePage(ptr) => Inv'
<1> SUFFICES ASSUME NEW ptr \in Pointers, Inv, FreePage(ptr) PROVE Inv'
  OBVIOUS
<1>1. /\ TypeOK /\ pc = "ready" /\ idx \in Nat /\ max \in Nat /\ idx < max /\ idx' = idx + 1
      /\ slot' = Put(slot, idx, ptr) /\ ptr # Null
      /\ held' = held \ {ptr}
      /\ UNCHANGED <<limine, memmap, i, j, free_pages, array_size, pages, max, pc>>
  BY DEF Inv, TypeOK, FreePage, Full, Callers, init_vars
<1>2. misused' = (misused \/ ptr \notin held) /\ misused' \in BOOLEAN
  BY Zenon DEF FreePage, Callers
<1>3. ptr \in Nat
  BY <1>1, MapFacts, AliasAssumption DEF Pointers, Null
<1>4. /\ Stacked' = Stacked \cup {ptr}
      /\ \A k \in 0 .. (idx - 1) : k \in DOMAIN slot' /\ slot'[k] = slot[k]
      /\ idx \in DOMAIN slot' /\ slot'[idx] = ptr
      /\ Distinct /\ ptr \notin Stacked => Distinct'
  BY <1>1, PushStack
<1>5. TypeOK'
  BY <1>1, <1>2, <1>3, <1>4 DEF TypeOK
<1>6. MemMapInv' /\ CountInv'
  BY <1>1 DEF Inv, MemMapInv, CountInv, ArrayFrames, Counted, Managed
<1>7. Owned'
  <2> SUFFICES ASSUME ~misused, ptr \in held PROVE Owned'
    BY <1>2 DEF Owned
  <2>1. /\ Distinct /\ Stacked \cap held = {} /\ Stacked \cup held = Managed \ ArrayFrames
        /\ IsFiniteSet(Stacked) /\ Cardinality(Stacked) = idx
        /\ max = Cardinality(Managed \ ArrayFrames)
    BY <1>1 DEF Inv, Owned
  <2>2. ptr \notin Stacked
    BY <2>1, Zenon
  <2>3. Stacked' \cap held' = {} /\ Stacked' \cup held' = Managed \ ArrayFrames
    BY <1>1, <1>4, <2>1, <2>2, Zenon
  <2>4. IsFiniteSet(Stacked') /\ Cardinality(Stacked') = idx'
    BY <1>1, <1>4, <2>1, <2>2, FS_AddElement
  <2>5. UNCHANGED <<Managed, ArrayFrames>>
    BY <1>1 DEF Managed, ArrayFrames
  <2> QED BY <1>1, <1>4, <2>1, <2>2, <2>3, <2>4, <2>5 DEF Owned
<1>8. Bounded'
  BY <1>1 DEF Inv, Bounded, TypeOK
<1> QED
  BY <1>1, <1>5, <1>6, <1>7, <1>8
  DEF Inv, Early, PushInv, FaultInv, Misuse, Untouched

\* A full stack means that nobody holds a page: the refusal meets only misuse.
LEMMA FreeRefusedInv == \A ptr \in Pointers : Inv /\ FreeRefused(ptr) => Inv' /\ misused'
<1> SUFFICES ASSUME NEW ptr \in Pointers, Inv, FreeRefused(ptr) PROVE Inv' /\ misused'
  OBVIOUS
<1>1. /\ TypeOK /\ pc = "ready" /\ idx \in Nat /\ max \in Nat /\ idx >= max /\ ptr # Null
      /\ held' = held \ {ptr}
      /\ UNCHANGED <<limine, memmap, i, j, free_pages, array_size, pages, max, pc, slot, idx>>
  BY DEF Inv, TypeOK, FreeRefused, Full, Callers, init_vars
<1>2. misused' = (misused \/ ptr \notin held) /\ misused' \in BOOLEAN
  BY Zenon DEF FreeRefused, Callers
<1>3. misused'
  <2> SUFFICES ASSUME ~misused, ptr \in held PROVE FALSE
    BY <1>2
  <2>1. /\ Stacked \cap held = {} /\ Stacked \cup held = Managed \ ArrayFrames
        /\ Cardinality(Stacked) = idx /\ max = Cardinality(Managed \ ArrayFrames)
    BY <1>1 DEF Inv, Owned
  <2>2. IsFiniteSet(Managed)
    BY <1>1 DEF Inv, CountInv, Counted
  <2>3. IsFiniteSet(Managed \ ArrayFrames)
    BY <2>2, FS_Subset
  <2>4. Stacked \subseteq Managed \ ArrayFrames /\ Stacked # Managed \ ArrayFrames
    BY <2>1, Zenon
  <2>5. Cardinality(Stacked) <= Cardinality(Managed \ ArrayFrames)
        /\ Cardinality(Managed \ ArrayFrames) # Cardinality(Stacked)
    BY <2>3, <2>4, FS_Subset
  <2> QED BY <1>1, <2>1, <2>5
<1>4. TypeOK'
  BY <1>1, <1>2 DEF TypeOK
<1>5. MemMapInv' /\ CountInv'
  BY <1>1 DEF Inv, MemMapInv, CountInv, ArrayFrames, Counted, Managed
<1>6. Bounded'
  BY <1>1 DEF Inv, Bounded, TypeOK
<1> QED
  BY <1>1, <1>3, <1>4, <1>5, <1>6
  DEF Inv, Early, PushInv, FaultInv, Misuse, Owned, Untouched

--------------------------------------------------------------------------------
(* The theorems. *)

\* A call that returns at once changes nothing.
LEMMA StutterInv == Inv /\ UNCHANGED vars => Inv'
<1> SUFFICES ASSUME Inv, UNCHANGED vars PROVE Inv'
  OBVIOUS
<1>1. UNCHANGED <<Managed, ArrayFrames, Stacked, Current, Counted, Distinct>>
  BY DEF vars, Managed, ArrayFrames, Stacked, Current, Counted, Distinct
<1> QED
  BY <1>1 DEF vars, Inv, TypeOK, MemMapInv, CountInv, Early, PushInv, FaultInv, Misuse,
              Owned, Bounded, Untouched

\* Inv is an invariant of pmm.c: pmm_init counts, places and fills the stack as
\* stated, and the two calls keep it so.
THEOREM Invariance == Spec => []Inv
<1>1. ASSUME Inv, [Next]_vars PROVE Inv'
  <2>1. CASE CountEntry    BY <1>1, <2>1, CountEntryInv
  <2>2. CASE SizeArray     BY <1>1, <2>2, SizeArrayInv
  <2>3. CASE SkipEntry     BY <1>1, <2>3, SkipEntryInv
  <2>4. CASE PlaceArray    BY <1>1, <2>4, PlaceArrayInv
  <2>5. CASE NoPlace       BY <1>1, <2>5, NoPlaceInv
  <2>6. CASE PushPage      BY <1>1, <2>6, PushPageInv
  <2>7. CASE PushFault     BY <1>1, <2>7, PushFaultInv
  <2>8. CASE NextEntry     BY <1>1, <2>8, NextEntryInv
  <2>9. CASE FinishInit    BY <1>1, <2>9, FinishInitInv
  <2>10. CASE RequestPage  BY <1>1, <2>10, RequestPageInv
  <2>11. CASE RequestFault BY <1>1, <2>11, RequestFaultInv
  <2>12. ASSUME NEW ptr \in Pointers, FreePage(ptr) PROVE Inv'
    BY <1>1, <2>12, FreePageInv
  <2>13. ASSUME NEW ptr \in Pointers, FreeRefused(ptr) PROVE Inv'
    BY <1>1, <2>13, FreeRefusedInv
  <2>14. CASE UNCHANGED vars  BY <1>1, <2>14, StutterInv
  <2> QED
    BY <1>1, <2>1, <2>2, <2>3, <2>4, <2>5, <2>6, <2>7, <2>8, <2>9, <2>10, <2>11, <2>12,
       <2>13, <2>14
    DEF Next, pmm_init, pmm_request_page, pmm_free_page, RequestNone, FreeNull, Halted, Pointers
<1> QED BY <1>1, InitInv, PTL DEF Spec

\* Every variable keeps its type; every index below stack.idx has an entry.
THEOREM TypeCorrect == Spec => []TypeOK
<1>1. Inv => TypeOK
  BY DEF Inv
<1> QED BY <1>1, Invariance, PTL

\* The stack stays inside the pages set aside for it, whatever callers free.
THEOREM StackNeverOverruns == Spec => []StackFits
<1>1. ASSUME Inv PROVE StackFits
  <2>1. idx \in Nat /\ array_size \in Nat /\ free_pages \in Nat
    BY <1>1 DEF Inv, TypeOK
  <2>2. CASE pc = "count"
    <3>1. 0 <= PtrsPerPage * array_size
      BY <2>1, PtrsAssumption
    <3> QED BY <1>1, <2>2, <3>1 DEF Inv, Early, StackFits
  <2>3. CASE pc # "count"
    <3>1. idx <= free_pages /\ array_size = DIV_ROUND_UP(free_pages, PtrsPerPage)
      BY <1>1, <2>3 DEF Inv, Bounded, CountInv
    <3>2. free_pages <= PtrsPerPage * array_size
      BY <2>1, <3>1, RoundUp
    <3>3. PtrsPerPage * array_size \in Nat
      BY <2>1, PtrsAssumption
    <3> QED BY <2>1, <3>1, <3>2, <3>3 DEF StackFits
  <2> QED BY <2>2, <2>3
<1> QED BY <1>1, Invariance, PTL

\* As long as callers free only what they hold, a page has one owner at a time,
\* the array's own pages are never handed out, and no page is lost.
THEOREM FramesSafe == Spec => [](NoDoubleUse /\ ArrayReserved /\ Conserved)
<1>1. ASSUME Inv PROVE NoDoubleUse /\ ArrayReserved /\ Conserved
  <2> SUFFICES ASSUME ~misused
               PROVE  /\ Distinct /\ Stacked \cap held = {}
                      /\ ArrayFrames \cap (Stacked \cup held) = {}
                      /\ Conserved
    BY DEF NoDoubleUse, ArrayReserved, Conserved, Distinct
  <2>1. CASE pc = "ready"
    BY <1>1, <2>1, Zenon DEF Inv, Owned, Conserved
  <2>2. CASE pc = "push"
    <3>1. held = {} /\ Distinct
      BY <1>1, <2>2 DEF Inv, PushInv, Untouched
    <3>2. Stacked \cap ArrayFrames = {}
      <4>1. UsableFrames(memmap, i - 1) \cap ArrayFrames = {}
        BY <1>1, PushedFrames DEF Inv
      <4>2. Current \cap ArrayFrames = {}
        <5>1. CASE i <= Len(memmap) /\ memmap[i].type = "usable"
          <6>1. i \in DOMAIN memmap /\ i \in DOMAIN limine /\ memmap[i] \in Entry /\ j \in Nat
            BY <1>1, <5>1, MapFacts DEF Inv, TypeOK, MemMapInv
          <6>2. Current \subseteq Frames(memmap[i])
            BY <1>1, <2>2, <5>1, <6>1 DEF Current, Frames, Inv, PushInv, Entry
          <6>3. Frames(memmap[i]) \cap ArrayFrames = {}
            BY <1>1, <5>1, <6>1, Zenon DEF Inv, MemMapInv
          <6> QED BY <6>2, <6>3, Zenon
        <5>2. CASE ~(i <= Len(memmap) /\ memmap[i].type = "usable")
          BY <5>2, Zenon DEF Current
        <5> QED BY <5>1, <5>2
      <4> QED BY <1>1, <2>2, <4>1, <4>2, Zenon DEF Inv, PushInv
    <3> QED BY <2>2, <3>1, <3>2 DEF Conserved
  <2>3. CASE pc \in {"count", "place"}
    BY <1>1, <2>3, EmptyStack DEF Inv, Early, Untouched, ArrayFrames, Conserved
  <2>4. CASE pc = "fault"
    <3>1. Stacked = {} /\ Distinct
      BY <1>1, <2>4, EmptyStack DEF Inv, FaultInv
    <3> QED BY <1>1, <2>4, <3>1 DEF Inv, FaultInv, Conserved
  <2> QED BY <1>1, <2>1, <2>2, <2>3, <2>4 DEF Inv, TypeOK
<1> QED BY <1>1, Invariance, PTL

\* pmm.c implements PageAllocator: each page pushed by pmm_init is a donation,
\* the calls are Alloc and Release, and the first misuse voids the contract.
THEOREM Implements == Spec => IsAllocator
<1> DEFINE aFree == IF misused THEN {} ELSE Stacked
           aHeld == IF misused THEN {} ELSE held
           aSealed == pc = "ready" \/ misused
<1>1. Init => Allocator!Init
  BY EmptyStack DEF Init, Allocator!Init
<1>2. ASSUME Inv, [Next]_vars PROVE [Allocator!Next]_(Allocator!vars)
  <2> SUFFICES \/ Allocator!Donate \/ Allocator!Seal \/ Allocator!Alloc \/ Allocator!Release
               \/ Allocator!Break
               \/ UNCHANGED <<aFree, aHeld, aSealed, misused>>
    BY DEF Allocator!Next, Allocator!vars
  <2>0. /\ TypeOK /\ misused \in BOOLEAN /\ idx \in Nat
        /\ pc \in {"count", "place", "push"} => ~misused /\ held = {}
    BY <1>2 DEF Inv, TypeOK, Misuse, Untouched
  <2>1. CASE CountEntry \/ SizeArray \/ SkipEntry \/ PlaceArray \/ NoPlace \/ NextEntry
    <3>1. UNCHANGED <<slot, idx, held, misused>> /\ pc # "ready" /\ pc' # "ready" /\ ~misused
      BY <2>0, <2>1
      DEF CountEntry, SizeArray, SkipEntry, PlaceArray, NoPlace, NextEntry
    <3> QED BY <3>1, Zenon DEF Stacked
  <2>2. CASE PushPage
    <3> DEFINE f == memmap[i].base + j
    <3>1. /\ slot' = Put(slot, idx, f) /\ idx' = idx + 1
          /\ UNCHANGED <<pc, held, misused>> /\ pc = "push" /\ ~misused
      BY <2>0, <2>2 DEF PushPage, PageAt
    <3>2. Stacked' = Stacked \cup {f} /\ f \in Managed /\ f \notin Stacked
      BY <1>2, <2>0, <2>2, <3>1, PushStack, PageToPush
    <3>3. f \in UNION {UsableFrames(mm, Len(mm)) : mm \in MemMaps}
      BY <2>0, <3>2 DEF TypeOK, Managed
    <3> QED BY <3>1, <3>2, <3>3 DEF Allocator!Donate
  <2>3. CASE PushFault
    BY <2>0, <2>3 DEF PushFault, Stacked
  <2>4. CASE FinishInit
    BY <2>0, <2>4 DEF FinishInit, Stacked, Allocator!Seal
  <2>5. CASE RequestPage
    <3>1. CASE misused
      BY <2>5, <3>1 DEF RequestPage
    <3>2. CASE ~misused
      <4>1. Top \in Stacked /\ Stacked' = Stacked \ {Top} /\ held' = held \cup {Top}
        BY <1>2, <2>5, <3>2, PopStack
      <4> QED BY <2>5, <3>2, <4>1 DEF RequestPage, Allocator!Alloc
    <3> QED BY <3>1, <3>2
  <2>6. CASE RequestFault
    BY <1>2, <2>6, RequestFaultInv DEF RequestFault
  <2>7. ASSUME NEW ptr \in Pointers, FreePage(ptr)
        PROVE  Allocator!Release \/ Allocator!Break
               \/ UNCHANGED <<aFree, aHeld, aSealed, misused>>
    <3>1. /\ pc = "ready" /\ pc' = pc /\ held' = held \ {ptr}
          /\ slot' = Put(slot, idx, ptr) /\ idx' = idx + 1
      BY <2>7 DEF FreePage, Callers
    <3>2. misused' = (misused \/ ptr \notin held)
      BY <2>7 DEF FreePage, Callers
    <3>3. CASE misused
      BY <3>1, <3>2, <3>3
    <3>4. CASE ~misused /\ ptr \in held
      <4>1. Stacked' = Stacked \cup {ptr}
        BY <2>0, <3>1, PushStack
      <4>2. misused' = misused /\ ~misused'
        BY <2>0, <3>2, <3>4
      <4> QED BY <3>1, <3>4, <4>1, <4>2, Zenon DEF Allocator!Release
    <3>5. CASE ~misused /\ ptr \notin held
      BY <3>1, <3>2, <3>5 DEF Allocator!Break
    <3> QED BY <3>3, <3>4, <3>5
  <2>8. ASSUME NEW ptr \in Pointers, FreeRefused(ptr)
        PROVE  Allocator!Break \/ UNCHANGED <<aFree, aHeld, aSealed, misused>>
    <3>1. misused' /\ pc = "ready" /\ pc' = pc
      BY <1>2, <2>8, FreeRefusedInv DEF FreeRefused, init_vars
    <3> QED BY <2>0, <2>8, <3>1 DEF Allocator!Break
  <2>9. CASE UNCHANGED vars
    BY <2>9 DEF vars, Stacked
  <2> QED
    BY <1>2, <2>1, <2>2, <2>3, <2>4, <2>5, <2>6, <2>7, <2>8, <2>9
    DEF Next, pmm_init, pmm_request_page, pmm_free_page, RequestNone, FreeNull, Halted, Pointers
<1> QED BY <1>1, <1>2, Invariance, PTL DEF Spec, IsAllocator, Allocator!Spec
================================================================================
