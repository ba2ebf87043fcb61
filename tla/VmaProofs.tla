-------------------------------- MODULE VmaProofs -------------------------------
(***************************************************************************)
(* What the functions of Vmm and Vma keep of memory, for every size of it. *)
(*                                                                         *)
(* Each frame that is held has one use: a table of level 1 to 4, a         *)
(* region's descriptor, the first page of a heap region, a page of an      *)
(* image, or a page taken for itself (the heap's context, a process and    *)
(* its stack).  Nothing in memory says so; that such a labelling exists is *)
(* what each operation keeps, as it keeps the tables a tree, the regions a *)
(* chain, and what is seen of the pages it does not name.                  *)
(***************************************************************************)
EXTENDS Vma, Recursion, FiniteSetTheorems, SequenceTheorems, TLAPS

--------------------------------------------------------------------------------
(* Loops: what FoldLeft computes, one element after the other *)

\* A set of numbers up to n has a largest one, and Max is it.
LEMMA MaxIs ==
    ASSUME NEW n \in Nat, NEW s \in SUBSET (1 .. n), s # {}
    PROVE  Max(s) \in s /\ \A y \in s : Max(s) >= y
<1> DEFINE T == {n - x : x \in s}
<1>a. \A x \in s : x \in Nat /\ x <= n /\ n - x \in Nat
  OBVIOUS
<1>1. T \subseteq Nat /\ T # {}
  BY <1>a
<1>2. PICK i \in T : \A j \in T : i <= j
  <2> HIDE DEF T
  <2> QED BY <1>1, Least
<1>3. PICK x \in s : i = n - x
  BY <1>2
<1>4. ASSUME NEW y \in s PROVE x >= y
  <2>1. n - x <= n - y
    BY <1>2, <1>3
  <2> QED BY <1>a, <2>1
<1> QED BY <1>4 DEF Max

\* The largest number of 1 .. k is k, and that of a set without k is one of its own.
LEMMA MaxTop ==
    ASSUME NEW n \in Nat, NEW s \in SUBSET (1 .. n), n \in s
    PROVE  Max(s) = n
<1>1. s # {}
  OBVIOUS
<1>2. Max(s) \in s /\ Max(s) >= n
  BY <1>1, MaxIs
<1>3. Max(s) \in 1 .. n
  BY <1>2
<1> QED BY <1>2, <1>3

Folds(iter, N, base, step) ==
    iter = [s \in SUBSET (1 .. N) |->
               IF s = {} THEN base ELSE step[Max(s)][iter[s \ {Max(s)}]]]

\* The function that a fold over 1 .. N is the value of exists.
LEMMA Folding ==
    ASSUME NEW V, NEW N \in Nat, NEW base \in V, NEW step \in [1 .. N -> [V -> V]]
    PROVE  \E iter \in [SUBSET (1 .. N) -> V] : Folds(iter, N, base, step)
<1> DEFINE S == {n \in 0 .. N : \E g \in [SUBSET (1 .. n) -> V] : Folds(g, n, base, step)}
<1>1. 0 \in S
  <2> DEFINE g == [s \in SUBSET (1 .. 0) |-> base]
  <2>1. g \in [SUBSET (1 .. 0) -> V]
    OBVIOUS
  <2>2. \A s \in SUBSET (1 .. 0) : s = {}
    OBVIOUS
  <2>3. Folds(g, 0, base, step)
    BY <2>2 DEF Folds
  <2>4. 0 \in 0 .. N
    OBVIOUS
  <2> QED BY <2>1, <2>3, <2>4
<1>2. ASSUME NEW n \in 1 .. N, n - 1 \in S PROVE n \in S
  <2>1. PICK g \in [SUBSET (1 .. n - 1) -> V] : Folds(g, n - 1, base, step)
    BY <1>2
  <2> DEFINE h == [s \in SUBSET (1 .. n) |-> IF n \in s THEN step[n][g[s \ {n}]] ELSE g[s]]
             r(s) == IF s = {} THEN base ELSE step[Max(s)][h[s \ {Max(s)}]]
  <2>2. \A s \in SUBSET (1 .. n) : s \ {n} \in SUBSET (1 .. n - 1)
    OBVIOUS
  <2>3. step[n] \in [V -> V]
    OBVIOUS
  <2>4. h \in [SUBSET (1 .. n) -> V]
    <3> SUFFICES ASSUME NEW s \in SUBSET (1 .. n) PROVE h[s] \in V
      OBVIOUS
    <3>1. CASE n \in s
      <4>1. g[s \ {n}] \in V
        BY <2>2
      <4> QED BY <2>3, <3>1, <4>1
    <3>2. CASE n \notin s
      <4>1. s \in SUBSET (1 .. n - 1)
        BY <2>2, <3>2
      <4> QED BY <3>2, <4>1
    <3> QED BY <3>1, <3>2
  <2>5. ASSUME NEW s \in SUBSET (1 .. n) PROVE h[s] = r(s)
    <3>1. CASE n \in s
      <4>1. Max(s) = n /\ s # {}
        BY <3>1, MaxTop
      <4>2. h[s \ {n}] = g[s \ {n}]
        OBVIOUS
      <4> QED BY <3>1, <4>1, <4>2
    <3>2. CASE n \notin s
      <4>1. s \in SUBSET (1 .. n - 1)
        BY <2>2, <3>2
      <4>2. h[s] = g[s]
        BY <3>2
      <4>3. CASE s = {}
        BY <2>1, <4>1, <4>2, <4>3 DEF Folds
      <4>4. CASE s # {}
        <5>1. Max(s) \in s
          <6>1. n - 1 \in Nat
            OBVIOUS
          <6> QED BY <4>1, <4>4, <6>1, MaxIs
        <5>2. h[s \ {Max(s)}] = g[s \ {Max(s)}]
          BY <3>2
        <5>3. g[s] = step[Max(s)][g[s \ {Max(s)}]]
          BY <2>1, <4>1, <4>4 DEF Folds
        <5> QED BY <4>2, <4>4, <5>2, <5>3
      <4> QED BY <4>3, <4>4
    <3> QED BY <3>1, <3>2
  <2>6. h = [s \in SUBSET (1 .. n) |-> r(s)]
    BY <2>4, <2>5
  <2>7. Folds(h, n, base, step)
    BY <2>6 DEF Folds
  <2> HIDE DEF h
  <2> QED BY <2>4, <2>7
<1>3. N \in S
  <2> HIDE DEF S
  <2>1. 0 .. N \subseteq S
    BY <1>1, <1>2, Induction
  <2> QED BY <2>1
<1> QED BY <1>3

--------------------------------------------------------------------------------
(* The type of memory *)

Events == {"frame0", "twice", "ctxfreed", "shared", "stolen", "overlap", "lost",
           "alias", "stray", "nomem", "badelf"}
Slots == 0 .. (Fan - 1)
Entry == [to : Frame, flags : SUBSET Flags]
Region == [start : Nat, size : Nat, next : Frame \cup {NULL}, prev : Frame \cup {NULL}]
Bytes == [0 .. (PAGE_SIZE - 1) -> Int]

MemoryRecord(P) ==
    [stack : Seq(P \ {0}), max : Nat, table : [Frame -> [Slots -> Entry]],
     region : [Frame -> Region], data : [Frame -> Bytes],
     kernel : Frame, ctx : Frame, root : Frame \cup {NULL},
     held : SUBSET (Frame \ {0}), stale : SUBSET Frame, events : SUBSET Events]

\* Memory whose stack holds pointers of P and whose regions end at B at the latest.
Memory(P, B) ==
    {m \in MemoryRecord(P) :
        Len(m.stack) <= m.max /\ \A f \in Frame : End(m.region[f]) <= B}

\* The constants as the proofs use them.
LEMMA Constants ==
    /\ Fan \in Nat /\ Fan >= 4 /\ MaxRam \in Nat \ {0} /\ PAGE_SIZE \in Nat \ {0}
    /\ Half \in Nat /\ Half >= 1 /\ Half < Fan - 1
    /\ Gb4 \in Nat \ {0} /\ Gb4 <= MaxRam + 1
    /\ KernelPhys = MaxRam + 1
    /\ 0 \in Frame /\ Frame \subseteq Nat /\ NULL \notin Frame
    /\ NULL = -1 /\ Fan - 1 \in Nat /\ LastFrame \in Nat \ {0} /\ LastFrame = MaxRam + 4
BY VmmAssumption DEF KernelPhys, LastFrame, Frame, NULL

\* Nothing is mapped, no region, no bytes.
LEMMA Cleared ==
    NoTable \in [Slots -> Entry] /\ NoRegion \in Region /\ Zeroes \in Bytes /\ NoEntry \in Entry
BY Constants DEF NoTable, NoEntry, Slots, Entry, NoRegion, Region, Zeroes, Bytes, NULL

\* Alike but for the stack, the frames held, the tables and the events.
Alike(m, n) ==
    /\ n.max = m.max /\ n.region = m.region /\ n.data = m.data /\ n.kernel = m.kernel
    /\ n.ctx = m.ctx /\ n.root = m.root /\ n.stale = m.stale

\* To note an event changes nothing else.
LEMMA Noted ==
    ASSUME NEW P, NEW B, NEW m \in Memory(P, B), NEW e \in Events
    PROVE  /\ Note(m, e) \in Memory(P, B)
           /\ Note(m, e).events = m.events \cup {e}
           /\ Alike(m, Note(m, e)) /\ Note(m, e).table = m.table
           /\ Note(m, e).stack = m.stack /\ Note(m, e).held = m.held
BY DEF Note, Memory, MemoryRecord, Alike

\* A page was taken from the stack and cleared.
Took(m, n, f) ==
    /\ m.stack # << >> /\ f = Last(m.stack) /\ f # 0 /\ f \in Frame
    /\ n.stack = Front(m.stack) /\ n.held = m.held \cup {f}
    /\ n.table = [m.table EXCEPT ![f] = NoTable]
    /\ n.region = [m.region EXCEPT ![f] = NoRegion]
    /\ n.data = [m.data EXCEPT ![f] = Zeroes]
    /\ n.max = m.max /\ n.kernel = m.kernel /\ n.ctx = m.ctx /\ n.root = m.root
    /\ n.stale = m.stale
    /\ n.events = m.events \cup (IF f \in m.held THEN {"twice"} ELSE {})

\* pmm_request_page takes the top of the stack, or gives 0 and does nothing.
LEMMA Requested ==
    ASSUME NEW B \in Nat, NEW m \in Memory(Frame, B), NEW r, r = pmm_request_page(m)
    PROVE  /\ r \in [page : Frame, mem : Memory(Frame, B)]
           /\ \/ m.stack = << >> /\ r.page = 0 /\ r.mem = m
              \/ Took(m, r.mem, r.page)
<1>0. m.stack \in Seq(Frame \ {0}) /\ m \in MemoryRecord(Frame) /\ Len(m.stack) <= m.max
      /\ \A f \in Frame : End(m.region[f]) <= B
  BY DEF Memory, MemoryRecord
<1>1. CASE m.stack = << >>
  BY <1>1, Constants DEF pmm_request_page
<1>2. CASE m.stack # << >>
  <2> DEFINE f == Last(m.stack)
             w == IF f \in m.held THEN Note(m, "twice") ELSE m
             n == [w EXCEPT !.stack = Front(@), !.held = @ \cup {f},
                            !.table[f] = NoTable, !.region[f] = NoRegion, !.data[f] = Zeroes]
  <2>1. r.page = f /\ r.mem = n /\ DOMAIN r = {"page", "mem"} /\ r = [page |-> f, mem |-> n]
    BY <1>2 DEF pmm_request_page
  <2>2. f \in Frame \ {0}
    BY <1>0, <1>2 DEF Last
  <2>3. Front(m.stack) \in Seq(Frame \ {0}) /\ Len(Front(m.stack)) <= Len(m.stack)
    BY <1>0, <1>2 DEF Front
  <2>4. /\ w \in Memory(Frame, B)
        /\ w.events = m.events \cup (IF f \in m.held THEN {"twice"} ELSE {})
        /\ w.stack = m.stack /\ w.max = m.max /\ w.table = m.table /\ w.region = m.region
        /\ w.data = m.data /\ w.kernel = m.kernel /\ w.ctx = m.ctx /\ w.root = m.root
        /\ w.held = m.held /\ w.stale = m.stale
    <3>1. "twice" \in Events
      BY DEF Events
    <3> QED BY <3>1, Noted DEF Alike
  <2>5. w \in MemoryRecord(Frame)
    BY <2>4 DEF Memory
  <2> HIDE DEF f, w
  <2>6. /\ n.stack = Front(w.stack) /\ n.held = w.held \cup {f}
        /\ n.table = [w.table EXCEPT ![f] = NoTable]
        /\ n.region = [w.region EXCEPT ![f] = NoRegion]
        /\ n.data = [w.data EXCEPT ![f] = Zeroes]
        /\ n.max = w.max /\ n.kernel = w.kernel /\ n.ctx = w.ctx /\ n.root = w.root
        /\ n.stale = w.stale /\ n.events = w.events
    BY <2>5 DEF MemoryRecord
  <2>7. n \in MemoryRecord(Frame)
    <3>1. n.stack \in Seq(Frame \ {0}) /\ n.held \in SUBSET (Frame \ {0})
      BY <2>2, <2>3, <2>4, <2>5, <2>6 DEF MemoryRecord
    <3>2. n.table \in [Frame -> [Slots -> Entry]]
      BY <2>2, <2>5, <2>6, Cleared DEF MemoryRecord
    <3>3. n.region \in [Frame -> Region] /\ n.data \in [Frame -> Bytes]
      BY <2>2, <2>5, <2>6, Cleared DEF MemoryRecord
    <3> QED BY <2>5, <2>6, <3>1, <3>2, <3>3 DEF MemoryRecord
  <2>8. \A g \in Frame : End(n.region[g]) <= B
    <3>1. End(NoRegion) = 0
      BY DEF End, NoRegion
    <3> QED BY <1>0, <2>2, <2>4, <2>6, <3>1 DEF MemoryRecord
  <2>9. n \in Memory(Frame, B)
    <3>1. Len(n.stack) <= n.max
      BY <1>0, <2>3, <2>4, <2>6 DEF MemoryRecord
    <3> HIDE DEF n
    <3> QED BY <2>7, <2>8, <3>1 DEF Memory
  <2>10. Took(m, n, f)
    <3> HIDE DEF n
    <3>1. f = Last(m.stack)
      BY DEF f
    <3> QED BY <1>2, <2>2, <2>4, <2>6, <3>1 DEF Took
  <2> HIDE DEF n
  <2> QED BY <2>1, <2>2, <2>9, <2>10
<1> QED BY <1>1, <1>2

\* Asked for through HIGHER_HALF, a page that is not there is frame 0.
LEMMA RequestedHigherHalf ==
    ASSUME NEW B \in Nat, NEW m \in Memory(Frame, B), NEW r, r = RequestHigherHalf(m)
    PROVE  /\ r \in [page : Frame, mem : Memory(Frame, B)]
           /\ \/ m.stack = << >> /\ r.page = 0 /\ r.mem = Note(m, "frame0")
              \/ Took(m, r.mem, r.page)
<1>1. PICK q : q = pmm_request_page(m)
  OBVIOUS
<1>2. /\ q \in [page : Frame, mem : Memory(Frame, B)]
      /\ \/ m.stack = << >> /\ q.page = 0 /\ q.mem = m
         \/ Took(m, q.mem, q.page)
  BY <1>1, Requested
<1>3. r = IF q.page = 0 THEN [q EXCEPT !.mem = Note(@, "frame0")] ELSE q
  BY <1>1 DEF RequestHigherHalf, NeverNull
<1>4. "frame0" \in Events
  BY DEF Events
<1>5. CASE m.stack = << >> /\ q.page = 0 /\ q.mem = m
  BY <1>2, <1>3, <1>4, <1>5, Noted
<1>6. CASE Took(m, q.mem, q.page)
  <2>1. r = q
    BY <1>3, <1>6 DEF Took
  <2> QED BY <1>2, <1>6, <2>1
<1> QED BY <1>2, <1>5, <1>6

\* What pmm_free_page changes: the stack, what is held, and it notes what it is not due.
Returns(m, n, ptr) ==
    /\ Alike(m, n) /\ n.table = m.table /\ n.held = m.held \ {ptr}
    /\ n.stack = IF ptr = 0 \/ Len(m.stack) >= m.max THEN m.stack ELSE Append(m.stack, ptr)
    /\ n.events = m.events \cup (IF ptr < 0 THEN {"alias"}
                                 ELSE IF ptr = 0 \/ ptr \in m.held THEN {} ELSE {"stray"})

\* pmm_free_page, of any pointer.
LEMMA Freed ==
    ASSUME NEW P, P \subseteq Int, NEW B, NEW m \in Memory(P, B), NEW ptr \in P,
           NEW n, n = pmm_free_page(m, ptr)
    PROVE  n \in Memory(P, B) /\ Returns(m, n, ptr)
<1> SUFFICES /\ n \in Memory(P, B)
             /\ Alike(m, n) /\ n.table = m.table /\ n.held = m.held \ {ptr}
             /\ n.stack = IF ptr = 0 \/ Len(m.stack) >= m.max THEN m.stack
                          ELSE Append(m.stack, ptr)
             /\ n.events = m.events \cup (IF ptr < 0 THEN {"alias"}
                                          ELSE IF ptr = 0 \/ ptr \in m.held THEN {} ELSE {"stray"})
  BY DEF Returns
<1>0. /\ m \in MemoryRecord(P) /\ m.stack \in Seq(P \ {0}) /\ Len(m.stack) <= m.max /\ ptr \in Int
      /\ 0 \notin m.held /\ \A f \in Frame : End(m.region[f]) <= B
  BY DEF Memory, MemoryRecord
<1>1. CASE ptr = 0
  BY <1>0, <1>1 DEF pmm_free_page, Alike
<1>2. CASE ptr # 0
  <2> DEFINE d == [m EXCEPT !.stack = IF Len(@) >= m.max THEN @ ELSE Append(@, ptr),
                            !.held = @ \ {ptr}]
  <2>0. m.held \ {ptr} \in SUBSET (Frame \ {0}) /\ Append(m.stack, ptr) \in Seq(P \ {0})
    BY <1>0, <1>2 DEF MemoryRecord
  <2>1. d \in MemoryRecord(P)
    BY <1>0, <2>0 DEF MemoryRecord
  <2>2. /\ d.stack = IF Len(m.stack) >= m.max THEN m.stack ELSE Append(m.stack, ptr)
        /\ d.held = m.held \ {ptr} /\ d.events = m.events
        /\ Alike(m, d) /\ d.table = m.table
    BY <1>0 DEF MemoryRecord, Alike
  <2>3. Len(d.stack) <= d.max
    BY <1>0, <2>2 DEF MemoryRecord
  <2>4. d \in Memory(P, B)
    <3> HIDE DEF d
    <3> QED BY <1>0, <2>1, <2>2, <2>3 DEF Memory, Alike
  <2>5. n = CASE ptr = 0 -> m
              [] ptr < 0 -> Note(d, "alias")
              [] ptr > 0 -> IF ptr \in m.held THEN d ELSE Note(d, "stray")
    BY DEF pmm_free_page
  <2> HIDE DEF d
  <2>6. "alias" \in Events /\ "stray" \in Events
    BY DEF Events
  <2>7. CASE ptr < 0
    <3>1. n = Note(d, "alias")
      BY <1>0, <2>5, <2>7
    <3>2. 0 \notin m.held /\ ~(ptr = 0) /\ ptr \notin Frame
      BY <1>0, <2>7, Constants
    <3> QED BY <2>2, <2>4, <2>6, <2>7, <3>1, <3>2, Noted DEF Alike
  <2>8. CASE ptr > 0
    <3>1. n = IF ptr \in m.held THEN d ELSE Note(d, "stray")
      BY <1>0, <2>5, <2>8
    <3>2. ~(ptr = 0) /\ ~(ptr < 0)
      BY <1>0, <2>8
    <3>3. CASE ptr \in m.held
      BY <2>2, <2>4, <3>1, <3>2, <3>3
    <3>4. CASE ptr \notin m.held
      BY <2>2, <2>4, <2>6, <3>1, <3>2, <3>4, Noted DEF Alike
    <3> QED BY <3>3, <3>4
  <2> QED BY <1>0, <1>2, <2>7, <2>8
<1> QED BY <1>1, <1>2

--------------------------------------------------------------------------------
(* The tables *)

\* What an entry of each level spans, and that an index is one.
LEMMA Spans ==
    /\ Span(1) = 1 /\ Span(2) = Fan /\ Span(3) = Fan * Fan /\ Span(4) = Fan * Fan * Fan
    /\ \A l \in 1 .. 4 : Span(l) \in Nat \ {0}
<1>1. Span(1) = 1 /\ Span(2) = Fan /\ Span(3) = Fan * Fan /\ Span(4) = Fan * Fan * Fan
  BY DEF Span
<1>2. Fan \in Nat \ {0}
  BY Constants
<1>3. Fan * Fan \in Nat \ {0}
  BY <1>2
<1>4. (Fan * Fan) * Fan \in Nat \ {0}
  BY <1>2, <1>3
<1>5. \A l \in 1 .. 4 : l = 1 \/ l = 2 \/ l = 3 \/ l = 4
  OBVIOUS
<1> QED BY <1>1, <1>2, <1>3, <1>4, <1>5

\* An index is one of a table's.
LEMMA IndexType ==
    ASSUME NEW v \in Nat, NEW l \in 1 .. 4
    PROVE  Index(v, l) \in Slots
<1>1. Span(l) \in Nat \ {0} /\ Fan \in Nat \ {0}
  BY Spans, Constants
<1>2. v \div Span(l) \in Nat
  BY <1>1
<1>3. (v \div Span(l)) % Fan \in 0 .. (Fan - 1)
  BY <1>1, <1>2
<1> QED BY <1>3 DEF Index, Slots

\* One entry is written and nothing else changes.
Wrote(m, n, t, i, e) ==
    /\ Alike(m, n) /\ n.stack = m.stack /\ n.held = m.held /\ n.events = m.events
    /\ n.table = [m.table EXCEPT ![t] = [@ EXCEPT ![i] = e]]

\* To write an entry.
LEMMA Written ==
    ASSUME NEW P, NEW B, NEW m \in Memory(P, B), NEW t \in Frame, NEW i \in Slots, NEW e \in Entry,
           NEW n, n = [m EXCEPT !.table[t][i] = e]
    PROVE  n \in Memory(P, B) /\ Wrote(m, n, t, i, e)
<1>0. m \in MemoryRecord(P) /\ m.table \in [Frame -> [Slots -> Entry]] /\ Len(m.stack) <= m.max
      /\ \A f \in Frame : End(m.region[f]) <= B
  BY DEF Memory, MemoryRecord
<1>1. n.table = [m.table EXCEPT ![t] = [@ EXCEPT ![i] = e]]
  BY <1>0 DEF MemoryRecord
<1>2. m.table[t] \in [Slots -> Entry]
  BY <1>0
<1>3. [m.table[t] EXCEPT ![i] = e] \in [Slots -> Entry]
  BY <1>2
<1>4. n.table \in [Frame -> [Slots -> Entry]]
  BY <1>0, <1>1, <1>3
<1>5. /\ Alike(m, n) /\ n.stack = m.stack /\ n.held = m.held /\ n.events = m.events
  BY <1>0 DEF Alike, MemoryRecord
<1>6. n \in MemoryRecord(P)
  BY <1>0, <1>4 DEF MemoryRecord
<1> QED BY <1>0, <1>1, <1>5, <1>6 DEF Memory, Wrote, Alike

\* SetEntry as a write.
LEMMA EntrySet ==
    ASSUME NEW P, NEW B, NEW m \in Memory(P, B), NEW t \in Frame, NEW i \in Slots,
           NEW to \in Frame, NEW flags \in SUBSET Flags
    PROVE  /\ SetEntry(m, t, i, to, flags) \in Memory(P, B)
           /\ Wrote(m, SetEntry(m, t, i, to, flags), t, i, [to |-> to, flags |-> flags])
<1>1. [to |-> to, flags |-> flags] \in Entry
  BY DEF Entry
<1> QED BY <1>1, Written DEF SetEntry

Step(B) == [mem : Memory(Frame, B), table : Frame]

\* One level down: the entry was there, or a table is made for it.
LEMMA Entered ==
    ASSUME NEW B \in Nat, NEW a \in Step(B), NEW i \in Slots, NEW flags \in SUBSET Flags,
           NEW b, b = Enter(a, i, flags)
    PROVE  /\ b \in Step(B)
           /\ \/ /\ Present(a.mem.table[a.table][i])
                 /\ b.mem = a.mem /\ b.table = a.mem.table[a.table][i].to
              \/ /\ ~Present(a.mem.table[a.table][i])
                 /\ \E n \in Memory(Frame, B) :
                       /\ \/ n = Note(a.mem, "frame0") /\ b.table = 0 /\ a.mem.stack = << >>
                          \/ Took(a.mem, n, b.table)
                       /\ Wrote(n, b.mem, a.table, i, [to |-> b.table, flags |-> flags])
<1>0. a.mem \in Memory(Frame, B) /\ a.table \in Frame /\ a = [mem |-> a.mem, table |-> a.table]
      /\ a.mem.table \in [Frame -> [Slots -> Entry]]
  BY DEF Step, Memory, MemoryRecord
<1>1. CASE Present(a.mem.table[a.table][i])
  <2>1. b = [a EXCEPT !.table = a.mem.table[a.table][i].to]
    BY <1>0, <1>1 DEF Enter
  <2>2. a.mem.table[a.table][i] \in Entry
    BY <1>0
  <2>3. a.mem.table[a.table][i].to \in Frame
    BY <2>2 DEF Entry
  <2> QED BY <1>0, <1>1, <2>1, <2>3 DEF Step
<1>2. CASE ~Present(a.mem.table[a.table][i])
  <2>1. PICK r : r = RequestHigherHalf(a.mem)
    OBVIOUS
  <2>2. /\ r \in [page : Frame, mem : Memory(Frame, B)]
        /\ \/ a.mem.stack = << >> /\ r.page = 0 /\ r.mem = Note(a.mem, "frame0")
           \/ Took(a.mem, r.mem, r.page)
    BY <1>0, <2>1, RequestedHigherHalf
  <2>3. b = [mem |-> SetEntry(r.mem, a.table, i, r.page, flags), table |-> r.page]
    BY <1>2, <2>1 DEF Enter
  <2>4. /\ SetEntry(r.mem, a.table, i, r.page, flags) \in Memory(Frame, B)
        /\ Wrote(r.mem, SetEntry(r.mem, a.table, i, r.page, flags), a.table, i,
                 [to |-> r.page, flags |-> flags])
    BY <1>0, <2>2, EntrySet
  <2> QED BY <1>2, <2>2, <2>3, <2>4 DEF Step
<1> QED BY <1>1, <1>2

\* vmm_map goes down three levels and writes the last entry.
LEMMA Mapped ==
    ASSUME NEW B \in Nat, NEW m \in Memory(Frame, B), NEW pagemap \in Frame, NEW virt \in Nat,
           NEW phys \in Frame, NEW flags \in SUBSET Flags,
           NEW n, n = vmm_map(m, pagemap, virt, phys, flags)
    PROVE  /\ n \in Memory(Frame, B)
           /\ \E b, c, d \in Step(B) :
                 /\ b = Enter([mem |-> m, table |-> pagemap], Index(virt, 4), flags)
                 /\ c = Enter(b, Index(virt, 3), flags)
                 /\ d = Enter(c, Index(virt, 2), flags)
                 /\ Wrote(d.mem, n, d.table, Index(virt, 1), [to |-> phys, flags |-> flags])
<1> DEFINE a == [mem |-> m, table |-> pagemap]
<1>1. PICK b : b = Enter(a, Index(virt, 4), flags)
  OBVIOUS
<1>2. PICK c : c = Enter(b, Index(virt, 3), flags)
  OBVIOUS
<1>3. PICK d : d = Enter(c, Index(virt, 2), flags)
  OBVIOUS
<1>4. n = SetEntry(d.mem, d.table, Index(virt, 1), phys, flags)
  BY <1>1, <1>2, <1>3 DEF vmm_map
<1>5. a \in Step(B)
  BY DEF Step
<1> HIDE DEF a
<1>6. /\ Index(virt, 4) \in Slots /\ Index(virt, 3) \in Slots
      /\ Index(virt, 2) \in Slots /\ Index(virt, 1) \in Slots
  BY IndexType
<1>7. b \in Step(B)
  BY <1>1, <1>5, <1>6, Entered
<1>8. c \in Step(B)
  BY <1>2, <1>6, <1>7, Entered
<1>9. d \in Step(B)
  BY <1>3, <1>6, <1>8, Entered
<1>10. d.mem \in Memory(Frame, B) /\ d.table \in Frame
  BY <1>9 DEF Step
<1>11. n \in Memory(Frame, B)
       /\ Wrote(d.mem, n, d.table, Index(virt, 1), [to |-> phys, flags |-> flags])
  BY <1>4, <1>6, <1>10, EntrySet
<1> QED BY <1>1, <1>2, <1>3, <1>7, <1>8, <1>9, <1>11 DEF a

\* The walk's entries, each found in the table that the one before points to.
LEMMA Walked ==
    ASSUME NEW P, NEW B, NEW m \in Memory(P, B), NEW pagemap \in Frame, NEW virt \in Nat,
           NEW w, w = Walk(m, pagemap, virt)
    PROVE  /\ w = <<w[1], w[2], w[3], w[4]>>
           /\ w[1] = m.table[pagemap][Index(virt, 4)] /\ w[2] = m.table[w[1].to][Index(virt, 3)]
           /\ w[3] = m.table[w[2].to][Index(virt, 2)] /\ w[4] = m.table[w[3].to][Index(virt, 1)]
           /\ w[1] \in Entry /\ w[2] \in Entry /\ w[3] \in Entry /\ w[4] \in Entry
<1>0. m.table \in [Frame -> [Slots -> Entry]]
  BY DEF Memory, MemoryRecord
<1>1. \A t \in Frame, i \in Slots : m.table[t][i] \in Entry
  BY <1>0
<1>2. \A e \in Entry : e.to \in Frame
  BY DEF Entry
<1>3. /\ Index(virt, 4) \in Slots /\ Index(virt, 3) \in Slots
      /\ Index(virt, 2) \in Slots /\ Index(virt, 1) \in Slots
  BY IndexType
<1>4. /\ w[1] = m.table[pagemap][Index(virt, 4)] /\ w[2] = m.table[w[1].to][Index(virt, 3)]
      /\ w[3] = m.table[w[2].to][Index(virt, 2)] /\ w[4] = m.table[w[3].to][Index(virt, 1)]
  BY DEF Walk
<1>5. w[1] \in Entry
  BY <1>1, <1>3, <1>4
<1>6. w[2] \in Entry
  BY <1>1, <1>2, <1>3, <1>4, <1>5
<1>7. w[3] \in Entry
  BY <1>1, <1>2, <1>3, <1>4, <1>6
<1>8. w[4] \in Entry
  BY <1>1, <1>2, <1>3, <1>4, <1>7
<1>9. w = <<w[1], w[2], w[3], w[4]>>
  BY DEF Walk
<1> QED BY <1>4, <1>5, <1>6, <1>7, <1>8, <1>9

\* What a page is translated to is a frame.
LEMMA TranslatedType ==
    ASSUME NEW P, NEW B, NEW m \in Memory(P, B), NEW pagemap \in Frame, NEW virt \in Nat
    PROVE  virt_to_phys(m, pagemap, virt) \in Frame
<1>1. PICK w : w = Walk(m, pagemap, virt)
  OBVIOUS
<1>2. w[4] \in Entry
  BY <1>1, Walked
<1>3. w[4].to \in Frame /\ 0 \in Frame
  BY <1>2, Constants DEF Entry
<1> QED BY <1>1, <1>3 DEF virt_to_phys

\* The place in the tables where vmm_unmap writes.
UnmapAt(w, pagemap, virt, t, i) ==
    \/ ~Present(w[1]) /\ t = pagemap /\ i = Index(virt, 4)
    \/ Present(w[1]) /\ ~Present(w[2]) /\ t = w[1].to /\ i = Index(virt, 3)
    \/ Present(w[1]) /\ Present(w[2]) /\ ~Present(w[3]) /\ t = w[2].to /\ i = Index(virt, 2)
    \/ Present(w[1]) /\ Present(w[2]) /\ Present(w[3]) /\ t = w[3].to /\ i = Index(virt, 1)

\* vmm_unmap writes one entry.
LEMMA Unmapped ==
    ASSUME NEW P, NEW B, NEW m \in Memory(P, B), NEW pagemap \in Frame, NEW virt \in Nat,
           NEW n, n = vmm_unmap(m, pagemap, virt)
    PROVE  /\ n \in Memory(P, B)
           /\ \E t \in Frame, i \in Slots :
                 /\ UnmapAt(Walk(m, pagemap, virt), pagemap, virt, t, i)
                 /\ Wrote(m, n, t, i, NoEntry)
<1>1. PICK w : w = Walk(m, pagemap, virt)
  OBVIOUS
<1>2. /\ w[1] = m.table[pagemap][Index(virt, 4)] /\ w[2] = m.table[w[1].to][Index(virt, 3)]
      /\ w[3] = m.table[w[2].to][Index(virt, 2)] /\ w[4] = m.table[w[3].to][Index(virt, 1)]
      /\ w[1] \in Entry /\ w[2] \in Entry /\ w[3] \in Entry /\ w[4] \in Entry
  BY <1>1, Walked
<1> DEFINE tables == <<pagemap, w[1].to, w[2].to, w[3].to>>
           Q(k) == /\ \A l \in 1 .. (k - 1) : Present(w[l])
                   /\ k = 4 \/ ~Present(w[k])
           last == CHOOSE k \in 1 .. 4 : Q(k)
<1>3. n = [m EXCEPT !.table[tables[last]][Index(virt, 5 - last)] = NoEntry]
  BY <1>1 DEF vmm_unmap
<1>4. \E k \in 1 .. 4 : Q(k)
  <2>1. CASE ~Present(w[1])
    <3>1. Q(1)
      BY <2>1
    <3> QED BY <3>1
  <2>2. CASE Present(w[1]) /\ ~Present(w[2])
    <3>1. Q(2)
      BY <2>2
    <3> QED BY <3>1
  <2>3. CASE Present(w[1]) /\ Present(w[2]) /\ ~Present(w[3])
    <3>1. \A l \in 1 .. (3 - 1) : l = 1 \/ l = 2
      OBVIOUS
    <3>2. Q(3)
      BY <2>3, <3>1
    <3> QED BY <3>2
  <2>4. CASE Present(w[1]) /\ Present(w[2]) /\ Present(w[3])
    <3>1. \A l \in 1 .. (4 - 1) : l = 1 \/ l = 2 \/ l = 3
      OBVIOUS
    <3>2. Q(4)
      BY <2>4, <3>1
    <3> QED BY <3>2
  <2> QED BY <2>1, <2>2, <2>3, <2>4
<1>5. last \in 1 .. 4 /\ Q(last)
  <2> HIDE DEF Q
  <2> QED BY <1>4
<1>6. PICK k \in 1 .. 4 : k = last
  BY <1>5
<1>7. Q(k)
  BY <1>5, <1>6
<1>8. n = [m EXCEPT !.table[tables[k]][Index(virt, 5 - k)] = NoEntry]
  BY <1>3, <1>6
<1> HIDE DEF last
<1>9. UnmapAt(w, pagemap, virt, tables[k], Index(virt, 5 - k))
  <2>1. CASE k = 1
    BY <1>7, <2>1 DEF UnmapAt
  <2>2. CASE k = 2
    <3>1. 1 \in 1 .. (2 - 1)
      OBVIOUS
    <3> QED BY <1>7, <2>2, <3>1 DEF UnmapAt
  <2>3. CASE k = 3
    <3>1. 1 \in 1 .. (3 - 1) /\ 2 \in 1 .. (3 - 1)
      OBVIOUS
    <3> QED BY <1>7, <2>3, <3>1 DEF UnmapAt
  <2>4. CASE k = 4
    <3>1. 1 \in 1 .. (4 - 1) /\ 2 \in 1 .. (4 - 1) /\ 3 \in 1 .. (4 - 1)
      OBVIOUS
    <3> QED BY <1>7, <2>4, <3>1 DEF UnmapAt
  <2> QED BY <2>1, <2>2, <2>3, <2>4
<1>10. tables[k] \in Frame /\ Index(virt, 5 - k) \in Slots
  <2>0. w[1].to \in Frame /\ w[2].to \in Frame /\ w[3].to \in Frame
    BY <1>2 DEF Entry
  <2>1. tables[k] \in Frame
    BY <2>0
  <2>2. 5 - k \in 1 .. 4
    OBVIOUS
  <2> QED BY <2>1, <2>2, IndexType
<1> HIDE DEF tables
<1>11. n \in Memory(P, B) /\ Wrote(m, n, tables[k], Index(virt, 5 - k), NoEntry)
  BY <1>8, <1>10, Written, Cleared
<1> QED BY <1>1, <1>9, <1>10, <1>11

\* The page f gets the upper half of the page map q, and is empty otherwise.
Copied(m, n, f, q) ==
    n.table = [m.table EXCEPT ![f] = [i \in Slots |-> IF i >= Half THEN m.table[q][i] ELSE NoEntry]]

\* A new page map is a page taken, or frame 0, with the kernel's upper half.
LEMMA MadePagemap ==
    ASSUME NEW B \in Nat, NEW m \in Memory(Frame, B), NEW r, r = vmm_new_pagemap(m)
    PROVE  /\ r \in [page : Frame, mem : Memory(Frame, B)]
           /\ \E n \in Memory(Frame, B) :
                 /\ \/ n = Note(m, "frame0") /\ r.page = 0 /\ m.stack = << >>
                    \/ Took(m, n, r.page)
                 /\ Alike(n, r.mem) /\ r.mem.stack = n.stack /\ r.mem.held = n.held
                 /\ r.mem.events = n.events
                 /\ Copied(n, r.mem, r.page, m.kernel)
<1>1. PICK q : q = RequestHigherHalf(m)
  OBVIOUS
<1>2. /\ q \in [page : Frame, mem : Memory(Frame, B)]
      /\ \/ m.stack = << >> /\ q.page = 0 /\ q.mem = Note(m, "frame0")
         \/ Took(m, q.mem, q.page)
  BY <1>1, RequestedHigherHalf
<1>3. q.mem \in Memory(Frame, B) /\ q.page \in Frame
  BY <1>2
<1>4. /\ q.mem \in MemoryRecord(Frame) /\ q.mem.table \in [Frame -> [Slots -> Entry]]
      /\ Len(q.mem.stack) <= q.mem.max /\ \A f \in Frame : End(q.mem.region[f]) <= B
      /\ m.kernel \in Frame
  BY <1>3 DEF Memory, MemoryRecord
<1> DEFINE u == [i \in Slots |-> IF i >= Half THEN q.mem.table[m.kernel][i] ELSE NoEntry]
<1>5. DOMAIN NoTable = Slots
  BY DEF NoTable, Slots
<1>6. r = [page |-> q.page, mem |-> [q.mem EXCEPT !.table[q.page] = u]]
  BY <1>1, <1>5 DEF vmm_new_pagemap
<1>7. u \in [Slots -> Entry]
  BY <1>4, Cleared
<1> HIDE DEF u
<1>8. PICK n : n = [q.mem EXCEPT !.table[q.page] = u]
  OBVIOUS
<1>9. /\ Alike(q.mem, n) /\ n.stack = q.mem.stack /\ n.held = q.mem.held
      /\ n.events = q.mem.events /\ n.table = [q.mem.table EXCEPT ![q.page] = u]
  BY <1>4, <1>8 DEF MemoryRecord, Alike
<1>10. n.table \in [Frame -> [Slots -> Entry]]
  BY <1>3, <1>4, <1>7, <1>9
<1>11. n \in MemoryRecord(Frame)
  BY <1>4, <1>8, <1>9, <1>10 DEF MemoryRecord
<1>12. n \in Memory(Frame, B)
  BY <1>4, <1>9, <1>11 DEF Memory, Alike
<1>13. r.page = q.page /\ r.mem = n /\ r = [page |-> r.page, mem |-> r.mem]
  BY <1>6, <1>8
<1> QED BY <1>2, <1>3, <1>9, <1>12, <1>13 DEF u, Copied

\* The kernel's sections, one by one.
LEMMA SectionsAre ==
    /\ Sections \in [1 .. 4 -> [virt : Nat, phys : Frame, flags : SUBSET Flags]]
    /\ DOMAIN Sections = 1 .. 4
    /\ \A k \in 1 .. 4 : /\ Sections[k].virt = KernelBase + (k - 1)
                         /\ "P" \in Sections[k].flags
    /\ Sections[1].flags = {"P", "W"}
<1>1. KernelBase \in Nat
  <2>1. Fan * Fan \in Nat /\ Fan - 1 \in Nat /\ Fan \in Nat
    BY Constants
  <2>2. (Fan - 1) * Fan \in Nat
    BY <2>1
  <2>3. ((Fan - 1) * Fan) * Fan \in Nat
    BY <2>1, <2>2
  <2>4. (((Fan - 1) * Fan) * Fan) * Fan \in Nat
    BY <2>1, <2>3
  <2> QED BY <2>4 DEF KernelBase
<1>2. KernelPhys \in Nat /\ \A k \in 0 .. 3 : KernelPhys + k \in Frame
  BY Constants DEF Frame, LastFrame
<1>3. \A k \in 0 .. 3, flags \in SUBSET Flags :
         Section(k, flags) \in [virt : Nat, phys : Frame, flags : SUBSET Flags]
  BY <1>1, <1>2 DEF Section
<1>4. /\ Section(0, {"P", "W"}) \in [virt : Nat, phys : Frame, flags : SUBSET Flags]
      /\ Section(1, {"P"}) \in [virt : Nat, phys : Frame, flags : SUBSET Flags]
      /\ Section(2, {"P", "NX"}) \in [virt : Nat, phys : Frame, flags : SUBSET Flags]
      /\ Section(3, {"P", "W", "NX"}) \in [virt : Nat, phys : Frame, flags : SUBSET Flags]
  BY <1>3 DEF Flags
<1>5. DOMAIN Sections = 1 .. 4 /\ Sections[1] = Section(0, {"P", "W"})
      /\ Sections[2] = Section(1, {"P"}) /\ Sections[3] = Section(2, {"P", "NX"})
      /\ Sections[4] = Section(3, {"P", "W", "NX"})
  BY DEF Sections
<1>6. \A k \in 1 .. 4 : k = 1 \/ k = 2 \/ k = 3 \/ k = 4
  OBVIOUS
<1>7. \A k \in 1 .. 4 : Sections[k] \in [virt : Nat, phys : Frame, flags : SUBSET Flags]
  BY <1>4, <1>5, <1>6
<1>8. \A k \in 1 .. 4 : Sections[k].virt = KernelBase + (k - 1) /\ "P" \in Sections[k].flags
  BY <1>5, <1>6 DEF Section
<1>9. Sections[1].flags = {"P", "W"}
  BY <1>5 DEF Section
<1>10. Sections = [k \in 1 .. 4 |-> Sections[k]]
  BY DEF Sections
<1> QED BY <1>5, <1>7, <1>8, <1>9, <1>10

\* vmm_init takes a page for the page map and maps the sections in it in turn.
LEMMA SectionsMapped ==
    ASSUME NEW B \in Nat, NEW m \in Memory(Frame, B), NEW n, n = vmm_init_sections(m),
           NEW r, r = RequestHigherHalf(m)
    PROVE  \E f \in [0 .. 4 -> Memory(Frame, B)] :
              /\ f[0] = [r.mem EXCEPT !.kernel = r.page] /\ f[4] = n
              /\ \A k \in 1 .. 4 :
                    f[k] = vmm_map(f[k - 1], r.page, Sections[k].virt, Sections[k].phys,
                                   Sections[k].flags)
<1>2. r.mem \in Memory(Frame, B) /\ r.page \in Frame
  BY RequestedHigherHalf
<1> DEFINE V == Memory(Frame, B)
           base == [r.mem EXCEPT !.kernel = r.page]
           MapOne(a, x) == vmm_map(a, r.page, x.virt, x.phys, x.flags)
           Is(g) == g = [s \in SUBSET (1 .. 4) |->
                            IF s = {} THEN base ELSE MapOne(g[s \ {Max(s)}], Sections[Max(s)])]
           step == [i \in 1 .. 4 |-> [v \in V |-> MapOne(v, Sections[i])]]
           iter == CHOOSE g : Is(g)
<1>3. base \in V
  BY <1>2 DEF Memory, MemoryRecord
<1>4. ASSUME NEW v \in V, NEW i \in 1 .. 4 PROVE MapOne(v, Sections[i]) \in V
  <2>1. Sections[i] \in [virt : Nat, phys : Frame, flags : SUBSET Flags]
    BY SectionsAre
  <2> QED BY <1>2, <2>1, Mapped
<1>5. n = iter[1 .. 4]
  BY SectionsAre DEF vmm_init_sections, FoldLeft, MapThenFoldSet
<1> HIDE DEF V, base, MapOne
<1>6. step \in [1 .. 4 -> [V -> V]]
  BY <1>4
<1>7. PICK g \in [SUBSET (1 .. 4) -> V] : Folds(g, 4, base, step)
  <2> HIDE DEF step
  <2> QED BY <1>3, <1>6, Folding
<1>8. Is(g)
  <2>1. ASSUME NEW s \in SUBSET (1 .. 4), s # {}
        PROVE  step[Max(s)][g[s \ {Max(s)}]] = MapOne(g[s \ {Max(s)}], Sections[Max(s)])
    <3>1. Max(s) \in 1 .. 4
      BY <2>1, MaxIs
    <3>2. g[s \ {Max(s)}] \in V
      OBVIOUS
    <3> QED BY <3>1, <3>2
  <2> QED BY <1>7, <2>1 DEF Folds
<1>9. Is(iter)
  <2> HIDE DEF Is
  <2> QED BY <1>8
<1> HIDE DEF iter, step
<1> DEFINE f == [k \in 0 .. 4 |-> iter[1 .. k]]
<1>10. f[0] = base
  <2>1. 1 .. 0 = {} /\ 0 \in 0 .. 4 /\ {} \in SUBSET (1 .. 4)
    OBVIOUS
  <2> QED BY <1>9, <2>1
<1>11. ASSUME NEW k \in 1 .. 4 PROVE f[k] = MapOne(f[k - 1], Sections[k])
  <2>1. 1 .. k \in SUBSET (1 .. 4) /\ 1 .. k # {} /\ k \in 1 .. k
    OBVIOUS
  <2>2. Max(1 .. k) = k /\ (1 .. k) \ {k} = 1 .. (k - 1)
    BY <2>1, MaxTop
  <2>3. iter[1 .. k] = MapOne(iter[1 .. (k - 1)], Sections[k])
    BY <1>9, <2>1, <2>2
  <2> QED BY <2>3
<1>12. f[4] = n
  BY <1>5
<1> HIDE DEF Is, f
<1>13. 0 .. 4 \subseteq {k \in 0 .. 4 : f[k] \in V}
  <2>1. 0 \in {k \in 0 .. 4 : f[k] \in V}
    BY <1>3, <1>10
  <2>2. \A k \in 1 .. 4 : k - 1 \in {j \in 0 .. 4 : f[j] \in V} => k \in {j \in 0 .. 4 : f[j] \in V}
    BY <1>4, <1>11
  <2> DEFINE S == {k \in 0 .. 4 : f[k] \in V}
  <2> HIDE DEF S
  <2>3. 0 \in S /\ \A k \in 1 .. 4 : k - 1 \in S => k \in S
    BY <2>1, <2>2 DEF S
  <2>4. 0 .. 4 \subseteq S
    BY <2>3, Induction
  <2> QED BY <2>4 DEF S
<1>14. f \in [0 .. 4 -> V]
  BY <1>13 DEF f
<1>15. /\ f \in [0 .. 4 -> Memory(Frame, B)] /\ f[0] = [r.mem EXCEPT !.kernel = r.page]
       /\ \A k \in 1 .. 4 : f[k] = vmm_map(f[k - 1], r.page, Sections[k].virt,
                                          Sections[k].phys, Sections[k].flags)
  BY <1>10, <1>11, <1>14 DEF V, base, MapOne
<1> QED BY <1>12, <1>15

--------------------------------------------------------------------------------
(* The list of regions *)

\* The list grows from the root by the region that the last one points to.
ListUpTo(m, u) ==
    /\ u[1] = <<m.root>>
    /\ \A k \in 2 .. LastFrame :
          u[k] = IF m.region[Last(u[k - 1])].next = NULL THEN u[k - 1]
                 ELSE Append(u[k - 1], m.region[Last(u[k - 1])].next)

\* RegionList is what LastFrame - 1 steps along the pointers give.
LEMMA ListIs ==
    ASSUME NEW P, NEW B, NEW m \in Memory(P, B), m.root \in Frame
    PROVE  \E u \in [1 .. LastFrame -> Seq(Frame) \ {<< >>}] :
              ListUpTo(m, u) /\ RegionList(m) = u[LastFrame]
<1> DEFINE V == Seq(Frame) \ {<< >>}
           Grow(l) == IF m.region[Last(l)].next = NULL THEN l
                      ELSE Append(l, m.region[Last(l)].next)
           Is(u) == u = [k \in 1 .. LastFrame |-> IF k = 1 THEN <<m.root>> ELSE Grow(u[k - 1])]
           N == LastFrame - 1
           step == [i \in 1 .. N |-> [l \in V |-> Grow(l)]]
           upTo == CHOOSE u : Is(u)
<1>0. m.region \in [Frame -> Region] /\ LastFrame \in Nat \ {0} /\ N \in Nat
  BY Constants DEF Memory, MemoryRecord
<1>1. RegionList(m) = upTo[LastFrame]
  BY DEF RegionList
<1>2. ASSUME NEW l \in V PROVE Grow(l) \in V
  <2>1. l \in Seq(Frame) /\ Len(l) \in Nat /\ Len(l) # 0
    OBVIOUS
  <2>2. Last(l) \in Frame
    BY <2>1 DEF Last
  <2>3. m.region[Last(l)] \in Region
    BY <1>0, <2>2
  <2>4. m.region[Last(l)].next \in Frame \cup {NULL}
    BY <2>3 DEF Region
  <2>5. CASE m.region[Last(l)].next = NULL
    BY <2>5
  <2>6. CASE m.region[Last(l)].next # NULL
    <3>1. Append(l, m.region[Last(l)].next) \in Seq(Frame)
      BY <2>1, <2>4, <2>6
    <3>2. Len(Append(l, m.region[Last(l)].next)) = Len(l) + 1
      BY <2>1
    <3>3. Append(l, m.region[Last(l)].next) # << >>
      BY <2>1, <3>1, <3>2
    <3> QED BY <2>6, <3>1, <3>3
  <2> QED BY <2>5, <2>6
<1>3. <<m.root>> \in V
  OBVIOUS
<1> HIDE DEF V, Grow, N
<1>4. step \in [1 .. N -> [V -> V]]
  BY <1>2
<1>5. PICK f \in [0 .. N -> V] : Iterates(f, N, <<m.root>>, step)
  <2> HIDE DEF step
  <2> QED BY <1>0, <1>3, <1>4, Iteration
<1> DEFINE v == [k \in 1 .. LastFrame |-> f[k - 1]]
<1>6. Is(v)
  <2>1. ASSUME NEW k \in 1 .. LastFrame
        PROVE  f[k - 1] = IF k = 1 THEN <<m.root>> ELSE Grow(v[k - 1])
    <3>1. CASE k = 1
      BY <1>5, <3>1 DEF Iterates
    <3>2. CASE k # 1
      <4>1. k - 1 \in 1 .. N /\ k - 1 \in 1 .. LastFrame /\ (k - 1) - 1 \in 0 .. N
        BY <1>0, <3>2 DEF N
      <4>2. f[k - 1] = step[k - 1][f[(k - 1) - 1]]
        BY <1>5, <4>1 DEF Iterates
      <4>3. f[(k - 1) - 1] \in V
        BY <4>1
      <4>4. step[k - 1][f[(k - 1) - 1]] = Grow(f[(k - 1) - 1])
        BY <4>1, <4>3
      <4>5. v[k - 1] = f[(k - 1) - 1]
        BY <4>1
      <4> QED BY <3>2, <4>2, <4>4, <4>5
    <3> QED BY <3>1, <3>2
  <2> QED BY <2>1
<1>7. Is(upTo)
  <2> HIDE DEF Is
  <2> QED BY <1>6
<1> HIDE DEF upTo, step, v
<1>8. upTo[1] = <<m.root>>
  BY <1>0, <1>7
<1>9. \A k \in 2 .. LastFrame : upTo[k] = Grow(upTo[k - 1])
  BY <1>0, <1>7
<1> HIDE DEF Is
<1> DEFINE S == {j \in 0 .. N : upTo[j + 1] \in V}
<1>10. 0 .. N \subseteq S
  <2>1. 0 \in S
    BY <1>0, <1>3, <1>8
  <2>2. ASSUME NEW i \in 1 .. N, i - 1 \in S PROVE i \in S
    <3>1. i + 1 \in 2 .. LastFrame /\ (i - 1) + 1 = (i + 1) - 1 /\ i \in 0 .. N
      BY <1>0 DEF N
    <3>2. upTo[(i + 1) - 1] \in V
      BY <2>2, <3>1
    <3> QED BY <1>2, <1>9, <3>1, <3>2
  <2> HIDE DEF S
  <2> QED BY <1>0, <2>1, <2>2, Induction
<1>11. ASSUME NEW k \in 1 .. LastFrame PROVE upTo[k] \in V
  <2>1. k - 1 \in 0 .. N /\ (k - 1) + 1 = k
    BY <1>0 DEF N
  <2> QED BY <1>10, <2>1
<1>12. upTo = [k \in 1 .. LastFrame |-> upTo[k]]
  BY <1>7 DEF Is
<1>13. upTo \in [1 .. LastFrame -> V]
  BY <1>11, <1>12
<1>14. ListUpTo(m, upTo)
  BY <1>8, <1>9 DEF ListUpTo, Grow
<1> QED BY <1>1, <1>13, <1>14 DEF V

\* A list of frames that starts with the root.
LEMMA ListType ==
    ASSUME NEW P, NEW B, NEW m \in Memory(P, B), m.root \in Frame
    PROVE  /\ RegionList(m) \in Seq(Frame) /\ Len(RegionList(m)) \in Nat \ {0}
           /\ DOMAIN RegionList(m) = 1 .. Len(RegionList(m))
           /\ \A k \in 1 .. Len(RegionList(m)) : RegionList(m)[k] \in Frame
<1>1. PICK u \in [1 .. LastFrame -> Seq(Frame) \ {<< >>}] : RegionList(m) = u[LastFrame]
  BY ListIs
<1>2. LastFrame \in 1 .. LastFrame
  BY Constants
<1>3. RegionList(m) \in Seq(Frame) \ {<< >>}
  BY <1>1, <1>2
<1> QED BY <1>3

\* The region that the new one is put after.
LEMMA AfterIs ==
    ASSUME NEW P, NEW B, NEW m \in Memory(P, B), m.root \in Frame, NEW size,
           NEW l, l = RegionList(m)
    PROVE  \/ Len(l) = 1 /\ After(m, size) = m.root
           \/ \E k \in 2 .. Len(l) : After(m, size) = l[k]
<1>1. l \in Seq(Frame) /\ Len(l) \in Nat \ {0}
  BY ListType
<1> DEFINE Q(k) == /\ k = Len(l) \/ GapFound(m, l[k], size)
                   /\ \A j \in 2 .. (k - 1) : ~GapFound(m, l[j], size)
           T == {k \in 2 .. Len(l) : k = Len(l) \/ GapFound(m, l[k], size)}
<1>2. CASE Len(l) = 1
  BY <1>2 DEF After
<1>3. CASE Len(l) # 1
  <2>a. Len(l) \in 2 .. Len(l) /\ 2 .. Len(l) \subseteq Nat
    <3>1. PICK n \in Nat : n = Len(l) /\ n # 0 /\ n # 1
      BY <1>1, <1>3
    <3>2. n \in 2 .. n /\ 2 .. n \subseteq Nat
      BY <3>1
    <3> QED BY <3>1, <3>2
  <2>1. T \subseteq Nat /\ Len(l) \in T
    BY <2>a, Zenon
  <2>2. PICK i \in T : \A j \in T : i <= j
    <3> HIDE DEF T
    <3> QED BY <2>1, Least
  <2>3. i \in 2 .. Len(l) /\ Q(i)
    <3>1. \A j \in 2 .. (i - 1) : j \in 2 .. Len(l) /\ j < i /\ j \notin T
      BY <1>1, <2>2
    <3> QED BY <2>2, <3>1
  <2>4. After(m, size) = l[CHOOSE k \in 2 .. Len(l) : Q(k)]
    BY <1>3 DEF After
  <2> HIDE DEF Q
  <2> QED BY <2>3, <2>4
<1> QED BY <1>2, <1>3

\* It is a frame.
LEMMA AfterType ==
    ASSUME NEW P, NEW B, NEW m \in Memory(P, B), m.root \in Frame, NEW size
    PROVE  After(m, size) \in Frame
<1>1. PICK l : l = RegionList(m)
  OBVIOUS
<1>2. l \in Seq(Frame) /\ Len(l) \in Nat \ {0}
  BY <1>1, ListType
<1>3. \A k \in 2 .. Len(l) : l[k] \in Frame
  BY <1>2
<1> QED BY <1>1, <1>3, AfterIs

\* What Link does: next and start are those that the region r had before.
Links(m, n, r, new, size, next, start) ==
    /\ n.stack = m.stack /\ n.max = m.max /\ n.table = m.table /\ n.data = m.data
    /\ n.kernel = m.kernel /\ n.ctx = m.ctx /\ n.root = m.root /\ n.held = m.held
    /\ n.region = [[m.region EXCEPT ![new] = [start |-> start, size |-> size,
                                              next |-> next, prev |-> r]]
                     EXCEPT ![r] = [@ EXCEPT !.next = new]]
    /\ n.stale = (IF next = NULL THEN m.stale ELSE m.stale \cup {next})
    /\ n.events = m.events \cup (IF next # NULL /\ m.region[next].start < start + size
                                 THEN {"overlap"} ELSE {})

\* A region is put behind another one, in front of its successor.
LEMMA Linked ==
    ASSUME NEW B \in Nat, NEW m \in Memory(Frame, B), NEW r \in Frame, NEW new \in Frame,
           NEW size \in Nat, NEW n, n = Link(m, r, new, size)
    PROVE  /\ n \in Memory(Frame, B + size)
           /\ Links(m, n, r, new, size, m.region[r].next, End(m.region[r]))
<1> DEFINE next == m.region[r].next
           start == End(m.region[r])
<1>0. /\ m \in MemoryRecord(Frame) /\ m.region \in [Frame -> Region]
      /\ Len(m.stack) <= m.max /\ \A f \in Frame : End(m.region[f]) <= B
  BY DEF Memory, MemoryRecord
<1>1. m.region[r] \in Region
  BY <1>0
<1>2. next \in Frame \cup {NULL} /\ start \in Nat /\ start <= B
  BY <1>0, <1>1 DEF Region, End
<1> DEFINE w == IF next # NULL /\ m.region[next].start < start + size
                THEN Note(m, "overlap") ELSE m
           d == [start |-> start, size |-> size, next |-> next, prev |-> r]
<1>3. n = [w EXCEPT !.region[new] = d, !.region[r].next = new,
                    !.stale = IF next = NULL THEN @ ELSE @ \cup {next}]
  BY DEF Link
<1>4. /\ w \in Memory(Frame, B) /\ Alike(m, w) /\ w.table = m.table /\ w.stack = m.stack
      /\ w.held = m.held
      /\ w.events = m.events \cup (IF next # NULL /\ m.region[next].start < start + size
                                   THEN {"overlap"} ELSE {})
  <2>1. "overlap" \in Events
    BY DEF Events
  <2>2. CASE next # NULL /\ m.region[next].start < start + size
    BY <2>1, <2>2, Noted
  <2>3. CASE ~(next # NULL /\ m.region[next].start < start + size)
    BY <2>3 DEF Alike
  <2> QED BY <2>2, <2>3
<1>5. w \in MemoryRecord(Frame)
  BY <1>4 DEF Memory
<1>6. d \in Region
  BY <1>2 DEF Region
<1> HIDE DEF w, d, next, start
<1>7. /\ n.stack = w.stack /\ n.max = w.max /\ n.table = w.table /\ n.data = w.data
      /\ n.kernel = w.kernel /\ n.ctx = w.ctx /\ n.root = w.root /\ n.held = w.held
      /\ n.region = [[w.region EXCEPT ![new] = d] EXCEPT ![r] = [@ EXCEPT !.next = new]]
      /\ n.stale = IF next = NULL THEN w.stale ELSE w.stale \cup {next}
      /\ n.events = w.events
  BY <1>3, <1>5 DEF MemoryRecord
<1>8. PICK g : g = [w.region EXCEPT ![new] = d]
  OBVIOUS
<1>9. g \in [Frame -> Region] /\ n.region = [g EXCEPT ![r] = [@ EXCEPT !.next = new]]
  BY <1>5, <1>6, <1>7, <1>8 DEF MemoryRecord
<1>10. [g[r] EXCEPT !.next = new] \in Region /\ End([g[r] EXCEPT !.next = new]) = End(g[r])
  <2>1. g[r] \in Region
    BY <1>9
  <2> QED BY <2>1 DEF Region, End
<1>11. n.region \in [Frame -> Region]
  BY <1>9, <1>10
<1>12. n.stale \in SUBSET Frame
  BY <1>2, <1>5, <1>7 DEF MemoryRecord
<1>13. n \in MemoryRecord(Frame)
  BY <1>3, <1>5, <1>7, <1>11, <1>12 DEF MemoryRecord
<1>14. \A f \in Frame : End(n.region[f]) <= B + size
  <2>1. End(d) = start + size
    BY DEF End, d
  <2>2. \A f \in Frame : End(g[f]) \in Nat
    BY <1>9 DEF Region, End
  <2>3. \A f \in Frame : End(g[f]) <= B + size
    <3> SUFFICES ASSUME NEW f \in Frame PROVE End(g[f]) <= B + size
      OBVIOUS
    <3>1. CASE f = new
      <4>1. g[f] = d
        BY <1>5, <1>8, <3>1 DEF MemoryRecord
      <4> QED BY <1>2, <2>1, <4>1
    <3>2. CASE f # new
      <4>1. g[f] = m.region[f] /\ End(m.region[f]) <= B
        BY <1>0, <1>4, <1>5, <1>8, <3>2 DEF MemoryRecord, Alike
      <4>2. End(g[f]) <= B /\ End(g[f]) \in Nat
        BY <2>2, <4>1
      <4> QED BY <4>2
    <3> QED BY <3>1, <3>2
  <2> QED BY <1>9, <1>10, <2>3
<1>15. Len(n.stack) <= n.max
  BY <1>0, <1>4, <1>7 DEF Alike
<1>16. n \in Memory(Frame, B + size)
  BY <1>13, <1>14, <1>15 DEF Memory
<1>17. Links(m, n, r, new, size, next, start)
  BY <1>4, <1>7 DEF Alike, d, Links
<1> QED BY <1>16, <1>17 DEF next, start

\* A larger bound does.
LEMMA Wider ==
    ASSUME NEW P, NEW B \in Nat, NEW C \in Nat, B <= C, NEW m \in Memory(P, B)
    PROVE  m \in Memory(P, C)
<1>1. m \in MemoryRecord(P) /\ Len(m.stack) <= m.max /\ \A f \in Frame : End(m.region[f]) <= B
  BY DEF Memory
<1>2. \A f \in Frame : End(m.region[f]) \in Nat
  BY <1>1 DEF MemoryRecord, Region, End
<1>3. \A f \in Frame : End(m.region[f]) <= C
  BY <1>1, <1>2
<1> QED BY <1>1, <1>3 DEF Memory

\* A region of at most PAGE_SIZE pages gets one page.
LEMMA OnePage ==
    ASSUME NEW size \in 1 .. PAGE_SIZE
    PROVE  MappedPages(size) = 1
<1>1. PAGE_SIZE \in Nat \ {0}
  BY Constants
<1>2. size + PAGE_SIZE - 1 = 1 * PAGE_SIZE + (size - 1) /\ size - 1 \in 0 .. (PAGE_SIZE - 1)
  BY <1>1
<1>3. (size + PAGE_SIZE - 1) \div PAGE_SIZE = 1
  BY <1>1, <1>2
<1> QED BY <1>3 DEF MappedPages

\* Its loop is then one iteration.
LEMMA LoopOnce ==
    ASSUME NEW size \in 1 .. PAGE_SIZE, NEW a, NEW start \in Nat
    PROVE  FoldLeft(MapHeapPage, a, [i \in 1 .. MappedPages(size) |-> start + i - 1])
              = MapHeapPage(a, start)
<1> DEFINE seq == [i \in 1 .. 1 |-> start + i - 1]
           Is(g) == g = [s \in SUBSET (1 .. 1) |->
                           IF s = {} THEN a ELSE MapHeapPage(g[s \ {Max(s)}], seq[Max(s)])]
           iter == CHOOSE g : Is(g)
           h == [s \in SUBSET (1 .. 1) |-> IF s = {} THEN a ELSE MapHeapPage(a, start)]
<1>1. MappedPages(size) = 1
  BY OnePage
<1>2. FoldLeft(MapHeapPage, a, [i \in 1 .. MappedPages(size) |-> start + i - 1]) = iter[1 .. 1]
  BY <1>1 DEF FoldLeft, MapThenFoldSet
<1>3. seq[1] = start
  OBVIOUS
<1>4. ASSUME NEW s \in SUBSET (1 .. 1), s # {} PROVE s = {1} /\ Max(s) = 1 /\ s \ {Max(s)} = {}
  <2>0. \A x \in s : x = 1
    OBVIOUS
  <2>1. s = {1}
    BY <1>4, <2>0
  <2>2. Max(s) \in s
    BY <1>4, MaxIs
  <2> QED BY <2>1, <2>2
<1> HIDE DEF seq
<1>5. Is(h)
  <2>1. \A s \in SUBSET (1 .. 1) : h[s] = IF s = {} THEN a
                                          ELSE MapHeapPage(h[s \ {Max(s)}], seq[Max(s)])
    BY <1>3, <1>4
  <2> QED BY <2>1
<1>6. Is(iter)
  <2> HIDE DEF Is
  <2> QED BY <1>5
<1> HIDE DEF iter
<1>7. iter[{}] = a
  BY <1>6
<1>8. 1 .. 1 \in SUBSET (1 .. 1) /\ 1 .. 1 # {}
  OBVIOUS
<1>9. iter[1 .. 1] = MapHeapPage(a, start)
  <2>1. Max(1 .. 1) = 1 /\ (1 .. 1) \ {1} = {}
    BY <1>4, <1>8
  <2> QED BY <1>3, <1>6, <1>7, <1>8, <2>1
<1> QED BY <1>2, <1>9

\* The flags of a heap page are page flags.
LEMMA HeapFlagsType == HeapFlags \in SUBSET Flags /\ "P" \in HeapFlags
BY DEF HeapFlags, Flags

\* vma_alloc: a descriptor, put behind a region; then a page, mapped if there is one.
LEMMA Allocated ==
    ASSUME NEW B \in Nat, NEW m \in Memory(Frame, B), m.root \in Frame,
           NEW size \in 1 .. PAGE_SIZE, NEW r, r = vma_alloc(m, size),
           NEW at, at = After(m, size), NEW start, start = End(m.region[at])
    PROVE  /\ r \in [mem : Memory(Frame, B + size), start : Nat \cup {NULL}]
           /\ at \in Frame /\ start \in Nat /\ start <= B
           /\ r.start \in {start, NULL}
           /\ \E new \in Frame, o \in Memory(Frame, B), l \in Memory(Frame, B + size),
                 q \in [page : Frame, mem : Memory(Frame, B + size)] :
                 /\ \/ o = Note(m, "frame0") /\ new = 0 /\ m.stack = << >>
                    \/ Took(m, o, new)
                 /\ l = Link(o, at, new, size) /\ q = pmm_request_page(l)
                 /\ IF q.page = 0 THEN r.mem = Note(l, "nomem") /\ r.start = NULL
                    ELSE /\ r.mem = vmm_map(q.mem, l.kernel, start, q.page, HeapFlags)
                         /\ r.start = start
<1>0. /\ m.region \in [Frame -> Region] /\ m.kernel \in Frame
      /\ \A f \in Frame : End(m.region[f]) <= B
  BY DEF Memory, MemoryRecord
<1>1. at \in Frame
  BY AfterType
<1>2. m.region[at] \in Region
  BY <1>0, <1>1
<1>3. start \in Nat /\ start <= B
  BY <1>0, <1>1, <1>2 DEF Region, End
<1>4. PICK p : p = RequestHigherHalf(m)
  OBVIOUS
<1>5. /\ p \in [page : Frame, mem : Memory(Frame, B)]
      /\ \/ m.stack = << >> /\ p.page = 0 /\ p.mem = Note(m, "frame0")
         \/ Took(m, p.mem, p.page)
  BY <1>4, RequestedHigherHalf
<1>6. PICK l : l = Link(p.mem, at, p.page, size)
  OBVIOUS
<1>7. size \in Nat /\ B + size \in Nat
  BY Constants
<1>8. l \in Memory(Frame, B + size)
  <2>1. PICK o \in Memory(Frame, B), new \in Frame : o = p.mem /\ new = p.page
    BY <1>5
  <2>2. l = Link(o, at, new, size)
    BY <1>6, <2>1
  <2> QED BY <1>1, <1>7, <2>2, Linked
<1>9. PICK q : q = pmm_request_page(l)
  OBVIOUS
<1>10. /\ q \in [page : Frame, mem : Memory(Frame, B + size)]
       /\ \/ l.stack = << >> /\ q.page = 0 /\ q.mem = l
          \/ Took(l, q.mem, q.page)
  BY <1>7, <1>8, <1>9, Requested
<1>11. r = MapHeapPage([mem |-> l, start |-> start], start)
  <2>1. r = FoldLeft(MapHeapPage, [mem |-> l, start |-> start],
                     [i \in 1 .. MappedPages(size) |-> start + i - 1])
    BY <1>4, <1>6 DEF vma_alloc
  <2> QED BY <1>3, <2>1, LoopOnce
<1>12. start # NULL
  BY <1>3 DEF NULL
<1>13. r = IF q.page = 0 THEN [mem |-> Note(l, "nomem"), start |-> NULL]
           ELSE [mem |-> vmm_map(q.mem, l.kernel, start, q.page, HeapFlags), start |-> start]
  BY <1>9, <1>11, <1>12 DEF MapHeapPage
<1>14. l.kernel \in Frame
  BY <1>8 DEF Memory, MemoryRecord
<1>15. Note(l, "nomem") \in Memory(Frame, B + size)
  <2>1. "nomem" \in Events
    BY DEF Events
  <2> QED BY <1>8, <2>1, Noted
<1>16. vmm_map(q.mem, l.kernel, start, q.page, HeapFlags) \in Memory(Frame, B + size)
  <2>1. q.mem \in Memory(Frame, B + size) /\ q.page \in Frame
    BY <1>10
  <2> QED BY <1>3, <1>7, <1>14, <2>1, Mapped, HeapFlagsType
<1>17. r \in [mem : Memory(Frame, B + size), start : Nat \cup {NULL}] /\ r.start \in {start, NULL}
  BY <1>3, <1>13, <1>15, <1>16
<1>18. IF q.page = 0 THEN r.mem = Note(l, "nomem") /\ r.start = NULL
       ELSE /\ r.mem = vmm_map(q.mem, l.kernel, start, q.page, HeapFlags)
            /\ r.start = start
  BY <1>13
<1>19. p.page \in Frame /\ p.mem \in Memory(Frame, B)
  BY <1>5
<1> QED BY <1>1, <1>3, <1>5, <1>6, <1>8, <1>9, <1>10, <1>17, <1>18, <1>19

\* One iteration of vma_free's loop.
LEMMA PageFreed ==
    ASSUME NEW B, NEW m \in Memory(Frame, B), NEW page \in Nat, NEW first,
           NEW n, n = FreeHeapPage(m, page, first),
           NEW f, f = virt_to_phys(m, m.kernel, page)
    PROVE  /\ n \in Memory(Frame, B) /\ f \in Frame
           /\ \E d \in Memory(Frame, B), o \in Memory(Frame, B) :
                 /\ d = pmm_free_page(m, f)
                 /\ o = IF page # first /\ f \in m.held THEN Note(d, "stolen") ELSE d
                 /\ n = vmm_unmap(o, m.kernel, page)
<1>1. m.kernel \in Frame /\ Frame \subseteq Int
  BY Constants DEF Memory, MemoryRecord
<1>2. f \in Frame
  BY <1>1, TranslatedType
<1>3. PICK d : d = pmm_free_page(m, f)
  OBVIOUS
<1>4. d \in Memory(Frame, B)
  BY <1>1, <1>2, <1>3, Freed
<1>5. PICK o : o = IF page # first /\ f \in m.held THEN Note(d, "stolen") ELSE d
  OBVIOUS
<1>6. "stolen" \in Events
  BY DEF Events
<1>7. o \in Memory(Frame, B)
  BY <1>4, <1>5, <1>6, Noted
<1>8. n = vmm_unmap(o, m.kernel, page)
  BY <1>3, <1>5 DEF FreeHeapPage
<1>9. n \in Memory(Frame, B)
  BY <1>1, <1>7, <1>8, Unmapped
<1> QED BY <1>2, <1>3, <1>4, <1>5, <1>7, <1>8, <1>9

\* A region is taken out between its neighbours, as its descriptor names them.
LEMMA Unlinked ==
    ASSUME NEW P, NEW B, NEW m \in Memory(P, B), NEW r \in Frame, NEW n, n = Unlink(m, r),
           NEW prev, prev = m.region[r].prev, NEW next, next = m.region[r].next
    PROVE  /\ n \in Memory(P, B) /\ prev \in Frame \cup {NULL} /\ next \in Frame \cup {NULL}
           /\ n.stack = m.stack /\ n.max = m.max /\ n.table = m.table /\ n.data = m.data
           /\ n.kernel = m.kernel /\ n.ctx = m.ctx /\ n.held = m.held /\ n.events = m.events
           /\ n.root = IF r = m.root THEN next ELSE m.root
           /\ n.stale = m.stale \ {r, next}
           /\ \A f \in Frame :
                 /\ f = prev /\ f # next => n.region[f] = [m.region[f] EXCEPT !.next = next]
                 /\ f = next /\ f # prev => n.region[f] = [m.region[f] EXCEPT !.prev = prev]
                 /\ f # prev /\ f # next => n.region[f] = m.region[f]
<1>0. /\ m \in MemoryRecord(P) /\ m.region \in [Frame -> Region]
      /\ Len(m.stack) <= m.max /\ \A f \in Frame : End(m.region[f]) <= B
  BY DEF Memory, MemoryRecord
<1>1. m.region[r] \in Region
  BY <1>0
<1>2. prev \in Frame \cup {NULL} /\ next \in Frame \cup {NULL}
  BY <1>1 DEF Region
<1> DEFINE G(f) == CASE f = prev -> [m.region[f] EXCEPT !.next = next]
                     [] f = next -> [m.region[f] EXCEPT !.prev = prev]
                     [] OTHER    -> m.region[f]
           g == [f \in Frame |-> G(f)]
<1>3. n = [m EXCEPT !.region = g, !.root = IF r = m.root THEN next ELSE @,
                    !.stale = @ \ {r, next}]
  BY <1>0 DEF Unlink, MemoryRecord
<1>4. ASSUME NEW f \in Frame PROVE G(f) \in Region /\ End(G(f)) = End(m.region[f])
  <2>1. m.region[f] \in Region
    BY <1>0
  <2>2. \A x \in Region, y \in Frame \cup {NULL} :
           /\ [x EXCEPT !.next = y] \in Region /\ End([x EXCEPT !.next = y]) = End(x)
           /\ [x EXCEPT !.prev = y] \in Region /\ End([x EXCEPT !.prev = y]) = End(x)
    BY DEF Region, End
  <2>3. G(f) \in {[m.region[f] EXCEPT !.next = next], [m.region[f] EXCEPT !.prev = prev],
                  m.region[f]}
    OBVIOUS
  <2> QED BY <1>2, <2>1, <2>2, <2>3
<1>5. \A f \in Frame :
         /\ f = prev /\ f # next => g[f] = [m.region[f] EXCEPT !.next = next]
         /\ f = next /\ f # prev => g[f] = [m.region[f] EXCEPT !.prev = prev]
         /\ f # prev /\ f # next => g[f] = m.region[f]
  OBVIOUS
<1> HIDE DEF G
<1>6. g \in [Frame -> Region] /\ \A f \in Frame : End(g[f]) <= B
  BY <1>0, <1>4
<1> HIDE DEF g
<1>7. /\ n.stack = m.stack /\ n.max = m.max /\ n.table = m.table /\ n.data = m.data
      /\ n.kernel = m.kernel /\ n.ctx = m.ctx /\ n.held = m.held /\ n.events = m.events
      /\ n.root = (IF r = m.root THEN next ELSE m.root)
      /\ n.stale = m.stale \ {r, next} /\ n.region = g
  BY <1>0, <1>3 DEF MemoryRecord
<1>8. n \in MemoryRecord(P)
  <2>1. n.root \in Frame \cup {NULL} /\ n.stale \in SUBSET Frame
    BY <1>0, <1>2, <1>7 DEF MemoryRecord
  <2> QED BY <1>0, <1>3, <1>6, <1>7, <2>1 DEF MemoryRecord
<1>9. n \in Memory(P, B)
  BY <1>0, <1>6, <1>7, <1>8 DEF Memory
<1> QED BY <1>2, <1>5, <1>7, <1>9

\* Memory after each page that vma_free gives back.
FreeLoop(f, m, n, start, N) ==
    f[0] = m /\ f[N] = n /\ \A k \in 1 .. N : f[k] = FreeHeapPage(f[k - 1], start + k - 1, start)

\* The loop of vma_free over the pages of a region.
LEMMA LoopFreed ==
    ASSUME NEW B, NEW m \in Memory(Frame, B), NEW N \in Nat, NEW start \in Nat, NEW n,
           n = FreeHeapPages(m, start, N)
    PROVE  \E f \in [0 .. N -> Memory(Frame, B)] : FreeLoop(f, m, n, start, N)
<1> DEFINE V == Memory(Frame, B)
           seq == [i \in 1 .. N |-> start + i - 1]
           Op(a, x) == FreeHeapPage(a, x, start)
           Is(g) == g = [s \in SUBSET (1 .. N) |->
                            IF s = {} THEN m ELSE Op(g[s \ {Max(s)}], seq[Max(s)])]
           step == [i \in 1 .. N |-> [v \in V |-> Op(v, seq[i])]]
           iter == CHOOSE g : Is(g)
<1>1. n = iter[1 .. N]
  BY DEF FreeHeapPages, FoldLeft, MapThenFoldSet
<1>2. \A i \in 1 .. N : seq[i] = start + i - 1 /\ seq[i] \in Nat
  OBVIOUS
<1> HIDE DEF seq
<1>3. ASSUME NEW v \in V, NEW i \in 1 .. N PROVE Op(v, seq[i]) \in V
  <2>1. PICK f : f = virt_to_phys(v, v.kernel, seq[i])
    OBVIOUS
  <2> QED BY <1>2, <2>1, PageFreed
<1>4. m \in V
  OBVIOUS
<1> HIDE DEF V, Op
<1>5. step \in [1 .. N -> [V -> V]]
  BY <1>3
<1>6. PICK g \in [SUBSET (1 .. N) -> V] : Folds(g, N, m, step)
  <2> HIDE DEF step
  <2> QED BY <1>4, <1>5, Folding
<1>7. Is(g)
  <2>1. ASSUME NEW s \in SUBSET (1 .. N), s # {}
        PROVE  step[Max(s)][g[s \ {Max(s)}]] = Op(g[s \ {Max(s)}], seq[Max(s)])
    <3>1. Max(s) \in 1 .. N
      BY <2>1, MaxIs
    <3>2. g[s \ {Max(s)}] \in V
      OBVIOUS
    <3> QED BY <3>1, <3>2
  <2> QED BY <1>6, <2>1 DEF Folds
<1>8. Is(iter)
  <2> HIDE DEF Is
  <2> QED BY <1>7
<1> HIDE DEF iter, step
<1> DEFINE f == [k \in 0 .. N |-> iter[1 .. k]]
<1>9. f[0] = m
  <2>1. 1 .. 0 = {} /\ 0 \in 0 .. N /\ {} \in SUBSET (1 .. N)
    OBVIOUS
  <2> QED BY <1>8, <2>1
<1>10. ASSUME NEW k \in 1 .. N PROVE f[k] = Op(f[k - 1], seq[k])
  <2>1. 1 .. k \in SUBSET (1 .. N) /\ 1 .. k # {} /\ k \in 1 .. k /\ k \in Nat
    OBVIOUS
  <2>2. Max(1 .. k) = k /\ (1 .. k) \ {k} = 1 .. (k - 1)
    BY <2>1, MaxTop
  <2>3. iter[1 .. k] = Op(iter[1 .. (k - 1)], seq[k])
    BY <1>8, <2>1, <2>2
  <2> QED BY <2>3
<1>11. f[N] = n
  BY <1>1
<1> HIDE DEF Is, f
<1> DEFINE S == {k \in 0 .. N : f[k] \in V}
<1>12. 0 .. N \subseteq S
  <2>1. 0 \in S
    BY <1>4, <1>9
  <2>2. \A k \in 1 .. N : k - 1 \in S => k \in S
    BY <1>3, <1>10
  <2> HIDE DEF S
  <2> QED BY <2>1, <2>2, Induction
<1>13. f \in [0 .. N -> V]
  BY <1>12 DEF f
<1>14. \A k \in 1 .. N : f[k] = FreeHeapPage(f[k - 1], start + k - 1, start)
  BY <1>2, <1>10 DEF Op
<1> QED BY <1>9, <1>11, <1>13, <1>14 DEF V, FreeLoop

\* The region r is freed: its pages, then it is taken out, then its descriptor.
RegionOut(m, n, B, start, r) ==
    LET size == m.region[r].size
    IN /\ m.region[r].start = start
       /\ \E f \in [0 .. size -> Memory(Frame, B)], u \in Memory(Frame, B) :
             /\ FreeLoop(f, IF r \in m.stale THEN Note(m, "lost") ELSE m, f[size], start, size)
             /\ u = Unlink(f[size], r) /\ n = pmm_free_page(u, r)

\* vma_free: nothing, or the loop over the first region of that start, which is
\* then taken out of the list and freed.
LEMMA RegionFreed ==
    ASSUME NEW B \in Nat, NEW m \in Memory(Frame, B), m.root \in Frame, NEW start \in Nat,
           NEW n, n = vma_free(m, start), NEW l, l = RegionList(m)
    PROVE  /\ n \in Memory(Frame, B)
           /\ \/ n = m /\ \A k \in 1 .. Len(l) : m.region[l[k]].start # start
              \/ \E k \in 1 .. Len(l) : RegionOut(m, n, B, start, l[k])
<1>0. m.region \in [Frame -> Region] /\ l \in Seq(Frame) /\ Len(l) \in Nat \ {0}
      /\ DOMAIN l = 1 .. Len(l) /\ \A k \in 1 .. Len(l) : l[k] \in Frame
  <2>1. m.region \in [Frame -> Region]
    BY DEF Memory, MemoryRecord
  <2> QED BY <2>1, ListType
<1> DEFINE found == {k \in 1 .. Len(l) : m.region[l[k]].start = start}
           Q(k) == \A j \in found : k <= j
           first == CHOOSE k \in found : Q(k)
<1>1. CASE found = {}
  <2>1. n = m
    BY <1>0, <1>1 DEF vma_free
  <2> QED BY <1>1, <2>1
<1>2. CASE found # {}
  <2>1. found \subseteq Nat
    BY <1>0
  <2>2. \E k \in found : Q(k)
    <3> HIDE DEF found
    <3> QED BY <1>2, <2>1, Least
  <2>3. first \in found /\ Q(first)
    <3> HIDE DEF found, Q
    <3> QED BY <2>2
  <2>4. PICK k : k = first
    OBVIOUS
  <2>5. k \in 1 .. Len(l) /\ m.region[l[k]].start = start
        /\ \A j \in 1 .. (k - 1) : m.region[l[j]].start # start
    <3>1. k \in found /\ Q(k)
      BY <2>3, <2>4
    <3>2. k \in 1 .. Len(l) /\ m.region[l[k]].start = start
      BY <3>1
    <3>3. \A j \in 1 .. (k - 1) : j \in 1 .. Len(l) /\ ~(k <= j)
      BY <1>0, <3>2
    <3> QED BY <3>1, <3>2, <3>3
  <2>6. PICK r : r = l[k]
    OBVIOUS
  <2>7. r \in Frame /\ m.region[r] \in Region
    BY <1>0, <2>5, <2>6
  <2>8. PICK size \in Nat : size = m.region[r].size
    BY <2>7 DEF Region
  <2>9. PICK w : w = IF r \in m.stale THEN Note(m, "lost") ELSE m
    OBVIOUS
  <2>10. w \in Memory(Frame, B)
    <3>1. "lost" \in Events
      BY DEF Events
    <3> QED BY <2>9, <3>1, Noted
  <2>11. PICK v : v = FreeHeapPages(w, start, size)
    OBVIOUS
  <2>12. n = pmm_free_page(Unlink(v, r), r)
    <3>1. found = {j \in DOMAIN l : m.region[l[j]].start = start}
      BY <1>0
    <3>2. r = l[CHOOSE j \in found : \A i \in found : j <= i]
      BY <2>4, <2>6
    <3> HIDE DEF found, first
    <3> QED BY <1>2, <2>8, <2>9, <2>11, <3>1, <3>2 DEF vma_free
  <2>13. PICK f \in [0 .. size -> Memory(Frame, B)] :
            FreeLoop(f, w, v, start, size)
    BY <2>10, <2>11, LoopFreed
  <2>14. PICK u : u = Unlink(v, r)
    OBVIOUS
  <2>15. v \in Memory(Frame, B) /\ f[size] = v
    BY <2>13 DEF FreeLoop
  <2>16. u \in Memory(Frame, B)
    <3>1. PICK prev : prev = v.region[r].prev
      OBVIOUS
    <3>2. PICK next : next = v.region[r].next
      OBVIOUS
    <3> QED BY <2>7, <2>14, <2>15, <3>1, <3>2, Unlinked
  <2>17. n = pmm_free_page(u, r)
    BY <2>12, <2>14
  <2>18. n \in Memory(Frame, B)
    <3>1. Frame \subseteq Int
      BY Constants
    <3> QED BY <2>7, <2>16, <2>17, <3>1, Freed
  <2> HIDE DEF found, first, Q
  <2>19. RegionOut(m, n, B, start, r)
    BY <2>5, <2>6, <2>8, <2>9, <2>13, <2>14, <2>15, <2>16, <2>17 DEF RegionOut
  <2> QED BY <2>5, <2>6, <2>18, <2>19
<1> QED BY <1>1, <1>2

--------------------------------------------------------------------------------
(* Memory that grows: pages are taken, and what was held is left alone *)

\* No page is on the stack twice, or there and held.
Tidy(m) ==
    /\ \A j, k \in DOMAIN m.stack : m.stack[j] = m.stack[k] => j = k
    /\ Range(m.stack) \cap m.held = {}

Grows(m, n) ==
    /\ m.events \subseteq n.events
    /\ n.root = m.root /\ n.kernel = m.kernel /\ n.ctx = m.ctx /\ n.max = m.max
    /\ n.stale = m.stale
    /\ ~Wild(n) => /\ m.held \subseteq n.held
                   /\ \A f \in m.held : n.region[f] = m.region[f] /\ n.data[f] = m.data[f]
    /\ Range(n.stack) \cup n.held = Range(m.stack) \cup m.held
    /\ Tidy(m) => Tidy(n)

\* What is wild stays wild.
LEMMA WildStays ==
    ASSUME NEW m, NEW n, m.events \subseteq n.events, Wild(m)
    PROVE  Wild(n)
BY DEF Wild

\* Nothing but the tables and the events changed.
LEMMA AlikeGrows ==
    ASSUME NEW m, NEW n, Alike(m, n), n.stack = m.stack, n.held = m.held,
           m.events \subseteq n.events
    PROVE  Grows(m, n)
BY DEF Grows, Alike, Tidy

\* Growth upon growth.
LEMMA GrowsOn ==
    ASSUME NEW k, NEW m, NEW n, Grows(k, m), Grows(m, n)
    PROVE  Grows(k, n)
<1>1. ~Wild(n) => ~Wild(m)
  BY WildStays DEF Grows
<1>2. ~Wild(n) => /\ k.held \subseteq n.held
                  /\ \A f \in k.held : n.region[f] = k.region[f] /\ n.data[f] = k.data[f]
  BY <1>1 DEF Grows
<1> QED BY <1>2 DEF Grows

\* A page that is taken and was not held before.
LEMMA TookGrows ==
    ASSUME NEW B, NEW m \in Memory(Frame, B), NEW n, NEW f, Took(m, n, f)
    PROVE  /\ Grows(m, n)
           /\ ~Wild(n) => f \notin m.held
<1>0. m.stack \in Seq(Frame \ {0}) /\ m.held \subseteq Frame
      /\ m.region \in [Frame -> Region] /\ m.data \in [Frame -> Bytes]
  BY DEF Memory, MemoryRecord
<1>1. /\ m.events \subseteq n.events /\ n.root = m.root /\ n.kernel = m.kernel
      /\ n.ctx = m.ctx /\ n.max = m.max /\ n.stale = m.stale
  BY DEF Took
<1>2. ~Wild(n) => f \notin m.held
  BY DEF Took, Wild
<1>3. ~Wild(n) => /\ m.held \subseteq n.held
                  /\ \A g \in m.held : n.region[g] = m.region[g] /\ n.data[g] = m.data[g]
  <2> SUFFICES ASSUME ~Wild(n)
               PROVE  /\ m.held \subseteq n.held
                      /\ \A g \in m.held : n.region[g] = m.region[g] /\ n.data[g] = m.data[g]
    OBVIOUS
  <2>1. \A g \in m.held : g # f /\ g \in Frame
    BY <1>0, <1>2
  <2>2. m.held \subseteq n.held
    BY DEF Took
  <2>3. \A g \in m.held : n.region[g] = m.region[g] /\ n.data[g] = m.data[g]
    BY <1>0, <2>1 DEF Took
  <2> QED BY <2>2, <2>3
<1> DEFINE N == Len(m.stack)
<1>4. N \in Nat \ {0} /\ DOMAIN m.stack = 1 .. N /\ f = m.stack[N]
  BY <1>0 DEF Took, Last
<1>5. DOMAIN n.stack = 1 .. (N - 1) /\ \A k \in 1 .. (N - 1) : n.stack[k] = m.stack[k]
  BY <1>0, <1>4 DEF Took, Front
<1>6. 1 .. N = (1 .. (N - 1)) \cup {N} /\ N \notin 1 .. (N - 1) /\ 1 .. (N - 1) \subseteq 1 .. N
  <2> HIDE DEF N
  <2> QED BY <1>4
<1> HIDE DEF N
<1>7. Range(m.stack) = Range(n.stack) \cup {f}
  BY <1>4, <1>5, <1>6 DEF Range
<1>8. n.held = m.held \cup {f}
  BY DEF Took
<1>9. Tidy(m) => Tidy(n)
  <2> SUFFICES ASSUME Tidy(m) PROVE Tidy(n)
    OBVIOUS
  <2>1. \A j, k \in 1 .. (N - 1) : n.stack[j] = n.stack[k] => j = k
    BY <1>4, <1>5, <1>6 DEF Tidy
  <2>2. f \notin Range(n.stack)
    BY <1>4, <1>5, <1>6 DEF Tidy, Range
  <2>3. Range(n.stack) \cap m.held = {}
    BY <1>7 DEF Tidy
  <2> QED BY <1>5, <1>8, <2>1, <2>2, <2>3 DEF Tidy
<1> QED BY <1>1, <1>2, <1>3, <1>7, <1>8, <1>9 DEF Grows

\* A request through HIGHER_HALF.
LEMMA HigherHalfGrows ==
    ASSUME NEW B \in Nat, NEW m \in Memory(Frame, B), NEW n, NEW f,
           \/ n = Note(m, "frame0") /\ f = 0 /\ m.stack = << >>
           \/ Took(m, n, f)
    PROVE  Grows(m, n) /\ (~Wild(n) => Took(m, n, f) /\ f \notin m.held)
<1>1. CASE n = Note(m, "frame0")
  <2>1. "frame0" \in Events
    BY DEF Events
  <2>2. Alike(m, n) /\ n.stack = m.stack /\ n.held = m.held /\ n.events = m.events \cup {"frame0"}
    BY <1>1, <2>1, Noted
  <2>3. Wild(n)
    BY <2>2 DEF Wild
  <2> QED BY <2>2, <2>3, AlikeGrows
<1>2. CASE Took(m, n, f)
  BY <1>2, TookGrows
<1> QED BY <1>1, <1>2

\* A level down.
LEMMA EnterGrows ==
    ASSUME NEW B \in Nat, NEW a \in Step(B), NEW i \in Slots, NEW flags \in SUBSET Flags,
           NEW b, b = Enter(a, i, flags)
    PROVE  b \in Step(B) /\ Grows(a.mem, b.mem)
<1>0. a.mem \in Memory(Frame, B)
  BY DEF Step
<1>1. /\ b \in Step(B)
      /\ \/ b.mem = a.mem
         \/ \E n \in Memory(Frame, B) :
               /\ \/ n = Note(a.mem, "frame0") /\ b.table = 0 /\ a.mem.stack = << >>
                  \/ Took(a.mem, n, b.table)
               /\ Wrote(n, b.mem, a.table, i, [to |-> b.table, flags |-> flags])
  BY Entered
<1>2. CASE b.mem = a.mem
  <2>1. Alike(a.mem, b.mem)
    BY <1>2 DEF Alike
  <2> QED BY <1>1, <1>2, <2>1, AlikeGrows
<1>3. ASSUME NEW n \in Memory(Frame, B),
             \/ n = Note(a.mem, "frame0") /\ b.table = 0 /\ a.mem.stack = << >>
             \/ Took(a.mem, n, b.table),
             Wrote(n, b.mem, a.table, i, [to |-> b.table, flags |-> flags])
      PROVE  Grows(a.mem, b.mem)
  <2>1. Grows(a.mem, n)
    BY <1>0, <1>3, HigherHalfGrows
  <2>2. Grows(n, b.mem)
    BY <1>3, AlikeGrows DEF Wrote
  <2> QED BY <2>1, <2>2, GrowsOn
<1> QED BY <1>1, <1>2, <1>3

\* vmm_map.
LEMMA MapGrows ==
    ASSUME NEW B \in Nat, NEW m \in Memory(Frame, B), NEW pagemap \in Frame, NEW virt \in Nat,
           NEW phys \in Frame, NEW flags \in SUBSET Flags,
           NEW n, n = vmm_map(m, pagemap, virt, phys, flags)
    PROVE  n \in Memory(Frame, B) /\ Grows(m, n)
<1>1. PICK b \in Step(B), c \in Step(B), d \in Step(B) :
         /\ b = Enter([mem |-> m, table |-> pagemap], Index(virt, 4), flags)
         /\ c = Enter(b, Index(virt, 3), flags)
         /\ d = Enter(c, Index(virt, 2), flags)
         /\ Wrote(d.mem, n, d.table, Index(virt, 1), [to |-> phys, flags |-> flags])
  BY Mapped
<1>2. /\ Index(virt, 4) \in Slots /\ Index(virt, 3) \in Slots /\ Index(virt, 2) \in Slots
  BY IndexType
<1>3. PICK a \in Step(B) : a = [mem |-> m, table |-> pagemap]
  BY DEF Step
<1>4. Grows(a.mem, b.mem)
  BY <1>1, <1>2, <1>3, EnterGrows
<1>5. Grows(b.mem, c.mem)
  BY <1>1, <1>2, EnterGrows
<1>6. Grows(c.mem, d.mem)
  BY <1>1, <1>2, EnterGrows
<1>7. Grows(d.mem, n)
  BY <1>1, AlikeGrows DEF Wrote
<1>8. a.mem = m
  BY <1>3
<1>9. Grows(m, n)
  BY <1>4, <1>5, <1>6, <1>7, <1>8, GrowsOn
<1>10. n \in Memory(Frame, B)
  BY Mapped
<1> QED BY <1>9, <1>10

--------------------------------------------------------------------------------
(* The list of regions while memory is not wild *)

\* The regions of l follow one another from the root on, as pointers and as pages.
Chain(m, l) ==
    /\ l \in Seq(Frame) /\ Len(l) >= 1 /\ l[1] = m.root /\ m.region[m.root].start = 0
    /\ \A k \in 1 .. Len(l) : l[k] \in m.held /\ m.region[l[k]].size >= 1
    /\ \A k \in 1 .. Len(l) : m.region[l[k]].next = IF k = Len(l) THEN NULL ELSE l[k + 1]
    /\ \A j, k \in 1 .. Len(l) : j < k => End(m.region[l[j]]) <= m.region[l[k]].start
    /\ \A k \in 2 .. Len(l) : l[k] \in m.stale \/ m.region[l[k]].prev = l[k - 1]

\* No region is in the list twice.
LEMMA ChainDistinct ==
    ASSUME NEW P, NEW B, NEW m \in Memory(P, B), NEW l, Chain(m, l),
           NEW j \in 1 .. Len(l), NEW k \in 1 .. Len(l), j # k
    PROVE  l[j] # l[k]
<1>0. l \in Seq(Frame) /\ Len(l) \in Nat /\ m.region \in [Frame -> Region]
  BY DEF Chain, Memory, MemoryRecord
<1>1. \A i \in 1 .. Len(l) : /\ m.region[l[i]].start \in Nat /\ m.region[l[i]].size \in Nat
                             /\ m.region[l[i]].size >= 1
  BY <1>0 DEF Chain, Region
<1>2. CASE j < k
  <2>1. End(m.region[l[j]]) <= m.region[l[k]].start
    BY <1>2 DEF Chain
  <2> QED BY <1>1, <2>1 DEF End
<1>3. CASE k < j
  <2>1. End(m.region[l[k]]) <= m.region[l[j]].start
    BY <1>3 DEF Chain
  <2> QED BY <1>1, <2>1 DEF End
<1> QED BY <1>0, <1>2, <1>3

\* There are not more regions than frames.
LEMMA ChainFits ==
    ASSUME NEW P, NEW B, NEW m \in Memory(P, B), NEW l, Chain(m, l)
    PROVE  Len(l) \in Nat /\ Len(l) >= 1 /\ Len(l) <= LastFrame
<1>0. l \in Seq(Frame) /\ Len(l) \in Nat /\ Len(l) >= 1 /\ LastFrame \in Nat
  BY Constants DEF Chain
<1>1. m.held \subseteq 1 .. LastFrame
  BY Constants DEF Memory, MemoryRecord, Frame
<1> DEFINE f == [k \in 1 .. Len(l) |-> l[k]]
<1>2. f \in [1 .. Len(l) -> 1 .. LastFrame]
  BY <1>1 DEF Chain
<1>3. \A j, k \in 1 .. Len(l) : j # k => f[j] # f[k]
  BY ChainDistinct
<1>4. /\ IsFiniteSet(1 .. Len(l)) /\ Cardinality(1 .. Len(l)) = Len(l)
  BY <1>0, FS_Interval
<1>5. IsFiniteSet(1 .. LastFrame) /\ Cardinality(1 .. LastFrame) = LastFrame
  <2>1. LastFrame >= 1 /\ LastFrame \in Int
    BY Constants
  <2> QED BY <2>1, FS_Interval
<1> HIDE DEF f
<1>6. CASE Len(l) > LastFrame
  BY <1>0, <1>2, <1>3, <1>4, <1>5, <1>6, FS_PigeonHole
<1> QED BY <1>0, <1>6

\* RegionList finds the whole chain.
LEMMA ChainList ==
    ASSUME NEW P, NEW B, NEW m \in Memory(P, B), NEW l, Chain(m, l)
    PROVE  RegionList(m) = l
<1>0. l \in Seq(Frame) /\ m.root \in Frame /\ m.root = l[1] /\ NULL \notin Frame
  BY Constants DEF Chain, Memory, MemoryRecord
<1>1. Len(l) \in Nat /\ Len(l) >= 1 /\ Len(l) <= LastFrame /\ LastFrame \in Nat
  BY ChainFits, Constants
<1>2. PICK u \in [1 .. LastFrame -> Seq(Frame) \ {<< >>}] :
         ListUpTo(m, u) /\ RegionList(m) = u[LastFrame]
  BY <1>0, ListIs
<1> DEFINE Upto(k) == IF k <= Len(l) THEN k ELSE Len(l)
           S == {j \in 0 .. (LastFrame - 1) : u[j + 1] = SubSeq(l, 1, Upto(j + 1))}
<1>3. 0 \in S
  <2>1. u[1] = <<l[1]>>
    BY <1>0, <1>2 DEF ListUpTo
  <2>2. SubSeq(l, 1, 1) = <<l[1]>>
    <3>1. SubSeq(l, 1, 1) \in Seq(Frame) /\ Len(SubSeq(l, 1, 1)) = 1
          /\ SubSeq(l, 1, 1)[1] = l[1]
      BY <1>0, <1>1
    <3>2. <<l[1]>> \in Seq(Frame) /\ Len(<<l[1]>>) = 1 /\ <<l[1]>>[1] = l[1]
      BY <1>0
    <3>3. \A i \in 1 .. 1 : SubSeq(l, 1, 1)[i] = <<l[1]>>[i]
      BY <3>1, <3>2
    <3> QED BY <3>1, <3>2, <3>3, SeqEqual
  <2> QED BY <1>1, <2>1, <2>2
<1>4. ASSUME NEW i \in 1 .. (LastFrame - 1), i - 1 \in S PROVE i \in S
  <2>1. i + 1 \in 2 .. LastFrame /\ (i + 1) - 1 = i /\ (i - 1) + 1 = i /\ i \in Nat
        /\ i \in 0 .. (LastFrame - 1)
    BY <1>1
  <2>2. u[i] = SubSeq(l, 1, Upto(i))
    BY <1>4, <2>1
  <2>3. u[i + 1] = IF m.region[Last(u[i])].next = NULL THEN u[i]
                   ELSE Append(u[i], m.region[Last(u[i])].next)
    BY <1>2, <2>1 DEF ListUpTo
  <2>4. Upto(i) \in 1 .. Len(l)
    BY <1>1, <2>1
  <2>5. Len(SubSeq(l, 1, Upto(i))) = Upto(i) /\ SubSeq(l, 1, Upto(i))[Upto(i)] = l[Upto(i)]
    <3> HIDE DEF Upto
    <3> QED BY <1>0, <1>1, <2>4
  <2>6. Last(u[i]) = l[Upto(i)]
    BY <2>2, <2>5 DEF Last
  <2>7. CASE i < Len(l)
    <3>1. Upto(i) = i /\ Upto(i + 1) = i + 1
      BY <1>1, <2>1, <2>7
    <3>2. m.region[l[i]].next = l[i + 1] /\ l[i + 1] \in Frame
      BY <1>0, <1>1, <2>1, <2>7 DEF Chain
    <3>3. u[i + 1] = Append(u[i], l[i + 1])
      BY <1>0, <2>3, <2>6, <3>1, <3>2
    <3>4. SubSeq(l, 1, i + 1) = Append(SubSeq(l, 1, i), l[i + 1])
      BY <1>0, <1>1, <2>1, <2>7
    <3> QED BY <2>1, <2>2, <3>1, <3>3, <3>4
  <2>8. CASE ~(i < Len(l))
    <3>1. Upto(i) = Len(l) /\ Upto(i + 1) = Len(l)
      BY <1>1, <2>1, <2>8
    <3>2. m.region[l[Len(l)]].next = NULL
      BY <1>1 DEF Chain
    <3>3. u[i + 1] = u[i]
      BY <2>3, <2>6, <3>1, <3>2
    <3> QED BY <2>1, <2>2, <3>1, <3>3
  <2> QED BY <2>7, <2>8
<1>5. 0 .. (LastFrame - 1) \subseteq S
  <2>1. LastFrame - 1 \in Nat
    BY <1>1
  <2> HIDE DEF S
  <2> QED BY <1>3, <1>4, <2>1, Induction
<1>6. u[LastFrame] = SubSeq(l, 1, Upto(LastFrame))
  <2>1. LastFrame - 1 \in 0 .. (LastFrame - 1) /\ (LastFrame - 1) + 1 = LastFrame
    BY <1>1
  <2> QED BY <1>5, <2>1
<1>7. Upto(LastFrame) = Len(l)
  BY <1>1
<1>8. SubSeq(l, 1, Len(l)) = l
  BY <1>0, <1>1
<1> QED BY <1>2, <1>6, <1>7, <1>8

\* The chain is as it was when memory grows.
LEMMA ChainGrows ==
    ASSUME NEW m, NEW n, NEW l, Chain(m, l), Grows(m, n), ~Wild(n)
    PROVE  Chain(n, l)
<1>1. n.root = m.root /\ n.stale = m.stale /\ m.held \subseteq n.held
  BY DEF Grows
<1>2. \A k \in 1 .. Len(l) : l[k] \in m.held /\ n.region[l[k]] = m.region[l[k]]
  BY DEF Chain, Grows
<1>3. n.region[n.root] = m.region[m.root]
  <2>1. Len(l) \in Nat
    BY DEF Chain
  <2>2. 1 \in 1 .. Len(l) /\ l[1] = m.root
    BY <2>1 DEF Chain
  <2> QED BY <1>1, <1>2, <2>2
<1>4. /\ l \in Seq(Frame) /\ Len(l) >= 1 /\ l[1] = n.root /\ n.region[n.root].start = 0
  BY <1>1, <1>3 DEF Chain
<1>5. /\ \A k \in 1 .. Len(l) : l[k] \in n.held /\ n.region[l[k]].size >= 1
      /\ \A k \in 1 .. Len(l) : n.region[l[k]].next = IF k = Len(l) THEN NULL ELSE l[k + 1]
  BY <1>1, <1>2 DEF Chain
<1>6. \A j, k \in 1 .. Len(l) : j < k => End(n.region[l[j]]) <= n.region[l[k]].start
  BY <1>2 DEF Chain
<1>7. \A k \in 2 .. Len(l) : l[k] \in n.stale \/ n.region[l[k]].prev = l[k - 1]
  <2>1. \A k \in 2 .. Len(l) : k \in 1 .. Len(l)
    BY <1>4
  <2> QED BY <1>1, <1>2, <2>1 DEF Chain
<1> QED BY <1>4, <1>5, <1>6, <1>7 DEF Chain

--------------------------------------------------------------------------------
(* The tables while memory is not wild: every held frame has one use *)

\* 0: none; 1 .. 4: a table of that level; then
RegionUse == 5    \* a region's descriptor
HeapUse == 6      \* the first page of a heap region
OtherUse == 7     \* the heap's context, a process or its stack
ImageUse == 8     \* a page of an image
Uses == [Frame -> 0 .. 8]

\* Tables of one level point to tables of the one below, each to its own but for
\* the kernel's upper half, which all page maps share.
Tree(m, use) ==
    /\ \A f \in Frame : use[f] # 0 <=> f \in m.held
    /\ use[m.kernel] = 4
    /\ \A f \in Frame, i \in Slots :
          use[f] \in 1 .. 4 /\ ~Present(m.table[f][i]) => m.table[f][i] = NoEntry
    /\ \A f \in Frame, i \in Slots :
          use[f] \in 2 .. 4 /\ Present(m.table[f][i]) => use[m.table[f][i].to] = use[f] - 1
    /\ \A f, g \in Frame, i, j \in Slots :
          use[f] \in 2 .. 4 /\ use[g] = use[f] /\ Present(m.table[f][i]) /\ Present(m.table[g][j])
             /\ m.table[f][i].to = m.table[g][j].to
             => i = j /\ (f = g \/ (use[f] = 4 /\ i >= Half))
    /\ \A f \in Frame, i \in Slots :
          use[f] = 4 /\ i >= Half => m.table[f][i] = m.table[m.kernel][i]

\* The kernel's is the only page map.
Alone(m, use) == \A f \in Frame : use[f] = 4 => f = m.kernel

\* Frames that had a use keep it.
Extends(m, use, use2) ==
    \A f \in Frame : use2[f] = use[f] \/ (f \notin m.held /\ use2[f] \in 1 .. 3)

\* Entries that were present are as they were.
Keeps(m, n, use) ==
    \A f \in Frame, i \in Slots :
        use[f] \in 1 .. 4 /\ Present(m.table[f][i]) => n.table[f][i] = m.table[f][i]

E4(m, q, w) == m.table[q][Index(w, 4)]
E3(m, q, w) == m.table[E4(m, q, w).to][Index(w, 3)]
E2(m, q, w) == m.table[E3(m, q, w).to][Index(w, 2)]
E1(m, q, w) == m.table[E2(m, q, w).to][Index(w, 1)]
Three(m, q, w) == Present(E4(m, q, w)) /\ Present(E3(m, q, w)) /\ Present(E2(m, q, w))

\* What a page map makes of a virtual page.
View(m, q, w) == <<virt_to_phys(m, q, w), Rights(m, q, w)>>

SameViews(m, n, use) ==
    \A q \in Frame, w \in Virt : use[q] = 4 => View(n, q, w) = View(m, q, w)

\* The view of a page from the entries of its walk.
LEMMA ViewIs ==
    ASSUME NEW m, NEW q, NEW w
    PROVE  /\ ~Three(m, q, w) => View(m, q, w) = <<0, {}>>
           /\ Three(m, q, w) => View(m, q, w) =
                <<E1(m, q, w).to,
                  IF Present(E1(m, q, w))
                  THEN Narrow(Narrow(Narrow(Narrow({"P", "W"}, E4(m, q, w)), E3(m, q, w)),
                                     E2(m, q, w)), E1(m, q, w))
                  ELSE {}>>
<1>1. PICK x : x = Walk(m, q, w)
  OBVIOUS
<1>2. x[1] = E4(m, q, w) /\ x[2] = E3(m, q, w) /\ x[3] = E2(m, q, w) /\ x[4] = E1(m, q, w)
  BY <1>1 DEF Walk, E1, E2, E3, E4
<1>3. (\A k \in 1 .. 3 : Present(x[k])) <=> Three(m, q, w)
  <2>1. \A k \in 1 .. 3 : k = 1 \/ k = 2 \/ k = 3
    OBVIOUS
  <2>2. 1 \in 1 .. 3 /\ 2 \in 1 .. 3 /\ 3 \in 1 .. 3
    OBVIOUS
  <2> QED BY <1>2, <2>1, <2>2 DEF Three
<1>4. (\A k \in 1 .. 4 : Present(x[k])) <=> Three(m, q, w) /\ Present(E1(m, q, w))
  <2>1. \A k \in 1 .. 4 : k = 1 \/ k = 2 \/ k = 3 \/ k = 4
    OBVIOUS
  <2>2. 1 \in 1 .. 4 /\ 2 \in 1 .. 4 /\ 3 \in 1 .. 4 /\ 4 \in 1 .. 4
    OBVIOUS
  <2> QED BY <1>2, <2>1, <2>2 DEF Three
<1>5. virt_to_phys(m, q, w) = IF Three(m, q, w) THEN E1(m, q, w).to ELSE 0
  BY <1>1, <1>2, <1>3 DEF virt_to_phys
<1>6. Rights(m, q, w) = IF Three(m, q, w) /\ Present(E1(m, q, w))
                        THEN Narrow(Narrow(Narrow(Narrow({"P", "W"}, E4(m, q, w)), E3(m, q, w)),
                                           E2(m, q, w)), E1(m, q, w))
                        ELSE {}
  BY <1>1, <1>2, <1>4 DEF Rights
<1> QED BY <1>5, <1>6 DEF View

\* The same entries, or none to a page: the same view.
LEMMA SameView ==
    ASSUME NEW m, NEW n, NEW q, NEW w,
           \/ /\ E4(n, q, w) = E4(m, q, w) /\ E3(n, q, w) = E3(m, q, w)
              /\ E2(n, q, w) = E2(m, q, w) /\ E1(n, q, w) = E1(m, q, w)
           \/ ~Three(m, q, w) /\ (~Three(n, q, w) \/ E1(n, q, w) = NoEntry)
    PROVE  View(n, q, w) = View(m, q, w)
<1>1. CASE /\ E4(n, q, w) = E4(m, q, w) /\ E3(n, q, w) = E3(m, q, w)
           /\ E2(n, q, w) = E2(m, q, w) /\ E1(n, q, w) = E1(m, q, w)
  <2>1. Three(n, q, w) <=> Three(m, q, w)
    BY <1>1 DEF Three
  <2>2. CASE Three(m, q, w)
    BY <1>1, <2>1, <2>2, ViewIs
  <2>3. CASE ~Three(m, q, w)
    BY <2>1, <2>3, ViewIs
  <2> QED BY <2>2, <2>3
<1>2. CASE ~Three(m, q, w) /\ ~Three(n, q, w)
  BY <1>2, ViewIs
<1>3. CASE ~Three(m, q, w) /\ Three(n, q, w) /\ E1(n, q, w) = NoEntry
  <2>1. E1(n, q, w).to = 0 /\ ~Present(E1(n, q, w))
    BY <1>3 DEF NoEntry, Present
  <2>2. View(n, q, w) = <<0, {}>>
    BY <1>3, <2>1, ViewIs
  <2> QED BY <1>3, <2>2, ViewIs
<1> QED BY <1>1, <1>2, <1>3

\* The tables on a walk of a page map have their levels.
LEMMA Levels ==
    ASSUME NEW P, NEW B, NEW m \in Memory(P, B), NEW use \in Uses, Tree(m, use),
           NEW q \in Frame, use[q] = 4, NEW w \in Nat
    PROVE  /\ E4(m, q, w) \in Entry /\ E3(m, q, w) \in Entry
           /\ E2(m, q, w) \in Entry /\ E1(m, q, w) \in Entry
           /\ E4(m, q, w).to \in Frame /\ E3(m, q, w).to \in Frame /\ E2(m, q, w).to \in Frame
           /\ Present(E4(m, q, w)) => use[E4(m, q, w).to] = 3
           /\ Present(E4(m, q, w)) /\ Present(E3(m, q, w)) => use[E3(m, q, w).to] = 2
           /\ Three(m, q, w) => use[E2(m, q, w).to] = 1
<1>0. /\ Index(w, 4) \in Slots /\ Index(w, 3) \in Slots
      /\ Index(w, 2) \in Slots /\ Index(w, 1) \in Slots
  BY IndexType
<1>1. \A f \in Frame, i \in Slots : m.table[f][i] \in Entry /\ m.table[f][i].to \in Frame
  BY DEF Memory, MemoryRecord, Entry
<1>2. E4(m, q, w) \in Entry /\ E4(m, q, w).to \in Frame
  BY <1>0, <1>1 DEF E4
<1>3. E3(m, q, w) \in Entry /\ E3(m, q, w).to \in Frame
  BY <1>0, <1>1, <1>2 DEF E3
<1>4. E2(m, q, w) \in Entry /\ E2(m, q, w).to \in Frame
  BY <1>0, <1>1, <1>3 DEF E2
<1>5. E1(m, q, w) \in Entry
  BY <1>0, <1>1, <1>4 DEF E1
<1>6. \A f \in Frame, i \in Slots : use[f] \in 2 .. 4 /\ Present(m.table[f][i])
                                       => use[m.table[f][i].to] = use[f] - 1
  BY DEF Tree
<1>7. Present(E4(m, q, w)) => use[E4(m, q, w).to] = 3
  <2>1. 4 \in 2 .. 4 /\ 4 - 1 = 3
    OBVIOUS
  <2> QED BY <1>0, <1>6, <2>1 DEF E4
<1>8. Present(E4(m, q, w)) /\ Present(E3(m, q, w)) => use[E3(m, q, w).to] = 2
  <2>1. 3 \in 2 .. 4 /\ 3 - 1 = 2
    OBVIOUS
  <2> QED BY <1>0, <1>2, <1>6, <1>7, <2>1 DEF E3
<1>9. Three(m, q, w) => use[E2(m, q, w).to] = 1
  <2>1. 2 \in 2 .. 4 /\ 2 - 1 = 1
    OBVIOUS
  <2> QED BY <1>0, <1>3, <1>6, <1>8, <2>1 DEF E2, Three
<1> QED BY <1>2, <1>3, <1>4, <1>5, <1>7, <1>8, <1>9

\* Virtual pages are numbers.
LEMMA VirtNat == Virt \subseteq Nat /\ Lower \subseteq Nat
BY DEF Virt, Lower

Gives(use, use2, f, u) == use2 = [use EXCEPT ![f] = u]

\* A page that was taken gets its use.
LEMMA GivenUse ==
    ASSUME NEW B, NEW m \in Memory(Frame, B), NEW use \in Uses, Tree(m, use),
           NEW n, NEW f, Took(m, n, f), f \notin m.held, NEW u \in 1 .. 8, u # 4,
           NEW use2, Gives(use, use2, f, u)
    PROVE  /\ use2 \in Uses /\ use[f] = 0 /\ use2[f] = u /\ Tree(n, use2)
           /\ \A g \in Frame : g # f => use2[g] = use[g] /\ n.table[g] = m.table[g]
           /\ n.table[f] = NoTable
<1>0. f \in Frame /\ m.table \in [Frame -> [Slots -> Entry]] /\ m.kernel \in Frame
  BY DEF Took, Memory, MemoryRecord
<1>1. use[f] = 0
  BY <1>0 DEF Tree
<1>2. use2 \in Uses /\ use2[f] = u /\ \A g \in Frame : g # f => use2[g] = use[g]
  BY <1>0 DEF Uses, Gives
<1>3. n.table[f] = NoTable /\ \A g \in Frame : g # f => n.table[g] = m.table[g]
  BY <1>0 DEF Took
<1>4. \A i \in Slots : n.table[f][i] = NoEntry
  BY <1>3 DEF NoTable, Slots
<1>5. ~Present(NoEntry)
  BY DEF Present, NoEntry
<1>6. n.held = m.held \cup {f} /\ n.kernel = m.kernel /\ m.kernel # f
  BY <1>1 DEF Took, Tree
<1>7. \A g \in Frame : use2[g] # 0 <=> g \in n.held
  BY <1>1, <1>2, <1>6 DEF Tree
<1>8. use2[n.kernel] = 4
  BY <1>0, <1>2, <1>6 DEF Tree
<1>9. \A g \in Frame, i \in Slots :
         use2[g] \in 1 .. 4 /\ ~Present(n.table[g][i]) => n.table[g][i] = NoEntry
  BY <1>2, <1>3, <1>4 DEF Tree
<1>10. \A g \in Frame, i \in Slots : Present(n.table[g][i]) => g # f /\ Present(m.table[g][i])
  BY <1>3, <1>4, <1>5
<1>11. \A g \in Frame, i \in Slots :
          use2[g] \in 2 .. 4 /\ Present(n.table[g][i]) => use2[n.table[g][i].to] = use2[g] - 1
  <2> TAKE g \in Frame, i \in Slots
  <2> SUFFICES ASSUME use2[g] \in 2 .. 4, Present(n.table[g][i])
               PROVE  use2[n.table[g][i].to] = use2[g] - 1
    OBVIOUS
  <2>1. g # f /\ n.table[g][i] = m.table[g][i] /\ use2[g] = use[g]
    BY <1>2, <1>3, <1>10
  <2>2. use[m.table[g][i].to] = use[g] - 1
    BY <2>1 DEF Tree
  <2>3. m.table[g][i].to \in Frame
    BY <1>0 DEF Entry
  <2>4. m.table[g][i].to # f
    BY <1>1, <2>1, <2>2
  <2> QED BY <1>2, <2>1, <2>2, <2>3, <2>4
<1>12. \A g, h \in Frame, i, j \in Slots :
          use2[g] \in 2 .. 4 /\ use2[h] = use2[g] /\ Present(n.table[g][i]) /\ Present(n.table[h][j])
             /\ n.table[g][i].to = n.table[h][j].to
             => i = j /\ (g = h \/ (use2[g] = 4 /\ i >= Half))
  BY <1>2, <1>3, <1>10 DEF Tree
<1>13. \A g \in Frame, i \in Slots :
          use2[g] = 4 /\ i >= Half => n.table[g][i] = n.table[n.kernel][i]
  <2>1. \A g \in Frame : use2[g] = 4 => g # f
    BY <1>2
  <2> QED BY <1>0, <1>2, <1>3, <1>6, <2>1 DEF Tree
<1>14. Tree(n, use2)
  BY <1>7, <1>8, <1>9, <1>11, <1>12, <1>13 DEF Tree
<1> QED BY <1>1, <1>2, <1>3, <1>14

\* The tables in use are as they were: so are the views.
LEMMA TablesKept ==
    ASSUME NEW P, NEW B, NEW m \in Memory(P, B), NEW use \in Uses, Tree(m, use), NEW n,
           \A f \in Frame : use[f] \in 1 .. 4 => n.table[f] = m.table[f]
    PROVE  SameViews(m, n, use)
<1> SUFFICES ASSUME NEW q \in Frame, NEW w \in Virt, use[q] = 4
             PROVE  View(n, q, w) = View(m, q, w)
  BY DEF SameViews
<1>0. w \in Nat
  BY VirtNat
<1>1. /\ E4(m, q, w).to \in Frame /\ E3(m, q, w).to \in Frame /\ E2(m, q, w).to \in Frame
      /\ Present(E4(m, q, w)) => use[E4(m, q, w).to] = 3
      /\ Present(E4(m, q, w)) /\ Present(E3(m, q, w)) => use[E3(m, q, w).to] = 2
      /\ Three(m, q, w) => use[E2(m, q, w).to] = 1
  BY <1>0, Levels
<1>2. 1 \in 1 .. 4 /\ 2 \in 1 .. 4 /\ 3 \in 1 .. 4 /\ 4 \in 1 .. 4
  OBVIOUS
<1>3. E4(n, q, w) = E4(m, q, w)
  BY <1>2 DEF E4
<1>4. Present(E4(m, q, w)) => E3(n, q, w) = E3(m, q, w)
  BY <1>1, <1>2, <1>3 DEF E3
<1>5. Present(E4(m, q, w)) /\ Present(E3(m, q, w)) => E2(n, q, w) = E2(m, q, w)
  BY <1>1, <1>2, <1>4 DEF E2
<1>6. Three(m, q, w) => E1(n, q, w) = E1(m, q, w)
  BY <1>1, <1>2, <1>5 DEF E1, Three
<1>7. CASE Three(m, q, w)
  <2>1. Present(E4(m, q, w)) /\ Present(E3(m, q, w)) /\ Present(E2(m, q, w))
    BY <1>7 DEF Three
  <2> QED BY <1>3, <1>4, <1>5, <1>6, <1>7, <2>1, SameView
<1>8. CASE ~Three(m, q, w)
  <2>1. ~Three(n, q, w)
    BY <1>3, <1>4, <1>5, <1>8 DEF Three
  <2> QED BY <1>8, <2>1, SameView
<1> QED BY <1>7, <1>8

\* A table that nothing points to yet is hung into a table of the level above.
LEMMA TableHung ==
    ASSUME NEW P, NEW B, NEW m \in Memory(P, B), NEW use \in Uses, Tree(m, use),
           NEW t \in Frame, NEW v \in 2 .. 4, use[t] = v, NEW i \in Slots,
           ~Present(m.table[t][i]), v = 4 => i < Half \/ Alone(m, use),
           NEW f \in Frame, use[f] = v - 1, m.table[f] = NoTable,
           \A g \in Frame, j \in Slots :
              use[g] = v /\ Present(m.table[g][j]) => m.table[g][j].to # f,
           NEW e \in Entry, e.to = f, Present(e),
           NEW n, Wrote(m, n, t, i, e)
    PROVE  Tree(n, use) /\ Keeps(m, n, use) /\ SameViews(m, n, use)
<1>0. m.table \in [Frame -> [Slots -> Entry]] /\ m.kernel \in Frame
  BY DEF Memory, MemoryRecord
<1>1. /\ n.table[t][i] = e
      /\ \A g \in Frame, j \in Slots : g # t \/ j # i => n.table[g][j] = m.table[g][j]
  BY <1>0 DEF Wrote
<1>2. n.kernel = m.kernel /\ n.held = m.held
  BY DEF Wrote, Alike
<1>3. f # t /\ v \in Int /\ v # 1
  OBVIOUS
<1>4. \A j \in Slots : n.table[f][j] = NoEntry
  <2>1. \A j \in Slots : NoTable[j] = NoEntry
    BY DEF NoTable, Slots
  <2> QED BY <1>1, <1>3, <2>1
<1>5. ~Present(NoEntry)
  BY DEF Present, NoEntry
<1>6. \A g \in Frame, j \in Slots :
         use[g] \in 1 .. 4 /\ ~Present(n.table[g][j]) => n.table[g][j] = NoEntry
  BY <1>1 DEF Tree
<1>7. \A g \in Frame, j \in Slots :
         use[g] \in 2 .. 4 /\ Present(n.table[g][j]) => use[n.table[g][j].to] = use[g] - 1
  BY <1>1 DEF Tree
<1>8. \A g, h \in Frame, j, k \in Slots :
         use[g] \in 2 .. 4 /\ use[h] = use[g] /\ Present(n.table[g][j]) /\ Present(n.table[h][k])
            /\ n.table[g][j].to = n.table[h][k].to
            => j = k /\ (g = h \/ (use[g] = 4 /\ j >= Half))
  <2> TAKE g, h \in Frame, j, k \in Slots
  <2> SUFFICES ASSUME use[g] \in 2 .. 4, use[h] = use[g], Present(n.table[g][j]),
                      Present(n.table[h][k]), n.table[g][j].to = n.table[h][k].to
               PROVE  j = k /\ (g = h \/ (use[g] = 4 /\ j >= Half))
    OBVIOUS
  <2>1. CASE g = t /\ j = i /\ h = t /\ k = i
    BY <2>1
  <2>2. CASE g = t /\ j = i /\ ~(h = t /\ k = i)
    BY <1>1, <2>2
  <2>3. CASE ~(g = t /\ j = i) /\ h = t /\ k = i
    BY <1>1, <2>3
  <2>4. CASE ~(g = t /\ j = i) /\ ~(h = t /\ k = i)
    BY <1>1, <2>4 DEF Tree
  <2> QED BY <2>1, <2>2, <2>3, <2>4
<1>9. \A g \in Frame, j \in Slots :
         use[g] = 4 /\ j >= Half => n.table[g][j] = n.table[n.kernel][j]
  <2> TAKE g \in Frame, j \in Slots
  <2> SUFFICES ASSUME use[g] = 4, j >= Half PROVE n.table[g][j] = n.table[m.kernel][j]
    BY <1>2
  <2>1. m.table[g][j] = m.table[m.kernel][j]
    BY DEF Tree
  <2>2. i \in Int /\ j \in Int /\ Half \in Int
    BY Constants DEF Slots
  <2>3. use[m.kernel] = 4
    BY DEF Tree
  <2>4. CASE v # 4 \/ j # i
    BY <1>0, <1>1, <2>1, <2>3, <2>4
  <2>5. CASE v = 4 /\ j = i
    <3>1. g = m.kernel
      BY <2>2, <2>5 DEF Alone
    <3> QED BY <3>1
  <2> QED BY <2>4, <2>5
<1>10. Tree(n, use)
  <2>1. \A g \in Frame : use[g] # 0 <=> g \in n.held
    BY <1>2 DEF Tree
  <2>2. use[n.kernel] = 4
    BY <1>2 DEF Tree
  <2> QED BY <2>1, <2>2, <1>6, <1>7, <1>8, <1>9 DEF Tree
<1>11. Keeps(m, n, use)
  BY <1>1 DEF Keeps
<1>12. SameViews(m, n, use)
  <2> SUFFICES ASSUME NEW q \in Frame, NEW w \in Virt, use[q] = 4
               PROVE  View(n, q, w) = View(m, q, w)
    BY DEF SameViews
  <2>0. /\ w \in Nat /\ Index(w, 4) \in Slots /\ Index(w, 3) \in Slots
        /\ Index(w, 2) \in Slots /\ Index(w, 1) \in Slots
    BY VirtNat, IndexType
  <2>1. /\ E4(m, q, w).to \in Frame /\ E3(m, q, w).to \in Frame /\ E2(m, q, w).to \in Frame
        /\ Present(E4(m, q, w)) => use[E4(m, q, w).to] = 3
        /\ Present(E4(m, q, w)) /\ Present(E3(m, q, w)) => use[E3(m, q, w).to] = 2
        /\ Three(m, q, w) => use[E2(m, q, w).to] = 1
    BY <2>0, Levels
  <2>2. 1 \in 1 .. 4 /\ 2 \in 1 .. 4 /\ 3 \in 1 .. 4 /\ 4 \in 1 .. 4
    OBVIOUS
  <2>3. Present(E4(m, q, w)) => E4(n, q, w) = E4(m, q, w)
    BY <2>0, <2>2, <1>11 DEF E4, Keeps
  <2>4. Present(E4(m, q, w)) /\ Present(E3(m, q, w)) => E3(n, q, w) = E3(m, q, w)
    BY <2>0, <2>1, <2>2, <2>3, <1>11 DEF E3, Keeps
  <2>5. Three(m, q, w) => E2(n, q, w) = E2(m, q, w)
    BY <2>0, <2>1, <2>2, <2>4, <1>11 DEF E2, Keeps, Three
  <2>6. CASE Three(m, q, w)
    <3>1. E2(m, q, w).to # t
      BY <1>3, <2>1, <2>6
    <3>2. E1(n, q, w) = E1(m, q, w)
      BY <1>1, <2>0, <2>1, <2>5, <2>6, <3>1 DEF E1
    <3>3. Present(E4(m, q, w)) /\ Present(E3(m, q, w))
      BY <2>6 DEF Three
    <3> QED BY <2>3, <2>4, <2>5, <2>6, <3>2, <3>3, SameView
  <2>7. CASE ~Present(E4(m, q, w))
    <3>1. ~Three(m, q, w) /\ ~Three(n, q, w)
      <4>1. CASE q = t /\ Index(w, 4) = i
        <5>1. E4(n, q, w) = e
          BY <1>1, <4>1 DEF E4
        <5>2. E3(n, q, w) = NoEntry
          BY <1>4, <2>0, <5>1 DEF E3
        <5> QED BY <1>5, <2>7, <5>2 DEF Three
      <4>2. CASE ~(q = t /\ Index(w, 4) = i)
        BY <1>1, <2>0, <2>7, <4>2 DEF E4, Three
      <4> QED BY <4>1, <4>2
    <3> QED BY <3>1, SameView
  <2>8. CASE Present(E4(m, q, w)) /\ ~Present(E3(m, q, w))
    <3>1. ~Three(m, q, w) /\ ~Three(n, q, w)
      <4>1. CASE E4(m, q, w).to = t /\ Index(w, 3) = i
        <5>1. E3(n, q, w) = e
          BY <1>1, <2>3, <2>8, <4>1 DEF E3
        <5>2. E2(n, q, w) = NoEntry
          BY <1>4, <2>0, <5>1 DEF E2
        <5> QED BY <1>5, <2>8, <5>2 DEF Three
      <4>2. CASE ~(E4(m, q, w).to = t /\ Index(w, 3) = i)
        <5>1. E3(n, q, w) = E3(m, q, w)
          BY <1>1, <2>0, <2>1, <2>3, <2>8, <4>2 DEF E3
        <5> QED BY <2>8, <5>1 DEF Three
      <4> QED BY <4>1, <4>2
    <3> QED BY <3>1, SameView
  <2>9. CASE Present(E4(m, q, w)) /\ Present(E3(m, q, w)) /\ ~Present(E2(m, q, w))
    <3>1. ~Three(m, q, w) /\ (~Three(n, q, w) \/ E1(n, q, w) = NoEntry)
      <4>1. CASE E3(m, q, w).to = t /\ Index(w, 2) = i
        <5>1. E2(n, q, w) = e
          BY <1>1, <2>4, <2>9, <4>1 DEF E2
        <5>2. E1(n, q, w) = NoEntry
          BY <1>4, <2>0, <5>1 DEF E1
        <5> QED BY <2>9, <5>2 DEF Three
      <4>2. CASE ~(E3(m, q, w).to = t /\ Index(w, 2) = i)
        <5>1. E2(n, q, w) = E2(m, q, w)
          BY <1>1, <2>0, <2>1, <2>4, <2>9, <4>2 DEF E2
        <5> QED BY <2>9, <5>1 DEF Three
      <4> QED BY <4>1, <4>2
    <3> QED BY <3>1, SameView
  <2> QED BY <2>6, <2>7, <2>8, <2>9 DEF Three
<1> QED BY <1>10, <1>11, <1>12

\* What a step of a walk that may make a table leaves.
Hung(m, n, use, use2) ==
    /\ use2 \in Uses /\ Tree(n, use2) /\ Extends(m, use, use2)
    /\ Keeps(m, n, use) /\ SameViews(m, n, use)
    /\ \A f \in Frame : use[f] = 0 /\ use2[f] \in 1 .. 3 =>
          \E g \in Frame, j \in Slots : use2[g] = use2[f] + 1 /\ Present(n.table[g][j])
                                           /\ n.table[g][j].to = f

\* One level down, from a to b.
Down(a, b, use, use2, i, flags, v) ==
    /\ Hung(a.mem, b.mem, use, use2) /\ use2[b.table] = v - 1
    /\ Present(b.mem.table[a.table][i]) /\ b.mem.table[a.table][i].to = b.table
    /\ ~Present(a.mem.table[a.table][i]) =>
         /\ b.mem.table[a.table][i].flags = flags
         /\ \A j \in Slots : b.mem.table[b.table][j] = NoEntry

\* One level down in memory that does not get wild.
LEMMA EnterStep ==
    ASSUME NEW B \in Nat, NEW a \in Step(B), NEW i \in Slots, NEW flags \in SUBSET Flags,
           "P" \in flags, NEW b, b = Enter(a, i, flags), ~Wild(b.mem),
           NEW use \in Uses, Tree(a.mem, use), NEW v \in 2 .. 4, use[a.table] = v,
           v = 4 => i < Half \/ Alone(a.mem, use)
    PROVE  \E use2 \in Uses : Down(a, b, use, use2, i, flags, v)
<1>0. a.mem \in Memory(Frame, B) /\ a.table \in Frame /\ a.mem.table \in [Frame -> [Slots -> Entry]]
      /\ a.mem.kernel \in Frame
  BY DEF Step, Memory, MemoryRecord
<1>1. b \in Step(B)
  BY Entered
<1>2. CASE Present(a.mem.table[a.table][i])
  <2>1. b.mem = a.mem /\ b.table = a.mem.table[a.table][i].to
    BY <1>2, Entered
  <2>2. Extends(a.mem, use, use) /\ Keeps(a.mem, a.mem, use) /\ SameViews(a.mem, a.mem, use)
    BY DEF Extends, Keeps, SameViews
  <2>3. use[b.table] = v - 1
    BY <1>0, <1>2, <2>1 DEF Tree
  <2>4. Hung(a.mem, b.mem, use, use)
    BY <2>1, <2>2 DEF Hung
  <2> QED BY <1>2, <2>1, <2>3, <2>4 DEF Down
<1>3. CASE ~Present(a.mem.table[a.table][i])
  <2>1. PICK n \in Memory(Frame, B) :
           /\ \/ n = Note(a.mem, "frame0") /\ b.table = 0 /\ a.mem.stack = << >>
              \/ Took(a.mem, n, b.table)
           /\ Wrote(n, b.mem, a.table, i, [to |-> b.table, flags |-> flags])
    BY <1>3, Entered
  <2>2. ~Wild(n)
    BY <2>1 DEF Wrote, Wild
  <2>3. Took(a.mem, n, b.table) /\ b.table \notin a.mem.held
    BY <1>0, <2>1, <2>2, HigherHalfGrows
  <2>4. b.table \in Frame
    BY <2>3 DEF Took
  <2>5. v - 1 \in 1 .. 8 /\ v - 1 # 4 /\ v - 1 \in 1 .. 3 /\ v \in 1 .. 4
    OBVIOUS
  <2>6. PICK use2 : Gives(use, use2, b.table, v - 1)
    BY DEF Gives
  <2>7. /\ use2 \in Uses /\ use[b.table] = 0 /\ use2[b.table] = v - 1 /\ Tree(n, use2)
        /\ \A g \in Frame : g # b.table => use2[g] = use[g] /\ n.table[g] = a.mem.table[g]
        /\ n.table[b.table] = NoTable
    <3>1. PICK m, f, u : m = a.mem /\ f = b.table /\ u = v - 1
      OBVIOUS
    <3>2. m \in Memory(Frame, B) /\ Tree(m, use) /\ Took(m, n, f) /\ f \notin m.held
          /\ u \in 1 .. 8 /\ u # 4 /\ Gives(use, use2, f, u)
      BY <1>0, <2>3, <2>5, <2>6, <3>1
    <3>3. /\ use2 \in Uses /\ use[f] = 0 /\ use2[f] = u /\ Tree(n, use2)
          /\ \A g \in Frame : g # f => use2[g] = use[g] /\ n.table[g] = m.table[g]
          /\ n.table[f] = NoTable
      BY <3>2, GivenUse
    <3> QED BY <3>1, <3>3
  <2>8. a.table # b.table /\ use2[a.table] = v /\ n.table[a.table] = a.mem.table[a.table]
    BY <1>0, <2>5, <2>7
  <2>9. SameViews(a.mem, n, use)
    <3>1. \A f \in Frame : use[f] \in 1 .. 4 => n.table[f] = a.mem.table[f]
      BY <2>7
    <3> QED BY <1>0, <3>1, TablesKept
  <2>10. PICK e \in Entry : e = [to |-> b.table, flags |-> flags]
    BY <2>4 DEF Entry
  <2>11. e.to = b.table /\ Present(e) /\ e.flags = flags
    BY <2>10 DEF Present
  <2>12. Wrote(n, b.mem, a.table, i, e)
    BY <2>1, <2>10
  <2>13. v = 4 => i < Half \/ Alone(n, use2)
    <3>1. n.kernel = a.mem.kernel
      BY <2>3 DEF Took
    <3>2. Alone(a.mem, use) => Alone(n, use2)
      BY <2>5, <2>7, <3>1 DEF Alone
    <3> QED BY <3>2
  <2>14. \A g \in Frame, j \in Slots :
            use2[g] = v /\ Present(n.table[g][j]) => n.table[g][j].to # b.table
    <3> TAKE g \in Frame, j \in Slots
    <3> SUFFICES ASSUME use2[g] = v, Present(n.table[g][j]) PROVE n.table[g][j].to # b.table
      OBVIOUS
    <3>1. g # b.table
      BY <2>5, <2>7
    <3>2. use[g] = v /\ n.table[g][j] = a.mem.table[g][j]
      BY <2>7, <3>1
    <3>3. use[a.mem.table[g][j].to] = v - 1
      BY <3>2 DEF Tree
    <3> QED BY <2>5, <2>7, <3>2, <3>3
  <2>15. ~Present(n.table[a.table][i])
    BY <1>3, <2>8
  <2>16. Tree(b.mem, use2) /\ Keeps(n, b.mem, use2) /\ SameViews(n, b.mem, use2)
    <3>1. PICK t, f, q : t = a.table /\ f = b.table /\ q = b.mem
      OBVIOUS
    <3>2. /\ t \in Frame /\ use2[t] = v /\ ~Present(n.table[t][i])
          /\ v = 4 => i < Half \/ Alone(n, use2)
          /\ f \in Frame /\ use2[f] = v - 1 /\ n.table[f] = NoTable
          /\ \A g \in Frame, j \in Slots :
                use2[g] = v /\ Present(n.table[g][j]) => n.table[g][j].to # f
          /\ e.to = f /\ Present(e) /\ Wrote(n, q, t, i, e) /\ use2 \in Uses /\ Tree(n, use2)
      BY <1>0, <2>4, <2>7, <2>8, <2>11, <2>12, <2>13, <2>14, <2>15, <3>1
    <3>3. Tree(q, use2) /\ Keeps(n, q, use2) /\ SameViews(n, q, use2)
      BY <3>2, TableHung
    <3> QED BY <3>1, <3>3
  <2>17. b.mem.table[a.table][i] = e /\ b.mem.table[b.table] = NoTable
    <3>1. n.table \in [Frame -> [Slots -> Entry]]
      BY DEF Memory, MemoryRecord
    <3> QED BY <1>0, <2>4, <2>7, <2>8, <2>12, <3>1 DEF Wrote
  <2>18. \A j \in Slots : b.mem.table[b.table][j] = NoEntry
    <3>1. \A j \in Slots : NoTable[j] = NoEntry
      BY DEF NoTable, Slots
    <3> QED BY <2>17, <3>1
  <2>19. Extends(a.mem, use, use2)
    BY <2>3, <2>5, <2>7 DEF Extends
  <2>20. Keeps(a.mem, b.mem, use)
    <3> SUFFICES ASSUME NEW f \in Frame, NEW j \in Slots, use[f] \in 1 .. 4,
                        Present(a.mem.table[f][j])
                 PROVE  b.mem.table[f][j] = a.mem.table[f][j]
      BY DEF Keeps
    <3>1. f # b.table
      BY <2>7
    <3>2. use2[f] \in 1 .. 4 /\ n.table[f][j] = a.mem.table[f][j]
      BY <2>7, <3>1
    <3> QED BY <2>16, <3>2 DEF Keeps
  <2>21. SameViews(a.mem, b.mem, use)
    <3> SUFFICES ASSUME NEW q \in Frame, NEW w \in Virt, use[q] = 4
                 PROVE  View(b.mem, q, w) = View(a.mem, q, w)
      BY DEF SameViews
    <3>1. q # b.table
      BY <2>7
    <3>2. use2[q] = 4
      BY <2>7, <3>1
    <3> QED BY <2>9, <2>16, <3>2 DEF SameViews
  <2>22. Hung(a.mem, b.mem, use, use2)
    <3>1. \A f \in Frame : use[f] = 0 /\ use2[f] \in 1 .. 3 => f = b.table
      BY <2>7
    <3>2. use2[a.table] = use2[b.table] + 1
      BY <2>7, <2>8
    <3>3. \A f \in Frame : use[f] = 0 /\ use2[f] \in 1 .. 3 =>
             \E g \in Frame, j \in Slots : use2[g] = use2[f] + 1 /\ Present(b.mem.table[g][j])
                                              /\ b.mem.table[g][j].to = f
      BY <1>0, <2>11, <2>17, <3>1, <3>2
    <3> QED BY <2>7, <2>16, <2>19, <2>20, <2>21, <3>3 DEF Hung
  <2> QED BY <1>3, <2>7, <2>11, <2>17, <2>18, <2>22 DEF Down
<1> QED BY <1>2, <1>3

\* One after the other.
LEMMA HungOn ==
    ASSUME NEW k, NEW m, NEW n, NEW use \in Uses, NEW use1, NEW use2,
           Hung(k, m, use, use1), Hung(m, n, use1, use2), k.held \subseteq m.held, Tree(k, use)
    PROVE  Hung(k, n, use, use2)
<1>1. use1 \in Uses /\ use2 \in Uses /\ Tree(n, use2) /\ Extends(k, use, use1)
      /\ Extends(m, use1, use2) /\ Keeps(k, m, use) /\ Keeps(m, n, use1)
      /\ SameViews(k, m, use) /\ SameViews(m, n, use1)
  BY DEF Hung
<1>2. \A f \in Frame : use[f] # 0 => use1[f] = use[f]
  BY <1>1 DEF Extends, Tree
<1>3. Keeps(k, n, use)
  <2>1. \A f \in Frame : use[f] \in 1 .. 4 => use1[f] \in 1 .. 4
    BY <1>2
  <2> QED BY <1>1, <2>1 DEF Keeps
<1>4. SameViews(k, n, use)
  BY <1>1, <1>2 DEF SameViews
<1>5. Extends(k, use, use2)
  BY <1>1 DEF Extends
<1>6. \A f \in Frame : use[f] = 0 /\ use2[f] \in 1 .. 3 =>
         \E g \in Frame, j \in Slots : use2[g] = use2[f] + 1 /\ Present(n.table[g][j])
                                          /\ n.table[g][j].to = f
  <2> SUFFICES ASSUME NEW f \in Frame, use[f] = 0, use2[f] \in 1 .. 3
               PROVE  \E g \in Frame, j \in Slots : use2[g] = use2[f] + 1 /\ Present(n.table[g][j])
                                                      /\ n.table[g][j].to = f
    OBVIOUS
  <2>1. CASE use1[f] = 0
    BY <2>1 DEF Hung
  <2>2. CASE use1[f] # 0
    <3>1. use2[f] = use1[f]
      <4>1. Tree(m, use1)
        BY DEF Hung
      <4> QED BY <1>1, <2>2, <4>1 DEF Extends, Tree
    <3>2. PICK g \in Frame, j \in Slots : use1[g] = use1[f] + 1 /\ Present(m.table[g][j])
                                           /\ m.table[g][j].to = f
      BY <3>1 DEF Hung
    <3>3. use1[g] \in 1 .. 4 /\ use1[g] # 0
      BY <3>1, <3>2
    <3>4. n.table[g][j] = m.table[g][j]
      BY <1>1, <3>2, <3>3 DEF Keeps
    <3>5. use2[g] = use1[g]
      <4>1. Tree(m, use1)
        BY DEF Hung
      <4> QED BY <1>1, <3>3, <4>1 DEF Extends, Tree
    <3> QED BY <3>1, <3>2, <3>4, <3>5
  <2> QED BY <2>1, <2>2
<1> QED BY <1>1, <1>3, <1>4, <1>5, <1>6 DEF Hung

\* Division in two steps.
LEMMA DivDiv ==
    ASSUME NEW w \in Nat, NEW G \in Nat \ {0}, NEW F \in Nat \ {0}
    PROVE  (w \div G) \div F = w \div (G * F)
<1>1. PICK q \in Nat, r \in 0 .. (G - 1) : w = q * G + r /\ q = w \div G
  <2>1. w \div G \in Nat /\ w % G \in 0 .. (G - 1) /\ w = (w \div G) * G + (w % G)
    OBVIOUS
  <2> QED BY <2>1
<1>2. PICK p \in Nat, s \in 0 .. (F - 1) : q = p * F + s /\ p = q \div F
  <2>1. q \div F \in Nat /\ q % F \in 0 .. (F - 1) /\ q = (q \div F) * F + (q % F)
    OBVIOUS
  <2> QED BY <2>1
<1>3. G * F \in Nat \ {0} /\ p * (G * F) \in Nat
  OBVIOUS
<1>4. w = p * (G * F) + (s * G + r)
  <2>1. q * G = p * (G * F) + s * G
    <3>1. q * G = (p * F + s) * G
      BY <1>2
    <3>2. (p * F + s) * G = (p * F) * G + s * G
      OBVIOUS
    <3>3. (p * F) * G = p * (G * F)
      OBVIOUS
    <3> QED BY <3>1, <3>2, <3>3
  <2> QED BY <1>1, <2>1
<1>5. s * G \in Nat /\ s * G <= (F - 1) * G /\ (F - 1) * G = G * F - G
  OBVIOUS
<1>6. s * G + r \in 0 .. (G * F - 1)
  BY <1>3, <1>5
<1>7. PICK H \in Nat \ {0}, x \in Nat : H = G * F /\ x = s * G + r /\ x \in 0 .. (H - 1)
  BY <1>3, <1>6
<1>8. w = p * H + x
  BY <1>4, <1>7
<1>9. w \div H = p
  BY <1>7, <1>8
<1> QED BY <1>1, <1>2, <1>7, <1>9

\* A virtual page in terms of its indices.
LEMMA Digits ==
    ASSUME NEW w \in Virt
    PROVE  \E p, q \in Nat :
              /\ p = Index(w, 4) * Fan + Index(w, 3) /\ q = p * Fan + Index(w, 2)
              /\ w = q * Fan + Index(w, 1)
              /\ Index(w, 4) = w \div (Fan * Fan * Fan)
<1>0. w \in Nat /\ Fan \in Nat \ {0} /\ Fan * Fan \in Nat \ {0} /\ (Fan * Fan) * Fan \in Nat \ {0}
  BY VirtNat, Constants
<1>1. PICK q : q = w \div Fan
  OBVIOUS
<1>2. PICK p : p = q \div Fan
  OBVIOUS
<1>3. PICK o : o = p \div Fan
  OBVIOUS
<1>4. q \in Nat /\ p \in Nat /\ o \in Nat
  BY <1>0, <1>1, <1>2, <1>3
<1>5. w = q * Fan + (w % Fan)
  BY <1>0, <1>1
<1>6. q = p * Fan + (q % Fan)
  BY <1>0, <1>2, <1>4
<1>7. p = o * Fan + (p % Fan)
  BY <1>0, <1>3, <1>4
<1>8. p = w \div (Fan * Fan)
  BY <1>0, <1>1, <1>2, DivDiv
<1>9. o = w \div (Fan * Fan * Fan)
  <2>1. PICK G \in Nat \ {0} : G = Fan * Fan
    BY <1>0
  <2>2. (w \div G) \div Fan = w \div (G * Fan)
    BY <1>0, <2>1, DivDiv
  <2> QED BY <1>3, <1>8, <2>1, <2>2
<1>10. o < Fan
  <2>1. PICK H \in Nat \ {0} : H = Fan * Fan * Fan
    BY <1>0
  <2>2. w < Fan * H
    <3>1. Fan * Fan * Fan * Fan = Fan * H
      BY <1>0, <2>1
    <3> QED BY <1>0, <3>1 DEF Virt
  <2>3. w = o * H + (w % H) /\ w % H >= 0
    BY <1>0, <1>9, <2>1
  <2>4. CASE o >= Fan
    <3>1. o * H >= Fan * H
      BY <1>0, <1>4, <2>4
    <3>2. o * H \in Nat /\ Fan * H \in Nat /\ w % H \in Nat
      BY <1>0, <1>4, <2>3
    <3> QED BY <1>0, <2>2, <2>3, <3>1, <3>2
  <2> QED BY <1>0, <1>4, <2>4
<1>11. Index(w, 1) = w % Fan
  <2>1. w \div 1 = w
    BY <1>0
  <2> QED BY <2>1, Spans DEF Index
<1>12. Index(w, 2) = q % Fan /\ Index(w, 3) = p % Fan
  BY <1>1, <1>8, Spans DEF Index
<1>13. Index(w, 4) = o
  <2>1. Index(w, 4) = o % Fan
    BY <1>9, Spans DEF Index
  <2>2. o % Fan = o
    BY <1>0, <1>4, <1>10
  <2> QED BY <2>1, <2>2
<1> QED BY <1>4, <1>5, <1>6, <1>7, <1>9, <1>11, <1>12, <1>13

\* The same indices: the same page.
LEMMA SamePage ==
    ASSUME NEW v \in Virt, NEW w \in Virt, Index(w, 4) = Index(v, 4), Index(w, 3) = Index(v, 3),
           Index(w, 2) = Index(v, 2), Index(w, 1) = Index(v, 1)
    PROVE  w = v
BY Digits

\* The lower half and the first index.
LEMMA LowerIndex ==
    ASSUME NEW w \in Virt
    PROVE  w \in Lower <=> Index(w, 4) < Half
<1>0. w \in Nat /\ Fan \in Nat \ {0} /\ Fan * Fan \in Nat \ {0} /\ (Fan * Fan) * Fan \in Nat \ {0}
      /\ Half \in Nat
  BY VirtNat, Constants
<1>1. PICK H \in Nat \ {0} : H = Fan * Fan * Fan
  BY <1>0
<1>2. Index(w, 4) = w \div H
  BY <1>1, Digits
<1>3. PICK o \in Nat, r \in 0 .. (H - 1) : w = o * H + r /\ o = w \div H
  <2>1. w \div H \in Nat /\ w % H \in 0 .. (H - 1) /\ w = (w \div H) * H + (w % H)
    BY <1>0
  <2> QED BY <2>1
<1>4. w \in Lower <=> w < Half * H
  <2>1. Half * Fan * Fan * Fan = Half * H /\ Half * H \in Nat
    BY <1>0, <1>1
  <2> QED BY <1>0, <2>1 DEF Lower
<1>5. CASE o < Half
  <2>1. o + 1 <= Half /\ o * H + H = (o + 1) * H /\ (o + 1) * H <= Half * H
    BY <1>0, <1>5
  <2>2. o * H \in Nat /\ Half * H \in Nat
    BY <1>0
  <2> QED BY <1>0, <1>2, <1>3, <1>4, <1>5, <2>1, <2>2
<1>6. CASE o >= Half
  <2>1. o * H >= Half * H
    BY <1>0, <1>6
  <2>2. o * H \in Nat /\ Half * H \in Nat
    BY <1>0
  <2> QED BY <1>0, <1>2, <1>3, <1>4, <1>6, <2>1, <2>2
<1> QED BY <1>0, <1>5, <1>6

\* The lower half is a part.
LEMMA LowerVirt == Lower \subseteq Virt /\ HHDM \in Nat /\ \A w \in Nat : w \in Lower <=> w < HHDM
<1>0. Fan \in Nat \ {0} /\ Fan * Fan \in Nat \ {0} /\ (Fan * Fan) * Fan \in Nat \ {0}
      /\ Half \in Nat /\ Half < Fan
  BY Constants
<1>1. PICK H \in Nat \ {0} : H = Fan * Fan * Fan
  BY <1>0
<1>2. Half * Fan * Fan * Fan = Half * H /\ Fan * Fan * Fan * Fan = Fan * H /\ Half * H <= Fan * H
      /\ Half * H \in Nat /\ Fan * H \in Nat
  BY <1>0, <1>1
<1>3. HHDM = Half * H
  BY <1>2 DEF HHDM
<1>4. Lower = 0 .. (Half * H - 1) /\ Virt = 0 .. (Fan * H - 1)
  BY <1>2 DEF Lower, Virt
<1> QED BY <1>2, <1>3, <1>4

\* All views are as they were but those of the pages S of the page map q.
SameBut(m, n, use, q, S) ==
    \A p \in Frame, w \in Virt : use[p] = 4 /\ ~(p = q /\ w \in S) => View(n, p, w) = View(m, p, w)

\* Two walks that end in the same entry.
LEMMA SameWalk ==
    ASSUME NEW P, NEW B, NEW m \in Memory(P, B), NEW use \in Uses, Tree(m, use),
           NEW p \in Frame, use[p] = 4, NEW q \in Frame, use[q] = 4, NEW w \in Virt, NEW v \in Virt,
           Three(m, p, w), Three(m, q, v), E2(m, p, w).to = E2(m, q, v).to,
           Index(w, 1) = Index(v, 1)
    PROVE  w = v /\ (p = q \/ v \notin Lower)
<1>0. w \in Nat /\ v \in Nat
  BY VirtNat
<1>1. /\ Index(w, 4) \in Slots /\ Index(w, 3) \in Slots /\ Index(w, 2) \in Slots
      /\ Index(v, 4) \in Slots /\ Index(v, 3) \in Slots /\ Index(v, 2) \in Slots
  BY <1>0, IndexType
<1>2. /\ Present(E4(m, p, w)) /\ Present(E3(m, p, w)) /\ Present(E2(m, p, w))
      /\ Present(E4(m, q, v)) /\ Present(E3(m, q, v)) /\ Present(E2(m, q, v))
  BY DEF Three
<1>3. /\ E4(m, p, w).to \in Frame /\ E3(m, p, w).to \in Frame
      /\ use[E4(m, p, w).to] = 3 /\ use[E3(m, p, w).to] = 2
  BY <1>0, <1>2, Levels
<1>4. /\ E4(m, q, v).to \in Frame /\ E3(m, q, v).to \in Frame
      /\ use[E4(m, q, v).to] = 3 /\ use[E3(m, q, v).to] = 2
  BY <1>0, <1>2, Levels
<1>5. \A f, g \in Frame, i, j \in Slots :
         use[f] \in 2 .. 4 /\ use[g] = use[f] /\ Present(m.table[f][i]) /\ Present(m.table[g][j])
            /\ m.table[f][i].to = m.table[g][j].to
            => i = j /\ (f = g \/ (use[f] = 4 /\ i >= Half))
  BY DEF Tree
<1>6. 2 \in 2 .. 4 /\ 3 \in 2 .. 4 /\ 4 \in 2 .. 4 /\ 2 # 4 /\ 3 # 4
  OBVIOUS
<1>7. Index(w, 2) = Index(v, 2) /\ E3(m, p, w).to = E3(m, q, v).to
  BY <1>1, <1>2, <1>3, <1>4, <1>5, <1>6 DEF E2
<1>8. Index(w, 3) = Index(v, 3) /\ E4(m, p, w).to = E4(m, q, v).to
  BY <1>1, <1>2, <1>3, <1>4, <1>5, <1>6, <1>7 DEF E3
<1>9. Index(w, 4) = Index(v, 4) /\ (p = q \/ Index(v, 4) >= Half)
  BY <1>1, <1>2, <1>5, <1>6, <1>8 DEF E4
<1>10. w = v
  BY <1>7, <1>8, <1>9, SamePage
<1>11. Index(v, 4) >= Half => v \notin Lower
  <2>1. Index(v, 4) \in Int /\ Half \in Int
    BY <1>1, Constants DEF Slots
  <2> QED BY <2>1, LowerIndex
<1> QED BY <1>9, <1>10, <1>11

LeafChange(m, n, use, q, v, e) ==
    /\ Tree(n, use) /\ SameBut(m, n, use, q, {v})
    /\ E4(n, q, v) = E4(m, q, v) /\ E3(n, q, v) = E3(m, q, v)
    /\ E2(n, q, v) = E2(m, q, v) /\ E1(n, q, v) = e
    /\ \A f \in Frame : use[f] # 1 => n.table[f] = m.table[f]

\* A write into a table of the last level that a walk ends in: the tree stands,
\* and only that page's view can change.
LEMMA LeafWritten ==
    ASSUME NEW P, NEW B, NEW m \in Memory(P, B), NEW use \in Uses, Tree(m, use),
           NEW q \in Frame, use[q] = 4, NEW v \in Virt, v \in Lower \/ Alone(m, use),
           Three(m, q, v), NEW t, t = E2(m, q, v).to, NEW e \in Entry, Present(e) \/ e = NoEntry,
           NEW x \in Slots, x = Index(v, 1),
           NEW n, Wrote(m, n, t, x, e)
    PROVE  LeafChange(m, n, use, q, v, e)
<1>0. m.table \in [Frame -> [Slots -> Entry]] /\ m.kernel \in Frame /\ v \in Nat
      /\ Index(v, 1) \in Slots
  BY VirtNat, IndexType DEF Memory, MemoryRecord
<1>1. t \in Frame /\ use[t] = 1
  BY <1>0, Levels
<1>2. PICK i \in Slots : i = Index(v, 1)
  BY <1>0
<1>3. /\ n.table[t][i] = e
      /\ \A g \in Frame, j \in Slots : g # t \/ j # i => n.table[g][j] = m.table[g][j]
      /\ \A g \in Frame : g # t => n.table[g] = m.table[g]
  BY <1>0, <1>1, <1>2 DEF Wrote
<1>4. n.kernel = m.kernel /\ n.held = m.held
  BY DEF Wrote, Alike
<1>5. \A g \in Frame : use[g] # 1 => n.table[g] = m.table[g]
  BY <1>1, <1>3
<1>6. Tree(n, use)
  <2>1. \A g \in Frame : use[g] # 0 <=> g \in n.held
    BY <1>4 DEF Tree
  <2>2. use[n.kernel] = 4 /\ use[m.kernel] = 4
    BY <1>4 DEF Tree
  <2>3. \A g \in Frame, j \in Slots :
           use[g] \in 1 .. 4 /\ ~Present(n.table[g][j]) => n.table[g][j] = NoEntry
    BY <1>3 DEF Tree
  <2>4. \A g \in Frame : use[g] \in 2 .. 4 => n.table[g] = m.table[g]
    BY <1>5
  <2>5. \A g \in Frame, j \in Slots :
           use[g] \in 2 .. 4 /\ Present(n.table[g][j]) => use[n.table[g][j].to] = use[g] - 1
    BY <2>4 DEF Tree
  <2>6. \A f, g \in Frame, j, k \in Slots :
           use[f] \in 2 .. 4 /\ use[g] = use[f] /\ Present(n.table[f][j]) /\ Present(n.table[g][k])
              /\ n.table[f][j].to = n.table[g][k].to
              => j = k /\ (f = g \/ (use[f] = 4 /\ j >= Half))
    BY <2>4 DEF Tree
  <2>7. 4 \in 2 .. 4
    OBVIOUS
  <2>8. \A g \in Frame, j \in Slots :
           use[g] = 4 /\ j >= Half => n.table[g][j] = n.table[n.kernel][j]
    BY <1>0, <1>4, <2>2, <2>4, <2>7 DEF Tree
  <2> QED BY <2>1, <2>2, <2>3, <2>5, <2>6, <2>8 DEF Tree
<1>7. ASSUME NEW p \in Frame, use[p] = 4, NEW w \in Virt, Three(m, p, w)
      PROVE  E4(n, p, w) = E4(m, p, w) /\ E3(n, p, w) = E3(m, p, w) /\ E2(n, p, w) = E2(m, p, w)
             /\ E2(m, p, w).to \in Frame
  <2>0. w \in Nat /\ Present(E4(m, p, w)) /\ Present(E3(m, p, w))
    BY <1>7, VirtNat DEF Three
  <2>1. /\ E4(m, p, w).to \in Frame /\ E3(m, p, w).to \in Frame /\ E2(m, p, w).to \in Frame
        /\ use[E4(m, p, w).to] = 3 /\ use[E3(m, p, w).to] = 2
    BY <1>7, <2>0, Levels
  <2>2. E4(n, p, w) = E4(m, p, w)
    BY <1>5, <1>7 DEF E4
  <2>3. E3(n, p, w) = E3(m, p, w)
    BY <1>5, <2>1, <2>2 DEF E3
  <2>4. E2(n, p, w) = E2(m, p, w)
    BY <1>5, <2>1, <2>3 DEF E2
  <2> QED BY <2>1, <2>2, <2>3, <2>4
<1>8. SameBut(m, n, use, q, {v})
  <2> SUFFICES ASSUME NEW p \in Frame, NEW w \in Virt, use[p] = 4, ~(p = q /\ w = v)
               PROVE  View(n, p, w) = View(m, p, w)
    BY DEF SameBut
  <2>0. w \in Nat /\ Index(w, 1) \in Slots
    BY VirtNat, IndexType
  <2>1. CASE Three(m, p, w)
    <3>1. ~(E2(m, p, w).to = t /\ Index(w, 1) = i)
      <4> SUFFICES ASSUME E2(m, p, w).to = t, Index(w, 1) = i PROVE FALSE
        OBVIOUS
      <4>1. w = v /\ (p = q \/ v \notin Lower)
        BY <1>2, <2>1, SameWalk
      <4>2. p # q /\ Alone(m, use)
        BY <4>1
      <4> QED BY <4>2 DEF Alone
    <3>2. E1(n, p, w) = E1(m, p, w)
      BY <1>3, <1>7, <2>0, <2>1, <3>1 DEF E1
    <3> QED BY <1>7, <2>1, <3>2, SameView
  <2>2. CASE ~Three(m, p, w)
    <3>0. /\ E4(m, p, w).to \in Frame /\ E3(m, p, w).to \in Frame /\ E2(m, p, w).to \in Frame
          /\ Present(E4(m, p, w)) => use[E4(m, p, w).to] = 3
          /\ Present(E4(m, p, w)) /\ Present(E3(m, p, w)) => use[E3(m, p, w).to] = 2
      BY <2>0, Levels
    <3>1. E4(n, p, w) = E4(m, p, w)
      BY <1>5 DEF E4
    <3>2. Present(E4(m, p, w)) => E3(n, p, w) = E3(m, p, w)
      BY <1>5, <3>0, <3>1 DEF E3
    <3>3. Present(E4(m, p, w)) /\ Present(E3(m, p, w)) => E2(n, p, w) = E2(m, p, w)
      BY <1>5, <3>0, <3>2 DEF E2
    <3>4. ~Three(n, p, w)
      BY <2>2, <3>1, <3>2, <3>3 DEF Three
    <3> QED BY <2>2, <3>4, SameView
  <2> QED BY <2>1, <2>2
<1>9. /\ E4(n, q, v) = E4(m, q, v) /\ E3(n, q, v) = E3(m, q, v)
      /\ E2(n, q, v) = E2(m, q, v) /\ E1(n, q, v) = e
  <2>1. /\ E4(n, q, v) = E4(m, q, v) /\ E3(n, q, v) = E3(m, q, v)
        /\ E2(n, q, v) = E2(m, q, v)
    BY <1>7
  <2>2. E1(n, q, v) = e
    BY <1>2, <1>3, <2>1 DEF E1
  <2> QED BY <2>1, <2>2
<1> QED BY <1>5, <1>6, <1>8, <1>9 DEF LeafChange

\* Tables that came into use hang in one of the level above.
Reached(n, use, use2) ==
    \A f \in Frame : use[f] = 0 /\ use2[f] \in 1 .. 3 =>
       \E g \in Frame, j \in Slots : use2[g] = use2[f] + 1 /\ Present(n.table[g][j])
                                        /\ n.table[g][j].to = f

\* What vmm_map does to memory that does not get wild.
Maps(m, n, use, use2, q, v, phys, flags) ==
    /\ use2 \in Uses /\ Tree(n, use2) /\ Extends(m, use, use2) /\ SameBut(m, n, use, q, {v})
    /\ \A f \in Frame, i \in Slots :
          use[f] \in 2 .. 4 /\ Present(m.table[f][i]) => n.table[f][i] = m.table[f][i]
    /\ Reached(n, use, use2)
    /\ Three(n, q, v) /\ E1(n, q, v) = [to |-> phys, flags |-> flags]
    /\ Three(m, q, v) => /\ E4(n, q, v) = E4(m, q, v) /\ E3(n, q, v) = E3(m, q, v)
                         /\ E2(n, q, v) = E2(m, q, v)
    /\ ~Present(E4(m, q, v)) => /\ E4(n, q, v).flags = flags /\ E3(n, q, v).flags = flags
                                /\ E2(n, q, v).flags = flags

\* The three levels of a walk that makes its tables.
LEMMA Descended ==
    ASSUME NEW B \in Nat, NEW m \in Memory(Frame, B), NEW use \in Uses, Tree(m, use),
           NEW q \in Frame, use[q] = 4, NEW v \in Virt, v \in Lower \/ Alone(m, use),
           NEW flags \in SUBSET Flags, "P" \in flags,
           NEW b \in Step(B), NEW c \in Step(B), NEW d \in Step(B),
           b = Enter([mem |-> m, table |-> q], Index(v, 4), flags),
           c = Enter(b, Index(v, 3), flags), d = Enter(c, Index(v, 2), flags), ~Wild(d.mem)
    PROVE  \E use2 \in Uses :
              /\ Hung(m, d.mem, use, use2) /\ Three(d.mem, q, v) /\ d.table = E2(d.mem, q, v).to
              /\ ~Present(E4(m, q, v)) => /\ E4(d.mem, q, v).flags = flags
                                          /\ E3(d.mem, q, v).flags = flags
                                          /\ E2(d.mem, q, v).flags = flags
<1>0. v \in Nat
  BY VirtNat
<1>1. /\ Index(v, 4) \in Slots /\ Index(v, 3) \in Slots /\ Index(v, 2) \in Slots
  BY <1>0, IndexType
<1>2. PICK a \in Step(B) : a = [mem |-> m, table |-> q]
  BY DEF Step
<1>3. a.mem = m /\ a.table = q /\ b = Enter(a, Index(v, 4), flags)
  BY <1>2
<1>4. Grows(m, b.mem) /\ Grows(b.mem, c.mem) /\ Grows(c.mem, d.mem)
  BY <1>1, <1>3, EnterGrows
<1>5. ~Wild(c.mem) /\ ~Wild(b.mem)
  BY <1>4, WildStays DEF Grows
<1>6. 4 \in 2 .. 4 /\ 3 \in 2 .. 4 /\ 2 \in 2 .. 4 /\ 4 - 1 = 3 /\ 3 - 1 = 2 /\ 2 - 1 = 1
         /\ 3 # 4 /\ 2 # 4
      /\ 1 \in 1 .. 4 /\ 2 \in 1 .. 4 /\ 3 \in 1 .. 4 /\ 4 \in 1 .. 4
  OBVIOUS
<1>7. Index(v, 4) < Half \/ Alone(m, use)
  BY LowerIndex
<1>a. PICK i4 \in Slots, i3 \in Slots, i2 \in Slots :
         i4 = Index(v, 4) /\ i3 = Index(v, 3) /\ i2 = Index(v, 2)
  BY <1>1
<1>8. PICK use4 \in Uses : Down(a, b, use, use4, i4, flags, 4)
  BY <1>3, <1>5, <1>6, <1>7, <1>a, EnterStep
<1>9. PICK use3 \in Uses : Down(b, c, use4, use3, i3, flags, 3)
  <2>1. Tree(b.mem, use4) /\ use4[b.table] = 3
    BY <1>6, <1>8 DEF Hung, Down
  <2> QED BY <1>5, <1>6, <1>a, <2>1, EnterStep
<1>10. PICK use2 \in Uses : Down(c, d, use3, use2, i2, flags, 2)
  <2>1. Tree(c.mem, use3) /\ use3[c.table] = 2
    BY <1>6, <1>9 DEF Hung, Down
  <2> QED BY <1>6, <1>a, <2>1, EnterStep
<1>b. /\ Hung(m, b.mem, use, use4) /\ use4[b.table] = 3
      /\ Present(b.mem.table[q][i4]) /\ b.mem.table[q][i4].to = b.table
      /\ ~Present(m.table[q][i4]) =>
           b.mem.table[q][i4].flags = flags /\ \A j \in Slots : b.mem.table[b.table][j] = NoEntry
  BY <1>3, <1>6, <1>8 DEF Down
<1>c. /\ Hung(b.mem, c.mem, use4, use3) /\ use3[c.table] = 2
      /\ Present(c.mem.table[b.table][i3]) /\ c.mem.table[b.table][i3].to = c.table
      /\ ~Present(b.mem.table[b.table][i3]) =>
           c.mem.table[b.table][i3].flags = flags
               /\ \A j \in Slots : c.mem.table[c.table][j] = NoEntry
  BY <1>6, <1>9 DEF Down
<1>d. /\ Hung(c.mem, d.mem, use3, use2) /\ use2[d.table] = 1
      /\ Present(d.mem.table[c.table][i2]) /\ d.mem.table[c.table][i2].to = d.table
      /\ ~Present(c.mem.table[c.table][i2]) =>
           d.mem.table[c.table][i2].flags = flags
               /\ \A j \in Slots : d.mem.table[d.table][j] = NoEntry
  BY <1>6, <1>10 DEF Down
<1>11. Hung(m, c.mem, use, use3)
  <2>1. m.held \subseteq b.mem.held
    BY <1>4, <1>5 DEF Grows
  <2> QED BY <1>b, <1>c, <2>1, HungOn
<1>12. Hung(m, d.mem, use, use2)
  <2>1. m.held \subseteq c.mem.held
    BY <1>4, <1>5 DEF Grows
  <2> QED BY <1>d, <1>11, <2>1, HungOn
<1>13. Hung(b.mem, d.mem, use4, use2)
  <2>1. b.mem.held \subseteq c.mem.held /\ Tree(b.mem, use4)
    BY <1>4, <1>5, <1>b DEF Grows, Hung
  <2> QED BY <1>c, <1>d, <2>1, HungOn
<1>14. b.table \in Frame /\ c.table \in Frame /\ d.table \in Frame
  BY DEF Step
<1>15. use4[q] = 4
  BY <1>b DEF Hung, Extends, Tree
<1>16. d.mem.table[q][i4] = b.mem.table[q][i4]
  BY <1>1, <1>6, <1>b, <1>13, <1>15 DEF Hung, Keeps
<1>17. d.mem.table[b.table][i3] = c.mem.table[b.table][i3]
  <2>1. use3[b.table] = 3
    <3>1. Tree(b.mem, use4) /\ Extends(b.mem, use4, use3)
      BY <1>b, <1>c DEF Hung
    <3>2. b.table \in b.mem.held
      BY <1>b, <1>14, <3>1 DEF Tree
    <3> QED BY <1>b, <1>14, <3>1, <3>2 DEF Extends
  <2>2. Keeps(c.mem, d.mem, use3)
    BY <1>d DEF Hung
  <2> QED BY <1>6, <1>c, <1>14, <2>1, <2>2 DEF Keeps
<1>18. E4(d.mem, q, v) = b.mem.table[q][i4]
  BY <1>16, <1>a DEF E4
<1>19. E3(d.mem, q, v) = c.mem.table[b.table][i3]
  BY <1>a, <1>b, <1>17, <1>18 DEF E3
<1>20. E2(d.mem, q, v) = d.mem.table[c.table][i2]
  BY <1>a, <1>c, <1>19 DEF E2
<1>21. Three(d.mem, q, v) /\ d.table = E2(d.mem, q, v).to
  BY <1>b, <1>c, <1>d, <1>18, <1>19, <1>20 DEF Three
<1>22. ~Present(E4(m, q, v)) => /\ E4(d.mem, q, v).flags = flags
                                /\ E3(d.mem, q, v).flags = flags
                                /\ E2(d.mem, q, v).flags = flags
  <2> SUFFICES ASSUME ~Present(E4(m, q, v))
               PROVE /\ E4(d.mem, q, v).flags = flags
                     /\ E3(d.mem, q, v).flags = flags
                     /\ E2(d.mem, q, v).flags = flags
    OBVIOUS
  <2>1. ~Present(NoEntry)
    BY DEF NoEntry, Present
  <2>2. E4(d.mem, q, v).flags = flags /\ ~Present(b.mem.table[b.table][i3])
    BY <1>a, <1>b, <1>18, <2>1 DEF E4
  <2>3. E3(d.mem, q, v).flags = flags /\ ~Present(c.mem.table[c.table][i2])
    BY <1>1, <1>c, <1>19, <2>1, <2>2
  <2>4. E2(d.mem, q, v).flags = flags
    BY <1>d, <1>20, <2>3
  <2> QED BY <2>2, <2>3, <2>4
<1> QED BY <1>12, <1>21, <1>22

\* vmm_map in memory that does not get wild: the tree stands, and one view changes.
LEMMA MapStep ==
    ASSUME NEW B \in Nat, NEW m \in Memory(Frame, B), NEW use \in Uses, Tree(m, use),
           NEW q \in Frame, use[q] = 4, NEW v \in Virt, v \in Lower \/ Alone(m, use),
           NEW phys \in Frame, NEW flags \in SUBSET Flags, "P" \in flags,
           NEW n, n = vmm_map(m, q, v, phys, flags), ~Wild(n)
    PROVE  \E use2 \in Uses : Maps(m, n, use, use2, q, v, phys, flags)
<1>0. v \in Nat
  BY VirtNat
<1>1. PICK b \in Step(B), c \in Step(B), d \in Step(B) :
         /\ b = Enter([mem |-> m, table |-> q], Index(v, 4), flags)
         /\ c = Enter(b, Index(v, 3), flags)
         /\ d = Enter(c, Index(v, 2), flags)
         /\ Wrote(d.mem, n, d.table, Index(v, 1), [to |-> phys, flags |-> flags])
  BY <1>0, Mapped
<1>2. ~Wild(d.mem)
  BY <1>1 DEF Wrote, Wild
<1>3. PICK use2 \in Uses :
         /\ Hung(m, d.mem, use, use2) /\ Three(d.mem, q, v) /\ d.table = E2(d.mem, q, v).to
         /\ ~Present(E4(m, q, v)) => /\ E4(d.mem, q, v).flags = flags
                                     /\ E3(d.mem, q, v).flags = flags
                                     /\ E2(d.mem, q, v).flags = flags
  BY <1>1, <1>2, Descended
<1>4. PICK k \in Memory(Frame, B) : k = d.mem
  BY DEF Step
<1>5. PICK e \in Entry : e = [to |-> phys, flags |-> flags]
  BY DEF Entry
<1>6. Present(e)
  BY <1>5 DEF Present
<1>7. PICK t : t = d.table
  OBVIOUS
<1>8. /\ Tree(k, use2) /\ Extends(m, use, use2) /\ Keeps(m, k, use) /\ SameViews(m, k, use)
  BY <1>3, <1>4 DEF Hung
<1>9. \A f \in Frame : use[f] # 0 => use2[f] = use[f]
  BY <1>8 DEF Extends, Tree
<1>10. use2[q] = 4
  BY <1>9
<1>11. Alone(m, use) => Alone(k, use2)
  <2>1. k.kernel = m.kernel
    <3>1. Index(v, 4) \in Slots /\ Index(v, 3) \in Slots /\ Index(v, 2) \in Slots
      BY <1>0, IndexType
    <3>2. PICK a \in Step(B) : a = [mem |-> m, table |-> q]
      BY DEF Step
    <3>3. Grows(m, b.mem) /\ Grows(b.mem, c.mem) /\ Grows(c.mem, d.mem)
      BY <1>1, <3>1, <3>2, EnterGrows
    <3> QED BY <1>4, <3>3 DEF Grows
  <2> QED BY <1>8, <2>1 DEF Alone, Extends
<1>12. Three(k, q, v) /\ t = E2(k, q, v).to /\ Wrote(k, n, t, Index(v, 1), e)
  BY <1>1, <1>3, <1>4, <1>5, <1>7
<1>13. /\ Tree(n, use2) /\ SameBut(k, n, use2, q, {v})
       /\ E4(n, q, v) = E4(k, q, v) /\ E3(n, q, v) = E3(k, q, v)
       /\ E2(n, q, v) = E2(k, q, v) /\ E1(n, q, v) = e
       /\ \A f \in Frame : use2[f] # 1 => n.table[f] = k.table[f]
  <2>1. v \in Lower \/ Alone(k, use2)
    BY <1>11
  <2>2. Tree(k, use2)
    BY <1>8
  <2>3. PICK x \in Slots : x = Index(v, 1)
    BY <1>0, IndexType
  <2>4. LeafChange(k, n, use2, q, v, e)
    BY <1>6, <1>10, <1>12, <2>1, <2>2, <2>3, LeafWritten
  <2> QED BY <2>4 DEF LeafChange
<1>14. SameBut(m, n, use, q, {v})
  BY <1>8, <1>9, <1>13 DEF SameBut, SameViews
<1>15. \A f \in Frame, i \in Slots :
          use[f] \in 2 .. 4 /\ Present(m.table[f][i]) => n.table[f][i] = m.table[f][i]
  <2>1. \A f \in Frame : use[f] \in 2 .. 4 => use[f] \in 1 .. 4 /\ use2[f] # 1
    BY <1>9
  <2> QED BY <1>8, <1>13, <2>1 DEF Keeps
<1>16. Reached(n, use, use2)
  <2> SUFFICES ASSUME NEW f \in Frame, use[f] = 0, use2[f] \in 1 .. 3
               PROVE  \E g \in Frame, j \in Slots : use2[g] = use2[f] + 1
                                           /\ Present(n.table[g][j]) /\ n.table[g][j].to = f
    BY DEF Reached
  <2>1. PICK g \in Frame, j \in Slots : use2[g] = use2[f] + 1
                                           /\ Present(k.table[g][j]) /\ k.table[g][j].to = f
    BY <1>3, <1>4 DEF Hung
  <2>2. use2[g] # 1
    BY <2>1
  <2> QED BY <1>13, <2>1, <2>2
<1>17. Three(n, q, v)
  BY <1>12, <1>13 DEF Three
<1>18. Three(m, q, v) => /\ E4(k, q, v) = E4(m, q, v) /\ E3(k, q, v) = E3(m, q, v)
                         /\ E2(k, q, v) = E2(m, q, v)
  <2> SUFFICES ASSUME Three(m, q, v)
               PROVE  /\ E4(k, q, v) = E4(m, q, v) /\ E3(k, q, v) = E3(m, q, v)
                      /\ E2(k, q, v) = E2(m, q, v)
    OBVIOUS
  <2>1. /\ Present(E4(m, q, v)) /\ Present(E3(m, q, v)) /\ Present(E2(m, q, v))
    BY DEF Three
  <2>2. /\ E4(m, q, v).to \in Frame /\ E3(m, q, v).to \in Frame
        /\ use[E4(m, q, v).to] = 3 /\ use[E3(m, q, v).to] = 2
    BY <1>0, <2>1, Levels
  <2>3. /\ Index(v, 4) \in Slots /\ Index(v, 3) \in Slots /\ Index(v, 2) \in Slots
        /\ 4 \in 1 .. 4 /\ 3 \in 1 .. 4 /\ 2 \in 1 .. 4
    BY <1>0, IndexType
  <2>4. E4(k, q, v) = E4(m, q, v)
    BY <1>8, <2>1, <2>3 DEF Keeps, E4
  <2>5. E3(k, q, v) = E3(m, q, v)
    BY <1>8, <2>1, <2>2, <2>3, <2>4 DEF Keeps, E3
  <2>6. E2(k, q, v) = E2(m, q, v)
    BY <1>8, <2>1, <2>2, <2>3, <2>5 DEF Keeps, E2
  <2> QED BY <2>4, <2>5, <2>6
<1>19. ~Present(E4(m, q, v)) => /\ E4(n, q, v).flags = flags /\ E3(n, q, v).flags = flags
                                /\ E2(n, q, v).flags = flags
  BY <1>3, <1>4, <1>13
<1> QED BY <1>5, <1>8, <1>13, <1>14, <1>15, <1>16, <1>17, <1>18, <1>19 DEF Maps

\* Views are of the tables only.
LEMMA SameTables ==
    ASSUME NEW m, NEW n, n.table = m.table
    PROVE  \A q, w : View(n, q, w) = View(m, q, w)
BY DEF View, virt_to_phys, Rights, Walk

\* So is the tree, but for what is held.
LEMMA SameTree ==
    ASSUME NEW m, NEW n, NEW use, Tree(m, use), n.table = m.table, n.kernel = m.kernel,
           n.held = m.held
    PROVE  Tree(n, use)
BY DEF Tree

\* What vmm_unmap does.
Unmaps(m, n, use, q, v) ==
    /\ Tree(n, use) /\ SameBut(m, n, use, q, {v})
    /\ Alike(m, n) /\ n.stack = m.stack /\ n.held = m.held /\ n.events = m.events
    /\ \A f \in Frame : use[f] # 1 => n.table[f] = m.table[f]

\* vmm_unmap: only that page's view can change.
LEMMA UnmapStep ==
    ASSUME NEW P, NEW B, NEW m \in Memory(P, B), NEW use \in Uses, Tree(m, use),
           NEW q \in Frame, use[q] = 4, NEW v \in Lower, NEW n, n = vmm_unmap(m, q, v)
    PROVE  Unmaps(m, n, use, q, v)
<1> SUFFICES /\ Tree(n, use) /\ SameBut(m, n, use, q, {v})
             /\ Alike(m, n) /\ n.stack = m.stack /\ n.held = m.held /\ n.events = m.events
             /\ \A f \in Frame : use[f] # 1 => n.table[f] = m.table[f]
  BY DEF Unmaps
<1>0. v \in Nat /\ v \in Virt /\ m.table \in [Frame -> [Slots -> Entry]]
  BY VirtNat, LowerVirt DEF Memory, MemoryRecord
<1>1. PICK w : w = Walk(m, q, v)
  OBVIOUS
<1>2. PICK t \in Frame, i \in Slots : UnmapAt(w, q, v, t, i) /\ Wrote(m, n, t, i, NoEntry)
  BY <1>0, <1>1, Unmapped
<1>3. w[1] = E4(m, q, v) /\ w[2] = E3(m, q, v) /\ w[3] = E2(m, q, v)
  BY <1>1 DEF Walk, E4, E3, E2
<1>4. Alike(m, n) /\ n.stack = m.stack /\ n.held = m.held /\ n.events = m.events
  BY <1>2 DEF Wrote
<1>5. CASE Three(m, q, v)
  <2>1. t = E2(m, q, v).to /\ i = Index(v, 1)
    BY <1>2, <1>3, <1>5 DEF UnmapAt, Three
  <2>2. LeafChange(m, n, use, q, v, NoEntry)
    BY <1>0, <1>2, <1>5, <2>1, Cleared, LeafWritten
  <2> QED BY <1>4, <2>2 DEF LeafChange
<1>6. CASE ~Three(m, q, v)
  <2>1. /\ Present(E4(m, q, v)) => use[E4(m, q, v).to] = 3
        /\ Present(E4(m, q, v)) /\ Present(E3(m, q, v)) => use[E3(m, q, v).to] = 2
    BY <1>0, Levels
  <2>2. use[t] \in 1 .. 4 /\ ~Present(m.table[t][i])
    <3>1. CASE ~Present(E4(m, q, v))
      BY <1>2, <1>3, <3>1 DEF UnmapAt, E4
    <3>2. CASE Present(E4(m, q, v)) /\ ~Present(E3(m, q, v))
      BY <1>2, <1>3, <2>1, <3>2 DEF UnmapAt, E3
    <3>3. CASE Present(E4(m, q, v)) /\ Present(E3(m, q, v)) /\ ~Present(E2(m, q, v))
      BY <1>2, <1>3, <2>1, <3>3 DEF UnmapAt, E2
    <3> QED BY <1>6, <3>1, <3>2, <3>3 DEF Three
  <2>3. m.table[t][i] = NoEntry
    BY <2>2 DEF Tree
  <2>4. n.table = m.table
    BY <1>0, <1>2, <2>3 DEF Wrote
  <2>5. Tree(n, use)
    BY <1>4, <2>4, SameTree DEF Alike
  <2>6. SameBut(m, n, use, q, {v})
    BY <2>4, SameTables DEF SameBut
  <2> QED BY <1>4, <2>4, <2>5, <2>6
<1> QED BY <1>5, <1>6

\* A frame that is no table loses its use.
LEMMA UseDropped ==
    ASSUME NEW m, NEW use \in Uses, Tree(m, use), NEW f \in Frame, use[f] \notin 1 .. 4,
           NEW n, n.table = m.table, n.kernel = m.kernel, n.held = m.held \ {f},
           NEW use2, Gives(use, use2, f, 0), m.kernel \in Frame
    PROVE  /\ use2 \in Uses /\ Tree(n, use2) /\ use2[f] = 0
           /\ \A g \in Frame : g # f => use2[g] = use[g]
<1>1. use2 \in Uses /\ use2[f] = 0 /\ \A g \in Frame : g # f => use2[g] = use[g]
  BY DEF Gives, Uses
<1>2. \A g \in Frame : use2[g] \in 1 .. 4 => g # f /\ use2[g] = use[g]
  BY <1>1
<1>3. \A g \in Frame : use2[g] # 0 <=> g \in n.held
  BY <1>1 DEF Tree
<1>4. m.kernel # f /\ use2[n.kernel] = 4
  <2>1. use[m.kernel] = 4 /\ 4 \in 1 .. 4
    BY DEF Tree
  <2> QED BY <1>1, <2>1
<1>5. \A g \in Frame, i \in Slots :
         use2[g] \in 1 .. 4 /\ ~Present(n.table[g][i]) => n.table[g][i] = NoEntry
  BY <1>2 DEF Tree
<1>6. \A g \in Frame : use2[g] \in 2 .. 4 => use2[g] \in 1 .. 4
  OBVIOUS
<1>7. \A g \in Frame, i \in Slots :
         use2[g] \in 2 .. 4 /\ Present(n.table[g][i]) => use2[n.table[g][i].to] = use2[g] - 1
  <2> TAKE g \in Frame, i \in Slots
  <2> SUFFICES ASSUME use2[g] \in 2 .. 4, Present(n.table[g][i])
               PROVE  use2[n.table[g][i].to] = use2[g] - 1
    OBVIOUS
  <2>1. use[m.table[g][i].to] = use[g] - 1 /\ use[g] = use2[g]
    BY <1>2, <1>6 DEF Tree
  <2>2. m.table[g][i].to # f
    BY <2>1
  <2>3. use2[m.table[g][i].to] = use[m.table[g][i].to]
    BY <2>2 DEF Gives, Uses
  <2> QED BY <2>1, <2>3
<1>8. \A g, h \in Frame, i, j \in Slots :
         use2[g] \in 2 .. 4 /\ use2[h] = use2[g] /\ Present(n.table[g][i]) /\ Present(n.table[h][j])
            /\ n.table[g][i].to = n.table[h][j].to
            => i = j /\ (g = h \/ (use2[g] = 4 /\ i >= Half))
  BY <1>2, <1>6 DEF Tree
<1>9. \A g \in Frame, i \in Slots :
         use2[g] = 4 /\ i >= Half => n.table[g][i] = n.table[n.kernel][i]
  <2>1. 4 \in 1 .. 4
    OBVIOUS
  <2> QED BY <1>2, <2>1 DEF Tree
<1>10. Tree(n, use2)
  BY <1>3, <1>4, <1>5, <1>7, <1>8, <1>9 DEF Tree
<1> QED BY <1>1, <1>10

\* A new page map: a view of its own in the lower half, the kernel's in the upper.
NewSpace(m, n, use, use2, f) ==
    /\ use2 \in Uses /\ Gives(use, use2, f, 4) /\ use[f] = 0 /\ Tree(n, use2)
    /\ SameViews(m, n, use)
    /\ \A w \in Virt : View(n, f, w) = IF w \in Lower THEN <<0, {}>> ELSE View(m, m.kernel, w)
    /\ \A g \in Frame : use[g] \in 1 .. 4 => n.table[g] = m.table[g]
    /\ \A i \in Slots : i < Half => n.table[f][i] = NoEntry

\* vmm_new_pagemap in memory that does not get wild.
LEMMA PagemapStep ==
    ASSUME NEW B \in Nat, NEW m \in Memory(Frame, B), NEW use \in Uses, Tree(m, use),
           NEW r, r = vmm_new_pagemap(m), ~Wild(r.mem)
    PROVE  /\ r.page \in Frame /\ r.page \notin m.held /\ Grows(m, r.mem)
           /\ \E use2 \in Uses : NewSpace(m, r.mem, use, use2, r.page)
<1>1. PICK k \in Memory(Frame, B) :
         /\ \/ k = Note(m, "frame0") /\ r.page = 0 /\ m.stack = << >>
            \/ Took(m, k, r.page)
         /\ Alike(k, r.mem) /\ r.mem.stack = k.stack /\ r.mem.held = k.held
         /\ r.mem.events = k.events
         /\ Copied(k, r.mem, r.page, m.kernel)
  BY MadePagemap
<1>2. PICK f, n : f = r.page /\ n = r.mem
  OBVIOUS
<1>3. ~Wild(k)
  BY <1>1 DEF Wild
<1>4. Took(m, k, f) /\ f \notin m.held
  BY <1>1, <1>2, <1>3, HigherHalfGrows
<1>5. Grows(m, k) /\ Grows(k, n)
  BY <1>1, <1>2, HigherHalfGrows, AlikeGrows
<1>6. Grows(m, n)
  BY <1>5, GrowsOn
<1>7. /\ f \in Frame /\ m.table \in [Frame -> [Slots -> Entry]] /\ m.kernel \in Frame
      /\ k.table \in [Frame -> [Slots -> Entry]]
  BY <1>4 DEF Took, Memory, MemoryRecord
<1>8. use[f] = 0 /\ use[m.kernel] = 4 /\ m.kernel # f
  BY <1>4, <1>7 DEF Tree
<1>9. \A g \in Frame : g # f => n.table[g] = m.table[g]
  BY <1>1, <1>2, <1>4, <1>7 DEF Took, Copied
<1>10. \A i \in Slots : n.table[f][i] = IF i >= Half THEN m.table[m.kernel][i] ELSE NoEntry
  <2>1. n.table[f] = [i \in Slots |-> IF i >= Half THEN k.table[m.kernel][i] ELSE NoEntry]
    BY <1>1, <1>2, <1>7 DEF Copied
  <2>2. k.table[m.kernel] = m.table[m.kernel]
    BY <1>4, <1>7, <1>8 DEF Took
  <2> QED BY <2>1, <2>2
<1>11. PICK use2 : Gives(use, use2, f, 4)
  BY DEF Gives
<1>12. use2 \in Uses /\ use2[f] = 4 /\ \A g \in Frame : g # f => use2[g] = use[g]
  BY <1>7, <1>11 DEF Gives, Uses
<1>13. n.held = m.held \cup {f} /\ n.kernel = m.kernel
  BY <1>1, <1>2, <1>4 DEF Took, Alike
<1>14. ~Present(NoEntry)
  BY DEF Present, NoEntry
<1>15. 4 \in 2 .. 4 /\ 4 \in 1 .. 4 /\ 4 - 1 = 3
  OBVIOUS
<1>16. ASSUME NEW g \in Frame, use2[g] \in 2 .. 4, NEW i \in Slots, Present(n.table[g][i])
       PROVE  \E h \in Frame : /\ use[h] = use2[g] /\ Present(m.table[h][i])
                               /\ n.table[g][i] = m.table[h][i]
                               /\ use[n.table[g][i].to] = use2[g] - 1 /\ n.table[g][i].to # f
                               /\ (h = g \/ (i >= Half /\ use2[g] = 4 /\ h = m.kernel))
  <2>0. \A h \in Frame, j \in Slots :
           use[h] \in 2 .. 4 /\ Present(m.table[h][j]) => use[m.table[h][j].to] = use[h] - 1
    BY DEF Tree
  <2>1. CASE g = f
    <3>1. i >= Half /\ n.table[g][i] = m.table[m.kernel][i]
      BY <1>10, <1>14, <1>16, <2>1
    <3>2. use[m.table[m.kernel][i].to] = 3
      BY <1>7, <1>8, <1>15, <1>16, <2>0, <3>1
    <3>3. m.table[m.kernel][i].to # f
      BY <1>8, <3>2
    <3> QED BY <1>7, <1>8, <1>12, <1>15, <1>16, <2>1, <3>1, <3>2, <3>3
  <2>2. CASE g # f
    <3>1. n.table[g][i] = m.table[g][i] /\ use[g] = use2[g]
      BY <1>9, <1>12, <2>2
    <3>2. use[m.table[g][i].to] = use[g] - 1
      BY <1>16, <2>0, <3>1
    <3>3. m.table[g][i].to # f
      BY <1>8, <1>16, <3>1, <3>2
    <3> QED BY <1>16, <3>1, <3>2, <3>3
  <2> QED BY <2>1, <2>2
<1>17. \A g \in Frame, i \in Slots :
          use2[g] \in 2 .. 4 /\ Present(n.table[g][i]) => use2[n.table[g][i].to] = use2[g] - 1
  <2> TAKE g \in Frame, i \in Slots
  <2> SUFFICES ASSUME use2[g] \in 2 .. 4, Present(n.table[g][i])
               PROVE  use2[n.table[g][i].to] = use2[g] - 1
    OBVIOUS
  <2>1. use[n.table[g][i].to] = use2[g] - 1 /\ n.table[g][i].to # f
    BY <1>16
  <2>2. use2[n.table[g][i].to] = use[n.table[g][i].to]
    BY <1>11, <2>1 DEF Gives, Uses
  <2> QED BY <2>1, <2>2
<1>18. \A g, h \in Frame, i, j \in Slots :
          use2[g] \in 2 .. 4 /\ use2[h] = use2[g] /\ Present(n.table[g][i]) /\ Present(n.table[h][j])
             /\ n.table[g][i].to = n.table[h][j].to
             => i = j /\ (g = h \/ (use2[g] = 4 /\ i >= Half))
  <2> TAKE g, h \in Frame, i, j \in Slots
  <2> SUFFICES ASSUME use2[g] \in 2 .. 4, use2[h] = use2[g], Present(n.table[g][i]),
                      Present(n.table[h][j]), n.table[g][i].to = n.table[h][j].to
               PROVE  i = j /\ (g = h \/ (use2[g] = 4 /\ i >= Half))
    OBVIOUS
  <2>1. PICK g1 \in Frame : /\ use[g1] = use2[g] /\ Present(m.table[g1][i])
                            /\ n.table[g][i] = m.table[g1][i]
                            /\ (g1 = g \/ (i >= Half /\ use2[g] = 4 /\ g1 = m.kernel))
    BY <1>16
  <2>2. PICK h1 \in Frame : /\ use[h1] = use2[h] /\ Present(m.table[h1][j])
                            /\ n.table[h][j] = m.table[h1][j]
                            /\ (h1 = h \/ (j >= Half /\ use2[h] = 4 /\ h1 = m.kernel))
    BY <1>16
  <2>3. i = j /\ (g1 = h1 \/ (use[g1] = 4 /\ i >= Half))
    BY <2>1, <2>2 DEF Tree
  <2> QED BY <2>1, <2>2, <2>3
<1>19. \A g \in Frame, i \in Slots :
          use2[g] \in 1 .. 4 /\ ~Present(n.table[g][i]) => n.table[g][i] = NoEntry
  <2> TAKE g \in Frame, i \in Slots
  <2>1. CASE g = f
    BY <1>7, <1>8, <1>10, <1>15, <2>1 DEF Tree
  <2>2. CASE g # f
    BY <1>9, <1>12, <2>2 DEF Tree
  <2> QED BY <2>1, <2>2
<1>20. \A g \in Frame, i \in Slots :
          use2[g] = 4 /\ i >= Half => n.table[g][i] = n.table[n.kernel][i]
  <2> TAKE g \in Frame, i \in Slots
  <2>0. n.table[n.kernel] = m.table[m.kernel]
    BY <1>7, <1>8, <1>9, <1>13
  <2>1. CASE g = f
    BY <1>10, <2>0, <2>1
  <2>2. CASE g # f
    BY <1>9, <1>12, <2>0, <2>2 DEF Tree
  <2> QED BY <2>1, <2>2
<1>21. Tree(n, use2)
  <2>1. \A g \in Frame : use2[g] # 0 <=> g \in n.held
    BY <1>12, <1>13, <1>15 DEF Tree
  <2>2. use2[n.kernel] = 4
    BY <1>7, <1>8, <1>12, <1>13
  <2> QED BY <2>1, <2>2, <1>17, <1>18, <1>19, <1>20 DEF Tree
<1>22. \A g \in Frame : use[g] \in 1 .. 4 => n.table[g] = m.table[g]
  BY <1>8, <1>9
<1>23. SameViews(m, n, use)
  BY <1>22, TablesKept
<1>24. ASSUME NEW w \in Virt
       PROVE  View(n, f, w) = IF w \in Lower THEN <<0, {}>> ELSE View(m, m.kernel, w)
  <2>0. Index(w, 4) \in Slots /\ Index(w, 4) \in Int /\ Half \in Int
    BY VirtNat, IndexType, Constants DEF Slots
  <2>1. CASE w \in Lower
    <3>1. E4(n, f, w) = NoEntry
      BY <1>10, <2>0, <2>1, LowerIndex DEF E4
    <3>2. ~Three(n, f, w)
      BY <1>14, <3>1 DEF Three
    <3> QED BY <2>1, <3>2, ViewIs
  <2>2. CASE w \notin Lower
    <3>1. E4(n, f, w) = E4(n, m.kernel, w)
      BY <1>7, <1>8, <1>9, <1>10, <2>0, <2>2, LowerIndex DEF E4
    <3>2. View(n, f, w) = View(n, m.kernel, w)
      <4>1. /\ E3(n, f, w) = E3(n, m.kernel, w)
        BY <3>1 DEF E3
      <4>2. /\ E2(n, f, w) = E2(n, m.kernel, w)
        BY <4>1 DEF E2
      <4>3. /\ E1(n, f, w) = E1(n, m.kernel, w)
        BY <4>2 DEF E1
      <4>4. Three(n, f, w) <=> Three(n, m.kernel, w)
        BY <3>1, <4>1, <4>2 DEF Three
      <4>5. CASE Three(n, f, w)
        BY <3>1, <4>1, <4>2, <4>3, <4>4, <4>5, ViewIs
      <4>6. CASE ~Three(n, f, w)
        BY <4>4, <4>6, ViewIs
      <4> QED BY <4>5, <4>6
    <3>3. View(n, m.kernel, w) = View(m, m.kernel, w)
      BY <1>7, <1>8, <1>23 DEF SameViews
    <3> QED BY <2>2, <3>2, <3>3
  <2> QED BY <2>1, <2>2
<1>25. \A i \in Slots : i < Half => n.table[f][i] = NoEntry
  <2>1. \A i \in Slots : i \in Int /\ Half \in Int
    BY Constants DEF Slots
  <2> QED BY <1>10, <2>1
<1>26. NewSpace(m, n, use, use2, f)
  BY <1>8, <1>11, <1>12, <1>21, <1>22, <1>23, <1>24, <1>25 DEF NewSpace
<1> QED BY <1>2, <1>4, <1>6, <1>7, <1>12, <1>26

Insert(l, a, x) ==
    [k \in 1 .. (Len(l) + 1) |-> IF k <= a THEN l[k] ELSE IF k = a + 1 THEN x ELSE l[k - 1]]

Delete(l, a) == [k \in 1 .. (Len(l) - 1) |-> IF k < a THEN l[k] ELSE l[k + 1]]

\* Sequences again.
LEMMA Inserts ==
    ASSUME NEW l \in Seq(Frame), NEW a \in 1 .. Len(l), NEW x \in Frame
    PROVE  /\ Insert(l, a, x) \in Seq(Frame) /\ Len(Insert(l, a, x)) = Len(l) + 1
           /\ \A k \in 1 .. a : Insert(l, a, x)[k] = l[k]
           /\ Insert(l, a, x)[a + 1] = x
           /\ \A k \in (a + 1) .. Len(l) : Insert(l, a, x)[k + 1] = l[k]
<1>1. PICK n \in Nat : n = Len(l)
  OBVIOUS
<1>2. \A k \in 1 .. n : l[k] \in Frame
  BY <1>1
<1>3. ASSUME NEW k \in 1 .. (n + 1)
      PROVE (IF k <= a THEN l[k] ELSE IF k = a + 1 THEN x ELSE l[k - 1]) \in Frame
  <2>1. CASE k <= a
    BY <1>1, <1>2, <2>1
  <2>2. CASE k > a + 1
    <3>1. k - 1 \in 1 .. n
      BY <1>1, <2>2
    <3> QED BY <1>1, <1>2, <2>2, <3>1
  <2> QED BY <1>1, <2>1, <2>2
<1>4. Insert(l, a, x) \in [1 .. (n + 1) -> Frame]
  BY <1>1, <1>3 DEF Insert
<1>5. Insert(l, a, x) \in Seq(Frame) /\ Len(Insert(l, a, x)) = n + 1
  BY <1>1, <1>4
<1> QED BY <1>1, <1>5 DEF Insert

\* Another one.
LEMMA Deletes ==
    ASSUME NEW l \in Seq(Frame), NEW a \in 1 .. Len(l)
    PROVE  /\ Delete(l, a) \in Seq(Frame) /\ Len(Delete(l, a)) = Len(l) - 1
           /\ \A k \in 1 .. (a - 1) : Delete(l, a)[k] = l[k]
           /\ \A k \in a .. (Len(l) - 1) : Delete(l, a)[k] = l[k + 1]
<1>1. PICK n \in Nat : n = Len(l)
  OBVIOUS
<1>2. \A k \in 1 .. n : l[k] \in Frame
  BY <1>1
<1>3. ASSUME NEW k \in 1 .. (n - 1)
      PROVE (IF k < a THEN l[k] ELSE l[k + 1]) \in Frame
  <2>1. k \in 1 .. n /\ k + 1 \in 1 .. n
    BY <1>1
  <2> QED BY <1>2, <2>1
<1>4. Delete(l, a) \in [1 .. (n - 1) -> Frame] /\ n - 1 \in Nat
  BY <1>1, <1>3 DEF Delete
<1>5. Delete(l, a) \in Seq(Frame) /\ Len(Delete(l, a)) = n - 1
  BY <1>1, <1>4
<1> QED BY <1>1, <1>5 DEF Delete

\* A region that is put behind one of the chain, where there is room for it.
LEMMA ChainInsert ==
    ASSUME NEW B, NEW m \in Memory(Frame, B), NEW l, Chain(m, l), NEW a \in 1 .. Len(l),
           NEW new \in Frame, new \in m.held, \A k \in 1 .. Len(l) : l[k] # new,
           NEW size \in Nat, size >= 1, NEW n,
           Links(m, n, l[a], new, size, m.region[l[a]].next, End(m.region[l[a]])), ~Wild(n)
    PROVE  /\ Chain(n, Insert(l, a, new))
           /\ \A k \in 1 .. Len(l) : /\ n.region[l[k]].start = m.region[l[k]].start
                                     /\ n.region[l[k]].size = m.region[l[k]].size
           /\ n.region[new].start = End(m.region[l[a]]) /\ n.region[new].size = size
           /\ \A k \in 1 .. Len(l) : \/ End(m.region[l[k]]) <= End(m.region[l[a]])
                                     \/ End(m.region[l[a]]) + size <= m.region[l[k]].start
<1> DEFINE s == Insert(l, a, new)
           next == m.region[l[a]].next
           start == End(m.region[l[a]])
<1>0. PICK N \in Nat : N = Len(l) /\ N >= 1 /\ l \in Seq(Frame) /\ a \in 1 .. N
  BY DEF Chain
<1>1. m.region \in [Frame -> Region] /\ m.kernel \in Frame
  BY DEF Memory, MemoryRecord
<1>2. \A k \in 1 .. N : l[k] \in Frame /\ m.region[l[k]] \in Region /\ l[k] \in m.held
  BY <1>0, <1>1 DEF Chain
<1>3. \A k \in 1 .. N : /\ m.region[l[k]].start \in Nat /\ m.region[l[k]].size \in Nat
                        /\ m.region[l[k]].size >= 1
                        /\ End(m.region[l[k]]) \in Nat
                        /\ End(m.region[l[k]]) > m.region[l[k]].start
  BY <1>0, <1>2 DEF Region, Chain, End
<1>4. start \in Nat
  BY <1>0, <1>3
<1>5. next = IF a = N THEN NULL ELSE l[a + 1]
  BY <1>0 DEF Chain
<1>6. NULL \notin Frame
  BY Constants
<1>7. n.region = [[m.region EXCEPT ![new] = [start |-> start, size |-> size,
                                             next |-> next, prev |-> l[a]]]
                     EXCEPT ![l[a]] = [@ EXCEPT !.next = new]]
  BY DEF Links
<1>8. n.region[new] = [start |-> start, size |-> size, next |-> next, prev |-> l[a]]
  BY <1>0, <1>1, <1>2, <1>7
<1>9. n.region[l[a]] = [m.region[l[a]] EXCEPT !.next = new]
  BY <1>0, <1>1, <1>2, <1>7
<1>10. \A k \in 1 .. N : k # a => n.region[l[k]] = m.region[l[k]]
  <2>1. \A k \in 1 .. N : k # a => l[k] # l[a]
    BY <1>0, ChainDistinct
  <2> QED BY <1>0, <1>1, <1>2, <1>7, <2>1
<1>11. \A k \in 1 .. N : /\ n.region[l[k]].start = m.region[l[k]].start
                         /\ n.region[l[k]].size = m.region[l[k]].size
                         /\ n.region[l[k]].prev = m.region[l[k]].prev
  BY <1>0, <1>2, <1>9, <1>10 DEF Region
<1>12. n.region[new].start = start /\ n.region[new].size = size /\ n.region[new].next = next
       /\ n.region[new].prev = l[a]
  BY <1>8
<1>13. \A j, k \in 1 .. N : j < k => End(m.region[l[j]]) <= m.region[l[k]].start
  BY <1>0 DEF Chain
<1>14. a # N => start + size <= m.region[l[a + 1]].start
  <2> SUFFICES ASSUME a # N PROVE start + size <= m.region[l[a + 1]].start
    OBVIOUS
  <2>1. next = l[a + 1] /\ next \in Frame /\ next # NULL /\ a + 1 \in 1 .. N
    BY <1>0, <1>2, <1>5, <1>6
  <2>2. ~(m.region[next].start < start + size)
    BY <2>1 DEF Links, Wild
  <2> QED BY <1>3, <1>4, <2>1, <2>2
<1>15. /\ \A k \in 1 .. a : End(m.region[l[k]]) <= start
       /\ \A k \in (a + 1) .. N : start + size <= m.region[l[k]].start
  <2>1. ASSUME NEW k \in 1 .. a PROVE End(m.region[l[k]]) <= start
    <3>1. CASE k = a
      BY <1>4, <3>1
    <3>2. CASE k < a
      <4>1. k \in 1 .. N
        BY <1>0
      <4>2. End(m.region[l[k]]) <= m.region[l[a]].start /\ m.region[l[a]].start < start
        BY <1>0, <1>3, <1>13, <3>2, <4>1
      <4> QED BY <1>0, <1>3, <1>4, <4>1, <4>2
    <3> QED BY <1>0, <3>1, <3>2
  <2>2. ASSUME NEW k \in (a + 1) .. N PROVE start + size <= m.region[l[k]].start
    <3>0. k \in 1 .. N /\ a + 1 \in 1 .. N /\ a # N
      BY <1>0
    <3>1. CASE k = a + 1
      BY <1>14, <3>0, <3>1
    <3>2. CASE k > a + 1
      <4>1. End(m.region[l[a + 1]]) <= m.region[l[k]].start
        BY <1>13, <3>0, <3>2
      <4>2. PICK x \in Nat, y \in Nat, z \in Nat :
               x = m.region[l[a + 1]].start /\ y = End(m.region[l[a + 1]]) /\ z = m.region[l[k]].start
        BY <1>3, <3>0
      <4>3. x < y /\ y <= z /\ start + size <= x
        BY <1>3, <1>14, <3>0, <4>1, <4>2
      <4>4. start + size <= z
        BY <1>4, <4>3
      <4> QED BY <4>2, <4>4
    <3> QED BY <1>0, <3>0, <3>1, <3>2
  <2> QED BY <2>1, <2>2
<1> HIDE DEF start, next
<1>16. /\ s \in Seq(Frame) /\ Len(s) = N + 1 /\ \A k \in 1 .. a : s[k] = l[k]
       /\ s[a + 1] = new /\ \A k \in (a + 1) .. N : s[k + 1] = l[k]
  BY <1>0, Inserts
<1> HIDE DEF s
<1>17. \A k \in 1 .. (N + 1) : \/ k \in 1 .. a \/ k = a + 1
                               \/ (k - 1 \in (a + 1) .. N /\ k = (k - 1) + 1)
  BY <1>0
<1>18. \A k \in 1 .. (N + 1) : \/ k \in 1 .. a /\ k \in 1 .. N /\ s[k] = l[k]
                               \/ k = a + 1 /\ s[k] = new
                               \/ k > a + 1 /\ k - 1 \in (a + 1) .. N /\ k - 1 \in 1 .. N
                                  /\ s[k] = l[k - 1]
  BY <1>0, <1>16, <1>17
<1>19. n.held = m.held /\ n.root = m.root
  BY DEF Links
<1>20. s[1] = n.root /\ n.region[n.root].start = 0
  <2>1. 1 \in 1 .. a /\ 1 \in 1 .. N /\ l[1] = m.root /\ m.region[m.root].start = 0
    BY <1>0 DEF Chain
  <2> QED BY <1>11, <1>16, <1>19, <2>1
<1>21. \A k \in 1 .. (N + 1) : s[k] \in n.held /\ n.region[s[k]].size >= 1
  BY <1>2, <1>3, <1>11, <1>12, <1>18, <1>19
<1>22. \A k \in 1 .. (N + 1) : n.region[s[k]].next = IF k = N + 1 THEN NULL ELSE s[k + 1]
  <2> SUFFICES ASSUME NEW k \in 1 .. (N + 1)
               PROVE  n.region[s[k]].next = IF k = N + 1 THEN NULL ELSE s[k + 1]
    OBVIOUS
  <2>0. \A j \in 1 .. N : m.region[l[j]].next = IF j = N THEN NULL ELSE l[j + 1]
    BY <1>0 DEF Chain
  <2>1. CASE k < a
    <3>1. k \in 1 .. a /\ k + 1 \in 1 .. a /\ k \in 1 .. N /\ k # N /\ k # N + 1 /\ k # a
      BY <1>0, <2>1
    <3> QED BY <1>10, <1>16, <2>0, <3>1
  <2>2. CASE k = a
    <3>1. k \in 1 .. a /\ k # N + 1
      BY <1>0, <2>2
    <3>2. n.region[l[a]].next = new
      BY <1>0, <1>2, <1>9 DEF Region
    <3> QED BY <1>16, <2>2, <3>1, <3>2
  <2>3. CASE k = a + 1
    <3>1. CASE a = N
      BY <1>5, <1>12, <1>16, <2>3, <3>1
    <3>2. CASE a # N
      <4>1. a + 1 \in (a + 1) .. N /\ k # N + 1
        BY <1>0, <2>3, <3>2
      <4> QED BY <1>5, <1>12, <1>16, <2>3, <3>2, <4>1
    <3> QED BY <3>1, <3>2
  <2>4. CASE k > a + 1
    <3>1. k - 1 \in (a + 1) .. N /\ k - 1 \in 1 .. N /\ k - 1 # a /\ s[k] = l[k - 1]
          /\ (k - 1) + 1 = k
      BY <1>0, <1>18, <2>4
    <3>2. n.region[s[k]].next = IF k - 1 = N THEN NULL ELSE l[k]
      BY <1>10, <2>0, <3>1
    <3>3. CASE k = N + 1
      BY <1>0, <3>2, <3>3
    <3>4. CASE k # N + 1
      <4>1. k \in (a + 1) .. N /\ k - 1 # N
        BY <1>0, <2>4, <3>4
      <4> QED BY <1>16, <3>2, <3>4, <4>1
    <3> QED BY <3>3, <3>4
  <2> QED BY <1>0, <2>1, <2>2, <2>3, <2>4
<1>23. \A j, k \in 1 .. (N + 1) : j < k => End(n.region[s[j]]) <= n.region[s[k]].start
  <2> SUFFICES ASSUME NEW j \in 1 .. (N + 1), NEW k \in 1 .. (N + 1), j < k
               PROVE  End(n.region[s[j]]) <= n.region[s[k]].start
    OBVIOUS
  <2>0. \A i \in 1 .. N : End(n.region[l[i]]) = End(m.region[l[i]])
    BY <1>11 DEF End
  <2>1. CASE j \in 1 .. a /\ k \in 1 .. a
    <3>1. j \in 1 .. N /\ k \in 1 .. N
      BY <1>0, <2>1
    <3> QED BY <1>11, <1>13, <1>16, <2>0, <2>1, <3>1
  <2>2. CASE j \in 1 .. a /\ k = a + 1
    <3>1. j \in 1 .. N
      BY <1>0, <2>2
    <3> QED BY <1>12, <1>15, <1>16, <2>0, <2>2, <3>1
  <2>3. CASE j \in 1 .. a /\ k > a + 1
    <3>1. j \in 1 .. N /\ k - 1 \in 1 .. N /\ j < k - 1 /\ s[k] = l[k - 1]
      BY <1>0, <1>18, <2>3
    <3>2. End(m.region[l[j]]) <= m.region[l[k - 1]].start /\ s[j] = l[j]
      BY <1>13, <1>16, <2>3, <3>1
    <3> QED BY <1>11, <2>0, <3>1, <3>2
  <2>4. CASE j = a + 1 /\ k > a + 1
    <3>1. k - 1 \in (a + 1) .. N /\ k - 1 \in 1 .. N /\ s[k] = l[k - 1]
      BY <1>0, <1>18, <2>4
    <3>2. End(n.region[new]) = start + size
      BY <1>12 DEF End
    <3> QED BY <1>11, <1>15, <1>16, <2>4, <3>1, <3>2
  <2>5. CASE j > a + 1 /\ k > a + 1
    <3>1. j - 1 \in 1 .. N /\ s[j] = l[j - 1] /\ k - 1 \in 1 .. N /\ s[k] = l[k - 1] /\ j - 1 < k - 1
      BY <1>0, <1>18, <2>5
    <3> QED BY <1>11, <1>13, <2>0, <3>1
  <2> QED BY <1>0, <2>1, <2>2, <2>3, <2>4, <2>5
<1>24. \A k \in 2 .. (N + 1) : s[k] \in n.stale \/ n.region[s[k]].prev = s[k - 1]
  <2> SUFFICES ASSUME NEW k \in 2 .. (N + 1)
               PROVE  s[k] \in n.stale \/ n.region[s[k]].prev = s[k - 1]
    OBVIOUS
  <2>0. \A j \in 2 .. N : l[j] \in m.stale \/ m.region[l[j]].prev = l[j - 1]
    BY <1>0 DEF Chain
  <2>1. m.stale \subseteq n.stale /\ (next # NULL => next \in n.stale)
    BY DEF Links, next
  <2>2. CASE k <= a
    <3>1. k \in 1 .. a /\ k - 1 \in 1 .. a /\ k \in 2 .. N /\ k \in 1 .. N
      BY <1>0, <2>2
    <3> QED BY <1>11, <1>16, <2>0, <2>1, <3>1
  <2>3. CASE k = a + 1
    <3>1. k - 1 = a /\ a \in 1 .. a
      BY <1>0, <2>3
    <3> QED BY <1>12, <1>16, <2>3, <3>1
  <2>4. CASE k = a + 2
    <3>1. a + 1 \in (a + 1) .. N /\ a # N /\ (a + 1) + 1 = k
      BY <1>0, <2>4
    <3>2. s[k] = next /\ next # NULL
      BY <1>0, <1>2, <1>5, <1>6, <1>16, <3>1
    <3> QED BY <2>1, <3>2
  <2>5. CASE k > a + 2
    <3>1. /\ k - 1 \in (a + 1) .. N /\ k - 2 \in (a + 1) .. N /\ (k - 1) + 1 = k
          /\ (k - 2) + 1 = k - 1 /\ (k - 1) - 1 = k - 2 /\ k - 1 \in 2 .. N /\ k - 1 \in 1 .. N
      BY <1>0, <2>5
    <3>2. s[k] = l[k - 1] /\ s[k - 1] = l[k - 2]
      BY <1>16, <3>1
    <3> QED BY <1>11, <2>0, <2>1, <3>1, <3>2
  <2> QED BY <1>0, <2>2, <2>3, <2>4, <2>5
<1>25. Chain(n, s)
  <2>1. Len(s) >= 1
    BY <1>16
  <2> QED BY <1>16, <1>20, <1>21, <1>22, <1>23, <1>24, <2>1 DEF Chain
<1>26. \A k \in 1 .. N : End(m.region[l[k]]) <= start \/ start + size <= m.region[l[k]].start
  <2>1. \A k \in 1 .. N : k \in 1 .. a \/ k \in (a + 1) .. N
    BY <1>0
  <2> QED BY <1>15, <2>1
<1> QED BY <1>0, <1>11, <1>12, <1>25, <1>26 DEF s, start

\* The chain, when nothing but frames that are not in it are let go.
LEMMA ChainAlike ==
    ASSUME NEW m, NEW n, NEW l, Chain(m, l), Alike(m, n), \A k \in 1 .. Len(l) : l[k] \in n.held
    PROVE  Chain(n, l)
BY DEF Chain, Alike

\* A region is taken out of the chain, and its frame let go.
LEMMA ChainDelete ==
    ASSUME NEW B, NEW m \in Memory(Frame, B), NEW l, Chain(m, l), NEW a \in 2 .. Len(l),
           l[a] \notin m.stale, NEW u, u = Unlink(m, l[a]), NEW n, Alike(u, n),
           n.held = m.held \ {l[a]}
    PROVE  /\ Chain(n, Delete(l, a)) /\ n.root = m.root
           /\ \A k \in 1 .. Len(l) : k # a => /\ n.region[l[k]].start = m.region[l[k]].start
                                              /\ n.region[l[k]].size = m.region[l[k]].size
<1> DEFINE s == Delete(l, a)
<1>0. PICK N \in Nat : N = Len(l) /\ N >= 1 /\ l \in Seq(Frame) /\ a \in 1 .. N /\ a \in 2 .. N
  BY DEF Chain
<1>1. m.region \in [Frame -> Region]
  BY DEF Memory, MemoryRecord
<1>2. \A k \in 1 .. N : l[k] \in Frame /\ m.region[l[k]] \in Region /\ l[k] \in m.held
  BY <1>0, <1>1 DEF Chain
<1>3. \A j \in 1 .. N : m.region[l[j]].next = IF j = N THEN NULL ELSE l[j + 1]
  BY <1>0 DEF Chain
<1>4. PICK r, prev, next : r = l[a] /\ prev = m.region[r].prev /\ next = m.region[r].next
  OBVIOUS
<1>5. prev = l[a - 1] /\ a - 1 \in 1 .. N /\ next = IF a = N THEN NULL ELSE l[a + 1]
  BY <1>0, <1>3, <1>4 DEF Chain
<1>6. \A j, k \in 1 .. N : j # k => l[j] # l[k]
  BY <1>0, ChainDistinct
<1>7. r # m.root /\ prev # next /\ prev \in Frame /\ NULL \notin Frame
  <2>1. m.root = l[1] /\ 1 \in 1 .. N /\ 1 # a
    BY <1>0 DEF Chain
  <2>2. r # m.root
    BY <1>0, <1>4, <1>6, <2>1
  <2>3. prev \in Frame /\ NULL \notin Frame
    BY <1>2, <1>5, Constants
  <2>4. a # N => a + 1 \in 1 .. N /\ a - 1 # a + 1
    BY <1>0
  <2>5. prev # next
    BY <1>5, <1>6, <2>3, <2>4
  <2> QED BY <2>2, <2>3, <2>5
<1>8. /\ u.root = m.root /\ u.stale = m.stale \ {r, next}
      /\ \A f \in Frame :
            /\ f = prev /\ f # next => u.region[f] = [m.region[f] EXCEPT !.next = next]
            /\ f = next /\ f # prev => u.region[f] = [m.region[f] EXCEPT !.prev = prev]
            /\ f # prev /\ f # next => u.region[f] = m.region[f]
  <2>1. r \in Frame /\ u = Unlink(m, r)
    BY <1>0, <1>2, <1>4
  <2> QED BY <1>4, <1>7, <2>1, Unlinked
<1>9. n.root = m.root /\ n.stale = m.stale \ {r, next} /\ n.region = u.region
  BY <1>8 DEF Alike
<1>10. /\ n.region[l[a - 1]] = [m.region[l[a - 1]] EXCEPT !.next = next]
       /\ a # N => n.region[l[a + 1]] = [m.region[l[a + 1]] EXCEPT !.prev = prev]
       /\ \A k \in 1 .. N : k # a - 1 /\ k # a + 1 => n.region[l[k]] = m.region[l[k]]
  <2>1. n.region[l[a - 1]] = [m.region[l[a - 1]] EXCEPT !.next = next]
    BY <1>2, <1>5, <1>7, <1>8, <1>9
  <2>2. a # N => n.region[l[a + 1]] = [m.region[l[a + 1]] EXCEPT !.prev = prev]
    <3>1. a # N => a + 1 \in 1 .. N
      BY <1>0
    <3> QED BY <1>2, <1>5, <1>7, <1>8, <1>9, <3>1
  <2>3. \A k \in 1 .. N : k # a - 1 /\ k # a + 1 => n.region[l[k]] = m.region[l[k]]
    <3> TAKE k \in 1 .. N
    <3> SUFFICES ASSUME k # a - 1, k # a + 1 PROVE n.region[l[k]] = m.region[l[k]]
      OBVIOUS
    <3>1. l[k] # prev
      BY <1>5, <1>6
    <3>2. l[k] # next
      <4>1. a # N => a + 1 \in 1 .. N
        BY <1>0
      <4> QED BY <1>2, <1>5, <1>6, <1>7, <4>1
    <3> QED BY <1>2, <1>8, <1>9, <3>1, <3>2
  <2> QED BY <2>1, <2>2, <2>3
<1>11. \A k \in 1 .. N : /\ n.region[l[k]].start = m.region[l[k]].start
                         /\ n.region[l[k]].size = m.region[l[k]].size
  <2> TAKE k \in 1 .. N
  <2>1. CASE k = a - 1
    BY <1>2, <1>5, <1>10, <2>1 DEF Region
  <2>2. CASE k = a + 1
    <3>1. a # N
      BY <1>0, <2>2
    <3> QED BY <1>2, <1>10, <2>2, <3>1 DEF Region
  <2> QED BY <1>10, <2>1, <2>2
<1>12. /\ s \in Seq(Frame) /\ Len(s) = N - 1 /\ \A k \in 1 .. (a - 1) : s[k] = l[k]
       /\ \A k \in a .. (N - 1) : s[k] = l[k + 1]
  BY <1>0, Deletes
<1> HIDE DEF s
<1>13. \A k \in 1 .. (N - 1) : \/ k \in 1 .. (a - 1) /\ k \in 1 .. N /\ s[k] = l[k]
                               \/ k \in a .. (N - 1) /\ k + 1 \in 1 .. N /\ s[k] = l[k + 1]
  BY <1>0, <1>12
<1>14. s[1] = n.root /\ n.region[n.root].start = 0
  <2>1. 1 \in 1 .. (a - 1) /\ 1 \in 1 .. N /\ l[1] = m.root /\ m.region[m.root].start = 0
    BY <1>0 DEF Chain
  <2> QED BY <1>9, <1>11, <1>12, <2>1
<1>15. \A k \in 1 .. (N - 1) : s[k] \in n.held /\ n.region[s[k]].size >= 1
  <2>1. \A k \in 1 .. N : k # a => l[k] \in n.held /\ m.region[l[k]].size >= 1
    BY <1>0, <1>2, <1>6 DEF Chain
  <2>2. \A k \in 1 .. (N - 1) : \/ k # a /\ k \in 1 .. N /\ s[k] = l[k]
                                \/ k + 1 # a /\ k + 1 \in 1 .. N /\ s[k] = l[k + 1]
    BY <1>0, <1>13
  <2> QED BY <1>11, <2>1, <2>2
<1>16. \A k \in 1 .. (N - 1) : n.region[s[k]].next = IF k = N - 1 THEN NULL ELSE s[k + 1]
  <2> SUFFICES ASSUME NEW k \in 1 .. (N - 1)
               PROVE  n.region[s[k]].next = IF k = N - 1 THEN NULL ELSE s[k + 1]
    OBVIOUS
  <2>1. CASE k < a - 1
    <3>1. k \in 1 .. (a - 1) /\ k + 1 \in 1 .. (a - 1) /\ k \in 1 .. N /\ k # N - 1 /\ k # N
          /\ k # a - 1 /\ k # a + 1
      BY <1>0, <2>1
    <3>2. s[k] = l[k] /\ s[k + 1] = l[k + 1] /\ n.region[l[k]] = m.region[l[k]]
      BY <1>10, <1>12, <3>1
    <3> QED BY <1>3, <3>1, <3>2
  <2>2. CASE k = a - 1
    <3>1. k \in 1 .. (a - 1)
      BY <1>0, <2>2
    <3>2. n.region[s[k]].next = next
      BY <1>2, <1>5, <1>10, <1>12, <2>2, <3>1 DEF Region
    <3>3. CASE a = N
      BY <1>0, <1>5, <2>2, <3>2, <3>3
    <3>4. CASE a # N
      <4>1. k + 1 = a /\ a \in a .. (N - 1) /\ k # N - 1
        BY <1>0, <2>2, <3>4
      <4> QED BY <1>5, <1>12, <3>2, <3>4, <4>1
    <3> QED BY <3>3, <3>4
  <2>3. CASE k >= a
    <3>1. k \in a .. (N - 1) /\ k + 1 \in 1 .. N /\ s[k] = l[k + 1]
      BY <1>0, <1>12, <2>3
    <3>2. n.region[l[k + 1]].next = m.region[l[k + 1]].next
      <4>1. CASE k = a
        <5>1. a # N
          BY <1>0, <4>1
        <5> QED BY <1>2, <1>10, <3>1, <4>1, <5>1 DEF Region
      <4>2. CASE k # a
        <5>1. k + 1 # a + 1 /\ k + 1 # a - 1
          BY <1>0, <2>3, <4>2
        <5> QED BY <1>10, <3>1, <5>1
      <4> QED BY <4>1, <4>2
    <3>3. n.region[s[k]].next = IF k + 1 = N THEN NULL ELSE l[k + 2]
      <4>1. (k + 1) + 1 = k + 2
        OBVIOUS
      <4> QED BY <1>3, <3>1, <3>2, <4>1
    <3>4. CASE k = N - 1
      BY <1>0, <3>3, <3>4
    <3>5. CASE k # N - 1
      <4>1. k + 1 \in a .. (N - 1) /\ k + 1 # N /\ (k + 1) + 1 = k + 2
        BY <1>0, <2>3, <3>5
      <4> QED BY <1>12, <3>3, <3>5, <4>1
    <3> QED BY <3>4, <3>5
  <2> QED BY <1>0, <2>1, <2>2, <2>3
<1>17. \A j, k \in 1 .. (N - 1) : j < k => End(n.region[s[j]]) <= n.region[s[k]].start
  <2> SUFFICES ASSUME NEW j \in 1 .. (N - 1), NEW k \in 1 .. (N - 1), j < k
               PROVE  End(n.region[s[j]]) <= n.region[s[k]].start
    OBVIOUS
  <2>1. PICK i \in 1 .. N, o \in 1 .. N : s[j] = l[i] /\ s[k] = l[o] /\ i < o
    <3>1. CASE k < a
      <4>1. j \in 1 .. (a - 1) /\ k \in 1 .. (a - 1) /\ j \in 1 .. N /\ k \in 1 .. N
        BY <1>0, <3>1
      <4> QED BY <1>12, <4>1
    <3>2. CASE j < a /\ k >= a
      <4>1. j \in 1 .. (a - 1) /\ k \in a .. (N - 1) /\ j \in 1 .. N /\ k + 1 \in 1 .. N /\ j < k + 1
        BY <1>0, <3>2
      <4> QED BY <1>12, <4>1
    <3>3. CASE j >= a
      <4>1. j \in a .. (N - 1) /\ k \in a .. (N - 1) /\ j + 1 \in 1 .. N /\ k + 1 \in 1 .. N
            /\ j + 1 < k + 1
        BY <1>0, <3>3
      <4> QED BY <1>12, <4>1
    <3> QED BY <1>0, <3>1, <3>2, <3>3
  <2>2. End(m.region[l[i]]) <= m.region[l[o]].start
    BY <1>0, <2>1 DEF Chain
  <2>3. End(n.region[l[i]]) = End(m.region[l[i]]) /\ n.region[l[o]].start = m.region[l[o]].start
    BY <1>11 DEF End
  <2> QED BY <2>1, <2>2, <2>3
<1>18. \A k \in 2 .. (N - 1) : s[k] \in n.stale \/ n.region[s[k]].prev = s[k - 1]
  <2> SUFFICES ASSUME NEW k \in 2 .. (N - 1)
               PROVE  s[k] \in n.stale \/ n.region[s[k]].prev = s[k - 1]
    OBVIOUS
  <2>0. \A j \in 2 .. N : l[j] \in m.stale \/ m.region[l[j]].prev = l[j - 1]
    BY <1>0 DEF Chain
  <2>1. \A j \in 1 .. N : j # a /\ j # a + 1 /\ l[j] \in m.stale => l[j] \in n.stale
    <3>1. a # N => a + 1 \in 1 .. N
      BY <1>0
    <3> QED BY <1>0, <1>2, <1>4, <1>5, <1>6, <1>7, <1>9, <3>1
  <2>2. CASE k < a
    <3>1. k \in 1 .. (a - 1) /\ k - 1 \in 1 .. (a - 1) /\ k \in 1 .. N /\ k \in 2 .. N
          /\ k # a /\ k # a + 1
      BY <1>0, <2>2
    <3>2. n.region[l[k]].prev = m.region[l[k]].prev
      <4>1. CASE k = a - 1
        BY <1>2, <1>10, <3>1, <4>1 DEF Region
      <4>2. CASE k # a - 1
        BY <1>10, <3>1, <4>2
      <4> QED BY <4>1, <4>2
    <3> QED BY <1>12, <2>0, <2>1, <3>1, <3>2
  <2>3. CASE k = a
    <3>1. a # N /\ a - 1 \in 1 .. (a - 1) /\ a \in a .. (N - 1) /\ a + 1 \in 1 .. N
      BY <1>0, <2>3
    <3>2. n.region[l[a + 1]].prev = prev
      BY <1>2, <1>10, <3>1 DEF Region
    <3> QED BY <1>5, <1>12, <2>3, <3>1, <3>2
  <2>4. CASE k > a
    <3>1. k \in a .. (N - 1) /\ k - 1 \in a .. (N - 1) /\ k + 1 \in 2 .. N /\ k + 1 \in 1 .. N
          /\ k + 1 # a /\ k + 1 # a + 1 /\ k + 1 # a - 1 /\ (k + 1) - 1 = k /\ (k - 1) + 1 = k
      BY <1>0, <2>4
    <3>2. s[k] = l[k + 1] /\ s[k - 1] = l[k] /\ n.region[l[k + 1]] = m.region[l[k + 1]]
      BY <1>10, <1>12, <3>1
    <3> QED BY <2>0, <2>1, <3>1, <3>2
  <2> QED BY <1>0, <2>2, <2>3, <2>4
<1>19. Chain(n, s)
  <2>1. Len(s) >= 1
    BY <1>0, <1>12
  <2> QED BY <1>12, <1>14, <1>15, <1>16, <1>17, <1>18, <2>1 DEF Chain
<1> QED BY <1>0, <1>9, <1>11, <1>19 DEF s

--------------------------------------------------------------------------------
(* The heap *)

\* Memory grew, and regions may have been linked.
Kept(m, n) ==
    /\ m.events \subseteq n.events
    /\ n.root = m.root /\ n.kernel = m.kernel /\ n.ctx = m.ctx /\ n.max = m.max
    /\ ~Wild(n) => m.held \subseteq n.held /\ \A f \in m.held : n.data[f] = m.data[f]
    /\ Range(n.stack) \cup n.held = Range(m.stack) \cup m.held
    /\ Tidy(m) => Tidy(n)

\* Growth keeps.
LEMMA GrowsKept ==
    ASSUME NEW m, NEW n, Grows(m, n)
    PROVE  Kept(m, n)
BY DEF Grows, Kept

\* So does linking.
LEMMA LinksKept ==
    ASSUME NEW m, NEW n, NEW r, NEW new, NEW size, NEW next, NEW start,
           Links(m, n, r, new, size, next, start)
    PROVE  Kept(m, n)
BY DEF Links, Kept, Tidy

\* One after the other.
LEMMA KeptOn ==
    ASSUME NEW k, NEW m, NEW n, Kept(k, m), Kept(m, n)
    PROVE  Kept(k, n)
<1>1. ~Wild(n) => ~Wild(m)
  BY WildStays DEF Kept
<1>2. ~Wild(n) => k.held \subseteq n.held /\ \A f \in k.held : n.data[f] = k.data[f]
  BY <1>1 DEF Kept
<1> QED BY <1>2 DEF Kept

Extent(m, f) == [start |-> m.region[f].start, size |-> m.region[f].size]

\* The regions behind the root.
RegionsOf(m, l) == {Extent(m, l[k]) : k \in 2 .. Len(l)}

HeapList(m, use, l) == Chain(m, l) /\ \A k \in 1 .. Len(l) : use[l[k]] = RegionUse

\* The regions of these places of the list have the extent they had.
SameExtents(m, n, l, S) ==
    \A k \in S : n.region[l[k]].start = m.region[l[k]].start
           /\ n.region[l[k]].size = m.region[l[k]].size

\* The regions when one is put in.
LEMMA RegionsInsert ==
    ASSUME NEW m, NEW n, NEW l \in Seq(Frame), NEW a \in 1 .. Len(l), NEW new \in Frame,
           SameExtents(m, n, l, 1 .. Len(l))
    PROVE  RegionsOf(n, Insert(l, a, new)) = RegionsOf(m, l) \cup {Extent(n, new)}
<1> DEFINE s == Insert(l, a, new)
<1>0. PICK N \in Nat : N = Len(l) /\ a \in 1 .. N
  OBVIOUS
<1>1. /\ Len(s) = N + 1 /\ \A k \in 1 .. a : s[k] = l[k]
      /\ s[a + 1] = new /\ \A k \in (a + 1) .. N : s[k + 1] = l[k]
  BY <1>0, Inserts
<1> HIDE DEF s
<1>2. \A k \in 1 .. N : Extent(n, l[k]) = Extent(m, l[k])
  BY <1>0 DEF Extent, SameExtents
<1>3. ASSUME NEW k \in 2 .. (N + 1)
      PROVE  Extent(n, s[k]) \in {Extent(m, l[j]) : j \in 2 .. N} \cup {Extent(n, new)}
  <2>1. CASE k <= a
    <3>1. k \in 1 .. a /\ k \in 1 .. N /\ k \in 2 .. N
      BY <1>0, <2>1
    <3> QED BY <1>1, <1>2, <3>1
  <2>2. CASE k = a + 1
    BY <1>1, <2>2
  <2>3. CASE k > a + 1
    <3>1. k - 1 \in (a + 1) .. N /\ (k - 1) + 1 = k /\ k - 1 \in 1 .. N /\ k - 1 \in 2 .. N
      BY <1>0, <2>3
    <3> QED BY <1>1, <1>2, <3>1
  <2> QED BY <1>0, <2>1, <2>2, <2>3
<1>4. ASSUME NEW j \in 2 .. N PROVE Extent(m, l[j]) \in {Extent(n, s[k]) : k \in 2 .. (N + 1)}
  <2>1. CASE j <= a
    <3>1. j \in 1 .. a /\ j \in 1 .. N /\ j \in 2 .. (N + 1)
      BY <1>0, <2>1
    <3> QED BY <1>1, <1>2, <3>1
  <2>2. CASE j > a
    <3>1. j \in (a + 1) .. N /\ j \in 1 .. N /\ j + 1 \in 2 .. (N + 1)
      BY <1>0, <2>2
    <3> QED BY <1>1, <1>2, <3>1
  <2> QED BY <1>0, <2>1, <2>2
<1>5. Extent(n, new) \in {Extent(n, s[k]) : k \in 2 .. (N + 1)}
  <2>1. a + 1 \in 2 .. (N + 1)
    BY <1>0
  <2> QED BY <1>1, <2>1
<1>6. RegionsOf(n, s) = {Extent(n, s[k]) : k \in 2 .. (N + 1)}
      /\ RegionsOf(m, l) = {Extent(m, l[j]) : j \in 2 .. N}
  BY <1>0, <1>1 DEF RegionsOf
<1>7. RegionsOf(n, s) = RegionsOf(m, l) \cup {Extent(n, new)}
  BY <1>3, <1>4, <1>5, <1>6
<1> QED BY <1>7 DEF s

\* The starts of the regions grow along the list.
LEMMA StartsGrow ==
    ASSUME NEW P, NEW B, NEW m \in Memory(P, B), NEW l, Chain(m, l),
           NEW j \in 1 .. Len(l), NEW k \in 1 .. Len(l), j < k
    PROVE  m.region[l[j]].start < m.region[l[k]].start
<1>0. l \in Seq(Frame)
  BY DEF Chain
<1>1. \A i \in 1 .. Len(l) : /\ m.region[l[i]].start \in Nat /\ m.region[l[i]].size \in Nat
                             /\ m.region[l[i]].size >= 1
  <2>1. m.region \in [Frame -> Region]
    BY DEF Memory, MemoryRecord
  <2> QED BY <1>0, <2>1 DEF Chain, Region
<1>2. End(m.region[l[j]]) <= m.region[l[k]].start
  BY DEF Chain
<1>3. PICK x \in Nat, y \in Nat, z \in Nat :
         x = m.region[l[j]].start /\ y = m.region[l[j]].size /\ z = m.region[l[k]].start
  BY <1>1
<1>4. y >= 1 /\ x + y <= z
  BY <1>1, <1>2, <1>3 DEF End
<1>5. x < z
  BY <1>4
<1> QED BY <1>3, <1>5

\* The regions when one is taken out, whose start no other has.
LEMMA RegionsDelete ==
    ASSUME NEW P, NEW B, NEW m \in Memory(P, B), NEW n, NEW l, Chain(m, l), NEW a \in 2 .. Len(l),
           SameExtents(m, n, l, (1 .. Len(l)) \ {a})
    PROVE  RegionsOf(n, Delete(l, a)) = RegionsOf(m, l) \ {Extent(m, l[a])}
<1> DEFINE s == Delete(l, a)
<1>0. PICK N \in Nat : N = Len(l) /\ a \in 1 .. N /\ a \in 2 .. N /\ l \in Seq(Frame)
  BY DEF Chain
<1>1. /\ Len(s) = N - 1 /\ \A k \in 1 .. (a - 1) : s[k] = l[k]
      /\ \A k \in a .. (N - 1) : s[k] = l[k + 1]
  BY <1>0, Deletes
<1> HIDE DEF s
<1>2. \A k \in 1 .. N : k # a => Extent(n, l[k]) = Extent(m, l[k])
  BY <1>0 DEF Extent, SameExtents
<1>a. \A k \in 1 .. N : /\ m.region[l[k]].start \in Nat /\ m.region[l[k]].size \in Nat
                        /\ m.region[l[k]].size >= 1
  <2>1. m.region \in [Frame -> Region]
    BY DEF Memory, MemoryRecord
  <2> QED BY <1>0, <2>1 DEF Chain, Region
<1>b. \A j, k \in 1 .. N : j < k => m.region[l[j]].start < m.region[l[k]].start
  BY <1>0, StartsGrow
<1>c. \A j \in 1 .. N : j # a => m.region[l[j]].start # m.region[l[a]].start
  <2> TAKE j \in 1 .. N
  <2>1. CASE j < a
    <3>1. m.region[l[j]].start < m.region[l[a]].start
      BY <1>0, <1>b, <2>1
    <3> QED BY <1>0, <1>a, <3>1
  <2>2. CASE j > a
    <3>1. m.region[l[a]].start < m.region[l[j]].start
      BY <1>0, <1>b, <2>2
    <3> QED BY <1>0, <1>a, <3>1
  <2> QED BY <1>0, <2>1, <2>2
<1>3. \A j \in 1 .. N : j # a => Extent(m, l[j]) # Extent(m, l[a])
  BY <1>c DEF Extent
<1>4. ASSUME NEW k \in 2 .. (N - 1)
      PROVE  \E j \in 2 .. N : j # a /\ Extent(n, s[k]) = Extent(m, l[j])
  <2>1. CASE k < a
    <3>1. k \in 1 .. (a - 1) /\ k \in 1 .. N /\ k \in 2 .. N /\ k # a
      BY <1>0, <2>1
    <3> QED BY <1>1, <1>2, <3>1
  <2>2. CASE k >= a
    <3>1. k \in a .. (N - 1) /\ k + 1 \in 1 .. N /\ k + 1 \in 2 .. N /\ k + 1 # a
      BY <1>0, <2>2
    <3> QED BY <1>1, <1>2, <3>1
  <2> QED BY <1>0, <2>1, <2>2
<1>5. ASSUME NEW j \in 2 .. N, j # a
      PROVE  \E k \in 2 .. (N - 1) : Extent(n, s[k]) = Extent(m, l[j])
  <2>1. CASE j < a
    <3>1. j \in 1 .. (a - 1) /\ j \in 1 .. N /\ j \in 2 .. (N - 1)
      BY <1>0, <2>1
    <3> QED BY <1>1, <1>2, <1>5, <3>1
  <2>2. CASE j > a
    <3>1. j - 1 \in a .. (N - 1) /\ j \in 1 .. N /\ j - 1 \in 2 .. (N - 1) /\ (j - 1) + 1 = j
      BY <1>0, <2>2
    <3>2. s[j - 1] = l[j]
      BY <1>1, <3>1
    <3> QED BY <1>2, <1>5, <3>1, <3>2
  <2> QED BY <1>0, <1>5, <2>1, <2>2
<1>6. RegionsOf(n, s) = {Extent(n, s[k]) : k \in 2 .. (N - 1)}
      /\ RegionsOf(m, l) = {Extent(m, l[j]) : j \in 2 .. N}
  BY <1>0, <1>1 DEF RegionsOf
<1>7. RegionsOf(n, s) \subseteq RegionsOf(m, l) \ {Extent(m, l[a])}
  <2>1. \A j \in 2 .. N : j \in 1 .. N
    OBVIOUS
  <2> QED BY <1>3, <1>4, <1>6, <2>1
<1>8. RegionsOf(m, l) \ {Extent(m, l[a])} \subseteq RegionsOf(n, s)
  BY <1>5, <1>6
<1>9. RegionsOf(n, s) = RegionsOf(m, l) \ {Extent(m, l[a])}
  BY <1>7, <1>8
<1> QED BY <1>9 DEF s

Members(l) == {l[k] : k \in 1 .. Len(l)}

\* What is in a list that one is put into,
LEMMA MembersInsert ==
    ASSUME NEW l \in Seq(Frame), NEW a \in 1 .. Len(l), NEW x \in Frame
    PROVE  Members(Insert(l, a, x)) = Members(l) \cup {x}
<1> DEFINE s == Insert(l, a, x)
<1>0. PICK N \in Nat : N = Len(l) /\ a \in 1 .. N
  OBVIOUS
<1>1. /\ Len(s) = N + 1 /\ \A k \in 1 .. a : s[k] = l[k]
      /\ s[a + 1] = x /\ \A k \in (a + 1) .. N : s[k + 1] = l[k]
  BY <1>0, Inserts
<1> HIDE DEF s
<1>2. ASSUME NEW k \in 1 .. (N + 1) PROVE s[k] \in {l[j] : j \in 1 .. N} \cup {x}
  <2>1. CASE k <= a
    <3>1. k \in 1 .. a /\ k \in 1 .. N
      BY <1>0, <2>1
    <3> QED BY <1>1, <3>1
  <2>2. CASE k = a + 1
    BY <1>1, <2>2
  <2>3. CASE k > a + 1
    <3>1. k - 1 \in (a + 1) .. N /\ (k - 1) + 1 = k /\ k - 1 \in 1 .. N
      BY <1>0, <2>3
    <3> QED BY <1>1, <3>1
  <2> QED BY <1>0, <2>1, <2>2, <2>3
<1>3. ASSUME NEW j \in 1 .. N PROVE l[j] \in {s[k] : k \in 1 .. (N + 1)}
  <2>1. CASE j <= a
    <3>1. j \in 1 .. a /\ j \in 1 .. (N + 1)
      BY <1>0, <2>1
    <3> QED BY <1>1, <3>1
  <2>2. CASE j > a
    <3>1. j \in (a + 1) .. N /\ j + 1 \in 1 .. (N + 1)
      BY <1>0, <2>2
    <3> QED BY <1>1, <3>1
  <2> QED BY <1>0, <2>1, <2>2
<1>4. x \in {s[k] : k \in 1 .. (N + 1)}
  <2>1. a + 1 \in 1 .. (N + 1)
    BY <1>0
  <2> QED BY <1>1, <2>1
<1>5. Members(s) = {s[k] : k \in 1 .. (N + 1)} /\ Members(l) = {l[j] : j \in 1 .. N}
  BY <1>0, <1>1 DEF Members
<1>6. Members(s) = Members(l) \cup {x}
  BY <1>2, <1>3, <1>4, <1>5
<1> QED BY <1>6 DEF s

\* and in one without duplicates that one is taken out of.
LEMMA MembersDelete ==
    ASSUME NEW l \in Seq(Frame), NEW a \in 1 .. Len(l),
           \A k \in 1 .. Len(l) : k # a => l[k] # l[a]
    PROVE  Members(Delete(l, a)) = Members(l) \ {l[a]}
<1> DEFINE s == Delete(l, a)
<1>0. PICK N \in Nat : N = Len(l) /\ a \in 1 .. N
  OBVIOUS
<1>1. /\ Len(s) = N - 1 /\ \A k \in 1 .. (a - 1) : s[k] = l[k]
      /\ \A k \in a .. (N - 1) : s[k] = l[k + 1]
  BY <1>0, Deletes
<1> HIDE DEF s
<1>2. ASSUME NEW k \in 1 .. (N - 1) PROVE \E j \in 1 .. N : j # a /\ s[k] = l[j]
  <2>1. CASE k < a
    <3>1. k \in 1 .. (a - 1) /\ k \in 1 .. N /\ k # a
      BY <1>0, <2>1
    <3> QED BY <1>1, <3>1
  <2>2. CASE k >= a
    <3>1. k \in a .. (N - 1) /\ k + 1 \in 1 .. N /\ k + 1 # a
      BY <1>0, <2>2
    <3> QED BY <1>1, <3>1
  <2> QED BY <1>0, <2>1, <2>2
<1>3. ASSUME NEW j \in 1 .. N, j # a PROVE \E k \in 1 .. (N - 1) : s[k] = l[j]
  <2>1. CASE j < a
    <3>1. j \in 1 .. (a - 1) /\ j \in 1 .. (N - 1)
      BY <1>0, <2>1
    <3> QED BY <1>1, <3>1
  <2>2. CASE j > a
    <3>1. j - 1 \in a .. (N - 1) /\ j - 1 \in 1 .. (N - 1) /\ (j - 1) + 1 = j
      BY <1>0, <2>2
    <3> QED BY <1>1, <3>1
  <2> QED BY <1>0, <1>3, <2>1, <2>2
<1>4. Members(s) = {s[k] : k \in 1 .. (N - 1)} /\ Members(l) = {l[j] : j \in 1 .. N}
  BY <1>0, <1>1 DEF Members
<1>5. Members(s) = Members(l) \ {l[a]}
  <2>1. Members(s) \subseteq Members(l) \ {l[a]}
    BY <1>0, <1>2, <1>4
  <2>2. Members(l) \ {l[a]} \subseteq Members(s)
    <3> SUFFICES ASSUME NEW y \in Members(l), y # l[a] PROVE y \in Members(s)
      OBVIOUS
    <3>1. PICK j \in 1 .. N : y = l[j] /\ j # a
      BY <1>4
    <3> QED BY <1>3, <1>4, <3>1
  <2> QED BY <2>1, <2>2
<1> QED BY <1>5 DEF s

\* Frames that had a use have it still.
Still(use, use2) == \A f \in Frame : use[f] # 0 => use2[f] = use[f]

\* The frames that came into use are tables that hang in the tree, and those of S.
OnlyNew(n, use, use2, S) ==
    /\ Reached(n, use, use2)
    /\ \A f \in Frame : use[f] = 0 /\ use2[f] # 0 => f \in S \/ use2[f] \in 1 .. 3

\* What vma_alloc does to memory that does not get wild.
Allocates(m, r, use, use2, l, l2, start, size, new) ==
    /\ use2 \in Uses /\ Tree(r.mem, use2) /\ HeapList(r.mem, use2, l2) /\ Kept(m, r.mem)
    /\ Still(use, use2)
    /\ SameBut(m, r.mem, use, m.kernel, {r.start})
    /\ start >= 1 /\ r.start \in {start, NULL}
    /\ RegionsOf(r.mem, l2) = RegionsOf(m, l) \cup {[start |-> start, size |-> size]}
    /\ Members(l2) = Members(l) \cup {new}
    /\ \A x \in RegionsOf(m, l) : x.start + x.size <= start \/ start + size <= x.start
    /\ use[new] = 0 /\ use2[new] = RegionUse /\ new \in Frame
    /\ r.start = NULL => OnlyNew(r.mem, use, use2, {new}) /\ "nomem" \in r.mem.events
    /\ r.start # NULL => LET g == virt_to_phys(r.mem, m.kernel, start)
                         IN g \in Frame /\ use[g] = 0 /\ use2[g] = HeapUse
                            /\ OnlyNew(r.mem, use, use2, {new, g})
    /\ \A f \in Frame, i \in Slots :
          use[f] \in 2 .. 4 /\ Present(m.table[f][i]) => r.mem.table[f][i] = m.table[f][i]

\* The region that a new one is put behind is in the chain.
LEMMA AfterInChain ==
    ASSUME NEW P, NEW B, NEW m \in Memory(P, B), NEW l, Chain(m, l), NEW size
    PROVE  \E a \in 1 .. Len(l) : After(m, size) = l[a]
<1>0. PICK N \in Nat : N = Len(l) /\ N >= 1 /\ l[1] = m.root /\ l \in Seq(Frame)
  BY DEF Chain
<1>1. l = RegionList(m)
  BY ChainList
<1>2. m.root \in Frame /\ 1 \in 1 .. N
  BY <1>0
<1>3. \/ Len(l) = 1 /\ After(m, size) = m.root
      \/ \E k \in 2 .. Len(l) : After(m, size) = l[k]
  BY <1>1, <1>2, AfterIs
<1>4. \A k \in 2 .. N : k \in 1 .. N
  OBVIOUS
<1> QED BY <1>0, <1>2, <1>3, <1>4

\* A descriptor is taken and linked.
LEMMA LinkStep ==
    ASSUME NEW B \in Nat, NEW m \in Memory(Frame, B), NEW use \in Uses, Tree(m, use),
           NEW l, HeapList(m, use, l), NEW size \in Nat, size >= 1, NEW a \in 1 .. Len(l),
           NEW new, NEW o \in Memory(Frame, B), Took(m, o, new), ~Wild(o),
           NEW n, n = Link(o, l[a], new, size), ~Wild(n),
           NEW use2, Gives(use, use2, new, RegionUse)
    PROVE  /\ n \in Memory(Frame, B + size) /\ Kept(m, n)
           /\ use2 \in Uses /\ use[new] = 0 /\ use2[new] = RegionUse /\ new \in Frame
           /\ \A g \in Frame : g # new => use2[g] = use[g] /\ n.table[g] = m.table[g]
           /\ Tree(n, use2) /\ HeapList(n, use2, Insert(l, a, new))
           /\ RegionsOf(n, Insert(l, a, new))
                 = RegionsOf(m, l) \cup {[start |-> End(m.region[l[a]]), size |-> size]}
           /\ \A x \in RegionsOf(m, l) : \/ x.start + x.size <= End(m.region[l[a]])
                                         \/ End(m.region[l[a]]) + size <= x.start
<1>0. l \in Seq(Frame) /\ \A k \in 1 .. Len(l) : l[k] \in m.held /\ l[k] \in Frame
         /\ use[l[k]] = RegionUse
  BY DEF HeapList, Chain
<1>1. Grows(m, o) /\ new \notin m.held /\ new \in Frame /\ Chain(m, l)
  BY TookGrows DEF HeapList, Took
<1>2. Chain(o, l)
  BY <1>1, ChainGrows
<1>3. PICK u : u = RegionUse /\ u \in 1 .. 8 /\ u # 4 /\ u \notin 0 .. 4
  BY DEF RegionUse
<1>4. /\ use2 \in Uses /\ use[new] = 0 /\ use2[new] = u /\ Tree(o, use2)
      /\ \A g \in Frame : g # new => use2[g] = use[g] /\ o.table[g] = m.table[g]
      /\ o.table[new] = NoTable
  BY <1>1, <1>3, GivenUse
<1>5. PICK r : r = l[a]
  OBVIOUS
<1>6. r \in Frame
  BY <1>0, <1>5
<1>7. n \in Memory(Frame, B + size) /\ Links(o, n, r, new, size, o.region[r].next, End(o.region[r]))
  BY <1>1, <1>5, <1>6, Linked
<1>8. new \in o.held /\ \A k \in 1 .. Len(l) : l[k] # new
  BY <1>0, <1>1 DEF Took
<1>9. o.region[r] = m.region[r] /\ \A k \in 1 .. Len(l) : o.region[l[k]] = m.region[l[k]]
  BY <1>0, <1>1, <1>5 DEF Grows
<1>10. /\ Chain(n, Insert(l, a, new))
       /\ \A k \in 1 .. Len(l) : /\ n.region[l[k]].start = o.region[l[k]].start
                                 /\ n.region[l[k]].size = o.region[l[k]].size
       /\ n.region[new].start = End(o.region[l[a]]) /\ n.region[new].size = size
       /\ \A k \in 1 .. Len(l) : \/ End(o.region[l[k]]) <= End(o.region[l[a]])
                                 \/ End(o.region[l[a]]) + size <= o.region[l[k]].start
  BY <1>1, <1>2, <1>5, <1>7, <1>8, ChainInsert
<1>11. Kept(m, n)
  BY <1>1, <1>7, GrowsKept, LinksKept, KeptOn
<1>12. Tree(n, use2) /\ n.table = o.table
  BY <1>4, <1>7, SameTree DEF Links
<1>13. HeapList(n, use2, Insert(l, a, new))
  <2>1. \A k \in 1 .. Len(l) : use2[l[k]] = u
    BY <1>0, <1>3, <1>4, <1>8
  <2>2. PICK N \in Nat : N = Len(l) /\ a \in 1 .. N
    BY <1>0
  <2>3. /\ Len(Insert(l, a, new)) = N + 1 /\ \A k \in 1 .. a : Insert(l, a, new)[k] = l[k]
        /\ Insert(l, a, new)[a + 1] = new
        /\ \A k \in (a + 1) .. N : Insert(l, a, new)[k + 1] = l[k]
    <3>1. l \in Seq(Frame) /\ a \in 1 .. Len(l) /\ new \in Frame
      BY <1>0, <1>1
    <3>2. /\ Insert(l, a, new) \in Seq(Frame) /\ Len(Insert(l, a, new)) = Len(l) + 1
          /\ \A k \in 1 .. a : Insert(l, a, new)[k] = l[k]
          /\ Insert(l, a, new)[a + 1] = new
          /\ \A k \in (a + 1) .. Len(l) : Insert(l, a, new)[k + 1] = l[k]
      BY <3>1, Inserts
    <3> QED BY <2>2, <3>2
  <2>4. \A k \in 1 .. (N + 1) : use2[Insert(l, a, new)[k]] = u
    <3> TAKE k \in 1 .. (N + 1)
    <3>1. CASE k <= a
      <4>1. k \in 1 .. a /\ k \in 1 .. N
        BY <2>2, <3>1
      <4> QED BY <2>1, <2>2, <2>3, <4>1
    <3>2. CASE k = a + 1
      BY <1>4, <2>3, <3>2
    <3>3. CASE k > a + 1
      <4>1. k - 1 \in (a + 1) .. N /\ k - 1 \in 1 .. N /\ (k - 1) + 1 = k
        BY <2>2, <3>3
      <4>2. Insert(l, a, new)[k] = l[k - 1]
        BY <2>3, <4>1
      <4> QED BY <2>1, <2>2, <4>1, <4>2
    <3> QED BY <2>2, <3>1, <3>2, <3>3
  <2> QED BY <1>3, <1>10, <2>3, <2>4 DEF HeapList
<1>14. RegionsOf(n, Insert(l, a, new)) = RegionsOf(m, l) \cup {Extent(n, new)}
  <2>1. SameExtents(m, n, l, 1 .. Len(l))
    BY <1>9, <1>10 DEF SameExtents
  <2>2. l \in Seq(Frame) /\ new \in Frame
    BY <1>0, <1>1
  <2> QED BY <2>1, <2>2, RegionsInsert
<1>15. Extent(n, new) = [start |-> End(m.region[l[a]]), size |-> size]
  BY <1>9, <1>10 DEF Extent
<1>16. \A x \in RegionsOf(m, l) : \/ x.start + x.size <= End(m.region[l[a]])
                                  \/ End(m.region[l[a]]) + size <= x.start
  <2> TAKE x \in RegionsOf(m, l)
  <2>1. PICK k \in 2 .. Len(l) : x = Extent(m, l[k])
    BY DEF RegionsOf
  <2>2. k \in 1 .. Len(l)
    BY <1>0
  <2>3. x.start = m.region[l[k]].start /\ x.size = m.region[l[k]].size
    BY <2>1 DEF Extent
  <2>4. End(m.region[l[k]]) = x.start + x.size
    BY <2>3 DEF End
  <2> QED BY <1>9, <1>10, <2>2, <2>3, <2>4
<1> QED BY <1>1, <1>3, <1>4, <1>7, <1>11, <1>12, <1>13, <1>14, <1>15, <1>16

\* vma_alloc in memory that does not get wild.
LEMMA AllocStep ==
    ASSUME NEW B \in Nat, NEW m \in Memory(Frame, B), NEW use \in Uses, Tree(m, use),
           NEW l, HeapList(m, use, l), NEW size \in 1 .. PAGE_SIZE, B < HHDM,
           NEW r, r = vma_alloc(m, size), ~Wild(r.mem)
    PROVE  \E use2 \in Uses, l2 \in Seq(Frame), start \in Nat, new \in Frame :
              Allocates(m, r, use, use2, l, l2, start, size, new)
<1>0. /\ Chain(m, l) /\ l \in Seq(Frame) /\ m.kernel \in Frame /\ size \in Nat /\ size >= 1
      /\ m.region \in [Frame -> Region] /\ B + size \in Nat
  BY Constants DEF HeapList, Chain, Memory, MemoryRecord
<1>1. m.root \in Frame
  <2>1. PICK N \in Nat : N = Len(l) /\ N >= 1 /\ l[1] = m.root
    BY <1>0 DEF Chain
  <2> QED BY <1>0, <2>1
<1>2. PICK a \in 1 .. Len(l) : After(m, size) = l[a]
  BY <1>0, AfterInChain
<1>3. PICK at, start : at = After(m, size) /\ start = End(m.region[at])
  OBVIOUS
<1>4. /\ r \in [mem : Memory(Frame, B + size), start : Nat \cup {NULL}]
      /\ at \in Frame /\ start \in Nat /\ start <= B
      /\ r.start \in {start, NULL}
  BY <1>1, <1>3, Allocated
<1>5. PICK new \in Frame, o \in Memory(Frame, B), n \in Memory(Frame, B + size),
         q \in [page : Frame, mem : Memory(Frame, B + size)] :
         /\ \/ o = Note(m, "frame0") /\ new = 0 /\ m.stack = << >>
            \/ Took(m, o, new)
         /\ n = Link(o, at, new, size) /\ q = pmm_request_page(n)
         /\ IF q.page = 0 THEN r.mem = Note(n, "nomem") /\ r.start = NULL
            ELSE /\ r.mem = vmm_map(q.mem, n.kernel, start, q.page, HeapFlags)
                 /\ r.start = start
  BY <1>1, <1>3, Allocated
<1>6. start >= 1 /\ start \in Lower /\ start \in Virt /\ start # NULL
  <2>1. m.region[l[a]].size >= 1 /\ m.region[l[a]].size \in Nat /\ m.region[l[a]].start \in Nat
    BY <1>0 DEF Chain, Region
  <2>2. start >= 1
    BY <1>2, <1>3, <2>1 DEF End
  <2>3. start < HHDM
    BY <1>4, LowerVirt
  <2> QED BY <1>4, <2>2, <2>3, LowerVirt DEF NULL
<1>7. "nomem" \in Events
  BY DEF Events
<1>8. q \in [page : Frame, mem : Memory(Frame, B + size)]
      /\ (\/ n.stack = << >> /\ q.page = 0 /\ q.mem = n
          \/ Took(n, q.mem, q.page))
  BY <1>0, <1>5, Requested
<1>9. n.kernel \in Frame /\ q.mem \in Memory(Frame, B + size) /\ q.page \in Frame
  BY <1>8 DEF Memory, MemoryRecord
<1>10. n.events \subseteq r.mem.events
  <2>1. CASE q.page = 0
    BY <1>5, <1>7, <2>1, Noted
  <2>2. CASE q.page # 0
    <3>1. Grows(n, q.mem)
      BY <1>8, <2>2, TookGrows
    <3>2. Grows(q.mem, r.mem)
      BY <1>0, <1>4, <1>5, <1>9, <2>2, MapGrows, HeapFlagsType
    <3> QED BY <3>1, <3>2 DEF Grows
  <2> QED BY <2>1, <2>2
<1>11. ~Wild(n)
  BY <1>10, WildStays
<1>12. Links(o, n, at, new, size, o.region[at].next, End(o.region[at]))
  BY <1>0, <1>4, <1>5, Linked
<1>13. ~Wild(o)
  BY <1>11, <1>12, WildStays DEF Links
<1>14. Took(m, o, new)
  BY <1>5, <1>13, HigherHalfGrows
<1>15. PICK use1 : Gives(use, use1, new, RegionUse)
  BY DEF Gives
<1>16. PICK l2 : l2 = Insert(l, a, new)
  OBVIOUS
<1>17. /\ Kept(m, n)
       /\ use1 \in Uses /\ use[new] = 0 /\ use1[new] = RegionUse /\ new \in Frame
       /\ \A g \in Frame : g # new => use1[g] = use[g] /\ n.table[g] = m.table[g]
       /\ Tree(n, use1) /\ HeapList(n, use1, l2)
       /\ RegionsOf(n, l2) = RegionsOf(m, l) \cup {[start |-> start, size |-> size]}
       /\ \A x \in RegionsOf(m, l) : x.start + x.size <= start \/ start + size <= x.start
  <2>1. n = Link(o, l[a], new, size) /\ start = End(m.region[l[a]])
    BY <1>2, <1>3, <1>5
  <2> QED BY <1>0, <1>11, <1>13, <1>14, <1>15, <1>16, <2>1, LinkStep
<1>18. Still(use, use1)
  BY <1>17 DEF Still
<1>19. l2 \in Seq(Frame) /\ Chain(n, l2)
  BY <1>17 DEF HeapList, Chain
<1>a. Members(l2) = Members(l) \cup {new}
  BY <1>0, <1>2, <1>16, <1>17, MembersInsert
<1>20. SameViews(m, n, use)
  <2>1. \A f \in Frame : use[f] \in 1 .. 4 => n.table[f] = m.table[f]
    BY <1>17
  <2> QED BY <2>1, TablesKept
<1>21. RegionUse # 0 /\ RegionUse \notin 1 .. 4 /\ HeapUse \in 1 .. 8 /\ HeapUse # 4
       /\ HeapUse # 0 /\ HeapUse \notin 1 .. 4
  BY DEF RegionUse, HeapUse
<1>22. CASE q.page = 0
  <2>1. r.mem = Note(n, "nomem") /\ r.start = NULL
    BY <1>5, <1>22
  <2>2. /\ r.mem.events = n.events \cup {"nomem"} /\ Alike(n, r.mem) /\ r.mem.table = n.table
        /\ r.mem.stack = n.stack /\ r.mem.held = n.held
    BY <1>7, <2>1, Noted
  <2>3. Tree(r.mem, use1)
    BY <1>17, <2>2, SameTree DEF Alike
  <2>4. HeapList(r.mem, use1, l2)
    <3>1. PICK p : p = r.mem
      OBVIOUS
    <3>2. Alike(n, p) /\ \A j \in 1 .. Len(l2) : l2[j] \in p.held
      BY <1>19, <2>2, <3>1 DEF Chain
    <3>3. Chain(p, l2)
      BY <1>19, <3>2, ChainAlike
    <3> QED BY <1>17, <3>1, <3>3 DEF HeapList
  <2>5. RegionsOf(r.mem, l2) = RegionsOf(n, l2)
    BY <2>2 DEF RegionsOf, Extent, Alike
  <2>6. Kept(m, r.mem)
    <3>1. Grows(n, r.mem)
      BY <2>2, AlikeGrows
    <3> QED BY <1>17, <3>1, GrowsKept, KeptOn
  <2>7. SameBut(m, r.mem, use, m.kernel, {r.start})
    BY <1>20, <2>2, SameTables DEF SameBut, SameViews
  <2>8. OnlyNew(r.mem, use, use1, {new})
    BY <1>17, <1>21 DEF OnlyNew, Reached
  <2>9. \A f \in Frame, i \in Slots :
           use[f] \in 2 .. 4 /\ Present(m.table[f][i]) => r.mem.table[f][i] = m.table[f][i]
    BY <1>17, <2>2
  <2>10. Allocates(m, r, use, use1, l, l2, start, size, new)
    BY <1>6, <1>17, <1>18, <1>a, <2>1, <2>2, <2>3, <2>4, <2>5, <2>6, <2>7, <2>8, <2>9 DEF Allocates
  <2> QED BY <1>4, <1>17, <1>19, <2>10
<1>23. CASE q.page # 0
  <2>1. PICK k \in Memory(Frame, B + size), g \in Frame : k = q.mem /\ g = q.page
    BY <1>9
  <2>2. Took(n, k, g) /\ r.mem = vmm_map(k, n.kernel, start, g, HeapFlags) /\ r.start = start
    BY <1>5, <1>8, <1>23, <2>1
  <2>3. Grows(k, r.mem)
    BY <1>0, <1>4, <1>9, <2>2, MapGrows, HeapFlagsType
  <2>4. ~Wild(k)
    BY <2>3, WildStays DEF Grows
  <2>5. Grows(n, k) /\ g \notin n.held
    BY <2>2, <2>4, TookGrows
  <2>6. PICK use2 : Gives(use1, use2, g, HeapUse)
    BY DEF Gives
  <2>7. /\ use2 \in Uses /\ use1[g] = 0 /\ use2[g] = HeapUse /\ Tree(k, use2)
        /\ \A f \in Frame : f # g => use2[f] = use1[f] /\ k.table[f] = n.table[f]
        /\ k.table[g] = NoTable
    BY <1>17, <1>21, <2>2, <2>5, <2>6, GivenUse
  <2>8. k.kernel = m.kernel /\ n.kernel = m.kernel /\ use2[m.kernel] = 4
    <3>1. k.kernel = n.kernel
      BY <2>5 DEF Grows
    <3>2. n.kernel = m.kernel
      BY <1>17 DEF Kept
    <3> QED BY <2>7, <3>1, <3>2 DEF Tree
  <2>9. PICK use3 \in Uses : Maps(k, r.mem, use2, use3, m.kernel, start, g, HeapFlags)
    <3>1. r.mem = vmm_map(k, m.kernel, start, g, HeapFlags)
      BY <2>2, <2>8
    <3>2. PICK p : p = r.mem
      OBVIOUS
    <3>3. p = vmm_map(k, m.kernel, start, g, HeapFlags) /\ ~Wild(p)
      BY <3>1, <3>2
    <3>4. \E use3 \in Uses : Maps(k, p, use2, use3, m.kernel, start, g, HeapFlags)
      BY <1>0, <1>6, <2>7, <2>8, <3>3, MapStep, HeapFlagsType
    <3> QED BY <3>2, <3>4
  <2>10. /\ Tree(r.mem, use3) /\ Extends(k, use2, use3) /\ SameBut(k, r.mem, use2, m.kernel, {start})
         /\ \A f \in Frame, i \in Slots :
               use2[f] \in 2 .. 4 /\ Present(k.table[f][i]) => r.mem.table[f][i] = k.table[f][i]
         /\ Reached(r.mem, use2, use3)
         /\ Three(r.mem, m.kernel, start)
              /\ E1(r.mem, m.kernel, start) = [to |-> g, flags |-> HeapFlags]
    BY <2>9 DEF Maps
  <2>11. Still(use2, use3)
    BY <2>7, <2>10 DEF Still, Extends, Tree
  <2>12. use[g] = 0 /\ g # new
    <3>1. use1[new] # 0
      BY <1>17, <1>21
    <3> QED BY <1>17, <2>7, <3>1
  <2>13. Still(use, use3)
    BY <1>18, <2>7, <2>11, <2>12 DEF Still
  <2>14. use3[new] = RegionUse /\ use3[g] = HeapUse
    BY <1>17, <1>21, <2>7, <2>11, <2>12 DEF Still
  <2>15. Grows(n, r.mem)
    BY <2>3, <2>5, GrowsOn
  <2>16. HeapList(r.mem, use3, l2)
    <3>1. Chain(r.mem, l2)
      BY <1>19, <2>15, ChainGrows
    <3>2. \A j \in 1 .. Len(l2) : use3[l2[j]] = RegionUse
      <4> TAKE j \in 1 .. Len(l2)
      <4>1. use1[l2[j]] = RegionUse /\ l2[j] \in Frame
        BY <1>17, <1>19 DEF HeapList
      <4>2. l2[j] # g
        BY <1>21, <2>7, <4>1
      <4> QED BY <1>21, <2>7, <2>11, <4>1, <4>2 DEF Still
    <3> QED BY <3>1, <3>2 DEF HeapList
  <2>17. RegionsOf(r.mem, l2) = RegionsOf(n, l2)
    <3>1. PICK N \in Nat : N = Len(l2)
      BY <1>19
    <3>2. \A j \in 1 .. N : l2[j] \in n.held
      BY <1>19, <3>1 DEF Chain
    <3>3. \A j \in 2 .. N : j \in 1 .. N
      OBVIOUS
    <3>4. \A j \in 2 .. N : Extent(r.mem, l2[j]) = Extent(n, l2[j])
      BY <2>15, <3>2, <3>3 DEF Extent, Grows
    <3> QED BY <3>1, <3>4 DEF RegionsOf
  <2>18. Kept(m, r.mem)
    BY <1>17, <2>15, GrowsKept, KeptOn
  <2>19. SameBut(m, r.mem, use, m.kernel, {r.start})
    <3> SUFFICES ASSUME NEW p \in Frame, NEW w \in Virt, use[p] = 4, ~(p = m.kernel /\ w \in {start})
                 PROVE  View(r.mem, p, w) = View(m, p, w)
      BY <2>2 DEF SameBut
    <3>1. use1[p] = 4 /\ p # g /\ use2[p] = 4
      BY <1>17, <2>7, <2>12
    <3>2. View(r.mem, p, w) = View(k, p, w)
      BY <2>10, <3>1 DEF SameBut
    <3>3. SameViews(n, k, use1)
      <4>1. \A f \in Frame : use1[f] \in 1 .. 4 => k.table[f] = n.table[f]
        BY <2>7
      <4> QED BY <1>17, <4>1, TablesKept
    <3> QED BY <1>20, <3>1, <3>2, <3>3 DEF SameViews
  <2>20. virt_to_phys(r.mem, m.kernel, start) = g
    <3>1. View(r.mem, m.kernel, start)[1] = g
      BY <2>10, ViewIs
    <3> QED BY <3>1 DEF View
  <2>21. OnlyNew(r.mem, use, use3, {new, g})
    <3>1. \A f \in Frame : use[f] = 0 /\ f # new /\ f # g => use2[f] = 0
      BY <1>17, <2>7
    <3>2. \A f \in Frame : use2[f] = 0 /\ use3[f] # 0 => use3[f] \in 1 .. 3
      BY <2>10 DEF Extends
    <3>3. \A f \in Frame : use[f] = 0 /\ use3[f] \in 1 .. 3 => f # new /\ f # g
      BY <1>21, <2>14
    <3> QED BY <2>10, <3>1, <3>2, <3>3 DEF OnlyNew, Reached
  <2>22. \A f \in Frame, i \in Slots :
            use[f] \in 2 .. 4 /\ Present(m.table[f][i]) => r.mem.table[f][i] = m.table[f][i]
    <3> TAKE f \in Frame, i \in Slots
    <3> SUFFICES ASSUME use[f] \in 2 .. 4, Present(m.table[f][i])
                 PROVE  r.mem.table[f][i] = m.table[f][i]
      OBVIOUS
    <3>1. f # new /\ f # g
      BY <1>17, <2>12
    <3>2. use2[f] = use[f] /\ k.table[f] = m.table[f]
      BY <1>17, <2>7, <3>1
    <3> QED BY <2>10, <3>2
  <2>23. Allocates(m, r, use, use3, l, l2, start, size, new)
    BY <1>6, <1>17, <1>a, <2>2, <2>10, <2>12, <2>13, <2>14, <2>16, <2>17, <2>18, <2>19, <2>20, <2>21,
       <2>22, <2>9 DEF Allocates
  <2> QED BY <1>4, <1>19, <2>9, <2>23
<1> QED BY <1>22, <1>23

\* Every page of the machine is on the stack once, or held.
Whole(m) == Tidy(m) /\ Range(m.stack) \cup m.held = 1 .. m.max

\* A page that is held goes back on the stack, where there is room for it.
LEMMA Returned ==
    ASSUME NEW B, NEW m \in Memory(Frame, B), Whole(m), NEW f \in m.held,
           NEW n, n.max = m.max, n.held = m.held \ {f},
           n.stack = IF f = 0 \/ Len(m.stack) >= m.max THEN m.stack ELSE Append(m.stack, f)
    PROVE  Whole(n)
<1>0. /\ m.stack \in Seq(Frame \ {0}) /\ f \in Frame /\ f # 0 /\ m.max \in Nat
      /\ f \in 1 .. m.max /\ f \notin Range(m.stack)
  BY DEF Memory, MemoryRecord, Whole, Tidy
<1>1. PICK N \in Nat : N = Len(m.stack) /\ DOMAIN m.stack = 1 .. N
  BY <1>0
<1>2. Len(m.stack) < m.max
  <2> DEFINE T == (1 .. m.max) \ {f}
             s == [k \in 1 .. N |-> m.stack[k]]
  <2>1. s \in [1 .. N -> T]
    BY <1>0, <1>1 DEF Whole, Range
  <2>2. \A j, k \in 1 .. N : j # k => s[j] # s[k]
    BY <1>1 DEF Whole, Tidy
  <2>3. IsFiniteSet(1 .. N) /\ Cardinality(1 .. N) = N
    BY FS_Interval
  <2>4. PICK M, X : M = m.max /\ X = 1 .. m.max /\ M \in Nat /\ f \in X
    BY <1>0
  <2>a. IsFiniteSet(X) /\ Cardinality(X) = M
    BY <2>4, FS_Interval
  <2>b. IsFiniteSet(X \ {f}) /\ Cardinality(X \ {f}) = Cardinality(X) - 1
    BY <2>4, <2>a, FS_RemoveElement
  <2>5. IsFiniteSet(T) /\ Cardinality(T) = m.max - 1
    BY <2>4, <2>a, <2>b
  <2> HIDE DEF T, s
  <2>6. CASE N > m.max - 1
    BY <1>0, <2>1, <2>2, <2>3, <2>5, <2>6, FS_PigeonHole
  <2> QED BY <1>0, <1>1, <2>6
<1>3. n.stack = Append(m.stack, f)
  BY <1>0, <1>1, <1>2
<1>4. /\ DOMAIN n.stack = 1 .. (N + 1) /\ n.stack[N + 1] = f
      /\ \A k \in 1 .. N : n.stack[k] = m.stack[k]
  BY <1>0, <1>1, <1>3
<1>5. 1 .. (N + 1) = (1 .. N) \cup {N + 1} /\ N + 1 \notin 1 .. N
  OBVIOUS
<1>6. Range(n.stack) = Range(m.stack) \cup {f}
  BY <1>1, <1>4, <1>5 DEF Range
<1>7. \A k \in 1 .. N : m.stack[k] # f
  BY <1>0, <1>1 DEF Range
<1>8. \A j, k \in DOMAIN n.stack : n.stack[j] = n.stack[k] => j = k
  BY <1>1, <1>4, <1>5, <1>7 DEF Whole, Tidy
<1> QED BY <1>0, <1>6, <1>8 DEF Whole, Tidy

\* What is freed: the tree stands, the pages S of the kernel are seen differently.
Drops(m, n, use, use2, S) ==
    /\ use2 \in Uses /\ Tree(n, use2) /\ SameBut(m, n, use, m.kernel, S)
    /\ Alike(m, n) /\ m.events \subseteq n.events
    /\ \A f \in Frame : use[f] # 1 => n.table[f] = m.table[f]
    /\ "stray" \notin n.events /\ Whole(m) => Whole(n)

\* One iteration of vma_free's loop in memory that does not get wild.
LEMMA FreePageStep ==
    ASSUME NEW B \in Nat, NEW m \in Memory(Frame, B), NEW use \in Uses, Tree(m, use),
           NEW page \in Lower, NEW first, NEW n, n = FreeHeapPage(m, page, first), ~Wild(n),
           NEW f, f = virt_to_phys(m, m.kernel, page), NEW use2,
           \/ page = first /\ use[f] = HeapUse /\ Gives(use, use2, f, 0)
           \/ page # first /\ use2 = use
    PROVE  Drops(m, n, use, use2, {page})
<1>0. page \in Nat /\ page \in Virt /\ m.kernel \in Frame /\ use[m.kernel] = 4 /\ Frame \subseteq Int
  BY VirtNat, LowerVirt, Constants DEF Memory, MemoryRecord, Tree
<1>1. PICK d \in Memory(Frame, B), o \in Memory(Frame, B) :
         /\ d = pmm_free_page(m, f) /\ f \in Frame
         /\ o = IF page # first /\ f \in m.held THEN Note(d, "stolen") ELSE d
         /\ n = vmm_unmap(o, m.kernel, page)
  BY <1>0, PageFreed
<1>2. /\ Alike(m, d) /\ d.table = m.table /\ d.held = m.held \ {f}
      /\ d.stack = IF f = 0 \/ Len(m.stack) >= m.max THEN m.stack ELSE Append(m.stack, f)
      /\ d.events = m.events \cup (IF f < 0 THEN {"alias"}
                                   ELSE IF f = 0 \/ f \in m.held THEN {} ELSE {"stray"})
  <2>1. Returns(m, d, f)
    BY <1>0, <1>1, Freed
  <2> QED BY <2>1 DEF Returns
<1>3. PICK t \in Frame, i \in Slots : Wrote(o, n, t, i, NoEntry)
  BY <1>0, <1>1, Unmapped
<1>4. n.events = o.events
  BY <1>3 DEF Wrote
<1>5. o = d /\ ~(page # first /\ f \in m.held)
  <2>1. CASE page # first /\ f \in m.held
    <3>1. "stolen" \in Events
      BY DEF Events
    <3>2. "stolen" \in o.events
      BY <1>1, <2>1, <3>1, Noted
    <3> QED BY <1>4, <3>2 DEF Wild
  <2> QED BY <1>1, <2>1
<1>6. /\ Tree(d, use2) /\ use2 \in Uses /\ \A g \in Frame : g # f => use2[g] = use[g]
      /\ use[f] # use2[f] => use[f] = HeapUse /\ use2[f] = 0
  <2>1. CASE page = first /\ use[f] = HeapUse /\ Gives(use, use2, f, 0)
    <3>1. HeapUse \notin 1 .. 4
      BY DEF HeapUse
    <3> QED BY <1>0, <1>1, <1>2, <2>1, <3>1, UseDropped DEF Alike
  <2>2. CASE page # first /\ use2 = use
    <3>1. d.held = m.held
      BY <1>2, <1>5, <2>2
    <3> QED BY <1>2, <2>2, <3>1, SameTree DEF Alike
  <2> QED BY <2>1, <2>2
<1>7. HeapUse # 0 /\ HeapUse # 4 /\ HeapUse # 1
  BY DEF HeapUse
<1>8. use2[m.kernel] = 4
  BY <1>0, <1>6, <1>7
<1>9. /\ Tree(n, use2) /\ SameBut(d, n, use2, m.kernel, {page})
      /\ Alike(d, n) /\ n.stack = d.stack /\ n.held = d.held /\ n.events = d.events
      /\ \A g \in Frame : use2[g] # 1 => n.table[g] = d.table[g]
  <2>1. PICK q \in Frame : q = m.kernel
    BY <1>0
  <2>2. n = vmm_unmap(d, q, page) /\ use2[q] = 4
    BY <1>1, <1>5, <1>8, <2>1
  <2>3. /\ Tree(n, use2) /\ SameBut(d, n, use2, q, {page})
        /\ Alike(d, n) /\ n.stack = d.stack /\ n.held = d.held /\ n.events = d.events
        /\ \A g \in Frame : use2[g] # 1 => n.table[g] = d.table[g]
    <3>1. Unmaps(d, n, use2, q, page)
      BY <1>6, <2>2, UnmapStep
    <3> QED BY <3>1 DEF Unmaps
  <2> QED BY <2>1, <2>3
<1>10. SameBut(m, n, use, m.kernel, {page})
  <2>1. \A q, w : View(d, q, w) = View(m, q, w)
    BY <1>2, SameTables
  <2>2. \A p \in Frame : use[p] = 4 => use2[p] = 4
    BY <1>1, <1>6, <1>7
  <2> QED BY <1>9, <2>1, <2>2 DEF SameBut
<1>11. Alike(m, n) /\ m.events \subseteq n.events
  BY <1>2, <1>9 DEF Alike
<1>12. \A g \in Frame : use[g] # 1 => n.table[g] = m.table[g]
  <2>1. \A g \in Frame : use[g] # 1 => use2[g] # 1
    BY <1>6
  <2> QED BY <1>2, <1>9, <2>1
<1>13. ASSUME "stray" \notin n.events, Whole(m) PROVE Whole(n)
  <2>1. f \in Nat
    BY <1>1, Constants
  <2>2. CASE f = 0
    <3>1. n.stack = m.stack /\ n.held = m.held
      BY <1>2, <1>9, <2>2 DEF Memory, MemoryRecord
    <3> QED BY <1>11, <1>13, <3>1 DEF Whole, Tidy, Alike
  <2>3. CASE f # 0
    <3>1. ~(f < 0)
      BY <2>1
    <3>2. f \in m.held
      BY <1>2, <1>9, <1>13, <2>3, <3>1
    <3>3. n.max = m.max /\ n.held = m.held \ {f}
          /\ n.stack = IF f = 0 \/ Len(m.stack) >= m.max THEN m.stack ELSE Append(m.stack, f)
      BY <1>2, <1>9, <1>11 DEF Alike
    <3> QED BY <1>13, <3>2, <3>3, Returned
  <2> QED BY <2>2, <2>3
<1> QED BY <1>6, <1>9, <1>10, <1>11, <1>12, <1>13 DEF Drops

\* One after the other.
LEMMA DropsOn ==
    ASSUME NEW k, NEW m, NEW n, NEW use \in Uses, NEW use1, NEW use2, NEW S, NEW T,
           Drops(k, m, use, use1, S), Drops(m, n, use1, use2, T),
           \A f \in Frame : use1[f] = use[f] \/ (use[f] \notin 1 .. 4 /\ use1[f] = 0)
    PROVE  Drops(k, n, use, use2, S \cup T)
<1>1. Alike(k, n) /\ k.events \subseteq n.events /\ m.kernel = k.kernel
  BY DEF Drops, Alike
<1>2. SameBut(k, n, use, k.kernel, S \cup T)
  <2> SUFFICES ASSUME NEW p \in Frame, NEW w \in Virt, use[p] = 4, ~(p = k.kernel /\ w \in S \cup T)
               PROVE  View(n, p, w) = View(k, p, w)
    BY DEF SameBut
  <2>1. use1[p] = 4
    OBVIOUS
  <2>2. View(n, p, w) = View(m, p, w)
    BY <1>1, <2>1 DEF Drops, SameBut
  <2>3. View(m, p, w) = View(k, p, w)
    BY DEF Drops, SameBut
  <2> QED BY <2>2, <2>3
<1>3. \A f \in Frame : use[f] # 1 => n.table[f] = k.table[f]
  <2>1. \A f \in Frame : use[f] # 1 => use1[f] # 1
    OBVIOUS
  <2> QED BY <2>1 DEF Drops
<1>4. "stray" \notin n.events /\ Whole(k) => Whole(n)
  BY DEF Drops
<1> QED BY <1>1, <1>2, <1>3, <1>4 DEF Drops

\* Events are history in an iteration of vma_free's loop, too.
LEMMA PageFreedEvents ==
    ASSUME NEW B, NEW m \in Memory(Frame, B), NEW page \in Nat, NEW first,
           NEW n, n = FreeHeapPage(m, page, first)
    PROVE  m.events \subseteq n.events
<1>0. m.kernel \in Frame /\ Frame \subseteq Int
  BY Constants DEF Memory, MemoryRecord
<1>1. PICK f : f = virt_to_phys(m, m.kernel, page)
  OBVIOUS
<1>2. PICK d \in Memory(Frame, B), o \in Memory(Frame, B) :
         /\ d = pmm_free_page(m, f) /\ f \in Frame
         /\ o = IF page # first /\ f \in m.held THEN Note(d, "stolen") ELSE d
         /\ n = vmm_unmap(o, m.kernel, page)
  BY <1>1, PageFreed
<1>3. Returns(m, d, f)
  BY <1>0, <1>2, Freed
<1>4. m.events \subseteq d.events
  BY <1>3 DEF Returns
<1>5. "stolen" \in Events
  BY DEF Events
<1>6. d.events \subseteq o.events
  BY <1>2, <1>5, Noted
<1>7. PICK q \in Frame : q = m.kernel /\ n = vmm_unmap(o, q, page)
  BY <1>0, <1>2
<1>8. PICK t \in Frame, i \in Slots : Wrote(o, n, t, i, NoEntry)
  BY <1>7, Unmapped
<1> QED BY <1>4, <1>6, <1>8 DEF Wrote

\* The loop of vma_free in memory that does not get wild.
LEMMA LoopDropped ==
    ASSUME NEW B \in Nat, NEW m \in Memory(Frame, B), NEW use \in Uses, Tree(m, use),
           NEW start \in Nat, NEW N \in Nat \ {0}, start + N <= HHDM,
           NEW f \in [0 .. N -> Memory(Frame, B)], NEW n, FreeLoop(f, m, n, start, N), ~Wild(n),
           NEW g, g = virt_to_phys(m, m.kernel, start), use[g] = HeapUse,
           NEW use2, Gives(use, use2, g, 0)
    PROVE  Drops(m, n, use, use2, start .. (start + N - 1))
<1>0. /\ f[0] = m /\ f[N] = n
      /\ \A k \in 1 .. N : f[k] = FreeHeapPage(f[k - 1], start + k - 1, start)
  BY DEF FreeLoop
<1>1. \A k \in 1 .. N : /\ start + k - 1 \in Lower /\ start + k - 1 \in Nat
                        /\ f[k - 1] \in Memory(Frame, B) /\ f[k] \in Memory(Frame, B)
  <2>1. HHDM \in Nat
    BY LowerVirt
  <2> TAKE k \in 1 .. N
  <2>2. start + k - 1 \in Nat /\ start + k - 1 < HHDM
    BY <2>1
  <2>3. k - 1 \in 0 .. N /\ k \in 0 .. N
    OBVIOUS
  <2> QED BY <2>2, <2>3, LowerVirt
<1>2. \A k \in 1 .. N : f[k - 1].events \subseteq f[k].events
  <2> TAKE k \in 1 .. N
  <2>1. PICK a \in Memory(Frame, B), b \in Memory(Frame, B), p \in Nat :
             a = f[k - 1] /\ b = f[k] /\ p = start + k - 1
    BY <1>1
  <2>2. b = FreeHeapPage(a, p, start)
    BY <1>0, <2>1
  <2> QED BY <2>1, <2>2, PageFreedEvents
<1>3. \A k \in 0 .. N : ~Wild(f[k])
  <2> DEFINE S == {j \in 0 .. N : ~Wild(f[N - j])}
  <2>1. 0 \in S
    BY <1>0
  <2>2. ASSUME NEW j \in 1 .. N, j - 1 \in S PROVE j \in S
    <3>1. PICK k \in 1 .. N : k = N - j + 1 /\ N - (j - 1) = k /\ N - j = k - 1
      OBVIOUS
    <3>2. f[k - 1].events \subseteq f[k].events /\ ~Wild(f[k])
      BY <1>2, <2>2, <3>1
    <3>3. ~Wild(f[k - 1])
      BY <3>2, WildStays
    <3> QED BY <3>1, <3>3
  <2>3. 0 .. N \subseteq S
    <3> HIDE DEF S
    <3> QED BY <2>1, <2>2, Induction
  <2> TAKE k \in 0 .. N
  <2>4. N - k \in 0 .. N /\ N - (N - k) = k
    OBVIOUS
  <2> QED BY <2>3, <2>4
<1>4. /\ \A h \in Frame : use2[h] = use[h] \/ (use[h] \notin 1 .. 4 /\ use2[h] = 0)
      /\ \A h \in Frame : use2[h] = use2[h] \/ (use2[h] \notin 1 .. 4 /\ use2[h] = 0)
  BY DEF Gives, HeapUse, Uses
<1> DEFINE T == {k \in 0 .. N : k = 0 \/ Drops(m, f[k], use, use2, start .. (start + k - 1))}
<1>5. 0 \in T
  OBVIOUS
<1>6. ASSUME NEW k \in 1 .. N, k - 1 \in T PROVE k \in T
  <2>1. PICK a \in Memory(Frame, B), b \in Memory(Frame, B), p \in Lower :
           a = f[k - 1] /\ b = f[k] /\ p = start + k - 1
    BY <1>1
  <2>2. b = FreeHeapPage(a, p, start) /\ ~Wild(b)
    BY <1>0, <1>3, <2>1
  <2>3. CASE k = 1
    <3>1. a = m /\ p = start
      BY <1>0, <2>1, <2>3
    <3>2. Drops(a, b, use, use2, {p})
      BY <2>2, <3>1, FreePageStep
    <3>3. {p} = start .. (start + k - 1)
      BY <2>3, <3>1
    <3>4. PICK Y : Y = start .. (start + k - 1)
      OBVIOUS
    <3>5. Drops(m, f[k], use, use2, Y)
      BY <2>1, <3>1, <3>2, <3>3, <3>4
    <3> QED BY <3>4, <3>5
  <2>4. CASE k > 1
    <3>1. Drops(m, a, use, use2, start .. (start + (k - 1) - 1))
      BY <1>6, <2>1, <2>4
    <3>2. use2 \in Uses /\ Tree(a, use2)
      BY <3>1 DEF Drops
    <3>3. PICK h : h = virt_to_phys(a, a.kernel, p)
      OBVIOUS
    <3>4. p # start
      BY <2>1, <2>4
    <3>5. Drops(a, b, use2, use2, {p})
      BY <2>2, <3>2, <3>3, <3>4, FreePageStep
    <3>6. PICK X : X = start .. (start + (k - 1) - 1)
      OBVIOUS
    <3>7. Drops(m, b, use, use2, X \cup {p})
      BY <1>4, <3>1, <3>5, <3>6, DropsOn
    <3>8. X \cup {p} = start .. (start + k - 1)
      BY <2>1, <2>4, <3>6
    <3>9. PICK Y : Y = start .. (start + k - 1)
      OBVIOUS
    <3>10. Drops(m, f[k], use, use2, Y)
      BY <2>1, <3>7, <3>8, <3>9
    <3> QED BY <3>9, <3>10
  <2> QED BY <2>3, <2>4
<1>7. 0 .. N \subseteq T
  <2> HIDE DEF T
  <2> QED BY <1>5, <1>6, Induction
<1>8. N \in 0 .. N /\ N # 0
  OBVIOUS
<1> QED BY <1>0, <1>7, <1>8

PagesOf(reg) == reg.start .. (reg.start + reg.size - 1)

\* What vma_free does to memory that does not get wild: x is the region's descriptor
\* and g its first page.
Frees(m, n, use, use2, l, l2, reg, x, g) ==
    /\ use2 \in Uses /\ Tree(n, use2) /\ HeapList(n, use2, l2)
    /\ SameBut(m, n, use, m.kernel, PagesOf(reg))
    /\ RegionsOf(n, l2) = RegionsOf(m, l) \ {reg} /\ Members(l2) = Members(l) \ {x}
    /\ use2[g] = 0 /\ use2[x] = 0 /\ use[x] = RegionUse /\ x \in Frame
    /\ \A f \in Frame : f # g /\ f # x => use2[f] = use[f]
    /\ \A f \in Frame : use[f] # 1 => n.table[f] = m.table[f]
    /\ n.kernel = m.kernel /\ n.ctx = m.ctx /\ n.root = m.root /\ n.max = m.max
    /\ n.data = m.data /\ m.events \subseteq n.events
    /\ "stray" \notin n.events /\ Whole(m) => Whole(n)

\* vma_free in memory that does not get wild.
LEMMA FreeStep ==
    ASSUME NEW B \in Nat, NEW m \in Memory(Frame, B), NEW use \in Uses, Tree(m, use),
           NEW l, HeapList(m, use, l), B <= HHDM, NEW reg \in RegionsOf(m, l),
           NEW start, start = reg.start, NEW n, n = vma_free(m, start), ~Wild(n),
           NEW g \in Frame, g = virt_to_phys(m, m.kernel, start), use[g] = HeapUse
    PROVE  /\ n \in Memory(Frame, B)
           /\ \E use2 \in Uses, l2 \in Seq(Frame),
                    x \in Frame : Frees(m, n, use, use2, l, l2, reg, x, g)
<1>0. /\ Chain(m, l) /\ l \in Seq(Frame) /\ m.kernel \in Frame /\ Frame \subseteq Int
      /\ m.region \in [Frame -> Region] /\ m.root \in Frame
      /\ \A k \in 1 .. Len(l) : use[l[k]] = RegionUse /\ l[k] \in Frame
  <2>1. PICK N \in Nat : N = Len(l) /\ N >= 1 /\ l[1] = m.root /\ l \in Seq(Frame) /\ Chain(m, l)
    BY DEF HeapList, Chain
  <2>2. m.root \in Frame
    BY <2>1
  <2> QED BY <2>1, <2>2, Constants DEF HeapList, Memory, MemoryRecord
<1>1. PICK j \in 2 .. Len(l) : reg = Extent(m, l[j])
  BY DEF RegionsOf
<1>2. PICK L \in Nat : L = Len(l) /\ j \in 1 .. L /\ j \in 2 .. L
  BY <1>0, <1>1
<1>3. m.region[l[j]].start = start /\ m.region[l[j]].size = reg.size /\ start \in Nat
      /\ reg.size \in Nat \ {0}
  <2>1. m.region[l[j]].size >= 1
    BY <1>0, <1>2 DEF Chain
  <2>2. m.region[l[j]].start \in Nat /\ m.region[l[j]].size \in Nat
    BY <1>0, <1>2 DEF Region
  <2>3. m.region[l[j]].start = reg.start /\ m.region[l[j]].size = reg.size
    BY <1>1 DEF Extent
  <2>4. \A y \in Nat : y >= 1 => y \in Nat \ {0}
    OBVIOUS
  <2> QED BY <2>1, <2>2, <2>3, <2>4
<1>4. \A k \in 1 .. L : k # j => m.region[l[k]].start # start
  <2> TAKE k \in 1 .. L
  <2>0. m.region[l[k]].start \in Nat
    BY <1>0, <1>2 DEF Region
  <2>1. CASE k < j
    <3>1. m.region[l[k]].start < m.region[l[j]].start
      BY <1>0, <1>2, <2>1, StartsGrow
    <3> QED BY <1>3, <2>0, <3>1
  <2>2. CASE j < k
    <3>1. m.region[l[j]].start < m.region[l[k]].start
      BY <1>0, <1>2, <2>2, StartsGrow
    <3> QED BY <1>3, <2>0, <3>1
  <2> QED BY <1>2, <2>1, <2>2
<1>5. l = RegionList(m)
  BY <1>0, ChainList
<1>6. n \in Memory(Frame, B) /\ \E k \in 1 .. Len(l) : RegionOut(m, n, B, start, l[k])
  <2>1. ~\A k \in 1 .. Len(l) : m.region[l[k]].start # start
    BY <1>2, <1>3
  <2> QED BY <1>0, <1>3, <1>5, <2>1, RegionFreed
<1>7. PICK x \in Frame, N \in Nat \ {0} : x = l[j] /\ N = reg.size
  BY <1>0, <1>2, <1>3
<1>8. PICK k \in 1 .. Len(l) : RegionOut(m, n, B, start, l[k])
  BY <1>6
<1>9. k = j
  BY <1>2, <1>4, <1>8 DEF RegionOut
<1>10. PICK f \in [0 .. N -> Memory(Frame, B)], u \in Memory(Frame, B) :
                    /\ FreeLoop(f, IF x \in m.stale THEN Note(m, "lost") ELSE m, f[N], start, N)
                    /\ u = Unlink(f[N], x)
                    /\ n = pmm_free_page(u, x)
  BY <1>3, <1>7, <1>8, <1>9 DEF RegionOut
<1>11. PICK o, w : o = (IF x \in m.stale THEN Note(m, "lost") ELSE m) /\ w = f[N]
  OBVIOUS
<1>12. "lost" \in Events
  BY DEF Events
<1>13. o \in Memory(Frame, B) /\ Tree(o, use) /\ Alike(m, o) /\ o.table = m.table
       /\ (x \in m.stale => Wild(o)) /\ o.kernel = m.kernel /\ w \in Memory(Frame, B)
  <2>1. CASE x \in m.stale
    <3>1. /\ o \in Memory(Frame, B) /\ Alike(m, o) /\ o.table = m.table /\ o.held = m.held
          /\ "lost" \in o.events
      BY <1>11, <1>12, <2>1, Noted
    <3>2. Wild(o)
      BY <3>1 DEF Wild
    <3>3. o.kernel = m.kernel
      BY <3>1 DEF Alike
    <3>4. Tree(o, use)
      BY <3>1, <3>3, SameTree
    <3>5. w \in Memory(Frame, B)
      BY <1>11
    <3> QED BY <3>1, <3>2, <3>3, <3>4, <3>5
  <2>2. CASE x \notin m.stale
    BY <1>11, <2>2 DEF Alike
  <2> QED BY <2>1, <2>2
<1>14. FreeLoop(f, o, w, start, N)
  BY <1>10, <1>11
<1>15. /\ u.stack = w.stack /\ u.max = w.max /\ u.table = w.table /\ u.data = w.data
       /\ u.kernel = w.kernel /\ u.ctx = w.ctx /\ u.held = w.held /\ u.events = w.events
  <2>1. u = Unlink(w, x)
    BY <1>10, <1>11
  <2> QED BY <1>13, <2>1, Unlinked
<1>16. Returns(u, n, x)
  BY <1>0, <1>10, Freed
<1>17. u.events \subseteq n.events /\ ~Wild(w)
  <2>1. u.events \subseteq n.events
    BY <1>16 DEF Returns
  <2> QED BY <1>15, <2>1, WildStays
<1>18. PICK use1 : Gives(use, use1, g, 0)
  BY DEF Gives
<1>19. start + N <= HHDM
  <2>1. End(m.region[x]) <= B
    BY DEF Memory
  <2>2. start + N <= B
    BY <1>3, <1>7, <2>1 DEF End
  <2>3. HHDM \in Nat
    BY LowerVirt
  <2> QED BY <1>3, <2>2, <2>3
<1>20. g = virt_to_phys(o, o.kernel, start)
  BY <1>13, SameTables DEF View
<1>21. Drops(o, w, use, use1, start .. (start + N - 1))
  BY <1>3, <1>7, <1>13, <1>14, <1>17, <1>18, <1>19, <1>20, LoopDropped
<1>22. ~Wild(o)
  BY <1>17, <1>21, WildStays DEF Drops
<1>23. x \notin m.stale /\ o = m
  BY <1>11, <1>13, <1>22
<1>24. /\ use1 \in Uses /\ Tree(w, use1) /\ SameBut(m, w, use, m.kernel, start .. (start + N - 1))
       /\ Alike(m, w) /\ m.events \subseteq w.events
       /\ \A h \in Frame : use[h] # 1 => w.table[h] = m.table[h]
       /\ "stray" \notin w.events /\ Whole(m) => Whole(w)
  BY <1>21, <1>23 DEF Drops
<1>25. use1[g] = 0 /\ \A h \in Frame : h # g => use1[h] = use[h]
  BY <1>18 DEF Gives, Uses
<1>26. RegionUse # 0 /\ RegionUse # HeapUse /\ RegionUse \notin 1 .. 4
  BY DEF RegionUse, HeapUse
<1>27. \A i \in 1 .. L : l[i] # g /\ use1[l[i]] = RegionUse /\ l[i] \in w.held
  <2> TAKE i \in 1 .. L
  <2>1. l[i] # g /\ use1[l[i]] = RegionUse /\ l[i] \in Frame
    BY <1>0, <1>2, <1>25, <1>26
  <2> QED BY <1>24, <1>26, <2>1 DEF Tree
<1>28. Chain(w, l)
  BY <1>0, <1>2, <1>24, <1>27, ChainAlike
<1>29. /\ Alike(u, n) /\ n.table = u.table /\ n.held = w.held \ {x}
  BY <1>15, <1>16 DEF Returns
<1>30. PICK l2 : l2 = Delete(l, j)
  OBVIOUS
<1>31. /\ Chain(n, l2) /\ n.root = w.root
       /\ \A i \in 1 .. Len(l) : i # j => /\ n.region[l[i]].start = w.region[l[i]].start
                                          /\ n.region[l[i]].size = w.region[l[i]].size
  <2>1. l[j] \notin w.stale
    BY <1>7, <1>23, <1>24 DEF Alike
  <2>2. u = Unlink(w, l[j]) /\ n.held = w.held \ {l[j]}
    BY <1>7, <1>10, <1>11, <1>29
  <2>3. j \in 2 .. Len(l)
    OBVIOUS
  <2> QED BY <1>13, <1>28, <1>29, <1>30, <2>1, <2>2, <2>3, ChainDelete
<1>32. RegionsOf(n, l2) = RegionsOf(m, l) \ {reg}
  <2>1. SameExtents(w, n, l, (1 .. Len(l)) \ {j})
    BY <1>31 DEF SameExtents
  <2>2. RegionsOf(n, l2) = RegionsOf(w, l) \ {Extent(w, l[j])}
    BY <1>13, <1>28, <1>30, <2>1, RegionsDelete
  <2>3. w.region = m.region
    BY <1>24 DEF Alike
  <2>4. Extent(w, l[j]) = reg /\ \A y : Extent(w, y) = Extent(m, y)
    BY <1>1, <2>3 DEF Extent
  <2>5. RegionsOf(w, l) = RegionsOf(m, l)
    BY <2>4 DEF RegionsOf
  <2> QED BY <2>2, <2>4, <2>5
<1>a. Members(l2) = Members(l) \ {x}
  <2>1. \A i \in 1 .. Len(l) : i # j => l[i] # l[j]
    <3> TAKE i \in 1 .. Len(l)
    <3> SUFFICES ASSUME i # j PROVE l[i] # l[j]
      OBVIOUS
    <3>1. Chain(m, l) /\ j \in 1 .. Len(l)
      BY <1>0, <1>2
    <3> QED BY <3>1, ChainDistinct
  <2> QED BY <1>0, <1>2, <1>7, <1>30, <2>1, MembersDelete
<1>33. PICK use2 : Gives(use1, use2, x, 0)
  BY DEF Gives
<1>34. use1[x] = RegionUse /\ x # g /\ w.kernel \in Frame
       /\ n.table = w.table /\ n.kernel = w.kernel
  <2>1. n.kernel = w.kernel /\ w.kernel = m.kernel
    BY <1>15, <1>24, <1>29 DEF Alike
  <2> QED BY <1>0, <1>2, <1>7, <1>15, <1>27, <1>29, <2>1
<1>35. /\ use2 \in Uses /\ Tree(n, use2) /\ use2[x] = 0
       /\ \A h \in Frame : h # x => use2[h] = use1[h]
  BY <1>24, <1>26, <1>29, <1>33, <1>34, UseDropped
<1>36. HeapList(n, use2, l2) /\ l2 \in Seq(Frame)
  <2>1. /\ Len(l2) = L - 1 /\ \A i \in 1 .. (j - 1) : l2[i] = l[i]
        /\ \A i \in j .. (L - 1) : l2[i] = l[i + 1] /\ l2 \in Seq(Frame)
    BY <1>0, <1>2, <1>30, Deletes
  <2>2. \A i \in 1 .. L : i # j => l[i] # x
    <3> TAKE i \in 1 .. L
    <3> SUFFICES ASSUME i # j PROVE l[i] # l[j]
      BY <1>7
    <3>1. Chain(m, l) /\ i \in 1 .. Len(l) /\ j \in 1 .. Len(l)
      BY <1>0, <1>2
    <3> QED BY <3>1, ChainDistinct
  <2>3. \A i \in 1 .. L : i # j => use2[l[i]] = RegionUse
    BY <1>0, <1>2, <1>27, <1>35, <2>2
  <2>4. ASSUME NEW i \in 1 .. (L - 1) PROVE use2[l2[i]] = RegionUse
    <3>1. CASE i < j
      <4>1. i \in 1 .. (j - 1) /\ i \in 1 .. L /\ i # j
        BY <1>2, <3>1
      <4> QED BY <2>1, <2>3, <4>1
    <3>2. CASE i >= j
      <4>1. i \in j .. (L - 1) /\ i + 1 \in 1 .. L /\ i + 1 # j
        BY <1>2, <3>2
      <4> QED BY <2>1, <2>3, <4>1
    <3> QED BY <1>2, <3>1, <3>2
  <2>5. l2 \in Seq(Frame)
    BY <1>31 DEF Chain
  <2> QED BY <1>31, <2>1, <2>4, <2>5 DEF HeapList
<1>37. SameBut(m, n, use, m.kernel, PagesOf(reg))
  <2>1. \A q, v : View(n, q, v) = View(w, q, v)
    BY <1>34, SameTables
  <2>2. PagesOf(reg) = start .. (start + N - 1)
    BY <1>7 DEF PagesOf
  <2> QED BY <1>24, <2>1, <2>2 DEF SameBut
<1>38. /\ n.kernel = m.kernel /\ n.ctx = m.ctx /\ n.root = m.root /\ n.max = m.max
       /\ n.data = m.data /\ m.events \subseteq n.events
  BY <1>15, <1>17, <1>24, <1>29, <1>31 DEF Alike
<1>39. ASSUME "stray" \notin n.events, Whole(m) PROVE Whole(n)
  <2>1. Whole(w)
    BY <1>15, <1>17, <1>24, <1>39
  <2>2. Whole(u)
    BY <1>15, <2>1 DEF Whole, Tidy
  <2>3. x \in u.held
    BY <1>2, <1>7, <1>15, <1>27
  <2>4. n.max = u.max /\ n.held = u.held \ {x}
        /\ n.stack = IF x = 0 \/ Len(u.stack) >= u.max THEN u.stack ELSE Append(u.stack, x)
    BY <1>16 DEF Returns, Alike
  <2> QED BY <2>2, <2>3, <2>4, Returned
<1>40. \A h \in Frame : h # g /\ h # x => use2[h] = use[h]
  BY <1>25, <1>35
<1>41. use2[g] = 0 /\ use[x] = RegionUse
  BY <1>0, <1>2, <1>7, <1>25, <1>34, <1>35
<1>42. \A h \in Frame : use[h] # 1 => n.table[h] = m.table[h]
  BY <1>24, <1>34
<1>43. Frees(m, n, use, use2, l, l2, reg, x, g)
  BY <1>a, <1>32, <1>35, <1>36, <1>37, <1>38, <1>39, <1>40, <1>41, <1>42 DEF Frees
<1> QED BY <1>6, <1>35, <1>36, <1>43

--------------------------------------------------------------------------------
(* Loops whose steps rely on what the steps before them left *)

LeadsUp(G, N, step) ==
    \A i \in 1 .. N : G[i - 1] \subseteq G[i] /\ \A v \in G[i - 1] : step[i][v] \in G[i]

StaysIn(iter, G, N) == \A n \in 0 .. N : \A s \in SUBSET (1 .. n) : iter[s] \in G[n]

\* A fold whose base is good at first and whose steps lead from good to good.
LEMMA FoldingUp ==
    ASSUME NEW V, NEW N \in Nat, NEW G \in [0 .. N -> SUBSET V], NEW base, base \in G[0], NEW step,
           LeadsUp(G, N, step)
    PROVE  \E iter \in [SUBSET (1 .. N) -> V] : Folds(iter, N, base, step) /\ StaysIn(iter, G, N)
<1> DEFINE safe == [i \in 1 .. N |-> [v \in V |-> IF v \in G[i - 1] THEN step[i][v] ELSE base]]
<1>1. base \in V /\ \A i \in 0 .. N : G[i] \subseteq V
  OBVIOUS
<1>a. \A i \in 1 .. N : \A v \in G[i - 1] : step[i][v] \in G[i]
  BY DEF LeadsUp
<1>2. safe \in [1 .. N -> [V -> V]]
  <2>1. ASSUME NEW i \in 1 .. N, NEW v \in V
        PROVE  (IF v \in G[i - 1] THEN step[i][v] ELSE base) \in V
    <3>1. G[i] \subseteq V
      BY <1>1
    <3> QED BY <1>1, <1>a, <3>1
  <2> QED BY <2>1
<1>3. \A i \in 1 .. N : \A v \in G[i - 1] : safe[i][v] = step[i][v]
  <2> TAKE i \in 1 .. N
  <2>1. G[i - 1] \subseteq V
    BY <1>1
  <2> QED BY <2>1
<1>4. PICK iter \in [SUBSET (1 .. N) -> V] : Folds(iter, N, base, safe)
  <2> HIDE DEF safe
  <2> QED BY <1>1, <1>2, Folding
<1> HIDE DEF safe
<1> DEFINE S == {n \in 0 .. N : \A s \in SUBSET (1 .. n) : iter[s] \in G[n]}
<1>5. 0 \in S
  <2>1. \A s \in SUBSET (1 .. 0) : s = {} /\ s \in SUBSET (1 .. N)
    OBVIOUS
  <2>2. iter[{}] = base
    BY <1>4 DEF Folds
  <2>3. ASSUME NEW s \in SUBSET (1 .. 0) PROVE iter[s] \in G[0]
    <3>1. s = {}
      OBVIOUS
    <3>2. iter[s] = base
      BY <2>2, <3>1
    <3> QED BY <3>2
  <2>4. 0 \in 0 .. N
    OBVIOUS
  <2> QED BY <2>3, <2>4
<1>6. ASSUME NEW n \in 1 .. N, n - 1 \in S PROVE n \in S
  <2>0. G[n - 1] \subseteq G[n] /\ \A v \in G[n - 1] : step[n][v] \in G[n]
    BY DEF LeadsUp
  <2>1. ASSUME NEW s \in SUBSET (1 .. n) PROVE iter[s] \in G[n]
    <3>1. CASE n \notin s
      <4>1. s \in SUBSET (1 .. (n - 1))
        BY <3>1
      <4> QED BY <1>6, <2>0, <4>1
    <3>2. CASE n \in s
      <4>1. s \ {n} \in SUBSET (1 .. (n - 1)) /\ s \in SUBSET (1 .. N) /\ s # {} /\ n \in Nat
        BY <3>2
      <4>2. Max(s) = n
        BY <3>2, <4>1, MaxTop
      <4>3. iter[s \ {n}] \in G[n - 1]
        BY <1>6, <4>1
      <4>4. iter[s] = safe[n][iter[s \ {n}]]
        BY <1>4, <4>1, <4>2 DEF Folds
      <4> QED BY <1>3, <2>0, <4>3, <4>4
    <3> QED BY <3>1, <3>2
  <2> QED BY <2>1
<1>7. 0 .. N \subseteq S
  <2> HIDE DEF S
  <2> QED BY <1>5, <1>6, Induction
<1>8. \A n \in 0 .. N : \A s \in SUBSET (1 .. n) : iter[s] \in G[n]
  BY <1>7
<1>9. ASSUME NEW s \in SUBSET (1 .. N), s # {}
      PROVE  safe[Max(s)][iter[s \ {Max(s)}]] = step[Max(s)][iter[s \ {Max(s)}]]
  <2>1. Max(s) \in s /\ \A y \in s : Max(s) >= y
    BY <1>9, MaxIs
  <2>2. PICK x \in 1 .. N : x = Max(s)
    BY <2>1
  <2>3. s \ {x} \in SUBSET (1 .. (x - 1)) /\ x - 1 \in 0 .. N
    <3>1. \A y \in s \ {x} : y \in 1 .. (x - 1)
      BY <2>1, <2>2
    <3> QED BY <3>1
  <2>4. iter[s \ {x}] \in G[x - 1]
    BY <1>8, <2>3
  <2> QED BY <1>3, <2>2, <2>4
<1>10. Folds(iter, N, base, step)
  <2> DEFINE r(s) == IF s = {} THEN base ELSE step[Max(s)][iter[s \ {Max(s)}]]
             t(s) == IF s = {} THEN base ELSE safe[Max(s)][iter[s \ {Max(s)}]]
  <2>1. iter = [s \in SUBSET (1 .. N) |-> t(s)]
    BY <1>4 DEF Folds
  <2>2. \A s \in SUBSET (1 .. N) : t(s) = r(s)
    BY <1>9
  <2> HIDE DEF r, t
  <2>3. iter = [s \in SUBSET (1 .. N) |-> r(s)]
    BY <2>1, <2>2
  <2> QED BY <2>3 DEF Folds, r
<1> QED BY <1>8, <1>10 DEF StaysIn

\* vma_destroy_context frees what it finds; memory is wild from then on.
LEMMA Destroyed ==
    ASSUME NEW B \in Nat, NEW m \in Memory(Frame, B), m.root \in Frame,
           NEW n, n = vma_destroy_context(m)
    PROVE  n \in Memory(Frame, B) /\ Wild(n)
<1>0. Frame \subseteq Int /\ m.ctx \in Frame
  BY Constants DEF Memory, MemoryRecord
<1>1. PICK l : l = RegionList(m)
  OBVIOUS
<1>2. PICK N \in Nat : N = Len(l) /\ DOMAIN l = 1 .. N /\ \A k \in 1 .. N : l[k] \in Frame
  BY <1>1, ListType
<1> DEFINE V == Memory(Frame, B)
           Is(g) == g = [s \in SUBSET (1 .. N) |->
                            IF s = {} THEN m ELSE pmm_free_page(g[s \ {Max(s)}], l[Max(s)])]
           step == [i \in 1 .. N |-> [v \in V |-> pmm_free_page(v, l[i])]]
           iter == CHOOSE g : Is(g)
<1>3. FoldLeft(pmm_free_page, m, l) = iter[1 .. N]
  BY <1>2 DEF FoldLeft, MapThenFoldSet
<1>4. ASSUME NEW v \in V, NEW i \in 1 .. N PROVE pmm_free_page(v, l[i]) \in V
  <2>1. PICK x \in Frame : x = l[i]
    BY <1>2
  <2> QED BY <1>0, <2>1, Freed
<1>5. m \in V
  OBVIOUS
<1> HIDE DEF V
<1>6. step \in [1 .. N -> [V -> V]]
  BY <1>4
<1>7. PICK g \in [SUBSET (1 .. N) -> V] : Folds(g, N, m, step)
  <2> HIDE DEF step
  <2> QED BY <1>5, <1>6, Folding
<1>8. Is(g)
  <2>1. ASSUME NEW s \in SUBSET (1 .. N), s # {}
        PROVE  step[Max(s)][g[s \ {Max(s)}]] = pmm_free_page(g[s \ {Max(s)}], l[Max(s)])
    <3>1. Max(s) \in 1 .. N
      BY <2>1, MaxIs
    <3>2. g[s \ {Max(s)}] \in V
      OBVIOUS
    <3> QED BY <3>1, <3>2
  <2> QED BY <1>7, <2>1 DEF Folds
<1>9. Is(iter)
  <2> HIDE DEF Is
  <2> QED BY <1>8
<1>10. iter = g
  <2> SUFFICES \A s \in SUBSET (1 .. N) : iter[s] = g[s]
    BY <1>9
  <2> DEFINE S == {n1 \in 0 .. N : \A s \in SUBSET (1 .. n1) : iter[s] = g[s]}
  <2> HIDE DEF iter
  <2>1. 0 \in S
    <3>1. \A s \in SUBSET (1 .. 0) : s = {} /\ s \in SUBSET (1 .. N)
      OBVIOUS
    <3> QED BY <1>8, <1>9, <3>1
  <2>2. ASSUME NEW k \in 1 .. N, k - 1 \in S PROVE k \in S
    <3>1. ASSUME NEW s \in SUBSET (1 .. k) PROVE iter[s] = g[s]
      <4>1. CASE k \notin s
        <5>1. s \in SUBSET (1 .. (k - 1))
          BY <4>1
        <5> QED BY <2>2, <5>1
      <4>2. CASE k \in s
        <5>1. s \ {k} \in SUBSET (1 .. (k - 1)) /\ s \in SUBSET (1 .. N) /\ s # {} /\ k \in Nat
          BY <4>2
        <5>2. Max(s) = k
          BY <4>2, <5>1, MaxTop
        <5>3. iter[s \ {k}] = g[s \ {k}]
          BY <2>2, <5>1
        <5> QED BY <1>8, <1>9, <5>1, <5>2, <5>3
      <4> QED BY <4>1, <4>2
    <3> QED BY <3>1
  <2>3. 0 .. N \subseteq S
    <3> HIDE DEF S
    <3> QED BY <2>1, <2>2, Induction
  <2>4. N \in 0 .. N
    OBVIOUS
  <2> QED BY <2>3, <2>4
<1>11. iter[1 .. N] \in V
  BY <1>10
<1>12. PICK a \in Memory(Frame, B) : a = FoldLeft(pmm_free_page, m, l)
  BY <1>3, <1>11 DEF V
<1>13. PICK b : b = pmm_free_page(a, m.ctx)
  OBVIOUS
<1>14. b \in Memory(Frame, B)
  BY <1>0, <1>12, <1>13, Freed
<1>15. "ctxfreed" \in Events
  BY DEF Events
<1>16. n = Note(b, "ctxfreed")
  BY <1>1, <1>12, <1>13 DEF vma_destroy_context
<1>17. n \in Memory(Frame, B) /\ "ctxfreed" \in n.events
  BY <1>14, <1>15, <1>16, Noted
<1> QED BY <1>17 DEF Wild
================================================================================
