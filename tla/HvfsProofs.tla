------------------------------- MODULE HvfsProofs -------------------------------
(***************************************************************************)
(* Proofs about the file system.  First the vnode tree of Vfs: which       *)
(* pointers there may be, and that then the lists are lists, the tree is a *)
(* tree and lookups agree with it.  Then the mount and the calls of both   *)
(* file layers: added to the links between vnodes are where strtok stands  *)
(* in the headers' names, that a node's size is the length of its data,    *)
(* and what each kind of misuse may have broken.                           *)
(***************************************************************************)
EXTENDS Hvfs, Recursion, FiniteSetTheorems, SequenceTheorems, TLAPS

(***************************************************************************)
(* The invariant of the links between vnodes, without a word on lists:     *)
(* each live node has at most one pointer to it, the root has none.        *)
(***************************************************************************)
Points(x, y) == vnode[x].child = y \/ vnode[x].next = y

Closed ==    \* no pointer to freed memory
    \A x \in live : vnode[x].child \in live \cup {NULL} /\ vnode[x].next \in live \cup {NULL}

Sole ==
    /\ \A x, y, z \in live : Points(x, z) /\ Points(y, z) => x = y
    /\ \A x, z \in live : ~(vnode[x].child = z /\ vnode[x].next = z)
    /\ \A x \in live : ~Points(x, Root)
    /\ Root \in live => vnode[Root].next = NULL

Parents ==
    \A x, y \in live : /\ vnode[x].child = y => vnode[y].parent = x
                       /\ vnode[x].next = y => vnode[y].parent = vnode[x].parent

Ranks(rank) == \A x, y \in live : Points(x, y) => rank[x] < rank[y]

Acyclic == \E rank \in [Node -> Nat] : Ranks(rank)

Links ==
    /\ vnode \in [Node -> Vnode] /\ live \subseteq Node
    /\ live # {} => Root \in live
    /\ Closed /\ Sole /\ Parents /\ Acyclic

\* What a removal of a directory with children breaks: nodes that nothing points to.
Attached == \A n \in live \ {Root} : \E x \in live : Points(x, n)

--------------------------------------------------------------------------------
(* Lists *)

\* The fields that lists and trees are made of.
Fields == \A n \in Node : vnode[n].next \in Pointer /\ vnode[n].child \in Pointer

\* The number of addresses bounds every list.
LEMMA Size == Cardinality(Node) \in Nat /\ Cardinality(Node) \in Steps /\ 0 \in Steps
  BY VfsAssumption, FS_CardinalityType DEF Steps

\* What Siblings satisfies, whatever the pointers are.
LEMMA SiblingsUnfold ==
    ASSUME Fields
    PROVE  /\ Siblings \in [Steps -> [Pointer -> Seq(Node)]]
           /\ \A i \in Steps, p \in Pointer :
                 Siblings[i][p] = IF i = 0 \/ p = NULL THEN << >>
                                  ELSE <<p>> \o Siblings[i - 1][vnode[p].next]
<1> DEFINE V == [Pointer -> Seq(Node)]
           N == Cardinality(Node)
           Row(f) == [p \in Pointer |-> IF p = NULL THEN << >> ELSE <<p>> \o f[vnode[p].next]]
           Rec(f, i) == [p \in Pointer |-> IF i = 0 \/ p = NULL THEN << >>
                                           ELSE <<p>> \o f[i - 1][vnode[p].next]]
           base == [p \in Pointer |-> << >>]
           step == [i \in 1 .. N |-> [f \in V |-> Row(f)]]
<1>0. N \in Nat /\ Steps = 0 .. N
  BY Size DEF Steps
<1>1. base \in V
  OBVIOUS
<1>2. ASSUME NEW f \in V PROVE Row(f) \in V
  <2> SUFFICES ASSUME NEW p \in Pointer, p # NULL PROVE <<p>> \o f[vnode[p].next] \in Seq(Node)
    OBVIOUS
  <2>1. f[vnode[p].next] \in Seq(Node) /\ p \in Node
    BY DEF Fields, Pointer
  <2> QED BY <2>1
<1>3. step \in [1 .. N -> [V -> V]]
  BY <1>2
<1>4. PICK f \in [0 .. N -> V] : Iterates(f, N, base, step)
  <2> HIDE DEF V, N, base, step
  <2> QED BY <1>0, <1>1, <1>3, Iteration
<1>5. ASSUME NEW i \in Steps PROVE f[i] = Rec(f, i)
  <2>1. CASE i = 0
    BY <1>4, <2>1 DEF Iterates
  <2>2. CASE i # 0
    <3>1. i \in 1 .. N /\ f[i - 1] \in V
      BY <1>0, <2>2
    <3>2. f[i] = Row(f[i - 1])
      BY <1>4, <3>1 DEF Iterates
    <3> QED BY <3>2, <2>2
  <2> QED BY <2>1, <2>2
<1>6. f = [i \in Steps |-> Rec(f, i)]
  <2> HIDE DEF Rec, V
  <2> QED BY <1>0, <1>5
<1>7. Siblings = [i \in Steps |-> Rec(Siblings, i)]
  BY <1>6 DEF Siblings
<1>8. \A i \in Steps : Siblings[i] = Rec(Siblings, i)
  <2> HIDE DEF Rec
  <2> QED BY <1>7
<1>9. ASSUME NEW i \in 1 .. N PROVE Siblings[i] = Row(Siblings[i - 1])
  <2>1. i \in Steps /\ i # 0
    BY <1>0
  <2>2. Rec(Siblings, i) = Row(Siblings[i - 1])
    BY <2>1
  <2> HIDE DEF Rec, Row
  <2> QED BY <1>8, <2>1, <2>2
<1>10. \A i \in Steps : Siblings[i] \in V
  <2> DEFINE S == {i \in Steps : Siblings[i] \in V}
  <2>1. 0 \in S
    <3>1. Rec(Siblings, 0) = base
      OBVIOUS
    <3> HIDE DEF Rec, base, V
    <3> QED BY <1>0, <1>1, <1>8, <3>1
  <2>2. \A i \in 1 .. N : i - 1 \in S => i \in S
    <3> HIDE DEF V, Row
    <3> QED BY <1>0, <1>2, <1>9
  <2>3. 0 .. N \subseteq S
    <3> HIDE DEF S, N
    <3> QED BY <1>0, <2>1, <2>2, Induction
  <2> QED BY <2>3, <1>0
<1> HIDE DEF N
<1>11. Siblings \in [Steps -> V]
  <2> HIDE DEF V, Rec
  <2> QED BY <1>7, <1>10
<1> QED BY <1>8, <1>11

\* The invariant types the pointers.
LEMMA LinksFields == Links => Fields
  BY DEF Links, Fields, Vnode

\* s is the list from p on, at most i nodes of it.
Chain(s, p, i) ==
    /\ s \in Seq(live) /\ Len(s) <= i
    /\ p = NULL => s = << >>
    /\ i > 0 /\ p # NULL => Len(s) > 0 /\ s[1] = p
    /\ \A k \in 1 .. Len(s) - 1 : vnode[s[k]].next = s[k + 1]
    /\ 0 < Len(s) /\ Len(s) < i => vnode[s[Len(s)]].next = NULL

\* Following next from any live node gives a chain of live nodes.
LEMMA SiblingsChain ==
    ASSUME Links
    PROVE  \A i \in Steps, p \in live \cup {NULL} : Chain(Siblings[i][p], p, i)
<1> DEFINE S == {i \in Steps : \A p \in live \cup {NULL} : Chain(Siblings[i][p], p, i)}
           N == Cardinality(Node)
<1>0. N \in Nat /\ Steps = 0 .. N
  BY Size DEF Steps
<1>1. /\ Siblings \in [Steps -> [Pointer -> Seq(Node)]]
      /\ \A i \in Steps, p \in Pointer :
            Siblings[i][p] = IF i = 0 \/ p = NULL THEN << >>
                             ELSE <<p>> \o Siblings[i - 1][vnode[p].next]
  BY LinksFields, SiblingsUnfold
<1>2. live \subseteq Node /\ NULL \notin live /\ live \cup {NULL} \subseteq Pointer
  BY VfsAssumption DEF Links, Pointer
<1>3. \A i \in Steps : Chain(<< >>, NULL, i)
  BY <1>0 DEF Chain
<1>4. \A p \in live \cup {NULL} : Chain(<< >>, p, 0)
  BY DEF Chain
<1>5. 0 \in S
  <2>1. ASSUME NEW p \in live \cup {NULL} PROVE Siblings[0][p] = << >>
    <3>1. 0 \in Steps /\ p \in Pointer
      BY <1>0, <1>2
    <3>2. Siblings[0][p] = IF 0 = 0 \/ p = NULL THEN << >>
                           ELSE <<p>> \o Siblings[0 - 1][vnode[p].next]
      BY <1>1, <3>1, Zenon
    <3> QED BY <3>2
  <2> QED BY <1>0, <1>4, <2>1
<1>6. ASSUME NEW i \in 1 .. N, i - 1 \in S PROVE i \in S
  <2>0. i \in Steps /\ i - 1 \in Steps /\ i # 0
    BY <1>0
  <2> SUFFICES ASSUME NEW p \in live \cup {NULL} PROVE Chain(Siblings[i][p], p, i)
    BY <2>0
  <2>1. CASE p = NULL
    BY <1>1, <1>2, <1>3, <2>0, <2>1
  <2>2. CASE p \in live
    <3> DEFINE q == vnode[p].next
               t == Siblings[i - 1][q]
               s == <<p>> \o t
    <3>1. q \in live \cup {NULL} /\ Siblings[i][p] = s
      BY <1>1, <1>2, <2>0, <2>2 DEF Links, Closed
    <3>2. Chain(t, q, i - 1)
      BY <1>6, <3>1
    <3>3. Siblings[i - 1][q] \in Seq(live)
      BY <3>2 DEF Chain
    <3> HIDE DEF t
    <3>4. t \in Seq(live) /\ Len(t) \in Nat
      BY <3>3 DEF t
    <3>5. s \in Seq(live) /\ Len(s) = Len(t) + 1 /\ s[1] = p
      BY <3>4, <2>2
    <3>6. \A k \in 1 .. Len(t) : s[k + 1] = t[k]
      BY <3>4, <2>2
    <3> HIDE DEF s, q
    <3>7. ASSUME NEW k \in 1 .. Len(s) - 1 PROVE vnode[s[k]].next = s[k + 1]
      <4>1. CASE k = 1
        <5>1. Len(t) > 0 /\ i - 1 > 0 /\ q # NULL /\ t[1] = q
          BY <3>2, <3>4, <3>5, <2>0, <4>1 DEF Chain
        <5> QED BY <5>1, <3>4, <3>5, <3>6, <4>1 DEF q
      <4>2. CASE k # 1
        <5>1. k - 1 \in 1 .. Len(t) - 1 /\ k \in 1 .. Len(t)
          BY <3>4, <3>5, <4>2
        <5>2. s[k] = t[k - 1] /\ s[k + 1] = t[k]
          BY <5>1, <3>4, <3>6
        <5> QED BY <5>1, <5>2, <3>2 DEF Chain
      <4> QED BY <4>1, <4>2
    <3>8. ASSUME Len(s) < i PROVE vnode[s[Len(s)]].next = NULL
      <4>1. CASE Len(t) = 0
        <5>1. q = NULL
          BY <3>2, <3>4, <3>5, <3>8, <4>1, <2>0 DEF Chain
        <5> QED BY <5>1, <3>5, <4>1 DEF q
      <4>2. CASE Len(t) # 0
        <5>1. vnode[t[Len(t)]].next = NULL
          BY <3>2, <3>4, <3>5, <3>8, <4>2, <2>0 DEF Chain
        <5> QED BY <5>1, <3>4, <3>5, <3>6, <4>2
      <4> QED BY <4>1, <4>2
    <3>9. Len(s) <= i
      BY <3>2, <3>4, <3>5 DEF Chain
    <3>10. Chain(s, p, i)
      BY <3>4, <3>5, <3>7, <3>8, <3>9, <1>2, <2>2 DEF Chain
    <3> QED BY <3>1, <3>10
  <2> QED BY <2>1, <2>2
<1>7. 0 .. N \subseteq S
  <2> HIDE DEF S, N
  <2> QED BY <1>0, <1>5, <1>6, Induction
<1> QED BY <1>0, <1>7

\* k is the list of the children of d.
ListOf(k, d) ==
    /\ k \in Seq(live \ {Root})
    /\ k = << >> <=> vnode[d].child = NULL
    /\ k # << >> => k[1] = vnode[d].child /\ vnode[k[Len(k)]].next = NULL
    /\ \A i \in 1 .. Len(k) - 1 : vnode[k[i]].next = k[i + 1]
    /\ \A i \in 1 .. Len(k) : vnode[k[i]].parent = d
    /\ \A i, j \in 1 .. Len(k) : k[i] = k[j] => i = j
    /\ Len(k) < Cardinality(Node)

\* The children of a node are a list: finite, without repetitions, all with that parent.
\* Along the list the rank grows, so no node comes twice and it ends before the bound.
LEMMA KidsList ==
    ASSUME Links, NEW d \in live
    PROVE  ListOf(Kids(d), d)
<1> DEFINE N == Cardinality(Node)
           k == Kids(d)
           p == vnode[d].child
<1>0. N \in Nat /\ Steps = 0 .. N /\ N # 0
  BY Size, VfsAssumption, FS_EmptySet DEF Steps
<1>1. live \subseteq Node /\ NULL \notin live /\ Root \in live
  BY VfsAssumption DEF Links
<1>2. p \in live \cup {NULL}
  BY DEF Links, Closed
<1>3. Chain(k, p, N)
  BY <1>0, <1>2, SiblingsChain DEF Kids
<1> HIDE DEF k, N
<1>4. k \in Seq(live) /\ Len(k) \in Nat
  BY <1>3 DEF Chain
<1>5. k = << >> <=> p = NULL
  BY <1>0, <1>3, <1>4 DEF Chain
<1>6. \A i \in 1 .. Len(k) - 1 : vnode[k[i]].next = k[i + 1]
  BY <1>3 DEF Chain
<1>7. k # << >> => k[1] = p
  BY <1>0, <1>3, <1>4, <1>5 DEF Chain
<1>8. ASSUME NEW i \in 1 .. Len(k) PROVE k[i] \in live
  BY <1>4
<1>9. PICK rank \in [Node -> Nat] : Ranks(rank)
  BY DEF Links, Acyclic
<1>10. \A i, j \in 1 .. Len(k) : i < j => rank[k[i]] < rank[k[j]]
  <2> DEFINE S == {j \in 0 .. Len(k) : \A i \in 1 .. j - 1 : rank[k[i]] < rank[k[j]]}
  <2>1. 0 \in S
    BY <1>4
  <2>2. ASSUME NEW j \in 1 .. Len(k), j - 1 \in S PROVE j \in S
    <3> SUFFICES ASSUME NEW i \in 1 .. j - 1 PROVE rank[k[i]] < rank[k[j]]
      BY <1>4
    <3>1. j - 1 \in 1 .. Len(k) - 1 /\ i \in 1 .. Len(k) /\ j - 1 \in 1 .. Len(k)
      BY <1>4
    <3>2. Points(k[j - 1], k[j])
      BY <1>6, <3>1, <1>4 DEF Points
    <3>3. k[i] \in live /\ k[j - 1] \in live /\ k[j] \in live
      BY <1>8, <3>1
    <3>4. rank[k[j - 1]] < rank[k[j]]
      BY <1>9, <3>2, <3>3 DEF Ranks
    <3>5. rank[k[i]] \in Nat /\ rank[k[j - 1]] \in Nat /\ rank[k[j]] \in Nat
      BY <1>1, <3>3
    <3>6. CASE i = j - 1
      BY <3>4, <3>6
    <3>7. CASE i # j - 1
      <4>1. i \in 1 .. (j - 1) - 1
        BY <3>7
      <4>2. rank[k[i]] < rank[k[j - 1]]
        BY <2>2, <4>1
      <4> QED BY <4>2, <3>4, <3>5
    <3> QED BY <3>6, <3>7
  <2>3. 0 .. Len(k) \subseteq S
    <3> HIDE DEF S
    <3> QED BY <1>4, <2>1, <2>2, Induction
  <2> QED BY <2>3, <1>4
<1>11. \A i, j \in 1 .. Len(k) : k[i] = k[j] => i = j
  <2> SUFFICES ASSUME NEW i \in 1 .. Len(k), NEW j \in 1 .. Len(k), i < j
               PROVE  k[i] # k[j]
    BY <1>4
  <2>1. rank[k[i]] \in Nat /\ rank[k[i]] < rank[k[j]]
    BY <1>1, <1>8, <1>10
  <2> QED BY <2>1
<1>12. \A i \in 1 .. Len(k) : k[i] # Root /\ vnode[k[i]].parent = d
  <2> DEFINE S == {i \in 0 .. Len(k) : i # 0 => k[i] # Root /\ vnode[k[i]].parent = d}
  <2>1. 0 \in S
    BY <1>4
  <2>2. ASSUME NEW i \in 1 .. Len(k), i - 1 \in S PROVE i \in S
    <3>1. CASE i = 1
      <4>1. vnode[d].child = k[1] /\ k[1] \in live
        BY <1>4, <1>7, <1>8, <3>1
      <4>2. k[1] # Root /\ vnode[k[1]].parent = d
        BY <4>1, <1>1 DEF Links, Sole, Parents, Points
      <4> QED BY <4>2, <3>1, <1>4
    <3>2. CASE i # 1
      <4>1. i - 1 \in 1 .. Len(k) - 1 /\ i - 1 \in 1 .. Len(k)
        BY <3>2, <1>4
      <4>2. vnode[k[i - 1]].next = k[i] /\ k[i - 1] \in live /\ k[i] \in live
        BY <4>1, <1>6, <1>8, <1>4
      <4>3. vnode[k[i - 1]].parent = d
        BY <2>2, <4>1
      <4>4. k[i] # Root /\ vnode[k[i]].parent = d
        BY <4>2, <4>3, <1>1 DEF Links, Sole, Parents, Points
      <4> QED BY <4>4, <1>4
    <3> QED BY <3>1, <3>2
  <2>3. 0 .. Len(k) \subseteq S
    <3> HIDE DEF S
    <3> QED BY <1>4, <2>1, <2>2, Induction
  <2> QED BY <2>3, <1>4
<1>13. Len(k) < N
  <2> SUFFICES ASSUME N <= Len(k) PROVE FALSE
    BY <1>0, <1>4
  <2>1. IsFiniteSet(1 .. Len(k)) /\ Cardinality(1 .. Len(k)) = Len(k)
    <3>1. 1 \in Int /\ Len(k) \in Int
      BY <1>4
    <3>2. Cardinality(1 .. Len(k)) = IF 1 > Len(k) THEN 0 ELSE Len(k) - 1 + 1
      BY <3>1, FS_Interval
    <3>3. IsFiniteSet(1 .. Len(k))
      BY <3>1, FS_Interval
    <3> QED BY <1>4, <3>2, <3>3
  <2>2. IsFiniteSet(Node \ {Root}) /\ Cardinality(Node \ {Root}) = N - 1
    BY VfsAssumption, FS_RemoveElement DEF N
  <2>3. k \in [1 .. Len(k) -> Node \ {Root}]
    BY <1>1, <1>4, <1>8, <1>12
  <2>4. Cardinality(Node \ {Root}) < Cardinality(1 .. Len(k))
    BY <1>0, <1>4, <2>1, <2>2
  <2>5. \E x, y \in 1 .. Len(k) : x # y /\ k[x] = k[y]
    <3> HIDE DEF N
    <3> QED BY <2>1, <2>2, <2>3, <2>4, FS_PigeonHole, Zenon
  <2> QED BY <2>5, <1>11
<1>14. k # << >> => vnode[k[Len(k)]].next = NULL
  BY <1>3, <1>4, <1>13, <1>0 DEF Chain
<1>15. k \in Seq(live \ {Root})
  BY <1>4, <1>12
<1> QED BY <1>5, <1>6, <1>7, <1>11, <1>12, <1>13, <1>14, <1>15 DEF ListOf, k, N

--------------------------------------------------------------------------------
(* Creation and removal keep the links *)

\* vfs_create adds a leaf at the end of its parent's list: every other node keeps its
\* place, and a rank for the new node is one more than that of the node before it.
LEMMA CreatedLinks ==
    ASSUME Links, NEW parent \in live, NEW n, NEW new \in Vnode,
           new.parent = parent, new.next = NULL, new.child = NULL,
           vfs_create(parent, n, new)
    PROVE  /\ Links' /\ live' = live \cup {n} /\ n \in Node \ live
           /\ Attached => Attached'
           /\ \A m \in Node \ {n} : /\ vnode'[m].name = vnode[m].name
                                     /\ vnode'[m].type = vnode[m].type
                                     /\ vnode'[m].size = vnode[m].size
                                     /\ vnode'[m].uid = vnode[m].uid
                                     /\ vnode'[m].bytes = vnode[m].bytes
           /\ vnode'[n] = new
           /\ \A x \in live :
                 LET tail == Last(Kids(parent))
                     none == vnode[parent].child = NULL
                 IN  /\ vnode'[x].parent = vnode[x].parent
                     /\ vnode'[x].child = IF none /\ x = parent THEN n ELSE vnode[x].child
                     /\ vnode'[x].next = IF ~none /\ x = tail THEN n ELSE vnode[x].next
<1> DEFINE first == vnode[parent].child = NULL
           a == IF first THEN parent ELSE Last(Kids(parent))
<1>1. live \subseteq Node /\ NULL \notin Node /\ Root \in live /\ vnode \in [Node -> Vnode]
  BY VfsAssumption DEF Links
<1>2. n \in Node /\ n \notin live /\ live' = live \cup {n} /\ vnode' = Created(parent, n, new)
  BY DEF vfs_create
<1>3. a \in live /\ (IF first THEN vnode[a].child ELSE vnode[a].next) = NULL
      /\ (~first => vnode[a].parent = parent /\ a # Root)
  <2>1. CASE first
    BY <2>1
  <2>2. CASE ~first
    <3> DEFINE k == Kids(parent)
    <3>1. ListOf(k, parent)
      BY KidsList
    <3> HIDE DEF k
    <3>2. k \in Seq(live \ {Root}) /\ k # << >>
      BY <3>1, <2>2 DEF ListOf
    <3>3. Len(k) \in 1 .. Len(k) /\ k[Len(k)] \in live /\ k[Len(k)] # Root
      BY <3>2
    <3>4. vnode[k[Len(k)]].next = NULL /\ vnode[k[Len(k)]].parent = parent
      BY <3>1, <3>2, <3>3 DEF ListOf
    <3>5. a = k[Len(k)]
      BY <2>2 DEF k, Last
    <3> QED BY <3>3, <3>4, <3>5, <2>2
  <2> QED BY <2>1, <2>2
<1>4. vnode' = IF first THEN [vnode EXCEPT ![n] = new, ![a].child = n]
               ELSE [vnode EXCEPT ![n] = new, ![a].next = n]
  BY <1>2 DEF Created
<1> HIDE DEF a, first
<1>5. /\ vnode' \in [Node -> Vnode]
      /\ vnode'[n] = new
      /\ \A x \in live :
            /\ vnode'[x].parent = vnode[x].parent
            /\ vnode'[x].child = IF first /\ x = a THEN n ELSE vnode[x].child
            /\ vnode'[x].next = IF ~first /\ x = a THEN n ELSE vnode[x].next
  <2>1. n # a /\ a \in Node /\ vnode[a] \in Vnode /\ n \in Pointer
    BY <1>1, <1>2, <1>3 DEF Pointer
  <2>2. CASE first
    <3>1. vnode' = [vnode EXCEPT ![n] = new, ![a].child = n]
      BY <1>4, <2>2
    <3>2. vnode'[a] = [vnode[a] EXCEPT !.child = n] /\ vnode'[n] = new
          /\ \A x \in Node \ {a, n} : vnode'[x] = vnode[x]
      BY <1>1, <1>2, <2>1, <3>1
    <3>3. [vnode[a] EXCEPT !.child = n] \in Vnode
      BY <2>1 DEF Vnode
    <3>4. vnode' \in [Node -> Vnode]
      BY <1>1, <1>2, <2>1, <3>1, <3>3
    <3>5. [vnode[a] EXCEPT !.child = n].parent = vnode[a].parent
          /\ [vnode[a] EXCEPT !.child = n].next = vnode[a].next
          /\ [vnode[a] EXCEPT !.child = n].child = n
      BY <2>1 DEF Vnode
    <3> QED BY <1>1, <1>2, <2>1, <2>2, <3>2, <3>4, <3>5
  <2>3. CASE ~first
    <3>1. vnode' = [vnode EXCEPT ![n] = new, ![a].next = n]
      BY <1>4, <2>3
    <3>2. vnode'[a] = [vnode[a] EXCEPT !.next = n] /\ vnode'[n] = new
          /\ \A x \in Node \ {a, n} : vnode'[x] = vnode[x]
      BY <1>1, <1>2, <2>1, <3>1
    <3>3. [vnode[a] EXCEPT !.next = n] \in Vnode
      BY <2>1 DEF Vnode
    <3>4. vnode' \in [Node -> Vnode]
      BY <1>1, <1>2, <2>1, <3>1, <3>3
    <3>5. [vnode[a] EXCEPT !.next = n].parent = vnode[a].parent
          /\ [vnode[a] EXCEPT !.next = n].child = vnode[a].child
          /\ [vnode[a] EXCEPT !.next = n].next = n
      BY <2>1 DEF Vnode
    <3> QED BY <1>1, <1>2, <2>1, <2>3, <3>2, <3>4, <3>5
  <2> QED BY <2>2, <2>3
<1>6. /\ \A x \in live : vnode[x].child \in live \cup {NULL} /\ vnode[x].next \in live \cup {NULL}
      /\ NULL \notin live /\ n # NULL
  BY <1>1, <1>2 DEF Links, Closed
<1>7. /\ \A x, y \in live : /\ vnode'[x].child = y <=> vnode[x].child = y
                            /\ vnode'[x].next = y <=> vnode[x].next = y
      /\ \A x \in live : /\ vnode'[x].child = n <=> first /\ x = a
                         /\ vnode'[x].next = n <=> ~first /\ x = a
  BY <1>2, <1>3, <1>5, <1>6
<1>8. /\ \A x, y \in live : Points(x, y)' <=> Points(x, y)
      /\ \A x \in live : Points(x, n)' <=> x = a
      /\ \A y \in live' : ~Points(n, y)'
  BY <1>2, <1>5, <1>6, <1>7 DEF Points
<1>9. Closed'
  BY <1>2, <1>5, <1>6 DEF Closed
<1>10. Sole'
  <2>1. \A x, y, z \in live' : Points(x, z)' /\ Points(y, z)' => x = y
    BY <1>2, <1>8 DEF Links, Sole
  <2>2. \A x, z \in live' : ~(vnode'[x].child = z /\ vnode'[x].next = z)
    BY <1>2, <1>5, <1>6, <1>7 DEF Links, Sole
  <2>3. \A x \in live' : ~Points(x, Root)'
    BY <1>1, <1>2, <1>8 DEF Links, Sole
  <2>4. vnode'[Root].next = NULL
    BY <1>1, <1>3, <1>5 DEF Links, Sole
  <2> QED BY <2>1, <2>2, <2>3, <2>4 DEF Sole
<1>11. Parents'
  <2> SUFFICES ASSUME NEW x \in live', NEW y \in live'
               PROVE  /\ vnode'[x].child = y => vnode'[y].parent = x
                      /\ vnode'[x].next = y => vnode'[y].parent = vnode'[x].parent
    BY DEF Parents
  <2>1. CASE x \in live /\ y \in live
    BY <2>1, <1>5, <1>7 DEF Links, Parents
  <2>2. CASE x \in live /\ y = n
    BY <2>2, <1>3, <1>5, <1>7 DEF a
  <2>3. CASE x = n
    BY <2>3, <1>2, <1>5, <1>6
  <2> QED BY <1>2, <2>1, <2>2, <2>3
<1>12. Acyclic'
  <2>1. PICK rank \in [Node -> Nat] : Ranks(rank)
    BY DEF Links, Acyclic
  <2>2. PICK r \in [Node -> Nat] :
           r[n] = rank[a] + 1 /\ rank[a] \in Nat /\ \A x \in live : r[x] = rank[x]
    <3> DEFINE r == [rank EXCEPT ![n] = rank[a] + 1]
    <3>1. r \in [Node -> Nat] /\ r[n] = rank[a] + 1 /\ rank[a] \in Nat
          /\ \A x \in live : r[x] = rank[x]
      BY <1>1, <1>2, <1>3
    <3> HIDE DEF r
    <3> QED BY <3>1
  <2>3. \A x, y \in live' : Points(x, y)' => r[x] < r[y]
    BY <1>2, <1>3, <1>8, <2>1, <2>2 DEF Ranks
  <2>4. Ranks(r)'
    BY <2>3 DEF Ranks
  <2> QED BY <2>2, <2>4 DEF Acyclic
<1>13. Attached => Attached'
  <2> SUFFICES ASSUME Attached, NEW m \in live' \ {Root}
               PROVE  \E x \in live' : Points(x, m)'
    BY DEF Attached
  <2>1. CASE m = n
    BY <2>1, <1>2, <1>3, <1>8
  <2>2. CASE m \in live
    BY <2>2, <1>2, <1>8 DEF Attached
  <2> QED BY <1>2, <2>1, <2>2
<1>14. live' \subseteq Node /\ Root \in live'
  BY <1>1, <1>2
<1>15. ASSUME NEW m \in Node \ {n}
       PROVE  /\ vnode'[m].name = vnode[m].name
              /\ vnode'[m].type = vnode[m].type
              /\ vnode'[m].size = vnode[m].size
              /\ vnode'[m].uid = vnode[m].uid
              /\ vnode'[m].bytes = vnode[m].bytes
  <2>1. vnode[m] \in Vnode /\ a \in Node
    BY <1>1, <1>3
  <2>2. vnode'[m] = IF m # a THEN vnode[m]
                    ELSE IF first THEN [vnode[m] EXCEPT !.child = n]
                    ELSE [vnode[m] EXCEPT !.next = n]
    BY <1>1, <1>2, <1>4, <2>1
  <2> QED BY <2>1, <2>2 DEF Vnode
<1>16. \A x \in live :
          /\ vnode'[x].parent = vnode[x].parent
          /\ vnode'[x].child = IF first /\ x = parent THEN n ELSE vnode[x].child
          /\ vnode'[x].next = IF ~first /\ x = Last(Kids(parent)) THEN n ELSE vnode[x].next
  BY <1>5 DEF a
<1> QED BY <1>2, <1>5, <1>9, <1>10, <1>11, <1>12, <1>13, <1>14, <1>15, <1>16 DEF Links, first

\* vfs_remove takes a node out of the list it is in; what pointed to it points to its
\* successor.  Only its own children lose the pointer to them.
LEMMA RemovedLinks ==
    ASSUME Links, NEW parent \in live, NEW n \in ToSet(Kids(parent)), vfs_remove(parent, n)
    PROVE  /\ Links' /\ live' = live \ {n} /\ n \in live \ {Root}
           /\ Attached /\ Kids(n) = << >> => Attached'
           /\ \A m \in Node \ {n} : /\ vnode'[m].name = vnode[m].name
                                     /\ vnode'[m].type = vnode[m].type
                                     /\ vnode'[m].size = vnode[m].size
                                     /\ vnode'[m].uid = vnode[m].uid
                                     /\ vnode'[m].bytes = vnode[m].bytes
           /\ vnode'[n] = Freed
           /\ \E i \in 1 .. Len(Kids(parent)) :
                 /\ Kids(parent)[i] = n
                 /\ \A x \in live' :
                      /\ vnode'[x].parent = vnode[x].parent
                      /\ vnode'[x].child = IF i = 1 /\ x = parent THEN vnode[n].next
                                           ELSE vnode[x].child
                      /\ vnode'[x].next = IF i # 1 /\ x = Kids(parent)[i - 1] THEN vnode[n].next
                                          ELSE vnode[x].next
<1> DEFINE k == Kids(parent)
           i == CHOOSE j \in DOMAIN k : k[j] = n
           first == i = 1
           a == IF first THEN parent ELSE k[i - 1]
<1>0. PICK q : q = vnode[n].next
  OBVIOUS
<1>1. live \subseteq Node /\ NULL \notin Node /\ Root \in live /\ vnode \in [Node -> Vnode]
  BY VfsAssumption DEF Links
<1>2. ListOf(k, parent)
  BY KidsList
<1>3. vnode' = Unlinked(parent, n) /\ live' = live \ {n}
  BY DEF vfs_remove
<1>4. vnode' = IF first THEN [vnode EXCEPT ![n] = Freed, ![a].child = q]
               ELSE [vnode EXCEPT ![n] = Freed, ![a].next = q]
  <2>1. CASE first
    BY <1>0, <1>3, <2>1 DEF Unlinked
  <2>2. CASE ~first
    BY <1>0, <1>3, <2>2 DEF Unlinked
  <2> QED BY <2>1, <2>2
<1>5. n \in ToSet(k)
  OBVIOUS
<1> HIDE DEF k
<1>6. k \in Seq(live \ {Root}) /\ i \in 1 .. Len(k) /\ k[i] = n
  BY <1>2, <1>5 DEF ListOf, ToSet
<1> HIDE DEF i
<1>7. PICK rank \in [Node -> Nat] : Ranks(rank)
  BY DEF Links, Acyclic
<1>8. n \in live \ {Root} /\ vnode[n].parent = parent
  BY <1>2, <1>6 DEF ListOf
<1>9. a \in live /\ (IF first THEN vnode[a].child ELSE vnode[a].next) = n
      /\ (~first => vnode[a].parent = parent /\ a # Root)
  <2>1. CASE first
    BY <1>2, <1>6, <2>1 DEF ListOf
  <2>2. CASE ~first
    <3>1. i - 1 \in 1 .. Len(k) - 1 /\ i - 1 \in 1 .. Len(k)
      BY <1>6, <2>2
    <3>2. vnode[k[i - 1]].next = n /\ vnode[k[i - 1]].parent = parent /\ k[i - 1] \in live \ {Root}
      BY <1>2, <1>6, <3>1 DEF ListOf
    <3> QED BY <3>2, <2>2
  <2> QED BY <2>1, <2>2
<1> HIDE DEF first, a
<1>10. \A x, y \in live : Points(x, y) => x # y /\ rank[x] < rank[y]
  BY <1>1, <1>7 DEF Ranks
<1>11. a # n /\ Points(a, n)
  BY <1>8, <1>9, <1>10 DEF Points
<1>12. q \in (live \ {n, a, Root}) \cup {NULL} /\ (q # NULL => Points(n, q) /\ rank[a] < rank[q])
  <2>1. q \in live \cup {NULL}
    BY <1>0, <1>8 DEF Links, Closed
  <2>2. ASSUME q # NULL PROVE Points(n, q) /\ q # n /\ q # Root /\ rank[a] < rank[q] /\ q # a
    <3>1. Points(n, q) /\ q \in live
      BY <1>0, <2>1, <2>2 DEF Points
    <3>2. q # n /\ q # Root /\ rank[n] < rank[q] /\ rank[a] < rank[n]
      BY <3>1, <1>8, <1>9, <1>10, <1>11 DEF Links, Sole
    <3>3. rank[a] \in Nat /\ rank[n] \in Nat /\ rank[q] \in Nat
      BY <1>1, <1>8, <1>9, <3>1
    <3> QED BY <3>1, <3>2, <3>3
  <2> QED BY <2>1, <2>2
<1>13. Freed \in Vnode
  BY DEF Freed, Fresh, Vnode, Pointer, VNODE_FILE
<1>14. a \in Node /\ n \in Node /\ vnode[a] \in Vnode /\ q \in Pointer
  BY <1>1, <1>8, <1>9, <1>12 DEF Pointer
<1>15. \A m \in Node \ {a, n} : vnode'[m] = vnode[m]
  <2>1. CASE first
    BY <1>1, <1>4, <2>1
  <2>2. CASE ~first
    BY <1>1, <1>4, <2>2
  <2> QED BY <2>1, <2>2
<1>16. /\ vnode'[n] = Freed
       /\ vnode'[a] = IF first THEN [vnode[a] EXCEPT !.child = q] ELSE [vnode[a] EXCEPT !.next = q]
       /\ DOMAIN vnode' = Node /\ vnode' = [m \in Node |-> vnode'[m]]
  <2>1. CASE first
    BY <1>1, <1>4, <1>11, <1>14, <2>1
  <2>2. CASE ~first
    <3>1. vnode' = [vnode EXCEPT ![n] = Freed, ![a].next = q]
      BY <1>4, <2>2
    <3>2. vnode'[n] = Freed /\ vnode'[a] = [vnode[a] EXCEPT !.next = q]
      BY <1>1, <1>11, <1>14, <3>1
    <3>3. DOMAIN vnode' = Node /\ vnode' = [m \in Node |-> vnode'[m]]
      BY <1>1, <1>14, <3>1
    <3> QED BY <2>2, <3>2, <3>3
  <2> QED BY <2>1, <2>2
<1>17. /\ [vnode[a] EXCEPT !.child = q] \in Vnode
       /\ [vnode[a] EXCEPT !.next = q] \in Vnode
  BY <1>14 DEF Vnode
<1>18. \A w \in {"parent", "name", "type", "size", "uid", "bytes"} : vnode'[a][w] = vnode[a][w]
  <2>1. CASE first
    BY <1>14, <1>16, <2>1 DEF Vnode
  <2>2. CASE ~first
    BY <1>14, <1>16, <2>2 DEF Vnode
  <2> QED BY <2>1, <2>2
<1>19. /\ vnode'[a].child = IF first THEN q ELSE vnode[a].child
       /\ vnode'[a].next = IF ~first THEN q ELSE vnode[a].next
  <2>1. CASE first
    BY <1>14, <1>16, <2>1 DEF Vnode
  <2>2. CASE ~first
    BY <1>14, <1>16, <2>2 DEF Vnode
  <2> QED BY <2>1, <2>2
<1>20. vnode' \in [Node -> Vnode]
  BY <1>1, <1>13, <1>14, <1>15, <1>16, <1>17
<1>21. \A x \in live' : /\ vnode'[x].parent = vnode[x].parent
                        /\ vnode'[x].child = IF first /\ x = a THEN q ELSE vnode[x].child
                        /\ vnode'[x].next = IF ~first /\ x = a THEN q ELSE vnode[x].next
  BY <1>1, <1>3, <1>15, <1>18, <1>19
<1>22. /\ \A x \in live : vnode[x].child = n <=> first /\ x = a
       /\ \A x \in live : vnode[x].next = n <=> ~first /\ x = a
  <2>1. \A x \in live : Points(x, n) => x = a
    BY <1>8, <1>9, <1>11 DEF Links, Sole
  <2>2. ~(vnode[a].child = n /\ vnode[a].next = n)
    BY <1>8, <1>9 DEF Links, Sole
  <2> QED BY <1>9, <2>1, <2>2 DEF Points
<1>23. \A x \in live' : q # NULL => ~Points(x, q)
  BY <1>3, <1>8, <1>12 DEF Links, Sole
<1>24. /\ \A x, y \in live' : y # q => /\ vnode'[x].child = y <=> vnode[x].child = y
                                       /\ vnode'[x].next = y <=> vnode[x].next = y
       /\ q # NULL => \A x \in live' : /\ vnode'[x].child = q <=> first /\ x = a
                                       /\ vnode'[x].next = q <=> ~first /\ x = a
  BY <1>3, <1>9, <1>21, <1>22, <1>23 DEF Points
<1>25. /\ \A x, y \in live' : y # q => (Points(x, y)' <=> Points(x, y))
       /\ q # NULL => \A x \in live' : Points(x, q)' <=> x = a
  BY <1>24 DEF Points
<1>26. Closed'
  <2> SUFFICES ASSUME NEW x \in live'
               PROVE  vnode'[x].child \in live' \cup {NULL} /\ vnode'[x].next \in live' \cup {NULL}
    BY DEF Closed
  <2>1. vnode[x].child \in live \cup {NULL} /\ vnode[x].next \in live \cup {NULL}
    BY <1>3 DEF Links, Closed
  <2> QED BY <2>1, <1>3, <1>12, <1>21, <1>22
<1>27. Sole'
  <2>1. \A x, y, z \in live' : Points(x, z)' /\ Points(y, z)' => x = y
    BY <1>1, <1>3, <1>25 DEF Links, Sole
  <2>2. \A x, z \in live' : ~(vnode'[x].child = z /\ vnode'[x].next = z)
    BY <1>1, <1>3, <1>24 DEF Links, Sole
  <2>3. \A x \in live' : ~Points(x, Root)'
    BY <1>1, <1>3, <1>8, <1>12, <1>25 DEF Links, Sole
  <2>4. Root \in live' /\ vnode'[Root].next = NULL
    BY <1>1, <1>3, <1>8, <1>9, <1>21 DEF Links, Sole
  <2> QED BY <2>1, <2>2, <2>3, <2>4 DEF Sole
<1>28. Parents'
  <2> SUFFICES ASSUME NEW x \in live', NEW y \in live'
               PROVE  /\ vnode'[x].child = y => vnode'[y].parent = x
                      /\ vnode'[x].next = y => vnode'[y].parent = vnode'[x].parent
    BY DEF Parents
  <2>1. CASE y # q
    BY <2>1, <1>3, <1>21, <1>24 DEF Links, Parents
  <2>2. CASE y = q
    <3>1. vnode[q].parent = vnode[n].parent /\ q # NULL
      BY <2>2, <1>0, <1>1, <1>3, <1>8 DEF Links, Parents
    <3> QED BY <2>2, <3>1, <1>3, <1>8, <1>9, <1>21, <1>24 DEF a
  <2> QED BY <2>1, <2>2
<1>29. Acyclic'
  <2>1. \A x, y \in live' : Points(x, y)' => rank[x] < rank[y]
    BY <1>1, <1>3, <1>10, <1>12, <1>25
  <2>2. Ranks(rank)'
    BY <2>1 DEF Ranks
  <2> QED BY <2>2 DEF Acyclic
<1>30. ASSUME Attached, Kids(n) = << >> PROVE Attached'
  <2>1. vnode[n].child = NULL
    BY <1>8, <1>30, KidsList DEF ListOf
  <2> SUFFICES ASSUME NEW m \in live' \ {Root} PROVE \E x \in live' : Points(x, m)'
    BY DEF Attached
  <2>2. CASE m = q
    BY <2>2, <1>1, <1>3, <1>9, <1>11, <1>25
  <2>3. CASE m # q
    <3>1. PICK x \in live : Points(x, m)
      BY <1>3, <1>30 DEF Attached
    <3>2. x # n
      BY <2>1, <2>3, <3>1, <1>0, <1>1, <1>3 DEF Points
    <3> QED BY <2>3, <3>1, <3>2, <1>3, <1>25
  <2> QED BY <2>2, <2>3
<1>31. live' \subseteq Node /\ Root \in live'
  BY <1>1, <1>3, <1>8
<1>32. \A m \in Node \ {n} : /\ vnode'[m].name = vnode[m].name
                             /\ vnode'[m].type = vnode[m].type
                             /\ vnode'[m].size = vnode[m].size
                             /\ vnode'[m].uid = vnode[m].uid
                             /\ vnode'[m].bytes = vnode[m].bytes
  BY <1>15, <1>18
<1>33. \A x \in live' : /\ vnode'[x].parent = vnode[x].parent
                        /\ vnode'[x].child = IF i = 1 /\ x = parent THEN vnode[n].next
                                             ELSE vnode[x].child
                        /\ vnode'[x].next = IF i # 1 /\ x = k[i - 1] THEN vnode[n].next
                                            ELSE vnode[x].next
  BY <1>0, <1>21 DEF a, first
<1>34. \E j \in 1 .. Len(k) :
          /\ k[j] = n
          /\ \A x \in live' : /\ vnode'[x].parent = vnode[x].parent
                              /\ vnode'[x].child = IF j = 1 /\ x = parent THEN vnode[n].next
                                                   ELSE vnode[x].child
                              /\ vnode'[x].next = IF j # 1 /\ x = k[j - 1] THEN vnode[n].next
                                                  ELSE vnode[x].next
  BY <1>6, <1>33
<1> QED BY <1>3, <1>8, <1>16, <1>20, <1>26, <1>27, <1>28, <1>29, <1>30, <1>31, <1>32, <1>34
        DEF Links, k

--------------------------------------------------------------------------------
(* The tree: what hangs on the root *)

\* What Hanging satisfies, whatever the pointers are.
LEMMA HangingUnfold ==
    ASSUME Fields
    PROVE  /\ Hanging \in [Steps -> [Pointer -> SUBSET Node]]
           /\ \A i \in Steps, p \in Pointer :
                 Hanging[i][p] = IF i = 0 \/ p = NULL THEN {}
                                 ELSE {p} \cup Hanging[i - 1][vnode[p].child]
                                          \cup Hanging[i - 1][vnode[p].next]
<1> DEFINE V == [Pointer -> SUBSET Node]
           N == Cardinality(Node)
           Row(f) == [p \in Pointer |-> IF p = NULL THEN {}
                                        ELSE {p} \cup f[vnode[p].child] \cup f[vnode[p].next]]
           Rec(f, i) == [p \in Pointer |-> IF i = 0 \/ p = NULL THEN {}
                                           ELSE {p} \cup f[i - 1][vnode[p].child]
                                                    \cup f[i - 1][vnode[p].next]]
           base == [p \in Pointer |-> {}]
           step == [i \in 1 .. N |-> [f \in V |-> Row(f)]]
<1>0. N \in Nat /\ Steps = 0 .. N
  BY Size DEF Steps
<1>1. base \in V
  OBVIOUS
<1>2. ASSUME NEW f \in V PROVE Row(f) \in V
  <2> SUFFICES ASSUME NEW p \in Pointer, p # NULL
               PROVE  {p} \cup f[vnode[p].child] \cup f[vnode[p].next] \in SUBSET Node
    OBVIOUS
  <2>1. f[vnode[p].child] \in SUBSET Node /\ f[vnode[p].next] \in SUBSET Node /\ p \in Node
    BY DEF Fields, Pointer
  <2> QED BY <2>1
<1>3. step \in [1 .. N -> [V -> V]]
  BY <1>2
<1>4. PICK f \in [0 .. N -> V] : Iterates(f, N, base, step)
  <2> HIDE DEF V, N, base, step
  <2> QED BY <1>0, <1>1, <1>3, Iteration
<1>5. ASSUME NEW i \in Steps PROVE f[i] = Rec(f, i)
  <2>1. CASE i = 0
    BY <1>4, <2>1 DEF Iterates
  <2>2. CASE i # 0
    <3>1. i \in 1 .. N /\ f[i - 1] \in V
      BY <1>0, <2>2
    <3>2. f[i] = Row(f[i - 1])
      BY <1>4, <3>1 DEF Iterates
    <3> QED BY <3>2, <2>2
  <2> QED BY <2>1, <2>2
<1>6. f = [i \in Steps |-> Rec(f, i)]
  <2> HIDE DEF Rec, V
  <2> QED BY <1>0, <1>5
<1>7. Hanging = [i \in Steps |-> Rec(Hanging, i)]
  BY <1>6 DEF Hanging
<1>8. \A i \in Steps : Hanging[i] = Rec(Hanging, i)
  <2> HIDE DEF Rec
  <2> QED BY <1>7
<1>9. ASSUME NEW i \in 1 .. N PROVE Hanging[i] = Row(Hanging[i - 1])
  <2>1. i \in Steps /\ i # 0
    BY <1>0
  <2>2. Rec(Hanging, i) = Row(Hanging[i - 1])
    BY <2>1
  <2> HIDE DEF Rec, Row
  <2> QED BY <1>8, <2>1, <2>2
<1>10. \A i \in Steps : Hanging[i] \in V
  <2> DEFINE S == {i \in Steps : Hanging[i] \in V}
  <2>1. 0 \in S
    <3>1. Rec(Hanging, 0) = base
      OBVIOUS
    <3> HIDE DEF Rec, base, V
    <3> QED BY <1>0, <1>1, <1>8, <3>1
  <2>2. \A i \in 1 .. N : i - 1 \in S => i \in S
    <3> HIDE DEF V, Row
    <3> QED BY <1>0, <1>2, <1>9
  <2>3. 0 .. N \subseteq S
    <3> HIDE DEF S, N
    <3> QED BY <1>0, <2>1, <2>2, Induction
  <2> QED BY <2>3, <1>0
<1> HIDE DEF N
<1>11. Hanging \in [Steps -> V]
  <2> HIDE DEF V, Rec
  <2> QED BY <1>7, <1>10
<1> QED BY <1>8, <1>11

\* The same by cases, for live nodes.
LEMMA HangingStep ==
    ASSUME Links
    PROVE  /\ \A p \in live \cup {NULL} : Hanging[0][p] = {}
           /\ \A i \in Steps : Hanging[i][NULL] = {}
           /\ \A i \in 1 .. Cardinality(Node), p \in live :
                 Hanging[i][p] = {p} \cup Hanging[i - 1][vnode[p].child]
                                     \cup Hanging[i - 1][vnode[p].next]
<1>1. Cardinality(Node) \in Nat /\ Steps = 0 .. Cardinality(Node)
  BY Size DEF Steps
<1>2. live \subseteq Node /\ NULL \notin live /\ live \cup {NULL} \subseteq Pointer
  BY VfsAssumption DEF Links, Pointer
<1>3. \A i \in Steps, p \in Pointer :
         Hanging[i][p] = IF i = 0 \/ p = NULL THEN {}
                         ELSE {p} \cup Hanging[i - 1][vnode[p].child]
                                  \cup Hanging[i - 1][vnode[p].next]
  BY LinksFields, HangingUnfold
<1>4. ASSUME NEW p \in live \cup {NULL} PROVE Hanging[0][p] = {}
  <2>1. 0 \in Steps /\ p \in Pointer
    BY <1>1, <1>2
  <2>2. Hanging[0][p] = IF 0 = 0 \/ p = NULL THEN {}
                        ELSE {p} \cup Hanging[0 - 1][vnode[p].child]
                                 \cup Hanging[0 - 1][vnode[p].next]
    BY <1>3, <2>1, Zenon
  <2> QED BY <2>2
<1>5. ASSUME NEW i \in Steps PROVE Hanging[i][NULL] = {}
  BY <1>2, <1>3
<1>6. ASSUME NEW i \in 1 .. Cardinality(Node), NEW p \in live
      PROVE  Hanging[i][p] = {p} \cup Hanging[i - 1][vnode[p].child]
                                 \cup Hanging[i - 1][vnode[p].next]
  <2>1. i \in Steps /\ i # 0 /\ p \in Pointer /\ p # NULL
    BY <1>1, <1>2
  <2> QED BY <1>3, <2>1
<1> QED BY <1>4, <1>5, <1>6

\* A set that holds the root and with a node what it points to holds the tree.
LEMMA ReachWithin ==
    ASSUME Links, NEW R, R \subseteq live, Root \in R,
           \A x \in R, y \in live : Points(x, y) => y \in R
    PROVE  Reach \subseteq R
<1> DEFINE N == Cardinality(Node)
           S == {i \in Steps : \A p \in R \cup {NULL} : Hanging[i][p] \subseteq R}
<1>0. N \in Nat /\ Steps = 0 .. N
  BY Size DEF Steps
<1>1. 0 \in S
  BY <1>0, HangingStep
<1>2. ASSUME NEW i \in 1 .. N, i - 1 \in S PROVE i \in S
  <2>0. i \in Steps
    BY <1>0
  <2> SUFFICES ASSUME NEW p \in R \cup {NULL} PROVE Hanging[i][p] \subseteq R
    BY <2>0
  <2>1. CASE p = NULL
    BY <2>0, <2>1, HangingStep
  <2>2. CASE p \in R
    <3>1. vnode[p].child \in live \cup {NULL} /\ vnode[p].next \in live \cup {NULL}
      BY <2>2 DEF Links, Closed
    <3>2. vnode[p].child \in R \cup {NULL} /\ vnode[p].next \in R \cup {NULL}
      BY <2>2, <3>1 DEF Points
    <3>3. Hanging[i - 1][vnode[p].child] \subseteq R /\ Hanging[i - 1][vnode[p].next] \subseteq R
      BY <1>2, <3>2
    <3> QED BY <2>2, <3>3, HangingStep
  <2> QED BY <2>1, <2>2
<1>3. 0 .. N \subseteq S
  <2> HIDE DEF S, N
  <2> QED BY <1>0, <1>1, <1>2, Induction
<1> QED BY <1>0, <1>3 DEF Reach

\* The tree consists of live nodes.
LEMMA ReachLive ==
    ASSUME Links
    PROVE  Reach \subseteq live
<1>1. CASE Root \in live
  BY <1>1, ReachWithin
<1>2. CASE Root \notin live
  BY <1>2 DEF Reach
<1> QED BY <1>1, <1>2

\* Where one step more leads.
LEMMA HangingPoints ==
    ASSUME Links
    PROVE  \A i \in 0 .. Cardinality(Node) - 1, p \in live \cup {NULL}, x, y \in live :
              x \in Hanging[i][p] /\ Points(x, y) => y \in Hanging[i + 1][p]
<1> DEFINE N == Cardinality(Node)
           S == {i \in 0 .. N - 1 : \A p \in live \cup {NULL}, x, y \in live :
                    x \in Hanging[i][p] /\ Points(x, y) => y \in Hanging[i + 1][p]}
<1>0. N \in Nat /\ Steps = 0 .. N /\ N # 0
  BY Size, VfsAssumption, FS_EmptySet DEF Steps
<1>1. 0 \in S
  BY <1>0, HangingStep
<1>2. ASSUME NEW i \in 1 .. N - 1, i - 1 \in S PROVE i \in S
  <2>0. i \in Steps /\ i \in 1 .. N /\ i + 1 \in 1 .. N /\ (i + 1) - 1 = i /\ (i - 1) + 1 = i
    BY <1>0
  <2> SUFFICES ASSUME NEW p \in live \cup {NULL}, NEW x \in live, NEW y \in live,
                      x \in Hanging[i][p], Points(x, y)
               PROVE  y \in Hanging[i + 1][p]
    BY <1>0
  <2>1. p \in live
    BY <2>0, HangingStep
  <2> DEFINE c == vnode[p].child
             q == vnode[p].next
  <2>2. c \in live \cup {NULL} /\ q \in live \cup {NULL}
    BY <2>1 DEF Links, Closed
  <2>3. Hanging[i + 1][p] = {p} \cup Hanging[i][c] \cup Hanging[i][q]
    BY <2>0, <2>1, HangingStep
  <2>4. Hanging[i][p] = {p} \cup Hanging[i - 1][c] \cup Hanging[i - 1][q]
    BY <2>0, <2>1, HangingStep
  <2>5. CASE x = p
    <3>1. y \in {c, q} /\ y \in Hanging[i][y]
      BY <2>0, <2>5, HangingStep DEF Points
    <3> QED BY <2>3, <3>1
  <2>6. CASE x \in Hanging[i - 1][c]
    <3>1. y \in Hanging[i][c]
      BY <1>2, <2>0, <2>2, <2>6
    <3> QED BY <2>3, <3>1
  <2>7. CASE x \in Hanging[i - 1][q]
    <3>1. y \in Hanging[i][q]
      BY <1>2, <2>0, <2>2, <2>7
    <3> QED BY <2>3, <3>1
  <2> QED BY <2>4, <2>5, <2>6, <2>7
<1>3. 0 .. N - 1 \subseteq S
  <2>1. N - 1 \in Nat
    BY <1>0
  <2> HIDE DEF S, N
  <2> QED BY <2>1, <1>1, <1>2, Induction
<1> QED BY <1>3

\* A set in which something points to each node but the root is in the tree: the
\* pointers come from nodes of lower rank, and down there is only the root.
LEMMA ReachMeets ==
    ASSUME Links, NEW R, R \subseteq live, Root \in R,
           \A n \in R \ {Root} : \E x \in R : Points(x, n)
    PROVE  R \subseteq Reach
<1> DEFINE N == Cardinality(Node)
<1>0. N \in Nat /\ Steps = 0 .. N /\ N # 0
  BY Size, VfsAssumption, FS_EmptySet DEF Steps
<1>1. Root \in live /\ live \subseteq Node /\ IsFiniteSet(Node)
  BY VfsAssumption DEF Links
<1>2. PICK rank \in [Node -> Nat] : Ranks(rank)
  BY DEF Links, Acyclic
<1> DEFINE Lower(n) == {m \in live : rank[m] < rank[n]}
           S == {k \in 0 .. N - 1 : \A n \in R :
                    Cardinality(Lower(n)) <= k => n \in Hanging[k + 1][Root]}
<1>3. ASSUME NEW n \in live PROVE IsFiniteSet(Lower(n)) /\ Cardinality(Lower(n)) \in 0 .. N - 1
  <2>1. Lower(n) \in SUBSET (Node \ {n})
    BY <1>1
  <2>2. IsFiniteSet(Node \ {n}) /\ Cardinality(Node \ {n}) = N - 1
    BY <1>1, FS_RemoveElement
  <2>3. IsFiniteSet(Lower(n)) /\ Cardinality(Lower(n)) <= N - 1
    <3> HIDE DEF Lower
    <3> QED BY <2>1, <2>2, FS_Subset
  <2> HIDE DEF Lower
  <2>4. Cardinality(Lower(n)) \in Nat
    BY <2>3, FS_CardinalityType
  <2> QED BY <1>0, <2>3, <2>4
<1>4. ASSUME NEW x \in live, NEW n \in live, Points(x, n)
      PROVE  Cardinality(Lower(x)) < Cardinality(Lower(n))
  <2>1. rank[x] < rank[n] /\ rank[x] \in Nat /\ rank[n] \in Nat
    BY <1>1, <1>2, <1>4 DEF Ranks
  <2>2. \A m \in live : rank[m] \in Nat
    BY <1>1
  <2>3. Lower(x) \in SUBSET Lower(n) /\ x \in Lower(n) /\ x \notin Lower(x)
    BY <2>1, <2>2
  <2> HIDE DEF Lower
  <2>4. /\ Cardinality(Lower(x)) <= Cardinality(Lower(n))
        /\ Cardinality(Lower(x)) # Cardinality(Lower(n))
    BY <1>3, <2>3, FS_Subset
  <2>5. Cardinality(Lower(x)) \in Nat /\ Cardinality(Lower(n)) \in Nat
    BY <1>0, <1>3
  <2> QED BY <2>4, <2>5
<1>5. \A k \in 1 .. N : Root \in Hanging[k][Root]
  BY <1>1, HangingStep
<1> HIDE DEF Lower
<1>6. 0 \in S
  <2> SUFFICES ASSUME NEW n \in R, Cardinality(Lower(n)) <= 0 PROVE n \in Hanging[0 + 1][Root]
    BY <1>0
  <2>1. CASE n = Root
    BY <1>0, <1>5, <2>1
  <2>2. CASE n # Root
    <3>1. PICK x \in R : Points(x, n)
      BY <2>2
    <3>2. Cardinality(Lower(x)) < Cardinality(Lower(n)) /\ Cardinality(Lower(x)) \in 0 .. N - 1
          /\ Cardinality(Lower(n)) \in 0 .. N - 1
      BY <1>3, <1>4, <3>1
    <3> QED BY <1>0, <3>2
  <2> QED BY <2>1, <2>2
<1>7. ASSUME NEW k \in 1 .. N - 1, k - 1 \in S PROVE k \in S
  <2>0. k \in 0 .. N - 1 /\ k + 1 \in 1 .. N /\ (k - 1) + 1 = k
    BY <1>0
  <2> SUFFICES ASSUME NEW n \in R, Cardinality(Lower(n)) <= k PROVE n \in Hanging[k + 1][Root]
    BY <2>0
  <2>1. CASE n = Root
    BY <1>5, <2>0, <2>1
  <2>2. CASE n # Root
    <3>1. PICK x \in R : Points(x, n)
      BY <2>2
    <3>2. Cardinality(Lower(x)) < Cardinality(Lower(n)) /\ Cardinality(Lower(x)) \in 0 .. N - 1
          /\ Cardinality(Lower(n)) \in 0 .. N - 1
      BY <1>3, <1>4, <3>1
    <3>3. Cardinality(Lower(x)) <= k - 1
      BY <1>0, <3>2
    <3>4. x \in Hanging[k][Root]
      BY <1>7, <2>0, <3>3
    <3> QED BY <1>1, <2>0, <3>1, <3>4, HangingPoints
  <2> QED BY <2>1, <2>2
<1>8. 0 .. N - 1 \subseteq S
  <2>1. N - 1 \in Nat
    BY <1>0
  <2> HIDE DEF S, N
  <2> QED BY <2>1, <1>6, <1>7, Induction
<1>9. \A n \in R : n \in Hanging[N][Root]
  <2>1. N - 1 \in 0 .. N - 1 /\ (N - 1) + 1 = N
    BY <1>0
  <2>2. \A n \in R : Cardinality(Lower(n)) <= N - 1
    BY <1>0, <1>3
  <2> QED BY <1>8, <2>1, <2>2
<1> QED BY <1>1, <1>9 DEF Reach

\* When something points to each live node, all of them are in the tree.
LEMMA ReachAll ==
    ASSUME Links, Attached
    PROVE  Reach = live
<1>1. CASE live = {}
  BY <1>1, ReachLive
<1>2. CASE live # {}
  <2>1. Root \in live /\ \A n \in live \ {Root} : \E x \in live : Points(x, n)
    BY <1>2 DEF Links, Attached
  <2>2. live \subseteq Reach
    BY <2>1, ReachMeets
  <2> QED BY <2>2, ReachLive
<1> QED BY <1>1, <1>2

--------------------------------------------------------------------------------
(* The tree as a whole.  These facts are stated without ASSUME: they hold *)
(* of the state before a step and of the one after it.                    *)

\* R holds the root, what it points to, and nothing else.
Grown(R) ==
    /\ R \subseteq live /\ Root \in R
    /\ \A x \in R, y \in live : Points(x, y) => y \in R
    /\ \A n \in R \ {Root} : \E x \in R : Points(x, n)

\* There is one such set.
LEMMA ReachIs == Links => \A R : Grown(R) => Reach = R
<1> SUFFICES ASSUME Links, NEW R, Grown(R) PROVE Reach = R
  OBVIOUS
<1>1. Reach \subseteq R
  BY ReachWithin DEF Grown
<1>2. R \subseteq Reach
  BY ReachMeets DEF Grown
<1> QED BY <1>1, <1>2

\* It is the tree: the least set that is closed has nothing in it without a pointer.
LEMMA ReachGrown == Links /\ Root \in live => Grown(Reach)
<1> SUFFICES ASSUME Links, Root \in live PROVE Grown(Reach)
  OBVIOUS
<1> DEFINE Shut(Q) == /\ Q \subseteq live /\ Root \in Q
                      /\ \A x \in Q, y \in live : Points(x, y) => y \in Q
           R == {n \in live : \A Q \in SUBSET live : Shut(Q) => n \in Q}
<1>1. R \subseteq live /\ Root \in R
  OBVIOUS
<1>2. ASSUME NEW x \in R, NEW y \in live, Points(x, y) PROVE y \in R
  <2> SUFFICES ASSUME NEW Q \in SUBSET live, Shut(Q) PROVE y \in Q
    OBVIOUS
  <2>1. x \in Q
    OBVIOUS
  <2> QED BY <1>2, <2>1
<1>3. ASSUME NEW n \in R \ {Root} PROVE \E x \in R : Points(x, n)
  <2> SUFFICES ASSUME \A x \in R : ~Points(x, n) PROVE FALSE
    OBVIOUS
  <2> DEFINE Q == R \ {n}
  <2>1. Q \in SUBSET live /\ Root \in Q
    BY <1>1, <1>3
  <2>2. ASSUME NEW x \in Q, NEW y \in live, Points(x, y) PROVE y \in Q
    <3>1. x \in R
      OBVIOUS
    <3>2. y \in R
      BY <1>2, <2>2, <3>1
    <3>3. y # n
      BY <2>2, <3>1
    <3> QED BY <3>2, <3>3
  <2>3. Shut(Q)
    BY <2>1, <2>2
  <2>4. n \in Q
    BY <1>3, <2>1, <2>3
  <2> QED BY <2>4
<1> HIDE DEF R
<1>4. Grown(R)
  BY <1>1, <1>2, <1>3 DEF Grown
<1> QED BY <1>4, ReachIs

\* The lists of the tree stay in it.
LEMMA KidsReach == Links => \A d \in Reach : ListOf(Kids(d), d) /\ ToSet(Kids(d)) \subseteq Reach
<1> SUFFICES ASSUME Links, NEW d \in Reach
             PROVE  ListOf(Kids(d), d) /\ ToSet(Kids(d)) \subseteq Reach
  OBVIOUS
<1> DEFINE k == Kids(d)
           S == {i \in 0 .. Len(k) : i # 0 => k[i] \in Reach}
<1>1. d \in live /\ Root \in live
  BY ReachLive DEF Links
<1>2. ListOf(k, d) /\ Grown(Reach)
  BY <1>1, KidsList, ReachGrown
<1> HIDE DEF k
<1>3. k \in Seq(live) /\ Len(k) \in Nat /\ DOMAIN k = 1 .. Len(k)
  BY <1>2 DEF ListOf
<1>4. 0 \in S
  BY <1>3
<1>5. ASSUME NEW i \in 1 .. Len(k), i - 1 \in S PROVE i \in S
  <2>1. k[i] \in live
    BY <1>3
  <2>2. CASE i = 1
    <3>1. k # << >>
      BY <1>3, <2>2
    <3>2. Points(d, k[i])
      BY <1>2, <2>2, <3>1 DEF ListOf, Points
    <3> QED BY <1>2, <1>3, <2>1, <3>2 DEF Grown
  <2>3. CASE i # 1
    <3>1. i - 1 \in 1 .. Len(k) - 1 /\ (i - 1) + 1 = i /\ k[i - 1] \in Reach
      BY <1>3, <1>5, <2>3
    <3>2. Points(k[i - 1], k[i])
      BY <1>2, <3>1 DEF ListOf, Points
    <3> QED BY <1>2, <1>3, <2>1, <3>1, <3>2 DEF Grown
  <2> QED BY <2>2, <2>3
<1>6. 0 .. Len(k) \subseteq S
  <2> HIDE DEF S
  <2> QED BY <1>3, <1>4, <1>5, Induction
<1>7. ToSet(k) \subseteq Reach
  BY <1>3, <1>6 DEF ToSet
<1> QED BY <1>2, <1>7 DEF k

\* A child is ranked above its parent.
LEMMA KidsRank ==
    ASSUME Links, NEW rank \in [Node -> Nat], Ranks(rank), NEW d \in live, NEW n \in ToSet(Kids(d))
    PROVE  rank[d] < rank[n]
<1> DEFINE k == Kids(d)
           S == {i \in 0 .. Len(k) : i # 0 => rank[d] < rank[k[i]]}
<1>1. live \subseteq Node
  BY DEF Links
<1>2. ListOf(k, d) /\ n \in ToSet(k)
  BY KidsList
<1> HIDE DEF k
<1>3. k \in Seq(live) /\ Len(k) \in Nat /\ DOMAIN k = 1 .. Len(k)
  BY <1>2 DEF ListOf
<1>4. 0 \in S
  BY <1>3
<1>5. ASSUME NEW i \in 1 .. Len(k), i - 1 \in S PROVE i \in S
  <2>1. k[i] \in live
    BY <1>3
  <2>2. CASE i = 1
    <3>1. k # << >>
      BY <1>3, <2>2
    <3>2. Points(d, k[i])
      BY <1>2, <2>2, <3>1 DEF ListOf, Points
    <3> QED BY <1>3, <2>1, <3>2 DEF Ranks
  <2>3. CASE i # 1
    <3>1. i - 1 \in 1 .. Len(k) - 1 /\ (i - 1) + 1 = i /\ rank[d] < rank[k[i - 1]]
          /\ k[i - 1] \in live
      BY <1>3, <1>5, <2>3
    <3>2. Points(k[i - 1], k[i])
      BY <1>2, <3>1 DEF ListOf, Points
    <3>3. rank[k[i - 1]] < rank[k[i]]
      BY <2>1, <3>1, <3>2 DEF Ranks
    <3>4. rank[d] \in Nat /\ rank[k[i - 1]] \in Nat /\ rank[k[i]] \in Nat
      BY <1>1, <2>1, <3>1
    <3>5. rank[d] < rank[k[i]]
      BY <3>1, <3>3, <3>4
    <3> QED BY <3>5
  <2> QED BY <2>2, <2>3
<1>6. 0 .. Len(k) \subseteq S
  <2> HIDE DEF S
  <2> QED BY <1>3, <1>4, <1>5, Induction
<1> QED BY <1>2, <1>3, <1>6 DEF ToSet

\* A node of the tree but the root is in the list of its parent, which is in the tree:
\* else take such a node of least rank; what points to it is not such a node.
LEMMA ReachParents ==
    Links => \A x \in Reach \ {Root} :
                vnode[x].parent \in Reach /\ x \in ToSet(Kids(vnode[x].parent))
<1> SUFFICES ASSUME Links, NEW x0 \in Reach \ {Root},
                    ~(vnode[x0].parent \in Reach /\ x0 \in ToSet(Kids(vnode[x0].parent)))
             PROVE  FALSE
  OBVIOUS
<1>1. Reach \subseteq live /\ live \subseteq Node /\ Root \in live /\ NULL \notin live
  BY ReachLive, VfsAssumption DEF Links
<1>2. Grown(Reach)
  BY <1>1, ReachGrown
<1>3. PICK rank \in [Node -> Nat] : Ranks(rank)
  BY DEF Links, Acyclic
<1> DEFINE Bad == {x \in Reach \ {Root} :
                      ~(vnode[x].parent \in Reach /\ x \in ToSet(Kids(vnode[x].parent)))}
           T == {rank[x] : x \in Bad}
<1>4. T \subseteq Nat /\ T # {}
  BY <1>1
<1>5. PICK t \in T : \A j \in T : t <= j
  <2> HIDE DEF T
  <2> QED BY <1>4, Least
<1>6. PICK x \in Bad : t = rank[x]
  OBVIOUS
<1>7. PICK y \in Reach : Points(y, x)
  BY <1>2, <1>6 DEF Grown
<1>8. y \in live /\ x \in live /\ x # Root /\ rank[y] < rank[x] /\ rank[y] \in Nat /\ rank[x] \in Nat
  BY <1>1, <1>3, <1>6, <1>7 DEF Ranks
<1>9. CASE vnode[y].child = x
  <2>1. vnode[x].parent = y
    BY <1>8, <1>9 DEF Links, Parents
  <2> DEFINE k == Kids(y)
  <2>2. ListOf(k, y)
    BY <1>7, KidsReach
  <2> HIDE DEF k
  <2>3. k \in Seq(live) /\ k # << >> /\ k[1] = x
    BY <1>1, <1>8, <1>9, <2>2 DEF ListOf
  <2>4. x \in ToSet(k)
    BY <2>3 DEF ToSet
  <2> QED BY <1>6, <1>7, <2>1, <2>4 DEF k
<1>10. CASE vnode[y].next = x
  <2>1. vnode[x].parent = vnode[y].parent
    BY <1>8, <1>10 DEF Links, Parents
  <2>2. y # Root
    BY <1>1, <1>8, <1>10 DEF Links, Sole
  <2>3. y \notin Bad
    BY <1>5, <1>6, <1>8
  <2>4. vnode[y].parent \in Reach /\ y \in ToSet(Kids(vnode[y].parent))
    BY <1>7, <2>2, <2>3
  <2> DEFINE d == vnode[y].parent
             k == Kids(d)
  <2>5. ListOf(k, d) /\ y \in ToSet(k)
    BY <2>4, KidsReach
  <2> HIDE DEF k
  <2>6. k \in Seq(live) /\ DOMAIN k = 1 .. Len(k) /\ Len(k) \in Nat
    BY <2>5 DEF ListOf
  <2>7. PICK i \in 1 .. Len(k) : k[i] = y
    BY <2>5, <2>6 DEF ToSet
  <2>8. i # Len(k)
    <3>1. k # << >>
      BY <2>6, <2>7
    <3>2. vnode[k[Len(k)]].next = NULL
      BY <2>5, <3>1 DEF ListOf
    <3> QED BY <1>1, <1>8, <1>10, <2>7, <3>2
  <2>9. i \in 1 .. Len(k) - 1 /\ i + 1 \in 1 .. Len(k)
    <3> DEFINE L == Len(k)
    <3>1. L \in Nat /\ i \in 1 .. L /\ i # L
      BY <2>6, <2>7, <2>8
    <3> HIDE DEF L
    <3>2. i \in 1 .. L - 1 /\ i + 1 \in 1 .. L
      BY <3>1
    <3> QED BY <3>2 DEF L
  <2>10. k[i + 1] = x
    BY <1>10, <2>5, <2>7, <2>9 DEF ListOf
  <2>11. x \in ToSet(k)
    BY <2>6, <2>9, <2>10 DEF ToSet
  <2> QED BY <1>6, <2>1, <2>4, <2>11 DEF k
<1> QED BY <1>7, <1>9, <1>10 DEF Points

\* k lists what next leads to from the first child of d.
Linked(k, d) ==
    /\ k = << >> <=> vnode[d].child = NULL
    /\ k # << >> => k[1] = vnode[d].child /\ vnode[k[Len(k)]].next = NULL
    /\ \A i \in 1 .. Len(k) - 1 : vnode[k[i]].next = k[i + 1]

\* There is one such list.
LEMMA KidsAre ==
    Links => \A d \in live : ListOf(Kids(d), d) /\ \A k \in Seq(live) : Linked(k, d) => Kids(d) = k
<1> SUFFICES ASSUME Links, NEW d \in live
             PROVE  ListOf(Kids(d), d) /\ \A k \in Seq(live) : Linked(k, d) => Kids(d) = k
  OBVIOUS
<1> DEFINE h == Kids(d)
<1>1. ListOf(h, d)
  BY KidsList
<1> HIDE DEF h
<1> SUFFICES ASSUME NEW k \in Seq(live), Linked(k, d) PROVE h = k
  BY <1>1 DEF h
<1>2. h \in Seq(live) /\ Linked(h, d) /\ NULL \notin live
  <2>1. NULL \notin live
    BY VfsAssumption DEF Links
  <2>2. h \in Seq(live \ {Root}) /\ Linked(h, d)
    BY <1>1 DEF ListOf, Linked
  <2> QED BY <2>1, <2>2
<1>3. Len(h) \in Nat /\ Len(k) \in Nat
      /\ (\A i \in 1 .. Len(h) : h[i] \in live) /\ (\A i \in 1 .. Len(k) : k[i] \in live)
  BY <1>2
<1> DEFINE M == IF Len(h) <= Len(k) THEN Len(h) ELSE Len(k)
           S == {i \in 0 .. M : i # 0 => h[i] = k[i]}
<1>4. M \in Nat /\ M <= Len(h) /\ M <= Len(k) /\ (M = Len(h) \/ M = Len(k))
  BY <1>3
<1> HIDE DEF M
<1>5. 0 \in S
  BY <1>4
<1>6. ASSUME NEW i \in 1 .. M, i - 1 \in S PROVE i \in S
  <2>1. CASE i = 1
    <3>1. h # << >> /\ k # << >>
      BY <1>2, <1>3, <1>4, <2>1
    <3> QED BY <1>2, <2>1, <3>1 DEF Linked
  <2>2. CASE i # 1
    <3>1. i - 1 \in 1 .. Len(h) - 1 /\ i - 1 \in 1 .. Len(k) - 1 /\ (i - 1) + 1 = i
          /\ h[i - 1] = k[i - 1]
      BY <1>3, <1>4, <1>6, <2>2
    <3>2. vnode[h[i - 1]].next = h[(i - 1) + 1] /\ vnode[k[i - 1]].next = k[(i - 1) + 1]
      BY <1>2, <3>1 DEF Linked
    <3> QED BY <3>1, <3>2
  <2> QED BY <2>1, <2>2
<1>7. 0 .. M \subseteq S
  <2> HIDE DEF S
  <2> QED BY <1>4, <1>5, <1>6, Induction
<1>8. \A i \in 1 .. M : h[i] = k[i]
  BY <1>4, <1>7
<1>9. h = << >> <=> k = << >>
  BY <1>2 DEF Linked
<1>10. CASE M = 0
  BY <1>2, <1>3, <1>4, <1>9, <1>10
<1>11. CASE M # 0
  <2>0. h # << >> /\ k # << >> /\ M \in 1 .. M /\ h[M] = k[M]
    BY <1>3, <1>4, <1>8, <1>11
  <2>1. Len(h) = M
    <3> SUFFICES ASSUME Len(h) # M PROVE FALSE
      OBVIOUS
    <3>1. M = Len(k) /\ M \in 1 .. Len(h) - 1 /\ M + 1 \in 1 .. Len(h)
      BY <1>3, <1>4, <1>11
    <3>2. vnode[h[M]].next = h[M + 1] /\ vnode[k[M]].next = NULL
      BY <1>2, <2>0, <3>1 DEF Linked
    <3> QED BY <1>2, <1>3, <2>0, <3>1, <3>2
  <2>2. Len(k) = M
    <3> SUFFICES ASSUME Len(k) # M PROVE FALSE
      OBVIOUS
    <3>1. M = Len(h) /\ M \in 1 .. Len(k) - 1 /\ M + 1 \in 1 .. Len(k)
      BY <1>3, <1>4, <1>11
    <3>2. vnode[k[M]].next = k[M + 1] /\ vnode[h[M]].next = NULL
      BY <1>2, <2>0, <3>1 DEF Linked
    <3> QED BY <1>2, <1>3, <2>0, <3>1, <3>2
  <2> QED BY <1>2, <1>3, <1>8, <2>1, <2>2
<1> QED BY <1>10, <1>11

\* The facts above together.
TreeFacts ==
    Links => /\ \A R : Grown(R) => Reach = R
             /\ \A R : R \subseteq live /\ Root \in R
                          /\ (\A x \in R, y \in live : Points(x, y) => y \in R)
                       => Reach \subseteq R
             /\ Root \in live => Grown(Reach)
             /\ Reach \subseteq live
             /\ \A d \in Reach : ListOf(Kids(d), d) /\ ToSet(Kids(d)) \subseteq Reach
             /\ \A x \in Reach \ {Root} :
                   vnode[x].parent \in Reach /\ x \in ToSet(Kids(vnode[x].parent))
             /\ \A d \in live : /\ ListOf(Kids(d), d)
                                /\ \A k \in Seq(live) : Linked(k, d) => Kids(d) = k

\* The links of any state make these facts true in it: Reach and Kids are determined by them.
LEMMA TreeFactsNow == TreeFacts
  BY ReachIs, ReachWithin, ReachGrown, ReachLive, KidsReach, ReachParents, KidsAre DEF TreeFacts

\* They hold after a step too, of the vnodes that vfs_create or vfs_remove left.
LEMMA TreeFactsNext == TreeFacts'
  BY TreeFactsNow, PTL

--------------------------------------------------------------------------------
(* What a step does to the tree *)

\* Steps that leave child and next alone leave the tree.
LEMMA SameTree ==
    ASSUME Links, Links', live' = live,
           \A m \in live : vnode'[m].next = vnode[m].next /\ vnode'[m].child = vnode[m].child
    PROVE  Reach' = Reach /\ \A d \in live : Kids(d)' = Kids(d)
<1>1. TreeFacts /\ TreeFacts'
  BY TreeFactsNow, TreeFactsNext
<1>2. Reach' = Reach
  <2>1. CASE Root \notin live
    BY <2>1 DEF Reach
  <2>2. CASE Root \in live
    <3>1. PICK R : R = Reach
      OBVIOUS
    <3>2. Grown(R) /\ R \subseteq live
      BY <1>1, <2>2, <3>1 DEF TreeFacts
    <3>3. Grown(R)'
      BY <3>2 DEF Grown, Points
    <3>4. (\A Q : Grown(Q) => Reach = Q)'
      BY <1>1 DEF TreeFacts
    <3>5. Reach' = R
      BY <3>3, <3>4
    <3> QED BY <3>1, <3>5
  <2> QED BY <2>1, <2>2
<1>3. ASSUME NEW d \in live PROVE Kids(d)' = Kids(d)
  <2>1. PICK k : k = Kids(d)
    OBVIOUS
  <2>2. ListOf(k, d)
    BY <1>1, <2>1 DEF TreeFacts
  <2>3. k \in Seq(live) /\ DOMAIN k = 1 .. Len(k) /\ Len(k) \in Nat
        /\ \A i \in 1 .. Len(k) : k[i] \in live
    BY <2>2 DEF ListOf
  <2>4. k # << >> => Len(k) \in 1 .. Len(k)
    BY <2>3
  <2>5. Linked(k, d)'
    BY <2>2, <2>3, <2>4 DEF ListOf, Linked
  <2>6. (\A q \in Seq(live) : Linked(q, d) => Kids(d) = q)'
    BY <1>1 DEF TreeFacts
  <2>7. Kids(d)' = k
    BY <2>3, <2>5, <2>6
  <2> QED BY <2>1, <2>7
<1> QED BY <1>2, <1>3

\* vfs_create puts the new node at the end of its parent's list.
LEMMA CreatedTree ==
    ASSUME Links, NEW parent \in Reach, NEW n, NEW new \in Vnode,
           new.parent = parent, new.next = NULL, new.child = NULL,
           vfs_create(parent, n, new)
    PROVE  /\ Reach' = Reach \cup {n} /\ n \notin Reach
           /\ Kids(n)' = << >>
           /\ \A d \in Reach : Kids(d)' = IF d = parent THEN Append(Kids(d), n) ELSE Kids(d)
<1> DEFINE none == vnode[parent].child = NULL
           tail == Last(Kids(parent))
<1>a. PICK a : a = IF none THEN parent ELSE tail
  OBVIOUS
<1>0. TreeFacts /\ TreeFacts'
  BY TreeFactsNow, TreeFactsNext
<1>1. Reach \subseteq live /\ parent \in live /\ NULL \notin Node /\ live \subseteq Node
  BY <1>0, VfsAssumption DEF TreeFacts, Links
<1>2. /\ Links' /\ live' = live \cup {n} /\ n \in Node \ live /\ vnode'[n] = new
      /\ \A x \in live :
            /\ vnode'[x].parent = vnode[x].parent
            /\ vnode'[x].child = IF none /\ x = parent THEN n ELSE vnode[x].child
            /\ vnode'[x].next = IF ~none /\ x = tail THEN n ELSE vnode[x].next
  BY <1>1, CreatedLinks
<1>3. Root \in live /\ Root \in Reach /\ Grown(Reach)
  BY <1>0, <1>1 DEF TreeFacts, Links, Grown
<1>4. ListOf(Kids(parent), parent) /\ ToSet(Kids(parent)) \subseteq Reach
  BY <1>0 DEF TreeFacts
<1>5. /\ a \in Reach /\ (none => a = parent /\ vnode[a].child = NULL)
      /\ ~none => a = tail /\ tail \in Reach /\ vnode[a].next = NULL /\ vnode[a].parent = parent
  <2>1. CASE none
    BY <1>a, <2>1
  <2>2. CASE ~none
    <3> DEFINE k == Kids(parent)
    <3>1. tail = k[Len(k)]
      BY DEF Last
    <3> HIDE DEF k
    <3>2. k \in Seq(live \ {Root}) /\ k # << >>
      BY <1>4, <2>2 DEF ListOf, k
    <3>3. Len(k) \in 1 .. Len(k) /\ DOMAIN k = 1 .. Len(k)
      BY <3>2
    <3>4. k[Len(k)] \in ToSet(k)
      BY <3>3 DEF ToSet
    <3>5. vnode[k[Len(k)]].next = NULL /\ vnode[k[Len(k)]].parent = parent
      BY <1>4, <3>2, <3>3 DEF ListOf, k
    <3> QED BY <1>4, <1>a, <2>2, <3>1, <3>4, <3>5 DEF k
  <2> QED BY <2>1, <2>2
<1> HIDE DEF tail, none
<1>6. \A x \in live : vnode[x].child \in live \cup {NULL} /\ vnode[x].next \in live \cup {NULL}
  BY DEF Links, Closed
<1>7. /\ \A x, y \in live : Points(x, y)' <=> Points(x, y)
      /\ Points(a, n)' /\ \A y \in live' : ~Points(n, y)'
  <2>1. \A x, y \in live : Points(x, y)' <=> Points(x, y)
    BY <1>1, <1>2, <1>5, <1>6 DEF Points
  <2>2. Points(a, n)'
    BY <1>1, <1>2, <1>5 DEF Points
  <2>3. \A y \in live' : ~Points(n, y)'
    BY <1>1, <1>2 DEF Points
  <2> QED BY <2>1, <2>2, <2>3
<1>8. PICK R : R = Reach
  OBVIOUS
<1>9. Grown(R \cup {n})'
  <2>0. Grown(R) /\ R \subseteq live /\ a \in R
    BY <1>1, <1>3, <1>5, <1>8
  <2>1. R \cup {n} \subseteq live' /\ Root \in R \cup {n}
    BY <1>2, <1>3, <1>8, <2>0
  <2>2. \A x \in R \cup {n}, y \in live' : Points(x, y)' => y \in R \cup {n}
    BY <1>2, <1>7, <2>0 DEF Grown
  <2>3. ASSUME NEW m \in (R \cup {n}) \ {Root} PROVE \E x \in R \cup {n} : Points(x, m)'
    <3>1. CASE m = n
      BY <1>7, <2>0, <3>1
    <3>2. CASE m # n
      <4>1. PICK x \in R : Points(x, m)
        BY <2>0, <2>3, <3>2 DEF Grown
      <4> QED BY <1>7, <2>0, <3>2, <4>1
    <3> QED BY <3>1, <3>2
  <2> QED BY <2>1, <2>2, <2>3 DEF Grown
<1>10. Reach' = R \cup {n} /\ n \notin R
  <2>1. (\A Q : Grown(Q) => Reach = Q)'
    BY <1>0, <1>2 DEF TreeFacts
  <2> QED BY <1>1, <1>2, <1>8, <1>9, <2>1
<1>11. \A d \in live', q \in Seq(live') : Linked(q, d)' => Kids(d)' = q
  <2>1. (\A d \in live : \A q \in Seq(live) : Linked(q, d) => Kids(d) = q)'
    BY <1>0, <1>2 DEF TreeFacts
  <2> QED BY <2>1
<1>12. Kids(n)' = << >>
  <2>1. << >> \in Seq(live') /\ Linked(<< >>, n)' /\ n \in live'
    BY <1>2 DEF Linked
  <2> QED BY <1>11, <2>1
<1>13. ASSUME NEW d \in Reach, d # parent PROVE Kids(d)' = Kids(d)
  <2>1. PICK k : k = Kids(d)
    OBVIOUS
  <2>2. ListOf(k, d)
    BY <1>0, <2>1 DEF TreeFacts
  <2>3. k \in Seq(live) /\ DOMAIN k = 1 .. Len(k) /\ Len(k) \in Nat
        /\ \A i \in 1 .. Len(k) : k[i] \in live /\ vnode[k[i]].parent = d
    BY <2>2 DEF ListOf
  <2>4. k # << >> => Len(k) \in 1 .. Len(k)
    BY <2>3
  <2>5. \A i \in 1 .. Len(k) : vnode'[k[i]].next = vnode[k[i]].next
    BY <1>2, <1>5, <1>13, <2>3
  <2>6. vnode'[d].child = vnode[d].child
    BY <1>1, <1>2, <1>13
  <2>7. Linked(k, d)'
    BY <2>2, <2>3, <2>4, <2>5, <2>6 DEF ListOf, Linked
  <2>8. k \in Seq(live') /\ d \in live'
    BY <1>1, <1>2, <2>3
  <2> QED BY <1>11, <2>1, <2>7, <2>8
<1>14. Kids(parent)' = Append(Kids(parent), n)
  <2>1. PICK k : k = Kids(parent)
    OBVIOUS
  <2>2. ListOf(k, parent) /\ tail = k[Len(k)]
    BY <1>4, <2>1 DEF tail, Last
  <2>3. k \in Seq(live) /\ DOMAIN k = 1 .. Len(k) /\ Len(k) \in Nat
        /\ \A i \in 1 .. Len(k) : k[i] \in live
    BY <2>2 DEF ListOf
  <2>4. PICK q : q = Append(k, n)
    OBVIOUS
  <2>5. /\ q \in Seq(live') /\ Len(q) = Len(k) + 1 /\ q # << >>
        /\ \A i \in 1 .. Len(k) : q[i] = k[i]
        /\ q[Len(k) + 1] = n
    <3>1. k \in Seq(live') /\ n \in live'
      BY <1>2, <2>3
    <3> QED BY <2>3, <2>4, <3>1
  <2>6. none <=> k = << >>
    BY <2>2 DEF ListOf, none
  <2>7. q[1] = vnode'[parent].child
    <3>1. CASE none
      BY <1>1, <1>2, <2>3, <2>5, <2>6, <3>1
    <3>2. CASE ~none
      <4>1. 1 \in 1 .. Len(k) /\ k[1] = vnode[parent].child
        BY <2>2, <2>3, <2>6, <3>2 DEF ListOf
      <4> QED BY <1>1, <1>2, <2>5, <3>2, <4>1
    <3> QED BY <3>1, <3>2
  <2>8. ASSUME NEW i \in 1 .. Len(q) - 1 PROVE vnode'[q[i]].next = q[i + 1]
    <3>0. i \in 1 .. Len(k) /\ q[i] = k[i] /\ k[i] \in live /\ ~none
      BY <2>3, <2>5, <2>6
    <3>1. CASE i = Len(k)
      <4>1. q[i] = tail /\ q[i + 1] = n
        BY <2>2, <2>5, <3>0, <3>1
      <4> QED BY <1>2, <3>0, <4>1
    <3>2. CASE i # Len(k)
      <4>1. i \in 1 .. Len(k) - 1 /\ i + 1 \in 1 .. Len(k) /\ Len(k) \in 1 .. Len(k)
        <5> DEFINE L == Len(k)
        <5>1. L \in Nat /\ i \in 1 .. L /\ i # L
          BY <2>3, <3>0, <3>2
        <5> HIDE DEF L
        <5>2. i \in 1 .. L - 1 /\ i + 1 \in 1 .. L /\ L \in 1 .. L
          BY <5>1
        <5> QED BY <5>2 DEF L
      <4>2. vnode[k[i]].next = k[i + 1] /\ k[i] # k[Len(k)]
        BY <2>2, <3>2, <4>1 DEF ListOf
      <4> QED BY <1>2, <2>2, <2>5, <3>0, <4>1, <4>2
    <3> QED BY <3>1, <3>2
  <2>9. vnode'[q[Len(q)]].next = NULL
    BY <1>2, <2>5
  <2>10. vnode'[parent].child # NULL
    <3>1. q[1] \in live'
      BY <2>3, <2>5
    <3> QED BY <1>1, <1>2, <2>7, <3>1
  <2>11. Linked(q, parent)'
    BY <2>5, <2>7, <2>8, <2>9, <2>10 DEF Linked
  <2> QED BY <1>1, <1>2, <1>11, <2>1, <2>4, <2>5, <2>11
<1> QED BY <1>8, <1>10, <1>12, <1>13, <1>14

\* What is left of a sequence without its i-th element.
LEMMA RemovedAt ==
    ASSUME NEW T, NEW s \in Seq(T), NEW i \in 1 .. Len(s), NEW q, q = RemoveAt(s, i)
    PROVE  /\ q \in Seq(T) /\ Len(q) = Len(s) - 1
           /\ \A j \in 1 .. Len(s) - 1 : q[j] = IF j < i THEN s[j] ELSE s[j + 1]
<1> DEFINE L == Len(s)
           u == SubSeq(s, 1, i - 1)
           v == SubSeq(s, i + 1, L)
<1>1. L \in Nat /\ i \in 1 .. L
  OBVIOUS
<1>2. u \in Seq(T) /\ Len(u) = i - 1 /\ \A j \in 1 .. i - 1 : u[j] = s[j]
  OBVIOUS
<1>3. v \in Seq(T) /\ Len(v) = L - i /\ \A j \in 1 .. L - i : v[j] = s[j + i]
  OBVIOUS
<1>4. q = u \o v
  BY DEF RemoveAt
<1> HIDE DEF u, v, L
<1>5. q \in Seq(T) /\ Len(q) = L - 1
  <2>0. u \in Seq(T) /\ v \in Seq(T)
    BY <1>2, <1>3
  <2>1. q \in Seq(T) /\ Len(q) = Len(u) + Len(v)
    BY <1>4, <2>0, ConcatProperties
  <2>2. (i - 1) + (L - i) = L - 1
    BY <1>1
  <2> QED BY <1>2, <1>3, <2>1, <2>2
<1>6. ASSUME NEW j \in 1 .. L - 1 PROVE q[j] = IF j < i THEN s[j] ELSE s[j + 1]
  <2>1. CASE j < i
    BY <1>1, <1>2, <1>3, <1>4, <2>1
  <2>2. CASE ~(j < i)
    <3>1. j - (i - 1) \in 1 .. L - i /\ j \in Len(u) + 1 .. Len(u) + Len(v)
      BY <1>1, <1>2, <1>3, <2>2
    <3>2. q[j] = v[j - (i - 1)]
      BY <1>2, <1>3, <1>4, <3>1
    <3>3. v[j - (i - 1)] = s[(j - (i - 1)) + i] /\ (j - (i - 1)) + i = j + 1
      BY <1>1, <1>3, <3>1
    <3> QED BY <2>2, <3>2, <3>3
  <2> QED BY <2>1, <2>2
<1> QED BY <1>5, <1>6 DEF L

\* vfs_remove takes a node and all that is below it out of the tree, closes the gap in
\* its parent's list and leaves every other list as it was.  The parent stays: its rank
\* is lower, and what leads to it has a lower one still.
LEMMA RemovedTree ==
    ASSUME Links, NEW parent \in Reach, NEW n \in ToSet(Kids(parent)), vfs_remove(parent, n)
    PROVE  /\ Reach' \subseteq Reach /\ n \in Reach /\ n \notin Reach' /\ parent \in Reach'
           /\ \A m \in Reach \ Reach' : ToSet(Kids(m)) \subseteq Reach \ Reach'
           /\ \A m \in (Reach \ Reach') \ {n} : \E p \in Reach \ Reach' : m \in ToSet(Kids(p))
           /\ \E i \in 1 .. Len(Kids(parent)) :
                 /\ Kids(parent)[i] = n
                 /\ \A d \in Reach' :
                       Kids(d)' = IF d = parent THEN RemoveAt(Kids(d), i) ELSE Kids(d)
<1>0. TreeFacts /\ TreeFacts'
  BY TreeFactsNow, TreeFactsNext
<1>1. /\ Reach \subseteq live /\ parent \in live /\ NULL \notin Node /\ live \subseteq Node
      /\ ToSet(Kids(parent)) \subseteq Reach /\ n \in Reach
  BY <1>0, VfsAssumption DEF TreeFacts, Links
<1>2. PICK k : k = Kids(parent)
  OBVIOUS
<1>3. PICK q : q = vnode[n].next
  OBVIOUS
<1>4. /\ Links' /\ live' = live \ {n} /\ n \in live \ {Root}
      /\ \E i \in 1 .. Len(k) :
            /\ k[i] = n
            /\ \A x \in live' :
                 /\ vnode'[x].parent = vnode[x].parent
                 /\ vnode'[x].child = IF i = 1 /\ x = parent THEN q ELSE vnode[x].child
                 /\ vnode'[x].next = IF i # 1 /\ x = k[i - 1] THEN q ELSE vnode[x].next
  BY <1>1, <1>2, <1>3, RemovedLinks
<1>5. PICK i \in 1 .. Len(k) :
            /\ k[i] = n
            /\ \A x \in live' :
                 /\ vnode'[x].parent = vnode[x].parent
                 /\ vnode'[x].child = IF i = 1 /\ x = parent THEN q ELSE vnode[x].child
                 /\ vnode'[x].next = IF i # 1 /\ x = k[i - 1] THEN q ELSE vnode[x].next
  BY <1>4
<1>6. ListOf(k, parent) /\ ToSet(k) \subseteq Reach /\ Grown(Reach) /\ Root \in live
  BY <1>0, <1>1, <1>2 DEF TreeFacts, Links
<1>7. /\ k \in Seq(live) /\ DOMAIN k = 1 .. Len(k) /\ Len(k) \in Nat /\ k # << >>
      /\ \A j \in 1 .. Len(k) : k[j] \in live /\ vnode[k[j]].parent = parent
  <2>1. k \in Seq(live) /\ DOMAIN k = 1 .. Len(k) /\ Len(k) \in Nat
    BY <1>6 DEF ListOf
  <2>2. k # << >>
    BY <1>5, <2>1
  <2>3. \A j \in 1 .. Len(k) : k[j] \in live /\ vnode[k[j]].parent = parent
    BY <1>6, <2>1 DEF ListOf
  <2> QED BY <2>1, <2>2, <2>3
<1>8. PICK rank \in [Node -> Nat] : Ranks(rank)
  BY DEF Links, Acyclic
<1>9. rank[parent] < rank[n]
  BY <1>1, <1>8, KidsRank
<1>10. IF i = 1 THEN vnode[parent].child = n ELSE k[i - 1] \in live /\ vnode[k[i - 1]].next = n
  <2>1. CASE i = 1
    BY <1>5, <1>6, <1>7, <2>1 DEF ListOf
  <2>2. CASE i # 1
    <3>1. i - 1 \in 1 .. Len(k) - 1 /\ i - 1 \in 1 .. Len(k) /\ (i - 1) + 1 = i
      BY <1>7, <2>2
    <3>2. vnode[k[i - 1]].next = k[(i - 1) + 1]
      BY <1>6, <3>1 DEF ListOf
    <3> QED BY <1>5, <1>7, <2>2, <3>1, <3>2
  <2> QED BY <2>1, <2>2
<1>11. \A x, y \in live' : /\ Points(x, y) => Points(x, y)'
                           /\ Points(x, y)' => Points(x, y) \/ Points(n, y)
  <2>1. n \notin live'
    BY <1>4
  <2> QED BY <1>3, <1>5, <1>10, <2>1 DEF Points
<1>12. Reach' \subseteq Reach /\ n \notin Reach' /\ Root \in Reach' /\ Grown(Reach)'
  <2>1. PICK R : R = Reach \ {n}
    OBVIOUS
  <2>2. R \subseteq live' /\ Root \in R
    BY <1>1, <1>4, <1>6, <2>1 DEF Grown
  <2>3. \A x \in R, y \in live' : Points(x, y)' => y \in R
    <3> SUFFICES ASSUME NEW x \in R, NEW y \in live', Points(x, y)' PROVE y \in R
      OBVIOUS
    <3>1. y \in live /\ y # n /\ x \in live' /\ x \in Reach
      BY <1>4, <2>1, <2>2
    <3>2. Points(x, y) \/ Points(n, y)
      BY <1>11, <3>1
    <3>3. y \in Reach
      BY <1>1, <1>6, <3>1, <3>2 DEF Grown
    <3> QED BY <2>1, <3>1, <3>3
  <2>4. (\A Q : Q \subseteq live /\ Root \in Q /\ (\A x \in Q, y \in live : Points(x, y) => y \in Q)
                => Reach \subseteq Q)'
    BY <1>0, <1>4 DEF TreeFacts
  <2>5. Reach' \subseteq R
    BY <2>2, <2>3, <2>4
  <2>6. Grown(Reach)'
    BY <1>0, <1>4, <1>6 DEF TreeFacts
  <2>7. Root \in Reach'
    BY <2>6 DEF Grown
  <2> QED BY <2>1, <2>5, <2>6, <2>7
<1>13. parent \in Reach'
  <2> DEFINE Bad == {x \in Reach \ Reach' : rank[x] < rank[n]}
             T == {rank[x] : x \in Bad}
  <2> SUFFICES ASSUME parent \notin Reach' PROVE FALSE
    OBVIOUS
  <2>1. T \subseteq Nat /\ T # {}
    BY <1>1, <1>9
  <2>2. PICK t \in T : \A j \in T : t <= j
    <3> HIDE DEF T
    <3> QED BY <2>1, Least
  <2>3. PICK x \in Bad : t = rank[x]
    OBVIOUS
  <2>4. x # Root /\ x \in Reach
    BY <1>12, <2>3
  <2>5. PICK y \in Reach : Points(y, x)
    BY <1>6, <2>4 DEF Grown
  <2>6. /\ x \in live /\ y \in live /\ rank[y] < rank[x] /\ rank[x] < rank[n]
        /\ rank[x] \in Nat /\ rank[y] \in Nat /\ rank[n] \in Nat
    BY <1>1, <1>8, <2>3, <2>4, <2>5 DEF Ranks
  <2>7. x \in live' /\ y \in live' /\ y \notin Bad
    <3>1. x # n /\ y # n /\ rank[y] < rank[n]
      BY <2>6
    <3>2. ASSUME y \in Bad PROVE FALSE
      <4>1. rank[y] \in T
        BY <3>2
      <4>2. rank[x] <= rank[y]
        BY <2>2, <2>3, <4>1
      <4> QED BY <2>6, <4>2
    <3> QED BY <1>4, <2>6, <3>1, <3>2
  <2>8. y \in Reach'
    BY <2>5, <2>6, <2>7
  <2>9. Points(y, x)'
    BY <1>11, <2>5, <2>7
  <2>10. x \in Reach'
    BY <1>12, <2>7, <2>8, <2>9 DEF Grown
  <2> QED BY <2>3, <2>10
<1>14. Reach' \subseteq live'
  BY <1>12 DEF Grown
<1>15. \A d \in live', s \in Seq(live') : Linked(s, d)' => Kids(d)' = s
  <2>1. (\A d \in live : \A s \in Seq(live) : Linked(s, d) => Kids(d) = s)'
    BY <1>0, <1>4 DEF TreeFacts
  <2> QED BY <2>1
<1>16. ASSUME NEW d \in Reach', d # parent PROVE Kids(d)' = Kids(d)
  <2>1. PICK h : h = Kids(d)
    OBVIOUS
  <2>2. ListOf(h, d) /\ d \in live'
    BY <1>0, <1>12, <1>14, <2>1 DEF TreeFacts
  <2>3. h \in Seq(live) /\ DOMAIN h = 1 .. Len(h) /\ Len(h) \in Nat
        /\ \A j \in 1 .. Len(h) : h[j] \in live /\ vnode[h[j]].parent = d
    BY <2>2 DEF ListOf
  <2>4. h # << >> => Len(h) \in 1 .. Len(h)
    BY <2>3
  <2>5. \A j \in 1 .. Len(h) : h[j] \in live'
    BY <1>4, <1>5, <1>7, <1>16, <2>3
  <2>6. \A j \in 1 .. Len(h) : vnode'[h[j]].next = vnode[h[j]].next
    <3>1. i # 1 => vnode[k[i - 1]].parent = parent
      <4>1. i # 1 => i - 1 \in 1 .. Len(k)
        BY <1>5, <1>7
      <4> QED BY <1>7, <4>1
    <3> TAKE j \in 1 .. Len(h)
    <3>2. h[j] \in live' /\ vnode[h[j]].parent = d
      BY <2>3, <2>5
    <3>3. ~(i # 1 /\ h[j] = k[i - 1])
      BY <1>16, <3>1, <3>2
    <3> QED BY <1>5, <3>2, <3>3
  <2>7. vnode'[d].child = vnode[d].child
    BY <1>5, <1>16, <2>2
  <2>8. Linked(h, d)'
    <3>1. h = << >> <=> vnode'[d].child = NULL
      BY <2>2, <2>7 DEF ListOf
    <3>2. h # << >> => h[1] = vnode'[d].child /\ vnode'[h[Len(h)]].next = NULL
      BY <2>2, <2>4, <2>6, <2>7 DEF ListOf
    <3>3. \A j \in 1 .. Len(h) - 1 : vnode'[h[j]].next = h[j + 1]
      <4> TAKE j \in 1 .. Len(h) - 1
      <4>1. j \in 1 .. Len(h)
        BY <2>3
      <4>2. vnode[h[j]].next = h[j + 1]
        BY <2>2 DEF ListOf
      <4> QED BY <2>6, <4>1, <4>2
    <3> QED BY <3>1, <3>2, <3>3 DEF Linked
  <2>9. h \in Seq(live')
    BY <2>3, <2>5
  <2> QED BY <1>15, <2>1, <2>2, <2>8, <2>9
<1>a. PICK h : h = RemoveAt(k, i)
  OBVIOUS
<1>b. /\ h \in Seq(live) /\ Len(h) = Len(k) - 1
      /\ \A j \in 1 .. Len(k) - 1 : h[j] = IF j < i THEN k[j] ELSE k[j + 1]
  BY <1>7, <1>a, RemovedAt
<1>17. Kids(parent)' = RemoveAt(Kids(parent), i)
  <2> DEFINE L == Len(k)
  <2>2. /\ h \in Seq(live) /\ Len(h) = L - 1 /\ L \in Nat /\ i \in 1 .. L
        /\ \A j \in 1 .. L - 1 : h[j] = IF j < i THEN k[j] ELSE k[j + 1]
    BY <1>7, <1>b
  <2>3. /\ \A j \in 1 .. L - 1 : vnode[k[j]].next = k[j + 1]
        /\ \A j, m \in 1 .. L : k[j] = k[m] => j = m
        /\ k[1] = vnode[parent].child /\ vnode[k[L]].next = NULL
        /\ \A j \in 1 .. L : k[j] \in live
    BY <1>6, <1>7 DEF ListOf
  <2> HIDE DEF L
  <2>4. \A j \in 1 .. L : j # i => k[j] \in live'
    BY <1>4, <1>5, <2>2, <2>3
  <2>5. \A j \in 1 .. L : j # i =>
           vnode'[k[j]].next = IF j = i - 1 THEN q ELSE vnode[k[j]].next
    <3> SUFFICES ASSUME NEW j \in 1 .. L, j # i
                 PROVE  vnode'[k[j]].next = IF j = i - 1 THEN q ELSE vnode[k[j]].next
      OBVIOUS
    <3>1. vnode'[k[j]].next = IF i # 1 /\ k[j] = k[i - 1] THEN q ELSE vnode[k[j]].next
      BY <1>5, <2>4
    <3>2. i # 1 => (k[j] = k[i - 1] <=> j = i - 1)
      <4>1. i # 1 => i - 1 \in 1 .. L
        BY <2>2
      <4> QED BY <2>3, <4>1
    <3>3. i = 1 => j # i - 1
      BY <2>2
    <3> QED BY <3>1, <3>2, <3>3
  <2>6. q = IF i = L THEN NULL ELSE k[i + 1]
    <3>1. CASE i = L
      BY <1>3, <1>5, <2>3, <3>1
    <3>2. CASE i # L
      <4>1. i \in 1 .. L - 1
        BY <2>2, <3>2
      <4> QED BY <1>3, <1>5, <2>3, <3>2, <4>1
    <3> QED BY <3>1, <3>2
  <2>7. h \in Seq(live')
    <3>1. \A j \in 1 .. L - 1 : h[j] \in live'
      BY <2>2, <2>4
    <3> QED BY <2>2, <3>1
  <2>8. parent \in live' /\ vnode'[parent].child = IF i = 1 THEN q ELSE k[1]
    BY <1>5, <1>13, <1>14, <2>3
  <2>9. h = << >> <=> vnode'[parent].child = NULL
    <3>1. h = << >> <=> L = 1
      BY <2>2
    <3>2. L = 1 => i = 1 /\ i = L
      BY <2>2
    <3>3. L # 1 => k[1] # NULL /\ (i = 1 => q # NULL)
      <4>1. L # 1 => 1 \in 1 .. L /\ 2 \in 1 .. L
        BY <2>2
      <4> QED BY <1>1, <2>3, <2>6, <4>1
    <3> QED BY <2>6, <2>8, <3>1, <3>2, <3>3
  <2>10. ASSUME h # << >> PROVE h[1] = vnode'[parent].child /\ vnode'[h[Len(h)]].next = NULL
    <3>0. L - 1 \in 1 .. L - 1 /\ 1 \in 1 .. L - 1 /\ 1 + 1 = 2 /\ (L - 1) + 1 = L
      BY <2>2, <2>10
    <3>1. h[1] = vnode'[parent].child
      <4>1. CASE i = 1
        <5>1. h[1] = k[1 + 1] /\ i # L
          BY <2>2, <3>0, <4>1
        <5> QED BY <2>6, <2>8, <4>1, <5>1
      <4>2. CASE i # 1
        <5>1. h[1] = k[1]
          BY <2>2, <3>0, <4>2
        <5> QED BY <2>8, <4>2, <5>1
      <4> QED BY <4>1, <4>2
    <3>2. vnode'[h[L - 1]].next = NULL
      <4>1. CASE i = L
        <5>1. h[L - 1] = k[L - 1] /\ L - 1 \in 1 .. L /\ L - 1 # i
          BY <2>2, <3>0, <4>1
        <5> QED BY <2>5, <2>6, <4>1, <5>1
      <4>2. CASE i # L
        <5>1. h[L - 1] = k[(L - 1) + 1] /\ L \in 1 .. L /\ L # i - 1
          BY <2>2, <3>0, <4>2
        <5> QED BY <2>3, <2>5, <3>0, <4>2, <5>1
      <4> QED BY <4>1, <4>2
    <3> QED BY <2>2, <3>1, <3>2
  <2>11. ASSUME NEW j \in 1 .. Len(h) - 1 PROVE vnode'[h[j]].next = h[j + 1]
    <3>0. j \in 1 .. L - 1 /\ j + 1 \in 1 .. L - 1 /\ j \in 1 .. L /\ j + 1 \in 1 .. L
          /\ (j + 1) + 1 \in 1 .. L
      BY <2>2
    <3>1. CASE j + 1 < i
      <4>1. h[j] = k[j] /\ h[j + 1] = k[j + 1] /\ j # i /\ j # i - 1
        BY <2>2, <3>0, <3>1
      <4> QED BY <2>3, <2>5, <3>0, <4>1
    <3>2. CASE j + 1 = i
      <4>1. h[j] = k[j] /\ h[j + 1] = k[i + 1] /\ j # i /\ j = i - 1 /\ i # L
        BY <2>2, <3>0, <3>2
      <4> QED BY <2>5, <2>6, <3>0, <4>1
    <3>3. CASE j + 1 > i
      <4>1. h[j] = k[j + 1] /\ h[j + 1] = k[(j + 1) + 1] /\ j + 1 # i /\ j + 1 # i - 1
        BY <2>2, <3>0, <3>3
      <4> QED BY <2>3, <2>5, <3>0, <4>1
    <3> QED BY <2>2, <3>0, <3>1, <3>2, <3>3
  <2>12. Linked(h, parent)'
    BY <2>9, <2>10, <2>11 DEF Linked
  <2> QED BY <1>2, <1>15, <1>a, <2>7, <2>8, <2>12
<1>18. ASSUME NEW m \in Reach \ Reach' PROVE ToSet(Kids(m)) \subseteq Reach \ Reach'
  <2> SUFFICES ASSUME NEW c \in ToSet(Kids(m)) PROVE c \in Reach \ Reach'
    OBVIOUS
  <2>1. PICK list : list = Kids(m)
    OBVIOUS
  <2>2. ListOf(list, m) /\ c \in Reach /\ c \in ToSet(list)
    BY <1>0, <2>1 DEF TreeFacts
  <2>3. vnode[c].parent = m /\ c # Root
    BY <2>2 DEF ListOf, ToSet
  <2>4. ASSUME c \in Reach' PROVE FALSE
    <3>1. vnode'[c].parent = m
      BY <1>5, <1>14, <2>3, <2>4
    <3>2. (\A x \in Reach \ {Root} : vnode[x].parent \in Reach)'
      BY <1>0, <1>4 DEF TreeFacts
    <3>3. vnode'[c].parent \in Reach'
      BY <2>3, <2>4, <3>2
    <3> QED BY <1>18, <3>1, <3>3
  <2> QED BY <2>2, <2>4
<1>19. ASSUME NEW m \in (Reach \ Reach') \ {n} PROVE \E p \in Reach \ Reach' : m \in ToSet(Kids(p))
  <2>1. PICK p : p = vnode[m].parent
    OBVIOUS
  <2>2. p \in Reach /\ m \in ToSet(Kids(p))
    BY <1>0, <1>12, <2>1 DEF TreeFacts
  <2>3. ASSUME p \in Reach' PROVE FALSE
    <3>1. (\A d \in Reach : ToSet(Kids(d)) \subseteq Reach)'
      BY <1>0, <1>4 DEF TreeFacts
    <3>2. ToSet(Kids(p)') \subseteq Reach'
      BY <2>3, <3>1
    <3>3. CASE p # parent
      BY <1>16, <2>2, <2>3, <3>2, <3>3
    <3>4. CASE p = parent
      <4>2. Kids(p)' = h /\ m \in ToSet(k)
        BY <1>2, <1>17, <1>a, <2>2, <3>4
      <4>4. PICK j \in 1 .. Len(k) : k[j] = m
        BY <1>7, <4>2 DEF ToSet
      <4>5. j # i
        BY <1>5, <4>4
      <4>6. \E o \in 1 .. Len(h) : h[o] = m
        <5>1. CASE j < i
          BY <1>7, <1>b, <4>4, <5>1
        <5>2. CASE j > i
          <6>1. j - 1 \in 1 .. Len(k) - 1 /\ ~(j - 1 < i) /\ (j - 1) + 1 = j
            BY <1>7, <4>4, <5>2
          <6> QED BY <1>b, <4>4, <6>1
        <5> QED BY <4>5, <5>1, <5>2
      <4>7. m \in ToSet(h)
        BY <1>b, <4>6 DEF ToSet
      <4> QED BY <3>2, <4>2, <4>7
    <3> QED BY <3>3, <3>4
  <2> QED BY <2>2, <2>3
<1>20. \A d \in Reach' : Kids(d)' = IF d = parent THEN RemoveAt(Kids(d), i) ELSE Kids(d)
  BY <1>16, <1>17
<1>21. \E j \in 1 .. Len(Kids(parent)) :
          /\ Kids(parent)[j] = n
          /\ \A d \in Reach' : Kids(d)' = IF d = parent THEN RemoveAt(Kids(d), j) ELSE Kids(d)
  BY <1>2, <1>5, <1>20
<1> QED BY <1>1, <1>12, <1>13, <1>18, <1>19, <1>21

--------------------------------------------------------------------------------
(* Lookup *)

\* vfs_search_node finds a child of the node it is given, or nothing.
LEMMA SearchFinds ==
    ASSUME Links, NEW parent \in live \cup {NULL}, NEW name
    PROVE  /\ vfs_search_node(parent, name) \in live \cup {NULL}
           /\ vfs_search_node(parent, name) # NULL =>
                 parent \in live /\ vnode[vfs_search_node(parent, name)].parent = parent
<1> DEFINE k == Kids(parent)
           hits == {i \in DOMAIN k : vnode[k[i]].name = name}
<1>1. vfs_search_node(parent, name) = IF parent = NULL \/ hits = {} THEN NULL ELSE k[Min(hits)]
  BY DEF vfs_search_node
<1>2. CASE parent = NULL \/ hits = {}
  BY <1>1, <1>2
<1>3. CASE parent # NULL /\ hits # {}
  <2>1. ListOf(k, parent) /\ parent \in live
    BY <1>3, KidsList
  <2> HIDE DEF k
  <2>2. k \in Seq(live \ {Root}) /\ DOMAIN k = 1 .. Len(k)
    BY <2>1 DEF ListOf
  <2>3. hits \subseteq Nat
    BY <2>2
  <2>4. Min(hits) \in hits
    <3> HIDE DEF hits
    <3>1. \E i \in hits : \A j \in hits : i <= j
      BY <1>3, <2>3, Least
    <3> QED BY <3>1 DEF Min
  <2>5. Min(hits) \in 1 .. Len(k)
    BY <2>2, <2>4
  <2> HIDE DEF hits
  <2>6. k[Min(hits)] \in live /\ vnode[k[Min(hits)]].parent = parent
    BY <2>1, <2>2, <2>5 DEF ListOf
  <2> QED BY <1>1, <1>3, <2>1, <2>6
<1> QED BY <1>2, <1>3

\* at holds the nodes that are met on the way along a path.
Along(at, names) ==
    /\ at[0] = Root
    /\ \A k \in 1 .. Len(names) : at[k] = vfs_search_node(at[k - 1], names[k])

\* vfs_traverse_path goes down one component at a time.
LEMMA TraverseUnfold ==
    ASSUME Links, Root \in live, NEW names \in Seq(Name)
    PROVE  \E at \in [0 .. Len(names) -> live \cup {NULL}] :
              Along(at, names) /\ vfs_traverse_path(names) = at[Len(names)]
<1> DEFINE V == live \cup {NULL}
           L == Len(names)
           Rec(f, k) == IF k = 0 THEN Root ELSE vfs_search_node(f[k - 1], names[k])
           step == [k \in 1 .. L |-> [q \in V |-> vfs_search_node(q, names[k])]]
           at == CHOOSE at : at = [k \in 0 .. L |-> Rec(at, k)]
<1>0. L \in Nat
  OBVIOUS
<1>1. step \in [1 .. L -> [V -> V]]
  BY SearchFinds
<1>2. PICK f \in [0 .. L -> V] : Iterates(f, L, Root, step)
  <2>1. Root \in V
    OBVIOUS
  <2> HIDE DEF V, L, step
  <2> QED BY <1>0, <1>1, <2>1, Iteration
<1>3. ASSUME NEW k \in 0 .. L PROVE f[k] = Rec(f, k)
  <2>1. CASE k = 0
    BY <1>2, <2>1 DEF Iterates
  <2>2. CASE k # 0
    <3>1. k \in 1 .. L /\ f[k - 1] \in V
      BY <1>0, <2>2
    <3> QED BY <1>2, <2>2, <3>1 DEF Iterates
  <2> QED BY <2>1, <2>2
<1>4. f = [k \in 0 .. L |-> Rec(f, k)]
  <2> HIDE DEF Rec, V
  <2> QED BY <1>3
<1>5. at = [k \in 0 .. L |-> Rec(at, k)]
  <2> HIDE DEF L, Rec
  <2> QED BY <1>4
<1>6. vfs_traverse_path(names) = at[L]
  BY DEF vfs_traverse_path
<1> HIDE DEF at
<1>7. \A k \in 0 .. L : at[k] = Rec(at, k)
  <2> HIDE DEF Rec
  <2> QED BY <1>5
<1>8. at[0] = Root /\ \A k \in 1 .. L : at[k] = vfs_search_node(at[k - 1], names[k])
  BY <1>0, <1>7
<1>9. \A k \in 0 .. L : at[k] \in V
  <2> DEFINE S == {k \in 0 .. L : at[k] \in V}
  <2>1. 0 \in S
    BY <1>0, <1>8
  <2>2. ASSUME NEW k \in 1 .. L, k - 1 \in S PROVE k \in S
    <3>1. at[k - 1] \in V /\ at[k] = vfs_search_node(at[k - 1], names[k])
      BY <2>2, <1>8
    <3>2. at[k] \in V
      BY <3>1, SearchFinds
    <3> QED BY <3>2
  <2>3. 0 .. L \subseteq S
    <3> HIDE DEF S, L
    <3> QED BY <1>0, <2>1, <2>2, Induction
  <2> QED BY <2>3
<1>10. at \in [0 .. L -> V]
  <2> HIDE DEF Rec, V, L
  <2> QED BY <1>5, <1>9
<1>11. Along(at, names)
  BY <1>8 DEF Along
<1> QED BY <1>6, <1>10, <1>11

\* The last component is looked up in what the others lead to.
LEMMA TraverseLast ==
    ASSUME Links, Root \in live, NEW names \in Seq(Name), names # << >>
    PROVE  /\ vfs_traverse_path(Front(names)) \in live \cup {NULL}
           /\ vfs_traverse_path(names) =
                 vfs_search_node(vfs_traverse_path(Front(names)), names[Len(names)])
<1> DEFINE L == Len(names)
           front == Front(names)
<1>1. L \in Nat \ {0} /\ front \in Seq(Name) /\ Len(front) = L - 1
      /\ \A k \in 1 .. L - 1 : front[k] = names[k]
  <2>1. L \in Nat \ {0}
    OBVIOUS
  <2>2. front \in Seq(Name) /\ Len(front) = L - 1
    <3>1. \A i \in 1 .. L - 1 : names[i] \in Name
      OBVIOUS
    <3>2. SubSeq(names, 1, L - 1) \in Seq(Name)
          /\ Len(SubSeq(names, 1, L - 1)) = IF 1 <= L - 1 THEN (L - 1) - 1 + 1 ELSE 0
      <4> HIDE DEF L
      <4>1. 1 \in Int /\ L - 1 \in Int
        BY <2>1
      <4> QED BY <3>1, <4>1, SubSeqProperties
    <3>3. front = SubSeq(names, 1, L - 1)
      BY DEF Front
    <3> HIDE DEF front, L
    <3>4. 1 <= L - 1 \/ L - 1 = 0
      BY <2>1
    <3>5. (IF 1 <= L - 1 THEN (L - 1) - 1 + 1 ELSE 0) = L - 1
      BY <2>1, <3>4
    <3> QED BY <3>2, <3>3, <3>5, Zenon
  <2>3. \A k \in 1 .. L - 1 : front[k] = names[k]
    BY <2>1 DEF Front
  <2> QED BY <2>1, <2>2, <2>3
<1> HIDE DEF front
<1>2. PICK at \in [0 .. L -> live \cup {NULL}] :
         Along(at, names) /\ vfs_traverse_path(names) = at[L]
  BY TraverseUnfold
<1>3. PICK bt \in [0 .. L - 1 -> live \cup {NULL}] :
         Along(bt, front) /\ vfs_traverse_path(front) = bt[L - 1]
  BY <1>1, TraverseUnfold
<1> HIDE DEF L
<1>4. at[L - 1] = bt[L - 1]
  <2> DEFINE S == {k \in 0 .. L - 1 : at[k] = bt[k]}
  <2>1. 0 \in S
    BY <1>1, <1>2, <1>3 DEF Along
  <2>2. ASSUME NEW k \in 1 .. L - 1, k - 1 \in S PROVE k \in S
    <3>1. k \in 1 .. L /\ k \in 1 .. Len(front) /\ front[k] = names[k]
      BY <1>1
    <3>2. at[k] = vfs_search_node(at[k - 1], names[k])
      BY <1>2, <3>1 DEF Along, L
    <3>3. bt[k] = vfs_search_node(bt[k - 1], front[k])
      BY <1>3, <3>1 DEF Along
    <3> QED BY <2>2, <3>1, <3>2, <3>3
  <2>3. 0 .. L - 1 \subseteq S
    <3>1. L - 1 \in Nat
      BY <1>1
    <3> HIDE DEF S
    <3> QED BY <3>1, <2>1, <2>2, Induction
  <2> QED BY <1>1, <2>3
<1>5. at[L] = vfs_search_node(at[L - 1], names[L])
  BY <1>1, <1>2 DEF Along, L
<1>6. bt[L - 1] \in live \cup {NULL}
  BY <1>1
<1> QED BY <1>2, <1>3, <1>4, <1>5, <1>6 DEF front, L

--------------------------------------------------------------------------------
(* Numbers and strings *)

\* What % gives for a positive modulus.
LEMMA Modulo ==
    ASSUME NEW x \in Int, NEW m \in Nat \ {0}
    PROVE  /\ x % m \in 0 .. m - 1
           /\ x \in Nat => x % m <= x
           /\ x \in 0 .. m - 1 => x % m = x
  OBVIOUS

\* strspn stops at the first character that is not accepted or at the end.
LEMMA StrspnStops ==
    ASSUME NEW C, NEW s \in Seq(C), NEW i \in 1 .. Len(s) + 1, NEW accept
    PROVE  LET j == i + strspn(s, i, accept)
           IN  /\ j \in i .. Len(s) + 1
               /\ j <= Len(s) => s[j] \notin accept
               /\ \A k \in i .. j - 1 : s[k] \in accept
<1> DEFINE T == {j \in i .. Len(s) + 1 : j > Len(s) \/ s[j] \notin accept}
<1>1. T \subseteq Nat /\ Len(s) + 1 \in T
  OBVIOUS
<1>2. PICK j \in T : \A k \in T : j <= k
  <2> HIDE DEF T
  <2> QED BY <1>1, Least
<1> DEFINE P(x) == /\ x > Len(s) \/ ~(s[x] \in accept)
                   /\ \A k \in i .. x - 1 : s[k] \in accept
<1>3. P(j) /\ j \in i .. Len(s) + 1
  BY <1>2
<1> DEFINE c == CHOOSE x \in i .. Len(s) + 1 : P(x)
<1>4. P(c) /\ c \in i .. Len(s) + 1
  <2> HIDE DEF P
  <2> QED BY <1>3
<1>5. strspn(s, i, accept) = c - i
  BY DEF strspn, SpanLength
<1> HIDE DEF c
<1> QED BY <1>4, <1>5

\* strcspn goes on at least one character from where one is not rejected.
LEMMA StrcspnStops ==
    ASSUME NEW C, NEW s \in Seq(C), NEW i \in 1 .. Len(s), NEW reject,
           s[i] \notin reject, s[i] # NUL
    PROVE  i + strcspn(s, i, reject) \in i + 1 .. Len(s) + 1
<1> DEFINE T == {j \in i .. Len(s) + 1 : j > Len(s) \/ s[j] \in reject \cup {NUL}}
<1>1. T \subseteq Nat /\ Len(s) + 1 \in T
  OBVIOUS
<1>2. PICK j \in T : \A k \in T : j <= k
  <2> HIDE DEF T
  <2> QED BY <1>1, Least
<1> DEFINE P(x) == /\ x > Len(s) \/ ~(s[x] \notin reject \cup {NUL})
                   /\ \A k \in i .. x - 1 : s[k] \notin reject \cup {NUL}
<1>3. P(j) /\ j \in i .. Len(s) + 1
  BY <1>2
<1> DEFINE c == CHOOSE x \in i .. Len(s) + 1 : P(x)
<1>4. P(c) /\ c \in i .. Len(s) + 1
  <2> HIDE DEF P
  <2> QED BY <1>3
<1>5. strcspn(s, i, reject) = c - i
  BY DEF strcspn, SpanLength
<1> HIDE DEF c
<1> QED BY <1>4, <1>5

\* What is in a name while strtok works on it.
Char == STRING \cup {NUL}

\* The headers' names: strtok only ever writes NUL into them.
Headers(mem) ==
    /\ mem \in [1 .. Len(archive) -> Seq(Char)]
    /\ \A k \in 1 .. Len(archive) :
          /\ Len(mem[k]) = Len(archive[k].name)
          /\ ~Skipped(archive[k].name) =>
                \A i \in NameStart(archive[k].name) .. Len(archive[k].name) :
                    mem[k][i] \in Name \cup {"/", NUL}

\* p points into a name that is parsed, at most to its end.
NamePtr(p) ==
    /\ p \in [buf : 1 .. Len(archive), at : Nat]
    /\ ~Skipped(archive[p.buf].name)
    /\ p.at \in NameStart(archive[p.buf].name) .. Len(archive[p.buf].name) + 1

\* p points to a path component.
OnWord(mem, p) ==
    /\ NamePtr(p) /\ p.at <= Len(mem[p.buf])
    /\ mem[p.buf][p.at] \in Name \ {"/", NUL}

\* strtok leaves every name as it was except for NULs, stays in the name it was in, and
\* returns NULL or a component; it does return one if it starts on one.
LEMMA StrtokStep ==
    ASSUME archive \in Seq(Header), NEW mem, Headers(mem), NEW str, NEW lst, NEW p,
           p = IF str = NullPtr THEN lst ELSE str, p = NullPtr \/ NamePtr(p),
           NEW r, r = strtok(mem, str, lst, {"/"})
    PROVE  /\ r = [mem |-> r.mem, last |-> r.last, token |-> r.token]
           /\ Headers(r.mem)
           /\ p # NullPtr /\ OnWord(mem, p) => r.token # NullPtr
           /\ \/ r.token = NullPtr /\ r.last = lst
              \/ /\ p # NullPtr /\ r.token.buf = p.buf /\ r.last.buf = p.buf
                 /\ OnWord(mem, r.token) /\ OnWord(r.mem, r.token) /\ NamePtr(r.last)
<1> DEFINE s == mem[p.buf]
           start == p.at + strspn(s, p.at, {"/"})
           end == start + strcspn(s, start, {"/"})
           more == CharAt(s, end) # NUL
<1>1. r = IF p = NullPtr \/ CharAt(s, start) = NUL
          THEN [mem |-> mem, last |-> lst, token |-> NullPtr]
          ELSE [mem |-> IF more THEN [mem EXCEPT ![p.buf][end] = NUL] ELSE mem,
                last |-> [p EXCEPT !.at = IF more THEN end + 1 ELSE end],
                token |-> [p EXCEPT !.at = start]]
  BY DEF strtok
<1>a. r = [mem |-> r.mem, last |-> r.last, token |-> r.token]
  <2> HIDE DEF s, start, end, more
  <2> QED BY <1>1
<1>b. p # NullPtr /\ OnWord(mem, p) => CharAt(s, start) # NUL
  <2> SUFFICES ASSUME OnWord(mem, p) PROVE CharAt(s, start) # NUL
    OBVIOUS
  <2>1. p.buf \in 1 .. Len(archive) /\ s \in Seq(Char) /\ p.at \in 1 .. Len(s)
        /\ s[p.at] # "/" /\ s[p.at] # NUL
    BY DEF OnWord, NamePtr, Headers, NameStart
  <2>2. p.at \in 1 .. Len(s) + 1
    BY <2>1
  <2> HIDE DEF s
  <2>3. start \in p.at .. Len(s) + 1 /\ \A k \in p.at .. start - 1 : s[k] \in {"/"}
    BY <2>1, <2>2, StrspnStops
  <2> HIDE DEF start
  <2>4. start = p.at
    BY <2>1, <2>3
  <2> QED BY <2>1, <2>4 DEF CharAt
<1>2. CASE p = NullPtr \/ CharAt(s, start) = NUL
  <2> HIDE DEF s, start, end, more
  <2> QED BY <1>1, <1>2, <1>a, <1>b
<1>3. CASE p # NullPtr /\ CharAt(s, start) # NUL
  <2> DEFINE first == NameStart(archive[p.buf].name)
             length == Len(archive[p.buf].name)
  <2>1. NamePtr(p) /\ p.buf \in 1 .. Len(archive) /\ p \in [buf : 1 .. Len(archive), at : Nat]
    BY <1>3 DEF NamePtr
  <2>2. s \in Seq(Char) /\ Len(s) = length /\ length \in Nat
        /\ \A i \in first .. length : s[i] \in Name \cup {"/", NUL}
    <3>1. mem[p.buf] \in Seq(Char) /\ Len(mem[p.buf]) = Len(archive[p.buf].name)
      BY <2>1 DEF Headers
    <3>2. ~Skipped(archive[p.buf].name)
      BY <2>1 DEF NamePtr
    <3>3. \A i \in first .. length : s[i] \in Name \cup {"/", NUL}
      BY <2>1, <3>2, Zenon DEF Headers
    <3> QED BY <3>1, <3>3
  <2>3. first \in Nat \ {0} /\ p.at \in first .. length + 1 /\ p.at \in 1 .. Len(s) + 1
    BY <2>1, <2>2 DEF NamePtr, NameStart
  <2> HIDE DEF s, first, length
  <2>4. start \in p.at .. Len(s) + 1 /\ (start <= Len(s) => s[start] # "/")
    BY <2>2, <2>3, StrspnStops
  <2>5. start \in 1 .. Len(s) /\ start \in first .. length /\ s[start] # NUL /\ s[start] # "/"
    BY <1>3, <2>2, <2>3, <2>4 DEF CharAt
  <2> HIDE DEF start
  <2>6. end \in start + 1 .. Len(s) + 1
    BY <2>2, <2>5, StrcspnStops
  <2>7. more => end \in start + 1 .. Len(s)
    BY <2>2, <2>5, <2>6 DEF CharAt
  <2> HIDE DEF end, more
  <2>8. /\ [p EXCEPT !.at = start] = [buf |-> p.buf, at |-> start]
        /\ [p EXCEPT !.at = IF more THEN end + 1 ELSE end]
              = [buf |-> p.buf, at |-> IF more THEN end + 1 ELSE end]
    BY <2>1
  <2>9. /\ r.mem = IF more THEN [mem EXCEPT ![p.buf][end] = NUL] ELSE mem
        /\ r.token = [buf |-> p.buf, at |-> start]
        /\ r.last = [buf |-> p.buf, at |-> IF more THEN end + 1 ELSE end]
    BY <1>1, <1>3, <2>8
  <2>10. NamePtr(r.token) /\ NamePtr(r.last)
    <3>1. r.token.buf = p.buf /\ r.token.at = start /\ r.token \in [buf : 1 .. Len(archive), at : Nat]
      BY <2>1, <2>2, <2>5, <2>9
    <3>2. end \in first .. length + 1 /\ (more => end + 1 \in first .. length + 1)
      BY <2>2, <2>3, <2>5, <2>6, <2>7
    <3>3. r.last.buf = p.buf /\ r.last.at \in first .. length + 1
          /\ r.last \in [buf : 1 .. Len(archive), at : Nat]
      BY <2>1, <2>2, <2>3, <2>9, <3>2
    <3>4. start \in first .. length + 1
      BY <2>2, <2>3, <2>5
    <3> QED BY <2>1, <3>1, <3>3, <3>4 DEF NamePtr, first, length
  <2>11. OnWord(mem, r.token)
    BY <2>2, <2>5, <2>9, <2>10 DEF OnWord, s
  <2>14. r.token # NullPtr
    BY <2>1, <2>9 DEF NullPtr
  <2>12. CASE ~more
    BY <1>3, <1>a, <2>9, <2>10, <2>11, <2>12, <2>14
  <2>13. CASE more
    <3>1. r.mem = [mem EXCEPT ![p.buf] = [s EXCEPT ![end] = NUL]]
      BY <2>9, <2>13 DEF s
    <3>2. [s EXCEPT ![end] = NUL] \in Seq(Char) /\ Len([s EXCEPT ![end] = NUL]) = Len(s)
          /\ [s EXCEPT ![end] = NUL][start] = s[start]
          /\ \A i \in first .. length : [s EXCEPT ![end] = NUL][i] \in Name \cup {"/", NUL}
      <4>1. NUL \in Char /\ end \in 1 .. Len(s) /\ start # end
        BY <2>2, <2>5, <2>7, <2>13 DEF Char
      <4>2. [s EXCEPT ![end] = NUL] \in Seq(Char) /\ Len([s EXCEPT ![end] = NUL]) = Len(s)
        BY <2>2, <4>1
      <4>3. \A i \in 1 .. Len(s) : [s EXCEPT ![end] = NUL][i] = IF i = end THEN NUL ELSE s[i]
        BY <2>2, <4>1
      <4>4. first .. length \subseteq 1 .. Len(s)
        BY <2>2, <2>3
      <4> QED BY <2>2, <2>5, <4>1, <4>2, <4>3, <4>4
    <3>3. mem \in [1 .. Len(archive) -> Seq(Char)]
      BY DEF Headers
    <3>4. r.mem[p.buf] = [s EXCEPT ![end] = NUL] /\ r.mem \in [1 .. Len(archive) -> Seq(Char)]
          /\ \A k \in 1 .. Len(archive) : k # p.buf => r.mem[k] = mem[k]
      BY <2>1, <3>1, <3>2, <3>3
    <3>5. Headers(r.mem)
      <4>1. ASSUME NEW k \in 1 .. Len(archive)
            PROVE  /\ Len(r.mem[k]) = Len(archive[k].name)
                   /\ ~Skipped(archive[k].name) =>
                        \A i \in NameStart(archive[k].name) .. Len(archive[k].name) :
                            r.mem[k][i] \in Name \cup {"/", NUL}
        <5>1. CASE k = p.buf
          <6>1. r.mem[k] = [s EXCEPT ![end] = NUL]
            BY <3>4, <5>1
          <6> QED BY <2>2, <3>2, <5>1, <6>1 DEF first, length
        <5>2. CASE k # p.buf
          <6>1. r.mem[k] = mem[k]
            BY <3>4, <5>2
          <6> QED BY <6>1, Zenon DEF Headers
        <5> QED BY <5>1, <5>2
      <4> QED BY <3>4, <4>1, Zenon DEF Headers
    <3>6. OnWord(r.mem, r.token)
      <4>1. r.token.buf = p.buf /\ r.token.at = start
        BY <2>9
      <4>2. NamePtr(r.token) /\ start <= Len(s) /\ s[start] \in Name \ {"/", NUL}
        BY <2>11, <4>1 DEF OnWord, s
      <4> DEFINE t == [s EXCEPT ![end] = NUL]
      <4>3. r.mem[p.buf] = t /\ Len(t) = Len(s) /\ t[start] = s[start]
        BY <3>2, <3>4
      <4> HIDE DEF t
      <4>4. start <= Len(r.mem[p.buf]) /\ r.mem[p.buf][start] \in Name \ {"/", NUL}
        BY <4>2, <4>3
      <4> QED BY <4>1, <4>2, <4>4, Zenon DEF OnWord
    <3> QED BY <1>3, <1>a, <2>9, <2>10, <2>11, <2>14, <3>5, <3>6
  <2> QED BY <2>12, <2>13
<1> QED BY <1>2, <1>3

\* Digits have values.
LEMMA DigitType == Digit \in [ToSet(Digits) -> Int]
<1>1. \A c \in ToSet(Digits) : \E k \in DOMAIN Digits : Digits[k] = c
  BY DEF ToSet
<1>2. DOMAIN Digits \subseteq Int
  BY DEF Digits
<1> QED BY <1>1, <1>2 DEF Digit

\* strtol returns a number whatever text it is given.
LEMMA StrtolType ==
    ASSUME NEW s \in Seq(STRING)
    PROVE  strtol(s, 8) \in Int
<1> DEFINE base == 8
        signed == 1 + strspn(s, 1, Blank)
        negative == CharAt(s, signed) = "-"
        number == IF CharAt(s, signed) \in {"-", "+"} THEN signed + 1 ELSE signed
        b == BaseOf(s, number, base)[1]
        first == number + BaseOf(s, number, base)[2]
        digits == SubSeq(s, first, first - 1 + SpanLength(s, first, LAMBDA c : IsDigit(c, b)))
        Add(result, c) ==
            IF result = -1 \/ Overflows(result, Digit[c], b) THEN -1
            ELSE result * b + Digit[c]
        Rec(f, k) == IF k = 0 THEN 0 ELSE Add(f[k - 1], digits[k])
        after == CHOOSE f : f = [k \in 0 .. Len(digits) |-> Rec(f, k)]
        result == after[Len(digits)]
<1>1. strtol(s, 8) = CASE result = -1 /\ ~negative -> LONG_MAX
                       [] result = -1 /\ negative  -> -LONG_MAX - 1
                       [] OTHER -> IF negative THEN -result ELSE result
  BY DEF strtol
<1>2. signed \in 1 .. Len(s) + 1
  <2>1. 1 \in 1 .. Len(s) + 1
    OBVIOUS
  <2> QED BY <2>1, StrspnStops
<1> HIDE DEF signed
<1>3. number \in 1 .. Len(s) + 1
  BY <1>2 DEF CharAt, NUL
<1> HIDE DEF number
<1>4. b = 8 /\ first = number
  BY <1>3 DEF BaseOf
<1> HIDE DEF b, first
<1>5. digits \in Seq(ToSet(Digits))
  <2> DEFINE T == {j \in first .. Len(s) + 1 : j > Len(s) \/ ~IsDigit(s[j], b)}
  <2>1. T \subseteq Nat /\ Len(s) + 1 \in T
    BY <1>3, <1>4
  <2>2. PICK j \in T : \A k \in T : j <= k
    <3> HIDE DEF T
    <3> QED BY <2>1, Least
  <2> DEFINE P(x) == /\ x > Len(s) \/ ~IsDigit(s[x], b)
                     /\ \A k \in first .. x - 1 : IsDigit(s[k], b)
  <2>3. P(j) /\ j \in first .. Len(s) + 1
    BY <2>2, <1>3, <1>4
  <2> DEFINE c == CHOOSE x \in first .. Len(s) + 1 : P(x)
  <2>4. P(c) /\ c \in first .. Len(s) + 1
    <3> HIDE DEF P
    <3> QED BY <2>3
  <2>5. SpanLength(s, first, LAMBDA x : IsDigit(x, b)) = c - first
    BY DEF SpanLength
  <2>6. digits = SubSeq(s, first, first - 1 + (c - first))
    BY <2>5
  <2>7. c \in Int /\ first \in Int /\ first - 1 + (c - first) = c - 1 /\ c - 1 \in Int
    BY <1>3, <1>4, <2>4
  <2>8. \A k \in first .. c - 1 : s[k] \in ToSet(Digits)
    BY <2>4, DigitType DEF IsDigit
  <2>9. digits = SubSeq(s, first, c - 1)
    BY <2>6, <2>7
  <2> HIDE DEF c, digits
  <2> QED BY <2>7, <2>8, <2>9, SubSeqProperties
<1> HIDE DEF digits
<1>6. ASSUME NEW q \in Int, NEW d \in ToSet(Digits) PROVE Add(q, d) \in Int
  <2>1. Digit[d] \in Int
    BY DigitType
  <2>2. q * b + Digit[d] \in Int
    BY <1>4, <2>1
  <2> QED BY <2>2
<1> DEFINE L == Len(digits)
           step == [k \in 1 .. L |-> [q \in Int |-> Add(q, digits[k])]]
<1>7. L \in Nat /\ \A k \in 1 .. L : digits[k] \in ToSet(Digits)
  BY <1>5
<1>8. step \in [1 .. L -> [Int -> Int]]
  BY <1>6, <1>7
<1>9. PICK f \in [0 .. L -> Int] : Iterates(f, L, 0, step)
  <2> DEFINE V == Int
             zero == 0
  <2>1. L \in Nat /\ zero \in V /\ step \in [1 .. L -> [V -> V]]
    BY <1>7, <1>8
  <2> HIDE DEF L, step, V, zero
  <2>2. \E f \in [0 .. L -> V] : Iterates(f, L, zero, step)
    BY <2>1, Iteration
  <2> QED BY <2>2 DEF V, zero
<1> HIDE DEF Add
<1>10. ASSUME NEW k \in 0 .. L PROVE f[k] = Rec(f, k)
  <2>1. CASE k = 0
    BY <1>9, <2>1 DEF Iterates
  <2>2. CASE k # 0
    <3>1. k \in 1 .. L /\ f[k - 1] \in Int
      BY <1>7, <2>2
    <3> QED BY <1>9, <2>2, <3>1 DEF Iterates
  <2> QED BY <2>1, <2>2
<1>11. f = [k \in 0 .. L |-> Rec(f, k)]
  <2> HIDE DEF Rec
  <2> QED BY <1>10
<1>12. after = [k \in 0 .. L |-> Rec(after, k)]
  <2> HIDE DEF Rec
  <2> QED BY <1>11
<1> HIDE DEF after
<1>13. \A k \in 0 .. L : after[k] = Rec(after, k)
  <2> HIDE DEF Rec
  <2> QED BY <1>12
<1>14. after[0] = 0 /\ \A k \in 1 .. L : after[k] = Add(after[k - 1], digits[k])
  BY <1>7, <1>13
<1>15. result \in Int
  <2> DEFINE S == {k \in 0 .. L : after[k] \in Int}
  <2>1. 0 \in S
    BY <1>7, <1>14
  <2>2. ASSUME NEW k \in 1 .. L, k - 1 \in S PROVE k \in S
    BY <2>2, <1>6, <1>7, <1>14
  <2>3. 0 .. L \subseteq S
    <3> HIDE DEF S, L
    <3> QED BY <1>7, <2>1, <2>2, Induction
  <2> QED BY <1>7, <2>3
<1> HIDE DEF result, negative
<1> QED BY <1>1, <1>15, LongAssumption

--------------------------------------------------------------------------------
(* The inductive invariant *)

\* A node's size is the length of its data; the root's is that of the archive,
\* as long as nobody has written to it.
SizeOf(n, v) == \/ v.size = Len(v.bytes)
                \/ n = Root /\ v.type = VNODE_DIRECTORY /\ v.size >= Len(v.bytes)

Sized == \A n \in Node : SizeOf(n, vnode[n])

Owned == \A n \in Node : vnode[n].uid \in Uids \cup {0}

TreeInv == Links /\ Sized /\ Owned /\ ("parent" \notin misuse => Attached)

\* Where strtok is: on a component of the current entry, and its static variable
\* later in the same name; without a token it may be left in any earlier name.
TokenInv ==
    /\ Headers(header_name)
    /\ last = NullPtr \/ NamePtr(last)
    /\ token = NullPtr \/ (token.buf = entry /\ last.buf = entry /\ OnWord(header_name, token))

MountInv ==
    /\ archive \in Archives
    /\ mode \in {"boot", "mount", "run", "halt", "wild"}
    /\ entry \in 0 .. Len(archive) + 1 /\ current_parent \in Pointer
    /\ mode = "boot" => live = {} /\ entry = 0 /\ token = NullPtr
    /\ mode = "mount" => current_parent \in live /\ entry # 0
    /\ TokenInv

\* A file's node is there unless one was removed while it was open.
FilesInv ==
    /\ files = [f \in Fd |-> files[f]]
    /\ \A f \in Fd : Opened(f) => files[f].vnode \in Node
    /\ \A f \in Fd : Opened(f) => files[f].vnode \in live \/ "open" \in misuse

HistoryInv ==
    /\ ops \in 0 .. MaxOps
    /\ misuse \subseteq {"memory", "open", "parent", "root", "overflow"}
    /\ WildOnlyByMisuse
    /\ mode \in {"boot", "mount"} => misuse = {}

Inv == TreeInv /\ MountInv /\ FilesInv /\ HistoryInv

--------------------------------------------------------------------------------
(* Steps of the mount *)

\* An archive is a sequence of headers.
LEMMA ArchiveType == ASSUME archive \in Archives PROVE archive \in Seq(Header) /\ Len(archive) \in Nat
  BY ArchiveAssumption

\* An entry that is not skipped has a name to start on.
LEMMA StartPtr ==
    ASSUME archive \in Seq(Header), NEW k \in 1 .. Len(archive), ~Skipped(archive[k].name)
    PROVE  NamePtr([buf |-> k, at |-> NameStart(archive[k].name)])
<1> DEFINE name == archive[k].name
           first == NameStart(name)
<1>0. archive[k] \in Header
  OBVIOUS
<1>1. name \in Seq(STRING) /\ first \in Nat \ {0} /\ Len(name) \in Nat
  BY <1>0 DEF Header, NameStart
<1>2. first <= Len(name)
  <2> SUFFICES ASSUME first > Len(name) PROVE FALSE
    BY <1>1
  <2>1. SubSeq(name, first, Len(name)) = << >>
    <3> HIDE DEF name, first
    <3> QED BY <1>1
  <2> QED BY <2>1 DEF Skipped
<1> QED BY <1>1, <1>2 DEF NamePtr

\* What a call of strtok leaves when it goes on in the current entry.
LEMMA TokenStep ==
    ASSUME archive \in Seq(Header), NEW mem, Headers(mem), NEW str, NEW lst, NEW p,
           p = IF str = NullPtr THEN lst ELSE str, NamePtr(p), lst = NullPtr \/ NamePtr(lst),
           archive' = archive, entry' = p.buf,
           Advance(strtok(mem, str, lst, {"/"}))
    PROVE  TokenInv'
<1> DEFINE r == strtok(mem, str, lst, {"/"})
<1>1. /\ Headers(r.mem)
      /\ \/ r.token = NullPtr /\ r.last = lst
         \/ /\ p # NullPtr /\ r.token.buf = p.buf /\ r.last.buf = p.buf
            /\ OnWord(mem, r.token) /\ OnWord(r.mem, r.token) /\ NamePtr(r.last)
  <2>1. p = NullPtr \/ NamePtr(p)
    OBVIOUS
  <2>2. r = strtok(mem, str, lst, {"/"})
    OBVIOUS
  <2> HIDE DEF r
  <2> QED BY <2>1, <2>2, StrtokStep
<1>2. header_name' = r.mem /\ last' = r.last /\ token' = r.token
  BY DEF Advance
<1> HIDE DEF r
<1>3. Headers(header_name)'
  BY <1>1, <1>2 DEF Headers
<1>4. (last = NullPtr \/ NamePtr(last))'
  BY <1>1, <1>2 DEF NamePtr
<1>5. (token = NullPtr \/ (token.buf = entry /\ last.buf = entry /\ OnWord(header_name, token)))'
  BY <1>1, <1>2 DEF OnWord, NamePtr
<1> QED BY <1>3, <1>4, <1>5 DEF TokenInv

\* The parser goes on to the next entry with a good position in its name.
LEMMA NextEntryStep ==
    ASSUME archive \in Seq(Header), entry \in 0 .. Len(archive),
           NEW r, r = [mem |-> r.mem, last |-> r.last, token |-> r.token],
           Headers(r.mem), r.last = NullPtr \/ NamePtr(r.last),
           NextEntry(r)
    PROVE  TokenInv' /\ entry' = entry + 1 /\ current_parent' = Root /\ archive' = archive
<1> DEFINE next == entry + 1
           start == [buf |-> next, at |-> NameStart(archive[next].name)]
<1>1. /\ entry' = next /\ current_parent' = Root /\ archive' = archive
      /\ IF next > Len(archive) \/ Skipped(archive[next].name)
         THEN Advance([r EXCEPT !.token = NullPtr])
         ELSE Advance(strtok(r.mem, start, r.last, {"/"}))
  BY DEF NextEntry
<1>2. CASE next > Len(archive) \/ Skipped(archive[next].name)
  <2>1. Advance([r EXCEPT !.token = NullPtr])
    BY <1>1, <1>2
  <2>2. [r EXCEPT !.token = NullPtr] = [mem |-> r.mem, last |-> r.last, token |-> NullPtr]
    OBVIOUS
  <2>3. header_name' = r.mem /\ last' = r.last /\ token' = NullPtr
    BY <2>1, <2>2 DEF Advance
  <2>4. Headers(header_name)'
    BY <1>1, <2>3 DEF Headers
  <2>5. (last = NullPtr \/ NamePtr(last))'
    BY <1>1, <2>3 DEF NamePtr
  <2>6. (token = NullPtr)'
    BY <2>3 DEF NullPtr
  <2> QED BY <1>1, <2>4, <2>5, <2>6 DEF TokenInv
<1>3. CASE ~(next > Len(archive) \/ Skipped(archive[next].name))
  <2>1. next \in 1 .. Len(archive) /\ ~Skipped(archive[next].name)
    BY <1>3
  <2>2. NamePtr(start)
    BY <2>1, StartPtr
  <2>3. start # NullPtr /\ start.buf = next
    BY <2>1 DEF NullPtr
  <2>4. Advance(strtok(r.mem, start, r.last, {"/"}))
    BY <1>1, <1>3
  <2> HIDE DEF start
  <2>5. start = IF start = NullPtr THEN r.last ELSE start
    BY <2>3
  <2>6. entry' = start.buf
    BY <1>1, <2>3
  <2> HIDE DEF next
  <2>7. TokenInv'
    BY <1>1, <2>2, <2>4, <2>5, <2>6, TokenStep
  <2> QED BY <1>1, <2>7 DEF next
<1> QED BY <1>2, <1>3

\* What vfs_create stores is a vnode without children and contents.
LEMMA NewVnode ==
    ASSUME NEW parent \in Node, NEW name \in Name, NEW type \in {VNODE_DIRECTORY, VNODE_FILE},
           NEW perms \in SUBSET Perm, NEW new, new = Fresh(parent, name, type, perms)
    PROVE  /\ new \in Vnode /\ new.parent = parent /\ new.next = NULL /\ new.child = NULL
           /\ new.size = Len(new.bytes) /\ new.uid = 0
<1>1. new = [parent |-> parent, next |-> NULL, child |-> NULL, name |-> name, type |-> type,
             perms |-> perms, size |-> 0, uid |-> 0, data |-> "NULL", bytes |-> << >>]
  BY DEF Fresh
<1>2. << >> \in Seq(Nat) /\ Len(<< >>) = 0
  OBVIOUS
<1>3. parent \in Pointer /\ NULL \in Pointer /\ name \in Name \cup {"", "/"} /\ 0 \in Nat
  BY DEF Pointer
<1>4. new \in Vnode
  <2> DEFINE T == {VNODE_DIRECTORY, VNODE_FILE}
             W == SUBSET Perm
             B == Seq(Nat)
             A == Name \cup {"", "/"}
  <2>1. type \in T /\ perms \in W /\ << >> \in B /\ name \in A
    BY <1>2, <1>3
  <2> HIDE DEF T, W, B, A
  <2>2. [parent |-> parent, next |-> NULL, child |-> NULL, name |-> name, type |-> type,
         perms |-> perms, size |-> 0, uid |-> 0, data |-> "NULL", bytes |-> << >>]
        \in [parent : Pointer, next : Pointer, child : Pointer, name : A, type : T, perms : W,
             size : Nat, uid : Nat, data : {"NULL", "archive", "heap"}, bytes : B]
    BY <1>3, <2>1
  <2> QED BY <1>1, <2>2 DEF Vnode, T, W, B, A
<1> QED BY <1>1, <1>2, <1>4

\* What kfree leaves counts as a vnode without contents.
LEMMA FreedVnode == Freed \in Vnode /\ Freed.size = Len(Freed.bytes) /\ Freed.uid = 0
<1>1. {} \in SUBSET Perm
  OBVIOUS
<1> QED BY <1>1 DEF Freed, Fresh, Vnode, Pointer

\* vfs_create keeps the tree and the nodes' sizes.
LEMMA CreateStep ==
    ASSUME TreeInv, NEW parent \in live, NEW n, NEW new \in Vnode,
           new.parent = parent, new.next = NULL, new.child = NULL,
           new.size = Len(new.bytes), new.uid = 0,
           vfs_create(parent, n, new), misuse' = misuse
    PROVE  TreeInv' /\ live' = live \cup {n} /\ n \in Node
<1>1. /\ Links' /\ live' = live \cup {n} /\ n \in Node \ live
      /\ Attached => Attached'
      /\ \A m \in Node \ {n} : /\ vnode'[m].name = vnode[m].name
                               /\ vnode'[m].type = vnode[m].type
                               /\ vnode'[m].size = vnode[m].size
                               /\ vnode'[m].uid = vnode[m].uid
                               /\ vnode'[m].bytes = vnode[m].bytes
      /\ vnode'[n] = new
  BY CreatedLinks DEF TreeInv
<1>2. Sized'
  <2> SUFFICES ASSUME NEW m \in Node PROVE SizeOf(m, vnode'[m])
    BY DEF Sized, SizeOf
  <2> QED BY <1>1 DEF TreeInv, Sized, SizeOf
<1>3. Owned'
  <2> SUFFICES ASSUME NEW m \in Node PROVE vnode'[m].uid \in Uids \cup {0}
    BY DEF Owned
  <2> QED BY <1>1 DEF TreeInv, Owned
<1> QED BY <1>1, <1>2, <1>3 DEF TreeInv

\* What a step that calls vfs_create on parent does.
Creates(parent) ==
    \E n : \E new \in Vnode :
        /\ new.parent = parent /\ new.next = NULL /\ new.child = NULL
        /\ vfs_create(parent, n, new)

\* Whatever number is written in the mode field, the permissions are permissions.
LEMMA HeaderPerms == ASSUME NEW e PROVE FilePerms(e) \in SUBSET Perm
<1>1. \A k \in DOMAIN ModePerm : ModePerm[k] \in Perm
  BY DEF ModePerm, Perm
<1> HIDE DEF ModePerm
<1> QED BY <1>1 DEF FilePerms, Permissions

\* What the parser stores for a file is a vnode whose size is the length of its data.
LEMMA FileVnode ==
    ASSUME archive \in Seq(Header), entry \in 1 .. Len(archive), current_parent \in Node,
           NEW name \in Name
    PROVE  /\ NewFile(name) \in Vnode /\ NewFile(name).parent = current_parent
           /\ NewFile(name).next = NULL /\ NewFile(name).child = NULL
           /\ NewFile(name).size = Len(NewFile(name).bytes) /\ NewFile(name).uid = 0
<1> DEFINE size == FileSize(E)
           bytes == [i \in 1 .. size |-> entry]
           v == Fresh(current_parent, name, VNODE_FILE, FilePerms(E))
<1>1. size \in Nat
  <2>1. E \in Header
    BY DEF E
  <2>2. E.size \in Seq(STRING)
    BY <2>1 DEF Header
  <2>3. strtol(E.size, 8) \in Int
    BY <2>2, StrtolType
  <2> QED BY <2>3, VfsAssumption DEF FileSize
<1>2. NewFile(name) = [v EXCEPT !.data = "archive", !.bytes = bytes, !.size = size]
  BY DEF NewFile
<1> HIDE DEF size
<1>3. bytes \in Seq(Nat) /\ Len(bytes) = size
  BY <1>1
<1>4. FilePerms(E) \in SUBSET Perm
  BY HeaderPerms
<1>5. v \in Vnode /\ v.parent = current_parent /\ v.next = NULL /\ v.child = NULL /\ v.uid = 0
  <2>1. v = Fresh(current_parent, name, VNODE_FILE, FilePerms(E))
    OBVIOUS
  <2> HIDE DEF v
  <2> QED BY <1>4, <2>1, NewVnode
<1> HIDE DEF v, bytes
<1> QED BY <1>1, <1>2, <1>3, <1>5 DEF Vnode

\* Steps that do not touch the tree keep its invariant.
LEMMA TreeKept ==
    ASSUME TreeInv, vnode' = vnode, live' = live, misuse' = misuse
    PROVE  TreeInv'
<1>1. Links'
  BY DEF TreeInv, Links, Closed, Sole, Parents, Acyclic, Ranks, Points
<1>2. Sized' /\ Owned'
  BY DEF TreeInv, Sized, Owned
<1>3. ("parent" \notin misuse => Attached)'
  BY DEF TreeInv, Attached, Points
<1> QED BY <1>1, <1>2, <1>3 DEF TreeInv

\* What a step of the mount means for open files and the history.
LEMMA RestKept ==
    ASSUME FilesInv, HistoryInv, files' = files, ops' = ops, misuse' = misuse,
           live \subseteq live', mode' # "wild" \/ mode' = mode,
           mode' \in {"boot", "mount"} => mode \in {"boot", "mount"}
    PROVE  FilesInv' /\ HistoryInv'
<1>1. FilesInv'
  BY DEF FilesInv, Opened
<1>2. HistoryInv'
  BY DEF HistoryInv, WildOnlyByMisuse
<1> QED BY <1>1, <1>2

\* What the parser knows in its loop.
LEMMA MountFacts ==
    ASSUME Inv, mode = "mount", entry <= Len(archive)
    PROVE  /\ archive \in Seq(Header) /\ entry \in 1 .. Len(archive)
           /\ current_parent \in live /\ current_parent \in Node /\ Links /\ Root \in live
           /\ TokenInv
<1>1. archive \in Seq(Header) /\ Len(archive) \in Nat
  BY ArchiveType DEF Inv, MountInv
<1>2. entry \in 0 .. Len(archive) + 1 /\ entry # 0 /\ current_parent \in live /\ TokenInv
  BY DEF Inv, MountInv
<1> QED BY <1>1, <1>2 DEF Inv, TreeInv, Links

\* The component at hand exists: the parser goes on below it.
LEMMA DescendStep ==
    ASSUME Inv, mode = "mount", entry <= Len(archive), token # NullPtr, ~Missing, Descend,
           misuse' = misuse
    PROVE  TreeInv' /\ MountInv' /\ UNCHANGED <<vnode, live>> /\ mode' = mode
<1>1. /\ archive \in Seq(Header) /\ entry \in 1 .. Len(archive)
      /\ current_parent \in live /\ current_parent \in Node /\ Links /\ TokenInv
  BY MountFacts
<1>2. /\ current_parent' = vfs_search_node(current_parent, Word(token))
      /\ Advance(strtok(header_name, NullPtr, last, {"/"}))
      /\ vnode' = vnode /\ live' = live /\ mode' = mode /\ archive' = archive /\ entry' = entry
  BY DEF Descend, Tokenize
<1>3. vfs_search_node(current_parent, Word(token)) \in live
  <2>1. vfs_search_node(current_parent, Word(token)) # NULL
    BY DEF Missing
  <2> QED BY <1>1, <2>1, SearchFinds
<1>4. last.buf = entry /\ Headers(header_name) /\ (last = NullPtr \/ NamePtr(last))
  BY <1>1 DEF TokenInv
<1>5. NamePtr(last)
  BY <1>1, <1>4 DEF NullPtr
<1>6. TokenInv'
  <2>1. last = IF NullPtr = NullPtr THEN last ELSE NullPtr
    OBVIOUS
  <2> QED BY <1>1, <1>2, <1>4, <1>5, <2>1, TokenStep
<1>7. TreeInv'
  BY <1>2, TreeKept DEF Inv
<1>8. current_parent' \in Pointer
  BY <1>1, <1>2, <1>3 DEF Links, Pointer
<1> QED BY <1>1, <1>2, <1>3, <1>6, <1>7, <1>8 DEF Inv, MountInv

\* The component is missing in a directory entry: the parser creates it and goes on.
LEMMA MakeDirectoryStep ==
    ASSUME Inv, mode = "mount", entry <= Len(archive), token # NullPtr, MakeDirectory,
           misuse' = misuse
    PROVE  TreeInv' /\ MountInv' /\ live \subseteq live' /\ mode' = mode /\ Creates(current_parent)
<1>1. /\ archive \in Seq(Header) /\ entry \in 1 .. Len(archive)
      /\ current_parent \in live /\ current_parent \in Node /\ Links /\ TokenInv
  BY MountFacts
<1>2. PICK n \in Node \ live :
        /\ vfs_create(current_parent, n, Fresh(current_parent, Word(token), VNODE_DIRECTORY,
                                               FilePerms(E)))
        /\ current_parent' = n
        /\ Advance(strtok(header_name, NullPtr, last, {"/"}))
        /\ mode' = mode /\ archive' = archive /\ entry' = entry
  BY DEF MakeDirectory, Tokenize
<1>3. Word(token) \in Name
  BY <1>1 DEF TokenInv, OnWord, Word
<1> DEFINE new == Fresh(current_parent, Word(token), VNODE_DIRECTORY, FilePerms(E))
<1>4. /\ new \in Vnode /\ new.parent = current_parent /\ new.next = NULL /\ new.child = NULL
      /\ new.size = Len(new.bytes) /\ new.uid = 0
  <2>1. new = Fresh(current_parent, Word(token), VNODE_DIRECTORY, FilePerms(E))
    OBVIOUS
  <2>2. FilePerms(E) \in SUBSET Perm
    BY HeaderPerms
  <2> HIDE DEF new
  <2> QED BY <1>1, <1>3, <2>1, <2>2, NewVnode
<1>5. vfs_create(current_parent, n, new)
  BY <1>2
<1> HIDE DEF new
<1>6. TreeInv' /\ live' = live \cup {n} /\ n \in Node
  BY <1>1, <1>4, <1>5, CreateStep DEF Inv
<1>7. last.buf = entry /\ Headers(header_name) /\ (last = NullPtr \/ NamePtr(last))
  BY <1>1 DEF TokenInv
<1>8. NamePtr(last)
  BY <1>1, <1>7 DEF NullPtr
<1>9. TokenInv'
  <2>1. last = IF NullPtr = NullPtr THEN last ELSE NullPtr
    OBVIOUS
  <2> QED BY <1>1, <1>2, <1>7, <1>8, <2>1, TokenStep
<1>10. current_parent' \in live' /\ current_parent' \in Pointer
  BY <1>2, <1>6 DEF Pointer
<1>11. Creates(current_parent)
  BY <1>4, <1>5 DEF Creates
<1> QED BY <1>1, <1>2, <1>6, <1>9, <1>10, <1>11 DEF Inv, MountInv

\* A file is created, and the parser goes on to the next entry.
LEMMA MakeFileStep ==
    ASSUME Inv, mode = "mount", entry <= Len(archive), Tokenize(token).token # NullPtr,
           MakeFile, misuse' = misuse
    PROVE  TreeInv' /\ MountInv' /\ live \subseteq live' /\ mode' = mode /\ Creates(current_parent)
<1>1. /\ archive \in Seq(Header) /\ entry \in 1 .. Len(archive) /\ Root \in live
      /\ current_parent \in live /\ current_parent \in Node /\ Links /\ TokenInv
  BY MountFacts
<1> DEFINE r == Tokenize(token)
           p == IF token = NullPtr THEN last ELSE token
<1>2. PICK n \in Node \ live :
        /\ vfs_create(current_parent, n, NewFile(Word(r.token)))
        /\ NextEntry(r) /\ mode' = mode
  BY DEF MakeFile
<1>3. /\ r = [mem |-> r.mem, last |-> r.last, token |-> r.token]
      /\ Headers(r.mem)
      /\ OnWord(header_name, r.token) /\ NamePtr(r.last)
  <2>1. p = NullPtr \/ NamePtr(p)
    BY <1>1 DEF TokenInv, OnWord
  <2>2. p = IF token = NullPtr THEN last ELSE token
    OBVIOUS
  <2>3. r = strtok(header_name, token, last, {"/"})
    BY DEF Tokenize
  <2>4. r.token # NullPtr /\ Headers(header_name)
    BY <1>1 DEF TokenInv
  <2> HIDE DEF r, p
  <2> QED BY <1>1, <2>1, <2>2, <2>3, <2>4, StrtokStep
<1> HIDE DEF r
<1>4. Word(r.token) \in Name
  BY <1>3 DEF OnWord, Word
<1>5. TokenInv' /\ entry' = entry + 1 /\ current_parent' = Root /\ archive' = archive
  <2>1. entry \in 0 .. Len(archive)
    BY <1>1
  <2> QED BY <1>1, <1>2, <1>3, <2>1, NextEntryStep
<1> DEFINE new == NewFile(Word(r.token))
<1>6. /\ new \in Vnode /\ new.parent = current_parent /\ new.next = NULL /\ new.child = NULL
      /\ new.size = Len(new.bytes) /\ new.uid = 0
  BY <1>1, <1>4, FileVnode
<1>7. vfs_create(current_parent, n, new)
  BY <1>2
<1> HIDE DEF new
<1>8. TreeInv' /\ live' = live \cup {n} /\ n \in Node
  BY <1>1, <1>6, <1>7, CreateStep DEF Inv
<1>9. current_parent' \in live' /\ current_parent' \in Pointer /\ entry' \in 0 .. Len(archive') + 1
      /\ entry' # 0
  BY <1>1, <1>5, <1>8, VfsAssumption DEF Pointer
<1>10. Creates(current_parent)
  BY <1>6, <1>7 DEF Creates
<1> QED BY <1>2, <1>5, <1>8, <1>9, <1>10 DEF Inv, MountInv

\* A turn of the parser that stores nothing.
LEMMA SkipStep ==
    ASSUME Inv, mode = "mount", entry <= Len(archive), NextEntry(AsItIs),
           vnode' = vnode, live' = live, mode' = mode, misuse' = misuse
    PROVE  TreeInv' /\ MountInv'
<1>1. /\ archive \in Seq(Header) /\ entry \in 1 .. Len(archive) /\ Root \in live /\ TokenInv
  BY MountFacts
<1>2. /\ AsItIs = [mem |-> AsItIs.mem, last |-> AsItIs.last, token |-> AsItIs.token]
      /\ AsItIs.mem = header_name /\ AsItIs.last = last
  BY DEF AsItIs
<1>3. Headers(AsItIs.mem) /\ (AsItIs.last = NullPtr \/ NamePtr(AsItIs.last))
  BY <1>1, <1>2 DEF TokenInv
<1>4. TokenInv' /\ entry' = entry + 1 /\ current_parent' = Root /\ archive' = archive
  <2>1. entry \in 0 .. Len(archive)
    BY <1>1
  <2> QED BY <1>1, <1>2, <1>3, <2>1, NextEntryStep
<1>5. TreeInv'
  BY TreeKept DEF Inv
<1>6. current_parent' \in live' /\ current_parent' \in Pointer /\ entry' \in 0 .. Len(archive') + 1
      /\ entry' # 0
  BY <1>1, <1>4, VfsAssumption DEF Pointer
<1> QED BY <1>4, <1>5, <1>6 DEF Inv, MountInv

\* The mount's variables stay, and mode leaves it.
LEMMA MountKept ==
    ASSUME MountInv, UNCHANGED mount, mode' \in {"run", "halt", "wild"} \/ mode' = mode,
           live \subseteq live' \/ mode \notin {"boot", "mount"}, mode = "boot" => live' = live
    PROVE  MountInv'
<1>1. /\ archive' = archive /\ entry' = entry /\ header_name' = header_name
      /\ token' = token /\ last' = last /\ current_parent' = current_parent
  BY DEF mount
<1>2. TokenInv'
  <2>1. Headers(header_name)'
    BY <1>1 DEF MountInv, TokenInv, Headers
  <2>2. (last = NullPtr \/ NamePtr(last))'
    BY <1>1 DEF MountInv, TokenInv, NamePtr
  <2>3. (token = NullPtr \/ (token.buf = entry /\ last.buf = entry /\ OnWord(header_name, token)))'
    BY <1>1 DEF MountInv, TokenInv, OnWord, NamePtr
  <2> QED BY <2>1, <2>2, <2>3 DEF TokenInv
<1> QED BY <1>1, <1>2 DEF MountInv

\* Boot gives up.
LEMMA HaltStep ==
    ASSUME Inv, Halt, UNCHANGED <<files, ops>>, misuse' = misuse
    PROVE  Inv'
<1>1. mode' = "halt" /\ vnode' = vnode /\ live' = live /\ UNCHANGED mount
  BY DEF Halt
<1>2. TreeInv'
  BY <1>1, TreeKept DEF Inv
<1>3. MountInv'
  BY <1>1, MountKept DEF Inv
<1>4. FilesInv' /\ HistoryInv'
  BY <1>1, RestKept DEF Inv
<1> QED BY <1>2, <1>3, <1>4 DEF Inv

\* Every turn of the parser, by the cases of its loops.
LEMMA ParseStep ==
    ASSUME Inv, ramfs_parse, UNCHANGED <<files, ops, misuse>>
    PROVE  Inv' /\ (UNCHANGED <<vnode, live>> \/ (Creates(current_parent) /\ mode = "mount"))
<1>0. mode = "mount" /\ archive \in Seq(Header) /\ Len(archive) \in Nat /\ entry \in Nat
  BY ArchiveType DEF Inv, MountInv, ramfs_parse
<1>1. CASE AtEnd
  <2>1. mode' = "run" /\ vnode' = vnode /\ live' = live /\ UNCHANGED mount
    BY <1>0, <1>1 DEF ramfs_parse
  <2>2. TreeInv' /\ MountInv'
    BY <2>1, TreeKept, MountKept DEF Inv
  <2>3. FilesInv' /\ HistoryInv'
    BY <2>1, RestKept DEF Inv
  <2>4. UNCHANGED <<vnode, live>>
    BY <2>1
  <2> QED BY <2>2, <2>3, <2>4 DEF Inv
<1>2. CASE ~AtEnd
  <2>0. entry <= Len(archive)
    BY <1>0, <1>2 DEF AtEnd
  <2>1. /\ TreeInv' /\ MountInv' /\ live \subseteq live' /\ mode' = mode
        /\ UNCHANGED <<vnode, live>> \/ Creates(current_parent)
    <3>1. CASE token # NullPtr /\ ~Missing
      <4>1. Descend
        BY <1>2, <3>1 DEF ramfs_parse, Missing, LeftOver
      <4> QED BY <1>0, <2>0, <3>1, <4>1, DescendStep
    <3>2. CASE Missing /\ E.dir
      <4>1. MakeDirectory /\ token # NullPtr
        BY <1>2, <3>2 DEF ramfs_parse, Missing, LeftOver
      <4> QED BY <1>0, <2>0, <4>1, MakeDirectoryStep
    <3>3. CASE Missing /\ ~E.dir
      <4>1. MakeFile /\ token # NullPtr
        BY <1>2, <3>3 DEF ramfs_parse, Missing, LeftOver
      <4>2. Tokenize(token).token # NullPtr
        <5>1. TokenInv /\ archive \in Seq(Header)
          BY <1>0 DEF Inv, MountInv
        <5>2. Headers(header_name) /\ OnWord(header_name, token) /\ NamePtr(token)
          BY <4>1, <5>1 DEF TokenInv, OnWord
        <5> DEFINE r == Tokenize(token)
        <5>3. r = strtok(header_name, token, last, {"/"})
          BY DEF Tokenize
        <5>4. token = IF token = NullPtr THEN last ELSE token
          BY <4>1
        <5> HIDE DEF r
        <5>5. r.token # NullPtr
          BY <4>1, <5>1, <5>2, <5>3, <5>4, StrtokStep
        <5> QED BY <5>5 DEF r
      <4> QED BY <1>0, <2>0, <4>1, <4>2, MakeFileStep
    <3>4. CASE token = NullPtr
      <4>0. ~Missing
        BY <3>4 DEF Missing
      <4>1. CASE LeftOver
        <5>1. MakeFile
          BY <1>2, <3>4, <4>0, <4>1 DEF ramfs_parse
        <5>2. Tokenize(token).token # NullPtr
          BY <3>4, <4>1 DEF LeftOver
        <5> QED BY <1>0, <2>0, <5>1, <5>2, MakeFileStep
      <4>2. CASE ~LeftOver
        <5>1. NextEntry(AsItIs) /\ UNCHANGED <<vnode, live, mode>>
          BY <1>2, <3>4, <4>0, <4>2 DEF ramfs_parse
        <5> QED BY <1>0, <2>0, <5>1, SkipStep
      <4> QED BY <4>1, <4>2
    <3> QED BY <3>1, <3>2, <3>3, <3>4
  <2>2. FilesInv' /\ HistoryInv'
    BY <2>1, RestKept DEF Inv
  <2> QED BY <1>0, <2>1, <2>2 DEF Inv
<1> QED BY <1>0, <1>1, <1>2

\* ramfs_init leaves a root without children and the parser on the first entry.
LEMMA InitStep ==
    ASSUME Inv, ramfs_init, UNCHANGED <<files, ops, misuse>>
    PROVE  /\ Inv'
           /\ \/ UNCHANGED <<vnode, live>>
              \/ /\ live = {} /\ live' = {Root} /\ vnode'[Root].bytes = << >>
                 /\ vnode'[Root].next = NULL /\ vnode'[Root].child = NULL
<1>1. CASE archive = << >>
  BY <1>1, HaltStep DEF ramfs_init, Halt
<1>2. CASE archive # << >>
  <2>1. /\ mode = "boot" /\ mode' = "mount" /\ live' = {Root} /\ NextEntry(AsItIs)
        /\ vnode' = [vnode EXCEPT ![Root] =
              [Fresh(NULL, "/", VNODE_DIRECTORY, RootPerms) EXCEPT !.size = Len(archive)]]
    BY <1>2 DEF ramfs_init
  <2>2. /\ archive \in Seq(Header) /\ Len(archive) \in Nat
        /\ entry = 0 /\ live = {} /\ TokenInv
    BY <2>1, ArchiveType DEF Inv, MountInv
  <2>3. /\ AsItIs = [mem |-> AsItIs.mem, last |-> AsItIs.last, token |-> AsItIs.token]
        /\ AsItIs.mem = header_name /\ AsItIs.last = last
    BY DEF AsItIs
  <2>4. Headers(AsItIs.mem) /\ (AsItIs.last = NullPtr \/ NamePtr(AsItIs.last))
    BY <2>2, <2>3 DEF TokenInv
  <2>5. TokenInv' /\ entry' = 1 /\ current_parent' = Root /\ archive' = archive
    <3>1. entry \in 0 .. Len(archive)
      BY <2>2
    <3>2. TokenInv' /\ entry' = entry + 1 /\ current_parent' = Root /\ archive' = archive
      BY <2>1, <2>2, <2>3, <2>4, <3>1, NextEntryStep
    <3> QED BY <2>2, <3>2
  <2>6. MountInv'
    BY <2>1, <2>2, <2>5, VfsAssumption DEF Inv, MountInv, Pointer
  <2>7. TreeInv' /\ vnode'[Root].bytes = << >> /\ vnode'[Root].next = NULL /\ vnode'[Root].child = NULL
    <3> DEFINE new == [Fresh(NULL, "/", VNODE_DIRECTORY, RootPerms) EXCEPT !.size = Len(archive)]
    <3>1. /\ new \in Vnode /\ new.parent = NULL /\ new.next = NULL /\ new.child = NULL
          /\ SizeOf(Root, new) /\ new.uid = 0 /\ new.bytes = << >>
      <4>1. RootPerms \in SUBSET Perm
        BY DEF RootPerms
      <4>2. new = [parent |-> NULL, next |-> NULL, child |-> NULL, name |-> "/",
                   type |-> VNODE_DIRECTORY, perms |-> RootPerms, size |-> Len(archive),
                   uid |-> 0, data |-> "NULL", bytes |-> << >>]
        BY DEF Fresh
      <4> HIDE DEF new
      <4>3. new \in Vnode
        BY <2>2, <4>1, <4>2 DEF Vnode, Pointer
      <4>4. new.type = VNODE_DIRECTORY /\ new.size = Len(archive) /\ new.bytes = << >>
        BY <4>2
      <4>5. SizeOf(Root, new)
        BY <2>2, <4>4 DEF SizeOf
      <4> QED BY <4>2, <4>3, <4>5
    <3>2. vnode' = [vnode EXCEPT ![Root] = new] /\ vnode \in [Node -> Vnode]
      BY <2>1 DEF Inv, TreeInv, Links
    <3> HIDE DEF new
    <3>3. vnode' \in [Node -> Vnode] /\ vnode'[Root] = new
          /\ \A n \in Node \ {Root} : vnode'[n] = vnode[n]
      BY <3>1, <3>2, VfsAssumption
    <3>a. /\ vnode'[Root].child = NULL /\ vnode'[Root].next = NULL
          /\ Root # NULL /\ \A x \in live' : x = Root
      BY <2>1, <3>1, <3>3, VfsAssumption
    <3>b. \A x, y \in live' : ~Points(x, y)' /\ vnode'[x].child # y /\ vnode'[x].next # y
      BY <3>a DEF Points
    <3>4. Closed' /\ Sole' /\ Parents' /\ live' \subseteq Node
      <4>1. Closed'
        BY <3>a DEF Closed
      <4>2. Parents'
        BY <3>b DEF Parents
      <4>3. Root \in live' /\ live' \subseteq Node
        BY <2>1, VfsAssumption
      <4>4. Sole'
        BY <3>a, <3>b, <4>3 DEF Sole
      <4> QED BY <4>1, <4>2, <4>3, <4>4
    <3>5. Acyclic'
      <4>1. [n \in Node |-> 0] \in [Node -> Nat]
        OBVIOUS
      <4>3. \E rank \in [Node -> Nat] : \A x, y \in live' : Points(x, y)' => rank[x] < rank[y]
        BY <3>b, <4>1
      <4> QED BY <4>3 DEF Acyclic, Ranks
    <3>6. Sized' /\ Owned'
      BY <3>1, <3>3 DEF Inv, TreeInv, Sized, Owned
    <3>7. Attached'
      BY <2>1 DEF Attached
    <3> QED BY <2>1, <3>1, <3>3, <3>4, <3>5, <3>6, <3>7 DEF TreeInv, Links
  <2>8. FilesInv' /\ HistoryInv'
    BY <2>1, <2>2, RestKept DEF Inv
  <2> QED BY <2>1, <2>2, <2>6, <2>7, <2>8 DEF Inv
<1> QED BY <1>1, <1>2

\* More misuse changes nothing else.
LEMMA MoreMisuse ==
    ASSUME HistoryInv, ops' \in 0 .. MaxOps, misuse \subseteq misuse',
           misuse' \subseteq {"memory", "open", "parent", "root", "overflow"},
           mode' = "wild" => mode = "wild" \/ \E m \in misuse' : m # "parent",
           mode' \notin {"boot", "mount"}
    PROVE  HistoryInv'
  BY DEF HistoryInv, WildOnlyByMisuse

\* vfs_init fails.
LEMMA NoRootStep ==
    ASSUME Inv, NoRoot
    PROVE  Inv'
<1>1. /\ vnode' = vnode /\ live' = live /\ UNCHANGED mount /\ mode' \in {"halt", "wild"}
      /\ misuse' = misuse \cup {"memory"} /\ files' = files /\ ops' = ops
  BY DEF NoRoot, vfs_init_fails, Halt
<1>2. TreeInv'
  <2>1. Links'
    BY <1>1 DEF Inv, TreeInv, Links, Closed, Sole, Parents, Acyclic, Ranks, Points
  <2>2. Sized' /\ Owned'
    BY <1>1 DEF Inv, TreeInv, Sized, Owned
  <2>3. ("parent" \notin misuse => Attached)'
    BY <1>1 DEF Inv, TreeInv, Attached, Points
  <2> QED BY <2>1, <2>2, <2>3 DEF TreeInv
<1>3. MountInv'
  BY <1>1, MountKept DEF Inv
<1>4. FilesInv'
  BY <1>1 DEF Inv, FilesInv, Opened
<1>5. HistoryInv'
  <2>1. "memory" \in misuse' /\ misuse \subseteq misuse' /\ ops' \in 0 .. MaxOps
        /\ misuse' \subseteq {"memory", "open", "parent", "root", "overflow"}
    BY <1>1 DEF Inv, HistoryInv
  <2>2. \E m \in misuse' : m # "parent"
    BY <2>1
  <2> QED BY <1>1, <2>1, <2>2, MoreMisuse DEF Inv
<1> QED BY <1>2, <1>3, <1>4, <1>5 DEF Inv

--------------------------------------------------------------------------------
(* Steps of the callers *)

\* Only the contents of vnodes change.
LEMMA ContentsLinks ==
    ASSUME Links, live' = live, vnode' \in [Node -> Vnode],
           \A m \in Node : /\ vnode'[m].parent = vnode[m].parent
                           /\ vnode'[m].next = vnode[m].next
                           /\ vnode'[m].child = vnode[m].child
    PROVE  Links' /\ (Attached => Attached')
<1>1. live \subseteq Node /\ Root \in Node
  BY VfsAssumption DEF Links
<1>2. \A x, y \in Node : Points(x, y)' <=> Points(x, y)
  BY DEF Points
<1>3. Closed'
  BY <1>1 DEF Links, Closed
<1>4. Sole'
  <2>1. \A x, y, z \in live : Points(x, z)' /\ Points(y, z)' => x = y
    BY <1>1, <1>2 DEF Links, Sole
  <2>2. \A x, z \in live : ~(vnode'[x].child = z /\ vnode'[x].next = z)
    BY <1>1 DEF Links, Sole
  <2>3. \A x \in live : ~Points(x, Root)'
    BY <1>1, <1>2 DEF Links, Sole
  <2>4. Root \in live => vnode'[Root].next = NULL
    BY <1>1 DEF Links, Sole
  <2> QED BY <2>1, <2>2, <2>3, <2>4 DEF Sole
<1>5. Parents'
  BY <1>1 DEF Links, Parents
<1>6. Acyclic'
  <2>1. PICK rank \in [Node -> Nat] : Ranks(rank)
    BY DEF Links, Acyclic
  <2>2. \A x, y \in live' : Points(x, y)' => rank[x] < rank[y]
    BY <1>1, <1>2, <2>1 DEF Ranks
  <2>3. \E f \in [Node -> Nat] : \A x, y \in live' : Points(x, y)' => f[x] < f[y]
    BY <2>2
  <2> QED BY <2>3 DEF Acyclic, Ranks
<1>7. Attached => Attached'
  BY <1>1, <1>2 DEF Attached
<1>8. (live # {} => Root \in live)' /\ live' \subseteq Node
  BY DEF Links
<1> QED BY <1>3, <1>4, <1>5, <1>6, <1>7, <1>8 DEF Links

\* One node's contents change; its size stays right.
LEMMA NodeChanged ==
    ASSUME TreeInv, NEW n \in Node, NEW w \in Vnode, vnode' = [vnode EXCEPT ![n] = w],
           live' = live, misuse \subseteq misuse',
           w.parent = vnode[n].parent, w.next = vnode[n].next, w.child = vnode[n].child,
           SizeOf(n, w), w.uid \in Uids \cup {0}
    PROVE  TreeInv'
<1>1. vnode \in [Node -> Vnode]
  BY DEF TreeInv, Links
<1>2. vnode' \in [Node -> Vnode] /\ vnode'[n] = w /\ \A m \in Node \ {n} : vnode'[m] = vnode[m]
  BY <1>1
<1>3. \A m \in Node : /\ vnode'[m].parent = vnode[m].parent
                      /\ vnode'[m].next = vnode[m].next
                      /\ vnode'[m].child = vnode[m].child
  BY <1>2
<1>4. Links' /\ (Attached => Attached')
  BY <1>2, <1>3, ContentsLinks DEF TreeInv
<1>5. Sized'
  <2> SUFFICES ASSUME NEW m \in Node PROVE SizeOf(m, vnode'[m])
    BY DEF Sized, SizeOf
  <2> QED BY <1>2 DEF TreeInv, Sized
<1>6. Owned'
  <2> SUFFICES ASSUME NEW m \in Node PROVE vnode'[m].uid \in Uids \cup {0}
    BY DEF Owned
  <2> QED BY <1>2 DEF TreeInv, Owned
<1> QED BY <1>4, <1>5, <1>6 DEF TreeInv

\* What a step on one node may do: its contents change and get no shorter.
OnlyGrows(n) ==
    /\ \A m \in Node : /\ vnode'[m].next = vnode[m].next
                       /\ vnode'[m].child = vnode[m].child
                       /\ vnode'[m].name = vnode[m].name
                       /\ m # n => vnode'[m].bytes = vnode[m].bytes
    /\ Len(vnode'[n].bytes) >= Len(vnode[n].bytes)

\* vfs_write keeps the sizes right, and leaves the node's memory only where krealloc
\* faults, for the root, or where offset + size wraps.
LEMMA WriteStep ==
    ASSUME TreeInv, NEW n \in Node, NEW offset \in Nat, NEW size \in Nat, NEW b \in Nat,
           NEW r \in Allocation(vnode[n], offset, size), vfs_write(n, offset, size, b, r),
           live' = live, misuse \subseteq misuse'
    PROVE  /\ TreeInv'
           /\ \/ mode' = mode
              \/ /\ mode' = "wild"
                 /\ \/ r = "fault" \/ offset + size >= U32
                    \/ n = Root /\ vnode[n].type = VNODE_DIRECTORY
           /\ OnlyGrows(n)
<1> DEFINE v == vnode[n]
           size2 == NewSize(offset, size)
           w == Resized(v, r, size2)
           wild == r = "fault" \/ (r # "NULL" /\ size > 0 /\ offset + size > Len(w.bytes))
           u == IF r = "NULL" \/ wild THEN w ELSE Filled(w, offset, size, b)
<1>1. vnode' = [vnode EXCEPT ![n] = u] /\ mode' = IF wild THEN "wild" ELSE mode
  BY DEF vfs_write
<1>2. v \in Vnode /\ v.uid \in Uids \cup {0}
      /\ SizeOf(n, v)
  BY DEF TreeInv, Links, Sized, Owned
<1>3. v.size \in Nat /\ v.bytes \in Seq(Nat) /\ v.data \in {"NULL", "archive", "heap"}
  BY <1>2 DEF Vnode
<1>4. size2 \in Nat /\ (offset + size < U32 => size2 = offset + size)
  <2> DEFINE x == offset + size
  <2>1. x \in Nat /\ x \in Int /\ U32 \in Nat \ {0} /\ (x < U32 => x \in 0 .. U32 - 1)
    BY VfsAssumption
  <2>2. size2 = x % U32
    BY DEF NewSize
  <2> HIDE DEF x, size2
  <2>3. x % U32 \in 0 .. U32 - 1 /\ (x \in 0 .. U32 - 1 => x % U32 = x)
    BY <2>1, Modulo
  <2> QED BY <2>1, <2>2, <2>3 DEF x
<1>5. \/ r \in {"heap", "NULL", "fault"} /\ size2 > v.size
      \/ r = "kept" /\ size2 <= v.size
  <2>1. CASE size2 > v.size
    <3>1. r \in krealloc(v.data)
      BY <2>1 DEF Allocation
    <3>2. r \in {"heap", "NULL", "fault"}
      BY <1>3, <3>1 DEF krealloc
    <3> QED BY <2>1, <3>2
  <2>2. CASE ~(size2 > v.size)
    <3>1. r = "kept"
      BY <2>2 DEF Allocation
    <3> QED BY <1>3, <1>4, <2>2, <3>1
  <2> QED BY <2>1, <2>2
<1> HIDE DEF v, size2
<1>6. /\ w \in Vnode /\ w.parent = v.parent /\ w.next = v.next /\ w.child = v.child
      /\ w.uid = v.uid /\ w.type = v.type /\ w.name = v.name
      /\ (r = "heap" => w.size = size2 /\ Len(w.bytes) = size2)
      /\ (r # "heap" => w = v)
  <2>1. CASE r = "heap"
    <3> DEFINE c == [i \in 1 .. size2 |-> IF i <= Len(v.bytes) THEN v.bytes[i] ELSE 0]
    <3>1. w = [v EXCEPT !.data = "heap", !.size = size2, !.bytes = c]
      BY <1>2, <2>1 DEF Resized, Vnode
    <3>2. c \in Seq(Nat) /\ Len(c) = size2
      <4>1. \A i \in 1 .. size2 : (IF i <= Len(v.bytes) THEN v.bytes[i] ELSE 0) \in Nat
        BY <1>3, <1>4
      <4>2. c \in [1 .. size2 -> Nat]
        BY <4>1
      <4> HIDE DEF c
      <4> QED BY <1>4, <4>2
    <3> HIDE DEF c, w
    <3> QED BY <1>2, <1>4, <2>1, <3>1, <3>2 DEF Vnode
  <2>2. CASE r # "heap"
    BY <1>2, <2>2 DEF Resized
  <2> QED BY <2>1, <2>2
<1> HIDE DEF w
<1>7. /\ u \in Vnode /\ u.parent = v.parent /\ u.next = v.next /\ u.child = v.child
      /\ u.uid = v.uid /\ u.type = v.type /\ u.name = v.name
      /\ u.size = w.size /\ Len(u.bytes) = Len(w.bytes)
  <2>1. CASE r = "NULL" \/ wild
    BY <1>6, <2>1
  <2>2. CASE ~(r = "NULL" \/ wild)
    <3> DEFINE c == [i \in DOMAIN w.bytes |-> IF i - offset \in 1 .. size THEN b ELSE w.bytes[i]]
    <3>0. u = Filled(w, offset, size, b)
      BY <2>2
    <3>1. u = [w EXCEPT !.bytes = c]
      BY <1>6, <3>0 DEF Filled, Vnode
    <3>2. w.bytes \in Seq(Nat)
      BY <1>6 DEF Vnode
    <3>3. c \in [1 .. Len(w.bytes) -> Nat]
      BY <3>2
    <3>4. c \in Seq(Nat) /\ Len(c) = Len(w.bytes)
      <4> HIDE DEF c
      <4> QED BY <3>2, <3>3
    <3> HIDE DEF c, u, wild
    <3> QED BY <1>6, <3>1, <3>4 DEF Vnode
  <2> QED BY <2>1, <2>2
<1>8. wild => \/ r = "fault" \/ offset + size >= U32
              \/ n = Root /\ v.type = VNODE_DIRECTORY
  <2> SUFFICES ASSUME r # "fault", r # "NULL", offset + size > Len(w.bytes), offset + size < U32,
                      v.size = Len(v.bytes)
               PROVE  FALSE
    BY <1>2, VfsAssumption DEF SizeOf
  <2>1. size2 = offset + size
    BY <1>4
  <2>2. CASE r = "heap"
    BY <1>6, <2>1, <2>2
  <2>3. CASE r = "kept"
    BY <1>3, <1>5, <1>6, <2>1, <2>3
  <2> QED BY <1>5, <2>2, <2>3
<1>9. SizeOf(n, u) /\ Len(u.bytes) >= Len(v.bytes)
  <2> HIDE DEF u, wild
  <2>1. SizeOf(n, u)
    BY <1>2, <1>6, <1>7 DEF SizeOf
  <2>2. Len(v.bytes) \in Nat /\ v.size >= Len(v.bytes)
    BY <1>2, <1>3 DEF SizeOf
  <2> QED BY <1>3, <1>4, <1>5, <1>6, <1>7, <2>1, <2>2
<1>10. TreeInv'
  <2> HIDE DEF u, wild
  <2> QED BY <1>1, <1>2, <1>7, <1>9, NodeChanged DEF v
<1> HIDE DEF u, wild
<1>11. OnlyGrows(n)
  <2>1. vnode \in [Node -> Vnode]
    BY DEF TreeInv, Links
  <2>2. vnode'[n] = u /\ \A m \in Node \ {n} : vnode'[m] = vnode[m]
    BY <1>1, <2>1
  <2> QED BY <1>7, <1>9, <2>2 DEF OnlyGrows, v
<1> QED BY <1>1, <1>8, <1>10, <1>11 DEF v

\* What a caller finds.
LEMMA CallFacts ==
    ASSUME Inv, Call
    PROVE  /\ mode = "run" /\ ops \in Nat /\ ops' \in 0 .. MaxOps /\ UNCHANGED mount
           /\ Links /\ TreeInv /\ Reach \subseteq live /\ live \subseteq Node
<1>1. Links /\ TreeInv /\ live \subseteq Node
  BY DEF Inv, TreeInv, Links
<1>2. Reach \subseteq live
  BY <1>1, ReachLive
<1>3. mode = "run" /\ ops \in 0 .. MaxOps /\ ops < MaxOps /\ ops' = ops + 1 /\ UNCHANGED mount
  BY DEF Inv, HistoryInv, Call
<1>4. ops \in Nat /\ ops' \in 0 .. MaxOps
  BY <1>3, CallAssumption
<1> QED BY <1>1, <1>2, <1>3, <1>4

\* A call that removes nothing and opens nothing.
LEMMA CallKept ==
    ASSUME Inv, Call, TreeInv', live \subseteq live', files' = files, misuse \subseteq misuse',
           misuse' \subseteq {"memory", "open", "parent", "root", "overflow"},
           \/ mode' = mode
           \/ mode' = "wild" /\ \E m \in misuse' : m # "parent"
    PROVE  Inv'
<1>1. mode = "run" /\ ops' \in 0 .. MaxOps /\ UNCHANGED mount
  BY CallFacts
<1>2. MountInv'
  BY <1>1, MountKept DEF Inv
<1>3. FilesInv'
  BY DEF Inv, FilesInv, Opened
<1>4. HistoryInv'
  BY <1>1, MoreMisuse DEF Inv
<1> QED BY <1>2, <1>3, <1>4 DEF Inv

\* vfs_create by a caller.
LEMMA VfsCreateStep ==
    ASSUME Inv, VfsCreate
    PROVE  Inv' /\ \E parent \in Reach : Creates(parent)
<1>1. PICK parent \in Reach, n \in Node \ live, name \in Name,
           type \in {VNODE_DIRECTORY, VNODE_FILE}, perms \in Perms :
             vfs_create(parent, n, Fresh(parent, name, type, perms))
  BY DEF VfsCreate
<1>2. Call /\ mode' = mode /\ files' = files /\ misuse' = misuse
  BY DEF VfsCreate
<1>3. TreeInv /\ parent \in live /\ parent \in Node /\ perms \in SUBSET Perm
      /\ misuse \subseteq {"memory", "open", "parent", "root", "overflow"}
  BY <1>2, CallFacts, CallAssumption DEF Inv, HistoryInv
<1> DEFINE new == Fresh(parent, name, type, perms)
<1>4. vfs_create(parent, n, new) /\ new = Fresh(parent, name, type, perms)
  BY <1>1
<1> HIDE DEF new
<1>5. /\ new \in Vnode /\ new.parent = parent /\ new.next = NULL /\ new.child = NULL
      /\ new.size = Len(new.bytes) /\ new.uid = 0
  BY <1>3, <1>4, NewVnode
<1>6. TreeInv' /\ live' = live \cup {n}
  BY <1>2, <1>3, <1>4, <1>5, CreateStep
<1>7. live \subseteq live' /\ misuse \subseteq misuse'
      /\ misuse' \subseteq {"memory", "open", "parent", "root", "overflow"}
  BY <1>2, <1>3, <1>6
<1>8. Creates(parent)
  BY <1>4, <1>5 DEF Creates
<1> QED BY <1>2, <1>6, <1>7, <1>8, CallKept

\* vfs_remove by a caller: what it breaks is recorded in misuse.
LEMMA VfsRemoveStep ==
    ASSUME Inv, VfsRemove
    PROVE  Inv'
<1>1. PICK parent \in Reach, n \in Reach :
          /\ vfs_remove(parent, n)
          /\ misuse' = IF n \notin ToSet(Kids(parent)) THEN misuse
                       ELSE misuse \cup {"parent" : k \in ToSet(Kids(n))}
                                   \cup {"open" : f \in OpenOn(n)}
  BY DEF VfsRemove
<1>2. Call /\ mode' = mode /\ files' = files
  BY DEF VfsRemove
<1>3. /\ mode = "run" /\ ops' \in 0 .. MaxOps /\ UNCHANGED mount
      /\ TreeInv /\ Links /\ parent \in live /\ n \in live /\ live \subseteq Node
      /\ misuse \subseteq {"memory", "open", "parent", "root", "overflow"}
  BY <1>2, CallFacts DEF Inv, HistoryInv
<1>4. CASE n \notin ToSet(Kids(parent))
  <2>1. vnode' = vnode /\ live' = live /\ misuse' = misuse
    BY <1>1, <1>4 DEF vfs_remove
  <2>2. TreeInv'
    BY <1>3, <2>1, TreeKept
  <2> QED BY <1>2, <1>3, <2>1, <2>2, CallKept
<1>5. CASE n \in ToSet(Kids(parent))
  <2>1. misuse' = misuse \cup {"parent" : k \in ToSet(Kids(n))} \cup {"open" : f \in OpenOn(n)}
    BY <1>1, <1>5
  <2>2. /\ Links' /\ live' = live \ {n} /\ n \in live \ {Root}
        /\ Attached /\ Kids(n) = << >> => Attached'
        /\ \A m \in Node \ {n} : /\ vnode'[m].name = vnode[m].name
                                 /\ vnode'[m].type = vnode[m].type
                                 /\ vnode'[m].size = vnode[m].size
                                 /\ vnode'[m].uid = vnode[m].uid
                                 /\ vnode'[m].bytes = vnode[m].bytes
        /\ vnode'[n] = Freed
    BY <1>1, <1>3, <1>5, RemovedLinks
  <2>3. Sized'
    <3> SUFFICES ASSUME NEW m \in Node PROVE SizeOf(m, vnode'[m])
      BY DEF Sized, SizeOf
    <3> QED BY <1>3, <2>2, FreedVnode DEF TreeInv, Sized, SizeOf
  <2>4. Owned'
    <3> SUFFICES ASSUME NEW m \in Node PROVE vnode'[m].uid \in Uids \cup {0}
      BY DEF Owned
    <3> QED BY <1>3, <2>2, FreedVnode DEF TreeInv, Owned
  <2>5. ("parent" \notin misuse => Attached)'
    <3> SUFFICES ASSUME "parent" \notin misuse' PROVE Attached'
      OBVIOUS
    <3>1. "parent" \notin misuse /\ ToSet(Kids(n)) = {}
      BY <2>1
    <3>2. Kids(n) = << >>
      <4>1. ListOf(Kids(n), n)
        BY <1>3, KidsList
      <4> DEFINE k == Kids(n)
      <4>2. k \in Seq(live \ {Root}) /\ ToSet(k) = {}
        BY <3>1, <4>1 DEF ListOf
      <4> HIDE DEF k
      <4>3. Len(k) \notin DOMAIN k
        BY <4>2 DEF ToSet
      <4>4. k = << >>
        BY <4>2, <4>3
      <4> QED BY <4>4 DEF k
    <3> QED BY <1>3, <2>2, <3>1, <3>2 DEF TreeInv
  <2>6. FilesInv'
    <3>1. ASSUME NEW f \in Fd, Opened(f)'
          PROVE  files'[f].vnode \in Node /\ (files'[f].vnode \in live' \/ "open" \in misuse')
      <4>1. Opened(f) /\ files'[f] = files[f]
        BY <1>2, <3>1 DEF Opened
      <4>2. files[f].vnode \in Node /\ (files[f].vnode \in live \/ "open" \in misuse)
        BY <4>1 DEF Inv, FilesInv
      <4>3. CASE files[f].vnode = n
        BY <2>1, <4>1, <4>2, <4>3 DEF OpenOn
      <4>4. CASE files[f].vnode # n
        BY <2>1, <2>2, <4>1, <4>2, <4>4
      <4> QED BY <4>3, <4>4
    <3> QED BY <1>2, <3>1 DEF Inv, FilesInv
  <2>7. HistoryInv'
    <3>1. misuse \subseteq misuse' /\ misuse' \subseteq {"memory", "open", "parent", "root", "overflow"}
      BY <1>3, <2>1
    <3> QED BY <1>2, <1>3, <3>1, MoreMisuse DEF Inv
  <2>8. MountInv'
    BY <1>2, <1>3, MountKept DEF Inv
  <2> QED BY <2>2, <2>3, <2>4, <2>5, <2>6, <2>7, <2>8 DEF Inv, TreeInv
<1> QED BY <1>4, <1>5

\* vfs_write by a caller: where it leaves the node's memory, misuse says why.
LEMMA VfsWriteStep ==
    ASSUME Inv, VfsWrite
    PROVE  Inv' /\ live' = live /\ \E n : OnlyGrows(n)
<1>1. PICK n \in Reach, offset \in Offsets, size \in Sizes :
        \E r \in Allocation(vnode[n], offset, size) :
             /\ vfs_write(n, offset, size, 10 + ops, r)
             /\ misuse' = misuse
                   \cup (IF n = Root THEN {"root"} ELSE {})
                   \cup (IF offset + size >= U32 THEN {"overflow"} ELSE {})
                   \cup (IF r = "fault" THEN {"memory"} ELSE {})
  BY DEF VfsWrite
<1>2. PICK r \in Allocation(vnode[n], offset, size) :
             /\ vfs_write(n, offset, size, 10 + ops, r)
             /\ misuse' = misuse
                   \cup (IF n = Root THEN {"root"} ELSE {})
                   \cup (IF offset + size >= U32 THEN {"overflow"} ELSE {})
                   \cup (IF r = "fault" THEN {"memory"} ELSE {})
  BY <1>1
<1>3. Call /\ live' = live /\ files' = files
  BY DEF VfsWrite
<1>4. /\ TreeInv /\ n \in Node /\ 10 + ops \in Nat /\ offset \in Nat /\ size \in Nat
      /\ misuse \subseteq {"memory", "open", "parent", "root", "overflow"}
  BY <1>3, CallFacts, CallAssumption DEF Inv, HistoryInv
<1>5. misuse \subseteq misuse' /\ misuse' \subseteq {"memory", "open", "parent", "root", "overflow"}
  BY <1>2, <1>4
<1> DEFINE b == 10 + ops
<1>6. vfs_write(n, offset, size, b, r) /\ b \in Nat
  BY <1>2, <1>4
<1> HIDE DEF b
<1>7. /\ TreeInv'
      /\ \/ mode' = mode
         \/ /\ mode' = "wild"
            /\ \/ r = "fault" \/ offset + size >= U32
               \/ n = Root /\ vnode[n].type = VNODE_DIRECTORY
      /\ OnlyGrows(n)
  BY <1>3, <1>4, <1>5, <1>6, WriteStep
<1>8. mode' = mode \/ (mode' = "wild" /\ \E m \in misuse' : m # "parent")
  <2>1. CASE n = Root
    BY <1>2, <1>7, <2>1
  <2>2. CASE offset + size >= U32
    BY <1>2, <1>7, <2>2
  <2>3. CASE r = "fault"
    BY <1>2, <1>7, <2>3
  <2> QED BY <1>7, <2>1, <2>2, <2>3
<1> QED BY <1>3, <1>5, <1>7, <1>8, CallKept

\* write's size is below 2^32 and its offset 0, and the root is no file.
LEMMA WriteFileStep ==
    ASSUME Inv, write
    PROVE  Inv' /\ live' = live /\ (UNCHANGED vnode \/ \E n : OnlyGrows(n))
<1>1. PICK f \in Fd, size \in Sizes :
          /\ Opened(f) /\ ~Dangling(f)
          /\ IF CanWrite(f)
             THEN \E r \in Allocation(vnode[files[f].vnode], 0, size % U32) :
                     /\ vfs_write(files[f].vnode, 0, size % U32, 10 + ops, r)
                     /\ misuse' = misuse \cup (IF r = "fault" THEN {"memory"} ELSE {})
             ELSE UNCHANGED <<vnode, mode, misuse>>
  BY DEF write
<1>2. Call /\ live' = live /\ files' = files
  BY DEF write
<1>3. /\ TreeInv /\ 10 + ops \in Nat
      /\ misuse \subseteq {"memory", "open", "parent", "root", "overflow"}
  BY <1>2, CallFacts DEF Inv, HistoryInv
<1>4. CASE ~CanWrite(f)
  <2>1. vnode' = vnode /\ mode' = mode /\ misuse' = misuse
    BY <1>1, <1>4
  <2>2. TreeInv'
    BY <1>2, <1>3, <2>1, TreeKept
  <2> QED BY <1>2, <1>3, <2>1, <2>2, CallKept
<1>5. CASE CanWrite(f)
  <2> DEFINE n == files[f].vnode
             b == 10 + ops
             s == size % U32
  <2>1. PICK r \in Allocation(vnode[n], 0, s) :
               /\ vfs_write(n, 0, s, b, r)
               /\ misuse' = misuse \cup (IF r = "fault" THEN {"memory"} ELSE {})
    BY <1>1, <1>5
  <2>2. n \in Node /\ vnode[n].type = VNODE_FILE
    BY <1>1, <1>5 DEF Inv, FilesInv, CanWrite
  <2>3. s \in Nat /\ s < U32 /\ 0 + s = s
    <3>1. size \in Int /\ U32 \in Nat \ {0}
      BY CallAssumption, VfsAssumption
    <3>2. size % U32 \in 0 .. U32 - 1
      BY <3>1, Modulo
    <3> QED BY <3>1, <3>2
  <2>4. misuse \subseteq misuse' /\ misuse' \subseteq {"memory", "open", "parent", "root", "overflow"}
    BY <1>3, <2>1
  <2>5. b \in Nat /\ 0 \in Nat
    BY <1>3
  <2> HIDE DEF n, b, s
  <2>6. /\ TreeInv'
        /\ \/ mode' = mode
           \/ /\ mode' = "wild"
              /\ \/ r = "fault" \/ 0 + s >= U32
                 \/ n = Root /\ vnode[n].type = VNODE_DIRECTORY
        /\ OnlyGrows(n)
    BY <1>2, <1>3, <2>1, <2>2, <2>3, <2>4, <2>5, WriteStep
  <2>7. mode' = mode \/ (mode' = "wild" /\ \E m \in misuse' : m # "parent")
    <3>1. U32 \in Nat /\ ~(0 + s >= U32) /\ vnode[n].type # VNODE_DIRECTORY
      BY <2>2, <2>3, VfsAssumption DEF VNODE_FILE, VNODE_DIRECTORY
    <3> QED BY <2>1, <2>6, <3>1
  <2> QED BY <1>2, <2>4, <2>6, <2>7, CallKept
<1> QED BY <1>4, <1>5

\* chmod and chown
LEMMA OwnerStep ==
    ASSUME Inv, chmod \/ chown
    PROVE  Inv' /\ live' = live /\ \E n : OnlyGrows(n)
<1>1. Call /\ live' = live /\ mode' = mode /\ files' = files /\ misuse' = misuse
  BY DEF chmod, chown
<1>2. \E f \in Fd : Opened(f) /\ \/ \E perms \in Perms : vfs_chmod(files[f].vnode, perms)
                                 \/ \E uid \in Uids : vfs_chown(files[f].vnode, uid)
  BY DEF chmod, chown
<1>3. PICK f \in Fd : Opened(f) /\ \/ \E perms \in Perms : vfs_chmod(files[f].vnode, perms)
                                   \/ \E uid \in Uids : vfs_chown(files[f].vnode, uid)
  BY <1>2
<1> DEFINE n == files[f].vnode
           v == vnode[n]
<1>4. n \in Node
  BY <1>3 DEF Inv, FilesInv
<1>5. v \in Vnode /\ v.uid \in Uids \cup {0} /\ TreeInv
      /\ SizeOf(n, v)
      /\ vnode \in [Node -> Vnode]
      /\ misuse \subseteq {"memory", "open", "parent", "root", "overflow"}
  BY <1>4 DEF Inv, TreeInv, Links, Sized, Owned, HistoryInv
<1>6. TreeInv' /\ OnlyGrows(n)
  <2>1. CASE \E perms \in Perms : vfs_chmod(n, perms)
    <3>1. PICK perms \in Perms : vnode' = [vnode EXCEPT ![n].perms = perms]
      BY <2>1 DEF vfs_chmod
    <3> DEFINE w == [v EXCEPT !.perms = perms]
    <3>2. vnode' = [vnode EXCEPT ![n] = w] /\ perms \in SUBSET Perm
      BY <3>1, CallAssumption
    <3> HIDE DEF n
    <3>3. /\ w \in Vnode /\ w.parent = v.parent /\ w.next = v.next /\ w.child = v.child
          /\ w.uid = v.uid /\ w.size = v.size /\ w.bytes = v.bytes /\ w.type = v.type
      <4> HIDE DEF v
      <4> QED BY <1>5, <3>2 DEF Vnode
    <3> HIDE DEF w
    <3>4. SizeOf(n, w)
      BY <1>5, <3>3 DEF SizeOf
    <3>5. OnlyGrows(n)
      <4>1. /\ vnode'[n] = w /\ \A m \in Node \ {n} : vnode'[m] = vnode[m]
            /\ w.name = v.name
        BY <1>4, <1>5, <3>2 DEF w
      <4>2. Len(v.bytes) \in Nat
        <5>1. v.bytes \in Seq(Nat)
          <6> HIDE DEF v
          <6> QED BY <1>5 DEF Vnode
        <5> QED BY <5>1
      <4> QED BY <3>3, <4>1, <4>2 DEF OnlyGrows
    <3> QED BY <1>1, <1>4, <1>5, <3>2, <3>3, <3>4, <3>5, NodeChanged
  <2>2. CASE \E uid \in Uids : vfs_chown(n, uid)
    <3>1. PICK uid \in Uids : vnode' = [vnode EXCEPT ![n].uid = uid]
      BY <2>2 DEF vfs_chown
    <3> DEFINE w == [v EXCEPT !.uid = uid]
    <3>2. vnode' = [vnode EXCEPT ![n] = w] /\ uid \in Nat
      BY <3>1, CallAssumption
    <3> HIDE DEF n
    <3>3. /\ w \in Vnode /\ w.parent = v.parent /\ w.next = v.next /\ w.child = v.child
          /\ w.uid = uid /\ w.size = v.size /\ w.bytes = v.bytes /\ w.type = v.type
      <4> HIDE DEF v
      <4> QED BY <1>5, <3>2 DEF Vnode
    <3> HIDE DEF w
    <3>4. SizeOf(n, w)
      BY <1>5, <3>3 DEF SizeOf
    <3>5. OnlyGrows(n)
      <4>1. /\ vnode'[n] = w /\ \A m \in Node \ {n} : vnode'[m] = vnode[m]
            /\ w.name = v.name
        BY <1>4, <1>5, <3>2 DEF w
      <4>2. Len(v.bytes) \in Nat
        <5>1. v.bytes \in Seq(Nat)
          <6> HIDE DEF v
          <6> QED BY <1>5 DEF Vnode
        <5> QED BY <5>1
      <4> QED BY <3>3, <4>1, <4>2 DEF OnlyGrows
    <3> QED BY <1>1, <1>4, <1>5, <3>2, <3>3, <3>4, <3>5, NodeChanged
  <2> QED BY <1>3, <2>1, <2>2
<1> QED BY <1>1, <1>5, <1>6, CallKept

\* Names that are looked up are sequences of components.
LEMMA BoundedNames ==
    ASSUME NEW names \in BoundedSeq(Name, 2)
    PROVE  names \in Seq(Name)
<1>1. PICK m \in 0 .. 2 : names \in [1 .. m -> Name]
  BY DEF BoundedSeq, SeqOf
<1>2. m \in Nat
  OBVIOUS
<1> QED BY <1>1, <1>2

\* A lookup finds a node or nothing.
LEMMA LookupFinds ==
    ASSUME Links, NEW names \in Seq(Name)
    PROVE  vfs_traverse_path(names) \in live \cup {NULL}
<1>1. CASE Root \notin live
  BY <1>1 DEF vfs_traverse_path
<1>2. CASE Root \in live
  <2>1. PICK at \in [0 .. Len(names) -> live \cup {NULL}] : vfs_traverse_path(names) = at[Len(names)]
    BY <1>2, TraverseUnfold
  <2>2. Len(names) \in 0 .. Len(names)
    OBVIOUS
  <2> QED BY <2>1, <2>2
<1> QED BY <1>1, <1>2

\* open and close
LEMMA OpenStep ==
    ASSUME Inv, open \/ close
    PROVE  Inv'
<1>1. Call /\ vnode' = vnode /\ live' = live /\ mode' = mode /\ misuse' = misuse
  BY DEF open, close
<1>2. /\ mode = "run" /\ ops' \in 0 .. MaxOps /\ UNCHANGED mount /\ Links
  BY <1>1, CallFacts
<1>3. TreeInv' /\ MountInv' /\ HistoryInv'
  <2>1. TreeInv'
    BY <1>1, TreeKept DEF Inv
  <2>2. MountInv'
    BY <1>1, <1>2, MountKept DEF Inv
  <2>3. HistoryInv'
    BY <1>1, <1>2, MoreMisuse DEF Inv, HistoryInv
  <2> QED BY <2>1, <2>2, <2>3
<1>4. FilesInv'
  <2>0. files = [f \in Fd |-> files[f]]
    BY DEF Inv, FilesInv
  <2>1. CASE files' = files
    BY <1>1, <2>1 DEF Inv, FilesInv, Opened
  <2>2. ASSUME NEW f \in Fd, NEW x, files' = [files EXCEPT ![f] = x],
               x = NULL \/ x.vnode \in live
        PROVE  FilesInv'
    <3>1. files' = [g \in Fd |-> IF g = f THEN x ELSE files[g]]
      BY <2>0, <2>2
    <3>2. ASSUME NEW g \in Fd, files'[g] # NULL
          PROVE  files'[g].vnode \in Node /\ (files'[g].vnode \in live' \/ "open" \in misuse')
      <4>1. CASE g = f
        BY <1>1, <1>2, <2>2, <3>1, <3>2, <4>1 DEF Links
      <4>2. CASE g # f
        BY <1>1, <3>1, <3>2, <4>2 DEF Inv, FilesInv, Opened
      <4> QED BY <4>1, <4>2
    <3>3. files' = [g \in Fd |-> files'[g]]
      BY <3>1
    <3> QED BY <3>2, <3>3 DEF FilesInv, Opened
  <2>3. CASE open
    <3>1. PICK f \in Fd, names \in BoundedSeq(Name, 2),
               m \in {READ_ONLY, WRITE_ONLY, READ_WRITE, CREATE} :
            LET node == vfs_lookup([absolute |-> TRUE, names |-> names])
            IN  files' = IF m = CREATE \/ node = NULL THEN files
                         ELSE [files EXCEPT ![f] = [vnode |-> node, mode |-> m, uid |-> 0]]
      BY <2>3 DEF open
    <3> DEFINE node == vfs_lookup([absolute |-> TRUE, names |-> names])
               x == [vnode |-> node, mode |-> m, uid |-> 0]
    <3>2. node = vfs_traverse_path(names)
      BY DEF vfs_lookup
    <3>3. node \in live \cup {NULL}
      BY <1>2, <3>2, BoundedNames, LookupFinds
    <3>4. files' = IF m = CREATE \/ node = NULL THEN files ELSE [files EXCEPT ![f] = x]
      BY <3>1
    <3> HIDE DEF node
    <3>5. x.vnode = node
      OBVIOUS
    <3> HIDE DEF x
    <3>6. CASE m = CREATE \/ node = NULL
      BY <2>1, <3>4, <3>6
    <3>7. CASE ~(m = CREATE \/ node = NULL)
      <4>1. files' = [files EXCEPT ![f] = x] /\ x.vnode \in live
        BY <3>3, <3>4, <3>5, <3>7
      <4> QED BY <2>2, <4>1
    <3> QED BY <3>6, <3>7
  <2>4. CASE close
    <3>1. PICK f \in Fd : files' = [files EXCEPT ![f] = NULL]
      BY <2>4 DEF close
    <3> QED BY <2>2, <3>1
  <2> QED BY <2>3, <2>4
<1> QED BY <1>3, <1>4 DEF Inv

\* A call through a file whose node is gone, which takes an earlier removal.
LEMMA UseDanglingStep ==
    ASSUME Inv, UseDangling
    PROVE  Inv'
<1>1. Call /\ mode' = "wild" /\ vnode' = vnode /\ live' = live /\ files' = files /\ misuse' = misuse
  BY DEF UseDangling
<1>2. PICK f \in Fd : Opened(f) /\ Dangling(f)
  BY DEF UseDangling
<1>3. "open" \in misuse /\ misuse \subseteq {"memory", "open", "parent", "root", "overflow"}
  BY <1>2 DEF Inv, FilesInv, HistoryInv, Dangling
<1>4. \E m \in misuse' : m # "parent"
  BY <1>1, <1>3
<1>5. TreeInv'
  BY <1>1, TreeKept DEF Inv
<1> QED BY <1>1, <1>3, <1>4, <1>5, CallKept

--------------------------------------------------------------------------------
(* Theorems *)

\* Before vfs_init there is nothing, and the invariant holds.
LEMMA InitInv == Init => Inv
<1> SUFFICES ASSUME Init PROVE Inv
  OBVIOUS
<1>1. /\ vnode = [n \in Node |-> Freed] /\ live = {} /\ mode = "boot" /\ archive \in Archives
      /\ entry = 0 /\ header_name = [k \in DOMAIN archive |-> archive[k].name]
      /\ token = NullPtr /\ last = NullPtr /\ current_parent = NULL
      /\ files = [f \in Fd |-> NULL] /\ ops = 0 /\ misuse = {}
  BY DEF Init, MountInit
<1>2. TreeInv
  <2>1. vnode \in [Node -> Vnode] /\ \A n \in Node : vnode[n] = Freed
    BY <1>1, FreedVnode
  <2>2. Sized /\ Owned
    BY <2>1, FreedVnode DEF Sized, SizeOf, Owned
  <2>3. Closed /\ Sole /\ Parents /\ Attached
    BY <1>1 DEF Closed, Sole, Parents, Attached
  <2>4. Acyclic
    <3>1. [n \in Node |-> 0] \in [Node -> Nat]
      OBVIOUS
    <3>2. \A rank \in [Node -> Nat] : Ranks(rank)
      BY <1>1 DEF Ranks
    <3> QED BY <3>1, <3>2 DEF Acyclic
  <2> QED BY <1>1, <2>1, <2>2, <2>3, <2>4 DEF TreeInv, Links
<1>3. Headers(header_name)
  <2>1. archive \in Seq(Header) /\ DOMAIN archive = 1 .. Len(archive)
    BY <1>1, ArchiveType
  <2>2. ASSUME NEW k \in 1 .. Len(archive)
        PROVE  /\ header_name[k] = archive[k].name /\ archive[k].name \in Seq(Char)
               /\ ~Skipped(archive[k].name) =>
                    \A i \in NameStart(archive[k].name) .. Len(archive[k].name) :
                        archive[k].name[i] \in Name \cup {"/", NUL}
    <3>1. header_name[k] = archive[k].name
      BY <1>1, <2>1
    <3>2. archive[k] \in Header
      BY <2>1
    <3>3. archive[k].name \in Seq(STRING)
      BY <3>2 DEF Header
    <3>4. archive[k].name \in Seq(Char)
      <4> DEFINE s == archive[k].name
      <4>1. s \in Seq(STRING)
        BY <3>3
      <4> HIDE DEF s
      <4>2. s \in Seq(Char)
        BY <4>1 DEF Char
      <4> QED BY <4>2 DEF s
    <3>5. ~Skipped(archive[k].name) =>
            \A i \in NameStart(archive[k].name) .. Len(archive[k].name) :
                archive[k].name[i] \in Name \cup {"/"}
      BY <1>1, <2>1, ArchiveAssumption, Zenon
    <3> QED BY <3>1, <3>4, <3>5
  <2>3. header_name \in [1 .. Len(archive) -> Seq(Char)]
    BY <1>1, <2>1, <2>2
  <2> QED BY <2>2, <2>3, Zenon DEF Headers
<1>4. MountInv
  <2>1. TokenInv
    BY <1>1, <1>3 DEF TokenInv
  <2>2. Len(archive) \in Nat
    BY <1>1, ArchiveType
  <2> QED BY <1>1, <2>1, <2>2 DEF MountInv, Pointer
<1>5. FilesInv
  BY <1>1 DEF FilesInv, Opened
<1>6. HistoryInv
  BY <1>1, CallAssumption DEF HistoryInv, WildOnlyByMisuse
<1> QED BY <1>2, <1>4, <1>5, <1>6 DEF Inv

\* Nothing happens.
LEMMA StutterStep ==
    ASSUME Inv, UNCHANGED vars
    PROVE  Inv'
<1>1. /\ vnode' = vnode /\ live' = live /\ mode' = mode /\ UNCHANGED mount
      /\ files' = files /\ ops' = ops /\ misuse' = misuse
  BY DEF vars
<1>2. TreeInv' /\ MountInv'
  <2>1. TreeInv'
    BY <1>1, TreeKept DEF Inv
  <2>2. MountInv'
    BY <1>1, MountKept DEF Inv
  <2> QED BY <2>1, <2>2
<1>3. FilesInv' /\ HistoryInv'
  BY <1>1, RestKept DEF Inv
<1> QED BY <1>2, <1>3 DEF Inv

\* Every step of the mount and of the callers keeps the invariant.
THEOREM Invariance == Spec => []Inv
<1>1. ASSUME Inv, [Next]_vars PROVE Inv'
  <2>1. CASE Mount
    <3>1. UNCHANGED <<files, ops, misuse>> /\ (ramfs_init \/ ramfs_parse \/ ramfs_parse_fails)
      BY <2>1 DEF Mount
    <3>2. CASE ramfs_init
      BY <1>1, <3>1, <3>2, InitStep
    <3>3. CASE ramfs_parse
      BY <1>1, <3>1, <3>3, ParseStep
    <3>4. CASE ramfs_parse_fails
      BY <1>1, <3>1, <3>4, HaltStep DEF ramfs_parse_fails
    <3> QED BY <3>1, <3>2, <3>3, <3>4
  <2>2. CASE NoRoot
    BY <1>1, <2>2, NoRootStep
  <2>3. CASE VfsCreate
    BY <1>1, <2>3, VfsCreateStep
  <2>4. CASE VfsRemove
    BY <1>1, <2>4, VfsRemoveStep
  <2>5. CASE VfsWrite
    BY <1>1, <2>5, VfsWriteStep
  <2>6. CASE open \/ close
    BY <1>1, <2>6, OpenStep
  <2>7. CASE write
    BY <1>1, <2>7, WriteFileStep
  <2>8. CASE chmod \/ chown
    BY <1>1, <2>8, OwnerStep
  <2>9. CASE UseDangling
    BY <1>1, <2>9, UseDanglingStep
  <2>10. CASE UNCHANGED vars
    BY <1>1, <2>10, StutterStep
  <2>11. CASE Done
    BY <1>1, <2>11, StutterStep DEF Done
  <2> QED BY <1>1, <2>1, <2>2, <2>3, <2>4, <2>5, <2>6, <2>7, <2>8, <2>9, <2>10, <2>11 DEF Next
<1> QED BY <1>1, InitInv, PTL DEF Spec

\* Types: whatever is mounted and called, an address holds a vnode, and strtok and
\* the parser stay inside the archive.
THEOREM TypeCorrect == Spec => []TypeOK
<1>1. Inv => TypeOK
  <2> SUFFICES ASSUME Inv PROVE TypeOK
    OBVIOUS
  <2>1. \A n \in Node : vnode[n] \in Vnode /\ vnode[n].uid \in Uids \cup {0}
    BY DEF Inv, TreeInv, Links, Owned
  <2>2. token.buf \in {0, entry}
    BY DEF Inv, MountInv, TokenInv, NullPtr
  <2> QED BY <2>1, <2>2 DEF Inv, TreeInv, Links, MountInv, FilesInv, HistoryInv, TypeOK
<1> QED BY <1>1, Invariance, PTL

\* The file system leaves its own memory only after a misuse by its callers.
THEOREM WildByMisuse == Spec => []WildOnlyByMisuse
<1>1. Inv => WildOnlyByMisuse
  BY DEF Inv, HistoryInv
<1> QED BY <1>1, Invariance, PTL

\* Whatever calls are made, the pointers stay a tree with which lookups agree.
THEOREM TreeAlwaysSound == Spec => []TreeSound
<1>1. Inv => TreeSound
  <2> SUFFICES ASSUME Inv PROVE TreeSound
    OBVIOUS
  <2>0. Links /\ Reach \subseteq live /\ live \subseteq Node /\ NULL \notin live
    BY ReachLive, VfsAssumption DEF Inv, TreeInv, Links
  <2>1. ListsSound
    <3> SUFFICES ASSUME NEW d \in Reach
                 PROVE  /\ IsInjective(Kids(d)) /\ Len(Kids(d)) < Cardinality(Node)
                        /\ \A n \in ToSet(Kids(d)) : n \in live /\ n # Root /\ vnode[n].parent = d
      BY DEF ListsSound
    <3> DEFINE k == Kids(d)
    <3>1. ListOf(k, d)
      BY <2>0, KidsList
    <3> HIDE DEF k
    <3>2. /\ k \in Seq(live \ {Root}) /\ DOMAIN k = 1 .. Len(k) /\ Len(k) < Cardinality(Node)
          /\ \A i \in 1 .. Len(k) : vnode[k[i]].parent = d /\ k[i] \in live \ {Root}
          /\ \A i, j \in 1 .. Len(k) : k[i] = k[j] => i = j
      BY <3>1 DEF ListOf
    <3>3. IsInjective(k)
      BY <3>2 DEF IsInjective
    <3>4. \A n \in ToSet(k) : n \in live /\ n # Root /\ vnode[n].parent = d
      BY <3>2 DEF ToSet
    <3> QED BY <3>2, <3>3, <3>4 DEF k
  <2>2. ParentFound
    <3> SUFFICES ASSUME NEW names \in BoundedSeq(Name, 2), names # << >>,
                        vfs_lookup([absolute |-> TRUE, names |-> names]) # NULL
                 PROVE  vnode[vfs_lookup([absolute |-> TRUE, names |-> names])].parent =
                            vfs_lookup_parent([absolute |-> TRUE, names |-> names])
      BY DEF ParentFound
    <3>1. names \in Seq(Name)
      BY BoundedNames
    <3> DEFINE n == vfs_traverse_path(names)
               d == vfs_traverse_path(Front(names))
    <3>2. /\ vfs_lookup([absolute |-> TRUE, names |-> names]) = n
          /\ vfs_lookup_parent([absolute |-> TRUE, names |-> names]) = d
      BY DEF vfs_lookup, vfs_lookup_parent
    <3>3. n # NULL
      BY <3>2
    <3>4. Root \in live
      BY <3>3 DEF vfs_traverse_path
    <3>5. d \in live \cup {NULL} /\ n = vfs_search_node(d, names[Len(names)])
      BY <2>0, <3>1, <3>4, TraverseLast
    <3> HIDE DEF n, d
    <3>6. vnode[n].parent = d
      BY <2>0, <3>3, <3>5, SearchFinds
    <3> QED BY <3>2, <3>6
  <2>3. "parent" \notin misuse => live = Reach
    BY <2>0, ReachAll DEF Inv, TreeInv
  <2> QED BY <2>1, <2>2, <2>3 DEF TreeSound
<1> QED BY <1>1, Invariance, PTL

\* No read hands out bytes that are not the file's.
THEOREM ReadsInside == Spec => []ReadsStayInside
<1>1. Inv => ReadsStayInside
  <2> SUFFICES ASSUME Inv PROVE ReadsStayInside
    OBVIOUS
  <2>0. Reach \subseteq live /\ live \subseteq Node
    BY ReachLive DEF Inv, TreeInv, Links
  <2>1. ASSUME NEW n \in Node
        PROVE  /\ vnode[n].size \in Nat
               /\ vnode[n].size = Len(vnode[n].bytes) \/ (n = Root /\ vnode[n].type = VNODE_DIRECTORY)
    BY DEF Inv, TreeInv, Links, Sized, SizeOf, Vnode
  <2>2. ASSUME NEW f \in Fd, Opened(f), ~Dangling(f), NEW size \in Sizes, CanRead(f)
        PROVE  BytesRead(f, size) <= Len(vnode[files[f].vnode].bytes)
    <3> DEFINE n == files[f].vnode
    <3>1. n \in Node /\ vnode[n].type = VNODE_FILE
      BY <2>2 DEF Inv, FilesInv, CanRead
    <3>2. vnode[n].size \in Nat /\ vnode[n].size = Len(vnode[n].bytes) /\ size \in Nat
      BY <2>1, <3>1, CallAssumption DEF VNODE_FILE, VNODE_DIRECTORY
    <3> QED BY <3>2 DEF BytesRead
  <2>3. ASSUME NEW n \in Reach \ {Root}, NEW offset \in Offsets, NEW size \in Sizes,
               offset <= vnode[n].size, offset + size < U32
        PROVE  LET s == ReadSize(vnode[n], offset, size)
               IN  s <= size /\ offset + s <= Len(vnode[n].bytes)
    <3> DEFINE v == vnode[n]
               x == offset + size
               y == v.size - offset
    <3>1. v.size \in Nat /\ v.size = Len(v.bytes) /\ size \in Nat /\ offset \in Nat
      BY <2>0, <2>1, CallAssumption
    <3>2. U32 \in Nat \ {0} /\ x \in 0 .. U32 - 1 /\ y \in Nat /\ x \in Int /\ y \in Int
      BY <2>3, <3>1, VfsAssumption
    <3>3. ReadSize(v, offset, size) = IF x % U32 > v.size THEN y % U32 ELSE size
      BY DEF ReadSize
    <3>4. x = offset + size /\ y = v.size - offset
      OBVIOUS
    <3> HIDE DEF v, x, y
    <3>5. x % U32 = x /\ y % U32 <= y /\ y % U32 \in Nat
      <4>1. x % U32 = x
        BY <3>2, Modulo
      <4>2. y % U32 <= y /\ y % U32 \in 0 .. U32 - 1
        BY <3>2, Modulo
      <4> QED BY <3>2, <4>1, <4>2
    <3>6. ReadSize(v, offset, size) <= size /\ offset + ReadSize(v, offset, size) <= Len(v.bytes)
      <4> DEFINE z == y % U32
      <4>1. ReadSize(v, offset, size) = IF x > v.size THEN z ELSE size
        BY <3>3, <3>5
      <4>2. z <= y /\ z \in Nat
        BY <3>5
      <4> HIDE DEF z
      <4> QED BY <3>1, <3>2, <3>4, <4>1, <4>2
    <3> QED BY <3>6 DEF v
  <2> QED BY <2>2, <2>3 DEF ReadsStayInside
<1> QED BY <1>1, Invariance, PTL

--------------------------------------------------------------------------------
(* The vnode tree implements FileTree *)

Tree == [n \in Reach |-> [name |-> vnode[n].name, kids |-> Kids(n), body |-> vnode[n].bytes]]

\* Where neither links nor names nor contents change, the tree stays.
LEMMA TreeStays ==
    ASSUME Links, Links', live' = live,
           \A m \in live : /\ vnode'[m].next = vnode[m].next
                           /\ vnode'[m].child = vnode[m].child
                           /\ vnode'[m].name = vnode[m].name,
           \A m \in Reach : vnode'[m].bytes = vnode[m].bytes
    PROVE  Tree' = Tree
<1>1. Reach' = Reach /\ \A d \in live : Kids(d)' = Kids(d)
  BY SameTree
<1>2. Reach \subseteq live
  BY ReachLive
<1>3. Tree' = [n \in Reach' |-> [name |-> vnode'[n].name, kids |-> Kids(n)', body |-> vnode'[n].bytes]]
  BY DEF Tree
<1> QED BY <1>1, <1>2, <1>3 DEF Tree

\* vfs_create on a node of the tree is a creation.
LEMMA CreateImplements ==
    ASSUME Links, NEW parent \in Reach, NEW n, NEW new \in Vnode,
           new.parent = parent, new.next = NULL, new.child = NULL,
           vfs_create(parent, n, new)
    PROVE  Abstract!Create(Tree, Tree')
<1>1. /\ Reach' = Reach \cup {n} /\ n \notin Reach
      /\ Kids(n)' = << >>
      /\ \A d \in Reach : Kids(d)' = IF d = parent THEN Append(Kids(d), n) ELSE Kids(d)
  BY CreatedTree
<1>2. Reach \subseteq live /\ live \subseteq Node
  BY ReachLive DEF Links
<1>3. /\ n \in Node \ live
      /\ \A m \in Node \ {n} : vnode'[m].name = vnode[m].name /\ vnode'[m].bytes = vnode[m].bytes
  BY <1>2, CreatedLinks
<1> DEFINE t == Tree
           u == Tree'
<1>4. u = [m \in Reach' |-> [name |-> vnode'[m].name, kids |-> Kids(m)', body |-> vnode'[m].bytes]]
  BY DEF Tree
<1>5. t = [m \in Reach |-> [name |-> vnode[m].name, kids |-> Kids(m), body |-> vnode[m].bytes]]
  BY DEF Tree
<1> HIDE DEF t, u
<1>6. DOMAIN t = Reach /\ DOMAIN u = Reach \cup {n} /\ u[n].kids = << >>
  BY <1>1, <1>4, <1>5
<1>7. ASSUME NEW m \in Reach
      PROVE  u[m] = IF m = parent THEN [t[parent] EXCEPT !.kids = Append(@, n)] ELSE t[m]
  <2>1. u[m] = [name |-> vnode'[m].name, kids |-> Kids(m)', body |-> vnode'[m].bytes]
    BY <1>1, <1>4
  <2>2. t[m] = [name |-> vnode[m].name, kids |-> Kids(m), body |-> vnode[m].bytes]
    BY <1>5
  <2>3. vnode'[m].name = vnode[m].name /\ vnode'[m].bytes = vnode[m].bytes
    BY <1>1, <1>2, <1>3
  <2>4. CASE m = parent
    <3>1. [t[m] EXCEPT !.kids = Append(@, n)]
            = [name |-> vnode[m].name, kids |-> Append(Kids(m), n), body |-> vnode[m].bytes]
      <4> DEFINE A(k) == Append(k, n)
      <4> HIDE DEF A
      <4>1. [t[m] EXCEPT !.kids = A(@)]
              = [name |-> vnode[m].name, kids |-> A(Kids(m)), body |-> vnode[m].bytes]
        BY <2>2
      <4> QED BY <4>1, Zenon DEF A
    <3>2. Kids(m)' = Append(Kids(m), n)
      BY <1>1, <2>4
    <3> QED BY <2>1, <2>3, <2>4, <3>1, <3>2
  <2>5. CASE m # parent
    <3>1. Kids(m)' = Kids(m)
      BY <1>1, <2>5
    <3> QED BY <2>1, <2>2, <2>3, <2>5, <3>1
  <2> QED BY <2>4, <2>5
<1>8. Abstract!Create(t, u)
  BY <1>1, <1>6, <1>7 DEF Abstract!Create
<1> QED BY <1>8 DEF t, u

\* vfs_remove on a node of the tree is a deletion.
LEMMA RemoveImplements ==
    ASSUME Links, NEW parent \in Reach, NEW n \in ToSet(Kids(parent)), vfs_remove(parent, n)
    PROVE  Abstract!Delete(Tree, Tree')
<1>1. /\ Reach' \subseteq Reach /\ n \in Reach /\ n \notin Reach' /\ parent \in Reach'
      /\ \A m \in Reach \ Reach' : ToSet(Kids(m)) \subseteq Reach \ Reach'
      /\ \A m \in (Reach \ Reach') \ {n} : \E p \in Reach \ Reach' : m \in ToSet(Kids(p))
      /\ \E i \in 1 .. Len(Kids(parent)) :
            /\ Kids(parent)[i] = n
            /\ \A d \in Reach' :
                  Kids(d)' = IF d = parent THEN RemoveAt(Kids(d), i) ELSE Kids(d)
  BY RemovedTree
<1>2. PICK i \in 1 .. Len(Kids(parent)) :
            /\ Kids(parent)[i] = n
            /\ \A d \in Reach' :
                  Kids(d)' = IF d = parent THEN RemoveAt(Kids(d), i) ELSE Kids(d)
  BY <1>1
<1>3. Reach \subseteq live /\ live \subseteq Node /\ parent \in live
  BY ReachLive DEF Links
<1>4. /\ \A m \in Node \ {n} : vnode'[m].name = vnode[m].name /\ vnode'[m].bytes = vnode[m].bytes
  BY <1>3, RemovedLinks
<1>5. i \in DOMAIN Kids(parent)
  <2>1. PICK k : k = Kids(parent)
    OBVIOUS
  <2>2. k \in Seq(live \ {Root})
    BY <1>3, <2>1, KidsList DEF ListOf
  <2> QED BY <1>2, <2>1, <2>2
<1> DEFINE t == Tree
           u == Tree'
           gone == DOMAIN t \ DOMAIN u
<1>6. u = [m \in Reach' |-> [name |-> vnode'[m].name, kids |-> Kids(m)', body |-> vnode'[m].bytes]]
  BY DEF Tree
<1>7. t = [m \in Reach |-> [name |-> vnode[m].name, kids |-> Kids(m), body |-> vnode[m].bytes]]
  BY DEF Tree
<1> HIDE DEF t, u
<1>8. DOMAIN t = Reach /\ DOMAIN u = Reach' /\ gone = Reach \ Reach' /\ DOMAIN t \ gone = Reach'
      /\ \A m \in Reach : t[m].kids = Kids(m)
  BY <1>1, <1>6, <1>7
<1> HIDE DEF gone
<1>9. parent \in DOMAIN u \cap DOMAIN t /\ i \in DOMAIN t[parent].kids /\ t[parent].kids[i] = n
      /\ n \in gone
  BY <1>1, <1>2, <1>5, <1>8
<1>10. \A m \in gone : /\ ToSet(t[m].kids) \subseteq gone
                       /\ m # n => \E p \in gone : m \in ToSet(t[p].kids)
  BY <1>1, <1>8
<1>11. ASSUME NEW m \in Reach'
       PROVE  u[m] = IF m = parent THEN [t[parent] EXCEPT !.kids = RemoveAt(@, i)] ELSE t[m]
  <2>0. m \in Reach
    BY <1>1
  <2>1. u[m] = [name |-> vnode'[m].name, kids |-> Kids(m)', body |-> vnode'[m].bytes]
    BY <1>6
  <2>2. t[m] = [name |-> vnode[m].name, kids |-> Kids(m), body |-> vnode[m].bytes]
    BY <1>7, <2>0
  <2>3. vnode'[m].name = vnode[m].name /\ vnode'[m].bytes = vnode[m].bytes
    BY <1>1, <1>3, <1>4, <2>0
  <2>4. CASE m = parent
    <3>1. [t[m] EXCEPT !.kids = RemoveAt(@, i)]
            = [name |-> vnode[m].name, kids |-> RemoveAt(Kids(m), i), body |-> vnode[m].bytes]
      BY <2>2
    <3>2. Kids(m)' = RemoveAt(Kids(m), i)
      BY <1>2, <2>4
    <3> QED BY <2>1, <2>3, <2>4, <3>1, <3>2
  <2>5. CASE m # parent
    <3>1. Kids(m)' = Kids(m)
      BY <1>2, <2>5
    <3> QED BY <2>1, <2>2, <2>3, <2>5, <3>1
  <2> QED BY <2>4, <2>5
<1>12. u = [m \in DOMAIN t \ gone |->
              IF m = parent THEN [t[parent] EXCEPT !.kids = RemoveAt(@, i)] ELSE t[m]]
  <2> DEFINE F(m) == IF m = parent THEN [t[parent] EXCEPT !.kids = RemoveAt(@, i)] ELSE t[m]
  <2>1. \A m \in Reach' : u[m] = F(m)
    BY <1>11
  <2> HIDE DEF F
  <2>2. u = [m \in Reach' |-> u[m]]
    BY <1>6
  <2>3. u = [m \in DOMAIN t \ gone |-> F(m)]
    BY <1>8, <2>1, <2>2
  <2> QED BY <2>3 DEF F
<1>13. /\ \A s : Abstract!ToSet(s) = ToSet(s)
       /\ \A s, j : Abstract!RemoveAt(s, j) = RemoveAt(s, j)
  BY DEF Abstract!ToSet, ToSet, Abstract!RemoveAt, RemoveAt
<1>14. Abstract!Delete(t, u)
  <2> DEFINE T(s) == Abstract!ToSet(s)
             R(s, j) == Abstract!RemoveAt(s, j)
  <2>1. \A m \in gone : /\ T(t[m].kids) \subseteq gone
                        /\ m # n => \E p \in gone : m \in T(t[p].kids)
    BY <1>10, <1>13
  <2>2. u = [m \in DOMAIN t \ gone |->
              IF m = parent THEN [t[parent] EXCEPT !.kids = R(@, i)] ELSE t[m]]
    <3> DEFINE Q(s, j) == RemoveAt(s, j)
    <3>1. \A s, j : R(s, j) = Q(s, j)
      BY <1>13
    <3>2. u = [m \in DOMAIN t \ gone |->
              IF m = parent THEN [t[parent] EXCEPT !.kids = Q(@, i)] ELSE t[m]]
      BY <1>12
    <3> HIDE DEF Q, R
    <3> QED BY <3>1, <3>2
  <2> HIDE DEF T, R
  <2>3. \E d \in DOMAIN u \cap DOMAIN t : \E j \in DOMAIN t[d].kids :
          /\ t[d].kids[j] \in gone
          /\ \A m \in gone :
                /\ T(t[m].kids) \subseteq gone
                /\ m # t[d].kids[j] => \E p \in gone : m \in T(t[p].kids)
          /\ u = [m \in DOMAIN t \ gone |->
                    IF m = d THEN [t[d] EXCEPT !.kids = R(@, j)] ELSE t[m]]
    BY <1>9, <2>1, <2>2
  <2> QED BY <2>3 DEF Abstract!Delete, T, R, gone
<1> QED BY <1>14 DEF t, u

\* A change of one node's contents is a write if the node is in the tree, and else none.
LEMMA WriteImplements ==
    ASSUME Links, Links', live' = live, NEW n, OnlyGrows(n)
    PROVE  Abstract!Write(Tree, Tree') \/ Tree' = Tree
<1>1. Reach \subseteq live /\ live \subseteq Node
  BY ReachLive DEF Links
<1>2. CASE n \notin Reach
  <2>1. \A m \in Reach : vnode'[m].bytes = vnode[m].bytes
    BY <1>1, <1>2 DEF OnlyGrows
  <2>2. \A m \in live : /\ vnode'[m].next = vnode[m].next
                        /\ vnode'[m].child = vnode[m].child
                        /\ vnode'[m].name = vnode[m].name
    BY <1>1 DEF OnlyGrows
  <2> QED BY <2>1, <2>2, TreeStays
<1>3. CASE n \in Reach
  <2>0. \A m \in live : vnode'[m].next = vnode[m].next /\ vnode'[m].child = vnode[m].child
    BY <1>1 DEF OnlyGrows
  <2>1. Reach' = Reach /\ \A d \in live : Kids(d)' = Kids(d)
    BY <2>0, SameTree
  <2> DEFINE t == Tree
             u == Tree'
  <2>2. u = [m \in Reach' |-> [name |-> vnode'[m].name, kids |-> Kids(m)', body |-> vnode'[m].bytes]]
    BY DEF Tree
  <2>3. t = [m \in Reach |-> [name |-> vnode[m].name, kids |-> Kids(m), body |-> vnode[m].bytes]]
    BY DEF Tree
  <2> HIDE DEF t, u
  <2>4. ASSUME NEW m \in Reach
        PROVE  u[m] = IF m = n THEN [t[m] EXCEPT !.body = u[n].body] ELSE t[m]
    <3>1. u[m] = [name |-> vnode[m].name, kids |-> Kids(m), body |-> vnode'[m].bytes]
          /\ t[m] = [name |-> vnode[m].name, kids |-> Kids(m), body |-> vnode[m].bytes]
      BY <1>1, <2>1, <2>2, <2>3 DEF OnlyGrows
    <3>2. m # n => vnode'[m].bytes = vnode[m].bytes
      BY <1>1 DEF OnlyGrows
    <3> QED BY <3>1, <3>2
  <2>5. DOMAIN u = Reach /\ DOMAIN t = Reach /\ Len(u[n].body) >= Len(t[n].body)
    BY <1>3, <2>1, <2>2, <2>3 DEF OnlyGrows
  <2>6. u = [m \in Reach |-> u[m]] /\ t = [m \in Reach |-> t[m]]
    BY <2>1, <2>2, <2>3
  <2>7. u = [t EXCEPT ![n].body = u[n].body]
    <3>1. PICK b : b = u[n].body
      OBVIOUS
    <3>2. [t EXCEPT ![n].body = b] = [m \in Reach |-> IF m = n THEN [t[m] EXCEPT !.body = b] ELSE t[m]]
      BY <1>3, <2>6
    <3>3. u = [m \in Reach |-> IF m = n THEN [t[m] EXCEPT !.body = b] ELSE t[m]]
      BY <2>4, <2>6, <3>1
    <3> QED BY <3>1, <3>2, <3>3
  <2>8. Abstract!Write(t, u)
    BY <1>3, <2>5, <2>7 DEF Abstract!Write
  <2> QED BY <2>8 DEF t, u
<1> QED BY <1>2, <1>3

\* Before ramfs_init the tree is empty.
LEMMA EmptyTree ==
    ASSUME live = {}
    PROVE  Tree = << >>
<1>1. Reach = {}
  BY DEF Reach
<1> QED BY <1>1 DEF Tree

\* ramfs_init's root alone is the tree that Format makes.
LEMMA FormatImplements ==
    ASSUME Links', live = {}, live' = {Root}, vnode'[Root].next = NULL, vnode'[Root].child = NULL,
           vnode'[Root].bytes = << >>
    PROVE  Abstract!Format(Tree, Tree')
<1>1. TreeFacts'
  BY TreeFactsNext
<1>2. Root \in Node /\ NULL \notin Node
  BY VfsAssumption
<1>3. Reach' = {Root}
  <2>1. PICK R : R = {Root}
    OBVIOUS
  <2>2. Grown(R)'
    BY <1>2, <2>1 DEF Grown, Points
  <2>3. (\A Q : Grown(Q) => Reach = Q)'
    BY <1>1 DEF TreeFacts
  <2> QED BY <2>1, <2>2, <2>3
<1>4. Kids(Root)' = << >>
  <2>1. (\A d \in live : \A s \in Seq(live) : Linked(s, d) => Kids(d) = s)'
    BY <1>1 DEF TreeFacts
  <2>2. << >> \in Seq(live') /\ Linked(<< >>, Root)' /\ Root \in live'
    BY DEF Linked
  <2> QED BY <2>1, <2>2
<1>5. Tree = << >>
  BY EmptyTree
<1>6. Tree' = [m \in Reach' |-> [name |-> vnode'[m].name, kids |-> Kids(m)', body |-> vnode'[m].bytes]]
  BY DEF Tree
<1>7. DOMAIN Tree' = {Root} /\ Tree'[Root].kids = << >> /\ Tree'[Root].body = << >>
  BY <1>3, <1>4, <1>6
<1> QED BY <1>5, <1>7 DEF Abstract!Format

\* The parser creates only in directories that are in the tree: nothing was removed yet.
LEMMA InTree ==
    ASSUME Inv, mode \in {"boot", "mount"}
    PROVE  live \subseteq Reach
<1>1. "parent" \notin misuse /\ Links
  BY DEF Inv, HistoryInv, TreeInv
<1>2. Attached
  BY <1>1 DEF Inv, TreeInv
<1> QED BY <1>1, <1>2, ReachAll

\* Every step changes the tree as FileTree says, or not at all.
LEMMA TreeStep ==
    ASSUME Inv, Inv', [Next]_vars
    PROVE  Abstract!Step(Tree, Tree') \/ Tree' = Tree
<1>1. Links /\ Links'
  BY DEF Inv, TreeInv
<1>2. ASSUME UNCHANGED <<vnode, live>> PROVE Tree' = Tree
  BY <1>1, <1>2, TreeStays
<1>3. ASSUME NEW parent \in Reach, Creates(parent) PROVE Abstract!Create(Tree, Tree')
  <2>1. PICK n : \E new \in Vnode : /\ new.parent = parent /\ new.next = NULL /\ new.child = NULL
                                   /\ vfs_create(parent, n, new)
    BY <1>3 DEF Creates
  <2>2. PICK new \in Vnode : /\ new.parent = parent /\ new.next = NULL /\ new.child = NULL
                            /\ vfs_create(parent, n, new)
    BY <2>1
  <2> QED BY <1>1, <2>2, CreateImplements
<1>4. CASE Mount
  <2>1. UNCHANGED <<files, ops, misuse>> /\ (ramfs_init \/ ramfs_parse \/ ramfs_parse_fails)
    BY <1>4 DEF Mount
  <2>2. CASE ramfs_init
    <3>1. \/ UNCHANGED <<vnode, live>>
          \/ /\ live = {} /\ live' = {Root} /\ vnode'[Root].bytes = << >>
             /\ vnode'[Root].next = NULL /\ vnode'[Root].child = NULL
      BY <2>1, <2>2, InitStep
    <3>2. Tree' = Tree \/ Abstract!Format(Tree, Tree')
      BY <1>1, <1>2, <3>1, FormatImplements
    <3> QED BY <3>2 DEF Abstract!Step
  <2>3. CASE ramfs_parse
    <3>1. UNCHANGED <<vnode, live>> \/ (Creates(current_parent) /\ mode = "mount")
      BY <2>1, <2>3, ParseStep
    <3>2. CASE UNCHANGED <<vnode, live>>
      BY <1>2, <3>2
    <3>3. CASE Creates(current_parent) /\ mode = "mount"
      <4>1. current_parent \in live
        BY <3>3 DEF Inv, MountInv
      <4>2. current_parent \in Reach
        BY <3>3, <4>1, InTree
      <4> QED BY <1>3, <3>3, <4>2 DEF Abstract!Step
    <3> QED BY <3>1, <3>2, <3>3
  <2>4. CASE ramfs_parse_fails
    BY <1>2, <2>4 DEF ramfs_parse_fails, Halt
  <2> QED BY <2>1, <2>2, <2>3, <2>4
<1>5. CASE VfsCreate
  <2>1. PICK parent \in Reach : Creates(parent)
    BY <1>5, VfsCreateStep
  <2> QED BY <1>3, <2>1 DEF Abstract!Step
<1>6. CASE VfsRemove
  <2>1. PICK parent \in Reach, n \in Reach : vfs_remove(parent, n)
    BY <1>6 DEF VfsRemove
  <2>2. CASE n \in ToSet(Kids(parent))
    BY <1>1, <2>1, <2>2, RemoveImplements DEF Abstract!Step
  <2>3. CASE n \notin ToSet(Kids(parent))
    <3>1. UNCHANGED <<vnode, live>>
      BY <2>1, <2>3 DEF vfs_remove
    <3> QED BY <1>2, <3>1
  <2> QED BY <2>2, <2>3
<1>7. CASE VfsWrite \/ write \/ chmod \/ chown
  <2>1. live' = live /\ (UNCHANGED vnode \/ \E n : OnlyGrows(n))
    BY <1>7, VfsWriteStep, WriteFileStep, OwnerStep
  <2>2. CASE UNCHANGED vnode
    BY <1>2, <2>1, <2>2
  <2>3. ASSUME NEW n, OnlyGrows(n) PROVE Abstract!Write(Tree, Tree') \/ Tree' = Tree
    BY <1>1, <2>1, <2>3, WriteImplements
  <2> QED BY <2>1, <2>2, <2>3 DEF Abstract!Step
<1>8. CASE NoRoot \/ open \/ close \/ UseDangling \/ Done \/ UNCHANGED vars
  <2>1. UNCHANGED <<vnode, live>>
    BY <1>8 DEF NoRoot, vfs_init_fails, Halt, open, close, UseDangling, Done, vars
  <2> QED BY <1>2, <2>1
<1> QED BY <1>4, <1>5, <1>6, <1>7, <1>8 DEF Next

\* To its users the linked vnodes are an ordered tree of named files, through the mount
\* and through any sequence of calls: vfs_create appends one node, vfs_remove takes out
\* one subtree and leaves the rest in order, a write concerns one node and never
\* shortens it, and nothing else that the kernel does is seen in the tree.
THEOREM IsTree == Spec => IsFileTree
<1>1. Init => Abstract!Init
  <2>1. Init => live = {}
    BY DEF Init, MountInit
  <2>2. Init => Tree = << >>
    BY <2>1, EmptyTree
  <2> QED BY <2>2 DEF Abstract!Init, Tree
<1>2. Inv /\ Inv' /\ [Next]_vars =>
        [Abstract!Next]_([n \in Reach |->
            [name |-> vnode[n].name, kids |-> Kids(n), body |-> vnode[n].bytes]])
  BY TreeStep DEF Abstract!Next, Tree
<1> QED BY <1>1, <1>2, Invariance, PTL DEF Spec, IsFileTree, Abstract!Spec
================================================================================
