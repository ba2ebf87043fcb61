---------------------------------- MODULE Vfs ----------------------------------
(***************************************************************************)
(* The vnode tree of dev/vfs.c: nodes in heap memory, linked by parent,    *)
(* child and next pointers.  Pointers are members of Node and are reused   *)
(* after kfree.  A path is the sequence of its components and whether it   *)
(* starts with a slash; a byte is the number of what stored it, 0 for a    *)
(* byte that nobody stored.  Times are left out.                           *)
(***************************************************************************)
EXTENDS Integers, Sequences, FiniteSets, SequencesExt

CONSTANTS
    Node, Root,   \* addresses kmalloc can give to a vnode; g_vfs_root is Root
    NULL,
    Name,
    U32           \* bound: stands for 2^32, the modulus of offset + size

ASSUME VfsAssumption ==
    /\ Root \in Node /\ NULL \notin Node
    /\ IsFiniteSet(Node) /\ U32 \in Nat \ {0}

VARIABLES
    vnode,    \* contents of each address
    live,     \* addresses that hold a vnode
    mode      \* "boot", "mount", "run"; "halt" (hcf), "wild" (memory is
              \* accessed where nothing is)

VNODE_DIRECTORY == 0
VNODE_FILE == 1

Perm == {"OWNER", "GROUP", "OTHERS"} \X {"READ", "WRITE", "EXECUTE"}

RootPerms == Perm \ {<<"GROUP", "WRITE">>, <<"OTHERS", "WRITE">>}

Pointer == Node \cup {NULL}

Vnode == [parent : Pointer, next : Pointer, child : Pointer, name : Name \cup {"", "/"},
          type : {VNODE_DIRECTORY, VNODE_FILE}, perms : SUBSET Perm, size : Nat,
          uid : Nat, data : {"NULL", "archive", "heap"}, bytes : Seq(Nat)]

\* A vnode as vfs_create leaves it; data is what kind of memory it points to
\* and bytes what is there.
Fresh(parent, name, type, perms) ==
    [parent |-> parent, next |-> NULL, child |-> NULL, name |-> name, type |-> type,
     perms |-> perms, size |-> 0, uid |-> 0, data |-> "NULL", bytes |-> << >>]

\* Freed memory: what it still holds is not relied on (see Dangling in Hvfs).
Freed == Fresh(NULL, "", VNODE_FILE, {})

\* The list that starts at p, and all that hangs on p, as far as i steps lead;
\* with as many steps as there are addresses a cycle would show.
Steps == 0 .. Cardinality(Node)

Siblings[i \in Steps] ==
    [p \in Pointer |-> IF i = 0 \/ p = NULL THEN << >>
                       ELSE <<p>> \o Siblings[i - 1][vnode[p].next]]

Kids(n) == Siblings[Cardinality(Node)][vnode[n].child]

Hanging[i \in Steps] ==
    [p \in Pointer |-> IF i = 0 \/ p = NULL THEN {}
                       ELSE {p} \cup Hanging[i - 1][vnode[p].child]
                                \cup Hanging[i - 1][vnode[p].next]]

\* The nodes in the tree: what the kernel can still get at from g_vfs_root.
Reach == IF Root \in live THEN Hanging[Cardinality(Node)][Root] ELSE {}

--------------------------------------------------------------------------------
(* Lookup *)

vfs_search_node(parent, name) ==
    LET kids == Kids(parent)
        hits == {i \in DOMAIN kids : vnode[kids[i]].name = name}
    IN  IF parent = NULL \/ hits = {} THEN NULL ELSE kids[Min(hits)]

\* The node that is reached after k components, or NULL.  That strdup may find no memory
\* is left out: callers then do what they do for a path that does not exist.
vfs_traverse_path(names) ==
    LET at[k \in 0 .. Len(names)] ==
            IF k = 0 THEN Root ELSE vfs_search_node(at[k - 1], names[k])
    IN  IF Root \notin live THEN NULL ELSE at[Len(names)]

vfs_lookup(path) == vfs_traverse_path(path.names)

\* Without a slash in it, the path is looked up as it is.
vfs_lookup_parent(path) ==
    LET names == path.names
        cut == names # << >> /\ (path.absolute \/ Len(names) > 1)
    IN  IF names = << >> /\ path.absolute THEN NULL
        ELSE vfs_traverse_path(IF cut THEN Front(names) ELSE names)

--------------------------------------------------------------------------------
(* Creation and removal: the links afterwards *)

\* Mutant: the new node becomes the second child instead of the last.
CreatedSecond(parent, n, new) ==
    IF vnode[parent].child = NULL
    THEN [vnode EXCEPT ![n] = new, ![parent].child = n]
    ELSE [vnode EXCEPT ![n] = [new EXCEPT !.next = vnode[vnode[parent].child].next],
                       ![vnode[parent].child].next = n]

Created(parent, n, new) ==
    IF vnode[parent].child = NULL
    THEN [vnode EXCEPT ![n] = new, ![parent].child = n]
    ELSE [vnode EXCEPT ![n] = new, ![Last(Kids(parent))].next = n]

\* Mutant: the case of the first child is forgotten.
UnlinkedNoHead(parent, n) ==
    LET kids == Kids(parent)
        i == CHOOSE j \in DOMAIN kids : kids[j] = n
    IN  IF i = 1 THEN [vnode EXCEPT ![n] = Freed]
        ELSE [vnode EXCEPT ![n] = Freed, ![kids[i - 1]].next = vnode[n].next]

Unlinked(parent, n) ==
    LET kids == Kids(parent)
        i == CHOOSE j \in DOMAIN kids : kids[j] = n
    IN  IF i = 1 THEN [vnode EXCEPT ![n] = Freed, ![parent].child = vnode[n].next]
        ELSE [vnode EXCEPT ![n] = Freed, ![kids[i - 1]].next = vnode[n].next]

\* kmalloc or strdup may fail at any time; the caller says what follows.
vfs_create(parent, n, new) ==
    /\ n \in Node \ live
    /\ vnode' = Created(parent, n, new)
    /\ live' = live \cup {n}

\* In a _DEBUG build the message at the end reads the name of the freed node.
vfs_remove(parent, n) ==
    IF n \in ToSet(Kids(parent))
    THEN vnode' = Unlinked(parent, n) /\ live' = live \ {n}
    ELSE UNCHANGED <<vnode, live>>

--------------------------------------------------------------------------------
(* Contents *)

\* The length that vfs_read copies from data + offset.
ReadSize(v, offset, size) ==
    IF (offset + size) % U32 > v.size THEN (v.size - offset) % U32 ELSE size

\* What krealloc may answer: liballoc refuses a pointer that it did not hand out,
\* and copies to NULL when it has no memory for the larger block.
krealloc(data) == CASE data = "archive" -> {"NULL"}
                    [] data = "NULL" -> {"heap", "NULL"}
                    [] data = "heap" -> {"heap", "fault"}

NewSize(offset, size) == (offset + size) % U32

\* Mutant: the offset is forgotten when the new end is compared with the size.
AllocationNoOffset(v, offset, size) == IF size > v.size THEN krealloc(v.data) ELSE {"kept"}

Allocation(v, offset, size) ==
    IF NewSize(offset, size) > v.size THEN krealloc(v.data) ELSE {"kept"}

\* Mutant: the size is stored although there is no memory.
ResizedEarly(v, r, size) ==
    IF r = "heap" THEN [v EXCEPT !.data = "heap", !.size = size,
                                 !.bytes = [i \in 1 .. size |-> IF i <= Len(@) THEN @[i] ELSE 0]]
    ELSE [v EXCEPT !.size = size]

Resized(v, r, size) ==
    IF r = "heap" THEN [v EXCEPT !.data = "heap", !.size = size,
                                 !.bytes = [i \in 1 .. size |-> IF i <= Len(@) THEN @[i] ELSE 0]]
    ELSE v

\* memcpy of size bytes b to data + offset
Filled(v, offset, size, b) ==
    [v EXCEPT !.bytes = [i \in DOMAIN @ |-> IF i - offset \in 1 .. size THEN b ELSE @[i]]]

\* r is what happened in Allocation.
vfs_write(n, offset, size, b, r) ==
    LET w == Resized(vnode[n], r, NewSize(offset, size))
        wild == r = "fault" \/ (r # "NULL" /\ size > 0 /\ offset + size > Len(w.bytes))
    IN  /\ vnode' = [vnode EXCEPT ![n] = IF r = "NULL" \/ wild THEN w
                                         ELSE Filled(w, offset, size, b)]
        /\ mode' = IF wild THEN "wild" ELSE mode

vfs_chmod(n, perms) == vnode' = [vnode EXCEPT ![n].perms = perms]

vfs_chown(n, uid) == vnode' = [vnode EXCEPT ![n].uid = uid]
================================================================================
