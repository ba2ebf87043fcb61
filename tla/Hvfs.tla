--------------------------------- MODULE Hvfs ----------------------------------
(***************************************************************************)
(* Open files (dev/hvfs.c) on top of the mounted tree, and the callers of  *)
(* both layers.  A caller passes to the vfs functions nodes that it has    *)
(* just looked up; an open file keeps its node, whatever happens to it.    *)
(* Once the tree is mounted, kernel code makes any sequence of at most     *)
(* MaxOps calls.                                                           *)
(***************************************************************************)
EXTENDS Ramfs

CONSTANTS
    Fd,          \* addresses of FILE structures
    Uids, Perms, \* users and permission sets that callers pass
    Offsets,     \* offsets that callers pass to vfs_read and vfs_write
    Sizes,       \* sizes that callers pass
    MaxOps,      \* bound: calls after the mount
    Bodies       \* texts that strtol is tried on

ASSUME CallAssumption ==
    /\ Offsets \subseteq Nat /\ Sizes \subseteq Nat /\ MaxOps \in Nat
    /\ Uids \subseteq Nat /\ Perms \subseteq SUBSET Perm

VARIABLES
    files,       \* the open FILE structures
    ops,         \* how many calls were made
    misuse       \* history: what happened that the code does not protect against

vars == <<vnode, live, mode, mount, files, ops, misuse>>

READ_ONLY == 0
WRITE_ONLY == 1
READ_WRITE == 2
CREATE == 4

Init ==
    /\ MountInit
    /\ files = [f \in Fd |-> NULL]
    /\ ops = 0 /\ misuse = {}

Mount == (ramfs_init \/ ramfs_parse \/ ramfs_parse_fails) /\ UNCHANGED <<files, ops, misuse>>

NoRoot == vfs_init_fails /\ misuse' = misuse \cup {"memory"} /\ UNCHANGED <<files, ops>>

Call == mode = "run" /\ ops < MaxOps /\ ops' = ops + 1 /\ UNCHANGED mount

Opened(f) == files[f] # NULL

OpenOn(n) == {f \in Fd : Opened(f) /\ files[f].vnode = n}

--------------------------------------------------------------------------------
(* Calls of dev/vfs.c *)

VfsCreate ==
    /\ Call
    /\ \E parent \in Reach, n \in Node \ live, name \in Name,
          type \in {VNODE_DIRECTORY, VNODE_FILE}, perms \in Perms :
             vfs_create(parent, n, Fresh(parent, name, type, perms))
    /\ UNCHANGED <<mode, files, misuse>>

VfsRemove ==
    /\ Call
    /\ \E parent \in Reach, n \in Reach :
          /\ vfs_remove(parent, n)
          /\ misuse' = IF n \notin ToSet(Kids(parent)) THEN misuse
                       ELSE misuse \cup {"parent" : k \in ToSet(Kids(n))}
                                   \cup {"open" : f \in OpenOn(n)}
    /\ UNCHANGED <<mode, files>>

\* A caller that writes to the root, whose size is the archive's and whose data
\* is NULL, or whose offset and size exceed 32 bits, is not protected.
VfsWrite ==
    /\ Call
    /\ \E n \in Reach, offset \in Offsets, size \in Sizes :
          \E r \in Allocation(vnode[n], offset, size) :
             /\ vfs_write(n, offset, size, 10 + ops, r)
             /\ misuse' = misuse
                   \cup (IF n = Root THEN {"root"} ELSE {})
                   \cup (IF offset + size >= U32 THEN {"overflow"} ELSE {})
                   \cup (IF r = "fault" THEN {"memory"} ELSE {})
    /\ UNCHANGED <<live, files>>

--------------------------------------------------------------------------------
(* Open files *)

\* With CREATE the FILE is neither returned nor freed, without memory or a node
\* there is none: nothing changes that a caller could see.
open ==
    /\ Call
    /\ \E f \in Fd, names \in BoundedSeq(Name, 2), m \in {READ_ONLY, WRITE_ONLY, READ_WRITE, CREATE} :
          /\ ~Opened(f)
          /\ LET node == vfs_lookup([absolute |-> TRUE, names |-> names])
             IN  files' = IF m = CREATE \/ node = NULL THEN files
                          ELSE [files EXCEPT ![f] = [vnode |-> node, mode |-> m, uid |-> 0]]
    /\ UNCHANGED <<vnode, live, mode, misuse>>

hvfs_permission_check(v, uid, right) ==
    IF v.uid = uid THEN \E class \in {"OWNER", "GROUP", "OTHERS"} : <<class, right>> \in v.perms
    ELSE <<"OTHERS", right>> \in v.perms

\* What a call on an open file finds when the node was removed and its memory
\* is not a vnode again.
Dangling(f) == files[f].vnode \notin live

CanWrite(f) ==
    /\ files[f].mode \in {WRITE_ONLY, READ_WRITE}
    /\ vnode[files[f].vnode].type = VNODE_FILE
    /\ hvfs_permission_check(vnode[files[f].vnode], files[f].uid, "WRITE")

CanRead(f) ==
    /\ files[f].mode \in {READ_ONLY, READ_WRITE}
    /\ vnode[files[f].vnode].type = VNODE_FILE
    /\ hvfs_permission_check(vnode[files[f].vnode], files[f].uid, "READ")

\* The length that read copies from the start of the node's data.
BytesRead(f, size) ==
    LET v == vnode[files[f].vnode] IN IF size > v.size THEN v.size ELSE size

write ==
    /\ Call
    /\ \E f \in Fd, size \in Sizes :
          /\ Opened(f) /\ ~Dangling(f)
          /\ IF CanWrite(f)
             THEN \E r \in Allocation(vnode[files[f].vnode], 0, size % U32) :
                     /\ vfs_write(files[f].vnode, 0, size % U32, 10 + ops, r)
                     /\ misuse' = misuse \cup (IF r = "fault" THEN {"memory"} ELSE {})
             ELSE UNCHANGED <<vnode, mode, misuse>>
    /\ UNCHANGED <<live, files>>

\* chmod and chown ask for no permission.
chmod ==
    /\ Call
    /\ \E f \in Fd, perms \in Perms :
          Opened(f) /\ ~Dangling(f) /\ vfs_chmod(files[f].vnode, perms)
    /\ UNCHANGED <<live, mode, files, misuse>>

chown ==
    /\ Call
    /\ \E f \in Fd, uid \in Uids :
          Opened(f) /\ ~Dangling(f) /\ vfs_chown(files[f].vnode, uid)
    /\ UNCHANGED <<live, mode, files, misuse>>

\* read, write, chmod or chown through a pointer to freed memory
UseDangling ==
    /\ Call
    /\ \E f \in Fd : Opened(f) /\ Dangling(f)
    /\ mode' = "wild"
    /\ UNCHANGED <<vnode, live, files, misuse>>

close ==
    /\ Call
    /\ \E f \in Fd : Opened(f) /\ files' = [files EXCEPT ![f] = NULL]
    /\ UNCHANGED <<vnode, live, mode, misuse>>

\* No more calls, or no kernel to make them.
Done ==
    /\ mode \in {"halt", "wild"} \/ ops = MaxOps
    /\ UNCHANGED vars

Next ==
    \/ Mount \/ NoRoot
    \/ VfsCreate \/ VfsRemove \/ VfsWrite
    \/ open \/ write \/ chmod \/ chown \/ UseDangling \/ close
    \/ Done

Spec == Init /\ [][Next]_vars

--------------------------------------------------------------------------------
(* Properties *)

\* Types: every address holds a vnode or what kfree left, and the parser is at an
\* entry of the archive with a node to continue from.
TypeOK ==
    /\ \A n \in Node : vnode[n] \in Vnode /\ vnode[n].uid \in Uids \cup {0}
    /\ live \subseteq Node
    /\ mode \in {"boot", "mount", "run", "halt", "wild"}
    /\ entry \in 0 .. Len(archive) + 1
    /\ token.buf \in {0, entry} /\ current_parent \in Pointer
    /\ \A f \in Fd : Opened(f) => files[f].vnode \in Node
    /\ ops \in 0 .. MaxOps /\ misuse \subseteq {"memory", "open", "parent", "root", "overflow"}

\* The lists under the root are finite, no node is in two of them, and a node's
\* parent is the one whose list it is in.
ListsSound ==
    \A d \in Reach :
        /\ IsInjective(Kids(d)) /\ Len(Kids(d)) < Cardinality(Node)
        /\ \A n \in ToSet(Kids(d)) : n \in live /\ n # Root /\ vnode[n].parent = d

\* The parent that vfs_lookup_parent finds for an absolute path is the parent of
\* the node that vfs_lookup finds there, even where names are not unique.
ParentFound ==
    \A names \in BoundedSeq(Name, 2) \ {<< >>} :
        LET path == [absolute |-> TRUE, names |-> names]
        IN  vfs_lookup(path) # NULL => vnode[vfs_lookup(path)].parent = vfs_lookup_parent(path)

\* Whatever calls are made, vfs_create and vfs_remove keep the pointers a tree with
\* which lookups agree, and no vnode is lost, except below a directory that was
\* removed with its children (vfs_remove frees one node only).
TreeSound ==
    /\ ListsSound
    /\ ParentFound
    /\ "parent" \notin misuse => live = Reach

\* The vnode tree is an ordered tree of named files to its users: creation appends,
\* removal takes out one subtree, a write changes one node.
Abstract == INSTANCE FileTree WITH
    tree <- [n \in Reach |-> [name |-> vnode[n].name, kids |-> Kids(n), body |-> vnode[n].bytes]]

IsFileTree == Abstract!Spec

\* The path that a header means: its components after "./" and between slashes.
Path(e) ==
    LET IsName(c) == c # "/"
    IN  IF Skipped(e.name) THEN << >>
        ELSE SelectSeq(SubSeq(e.name, NameStart(e.name), Len(e.name)), IsName)

\* The entries of an archive: up to a header without a name.
Entries(a) == {k \in DOMAIN a : \A j \in 1 .. k : a[j].name # << >>}

\* An archive as tar makes it from a directory: a file comes after its directories,
\* and has a path of its own.
Ordered(a) ==
    \A k \in Entries(a) : ~a[k].dir =>
        /\ \A i \in 1 .. Len(Path(a[k])) - 1 : \E j \in 1 .. k - 1 :
              a[j].dir /\ IsPrefix(SubSeq(Path(a[k]), 1, i), Path(a[j]))
        /\ \A j \in Entries(a) \ {k} : ~IsPrefix(Path(a[k]), Path(a[j]))

\* What a numeral of this base means: the sum of its digits' weights.
Value(s, base) ==
    MapThenSumSet(LAMBDA k : Digit[s[k]] * base ^ (Len(s) - k), DOMAIN s)

\* When the mount has ended, every entry of an ordered archive is found at its path with
\* its own bytes, size and permissions, and there is nothing else in the tree: strtok,
\* which cuts the header's name up in place and remembers where it was, loses none of
\* the components however many slashes the name has.
ArchiveMounted ==
    (mode = "run" /\ ops = 0 /\ Ordered(archive)) =>
        /\ \A k \in Entries(archive) :
              LET e == archive[k]
                  n == vfs_traverse_path(Path(e))
              IN  /\ n # NULL
                  /\ e.dir => vnode[n].type = VNODE_DIRECTORY
                  /\ ~e.dir => /\ vnode[n].type = VNODE_FILE
                               /\ vnode[n].size = Value(e.size, 8)
                               /\ vnode[n].bytes = [i \in 1 .. vnode[n].size |-> k]
                               /\ vnode[n].perms = Permissions(Value(e.mode, 8))
        /\ Cardinality(Reach) =
              Cardinality((UNION {Prefixes(Path(archive[k])) : k \in Entries(archive)}) \cup {<< >>})

\* The contents of entry k are at this path.
StoredAt(k, path) ==
    LET n == vfs_traverse_path(path)
    IN  /\ n # NULL /\ vnode[n].type = VNODE_FILE
        /\ vnode[n].bytes = [i \in 1 .. FileSize(archive[k]) |-> k]

\* A file entry whose name has no component: strtok(NULL) goes on in an earlier name.
Nameless(e) == ~e.dir /\ ~Skipped(e.name) /\ Path(e) = << >>

\* In whatever order the entries come, none is dropped: a directory is found at its
\* path, and a file's contents at its path or, when a directory has not come yet, at the
\* path of that directory.  Only a path that an earlier entry has, or passes through,
\* is taken.
NothingDropped ==
    (mode = "run" /\ ops = 0 /\ \A k \in Entries(archive) : ~Nameless(archive[k])) =>
        \A k \in Entries(archive) :
            LET path == Path(archive[k])
            IN  \/ archive[k].dir /\ vfs_traverse_path(path) # NULL
                \/ ~archive[k].dir /\ \E p \in Prefixes(path) : StoredAt(k, p)
                \/ \E j \in 1 .. k - 1 : IsPrefix(path, Path(archive[j]))
                \/ path = << >>

\* A read hands out bytes of its file only: read always, and vfs_read for an offset
\* within the file and an end within 32 bits, after any sequence of writes that grew
\* the file or failed to.
ReadsStayInside ==
    /\ \A f \in Fd : Opened(f) => Dangling(f) \/ \A size \in Sizes :
          CanRead(f) => BytesRead(f, size) <= Len(vnode[files[f].vnode].bytes)
    /\ \A n \in Reach \ {Root}, offset \in Offsets, size \in Sizes :
          (offset <= vnode[n].size /\ offset + size < U32) =>
              LET s == ReadSize(vnode[n], offset, size)
              IN  s <= size /\ offset + s <= Len(vnode[n].bytes)

\* In a build without _DEBUG the file system touches memory that is not its own only
\* after a caller removed a node that was open, wrote to the root or past 32 bits, or
\* after memory ran out where the code does not test for it.  (With _DEBUG the messages
\* at vfs.c:106 and 227 name what has just been freed.)
WildOnlyByMisuse == mode = "wild" => misuse \ {"parent"} # {}

\* The longest numeral at the start of a text without blanks and sign, and its value.
Written(text, base) ==
    LET hex == base = 16 /\ Len(text) > 1 /\ SubSeq(text, 1, 2) = <<"0", "x">>
        s == IF hex THEN SubSeq(text, 3, Len(text)) ELSE text
        numerals == {n \in 0 .. Len(s) : \A k \in 1 .. n : IsDigit(s[k], base)}
    IN  Value(SubSeq(s, 1, Max(numerals)), base)

\* The long that is nearest to v.
Clamped(v) == IF v > LONG_MAX THEN LONG_MAX ELSE IF v < -LONG_MAX - 1 THEN -LONG_MAX - 1 ELSE v

\* strtol guards each multiplication by a cutoff so that it never overflows: for
\* every text up to the limits of long on both sides, with or without a sign and
\* a prefix, it returns the nearest long to the number that is written there.
StrtolExact ==
    mode = "boot" /\ archive = << >> =>
        \A body \in Bodies, base \in {8, 10, 16} :
            /\ strtol(body, base) = Clamped(Written(body, base))
            /\ strtol(<<" ", "-">> \o body, base) = Clamped(-Written(body, base))
            /\ strtol(<<"+", "0", "x">> \o body, 0) = Clamped(Written(<<"0", "x">> \o body, 16))
            /\ strtol(<<"-", "0">> \o body, 0) =
                  Clamped(-Written(<<"0">> \o body, IF CharAt(body, 1) = "x" THEN 16 ELSE 8))
================================================================================
