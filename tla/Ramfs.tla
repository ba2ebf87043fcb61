--------------------------------- MODULE Ramfs ---------------------------------
(***************************************************************************)
(* Mounting the initial RAM disk (fs/ramfs.c, called from sys_entry): a    *)
(* tar archive is read entry by entry, a path component at a time, and     *)
(* made into vnodes.  The bytes of a file stay in the archive.  An entry   *)
(* is a header: name, mode and size as text, and whether it says directory.*)
(* In a name one character stands for a whole path component.              *)
(***************************************************************************)
EXTENDS Vfs, Strings

CONSTANT Archives     \* the archives the boot loader may pass; << >> has size 0

Header == [name : Seq(STRING), mode : Seq(STRING), size : Seq(STRING), dir : BOOLEAN]

\* A leading "./" is stepped over; nothing or "." is left of an entry to skip.
NameStart(name) == IF CharAt(name, 1) = "." /\ CharAt(name, 2) = "/" THEN 3 ELSE 1
Skipped(name) == SubSeq(name, NameStart(name), Len(name)) \in {<< >>, <<".">>}

\* Components are in Name.
ASSUME ArchiveAssumption ==
    \A a \in Archives :
        /\ a \in Seq(Header)
        /\ \A k \in DOMAIN a : ~Skipped(a[k].name) =>
              \A i \in NameStart(a[k].name) .. Len(a[k].name) : a[k].name[i] \in Name \cup {"/"}

VARIABLES
    archive,
    entry,            \* number of the entry at offset
    header_name,      \* the headers' names: strtok writes into them
    token, last,      \* the component at hand; the static variable of strtok
    current_parent

mount == <<archive, entry, header_name, token, last, current_parent>>

\* 0400 and so on, in the order of the bits
ModePerm == <<<<"OTHERS", "EXECUTE">>, <<"OTHERS", "WRITE">>, <<"OTHERS", "READ">>,
              <<"GROUP", "EXECUTE">>, <<"GROUP", "WRITE">>, <<"GROUP", "READ">>,
              <<"OWNER", "EXECUTE">>, <<"OWNER", "WRITE">>, <<"OWNER", "READ">>>>

\* Mutant: set-id and sticky bits are kept as well.
PermissionsAll(bits) ==
    {IF k \in DOMAIN ModePerm THEN ModePerm[k] ELSE <<"SPECIAL", "EXECUTE">> :
        k \in {k \in 1 .. 12 : (bits \div 2 ^ (k - 1)) % 2 = 1}}

\* Set-id and sticky bits have no permission.
Permissions(bits) ==
    {ModePerm[k] : k \in {k \in DOMAIN ModePerm : (bits \div 2 ^ (k - 1)) % 2 = 1}}

MountInit ==
    /\ vnode = [n \in Node |-> Freed] /\ live = {}
    /\ mode = "boot"
    /\ archive \in Archives
    /\ entry = 0 /\ header_name = [k \in DOMAIN archive |-> archive[k].name]
    /\ token = NullPtr /\ last = NullPtr /\ current_parent = NULL

E == archive[entry]
FileSize(e) == strtol(e.size, 8) % U32
FilePerms(e) == Permissions(strtol(e.mode, 8))

\* The component at p.
Word(p) == header_name[p.buf][p.at]

Tokenize(str) == strtok(header_name, str, last, {"/"})

Advance(r) == header_name' = r.mem /\ last' = r.last /\ token' = r.token

\* offset moves to the next header, and strtok starts on its name.
NextEntry(r) ==
    LET next == entry + 1
        start == [buf |-> next, at |-> NameStart(archive[next].name)]
    IN  /\ entry' = next
        /\ IF next > Len(archive) \/ Skipped(archive[next].name)
           THEN Advance([r EXCEPT !.token = NullPtr])
           ELSE Advance(strtok(r.mem, start, r.last, {"/"}))
        /\ current_parent' = Root
        /\ UNCHANGED archive

\* The data are at an end, or a header without a name ends the archive.
AtEnd == entry > Len(archive) \/ archive[entry].name = << >>

AsItIs == [mem |-> header_name, last |-> last, token |-> token]

Halt == mode' = "halt" /\ UNCHANGED <<vnode, live, mount>>

\* vfs_init and ramfs_init up to ramfs_parse
ramfs_init ==
    /\ mode = "boot"
    /\ IF archive = << >> THEN Halt
       ELSE /\ mode' = "mount" /\ live' = {Root}
            /\ vnode' = [vnode EXCEPT ![Root] =
                  [Fresh(NULL, "/", VNODE_DIRECTORY, RootPerms) EXCEPT !.size = Len(archive)]]
            /\ NextEntry(AsItIs)

\* vfs_init finds no memory; sys_entry goes on to mount and ramfs_init stores
\* through the null g_vfs_root.
vfs_init_fails ==
    /\ mode = "boot"
    /\ IF archive = << >> THEN Halt
       ELSE mode' = "wild" /\ UNCHANGED <<vnode, live, mount>>

Descend ==
    /\ current_parent' = vfs_search_node(current_parent, Word(token))
    /\ Advance(Tokenize(NullPtr))
    /\ UNCHANGED <<vnode, live, mode, archive, entry>>

MakeDirectory ==
    \E n \in Node \ live :
        /\ vfs_create(current_parent, n, Fresh(current_parent, Word(token), VNODE_DIRECTORY,
                                               FilePerms(E)))
        /\ current_parent' = n
        /\ Advance(Tokenize(NullPtr))
        /\ UNCHANGED <<mode, archive, entry>>

NewFile(name) ==
    [Fresh(current_parent, name, VNODE_FILE, FilePerms(E)) EXCEPT
        !.data = "archive", !.bytes = [i \in 1 .. FileSize(E) |-> entry], !.size = FileSize(E)]

\* Mutant: the file is named by what follows the missing component.
MakeFileNext ==
    LET r == Tokenize(NullPtr)
    IN  IF r.token = NullPtr THEN NextEntry(r) /\ UNCHANGED <<vnode, live, mode>>
        ELSE \E n \in Node \ live :
                /\ vfs_create(current_parent, n, NewFile(Word(r.token)))
                /\ NextEntry(r)
                /\ UNCHANGED mode

\* The file gets the name of the first component that is missing, or of what
\* strtok(NULL) still finds.
MakeFile ==
    LET r == Tokenize(token)
    IN  \E n \in Node \ live :
            /\ vfs_create(current_parent, n, NewFile(Word(r.token)))
            /\ NextEntry(r)
            /\ UNCHANGED mode

\* strtok(NULL) finds a component where the walk has met none that is missing.
LeftOver == token = NullPtr /\ ~E.dir /\ ~Skipped(E.name) /\ Tokenize(NullPtr).token # NullPtr

Missing == token # NullPtr /\ vfs_search_node(current_parent, Word(token)) = NULL

\* One turn of ramfs_parse's inner or outer loop.
ramfs_parse ==
    /\ mode = "mount"
    /\ CASE AtEnd -> mode' = "run" /\ UNCHANGED <<vnode, live, mount>>
         [] ~AtEnd /\ token # NullPtr /\ ~Missing -> Descend
         [] ~AtEnd /\ Missing /\ E.dir -> MakeDirectory
         [] ~AtEnd /\ ((Missing /\ ~E.dir) \/ LeftOver) -> MakeFile
         [] OTHER -> NextEntry(AsItIs) /\ UNCHANGED <<vnode, live, mode>>

\* vfs_create finds no memory.
ramfs_parse_fails ==
    /\ mode = "mount" /\ ~AtEnd /\ (Missing \/ LeftOver)
    /\ Halt
================================================================================
