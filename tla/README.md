# Nekonix in TLA+

Nekonix is a small x86_64 kernel for one CPU. This directory holds TLA+ modules
translated from its source, the TLC configurations that check them, and TLAPS proofs
of what matters most about them. Paths below are relative to the repository;
`PROJECT.json` maps every definition to the lines it models.

## The system

| component | state | operations | hard because |
|---|---|---|---|
| Physical memory manager, `mm/pmm.c` | a stack of free page addresses kept inside usable memory | `pmm_init`, `pmm_request_page`, `pmm_free_page` | the array is sized in one pass and filled in another from a map changed in between; frees are not checked |
| Page tables, `mm/vmm.c` | four-level tables in PMM pages | map, unmap, new/destroy page map, switch | a page request can fail half way; tables take the flags of the first page below them |
| Regions and heap, `mm/vma.c`, `mm/liballoc` | list of mapped regions; third-party heap | `vma_alloc`, `vma_free` | unsigned gap arithmetic in mixed units, list surgery |
| Scheduler, `proc/scheduler.c` | process table, count, current index, contexts | create, context switch, terminate | runs in the timer interrupt while boot is still creating |
| Device manager and devices, `proc/manager.c`, `devices/` | table of handles; a one-key buffer | register, get; poll, read, write | buffer shared by an interrupt and processes |
| System calls, `sys/syscall.c`, libc | the caller's frame | exit, write, read, poll | results travel through the saved registers |
| Interrupts, `sys/idt.c`, `sys/idt.asm`, `sys/pic.c` | IDT, handler table, PIC masks | init, dispatch, (un)mask, end of interrupt | order of enabling against registering |
| Boot, `main.c`; clock, `dev/rtc.c` | progress of `sys_entry`, the interrupt flag | `sys_entry`, `timer_init`, `rtc_init` | runs with interrupts enabled |
| Kernel printf, `lib/stdio.c` | `stdout_lock` | `printf` | a spinlock on one CPU, taken by threads and handlers |
| File systems, `dev/vfs.c`, `dev/hvfs.c`, `fs/ramfs.c` | vnode tree, open files | create, remove, read, write, lookup, tar parser | size arithmetic, error codes |
| ELF loader, `proc/elf.c`; strings, `lib/string.c` | none (`strtok` has a static pointer) | `elf_load`; `strtok`, `strtol`, ... | page boundaries, the limits of `long`, state kept between calls |

Concurrency comes from interrupts only. Interrupt code runs with interrupts disabled
(interrupt gates, `cli` in every stub) and so is atomic against threads; a thread can be
interrupted between any two instructions. The timer interrupt switches threads. Nothing
is persistent, so there is no crash recovery.

## Modules

    PageAllocator      what the PMM promises
      ^ implemented by
    Pmm                mm/pmm.c               MCPmm         PmmProofs
    Scheduler          proc/scheduler.c       MCScheduler   SchedulerProofs
    Console            devices, system calls, init          MCConsole     ConsoleProofs
    Boot               sys_entry, PIC, IDT, stdout_lock     MCBoot        BootProofs
    FileTree           what the file system promises
      ^ implemented by
    Vfs, Strings <- Ramfs <- Hvfs   dev/vfs.c, lib/string.c, fs/ramfs.c, dev/hvfs.c   MCHvfs
                       HvfsProofs (with Recursion)
    AddressSpace       what page tables, heap and loader promise together
      ^ implemented by
    Vmm <- Vma <- ProcessMemory   mm/vmm.c, mm/vma.c, proc/elf.c, process creation   MCMemory
                       VmaProofs (with Recursion) <- MemoryProofs

**Pmm.** A frame is a page number: the boot protocol aligns usable entries to pages, so
sizes are counted in pages and `PtrsPerPage` stands for `PAGE_SIZE / 8`. `pmm_init` takes
one action per iteration of its three loops (`CountEntry`; `SkipEntry`, `PlaceArray`,
`NoPlace`; `PushPage`, `NextEntry`). Afterwards `pmm_request_page` and
`pmm_free_page(ptr)` interleave arbitrarily. Callers may free *any* managed frame, NULL
or an address that is no frame (`Alias`), since `process_destroy` does free higher-half
addresses and one page twice; the history variable `misused` says that this happened.
Zeroing a page that lies in the stack's own array clears its entries; popping an entry
that is no frame faults. `held`, `misused` and `limine` are history, not code.

**PageAllocator.** Frames are donated, the allocator is sealed, and then frames move
between `free` and `held` only by `Alloc` and `Release`; a caller that releases what it
does not hold voids the promise (`Break`). `Pmm` maps `free` to the stack's contents.

**Scheduler.** Three kinds of actor: the boot thread creating processes, the timer
interrupt, the processes. A CPU state is abstracted to the thread it belongs to and how
far that thread has got, which is what tells a right context switch from a wrong one.
`scheduler.processes[scheduler.process_count++] = proc` is two stores, in either order,
with a tick possible between them. `Exit` is `scheduler_terminate_current_process` as
called by whatever thread runs, which after an earlier exit need not be the one the
table names. `sys_entry` creates one process; the model lets the boot thread create more,
since the code's table and creation functions are for many.

**Console.** The keyboard interrupt and processes share the one-key buffer. `Inits` run
`main` of `sysroot/init/main.c` step by step; `Others` make any device call on any device,
a missing one included. `rax` is what the process finds in the register: only `read`
stores its result in the frame. A scancode is what `keymap` has for it (a name, a hole,
or past its end: any pointer). A key carries the number of its byte.

**Boot.** Each C function is the sequence of its steps that matter to interrupts, and
`sys_entry` is their concatenation; the boot thread executes it and the timer and the
keyboard interrupt it wherever the flag and the PIC allow. The PIC, the PIT and the
keyboard controller are external and modelled from how the code programs them: ICW1
clears the PIC's mask, requests and edge latches; end of interrupt ends the in-service
IRQ of highest priority; the controller makes an edge only when its buffer goes from
empty to full. An IRQ taken before ICW2 arrives on an exception's vector. `Debug`
selects the `_DEBUG` build, whose extra messages are extra uses of `stdout_lock`. A step
that fails prints its ERROR, the INFO line with the number of errors and the last ERROR,
and then halts; several ERRORs before the INFO line are one in the model.

**Vfs, Ramfs, Hvfs.** `Vfs` has the vnode tree as the code keeps it, addresses with
parent, child and next pointers that are reused after `kfree`, and its functions as
operators and effects on it. `Ramfs` extends it with the mount: one step per path
component of one archive entry, a file named after the first component that is missing,
memory that may run out at every node, and a header without a name ends the mount. `Hvfs` extends that with open files and with
callers that make any sequence of calls of both layers. A caller looks nodes up just
before it passes them; an open file keeps its pointer. Paths are sequences of names;
an archive entry is a header with its name, mode and size as text (one character per path
component, octal digits), which `ramfs_parse` reads with `strtok` and `strtol`; a byte is the number of the entry or call that stored it, and
offsets add modulo `U32`. Reads change nothing and are operators that `ReadsStayInside`
evaluates for all arguments. `misuse` is history: what happened that the code does not
protect against (a file removed while open, a directory removed with children, a write to
the root or past 32 bits, memory out where no test is made). All of this is the release
build: with `_DEBUG` the messages at `vfs.c:106` and `vfs.c:227` read the name of a node
and the copy of a path that have just been freed. In the repository only
`ramfs_parse` and `scheduler_create_elf_process` call these layers, so nothing says how
later callers will behave.

**Strings.** `strspn`, `strcspn`, `strtok` and `strtol` as operators on sequences of
characters. `strtok` writes into the header's name and keeps its static pointer, as the
variables `header_name` and `last` of `Ramfs` do. `strtol` has `LONG_MAX` as a parameter,
so that its cutoff is met by short texts; `StrtolExact` compares it with the sum of the
digits' weights, clamped to a long, for every text of up to four characters.

**FileTree.** An ordered tree as a partial function from nodes to name, children and
contents. The refinement holds whatever callers do, misuse included.

**Vmm, Vma, ProcessMemory.** Memory is one record: the PMM's stack and what every frame
holds, as a page table, as a region's descriptor and as bytes. The functions of `vmm.c`,
`vma.c`, `elf.c` and the memory side of `scheduler.c` are operators from memory to memory;
only the boot thread calls them, so each call is one atomic action of `ProcessMemory`: the
steps of `vmm_init`, `vma_create_context`, `test_vmm`, then any order of `liballoc_alloc`,
`liballoc_free`, `scheduler_create_process` and `scheduler_create_elf_process` (whose
buffer may take a heap block first), then `Dispatch` and the exits of processes.
Tables have `Fan` entries instead of 512, and everything is counted in pages except inside
`elf_load`, where addresses, offsets and sizes are bytes and byte k of a file is the number
k + 1. Translations and effective rights are what an x86-64 walk makes of the tables
(external). The events in `mem.events` are history and mark what the code does not guard
against: frame 0 used as memory because a higher-half address is never NULL (`frame0`), a
region placed in too small a gap (`overlap`), a region lost through a stale `prev`
(`lost`), a free of frames that the region never had (`stray`, `stolen`), a heap block
over a frame that was given to somebody else (`shared`; one over the PMM's array or the
kernel's image is not noticed, and `HeapPages` reports the cause of all three), a frame handed out twice (`twice`), the context
destroyed by a failed boot test and used afterwards (`ctxfreed`), an exit that frees
higher-half addresses (`alias`). After `stray` and `alias` every structure still has its
own frames and the kernel is followed on; after any other of these memory is wild (`Wild`)
and the model stops. The properties say what holds until then. A frame's number goes up to
the kernel's own image behind the usable memory; a process's exit pushes `Pointer`s on the
PMM's stack, higher-half addresses that are no frame's number. Of the files that may be
started `ImageAssumption` demands only that they have program headers whose pages lie in
user space, which `elf_load` relies on and does not check. `Vmm` has its own short `pmm_request_page` and `pmm_free_page` over a stack of frames; that
`pmm.c` behaves like such a stack is what `Pmm` shows.

**AddressSpace.** Space 0 is the kernel's, every other one a process's. Creating a process
adds a space with the kernel's upper half and changes no other; a heap request or free
changes the translation of the pages it names and of no others.

## Runs

| run | shows |
|---|---|
| `pmm` | `StackFits` whatever callers free; `ArrayReserved`, `NoDoubleUse`, `Conserved` and the refinement `IsAllocator` as long as they free what they hold |
| `scheduler` | `TableSound` and `NeverDropped` always; `OwnContextUntilExit` and `ResumesWhereStopped` until the first exit; `BootNeverResumes`, `DeadStaysDead`; round robin is fair (`Served`) |
| `console` | `EachKeyOnce`, `ShownWereTyped`, `KeyIsTaken` |
| `boot` | release build: `NeverSpins`, `NeverResets`, `EndsItsOwn`, `InitGetsTheCpu`, `KeysAreRead` |
| `files` | `TreeSound` and the refinement `IsFileTree` whatever is called; `ArchiveMounted` for archives in tar's order; `NothingDropped`: in any order, every entry's contents are found, at its path or at that of the first directory that had not come yet; `ReadsStayInside`; `WildOnlyByMisuse`: in the release build memory is accessed wrongly only after one of the listed misuses; `StrtolExact`: numbers are read right up to the limits of `long` |
| `memory` | `HeapSound`: the region list stays linked, ordered and free of overlap; `FramesAccounted`: no frame serves two purposes or is lost; `ElfImage`: every process finds the bytes of its file; `KernelRights`: the kernel's sections have the rights asked for; the refinement `IsAddressSpace`; all of it until one of the events above |
| `scheduler_context` (violated) | an exited thread's state becomes its successor's context |
| `console_poll` (violated) | `poll` returns 4, not the device's answer |
| `boot_masked` (violated) | an IRQ is taken while the kernel has all masked, during PIC set-up |
| `boot_debug` (violated) | `_DEBUG` build: deadlock on `stdout_lock` between unmask and register |
| `heap_pages` (violated) | a heap block of several pages has one frame of its own; the others are whatever the identity mapping has there |
| `elf_rights` (violated) | a process's writable segment behind its code is not writable, since the tables took the code's flags |

The six violations are findings: each quotes the line of the repository that says
otherwise. The conditions in the passing properties (`Terminated = {}`, `~misused`,
`~masked`, `tooSoon`, `Sane`) mark exactly where those defects begin, so the properties say what
can be relied on in spite of them. `KeysAreRead` excludes keys sent before `stdin_init`
because such a key is lost for good and the keyboard with it: `sys_entry` unmasks IRQ 1
first, the interrupt is acknowledged without reading port 0x60, and the controller never
makes another edge.

Where a property ends, it does not catch what comes after. Of the hazards that
`PROJECT.json` lists this concerns: a memory map without a place for the PMM's array
(`ArrayReserved` and `Conserved` speak of a ready allocator); the endless loop of a write
to a busy device (`KeyIsTaken` ends there) and a scancode past the end of `keymap`
(`ShownWereTyped` compares the numbers of keys, not their names); the key of the window
above; the list of regions after `overlap` or `lost`, tables made of frame 0 after
`frame0`, and frames freed for others after `stray` or `stolen`; reads by `vfs_read` past
the end of a file and writes past 32 bits, files that are used after their removal, and a
mount without a root (`ReadsStayInside` and `WildOnlyByMisuse` name these cases and say
that nothing else goes wrong). `NothingDropped` leaves out archives in which a file's
name has no component, since such a file is created under what is left of an earlier name.

### Bounds

- `pmm`: six memory maps that reach every branch (first entry too short, array filling
  an entry, array not filling its last page, array taking the only page, no entry long enough, no usable memory), two
  entries per page. The theorems cover every well-formed map.
- `scheduler`: three table entries and four processes, so the table fills, is refused,
  and shrinks to one and to none; threads advance two steps, so a state saved twice or
  restored stale is seen. The theorems cover every table size and bound.
- `console`: one init, one arbitrary process, three bytes: enough to have a key being
  read, one overwritten and one on the wire.
- `boot`: three keyboard bytes; ticks are not bounded.
- `files`: eleven archives (none; what `gen-initrd`'s `tar -C initrd .` makes; a file before
  its directory; two entries for a path; a file below a file; a directory before its
  parent and with surplus slashes; three levels; names without a component; a header
  without a name before the end; two files before their directories; a name of slashes
  after a name that was not read to its end), three
  addresses besides the root, so that removed nodes are
  reused, and four calls, which is what it takes to open, remove, create again and write.
  `U32` is 5, with offsets and a size that fit, grow a file and wrap. Addresses other than
  the root are symmetric; the run has no liveness property. `LONG_MAX` is 4095, so that
  numerals of three to five digits lie on both sides of it in each base.
- `memory`: tables of four entries, of which two are the upper half; eleven memory sizes
  from 8 to 40 frames, so that pages run out in `vmm_init`, in the boot test, in each kind
  of call and not at all; 8 directly mapped pages for the 4 GiB; `PAGE_SIZE` 4; six calls
  after boot, of which a process creation counts for two, which reaches three heap blocks,
  a reused gap and its stale `prev`, and two processes. Heap blocks have two or three
  pages: liballoc never asks for fewer than 16. Each kernel section is one page: its loops
  only repeat, and the image is smaller than what one last-level table maps. The images are
  a program with code, data and a zeroed tail, one whose segments share a page, a file that
  is no ELF file and one whose entry point is 0. `vma_alloc` reads the word at address 0
  when a region has no successor; the model takes it as the real-mode interrupt table's,
  which is larger than any heap address. The theorems cover every table size, memory size,
  set of files and number of calls within the assumptions.

### Fairness

- Scheduler: `WF(Tick)`; threads run with interrupts enabled and the PIT is periodic, as
  long as no process writes to a busy device, which is a loop with interrupts disabled.
  Nothing is assumed of processes or of the boot thread.
- Console: weak fairness for each init (it keeps getting the CPU, which is `Served`) and
  for the keyboard interrupt. None for the keyboard and other processes.
- Boot: the PIT ticks and handlers finish (weak fairness). Between two ticks the
  interrupted thread runs and a pending lower-priority IRQ is taken, since a handler is
  far shorter than the 10 ms period: strong fairness for `BootStep` and `Deliver`. None for
  the keyboard.

Deadlock is checked in every run; halts, panics and endless loops are explicit
stuttering steps.

## Proofs

Each `*Proofs` module defines an inductive invariant `Inv`, shows it initial and preserved
with one lemma per action, and derives the properties. The assumptions are the ASSUMEs of
the modules, which TLC evaluates in the runs.

- **PmmProofs** assumes what `Pmm` assumes: usable entries do not overlap and do not
  contain frame 0, aliases are no usable frames. A sum over the memory map would need
  induction, so `Inv` says instead that `free_pages` is the cardinality of the usable
  frames met so far (`CountInv`), that the map the third loop reads is the original one
  without the array's frames (`MemMapInv`), and that the stack holds exactly the frames
  met so far, each once (`PushInv`); `Owned` and `Bounded` carry this over to the calls
  after `pmm_init`. Results: `TypeCorrect`,
  `StackNeverOverruns` (whatever callers free), `FramesSafe`, and `Implements`, the
  refinement of `PageAllocator`.
- **SchedulerProofs** assumes only a positive table size and that NULL and the boot
  thread are no pids. `Inv` adds to the properties how far publication has come and that
  entries beyond the table are still NULL (`Creating`), that no process has ever been
  dispatched while the boot thread runs, so creation never meets an exit (`BootAlone`),
  and that before the first exit the current entry is the running thread or a hole
  (`InOrder`).
  Results: `TypeCorrect`, `TableAlwaysSound`, `SwitchCorrectUntilExit`, `BootIsLost`,
  `DeadIsFinal`.

- **ConsoleProofs.** For any number of processes and keys. What the interrupt and the
  processes share is the number of the key in the buffer, so `Inv` orders everything by it:
  keys on the wire are newer (`WireInv`), keys handed out not newer, and older while the
  buffer's key can still be handed out (`ReadInv`); an init about to test a positive result
  has in its own buffer the key that was handed out last to it (`TestInv`). Results:
  `TypeCorrect`, `KeysHandedOutOnce`, `PrintsOnlyTyped`.
- **BootProofs.** For both builds and any number of keys. Everything depends on the order
  of the steps of `sys_entry`, a sequence of some hundred steps that the model consumes
  from its head. An operator per fact (`IdtFirst`, `MaskedFirst`, ...) says of a sequence of
  steps that, from a state in which the fact is or is not established, no step needs it before another
  establishes it; these compose over concatenation, so they are proved function by
  function and then for `sys_entry`. `OrderInv` says them of what is left to execute,
  `PicInv`, `StackInv`, `KeyInv` and `ServiceInv` relate the PIC, the interrupt being
  handled and the keyboard. Results: `TypeCorrect`, `NoReset`, and the action property
  `NoForeignEnd`. For `NoDeadlock` the same method says of `sys_entry` that lock and unlock
  alternate, that the process is created after the last message, and that an IRQ is masked
  or its handler registered whenever boot prints; that is false in the `_DEBUG` build,
  where run `boot_debug` shows the deadlock, so the theorem assumes `~Debug`.
- **Recursion** has what the others need of induction: the least element of a set of
  naturals, induction stated for a set, and that a function exists which satisfies a given
  recursion up to N. With sets and functions in place of operators all of it is first-order.
- **VmaProofs and MemoryProofs.** For any number of entries per table from 4 on, any memory size, any
  files within `ImageAssumption` and any number of calls that leaves the heap below the
  higher half (`CallAssumption`, a request being at most `PAGE_SIZE` pages, 16 MiB). Nothing
  in memory says what a frame is for, so `Inv` says that a labelling `use` exists: each held
  frame is a table of level 1 to 4, a region's descriptor, the first page of a heap block,
  a page of an image, or a page taken for itself. `Tree` says that tables point one level
  down, and two entries to one table only in the shared upper half; `Chain` that the
  descriptors are a list in order; `HeapOwned`, `MapsOwned`, `OthersOwned` and `ImagesOwned`
  that the users' frames carry their labels, each its own; `Parented`, `Complete` and
  `AllImages` that as long as nothing failed no labelled frame is without a user; `Whole`
  that what is not held is on the stack, once. `SectionRights` carries the rights from
  `vmm_init` on, where they follow from the order of the sections (`Booting`). Each
  operation is shown to keep a labelling of what was held and to extend it by what it took,
  and to change the view of the pages it names only (`SameBut`, `Moves`); loops (`FoldLeft`
  in the model) are unfolded into a function of the iteration and treated by the induction
  of `Recursion`. When processes exit, memory is that before the first exit but for the
  stack, to which only higher-half addresses were added (`Leaves`): this is where the
  proof uses that nothing requests a page any more. Results: `Invariant`, `TypeCorrect`,
  `HeapKept`, `FramesHaveOneUse`, `ImagesKeptIntact`, `SectionsProtected`, and `Isolated`,
  the refinement of `AddressSpace`: its step for each call follows from the views that the
  call keeps, and a page's translations from its view (`TranslationsAre`).
- **HvfsProofs, the vnode tree.** For any finite set of addresses. `TreeSound` speaks of lists and of what hangs on the root,
  which no single step preserves visibly; `Links` speaks of pointers only: none leads to
  freed memory (`Closed`), at most one leads to each node and none to the root (`Sole`),
  siblings have one parent and it points to the first of them (`Parents`), and along every
  pointer some rank grows (`Acyclic`). `CreatedLinks` and `RemovedLinks` show that the two
  functions keep it; `KidsList` that then a node's children are a finite list without
  repetition; `ReachLive` and `ReachAll` that what hangs on the root is live, and everything that is live
  as long as every node is pointed to (`Attached`); `SearchFinds` and `TraverseLast` that
  lookups go down this tree. For the refinement it shows that the pointers determine the
  tree: a set that contains the root, is closed under the pointers and in which every other
  node is pointed to from a node of lower rank is `Reach` (`ReachIs`), and a list that
  follows the pointers is `Kids` (`KidsAre`). So `CreatedTree` and `RemovedTree` need only
  name the new set and the new lists: one node appended, or one taken out of its list and
  what is below it out of the set.
- **HvfsProofs, mount and calls.** For any archive whose path components are names, any number of files,
  calls, offsets and sizes and any `U32`. `Inv` adds to `Links`: that a node's size is the
  length of its data, except for the root (`Sized`), which is what reads and writes rely
  on; where the parser and `strtok` are (`MountInv`, `TokenInv`: on a component of the
  current entry, with the static pointer in the same name; without a token the pointer may
  be left in an earlier entry's name, and then `strtok(NULL)` must still find a component
  or nothing there); that a file's node is live unless one was removed while open
  (`FilesInv`). Results: `TypeCorrect`, `TreeAlwaysSound`, `ReadsInside`, `WildByMisuse`,
  and `IsTree`, the refinement of `FileTree`: the parser creates only in directories of the
  tree because nothing is removed before the mount has ended (`HistoryInv`), and a write to
  a node that an open file keeps and that is no longer in the tree does not show in it.
  That `strtol` returns a number whatever the text is a lemma (`StrtolType`).

Only model-checked:

- the liveness properties (`Served`, `KeyIsTaken`, `InitGetsTheCpu`, `KeysAreRead`), which
  need fairness and ENABLED;
- `ArchiveMounted`, `NothingDropped` and `StrtolExact`, which compare a result with a reference for every
  text or archive: sums and counts over them, whose proofs are by induction over a
  definition of the library (`MapThenSumSet`, `SelectSeq`), not over one of the modules.

## Not modelled

GDT, serial port and port I/O (constant tables and single instructions), formatting
(nanoprintf), the framebuffer terminal (flanterm) and what liballoc keeps inside a block
(third-party), `test_pmm`, which only requests and frees. Of the file systems, the
functions that format paths and listings, times, the rounding of archive offsets to
blocks, and the results that `read` and `write` return to kernel callers: `write` takes
`vfs_write`'s failure (1) for one byte written, and no caller looks; nor that `strdup` may
fail in `vfs_traverse_path`, which then returns NULL as for a path that does not exist. Of the strings, byte
copies and comparisons. Of the page tables, `pagemap_is_valid`, which nobody calls, that
`vmm_init` maps only the first 4 GiB into the higher half (the model reaches every frame
there, also one behind them), and
stale translations in the processor (`vmm_unmap` invalidates its page, and `vmm_map` replaces
a translation in use only after `overlap`).

## Plan

1. `Pmm` and `Vmm` composed by `INSTANCE`, so that the stack of frames of `Vmm` is
   `PageAllocator`'s and not a short copy.
2. Results of system calls and of `write` as state, if a caller ever uses them.
