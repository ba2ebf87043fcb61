--------------------------------- MODULE MCMemory -------------------------------
EXTENDS ProcessMemory

Load(vaddr, offset, filesz, memsz, flags) ==
    [type |-> "PT_LOAD", vaddr |-> vaddr, offset |-> offset, filesz |-> filesz,
     memsz |-> memsz, flags |-> flags]

\* A program as init's linker script lays it out: .text, .rodata and .data with
\* .bss behind it, each on pages of its own, and a note that is not loaded.
Program ==
    [valid |-> TRUE, entry |-> 4,
     headers |-> <<Load(4, 4, 6, 6, {"R", "X"}),
                   [Load(0, 0, 1, 1, {"R"}) EXCEPT !.type = "PT_NOTE"],
                   Load(12, 12, 1, 1, {"R"}),
                   Load(16, 16, 2, 7, {"R", "W"})>>]

\* Two program headers that share a page, the second one not at its start.
Packed ==
    [valid |-> TRUE, entry |-> 4,
     headers |-> <<Load(4, 4, 5, 5, {"R", "X"}), Load(9, 9, 2, 2, {"R", "W"})>>]

\* No ELF file, or not one for a 64-bit machine.
Garbage == [valid |-> FALSE, entry |-> 4, headers |-> << >>]

\* A program linked at address 0.
AtZero == [valid |-> TRUE, entry |-> 0, headers |-> <<Load(0, 4, 1, 1, {"R", "X"})>>]

MCImages == {Program, Packed, Garbage, AtZero}
MCRamSizes == {8, 14, 15, 17, 18, 19, 20, 22, 24, 27, 40}
================================================================================
