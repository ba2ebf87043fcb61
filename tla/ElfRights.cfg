SPECIFICATION Spec
CONSTANTS
    Fan = 4
    Half = 2
    MaxRam = 40
    PAGE_SIZE = 4
    Gb4 = 8
    WordSize = 65536
    RamSizes <- MCRamSizes
    HeapSizes = {2, 3}
    BufferSizes = {2}
    Images <- MCImages
    MAX_PROCESSES = 2
    VMM_TESTS = 2
    MaxCalls = 6
INVARIANT ElfRights
