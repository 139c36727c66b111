SPECIFICATION Spec
SYMMETRY Symmetry
PROPERTIES OnlyFailuresOrphan LonePutHeals
CONSTANTS
    Clients = {p, q}
    Digests = {a, big}
    TooBig = {big}
    Chunks = 2
    Files = {1, 2, 3, 4, 5, 6}
    ExclusivePuts = FALSE
    Crashes = TRUE
    FaultyDisk = TRUE
    None = None
