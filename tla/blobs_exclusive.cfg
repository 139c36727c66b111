SPECIFICATION Spec
SYMMETRY Symmetry
INVARIANT BlobsDoNotMix
PROPERTY ImplementsContentStore
CONSTANTS
    Clients = {p, q}
    Digests = {a, b}
    TooBig = {}
    Chunks = 1
    Files = {1, 2, 3, 4, 5, 6}
    ExclusivePuts = TRUE
    Crashes = TRUE
    FaultyDisk = TRUE
    None = None
