SPECIFICATION MCSpec
SYMMETRY Symmetry
INVARIANTS OwnSession OperationsHaveOwners ChunksArrive NobodyElsesOperation
CONSTANTS
    None = None
    Modules = {m1, m2}
    Handles = {n1, n2}
    Sessions = {g1,g2}
    Objects = {o1,o2}
    Kinds = {"encrypt", "decrypt", "sign", "verify", "digest", "search", "sign_recover", "verify_recover"}
    Lacking = {m2}
    Nobody = Nobody
    MaxChunks = 1
