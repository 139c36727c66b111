SPECIFICATION MCFetchSpec
SYMMETRY Symmetry
INVARIANT EntriesAreWhole
CONSTANTS
    h1 = h1  a1 = a1
    good = good  bad = bad  dev = dev  sig = sig  None = None
    Threads = {t1, t2}
    Digests = {good, bad}
    Metadata = {m1}
    Backends = {sig}
    Inputs = {"genuine", "wrong"}
    Accepts <- MCAccepts
    Ttl = 1
    MaxClock = 2
    Width = 16
    SerialAdmin = TRUE
    Restarts = TRUE
    FaultyDisk = TRUE
    Missing = Missing
    Hosts = {h1, h2}
    Keys = {t1, t2}
    Artifacts = {a1, a2}
    Secrets = {s1, s2}
    Absent = Absent
    Fetchers = {t1, t2}
    Blobs = {good, bad}
    Parts = 2
    Inodes = {1, 2, 3, 4}
