-------------------------------- MODULE Fetcher --------------------------------
(***************************************************************************)
(* fetch of libs/compose-fetcher: the bytes of a source, from the cache    *)
(* directory that all processes of a user share, or from the network. A    *)
(* digest has one entry and one temp path. A step is one system call; a    *)
(* file lives on while someone has it open.                                *)
(***************************************************************************)
EXTENDS Naturals, FiniteSets

CONSTANTS
    Fetchers,   \* threads and processes that fetch
    Blobs,    \* of the artifacts that sources serve
    Parts,      \* an artifact is written and read in the parts 1 .. Parts
    Inodes,     \* enough for every entry, temp file and open file
    Absent

ASSUME FetcherAssumption ==
    /\ Parts \in Nat \ {0}
    /\ Absent \notin Blobs \cup Inodes

VARIABLES
    entry,     \* digest -> the file at its cache path, or Absent
    temp,      \* digest -> the file at its temp path, or Absent
    parts,     \* file -> the parts in it
    fetching,  \* fetcher -> its call
    fetched,   \* fetcher -> what its last call returned: Absent, or Results
    shared     \* history: digests whose temp file two fetchers wrote at a time

fetchVars == <<entry, temp, parts, fetching, fetched, shared>>

Whole == 1 .. Parts
NoFetch == [stage |-> "idle", expected |-> Absent, actual |-> Absent, file |-> Absent, next |-> 1, seen |-> {}]
\* bytes: the artifact and the parts of it that were read.
Results == [expected : Blobs \cup {Absent}, of : Blobs, bytes : SUBSET Whole]

FetchInit ==
    /\ entry = [d \in Blobs |-> Absent] /\ temp = [d \in Blobs |-> Absent]
    /\ parts = [f \in Inodes |-> {}]
    /\ fetching = [p \in Fetchers |-> NoFetch]
    /\ fetched = [p \in Fetchers |-> Absent]
    /\ shared = {}

Is(p, stage) == fetching[p].stage = stage
Ends(p, r) == fetching' = [fetching EXCEPT ![p] = NoFetch] /\ fetched' = [fetched EXCEPT ![p] = r]
Gives(p, d, bytes) == Ends(p, [expected |-> fetching[p].expected, of |-> d, bytes |-> bytes])
Files == UNCHANGED <<entry, temp, parts, shared>>
Writers(d) == {p \in Fetchers : fetching[p].stage \in {"write", "rename"} /\ fetching[p].actual = d}

\* With a digest, the cache is asked first.
Fetch(p, expected) ==
    LET cached == IF expected = Absent THEN Absent ELSE entry[expected] IN
    /\ Is(p, "idle")
    /\ fetching' = [fetching EXCEPT ![p] =
         [NoFetch EXCEPT !.stage = IF cached = Absent THEN "network" ELSE "read",
                         !.expected = expected, !.file = cached]]
    /\ fetched' = [fetched EXCEPT ![p] = Absent]
    /\ Files

\* A hit is returned as it is; the digest is not computed again.
ReadFromCache(p) ==
    LET c == fetching[p]  now == c.seen \cup (parts[c.file] \cap {c.next}) IN
    /\ Is(p, "read")
    /\ IF c.next = Parts THEN Gives(p, c.expected, now)
       ELSE /\ fetching' = [fetching EXCEPT ![p].next = @ + 1, ![p].seen = now]
            /\ UNCHANGED fetched
    /\ Files

\* Variant: the digest of the bytes is not compared.
TakesAny(p, d) == TRUE
Matches(p, d) == fetching[p].expected \in {Absent, d}

\* Whatever the source serves; a mismatch is refused.
FetchRaw(p, d) ==
    /\ Is(p, "network")
    /\ IF Matches(p, d)
       THEN fetching' = [fetching EXCEPT ![p].stage = "open", ![p].actual = d] /\ UNCHANGED fetched
       ELSE Ends(p, Absent)
    /\ Files

\* The source, or the reading of an entry, fails: so does the call.
FetchFails(p) == (Is(p, "network") \/ Is(p, "read")) /\ Ends(p, Absent) /\ Files

FreeInodes == {f \in Inodes :
    /\ \A d \in Blobs : f \notin {entry[d], temp[d]}
    /\ \A p \in Fetchers : f # fetching[p].file}

\* write_to_cache: fs::write makes the temp file, or truncates it, and writes its parts.
OpenTemp(p) ==
    LET d == fetching[p].actual
        f == IF temp[d] # Absent THEN temp[d] ELSE CHOOSE f \in FreeInodes : TRUE IN
    /\ Is(p, "open")
    /\ temp[d] # Absent \/ FreeInodes # {}
    /\ temp' = [temp EXCEPT ![d] = f]
    /\ parts' = [parts EXCEPT ![f] = {}]
    /\ fetching' = [fetching EXCEPT ![p].stage = "write", ![p].file = f]
    /\ shared' = IF Writers(d) = {} THEN shared ELSE shared \cup {d}
    /\ UNCHANGED <<entry, fetched>>

WriteTemp(p) ==
    LET c == fetching[p] IN
    /\ Is(p, "write")
    /\ parts' = [parts EXCEPT ![c.file] = @ \cup {c.next}]
    /\ fetching' = [fetching EXCEPT ![p].next = @ + 1,
                                    ![p].stage = IF c.next = Parts THEN "rename" ELSE @]
    /\ UNCHANGED <<entry, temp, fetched, shared>>

\* Where there is no temp file any more the rename fails, which does not matter.
RenameTemp(p) ==
    LET d == fetching[p].actual IN
    /\ Is(p, "rename")
    /\ IF temp[d] = Absent THEN UNCHANGED <<entry, temp>>
       ELSE entry' = [entry EXCEPT ![d] = temp[d]] /\ temp' = [temp EXCEPT ![d] = Absent]
    /\ Gives(p, d, Whole)
    /\ UNCHANGED <<parts, shared>>

\* An error of the cache is a warning: the bytes are returned, the temp file stays.
CacheFails(p) ==
    /\ Is(p, "open") \/ Is(p, "write") \/ Is(p, "rename")
    /\ Gives(p, fetching[p].actual, Whole)
    /\ Files

FetcherDies(p) == ~Is(p, "idle") /\ Ends(p, Absent) /\ Files

FetchNext ==
    \E p \in Fetchers :
      \/ \E d \in Blobs \cup {Absent} : Fetch(p, d)
      \/ \E d \in Blobs : FetchRaw(p, d)
      \/ ReadFromCache(p) \/ FetchFails(p) \/ OpenTemp(p) \/ WriteTemp(p) \/ RenameTemp(p)
      \/ CacheFails(p) \/ FetcherDies(p)

FetchSpec == FetchInit /\ [][FetchNext]_fetchVars

-----------------------------------------------------------------------------

\* Through failures, deaths and reads in the middle of a rename, an entry lacks a part of
\* its artifact only if two fetchers of the digest once wrote its temp file together.
OnlyOverlapsTear ==
    \A d \in Blobs \ shared : entry[d] # Absent => parts[entry[d]] = Whole

\* A call that was given a digest returns all the bytes of that digest, under the same
\* condition: a hit is only as good as the entry.
PinnedBytesMatch ==
    \A p \in Fetchers : fetched[p] # Absent /\ fetched[p].expected # Absent =>
        /\ fetched[p].of = fetched[p].expected
        /\ fetched[p].of \notin shared => fetched[p].bytes = Whole

\* What the comment of write_to_cache says: a partial write never leaves a corrupt entry
\* visible.
EntriesAreWhole == \A d \in Blobs : entry[d] # Absent => parts[entry[d]] = Whole
=============================================================================
