------------------------------ MODULE BlobStore ------------------------------
(***************************************************************************)
(* FsBlobStore of libs/compose-core/src/blobs.rs, as its clients (threads  *)
(* and processes that share one root directory) run it on a file system.   *)
(* A step is one system call.  Directory entries name files; a file keeps  *)
(* living while a client has it open, whatever happens to its name.        *)
(***************************************************************************)
EXTENDS Integers, FiniteSets

CONSTANTS
    Clients,        \* callers of the store
    Digests,        \* the blobs they put, by digest
    TooBig,         \* the digests of blobs longer than max_size
    Chunks,         \* the write calls a blob takes: 1 .. Chunks
    Files,          \* inode numbers
    ExclusivePuts,  \* TRUE: callers never put one blob twice at a time
    Crashes,        \* TRUE: the process may die
    FaultyDisk,     \* TRUE: a system call may fail
    None            \* "no such entry"

ASSUME ConstantsAssumption ==
    /\ TooBig \subseteq Digests
    /\ Chunks \in Nat \ {0}
    /\ Files \subseteq Nat
    /\ None \notin Files
    /\ ExclusivePuts \in BOOLEAN
    /\ Crashes \in BOOLEAN
    /\ FaultyDisk \in BOOLEAN

VARIABLES
    temp,     \* digest -> the file named <digest>.tmp, or None
    blob,     \* digest -> the file at digest_path, or None
    content,  \* file -> the pieces <<digest, chunk>> written in it
    call,     \* client -> the call it is in
    answer,   \* client -> what its last call returned
    lone      \* history: clients whose put no other put of the blob overlapped

vars == <<temp, blob, content, call, answer, lone>>

Pieces(d) == {d} \X (1 .. Chunks)

\* next: the chunk to write or read.  seen: what a get has read.
Idle == [stage |-> "idle", digest |-> None, file |-> None, next |-> 1, seen |-> {}]
Stages == {"idle", "put_open", "put_write", "put_rename", "get_read"}
Answers == {"none", "ok", "not_found", "mismatch", "io_error"}
Calls == [stage : Stages, digest : Digests \cup {None}, file : Files \cup {None},
          next : 1 .. Chunks + 1, seen : SUBSET (Digests \X (1 .. Chunks))]

Putting(c) == call[c].stage \in {"put_open", "put_write", "put_rename"}
PutsOf(d) == {c \in Clients : Putting(c) /\ call[c].digest = d}

Used(f) == \/ \E d \in Digests : f \in {temp[d], blob[d]}
           \/ \E c \in Clients : f = call[c].file
\* The file system hands out an inode no name and no open file refers to.
FreshFiles == {f \in Files : ~Used(f) /\ \A g \in Files : ~Used(g) => f <= g}

Return(c, a) == call' = [call EXCEPT ![c] = Idle] /\ answer' = [answer EXCEPT ![c] = a]

Init ==
    /\ temp = [d \in Digests |-> None]
    /\ blob = [d \in Digests |-> None]
    /\ content = [f \in Files |-> {}]
    /\ call = [c \in Clients |-> Idle]
    /\ answer = [c \in Clients |-> "none"]
    /\ lone = {}

--------------------------------- (* put *) ---------------------------------

PutTooBig(c, d) ==
    /\ call[c].stage = "idle"
    /\ d \in TooBig
    /\ Return(c, "io_error")
    /\ UNCHANGED <<temp, blob, content, lone>>

\* The digest is computed and the shard directory made.
PutBegins(c, d) ==
    /\ call[c].stage = "idle"
    /\ d \notin TooBig
    /\ ExclusivePuts => PutsOf(d) = {}
    /\ call' = [call EXCEPT ![c] = [Idle EXCEPT !.stage = "put_open", !.digest = d]]
    /\ lone' = IF PutsOf(d) = {} THEN lone \cup {c} ELSE lone \ ({c} \cup PutsOf(d))
    /\ answer' = [answer EXCEPT ![c] = "none"]
    /\ UNCHANGED <<temp, blob, content>>

\* fs::write opens the temp file: it is created, or truncated if it exists.
Opens(c, f) ==
    /\ content' = [content EXCEPT ![f] = {}]
    /\ call' = [call EXCEPT ![c].stage = "put_write", ![c].file = f]

\* Variant: the temp path does not depend on the digest.
PutOpensCommonTemp(c) ==
    /\ call[c].stage = "put_open"
    /\ \/ /\ \E d \in Digests : temp[d] # None /\ Opens(c, temp[d])
          /\ UNCHANGED temp
       \/ /\ \A d \in Digests : temp[d] = None
          /\ \E f \in FreshFiles : Opens(c, f) /\ temp' = [temp EXCEPT ![call[c].digest] = f]
    /\ UNCHANGED <<blob, answer, lone>>

PutOpensTemp(c) ==
    /\ call[c].stage = "put_open"
    /\ \/ /\ temp[call[c].digest] # None
          /\ Opens(c, temp[call[c].digest])
          /\ UNCHANGED temp
       \/ /\ temp[call[c].digest] = None
          /\ \E f \in FreshFiles : Opens(c, f) /\ temp' = [temp EXCEPT ![call[c].digest] = f]
    /\ UNCHANGED <<blob, answer, lone>>

PutWrites(c) ==
    /\ call[c].stage = "put_write"
    /\ content' = [content EXCEPT ![call[c].file] =
                     @ \cup {<<call[c].digest, call[c].next>>}]
    /\ call' = [call EXCEPT ![c].next = @ + 1,
                            ![c].stage = IF call[c].next = Chunks THEN "put_rename" ELSE @]
    /\ UNCHANGED <<temp, blob, answer, lone>>

\* Variant: the error of the write is dropped and the temp file renamed.
PutIgnoresWriteError(c) ==
    /\ FaultyDisk
    /\ call[c].stage = "put_write"
    /\ call' = [call EXCEPT ![c].stage = "put_rename"]
    /\ UNCHANGED <<temp, blob, content, answer, lone>>

\* Any system call may fail.  A put leaves its temp file behind, at the write or
\* at the rename; a get that could not open or read, and a remove that could not
\* remove, leave everything as it was.
CallFails(c) ==
    /\ FaultyDisk
    /\ Return(c, "io_error")
    /\ UNCHANGED <<temp, blob, content, lone>>

\* Variant: the temp file is copied and not removed.
PutCopies(c) ==
    /\ call[c].stage = "put_rename"
    /\ \/ /\ temp[call[c].digest] # None
          /\ blob' = [blob EXCEPT ![call[c].digest] = temp[call[c].digest]]
          /\ Return(c, "ok")
       \/ /\ temp[call[c].digest] = None
          /\ Return(c, "io_error")
          /\ UNCHANGED blob
    /\ UNCHANGED <<temp, content, lone>>

\* Variant: a file that exists at the digest is taken to be the blob.
PutKeepsExisting(c) ==
    /\ call[c].stage = "put_rename"
    /\ \/ /\ temp[call[c].digest] # None
          /\ blob' = [blob EXCEPT ![call[c].digest] = IF @ = None THEN temp[call[c].digest] ELSE @]
          /\ temp' = [temp EXCEPT ![call[c].digest] = None]
          /\ Return(c, "ok")
       \/ /\ temp[call[c].digest] = None
          /\ Return(c, "io_error")
          /\ UNCHANGED <<temp, blob>>
    /\ UNCHANGED <<content, lone>>

PutRenames(c) ==
    /\ call[c].stage = "put_rename"
    /\ \/ /\ temp[call[c].digest] # None
          /\ blob' = [blob EXCEPT ![call[c].digest] = temp[call[c].digest]]
          /\ temp' = [temp EXCEPT ![call[c].digest] = None]
          /\ Return(c, "ok")
       \/ /\ temp[call[c].digest] = None
          /\ Return(c, "io_error")
          /\ UNCHANGED <<temp, blob>>
    /\ UNCHANGED <<content, lone>>

---------------------------- (* get and delete *) ----------------------------

GetOpens(c, d) ==
    /\ call[c].stage = "idle"
    /\ \/ /\ blob[d] = None
          /\ Return(c, "not_found")
       \/ /\ blob[d] # None
          /\ call' = [call EXCEPT ![c] = [Idle EXCEPT !.stage = "get_read",
                                            !.digest = d, !.file = blob[d]]]
          /\ answer' = [answer EXCEPT ![c] = "none"]
    /\ UNCHANGED <<temp, blob, content, lone>>

GetReads(c) ==
    /\ call[c].stage = "get_read"
    /\ call[c].next <= Chunks
    /\ call' = [call EXCEPT ![c].next = @ + 1,
                  ![c].seen = @ \cup {p \in content[call[c].file] : p[2] = call[c].next}]
    /\ UNCHANGED <<temp, blob, content, answer, lone>>

\* The bytes read are hashed again and compared with the digest.
GetChecks(c) ==
    /\ call[c].stage = "get_read"
    /\ call[c].next > Chunks
    /\ Return(c, IF call[c].seen = Pieces(call[c].digest) THEN "ok" ELSE "mismatch")
    /\ UNCHANGED <<temp, blob, content, lone>>

Delete(c, d) ==
    /\ call[c].stage = "idle"
    /\ Return(c, IF blob[d] = None THEN "not_found" ELSE "ok")
    /\ blob' = [blob EXCEPT ![d] = None]
    /\ UNCHANGED <<temp, content, lone>>

\* The process dies and is started again on the same directory.
Crash ==
    /\ Crashes
    /\ call' = [c \in Clients |-> Idle]
    /\ answer' = [c \in Clients |-> "none"]
    /\ UNCHANGED <<temp, blob, content, lone>>

-----------------------------------------------------------------------------

Next ==
    \/ Crash
    \/ \E c \in Clients :
         \/ PutOpensTemp(c)
         \/ PutWrites(c)
         \/ CallFails(c)
         \/ PutRenames(c)
         \/ GetReads(c)
         \/ GetChecks(c)
         \/ \E d \in Digests :
              PutTooBig(c, d) \/ PutBegins(c, d) \/ GetOpens(c, d) \/ Delete(c, d)

Spec == Init /\ [][Next]_vars

-----------------------------------------------------------------------------

\* Names refer to files that exist, a file holds only pieces of blobs, and no put
\* writes past the end of its bytes.
TypeOK ==
    /\ temp \in [Digests -> Files \cup {None}]
    /\ blob \in [Digests -> Files \cup {None}]
    /\ content \in [Files -> SUBSET (Digests \X (1 .. Chunks))]
    /\ call \in [Clients -> Calls]
    /\ answer \in [Clients -> Answers]
    /\ lone \subseteq Clients

\* However puts of different blobs overlap, crash or fail, the file of a digest
\* holds no byte of another blob (digest_path and the temp path of put).
BlobsDoNotMix == \A d \in Digests :
    blob[d] # None => content[blob[d]] \subseteq Pieces(d)

\* A put that is writing, or about to rename, the temp file of d.
Owned(d) == \E c \in PutsOf(d) : call[c].file = temp[d]

\* A temp file loses its last owner only in the step in which that put dies or
\* fails: overlapping puts that take each other's temp file, some of which find
\* none at the rename, leave no litter behind.
OnlyFailuresOrphan ==
    [][\A d \in Digests : (temp[d] # None => Owned(d)) /\ temp'[d] # None =>
         \/ Owned(d)'
         \/ \E c \in PutsOf(d) : /\ call[c].file = temp'[d]
                                /\ call'[c] = Idle /\ answer'[c] # "ok"]_vars

\* A put that no other put of the same blob overlapped, and that answers ok,
\* leaves the whole blob behind, even where torn bytes were left there earlier.
LonePutHeals ==
    [][\A c \in Clients :
         Putting(c) /\ c \in lone /\ answer'[c] # answer[c] /\ answer'[c] = "ok"
           => /\ blob'[call[c].digest] # None
              /\ content'[blob'[call[c].digest]] = Pieces(call[c].digest)]_vars

\* With one put of a blob at a time the store behaves as the trait promises,
\* through crashes and disk errors: a stored blob reads back whole until it is
\* deleted, and a get that has found it is not disturbed by anything later.
Abstract == INSTANCE ContentStore WITH
    stored <- {d \in Digests : blob[d] # None},
    getting <- [c \in Clients |-> IF call[c].stage = "get_read" THEN "ok" ELSE "idle"],
    replied <- answer
ImplementsContentStore == Abstract!Spec
=============================================================================
