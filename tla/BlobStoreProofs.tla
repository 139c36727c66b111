--------------------------- MODULE BlobStoreProofs ---------------------------
(***************************************************************************)
(* Proofs about BlobStore for any clients, blobs, chunks and files.        *)
(***************************************************************************)
EXTENDS BlobStore, TLAPS

USE DEF Stages, Answers

\* What a client holds at each stage of its call.
HasShape(r) ==
    /\ r.stage = "idle" => r = Idle
    /\ r.stage # "idle" => r.digest \in Digests
    /\ r.stage = "put_open" => r.file = None /\ r.next = 1
    /\ r.stage \in {"put_write", "put_rename", "get_read"} => r.file \in Files
    /\ r.stage = "put_write" => r.next <= Chunks
    /\ r.stage = "put_rename" => r.next = Chunks + 1
Shape == \A c \in Clients : HasShape(call[c])

\* f is reachable through a name or an open call of blob d.
Named(d, f) ==
    /\ f # None
    /\ \/ temp[d] = f
       \/ blob[d] = f
       \/ \E c \in Clients : call[c].digest = d /\ call[c].file = f

\* A file belongs to one blob, and a temp file is not yet visible.
FileInv ==
    /\ \A d, e \in Digests, f \in Files : Named(d, f) /\ Named(e, f) => d = e
    /\ \A d \in Digests, f \in Files : Named(d, f) => content[f] \subseteq Pieces(d)
    /\ \A d \in Digests : temp[d] # None => temp[d] # blob[d]

\* A put that nobody overlapped is the only one, and what it wrote is there.
LonePut(c) ==
    /\ \A x \in Clients : Putting(x) /\ call[x].digest = call[c].digest => x = c
    /\ call[c].stage \in {"put_write", "put_rename"} =>
         /\ temp[call[c].digest] = call[c].file
         /\ \A i \in 1 .. call[c].next - 1 : <<call[c].digest, i>> \in content[call[c].file]
LoneInv == \A c \in lone : Putting(c) => LonePut(c)

\* With exclusive puts no visible file and no file a get has open changes.
WholeInv ==
    /\ \A c \in Clients : Putting(c) => c \in lone
    /\ \A d \in Digests : blob[d] # None => content[blob[d]] = Pieces(d)
    /\ \A c \in Clients : call[c].stage = "get_read" =>
         /\ content[call[c].file] = Pieces(call[c].digest)
         /\ call[c].file # temp[call[c].digest]
         /\ call[c].seen = {call[c].digest} \X (1 .. call[c].next - 1)

IInv == TypeOK /\ Shape /\ FileInv /\ LoneInv /\ (ExclusivePuts => WholeInv)

LEMMA IdleType ==
    /\ Idle \in Calls
    /\ Idle.stage = "idle" /\ Idle.digest = None /\ Idle.file = None /\ Idle.next = 1
BY ConstantsAssumption DEF Idle, Calls

LEMMA InitInv == Init => IInv
<1> SUFFICES ASSUME Init PROVE IInv
  OBVIOUS
<1> USE ConstantsAssumption
<1>1. TypeOK
  BY IdleType DEF Init, TypeOK
<1>2. Shape
  BY IdleType DEF Init, Shape, HasShape
<1>3. FileInv
  BY IdleType DEF Init, FileInv, Named
<1>4. LoneInv /\ WholeInv
  BY IdleType DEF Init, LoneInv, WholeInv, Putting
<1> QED BY <1>1, <1>2, <1>3, <1>4 DEF IInv

-----------------------------------------------------------------------------
(* Type correctness and the shape of calls, action by action.              *)

LEMMA OneCall ==
    ASSUME TypeOK, Shape, NEW c \in Clients, NEW r \in Calls, HasShape(r),
           call' = [call EXCEPT ![c] = r]
    PROVE  call' \in [Clients -> Calls] /\ Shape'
BY DEF TypeOK, Shape

LEMMA PutBeginsType ==
    ASSUME TypeOK, Shape, NEW c \in Clients, NEW d \in Digests, PutBegins(c, d)
    PROVE  TypeOK' /\ Shape'
<1> DEFINE r == [Idle EXCEPT !.stage = "put_open", !.digest = d]
<1>1. r \in Calls /\ r.stage = "put_open" /\ r.digest = d /\ r.file = None /\ r.next = 1
  BY IdleType DEF Calls
<1>2. call' = [call EXCEPT ![c] = r]
  BY DEF PutBegins
<1> HIDE DEF r
<1>3. call' \in [Clients -> Calls] /\ Shape'
  BY <1>1, <1>2, OneCall DEF HasShape
<1> QED BY <1>3 DEF PutBegins, TypeOK, PutsOf

LEMMA PutOpensTempType ==
    ASSUME TypeOK, Shape, NEW c \in Clients, PutOpensTemp(c)
    PROVE  TypeOK' /\ Shape'
<1>1. PICK f \in Files : Opens(c, f) /\ temp' \in [Digests -> Files \cup {None}]
  BY DEF PutOpensTemp, TypeOK, Shape, HasShape, FreshFiles
<1> DEFINE r == [call[c] EXCEPT !.stage = "put_write", !.file = f]
<1>2. r \in Calls /\ r.stage = "put_write" /\ r.file = f /\ r.digest = call[c].digest
        /\ r.next = call[c].next
  BY DEF TypeOK, Calls
<1>3. call' = [call EXCEPT ![c] = r]
  BY <1>1 DEF Opens, TypeOK
<1>4. r.digest \in Digests /\ r.next <= Chunks
  BY <1>2, ConstantsAssumption DEF PutOpensTemp, Shape, HasShape
<1> HIDE DEF r
<1>5. call' \in [Clients -> Calls] /\ Shape'
  BY <1>2, <1>3, <1>4, OneCall DEF HasShape
<1> QED BY <1>1, <1>5 DEF PutOpensTemp, Opens, TypeOK

LEMMA PutWritesType ==
    ASSUME TypeOK, Shape, NEW c \in Clients, PutWrites(c)
    PROVE  TypeOK' /\ Shape'
<1> USE ConstantsAssumption
<1> DEFINE s == IF call[c].next = Chunks THEN "put_rename" ELSE "put_write"
           r == [call[c] EXCEPT !.next = @ + 1, !.stage = s]
<1>1. call[c].next \in 1 .. Chunks /\ call[c].file \in Files /\ call[c].digest \in Digests
  BY DEF PutWrites, TypeOK, Shape, HasShape, Calls
<1>2. call[c] \in Calls /\ s \in Stages /\ call[c].next + 1 \in 1 .. Chunks + 1
  BY <1>1 DEF TypeOK
<1>3. call' = [call EXCEPT ![c] = r]
  BY DEF PutWrites, TypeOK
<1> HIDE DEF s
<1>4. r \in Calls /\ r.stage = s /\ r.next = call[c].next + 1
        /\ r.file = call[c].file /\ r.digest = call[c].digest
  BY <1>2 DEF Calls
<1> HIDE DEF r
<1>5. HasShape(r)
  BY <1>1, <1>4 DEF HasShape, s
<1>6. call' \in [Clients -> Calls] /\ Shape'
  BY <1>4, <1>3, <1>5, OneCall
<1> QED BY <1>1, <1>6 DEF PutWrites, TypeOK

LEMMA GetReadsType ==
    ASSUME TypeOK, Shape, NEW c \in Clients, GetReads(c)
    PROVE  TypeOK' /\ Shape'
<1> USE ConstantsAssumption
<1> DEFINE more == {p \in content[call[c].file] : p[2] = call[c].next}
           all == call[c].seen \cup more
           r == [call[c] EXCEPT !.next = @ + 1, !.seen = all]
<1>1. /\ call[c] \in Calls /\ call[c].stage = "get_read"
      /\ call[c].next \in 1 .. Chunks /\ call[c].digest \in Digests /\ call[c].file \in Files
  BY DEF GetReads, TypeOK, Shape, HasShape, Calls
<1>2. more \subseteq Digests \X (1 .. Chunks)
  BY <1>1 DEF TypeOK
<1>3. call' = [call EXCEPT ![c] = r]
  BY DEF GetReads, TypeOK
<1> HIDE DEF more
<1>4. all \in SUBSET (Digests \X (1 .. Chunks)) /\ call[c].next + 1 \in 1 .. Chunks + 1
  BY <1>1, <1>2 DEF Calls
<1> HIDE DEF all
<1>5. r \in Calls /\ r.stage = "get_read" /\ r.file = call[c].file /\ r.digest = call[c].digest
  BY <1>1, <1>4 DEF Calls
<1> HIDE DEF r
<1>6. HasShape(r)
  BY <1>1, <1>5 DEF HasShape
<1>7. call' \in [Clients -> Calls] /\ Shape'
  BY <1>3, <1>5, <1>6, OneCall
<1> QED BY <1>7 DEF GetReads, TypeOK

LEMMA GetOpensType ==
    ASSUME TypeOK, Shape, NEW c \in Clients, NEW d \in Digests, GetOpens(c, d)
    PROVE  TypeOK' /\ Shape'
<1>1. CASE blob[d] = None
  BY <1>1, IdleType, OneCall DEF GetOpens, Return, TypeOK, HasShape
<1>2. CASE blob[d] # None
  <2> DEFINE r == [Idle EXCEPT !.stage = "get_read", !.digest = d, !.file = blob[d]]
  <2>1. r \in Calls /\ r.stage = "get_read" /\ r.digest = d /\ r.file \in Files
    BY <1>2, IdleType DEF TypeOK, Calls
  <2>2. call' = [call EXCEPT ![c] = r]
    BY <1>2 DEF GetOpens
  <2> HIDE DEF r
  <2>3. call' \in [Clients -> Calls] /\ Shape'
    BY <2>1, <2>2, OneCall DEF HasShape
  <2> QED BY <1>2, <2>3 DEF GetOpens, TypeOK
<1> QED BY <1>1, <1>2

\* A client that returns is idle.
LEMMA ReturnType ==
    ASSUME TypeOK, Shape, NEW c \in Clients, NEW a \in Answers, Return(c, a)
    PROVE  /\ call' \in [Clients -> Calls] /\ answer' \in [Clients -> Answers]
           /\ Shape'
<1>1. HasShape(Idle)
  BY IdleType DEF HasShape
<1> QED BY <1>1, IdleType, OneCall DEF Return, TypeOK

LEMMA TypeStep == TypeOK /\ Shape /\ [Next]_vars => TypeOK' /\ Shape'
<1> SUFFICES ASSUME TypeOK, Shape, [Next]_vars PROVE TypeOK' /\ Shape'
  OBVIOUS
<1>1. CASE UNCHANGED vars
  BY <1>1 DEF vars, TypeOK, Shape
<1>2. CASE Crash
  BY <1>2, IdleType DEF Crash, TypeOK, Shape, HasShape
<1>3. ASSUME NEW c \in Clients, CallFails(c) PROVE TypeOK' /\ Shape'
  BY <1>3, ReturnType DEF CallFails, TypeOK
<1>4. ASSUME NEW c \in Clients, PutRenames(c) PROVE TypeOK' /\ Shape'
  BY <1>4, ReturnType DEF PutRenames, TypeOK, Shape, HasShape
<1>5. ASSUME NEW c \in Clients, GetChecks(c) PROVE TypeOK' /\ Shape'
  BY <1>5, ReturnType DEF GetChecks, TypeOK
<1>6. ASSUME NEW c \in Clients, NEW d \in Digests, PutTooBig(c, d) PROVE TypeOK' /\ Shape'
  BY <1>6, ReturnType DEF PutTooBig, TypeOK
<1>7. ASSUME NEW c \in Clients, NEW d \in Digests, Delete(c, d) PROVE TypeOK' /\ Shape'
  BY <1>7, ReturnType DEF Delete, TypeOK
<1> QED BY <1>1, <1>2, <1>3, <1>4, <1>5, <1>6, <1>7, PutBeginsType, PutOpensTempType,
           PutWritesType, GetReadsType, GetOpensType DEF Next

\* The store's tables and calls always hold values of their types.
THEOREM TypeCorrect == Spec => []TypeOK
<1>1. Init => TypeOK /\ Shape
  BY InitInv DEF IInv
<1> QED BY <1>1, TypeStep, PTL DEF Spec

-----------------------------------------------------------------------------
(* A file belongs to one blob.                                             *)

\* A step that opens no new file gives no file to another blob.
LEMMA NamesShrink ==
    ASSUME TypeOK, NEW c \in Clients, NEW r \in Calls, call' = [call EXCEPT ![c] = r],
           \A d \in Digests : temp'[d] \in {temp[d], None},
           \A d \in Digests : blob'[d] \in {blob[d], temp[d], None},
           \/ r.file = None
           \/ r.file = call[c].file /\ r.digest = call[c].digest
           \/ r.digest \in Digests /\ r.file \in {temp[r.digest], blob[r.digest]}
    PROVE  \A d \in Digests, f \in Files : Named(d, f)' => Named(d, f)
<1> SUFFICES ASSUME NEW d \in Digests, NEW f \in Files, Named(d, f)' PROVE Named(d, f)
  OBVIOUS
<1>1. CASE temp'[d] = f \/ blob'[d] = f
  BY <1>1 DEF Named
<1>2. ASSUME NEW x \in Clients, call'[x].digest = d, call'[x].file = f PROVE Named(d, f)
  BY <1>2 DEF Named, TypeOK
<1> QED BY <1>1, <1>2 DEF Named

\* Files whose owners do not change keep at most what is their owner's.
LEMMA FileKept ==
    ASSUME FileInv,
           \A d \in Digests, f \in Files : Named(d, f)' => Named(d, f),
           \A d \in Digests, f \in Files : Named(d, f) => content'[f] \subseteq Pieces(d),
           \A d \in Digests : temp'[d] # None => temp'[d] # blob'[d]
    PROVE  FileInv'
BY DEF FileInv, Pieces

LEMMA NameOf ==
    ASSUME TypeOK, Shape, NEW c \in Clients,
           call[c].stage \in {"put_write", "put_rename", "get_read"}
    PROVE  Named(call[c].digest, call[c].file)
BY ConstantsAssumption DEF Named, Shape, HasShape

LEMMA PutOpensTempFile ==
    ASSUME TypeOK, Shape, FileInv, NEW c \in Clients, PutOpensTemp(c)
    PROVE  FileInv'
<1> USE ConstantsAssumption
<1> DEFINE d == call[c].digest
<1>0. d \in Digests
  BY DEF PutOpensTemp, Shape, HasShape
<1>1. ASSUME NEW f \in Files, Opens(c, f)
      PROVE  /\ content'[f] = {} /\ \A g \in Files : g # f => content'[g] = content[g]
             /\ call'[c].file = f /\ call'[c].digest = d
             /\ \A x \in Clients : x # c => call'[x] = call[x]
  BY <1>1 DEF Opens, TypeOK, Calls
<1>2. ASSUME NEW e \in Digests, NEW f \in Files, NEW g \in Files, Opens(c, g), blob' = blob,
             Named(e, f)', ~Named(e, f)
      PROVE  temp'[e] = f \/ (e = d /\ f = g)
  <2>1. ASSUME NEW x \in Clients, call'[x].digest = e, call'[x].file = f
        PROVE  e = d /\ f = g
    BY <1>1, <1>2, <2>1 DEF Named
  <2> QED BY <1>2, <2>1 DEF Named
<1>3. CASE temp[d] # None
  <2>1. temp[d] \in Files /\ Opens(c, temp[d]) /\ temp' = temp /\ blob' = blob
    BY <1>0, <1>3 DEF PutOpensTemp, TypeOK
  <2>2. ASSUME NEW e \in Digests, NEW f \in Files, Named(e, f)' PROVE Named(e, f)
    <3>1. Named(e, f) \/ temp[e] = f \/ (e = d /\ f = temp[d])
      BY <1>2, <2>1, <2>2
    <3> QED BY <3>1 DEF Named
  <2>3. \A e \in Digests, f \in Files : Named(e, f) => content'[f] \subseteq Pieces(e)
    BY <1>1, <2>1 DEF FileInv
  <2> QED BY <2>1, <2>2, <2>3, FileKept DEF FileInv
<1>4. CASE temp[d] = None
  <2>1. PICK f \in FreshFiles : Opens(c, f) /\ temp' = [temp EXCEPT ![d] = f]
    BY <1>4 DEF PutOpensTemp
  <2>2. f \in Files /\ blob' = blob /\ \A e \in Digests : ~Named(e, f)
    BY <2>1 DEF PutOpensTemp, FreshFiles, Used, Named
  <2>3. ASSUME NEW e \in Digests, NEW g \in Files, Named(e, g)'
        PROVE  Named(e, g) \/ (e = d /\ g = f)
    <3>1. Named(e, g) \/ temp'[e] = g \/ (e = d /\ g = f)
      BY <1>2, <2>1, <2>2, <2>3
    <3> QED BY <2>1, <3>1 DEF Named, TypeOK
  <2>4. \A e \in Digests, g \in Files : Named(e, g)' => content'[g] \subseteq Pieces(e)
    BY <1>1, <2>1, <2>2, <2>3 DEF FileInv
  <2>5. \A e \in Digests : temp'[e] # None => temp'[e] # blob'[e]
    BY <2>1, <2>2 DEF FileInv, Named, TypeOK
  <2>6. \A e, h \in Digests, g \in Files : Named(e, g)' /\ Named(h, g)' => e = h
    BY <2>2, <2>3 DEF FileInv
  <2> QED BY <2>4, <2>5, <2>6 DEF FileInv, Pieces
<1> QED BY <1>3, <1>4

LEMMA PutWritesFile ==
    ASSUME TypeOK, Shape, FileInv, NEW c \in Clients, PutWrites(c)
    PROVE  FileInv'
<1> USE ConstantsAssumption
<1> DEFINE d == call[c].digest
           g == call[c].file
<1>1. d \in Digests /\ g \in Files /\ Named(d, g) /\ call[c].next \in 1 .. Chunks
  BY NameOf DEF PutWrites, Shape, HasShape, TypeOK, Calls
<1>2. /\ content'[g] = content[g] \cup {<<d, call[c].next>>}
      /\ \A f \in Files : f # g => content'[f] = content[f]
  BY <1>1 DEF PutWrites, TypeOK
<1>3. /\ \A x \in Clients : call'[x].digest = call[x].digest /\ call'[x].file = call[x].file
      /\ temp' = temp /\ blob' = blob
  BY DEF PutWrites, TypeOK, Calls
<1>4. \A e \in Digests, f \in Files : Named(e, f)' => Named(e, f)
  BY <1>3 DEF Named
<1>5. <<d, call[c].next>> \in Pieces(d)
  BY <1>1 DEF Pieces
<1>6. \A e \in Digests, f \in Files : Named(e, f) => content'[f] \subseteq Pieces(e)
  BY <1>1, <1>2, <1>5 DEF FileInv
<1> QED BY <1>3, <1>4, <1>6, FileKept DEF FileInv

LEMMA FileStep == TypeOK /\ Shape /\ FileInv /\ [Next]_vars => FileInv'
<1> SUFFICES ASSUME TypeOK, Shape, FileInv, [Next]_vars PROVE FileInv'
  OBVIOUS
<1> USE IdleType
<1>1. CASE UNCHANGED vars
  BY <1>1 DEF vars, FileInv, Named, Pieces
<1>2. CASE Crash
  <2>1. \A d \in Digests, f \in Files : Named(d, f)' => Named(d, f)
    BY <1>2 DEF Crash, Named
  <2> QED BY <1>2, <2>1, FileKept DEF Crash, FileInv
<1>3. ASSUME NEW c \in Clients, NEW a \in Answers, Return(c, a), content' = content,
             \A d \in Digests : temp'[d] \in {temp[d], None},
             \A d \in Digests : blob'[d] \in {blob[d], temp[d], None},
             \A d \in Digests : temp'[d] # None => temp'[d] # blob'[d]
      PROVE  FileInv'
  <2>1. \A d \in Digests, f \in Files : Named(d, f)' => Named(d, f)
    BY <1>3, NamesShrink DEF Return
  <2> QED BY <1>3, <2>1, FileKept DEF FileInv
<1>4. ASSUME NEW c \in Clients, CallFails(c) PROVE FileInv'
  BY <1>3, <1>4 DEF CallFails, FileInv
<1>5. ASSUME NEW c \in Clients, PutRenames(c) PROVE FileInv'
  <2> DEFINE d == call[c].digest
  <2>1. d \in Digests
    BY <1>5 DEF PutRenames, Shape, HasShape
  <2>2. CASE temp[d] # None
    <3>1. /\ temp'[d] = None /\ blob'[d] = temp[d]
          /\ \A e \in Digests : e # d => temp'[e] = temp[e] /\ blob'[e] = blob[e]
      BY <1>5, <2>1, <2>2 DEF PutRenames, TypeOK
    <3> QED BY <1>3, <1>5, <2>2, <3>1 DEF PutRenames, FileInv
  <2>3. CASE temp[d] = None
    BY <1>3, <1>5, <2>3 DEF PutRenames, FileInv
  <2> QED BY <2>2, <2>3
<1>6. ASSUME NEW c \in Clients, GetReads(c) PROVE FileInv'
  <2>1. /\ \A x \in Clients : call'[x].digest = call[x].digest /\ call'[x].file = call[x].file
        /\ temp' = temp /\ blob' = blob /\ content' = content
    BY <1>6 DEF GetReads, TypeOK, Calls
  <2>2. \A e \in Digests, f \in Files : Named(e, f)' => Named(e, f)
    BY <2>1 DEF Named
  <2> QED BY <2>1, <2>2, FileKept DEF FileInv
<1>7. ASSUME NEW c \in Clients, GetChecks(c) PROVE FileInv'
  BY <1>3, <1>7 DEF GetChecks, FileInv
<1>8. ASSUME NEW c \in Clients, NEW d \in Digests, PutTooBig(c, d) PROVE FileInv'
  BY <1>3, <1>8 DEF PutTooBig, FileInv
<1>9. ASSUME NEW c \in Clients, NEW d \in Digests, PutBegins(c, d) PROVE FileInv'
  <2> DEFINE r == [Idle EXCEPT !.stage = "put_open", !.digest = d]
  <2>1. r \in Calls /\ r.file = None /\ call' = [call EXCEPT ![c] = r]
    BY <1>9 DEF PutBegins, Calls
  <2>2. \A e \in Digests, f \in Files : Named(e, f)' => Named(e, f)
    BY <1>9, <2>1, NamesShrink DEF PutBegins
  <2> QED BY <1>9, <2>2, FileKept DEF PutBegins, FileInv
<1>10. ASSUME NEW c \in Clients, NEW d \in Digests, GetOpens(c, d) PROVE FileInv'
  <2>1. CASE blob[d] = None
    BY <1>3, <1>10, <2>1 DEF GetOpens, FileInv
  <2>2. CASE blob[d] # None
    <3> DEFINE r == [Idle EXCEPT !.stage = "get_read", !.digest = d, !.file = blob[d]]
    <3>1. /\ r \in Calls /\ r.digest = d /\ r.file = blob[d]
          /\ call' = [call EXCEPT ![c] = r]
      BY <1>10, <2>2 DEF GetOpens, Calls, TypeOK
    <3>2. \A e \in Digests, f \in Files : Named(e, f)' => Named(e, f)
      BY <1>10, <3>1, NamesShrink DEF GetOpens
    <3> QED BY <1>10, <3>2, FileKept DEF GetOpens, FileInv
  <2> QED BY <2>1, <2>2
<1>11. ASSUME NEW c \in Clients, NEW d \in Digests, Delete(c, d) PROVE FileInv'
  <2>1. \A e \in Digests : blob'[e] \in {blob[e], None} /\ temp'[e] = temp[e]
    BY <1>11 DEF Delete, TypeOK
  <2> QED BY <1>3, <1>11, <2>1 DEF Delete, FileInv
<1> QED BY <1>1, <1>2, <1>4, <1>5, <1>6, <1>7, <1>8, <1>9, <1>10, <1>11,
           PutOpensTempFile, PutWritesFile DEF Next

\* No byte of one blob is ever found under the digest of another.
THEOREM NoMixing == Spec => []BlobsDoNotMix
<1>1. Init => TypeOK /\ Shape /\ FileInv
  BY InitInv DEF IInv
<1>2. TypeOK /\ FileInv => BlobsDoNotMix
  BY ConstantsAssumption DEF TypeOK, FileInv, BlobsDoNotMix, Named
<1> QED BY <1>1, <1>2, TypeStep, FileStep, PTL DEF Spec

-----------------------------------------------------------------------------
(* Temp files and lone puts.                                               *)

LEMMA TempStep ==
    ASSUME TypeOK, Shape, [Next]_vars, NEW d \in Digests,
           temp[d] # None => Owned(d), temp'[d] # None
    PROVE  \/ Owned(d)'
           \/ \E c \in PutsOf(d) : /\ call[c].file = temp'[d]
                                  /\ call'[c] = Idle /\ answer'[c] # "ok"
<1> DEFINE Ok == \/ Owned(d)'
                 \/ \E c \in PutsOf(d) : /\ call[c].file = temp'[d]
                                        /\ call'[c] = Idle /\ answer'[c] # "ok"
<1> SUFFICES Ok
  OBVIOUS
<1> USE ConstantsAssumption DEF Owned, PutsOf, Putting
<1>1. ASSUME temp'[d] = temp[d],
             \A x \in PutsOf(d) : call[x].stage # "put_open" => call'[x] = call[x]
      PROVE  Ok
  BY <1>1 DEF Shape, HasShape, TypeOK
<1>2. CASE UNCHANGED vars
  BY <1>1, <1>2 DEF vars
<1>3. ASSUME NEW c \in Clients, PutOpensTemp(c) PROVE Ok
  <2>1. CASE call[c].digest # d
    BY <1>1, <1>3, <2>1 DEF PutOpensTemp, Opens, TypeOK
  <2>2. CASE call[c].digest = d
    <3>1. PICK f \in Files : Opens(c, f) /\ temp'[d] = f
      BY <1>3, <2>2 DEF PutOpensTemp, FreshFiles, TypeOK
    <3>2. call'[c].stage = "put_write" /\ call'[c].digest = d /\ call'[c].file = f
      BY <2>2, <3>1 DEF Opens, TypeOK, Calls
    <3> QED BY <3>1, <3>2
  <2> QED BY <2>1, <2>2
<1>4. ASSUME NEW c \in Clients, PutWrites(c) PROVE Ok
  <2>1. /\ temp' = temp
        /\ call'[c].stage \in {"put_write", "put_rename"}
        /\ call'[c].file = call[c].file /\ call'[c].digest = call[c].digest
        /\ \A x \in Clients : x # c => call'[x] = call[x]
    BY <1>4 DEF PutWrites, TypeOK, Calls
  <2> QED BY <2>1
<1>5. ASSUME NEW c \in Clients, PutRenames(c) PROVE Ok
  <2>1. call[c].digest # d
    BY <1>5 DEF PutRenames, TypeOK
  <2> QED BY <1>1, <1>5, <2>1 DEF PutRenames, Return, TypeOK
<1>6. ASSUME NEW c \in Clients, GetReads(c) PROVE Ok
  BY <1>1, <1>6 DEF GetReads, TypeOK
<1>7. ASSUME NEW c \in Clients, GetChecks(c) PROVE Ok
  BY <1>1, <1>7 DEF GetChecks, Return, TypeOK
<1>8. ASSUME NEW c \in Clients, NEW e \in Digests,
             PutTooBig(c, e) \/ PutBegins(c, e) \/ GetOpens(c, e) \/ Delete(c, e)
      PROVE  Ok
  BY <1>1, <1>8 DEF PutTooBig, PutBegins, GetOpens, Delete, Return, TypeOK
\* The owner is another put, or the one that failed.
<1>9. ASSUME NEW c \in Clients, CallFails(c) PROVE Ok
  <2>1. /\ temp' = temp /\ call'[c] = Idle /\ answer'[c] = "io_error"
        /\ \A x \in Clients : x # c => call'[x] = call[x]
    BY <1>9 DEF CallFails, Return, TypeOK
  <2>2. PICK x \in PutsOf(d) : call[x].file = temp[d]
    BY <2>1
  <2> QED BY <2>1, <2>2
<1>10. CASE Crash
  <2>1. temp' = temp /\ \A x \in Clients : call'[x] = Idle /\ answer'[x] = "none"
    BY <1>10 DEF Crash
  <2>2. PICK x \in PutsOf(d) : call[x].file = temp[d]
    BY <2>1
  <2> QED BY <2>1, <2>2
<1> HIDE DEF Ok
<1> QED BY <1>2, <1>3, <1>4, <1>5, <1>6, <1>7, <1>8, <1>9, <1>10 DEF Next

\* However puts overlap, take each other's temp file and fail, a temp file is left
\* without a writer only by a put that died or failed in that very step.
THEOREM NoLitter == Spec => OnlyFailuresOrphan
<1>1. Init => TypeOK /\ Shape
  BY InitInv DEF IInv
<1>2. TypeOK /\ Shape /\ [Next]_vars => (TypeOK /\ Shape)'
  BY TypeStep
<1> DEFINE Step == \A d \in Digests : (temp[d] # None => Owned(d)) /\ temp'[d] # None =>
                       \/ Owned(d)'
                       \/ \E c \in PutsOf(d) : /\ call[c].file = temp'[d]
                                              /\ call'[c] = Idle /\ answer'[c] # "ok"
<1>3. TypeOK /\ Shape /\ [Next]_vars => Step
  BY TempStep
<1>4. OnlyFailuresOrphan <=> [][Step]_vars
  BY PTL DEF OnlyFailuresOrphan
<1> HIDE DEF Step
<1> QED BY <1>1, <1>2, <1>3, <1>4, PTL DEF Spec

\* What another client does leaves a lone put alone.
LEMMA LoneOthers ==
    ASSUME TypeOK, Shape, LoneInv, NEW a \in Clients, NEW r \in Calls,
           call' = [call EXCEPT ![a] = r],
           r.stage \in {"put_open", "put_write", "put_rename"} =>
             Putting(a) /\ r.digest = call[a].digest,
           NEW c \in lone, c # a, Putting(c),
           \A d \in Digests : temp'[d] # temp[d] => Putting(a) /\ call[a].digest = d,
           content[call[c].file] \subseteq content'[call[c].file]
    PROVE  LonePut(c)'
<1> USE DEF Putting
<1>1. c \in Clients /\ LonePut(c) /\ call'[c] = call[c] /\ call[c].digest \in Digests
  BY DEF TypeOK, LoneInv, Shape, HasShape
<1>2. ~(Putting(a) /\ call[a].digest = call[c].digest)
  BY <1>1 DEF LonePut
<1>3. \A x \in Clients : x # a => call'[x] = call[x]
  BY DEF TypeOK
<1>4. call'[a] = r
  BY DEF TypeOK
<1>5. \A x \in Clients : Putting(x)' /\ call'[x].digest = call[c].digest => x = c
  BY <1>1, <1>2, <1>3, <1>4 DEF LonePut
<1>6. temp'[call[c].digest] = temp[call[c].digest]
  BY <1>1, <1>2
<1> QED BY <1>1, <1>5, <1>6 DEF LonePut

LEMMA LoneStep == TypeOK /\ Shape /\ FileInv /\ LoneInv /\ [Next]_vars => LoneInv'
<1> SUFFICES ASSUME TypeOK, Shape, FileInv, LoneInv, [Next]_vars PROVE LoneInv'
  OBVIOUS
<1> USE IdleType, ConstantsAssumption
<1>1. CASE UNCHANGED vars
  BY <1>1 DEF vars, LoneInv, LonePut, Putting
<1>2. CASE Crash
  BY <1>2 DEF Crash, LoneInv, Putting, TypeOK
<1>3. ASSUME NEW a \in Clients, NEW r \in Calls, call' = [call EXCEPT ![a] = r],
             r.stage \notin {"put_open", "put_write", "put_rename"},
             \A d \in Digests : temp'[d] # temp[d] => Putting(a) /\ call[a].digest = d,
             content' = content, lone' = lone
      PROVE  LoneInv'
  <2> SUFFICES ASSUME NEW c \in lone, Putting(c)' PROVE LonePut(c)'
    BY <1>3 DEF LoneInv
  <2>1. c # a /\ Putting(c)
    BY <1>3 DEF Putting, TypeOK
  <2> QED BY <1>3, <2>1, LoneOthers
<1>4. ASSUME NEW a \in Clients, NEW d \in Digests, PutBegins(a, d) PROVE LoneInv'
  <2> DEFINE r == [Idle EXCEPT !.stage = "put_open", !.digest = d]
  <2>1. r \in Calls /\ r.stage = "put_open" /\ r.digest = d
    BY DEF Calls
  <2>2. call' = [call EXCEPT ![a] = r] /\ temp' = temp /\ content' = content /\ ~Putting(a)
    BY <1>4 DEF PutBegins, Putting
  <2> HIDE DEF r
  <2> SUFFICES ASSUME NEW c \in lone', Putting(c)' PROVE LonePut(c)'
    BY DEF LoneInv
  <2>3. CASE c = a
    <3>1. PutsOf(d) = {}
      BY <1>4, <2>3 DEF PutBegins
    <3> QED BY <2>1, <2>2, <2>3, <3>1 DEF LonePut, PutsOf, Putting, TypeOK
  <2>4. CASE c # a
    <3>1. c \in lone /\ c \notin PutsOf(d) /\ c \in Clients
      BY <1>4, <2>4 DEF PutBegins, TypeOK
    <3>2. call'[c] = call[c] /\ Putting(c) /\ LonePut(c)
      BY <2>2, <2>4, <3>1 DEF TypeOK, LoneInv, Putting
    <3>3. call[c].digest # d
      BY <3>1, <3>2 DEF PutsOf
    <3> QED BY <2>1, <2>2, <3>2, <3>3 DEF LonePut, Putting, TypeOK
  <2> QED BY <2>3, <2>4
<1>5. ASSUME NEW a \in Clients, PutOpensTemp(a) PROVE LoneInv'
  <2> DEFINE d == call[a].digest
  <2>1. PICK f \in Files :
          /\ Opens(a, f) /\ temp'[d] = f /\ \A e \in Digests : e # d => temp'[e] = temp[e]
          /\ \A e \in Digests : Named(e, f) => e = d
    <3>1. d \in Digests
      BY <1>5 DEF PutOpensTemp, Shape, HasShape
    <3>2. CASE temp[d] # None
      <4>1. temp[d] \in Files /\ Opens(a, temp[d]) /\ temp' = temp
        BY <1>5, <3>1, <3>2 DEF PutOpensTemp, TypeOK
      <4>2. Named(d, temp[d])
        BY <3>2 DEF Named
      <4>3. \A e \in Digests : Named(e, temp[d]) => e = d
        BY <3>1, <4>1, <4>2 DEF FileInv
      <4> QED BY <4>1, <4>3
    <3>3. CASE temp[d] = None
      BY <1>5, <3>1, <3>3 DEF PutOpensTemp, TypeOK, FreshFiles, Used, Named
    <3> QED BY <3>2, <3>3
  <2> DEFINE r == [call[a] EXCEPT !.stage = "put_write", !.file = f]
  <2>a. call[a] \in Calls /\ call[a].stage = "put_open" /\ call[a].next = 1 /\ lone' = lone
    BY <1>5 DEF PutOpensTemp, TypeOK, Shape, HasShape
  <2>b. call' = [call EXCEPT ![a] = r]
    BY <2>1 DEF Opens, TypeOK
  <2>2. /\ r \in Calls /\ r.stage = "put_write" /\ r.digest = d /\ r.file = f /\ r.next = 1
        /\ call' = [call EXCEPT ![a] = r] /\ Putting(a) /\ lone' = lone
    BY <2>a, <2>b DEF Calls, Putting
  <2> HIDE DEF r
  <2> SUFFICES ASSUME NEW c \in lone, Putting(c)' PROVE LonePut(c)'
    BY <2>2 DEF LoneInv
  <2>3. CASE c = a
    <3>1. LonePut(a)
      BY <2>2, <2>3 DEF LoneInv
    <3> QED BY <2>1, <2>2, <2>3, <3>1 DEF LonePut, Putting, TypeOK
  <2>4. CASE c # a
    <3>1. c \in Clients /\ call'[c] = call[c] /\ Putting(c)
      BY <2>2, <2>4 DEF TypeOK, Putting
    <3>2. LonePut(c)
      BY <3>1 DEF LoneInv
    <3>3. CASE call[c].stage = "put_open"
      BY <2>2, <2>4, <3>1, <3>2, <3>3 DEF LonePut, Putting, TypeOK
    <3>4. CASE call[c].stage \in {"put_write", "put_rename"}
      <4>1. Named(call[c].digest, call[c].file) /\ call[c].digest # d /\ call[c].digest \in Digests
        BY <2>2, <2>4, <3>1, <3>2, <3>4, NameOf DEF LonePut, Shape, HasShape
      <4>2. call[c].file # f /\ call[c].file \in Files
        BY <2>1, <3>1, <3>4, <4>1 DEF Shape, HasShape
      <4>3. content'[call[c].file] = content[call[c].file]
        BY <2>1, <4>2 DEF Opens, TypeOK
      <4> QED BY <2>1, <2>2, <2>4, <3>1, <4>3, LoneOthers
    <3> QED BY <3>1, <3>3, <3>4 DEF Putting
  <2> QED BY <2>3, <2>4
<1>6. ASSUME NEW a \in Clients, PutWrites(a) PROVE LoneInv'
  <2> DEFINE s == IF call[a].next = Chunks THEN "put_rename" ELSE "put_write"
             r == [call[a] EXCEPT !.next = @ + 1, !.stage = s]
             p == <<call[a].digest, call[a].next>>
  <2>a. /\ call[a] \in Calls /\ s \in {"put_write", "put_rename"} /\ Putting(a)
        /\ call[a].next \in 1 .. Chunks /\ call[a].file \in Files
    BY <1>6 DEF PutWrites, TypeOK, Calls, Putting, Shape, HasShape
  <2>b. call' = [call EXCEPT ![a] = r] /\ lone' = lone /\ temp' = temp
    BY <1>6 DEF PutWrites, TypeOK
  <2> HIDE DEF s
  <2>1. /\ r.stage \in {"put_write", "put_rename"} /\ r.digest = call[a].digest
        /\ r.file = call[a].file /\ r.next = call[a].next + 1
        /\ call' = [call EXCEPT ![a] = r] /\ Putting(a) /\ lone' = lone /\ temp' = temp
        /\ call[a].next \in 1 .. Chunks /\ call[a].file \in Files
    BY <2>a, <2>b DEF Calls
  <2>2. /\ \A f \in Files : content[f] \subseteq content'[f]
        /\ p \in content'[call[a].file]
    BY <1>6, <2>1 DEF PutWrites, TypeOK
  <2>3. r \in Calls
    <3>1. call'[a] = r
      BY <2>1 DEF TypeOK
    <3> QED BY <1>6, <3>1, PutWritesType DEF TypeOK
  <2> HIDE DEF r, p
  <2> SUFFICES ASSUME NEW c \in lone, Putting(c)' PROVE LonePut(c)'
    BY <2>1 DEF LoneInv
  <2>4. CASE c = a
    <3>1. LonePut(a)
      BY <2>1, <2>4 DEF LoneInv
    <3>2. call'[a] = r
      BY <2>1 DEF TypeOK
    <3>3. \A i \in 1 .. r.next - 1 : <<call[a].digest, i>> \in content'[call[a].file]
      <4> SUFFICES ASSUME NEW i \in 1 .. r.next - 1
                   PROVE  <<call[a].digest, i>> \in content'[call[a].file]
        OBVIOUS
      <4>1. CASE i = call[a].next
        BY <2>2, <4>1 DEF p
      <4>2. CASE i # call[a].next
        <5>1. i \in 1 .. call[a].next - 1
          BY <2>1, <4>2
        <5> QED BY <1>6, <2>1, <2>2, <3>1, <5>1 DEF LonePut, PutWrites
      <4> QED BY <4>1, <4>2
    <3>4. temp'[call[a].digest] = call[a].file
      BY <1>6, <2>1, <3>1 DEF LonePut, PutWrites
    <3>5. \A x \in Clients : Putting(x)' /\ call'[x].digest = call[a].digest => x = a
      BY <2>1, <3>1 DEF LonePut, Putting, TypeOK
    <3> QED BY <2>1, <2>4, <3>2, <3>3, <3>4, <3>5 DEF LonePut
  <2>5. CASE c # a
    <3>1. Putting(c) /\ c \in Clients
      BY <2>1, <2>5 DEF TypeOK, Putting
    <3>2. CASE call[c].stage = "put_open"
      BY <2>1, <2>5, <3>1, <3>2 DEF LoneInv, LonePut, Putting, TypeOK
    <3>3. CASE call[c].stage # "put_open"
      <4>1. call[c].file \in Files
        BY <3>1, <3>3 DEF Putting, Shape, HasShape
      <4> QED BY <2>1, <2>2, <2>3, <2>5, <3>1, <4>1, LoneOthers
    <3> QED BY <3>2, <3>3
  <2> QED BY <2>4, <2>5
<1>7. ASSUME NEW a \in Clients, PutRenames(a) PROVE LoneInv'
  <2>1. \A e \in Digests : temp'[e] # temp[e] => Putting(a) /\ call[a].digest = e
    BY <1>7 DEF PutRenames, Putting, TypeOK
  <2> QED BY <1>3, <1>7, <2>1 DEF PutRenames, Return
<1>8. ASSUME NEW a \in Clients, CallFails(a) \/ GetChecks(a) PROVE LoneInv'
  BY <1>3, <1>8 DEF CallFails, GetChecks, Return
<1>9. ASSUME NEW a \in Clients, GetReads(a) PROVE LoneInv'
  <2>1. /\ call'[a] \in Calls /\ call'[a].stage = "get_read"
        /\ call' = [call EXCEPT ![a] = call'[a]]
    BY <1>9, GetReadsType DEF GetReads, TypeOK, Calls
  <2> QED BY <1>3, <1>9, <2>1 DEF GetReads
<1>10. ASSUME NEW a \in Clients, NEW d \in Digests, PutTooBig(a, d) \/ Delete(a, d)
       PROVE  LoneInv'
  BY <1>3, <1>10 DEF PutTooBig, Delete, Return
<1>11. ASSUME NEW a \in Clients, NEW d \in Digests, GetOpens(a, d) PROVE LoneInv'
  <2>1. CASE blob[d] = None
    BY <1>3, <1>11, <2>1 DEF GetOpens, Return
  <2>2. CASE blob[d] # None
    <3> DEFINE r == [Idle EXCEPT !.stage = "get_read", !.digest = d, !.file = blob[d]]
    <3>1. r \in Calls /\ r.stage = "get_read" /\ call' = [call EXCEPT ![a] = r]
      BY <1>11, <2>2 DEF GetOpens, Calls, TypeOK
    <3> HIDE DEF r
    <3> QED BY <1>3, <1>11, <3>1 DEF GetOpens
  <2> QED BY <2>1, <2>2
<1> QED BY <1>1, <1>2, <1>4, <1>5, <1>6, <1>7, <1>8, <1>9, <1>10, <1>11 DEF Next

\* A lone put that is about to rename its temp file has written all of it.
LEMMA LoneWhole ==
    ASSUME TypeOK, Shape, FileInv, LoneInv, NEW c \in lone, call[c].stage = "put_rename"
    PROVE  /\ temp[call[c].digest] = call[c].file
           /\ content[call[c].file] = Pieces(call[c].digest)
<1> USE ConstantsAssumption
<1>1. /\ c \in Clients /\ LonePut(c) /\ call[c].file \in Files /\ call[c].digest \in Digests
      /\ call[c].next = Chunks + 1
  BY DEF TypeOK, LoneInv, Putting, Shape, HasShape
<1>2. content[call[c].file] \subseteq Pieces(call[c].digest)
  BY <1>1, NameOf DEF FileInv
<1>3. \A i \in 1 .. Chunks : <<call[c].digest, i>> \in content[call[c].file]
  BY <1>1 DEF LonePut
<1>4. Pieces(call[c].digest) \subseteq content[call[c].file]
  BY <1>3 DEF Pieces
<1> QED BY <1>1, <1>2, <1>4 DEF LonePut

\* A put nobody overlapped that answers ok has left the whole blob behind,
\* whatever was at the blob's path or at the temp path before.
THEOREM LonePutsHeal == Spec => LonePutHeals
<1> DEFINE I == TypeOK /\ Shape /\ FileInv /\ LoneInv
<1>1. Init => I
  BY InitInv DEF IInv
<1>2. I /\ [Next]_vars => I'
  BY TypeStep, FileStep, LoneStep
<1>3. ASSUME I, Next, NEW c \in Clients, Putting(c), c \in lone, answer'[c] # answer[c],
             answer'[c] = "ok"
      PROVE  /\ blob'[call[c].digest] # None
             /\ content'[blob'[call[c].digest]] = Pieces(call[c].digest)
  <2> USE DEF Putting
  <2>1. PutRenames(c)
    <3>1. \A a \in Clients : PutRenames(a) => a = c
      BY <1>3 DEF PutRenames, Return, TypeOK
    <3>2. ASSUME NEW a \in Clients PROVE ~(PutOpensTemp(a) \/ PutWrites(a) \/ GetReads(a))
      BY <1>3 DEF PutOpensTemp, PutWrites, GetReads
    <3>3. ASSUME NEW a \in Clients PROVE ~(CallFails(a) \/ GetChecks(a))
      BY <1>3 DEF CallFails, GetChecks, Return, TypeOK
    <3>4. ASSUME NEW a \in Clients, NEW d \in Digests
          PROVE  ~(PutTooBig(a, d) \/ PutBegins(a, d) \/ GetOpens(a, d) \/ Delete(a, d))
      BY <1>3 DEF PutTooBig, PutBegins, GetOpens, Delete, Return, TypeOK
    <3>5. ~Crash
      BY <1>3 DEF Crash
    <3> QED BY <1>3, <3>1, <3>2, <3>3, <3>4, <3>5 DEF Next
  <2>2. /\ temp[call[c].digest] = call[c].file /\ call[c].digest \in Digests
        /\ call[c].file # None /\ content[call[c].file] = Pieces(call[c].digest)
    BY <1>3, <2>1, LoneWhole, ConstantsAssumption DEF PutRenames, Shape, HasShape
  <2> QED BY <1>3, <2>1, <2>2 DEF PutRenames, TypeOK
<1>4. I /\ [Next]_vars =>
        [\A c \in Clients :
           Putting(c) /\ c \in lone /\ answer'[c] # answer[c] /\ answer'[c] = "ok"
             => /\ blob'[call[c].digest] # None
                /\ content'[blob'[call[c].digest]] = Pieces(call[c].digest)]_vars
  BY <1>3
<1> QED BY <1>1, <1>2, <1>4, PTL DEF Spec, LonePutHeals

-----------------------------------------------------------------------------
(* With exclusive puts the store implements ContentStore.                  *)

\* A put with write access to a file is the only one that can see it.
LEMMA WholeStep ==
    ASSUME ExclusivePuts, TypeOK, Shape, FileInv, LoneInv, WholeInv, [Next]_vars
    PROVE  WholeInv'
<1> USE IdleType, ConstantsAssumption DEF Putting
<1>1. \A a \in Clients : PutRenames(a) => temp[call[a].digest] = call[a].file
           /\ content[call[a].file] = Pieces(call[a].digest)
  BY LoneWhole DEF PutRenames, WholeInv
<1>2. CASE UNCHANGED vars
  BY <1>2 DEF vars, WholeInv, Pieces
<1>3. CASE Crash
  BY <1>3 DEF Crash, WholeInv, Pieces, TypeOK
<1>4. ASSUME \A x \in Clients : call'[x] \in {call[x], Idle}, content' = content, lone' = lone,
             \A d \in Digests : temp'[d] \in {temp[d], None},
             \A d \in Digests : blob'[d] # None /\ blob'[d] # blob[d]
                                  => content[blob'[d]] = Pieces(d)
      PROVE  WholeInv'
  <2>2. \A x \in Clients : Putting(x)' => x \in lone'
    BY <1>4 DEF WholeInv
  <2>3. \A d \in Digests : blob'[d] # None => content'[blob'[d]] = Pieces(d)
    BY <1>4 DEF WholeInv
  <2>4. ASSUME NEW x \in Clients, call'[x].stage = "get_read"
        PROVE  /\ content'[call'[x].file] = Pieces(call'[x].digest)
               /\ call'[x].file # temp'[call'[x].digest]
               /\ call'[x].seen = {call'[x].digest} \X (1 .. call'[x].next - 1)
    <3>1. call'[x] = call[x] /\ call[x].file \in Files /\ call[x].digest \in Digests
      BY <1>4, <2>4 DEF Shape, HasShape
    <3> QED BY <1>4, <2>4, <3>1 DEF WholeInv
  <2> QED BY <2>2, <2>3, <2>4 DEF WholeInv, Pieces
<1>5. ASSUME NEW a \in Clients, PutRenames(a) PROVE WholeInv'
  <2> DEFINE d == call[a].digest
  <2>1. d \in Digests /\ call[a].file \in Files /\ content' = content /\ lone' = lone
    BY <1>5 DEF PutRenames, Shape, HasShape
  <2>2. /\ temp[d] = call[a].file /\ content[temp[d]] = Pieces(d) /\ temp[d] \in Files
    BY <1>1, <1>5, <2>1
  <2>3. /\ blob' = [blob EXCEPT ![d] = temp[d]] /\ temp' = [temp EXCEPT ![d] = None]
        /\ Return(a, "ok")
    BY <1>5, <2>2 DEF PutRenames
  <2>6. \A x \in Clients : call'[x] \in {call[x], Idle}
    BY <2>3 DEF Return, TypeOK
  <2>4. ASSUME NEW e \in Digests, blob'[e] # None, blob'[e] # blob[e]
        PROVE  content[blob'[e]] = Pieces(e)
    <3>1. e = d /\ blob'[e] = temp[d]
      BY <2>1, <2>3, <2>4 DEF TypeOK
    <3> QED BY <2>2, <3>1
  <2>5. \A e \in Digests : temp'[e] \in {temp[e], None}
    BY <2>3 DEF TypeOK
  <2> QED BY <1>4, <2>1, <2>4, <2>5, <2>6
<1>6. ASSUME NEW a \in Clients, Putting(a), a \in lone, lone' = lone, blob' = blob,
             call'[a].stage # "get_read", \A x \in Clients : x # a => call'[x] = call[x],
             NEW f \in Files, \A g \in Files : g # f => content'[g] = content[g],
             \A d \in Digests : temp'[d] \in {temp[d], f},
             \A d \in Digests : blob[d] # f,
             \A x \in Clients : call[x].stage = "get_read" => call[x].file # f
      PROVE  WholeInv'
  <2>1. \A x \in Clients : Putting(x)' => x \in lone'
    BY <1>6 DEF WholeInv
  <2>2. \A d \in Digests : blob'[d] # None => content'[blob'[d]] = Pieces(d)
    BY <1>6 DEF WholeInv, TypeOK
  <2>3. ASSUME NEW x \in Clients, call'[x].stage = "get_read"
        PROVE  /\ content'[call'[x].file] = Pieces(call'[x].digest)
               /\ call'[x].file # temp'[call'[x].digest]
               /\ call'[x].seen = {call'[x].digest} \X (1 .. call'[x].next - 1)
    <3>1. call'[x] = call[x] /\ call[x].file \in Files \ {f} /\ call[x].digest \in Digests
      BY <1>6, <2>3 DEF Shape, HasShape
    <3>2. /\ content[call[x].file] = Pieces(call[x].digest)
          /\ call[x].file # temp[call[x].digest]
          /\ call[x].seen = {call[x].digest} \X (1 .. call[x].next - 1)
      BY <2>3, <3>1 DEF WholeInv
    <3>3. content'[call[x].file] = content[call[x].file]
      BY <1>6, <3>1
    <3>4. temp'[call[x].digest] \in {temp[call[x].digest], f}
      BY <1>6, <3>1
    <3> QED BY <3>1, <3>2, <3>3, <3>4
  <2> QED BY <2>1, <2>2, <2>3 DEF WholeInv, Pieces
<1>7. ASSUME NEW d \in Digests, temp[d] \in Files
      PROVE  /\ \A e \in Digests : blob[e] # temp[d]
             /\ \A x \in Clients : call[x].stage = "get_read" => call[x].file # temp[d]
  <2>1. Named(d, temp[d])
    BY <1>7 DEF Named
  <2>2. ASSUME NEW e \in Digests, blob[e] = temp[d] PROVE FALSE
    <3>1. Named(e, temp[d])
      BY <1>7, <2>2 DEF Named
    <3> QED BY <1>7, <2>1, <2>2, <3>1 DEF FileInv
  <2>3. ASSUME NEW x \in Clients, call[x].stage = "get_read", call[x].file = temp[d] PROVE FALSE
    <3>1. Named(call[x].digest, temp[d]) /\ call[x].digest \in Digests
      BY <2>3, NameOf DEF Shape, HasShape
    <3>2. call[x].digest = d
      BY <1>7, <2>1, <3>1 DEF FileInv
    <3> QED BY <2>3, <3>2 DEF WholeInv
  <2> QED BY <2>2, <2>3
<1>8. ASSUME NEW a \in Clients, PutOpensTemp(a) PROVE WholeInv'
  <2> DEFINE d == call[a].digest
  <2>1. d \in Digests /\ Putting(a) /\ a \in lone
    BY <1>8 DEF PutOpensTemp, Shape, HasShape, WholeInv
  <2>2. ASSUME NEW f \in Files, Opens(a, f)
        PROVE  /\ call'[a].stage = "put_write" /\ \A x \in Clients : x # a => call'[x] = call[x]
               /\ \A g \in Files : g # f => content'[g] = content[g]
    BY <2>2 DEF Opens, TypeOK, Calls
  <2>3. CASE temp[d] # None
    <3>1. temp[d] \in Files /\ Opens(a, temp[d]) /\ temp' = temp
      BY <1>8, <2>1, <2>3 DEF PutOpensTemp, TypeOK
    <3> QED BY <1>6, <1>7, <1>8, <2>1, <2>2, <3>1 DEF PutOpensTemp
  <2>4. CASE temp[d] = None
    <3>1. PICK f \in FreshFiles : Opens(a, f) /\ temp' = [temp EXCEPT ![d] = f]
      BY <1>8, <2>4 DEF PutOpensTemp
    <3>2. /\ f \in Files /\ \A e \in Digests : blob[e] # f
          /\ \A x \in Clients : call[x].file # f
      BY <3>1 DEF FreshFiles, Used
    <3>3. \A e \in Digests : temp'[e] \in {temp[e], f}
      BY <3>1 DEF TypeOK
    <3> QED BY <1>6, <1>8, <2>1, <2>2, <3>1, <3>2, <3>3 DEF PutOpensTemp
  <2> QED BY <2>3, <2>4
<1>9. ASSUME NEW a \in Clients, PutWrites(a) PROVE WholeInv'
  <2>1. /\ Putting(a) /\ a \in lone /\ call[a].digest \in Digests /\ call[a].file \in Files
        /\ temp[call[a].digest] = call[a].file
    BY <1>9 DEF PutWrites, Shape, HasShape, WholeInv, LoneInv, LonePut
  <2>2. /\ call'[a].stage # "get_read" /\ \A x \in Clients : x # a => call'[x] = call[x]
        /\ \A g \in Files : g # call[a].file => content'[g] = content[g]
    BY <1>9 DEF PutWrites, TypeOK, Calls
  <2>3. temp' = temp /\ blob' = blob /\ lone' = lone
    BY <1>9 DEF PutWrites
  <2>4. /\ \A e \in Digests : blob[e] # call[a].file
        /\ \A x \in Clients : call[x].stage = "get_read" => call[x].file # call[a].file
    BY <1>7, <2>1
  <2>5. \A e \in Digests : temp'[e] \in {temp[e], call[a].file}
    BY <2>3
  <2> QED BY <1>6, <2>1, <2>2, <2>3, <2>4, <2>5
<1>10. ASSUME NEW a \in Clients, CallFails(a) \/ GetChecks(a) PROVE WholeInv'
  <2>1. /\ \A x \in Clients : call'[x] \in {call[x], Idle}
        /\ temp' = temp /\ blob' = blob /\ content' = content /\ lone' = lone
    BY <1>10 DEF CallFails, GetChecks, Return, TypeOK
  <2> QED BY <1>4, <2>1
<1>11. ASSUME NEW a \in Clients, NEW d \in Digests, PutTooBig(a, d) \/ Delete(a, d)
       PROVE  WholeInv'
  <2>1. /\ \A x \in Clients : call'[x] \in {call[x], Idle}
        /\ temp' = temp /\ content' = content /\ lone' = lone
        /\ \A e \in Digests : blob'[e] \in {blob[e], None}
    BY <1>11 DEF PutTooBig, Delete, Return, TypeOK
  <2> QED BY <1>4, <2>1
<1>12. ASSUME NEW a \in Clients, NEW d \in Digests, PutBegins(a, d) PROVE WholeInv'
  <2> DEFINE r == [Idle EXCEPT !.stage = "put_open", !.digest = d]
  <2>1. r.stage = "put_open" /\ call' = [call EXCEPT ![a] = r] /\ lone' = lone \cup {a}
    BY <1>12 DEF PutBegins, Calls
  <2> HIDE DEF r
  <2>2. \A x \in Clients : Putting(x)' => x \in lone'
    BY <2>1 DEF WholeInv, TypeOK
  <2>3. \A x \in Clients : call'[x].stage = "get_read" => call'[x] = call[x]
    BY <2>1 DEF TypeOK
  <2> QED BY <1>12, <2>2, <2>3 DEF PutBegins, WholeInv, Pieces
<1>13. ASSUME NEW a \in Clients, NEW d \in Digests, GetOpens(a, d) PROVE WholeInv'
  <2>1. CASE blob[d] = None
    <3>1. /\ \A x \in Clients : call'[x] \in {call[x], Idle}
          /\ temp' = temp /\ blob' = blob /\ content' = content /\ lone' = lone
      BY <1>13, <2>1 DEF GetOpens, Return, TypeOK
    <3> QED BY <1>4, <3>1
  <2>2. CASE blob[d] # None
    <3> DEFINE r == [Idle EXCEPT !.stage = "get_read", !.digest = d, !.file = blob[d]]
    <3>1. /\ r.stage = "get_read" /\ r.digest = d /\ r.file = blob[d] /\ r.next = 1
          /\ r.seen = {} /\ call' = [call EXCEPT ![a] = r]
      <4>1. Idle.seen = {}
        BY DEF Idle
      <4> QED BY <1>13, <2>2, <4>1 DEF GetOpens, Calls
    <3> HIDE DEF r
    <3>2. \A x \in Clients : x # a => call'[x] = call[x]
      BY <3>1 DEF TypeOK
    <3>3. call'[a] = r /\ blob[d] \in Files
      BY <2>2, <3>1 DEF TypeOK
    <3>4. /\ content[r.file] = Pieces(r.digest) /\ r.file # temp[r.digest]
          /\ r.seen = {r.digest} \X (1 .. r.next - 1)
      BY <2>2, <3>1, <3>3 DEF WholeInv, FileInv
    <3>5. temp' = temp /\ blob' = blob /\ content' = content /\ lone' = lone
      BY <1>13 DEF GetOpens
    <3>6. \A x \in Clients : Putting(x)' => x \in lone'
      BY <3>1, <3>2, <3>3, <3>5 DEF WholeInv
    <3>7. ASSUME NEW x \in Clients, call'[x].stage = "get_read"
          PROVE  /\ content'[call'[x].file] = Pieces(call'[x].digest)
                 /\ call'[x].file # temp'[call'[x].digest]
                 /\ call'[x].seen = {call'[x].digest} \X (1 .. call'[x].next - 1)
      BY <3>2, <3>3, <3>4, <3>5, <3>7 DEF WholeInv
    <3> QED BY <3>5, <3>6, <3>7 DEF WholeInv, Pieces
  <2> QED BY <2>1, <2>2
<1>14. ASSUME NEW a \in Clients, GetReads(a) PROVE WholeInv'
  <2> DEFINE d == call[a].digest
             more == {p \in content[call[a].file] : p[2] = call[a].next}
  <2>1. /\ call[a] \in Calls /\ call[a].stage = "get_read" /\ call[a].next \in 1 .. Chunks
        /\ d \in Digests
    BY <1>14 DEF GetReads, TypeOK, Calls, Shape, HasShape
  <2>2. /\ call'[a].stage = "get_read" /\ call'[a].digest = d /\ call'[a].file = call[a].file
        /\ call'[a].next = call[a].next + 1 /\ call'[a].seen = call[a].seen \cup more
    BY <1>14, <2>1 DEF GetReads, TypeOK, Calls
  <2>3. /\ \A x \in Clients : x # a => call'[x] = call[x]
        /\ temp' = temp /\ blob' = blob /\ content' = content /\ lone' = lone
    BY <1>14 DEF GetReads, TypeOK
  <2>4. more = {<<d, call[a].next>>}
    BY <2>1 DEF WholeInv, Pieces
  <2>5. call'[a].seen = {d} \X (1 .. call'[a].next - 1)
    <3>1. call[a].seen = {d} \X (1 .. call[a].next - 1)
      BY <2>1 DEF WholeInv
    <3> QED BY <2>1, <2>2, <2>4, <3>1
  <2>6. \A x \in Clients : Putting(x)' => x \in lone'
    BY <2>2, <2>3 DEF WholeInv
  <2>7. ASSUME NEW x \in Clients, call'[x].stage = "get_read"
        PROVE  /\ content'[call'[x].file] = Pieces(call'[x].digest)
               /\ call'[x].file # temp'[call'[x].digest]
               /\ call'[x].seen = {call'[x].digest} \X (1 .. call'[x].next - 1)
    BY <2>1, <2>2, <2>3, <2>5, <2>7 DEF WholeInv
  <2> QED BY <2>3, <2>6, <2>7 DEF WholeInv, Pieces
<1> QED BY <1>2, <1>3, <1>5, <1>8, <1>9, <1>10, <1>11, <1>12, <1>13, <1>14 DEF Next

LEMMA InductiveStep == IInv /\ [Next]_vars => IInv'
BY TypeStep, FileStep, LoneStep, WholeStep DEF IInv

Stored == {d \in Digests : blob[d] # None}
Getting == [c \in Clients |-> IF call[c].stage = "get_read" THEN "ok" ELSE "idle"]

\* A step inside a call of one client, seen from outside.
LEMMA GettingOf ==
    ASSUME TypeOK, NEW c \in Clients, \A x \in Clients : x # c => call'[x] = call[x]
    PROVE  Getting' = [Getting EXCEPT
                         ![c] = IF call'[c].stage = "get_read" THEN "ok" ELSE "idle"]
BY DEF Getting

LEMMA RefineStep == ExclusivePuts /\ IInv /\ [Next]_vars => [Abstract!Next]_(Abstract!vars)
<1> SUFFICES ASSUME ExclusivePuts, IInv, [Next]_vars
             PROVE  Abstract!Next \/ UNCHANGED <<Stored, Getting, answer>>
  BY DEF Abstract!vars, Stored, Getting
<1> USE IdleType
<1>0. TypeOK /\ Shape /\ FileInv /\ LoneInv /\ WholeInv
  BY DEF IInv
<1>1. CASE UNCHANGED vars
  BY <1>1 DEF vars, Stored, Getting
<1>2. CASE Crash
  <2>1. Stored' = Stored /\ Getting' = [c \in Clients |-> "idle"]
        /\ answer' = [c \in Clients |-> "none"]
    BY <1>2 DEF Crash, Stored, Getting
  <2>2. Abstract!Crash
    BY <2>1 DEF Abstract!Crash, Stored, Getting
  <2> QED BY <2>2 DEF Abstract!Next
<1>3. ASSUME NEW c \in Clients, Return(c, "io_error"), blob' = blob
      PROVE  Abstract!Next
  <2>1. Stored' = Stored /\ answer' = [answer EXCEPT ![c] = "io_error"]
    BY <1>3 DEF Stored, Return
  <2>2. call'[c].stage = "idle" /\ \A x \in Clients : x # c => call'[x] = call[x]
    BY <1>3, <1>0 DEF Return, TypeOK
  <2>3. Getting' = [Getting EXCEPT ![c] = "idle"]
    BY <1>0, <2>2, GettingOf
  <2>4. Abstract!Fails(c)
    BY <2>1, <2>3 DEF Abstract!Fails, Abstract!Reply, Stored, Getting
  <2> QED BY <2>4 DEF Abstract!Next
<1>4. ASSUME NEW c \in Clients, PutOpensTemp(c) \/ PutWrites(c) \/ GetReads(c)
      PROVE  UNCHANGED <<Stored, Getting, answer>>
  <2>1. blob' = blob /\ answer' = answer
    BY <1>4 DEF PutOpensTemp, PutWrites, GetReads
  <2>2. \A x \in Clients : call'[x].stage = "get_read" <=> call[x].stage = "get_read"
    BY <1>4, <1>0 DEF PutOpensTemp, PutWrites, GetReads, Opens, TypeOK, Calls
  <2> QED BY <2>1, <2>2 DEF Stored, Getting
<1>5. ASSUME NEW c \in Clients, CallFails(c) PROVE Abstract!Next
  BY <1>3, <1>5 DEF CallFails
<1>6. ASSUME NEW c \in Clients, PutRenames(c) PROVE Abstract!Next
  <2>1. PICK d \in Digests : d = call[c].digest /\ call[c].stage = "put_rename"
    BY <1>6, <1>0 DEF PutRenames, Shape, HasShape
  <2>2. CASE temp[d] = None
    BY <1>3, <1>6, <2>1, <2>2 DEF PutRenames
  <2>3. CASE temp[d] # None
    <3>1. blob' = [blob EXCEPT ![d] = temp[d]] /\ Return(c, "ok")
      BY <1>6, <2>1, <2>3 DEF PutRenames
    <3>2. Stored' = Stored \cup {d}
      BY <1>0, <2>1, <2>3, <3>1 DEF Stored, TypeOK
    <3>3. Getting' = Getting /\ Getting[c] = "idle"
      BY <1>0, <2>1, <3>1 DEF Getting, Return, TypeOK
    <3>4. answer' = [answer EXCEPT ![c] = "ok"]
      BY <3>1 DEF Return
    <3>5. Abstract!Put(c, d)
      BY <3>2, <3>3, <3>4 DEF Abstract!Put, Abstract!Reply, Stored, Getting
    <3> QED BY <3>5 DEF Abstract!Next
  <2> QED BY <2>2, <2>3
<1>7. ASSUME NEW c \in Clients, GetChecks(c) PROVE Abstract!Next
  <2>1. call[c].stage = "get_read" /\ call[c].next = Chunks + 1
    BY <1>7, <1>0, ConstantsAssumption DEF GetChecks, TypeOK, Calls
  <2>2. call[c].seen = Pieces(call[c].digest)
    BY <1>0, <2>1, ConstantsAssumption DEF WholeInv, Pieces
  <2>3. Return(c, "ok") /\ blob' = blob
    BY <1>7, <2>2 DEF GetChecks
  <2>4. Stored' = Stored /\ answer' = [answer EXCEPT ![c] = "ok"]
    BY <2>3 DEF Stored, Return
  <2>5. Getting[c] = "ok" /\ Getting' = [Getting EXCEPT ![c] = "idle"]
    BY <1>0, <2>1, <2>3 DEF Getting, Return, TypeOK
  <2>6. Abstract!GetReturns(c)
    BY <2>4, <2>5 DEF Abstract!GetReturns, Abstract!Reply, Stored, Getting
  <2> QED BY <2>6 DEF Abstract!Next
<1>8. ASSUME NEW c \in Clients, NEW d \in Digests, PutTooBig(c, d) PROVE Abstract!Next
  BY <1>3, <1>8 DEF PutTooBig
<1>9. ASSUME NEW c \in Clients, NEW d \in Digests, PutBegins(c, d) PROVE Abstract!Next
  <2> DEFINE r == [Idle EXCEPT !.stage = "put_open", !.digest = d]
  <2>1. r.stage = "put_open" /\ call' = [call EXCEPT ![c] = r]
    BY <1>9 DEF PutBegins, Calls
  <2> HIDE DEF r
  <2>2. Stored' = Stored /\ answer' = [answer EXCEPT ![c] = "none"]
    BY <1>9 DEF PutBegins, Stored
  <2>3. Getting' = [Getting EXCEPT ![c] = "idle"]
    BY <1>0, <2>1, GettingOf DEF TypeOK
  <2>4. Abstract!Forget(c)
    BY <2>2, <2>3 DEF Abstract!Forget, Abstract!Reply, Stored, Getting
  <2> QED BY <2>4 DEF Abstract!Next
<1>10. ASSUME NEW c \in Clients, NEW d \in Digests, GetOpens(c, d) PROVE Abstract!Next
  <2>1. Stored' = Stored /\ Getting[c] = "idle"
    BY <1>10 DEF GetOpens, Stored, Getting
  <2>2. CASE blob[d] = None
    <3>1. Return(c, "not_found") /\ d \notin Stored
      BY <1>10, <2>2 DEF GetOpens, Stored
    <3>2. Getting' = Getting /\ answer' = [answer EXCEPT ![c] = "not_found"]
      BY <1>0, <1>10, <3>1 DEF Getting, Return, TypeOK, GetOpens
    <3>3. Abstract!LookUp(c, d)
      BY <2>1, <3>1, <3>2 DEF Abstract!LookUp, Abstract!Reply, Stored, Getting
    <3> QED BY <3>3 DEF Abstract!Next
  <2>3. CASE blob[d] # None
    <3> DEFINE r == [Idle EXCEPT !.stage = "get_read", !.digest = d, !.file = blob[d]]
    <3>1. r.stage = "get_read" /\ call' = [call EXCEPT ![c] = r] /\ d \in Stored
      BY <1>10, <2>3 DEF GetOpens, Calls, Stored
    <3> HIDE DEF r
    <3>2. Getting' = [Getting EXCEPT ![c] = "ok"]
      BY <1>0, <3>1, GettingOf DEF TypeOK
    <3>3. answer' = [answer EXCEPT ![c] = "none"]
      BY <1>10, <2>3 DEF GetOpens
    <3>4. Abstract!LookUp(c, d)
      BY <2>1, <3>1, <3>2, <3>3 DEF Abstract!LookUp, Abstract!Reply, Stored, Getting
    <3> QED BY <3>4 DEF Abstract!Next
  <2> QED BY <2>2, <2>3
<1>11. ASSUME NEW c \in Clients, NEW d \in Digests, Delete(c, d) PROVE Abstract!Next
  <2>1. Stored' = Stored \ {d} /\ (blob[d] = None <=> d \notin Stored)
    BY <1>0, <1>11 DEF Delete, Stored, TypeOK
  <2>2. Getting' = Getting /\ Getting[c] = "idle"
    BY <1>0, <1>11 DEF Delete, Getting, Return, TypeOK
  <2>3. answer' = [answer EXCEPT ![c] = IF d \in Stored THEN "ok" ELSE "not_found"]
    BY <1>11, <2>1 DEF Delete, Return
  <2>4. Abstract!Delete(c, d)
    BY <2>1, <2>2, <2>3 DEF Abstract!Delete, Abstract!Reply, Stored, Getting
  <2> QED BY <2>4 DEF Abstract!Next
<1> QED BY <1>1, <1>2, <1>4, <1>5, <1>6, <1>7, <1>8, <1>9, <1>10, <1>11 DEF Next

\* As long as no blob is put twice at a time, the file store implements the
\* content store that BlobBackend promises, whatever crashes and write errors.
THEOREM ContentStoreImplemented == ExclusivePuts /\ Spec => ImplementsContentStore
<1>1. Init => Abstract!Init
  BY IdleType DEF Init, Abstract!Init
<1>2. CASE ExclusivePuts
  <2>1. IInv /\ [Next]_vars => [Abstract!Next]_(Abstract!vars)
    BY <1>2, RefineStep
  <2> QED BY <1>1, <2>1, InitInv, InductiveStep, PTL
          DEF Spec, ImplementsContentStore, Abstract!Spec
<1>3. CASE ~ExclusivePuts
  BY <1>3
<1> QED BY <1>2, <1>3
=============================================================================
