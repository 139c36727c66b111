# Verification of the component orchestrator

This directory holds TLA+ models of the repository's Rust code, configurations
that check them with TLC, and proofs that TLAPS checks. Every definition is
translated from the source; `PROJECT.json` maps each to the lines it stands for.

## 1. The system

A *plan* names WebAssembly components by digest and binds their imports. A host
process validates it, composes it into one artifact (or links its components at
run time), runs it under a policy, caches the result and appends an audit record.
Everything persistent is files under one root directory, and several threads and
processes may share that directory.

| Component (source) | State it keeps | Operations | What makes it hard | What makes it correct |
|---|---|---|---|---|
| secret manager (`compose-core/secrets`) | backends and tokens, each under a mutex; ttl | resolve, get_value, get_metadata, revoke, cleanup, register | two mutexes taken in two orders; overflow of `now + ttl`; panics poison mutexes | revocation is final, a value needs a live token, mutexes are released |
| blob store (`compose-core/blobs.rs`) | files by digest, one temp file per digest | put, get, delete | overlapping puts share the temp file; crashes, failing system calls; get reads while others replace | content store: what is stored reads back whole |
| trust store (`compose-core/trust.rs`) | trusted set and its files; verification cache; mutex of the backends | trust, untrust, verify, clear_cache | three places that must agree; clock set back; races | fresh hits, rejections never cached, files say what memory says |
| exec handler (`hosts/wasmtime/exec.rs`) | result cache (files), audit log | run_cli in three forms | checks before a cache lookup, caches that outlive host and policy, torn files | no result crosses tenants, trust withdrawn stays withdrawn, a record that is appended tells the truth, the emit cache names whole artifacts |
| emit handler (`compose-core/emit.rs`) | emit cache (files) | compose, by a graph of plugs or by a wrapper | wires by name, the plan binds by component; two ways that disagree | an import gets the provider its binding names, explicit exports their source |
| plan validator (`compose-core/plan.rs`) | visited, rec_stack and the call stack of one search | validate, validate_structure | recursive search over arbitrary graphs, any order of bindings | an accepted plan can be instantiated providers first |
| compile cache (`compose-core/compile_cache.rs`) | framed artifacts and alias blobs in a shared backend, a secret per host | store, load | two puts per store, stores of several hosts that overlap, stale aliases, other users of the backend | only own artifacts are loaded, and what was stored is found |
| fetcher (`compose-fetcher`) | cache directory, one temp file per digest | fetch | shared temp file, hits not hashed again, deaths and failing writes | returned bytes are all the bytes of the pinned digest |
| runner and invoker (`hosts/wasmtime/compose_host.rs`, `dynlink.rs`) | instances with fuel and deadlines, an epoch thread | instantiate, invoke, drop, run_cli | budgets set once and spent by all calls; ticks that are late or missing; products and sums near 2^64 | no interrupt before its time and none missing after it, no budget charged that was not spent |
| CBOR values (`hosts/wasmtime/cbor_val.rs`) | none | decode arguments, encode results | the encoding of a list depends on its elements; nested options | a value read back is the value written, and has its type |
| pkcs11 host adapter (`pkcs11-host-adapter`) | the native module, session, operation and object resources of all guests, provider registry | sessions, multipart operations, searches, logins, objects | one native operation per session and kind; late drops; calls after failures; logins of the whole application; numbers issued again, by the same module or another one | exactly which calls orphan, cut off or mix operations, and that no others do; no guest reaches another's objects |
| pkcs11 secret backend (`hosts/wasmtime/pkcs11_backend.rs`) | an adapter context | resolve, list | nine calls in a row, any of which may fail, beside guests | only an error, one that is ignored included, leaves a session or a login behind; "not found" is true |
| dynlink bridge (`hosts/wasmtime/dynlink.rs`) | provider instances of one guest | resolve, invoke | gates in an order; limits | see exec handler and runner |
| rdf (`compose-rdf`) | none | plan to triples and back | a store returns triples in an order of its own | a plan is read back as it was, or refused |
| policy enforcer (`compose-core/policy.rs`) | none | filter_capabilities, enforce_limits | none by itself | limits never exceed the host's |
| audit, metrics, events, attestation | vectors or a log under one mutex | append, list, clear | each operation is one critical section | see exec handler for which records a call leaves |
| http handler, pkcs11 signer, composectl, plan store, orchestrator component, trust backends, conformance, browser host, stubs | little or none | | pure, I/O, one critical section, or tests | |

Interactions: exec calls emit, emit calls the validator and the blob store; exec
asks the policy, the trust store and the blob store, then reads and writes its two
cache directories and appends to the audit log. The compile cache lives in a blob
backend that others share. The secret manager calls its backends with a mutex held;
one of them is the PKCS#11 backend, which uses the adapter. Guests reach the
adapter, the linker and the invoker through resources whose drop is a call too.

## 2. Modules

| Module | Models | Abstract specification | Proofs |
|---|---|---|---|
| `SecretManager` | the secret manager, one step per stretch between lock operations or backend calls | `TokenStore` | `SecretManagerProofs` |
| `BlobStore` | FsBlobStore, one step per system call; names and inodes are apart | `ContentStore` | `BlobStoreProofs` |
| `TrustStore` | TrustStore, one step per critical section or file access | | `HostStoresProofs` |
| `ExecPipeline` | run_cli with compose, policy, trust gate, caches and audit, one step per access to shared state; the artifact is put system call by system call | | `GuestProofs` |
| `PlanValidation` | the validator, one step per phase and per call or return of has_cycle | order of the plan (`AcceptedCanBeOrdered`), closure of the bindings | `PlanValidationProofs` |
| `EmitWiring` | how the emitter puts components together, one step per plug or explicit export | the bindings of the plan (`CompositionIsRight`) | `PlanValidationProofs` |
| `RdfPlans` | writer and reader of plans as triples, with a store between them | what the reader accepts, and identity on what it accepts (`ReadsBack`) | |
| `CompileCache` | store and load, one step per call of the backend | | `HostStoresProofs` |
| `Fetcher` | fetch, one step per system call; entries, temp files and open files | | `HostStoresProofs` |
| `Sandbox` | runner and invoker: limits to fuel and deadlines, the epoch thread, every way a call ends | | `GuestProofs` |
| `CborValues` | both conversions of values by their types, as functions of the depth; a call that decodes and encodes | each the inverse of the other (`ValuesKeepTheirTypes`) | `GuestProofs` |
| `NatRec` | no code: a function defined by recursion on the naturals, for any step | | itself |
| `Pkcs11Sessions` | sessions and operations of the adapter, one step per guest call, over an external native module | | `Pkcs11Proofs` |
| `Pkcs11Tokens` | logins and objects of one token that guests and the host share | | `Pkcs11TokensProofs` |
| `Pkcs11Backend` | the secret backend over `Pkcs11Tokens`, one step per call it makes of the adapter | | `Pkcs11TokensProofs` |
| `ProviderRegistry` | the registry of providers and its ids | | `Pkcs11TokensProofs` |

`MC*.tla` give TLC the symmetry sets and the constants that are functions. A run
may check several modules that share nothing: then each behaviour is about one of
them, chosen in the initial state and named by the variable `part`
(`MCTrustStore`: trust store, compile cache of one host, compile cache of two hosts, fetcher; `MCPlansAndGuests`: validator,
RDF, wiring, sandbox, one call with CBOR; `MCPkcs11Tokens`: guests, backend, both, registry).
`MCPkcs11Sessions` chooses a `part` of the kinds of operation, `MCExecPipeline` a `batch`
of plans. `Pkcs11Backend` really composes with `Pkcs11Tokens`: in the part "both"
(`SharedSpec`) guests and the backend take turns on one token. In the part of the guests
(`GuestSpec`) they make, copy, bind, read and destroy objects, with no other process that
removes them; in the part of the backend (`BackendSpec`) it has the token to itself, since
guests may log it out in the middle of a search (section 3 has the conditions).

How state corresponds to code:

* **SecretManager**: `tokens` and `backends` are the two HashMaps, `holder` and
  `poisoned` their mutexes, `call` the program counter and locals of a thread.
  `drawn` and `revoked` are history. Times are modulo `TimeModulus`, which stands
  for 2^64; a sum that overflows panics (overflow checks) or wraps (release build).
* **BlobStore**: `temp` and `blob` are directory entries that name files, `content`
  is the set of pieces written in a file. A file lives on while it is open, so a put
  that lost its temp file to another's rename goes on writing into the visible file,
  and a get keeps reading what it opened.
* **Fetcher**: `entry` and `temp` are directory entries, `parts` what is in a file, as
  in the blob store; but a hit is believed, whatever the file holds. `shared` is history: the digests whose temp
  file was written by two fetchers at a time.
* **TrustStore**: `trusted`, `file` and `cached` are the two maps and the directory.
  `excused` is history: the digests whose file the disk or a restart left behind.
* **ExecPipeline**: a file is `NoFile`, `Torn` (opened with truncation, not yet written) or
  whole; `blobs` and `temps` are the visible file and the shared temp file of each digest, and
  `file` says where the open file of a put is by now: still the temp file, the visible
  blob (another put renamed it) or nowhere. `vouched`, `lost` and `cut` are history: what was
  trusted at some moment of a call, whose audit record the log refused (the code drops that error),
  and the digests of which a put was given up half way while another one overlapped it or the
  torn file was visible.
  The attributes of a plan are constants, so the proofs hold for any plans.
* **CompileCache**: `access` is the store or load a host is in: `Following` has the order of the two
  puts of a store. A frame carries the key and secret of its tag; comparing tags is
  comparing these. `made`, `promised` and `spoilt` are history.
* **Sandbox**: `epoch` is the engine's, `slept` how far the thread is in its sleep,
  `ticker` whether the thread exists (its creation may fail and nobody looks). An
  instance keeps its limits, its fuel, its deadline and what its guest computes; `born`
  and `spent` are history. Numbers saturate or wrap at `W`, which stands for 2^64.
* **Pkcs11Sessions**: `open` and `ops` belong to the native module, `sess` and `obj`
  to the adapter's resources. A module issues any number that no session has open, so a reload or a
  new initialization starts again with the numbers that resources still hold. The rest is
  history, kept for each place, a native session and a kind, so that what goes wrong at one excuses nothing
  at another: `again`, the numbers issued while a resource held them; `misused`, the places
  where an object was called after its end or failure; `left`, the places whose operation its
  owner left behind; `cut`, what first ended an operation of somebody else; `given` and
  `taken`, the chunks of each object. An object is `silent` from the first chunk for which the module
  had nothing to put out.
* **Pkcs11Tokens**: `user` is the login of the application, `objects` what the token
  holds under each number, `res` the pairs of numbers in object resources. The module's
  rules (a session object ends with its session, a private one is seen by the user only,
  the last close logs out) are external and follow from how the adapter uses them. The close
  in the drop of a guest's session, whose error the code ignores (`lib.rs:3340`), is taken to succeed here; the
  backend's may fail.
* **PlanValidation**: `visited` and `recStack` are the sets of has_cycle, `stack` and
  `todo` its activation records. `rank` is history: the order in which calls return.
* **CborValues**: `item` is what the caller sent, `args` what decode_params made of it,
  `result` the values the guest returned and `out` what encode_results made of them. cbor_to_val and
  val_to_cbor call themselves on the parts of a type or value. `CborToVal[n]` and `ValToCbor[n]`
  are these functions for types and values that nest at most n deep, each made of the one for
  n - 1; `Types`, any set of types that is closed under parts, and `Depth` are constants.
* **RdfPlans**: `graph` is the sequence of triples; the store may return it reversed
  or with blank nodes renamed to IRIs, and `kept` remembers whether it did.
* **EmitWiring**: `wires` are the wired imports of the root, `outer` the exports of the result,
  `todo1` what the loop has still to look at (a plug that is named twice is passed over when
  its turn comes again, where the code leaves it out of its list). The tools that compose are external: they
  may fail and refuse to set an argument or an export twice.

A definition marked "Variant" is a way the code could be wrong that the checks
tell apart from the code; no specification uses it.

## 3. Runs

| Run | Question | Bounds, and why they are enough |
|---|---|---|
| `secrets` | do revocation, expiry, poisoning and token-for-value survive every interleaving, panics and a clock that is set back? Are mutexes released? Refinement of `TokenStore` | 2 threads (the lock orders involve two), 2 tokens (one to confuse with the other), ttl 1 and one, 3, that overflows the modulus of 4 with the clock at 1 or 2 |
| `secrets_deadlock` (violation) | does a resolve return? | the smallest instance of two threads |
| `blobs_shared` | what is still true when puts of one blob overlap? | 2 clients, 2 chunks so that a file can be half written, 6 inodes, one blob too big |
| `blobs_exclusive` | refinement of `ContentStore`; blobs do not mix | 2 clients, 2 blobs, crashes and failing system calls |
| `exec` | isolation, audit, trust, the emit cache, with failing files and a failing log, overlapping puts and restarts | 2 workers; a batch of two tenants' plans that compose to one artifact, whose puts overlap, or one of an endpoint plan and a guest-driven plan while a provider's blob is put and deleted and its trust changes; 2 hosts with different policies |
| `exec_args` (violation) | do arguments reach the root? | 1 worker, 2 argument lists |
| `trust` | trust: freshness, acceptance, agreement of files. Compile cache: own artifacts only, stored means found. Fetcher: pinned bytes | 2 threads, 2 digests (one genuine), a ttl of 1 tick inside a clock of 2, width 16 for the wrapping subtraction. Compile cache: 2 hosts that store 2 artifacts under one key at a time, or 1 host with other users of the backend, 2 keys, and at most 3 aliases; 2 secrets, restarts with the other. 2 fetchers, 2 parts, 4 inodes (an entry, a temp file and one open file each); of the second artifact the cache keeps nothing |
| `fetch_tears` (violation) | is a cache entry always whole? | the same fetchers |
| `plans_guests` | Plans: does the search answer what the closure says, and end? Does a plan survive RDF? Is the composition what the bindings say?. Guests: limits: not too early, not too late, only what was spent, spinning guests stop. CBOR: types and round trip | every graph over 3 ids (self-loops, longer cycles, diamonds), every order of bindings, both entry points; RDF plans of up to 2 components, 2 bindings, absent and full optional parts; wiring of a root with up to 2 imports and 2 providers with up to 2 exports each, versions of one interface and wrong types among them. Guests: 1 handle whose instance is made again (instances share only the epoch); a tick of 2, 1 late; timeouts and CPU limits absent, small, and so near the width of 32 that sums and products pass it; time to 8. 21 types that nest up to 3 deep, every item of two levels over ten atoms, every value of each type |
| `pkcs11` | which calls disturb sessions and operations, and that no others do | 2 guests, 2 sessions, 2 objects, 2 modules, one of which lacks functions; a part of the kinds at a time (`Parts`): multi-part kinds on one number that is issued again and again, the single-part ones on two numbers and with a reload. A number issued again, a misused object and a cut operation do not meet in one behaviour (`OneTrouble`); the theorems have no such bounds |
| `pkcs11_drop` (violation) | does a drop clean up? | the same |
| `tokens` | logins, objects, what the backend leaves behind, ids of providers | 2 guests and the host, apart and together, on 3 native sessions, 2 object numbers that are issued again, 2 resources, 2 labels; 3 names and ids up to 5 |

Where the system really may stop deadlock is not checked (`secrets`,
`secrets_deadlock`, `plans_guests`): two threads can block each other (that is the
finding), a validation ends, and time and computing are bounded.

Type correctness is a theorem where there are proofs (section 5) and no run repeats it.

What holds only conditionally is stated with its condition:

* `LonePutHeals` and `ImplementsContentStore` need puts of one blob not to overlap
  (of the same put, or by all callers). When they do overlap a put may answer with an
  error, or torn bytes may be visible for a while; `OnlyFailuresOrphan` says what is left.
* `FilesAgreeAtRest` needs one administrator per digest, and excuses files the disk or a
  restart left behind.
* `NoValueAfterExpiry` speaks of a token that was expired at every time of the call:
  the clock may move, either way, while the call waits.
* `StoredLoads` excepts keys stored under two secrets or touched by others. Two hosts of one secret may store
  under one key at a time, and end half way.
* `PinnedBytesMatch` excepts digests whose temp file two fetchers wrote at a time; for
  these the entry may be torn for ever (`fetch_tears`).
* `RunsOnTime` and `SpinnersStop` speak of a guest that computes; the first needs the
  epoch thread, the second a CPU limit. A guest that waits in a WASI call is stopped by neither.
* `ValuesKeepTheirTypes` excepts results whose types hold an option of an option (none and
  some(none) are both null) or a handle (not encoded), and the names of flags, which only the call rejects.
* `CompositionIsRight` speaks of bindings of an import of the root that no other binding
  names and that the provider, not the root itself, exports under its name and type; section 6 has the others.
* `AuditTellsTheTruth` speaks of records that the log took: the code ignores an error of the append,
  so a call may answer ok without one (`lost`).
* `CachedArtifactIsStored` allows an artifact that a put is writing at that moment, one that a
  client may have deleted, and one of which a put was given up half way (`cut`).
* `OwnSession` excepts numbers issued while a resource still held them: section 6 says what
  happens to these. Nothing is assumed of other sessions, of reloads or of close-all.
* `OperationsHaveOwners` names the four ways to leave an operation behind: its object is dropped
  half way, aborted, or ended by a final of no bytes, or a single-part call finds the second function missing.
* `ChunksArrive` and `NobodyElsesOperation` speak of a kind of a session where no object was called after its end
  or failure, and whose number was not issued while held. `ChunksArrive` excepts ciphers that were given a
  chunk with nothing to put out, `NobodyElsesOperation` the drop or abort of a verifier that failed;
  section 6 has both. Half-way drops, aborts and failures are no condition of either.
* `OwnObjectsOnly` holds while no session number is issued again and no number of an
  object is bound or used in another session than its own.
* `OnlyErrorsLeak` speaks of each session: one of the backend's that is open between calls belongs to a call
  that met an error, answered or, at the close, ignored (`pkcs11_backend.rs:129, 141, 281`), and a login that
  stays is of such a session or of a guest's. Such a login makes the backend's next one fail.
* `NotFoundIsTrue` speaks of a backend with a PIN, and of `BackendSpec`: a guest that logs out
  while the backend searches makes it answer "not found" for a private object.
* `IdsStandForOneName` excepts the largest id, which all later providers share.

## 4. Fairness

* `secrets` assumes weak fairness of each thread's steps: the operating system
  runs a thread that can run. Nothing is assumed of new calls. `LocksAreReleased` speaks
  of behaviours in which no resolve overlaps a read.
* `secrets_deadlock` assumes strong fairness, which is more than a mutex of the
  standard library gives, so the counterexample is a real deadlock and not starvation.
* `plans_guests` assumes weak fairness of the validator's next step: a sequential function
  keeps running. It also assumes weak fairness of the clock, of the epoch thread (if it exists), of a
  guest that computes and of the engine that stops it: each is a running thread.

No other run has liveness properties: files and guests owe nobody progress.

## 5. What is proved

For every value of the constants that meets the named assumptions of the modules:

* **SecretManager**: `IInv == TypeInv /\ LockInv /\ TokenInv /\ PoisonInv`.
  `RevokedStaysRevoked` is not inductive: one must know that a token about to be stored
  was drawn, is new and not revoked, that a read past its check still finds its token,
  and who is inside which mutex. From it: `TypeCorrect`, `RevocationIsFinal`,
  `PoisonOrder`, `LiveTokensStay`. `JInv` adds that a token
  past its check had not expired at the earliest time of the call, and that a held mutex is
  not poisoned; from it `ValuesNeedLiveTokens`,
  `ValuesAreInTime` and the refinement `ManagerIsATokenStore`.
* **BlobStore**: `IInv == TypeOK /\ Shape /\ FileInv /\ LoneInv /\ (ExclusivePuts =>
  WholeInv)`. `FileInv` says that a file is reachable through names and open calls of one
  digest only; `LoneInv` that a lone put's file is the temp file and holds what was
  written; `WholeInv` that with exclusive puts visible files are complete and do not
  change. From it: `TypeCorrect`, `NoMixing`, `LonePutsHeal`, `NoLitter` and the
  refinement `ContentStoreImplemented`, step by step.
* **TrustStore** (`HostStoresProofs`): `IInv == TypeInv /\ FreshInv`: answers are fresh, and for every entry
  of the cache its backend once accepted some input. From it: `TypeCorrect`, `FreshHits`,
  `AcceptedIsVerified`. `FilesAgree` assumes one administrator (`SerialAdmin`)
  and adds what the administrator has in hand between the map and the file.
* **ExecPipeline** (`GuestProofs`): `IInv == TypeOK /\ Shape /\ EntriesMatchKeys /\ TrustIsVouched /\
  PutsInv /\ EntriesAreKept`. An entry of the result cache lies under the key of the plan
  that ran (keys of different plans differ), and whatever a call has resolved was trusted
  during it. `PutsInv`: unless a put was cut, a torn temp file that a put is about to rename, and a
  torn blob, have a put that is still writing them. From it: `TypeCorrect`, `TenantsIsolated`,
  `ProvidersAreVouched`, `AuditIsTrue`, `EmitCacheIsBacked`. SHA-256 is taken to be
  injective: a key is a record.
* **PlanValidation**: `IInv == TypeOK /\ StackInv /\ OrderInv /\ ProvidersInv`. The stack
  holds the nodes of rec_stack once each; a dep that a call in progress has looked at has
  returned, or is the next call on the stack. From it: `TypeCorrect`, `AcceptedPlansAreOrdered`.
  `PathInv` adds that each node on the stack is reached from those below it and the first
  is the root. A dep found on the stack then closes a cycle that the root reaches, so a
  refusal is right; the return order has no cycle, so an acceptance is: `CyclesAreExactlyFound`.
  "Reaches" is stated as membership in every set of ids closed under the bindings, which
  gives both halves without an induction over paths.
* **EmitWiring** (`PlanValidationProofs`): `EmitInv`: a component that had its turn has all
  the imports it can supply and keeps them (`WiredInv`), a wire joins one type (`WiresInv`), an
  export of the result is served by whom it should be, because an explicit export of a name
  that is taken comes from the root that has it (`OuterInv`); the wrapper is only reached
  without explicit exports. `CompositionsAreRight` assumes of a plan that its components exist and
  that no import is named twice.
* **CompileCache** (`HostStoresProofs`): `CacheInv`: every frame anywhere carries the key and the
  secret it was made for, and what was promised is in the backend under an alias that is
  found. From it: `ArtifactsAreOwn`, `StoresAreFound`.
* **Fetcher** (`HostStoresProofs`): `FetchInv`. `NamesApart`: an entry or temp path of one digest never
  names the file of another; `WritersApart`, `ReadersApart`: neither does an open file;
  `LoneWriters`, `LoneReaders`: where no two fetchers wrote together, the writer's file is
  the temp file and what a reader has open is whole. From it: `EntriesAreTornByOverlaps`
  (a torn entry needs two writers; the exact complement of what `fetch_tears` shows) and
  `PinnedFetchesMatch`.
* **Sandbox** (`GuestProofs`): `SandboxInv == SandboxTypeOK /\ EpochInv /\ TickerInv /\ LiveInv`. The epoch
  lags the time by at least what the thread has slept and at most by the delays since the
  instance was made; fuel and spending add up. Proved for ticks of at least 2 and a width
  of at least four ticks (the code has 10 ms and 2^64): `SandboxTypeCorrect`, `BudgetsAreShared`,
  `InterruptsAreDue`, `InterruptsAreInTime`.
* **CborValues** (`GuestProofs`): `CborInv`: accepted arguments have the types of the
  parameters, `out` encodes results of the types of the export. `ValuesKeepTypes` holds for any
  set of types, nested to any depth, and any arguments and results; that values
  come back is an induction on the depth. Its step (`DecodesOneLevel`, `ComesBackOneLevel`) has
  a lemma for each kind of type; a list of bytes comes back from either of its two encodings
  because an empty one is an array, and a payload of none from null because no option lies in an
  option. The proof uses that the fields of a record, and the cases of a variant, differ in name,
  and that a type is at most `Depth` deep, as wit has it.
* **Recursion on the depth** (`NatRec`): the provers cannot use the library's induction
  theorems, whose parameter is a predicate. `Induction` states induction for a set of naturals,
  `Equation` that a function defined by recursion obeys its equation; the step is a
  constant operator of the module, and each recursive function of `CborValues` is an instance.
* **Pkcs11Sessions** (`Pkcs11Proofs`): `SessionInv == SessionTypes /\ OneHolder /\ OwnSession`: two
  sessions whose resources have one number mean that it was issued while held. `SessionsAreOwn` assumes
  nothing of the numbers a module issues, nor of what guests do. `OpsInv` adds, for each kind of each session:
  an operation belongs to one object that is active in it or was left (`Owned`); where the place is undisturbed
  an object that expects its operation has it (`InHand`), the module has what the object was given
  unless it is silent (`InStep`), and only a verifier cuts (`Cutting`). From it: `OperationsAreOwned`,
  `NoChunkIsLost`, `NothingIsCut`, for all kinds, guests, modules and numbers at once.
* **Pkcs11Tokens** and **Pkcs11Backend** (`Pkcs11TokensProofs`): three invariants.
  `SharedInv`, for guests and backend together: a guest's native session is the one in its
  resource, a login has a session, and each session of the backend is that of the call being
  served or one of a call that met an error; from it `LoginsEnd`, `AnsweredCallsLeaveNothing`.
  `OwnInv`, for guests: an object resource whose session is open names an object its guest
  made, and no two name the same one; from it `GuestsKeepApart`.
  `BackendInv`, for the backend alone: past the login its session sees private objects while it
  is known, and a label that nothing has was seen missing; from it `NotFoundIsMissing`.
* **ProviderRegistry** (`Pkcs11TokensProofs`): ids below the largest were given once. `IdsAreNames`.

Only model-checked: all liveness (`LocksAreReleased`, `ValidationEnds`, `SpinnersStop`),
because it needs ENABLED; `ReadsBack`, whose operators filter, sort and flatten sequences: `SelectSeq` and `SortSeq`
take an operator as argument, which the prover can neither expand nor encode, and flattening
would need an induction of its own.

## 6. Divergences

Four disagreements between the code and its documents have a run:

* resolve locks backends then tokens, get_value and get_metadata the reverse
  (`secrets/mod.rs:174, 189` and `196-208, 283-287`): two threads can block each other
  for ever (`secrets_deadlock`).
* arguments and environment are not part of the key of the result cache
  (`exec.rs:1084`): a second run with other arguments gets the first one's output
  (`exec_args`), against `wit/sys-compose/exec.wit:41`.
* the fetcher's temp file is named by the digest alone (`compose-fetcher/src/lib.rs:270`), so a
  fetcher can publish a file that another has just truncated (`fetch_tears`), against the
  comment two lines above it.
* the abort and drop of an operation ask for a length and leave the native operation active
  (`lib.rs:3853, 2751`; `pkcs11_drop`), against `API_COVERAGE.md:186`.

Others were met while modelling; the models follow the code, and the properties
are stated so that they hold of it:

* The key of the result cache has nothing of the host (`exec.rs:1090`): another build or configuration
  answers with what an earlier one computed, against `exec.rs:1078` and `SPEC.md:97`. The model has
  both hosts (a result keeps the one that computed it), and no property says that they agree.
* A guest that traps after it resolved providers leaves no audit record (`exec.rs:646`),
  against `docs/runtime-linking.md:360-361` and `dynlink.rs:244-245`; `AuditTellsTheTruth` allows that.
* An untrust that overlaps a trust leaves a trust file for a digest that is not trusted
  (`trust.rs:204`), against the comment at `trust.rs:195`; `FilesAgreeAtRest` is checked and
  proved with one administrator at a time, and false without.
* Closing a session, or dropping it, closes its number again (`lib.rs:3340`), whoever has the number by
  then, against `session.wit:20`. A verifier that failed ends its successor when it is dropped
  (`lib.rs:4168`), against `API_COVERAGE.md:186`. A cipher's chunk for which there is nothing to put
  out is never given to the module (`lib.rs:2409`), against `API_COVERAGE.md:73`. The exceptions of
  `OwnSession`, `NobodyElsesOperation` and `ChunksArrive` are exactly these.
* Two overlapping puts of one blob: the second rename finds no temp file and answers
  with an I/O error (`blobs.rs:107`), though putting twice "is not an error" (`:32-33`).
* The trusted set is written to files and never loaded (`trust.rs:36`). The verification cache
  has one entry per digest (`:90`), so it answers for any backend, unlike `spec/trust.md:100`.
* The error of an append to the audit log is dropped (`exec.rs:318, 336, 354, 368, 525, 553, 658`), so a
  call may answer ok without a record. The endpoint path does not validate the plan (`exec.rs:412`), so a
  strict plan is refused only by the checks of the linker, against
  `docs/runtime-linking.md:401-402`.
* After a change of the secret, an alias written under the old one may be found first and
  hide what was stored since (`compile_cache.rs:221`).
* Runner and invoker: an import that is missing is never reported as such, every error of
  instantiation is an invalid component, or a trap of run_cli, against the interface
  (`invoker.wit:57-58`). `dynlink.rs:951-953` says that fuel and deadline become a
  resource error and a timeout; a limit hit while a provider is instantiated is a trap.
  A guest that waits in a WASI call outlives its timeout, against `runner.wit:38-40`.
* RDF: a comment takes an absent policy for a strict one (`lib.rs:285`, `302`), the default is
  relaxed; bindings, secrets and exports keep the order of the store, so that a plan read from
  one is not always the plan from disk byte for byte (`lib.rs:7-10`).
* The emitter (`emit.rs:155-156`, "according to the plan") wires by names: a binding whose export
  has another name than its import is not honoured, one whose consumer is another component only
  where the wac tool is installed and happens to plug the two; the source of an explicit export may be wired to an
  import that no binding gives it. The wrapper has one provider for each import name
  (the last binding's), whoever the consumer is.
* PKCS#11 adapter: a final of no bytes asks for a length and ends nothing (`lib.rs:2451`). The
  backend's early returns leave its session open and its login in force (`pkcs11_backend.rs:106`), and
  so does a close that fails, whose error it ignores (`:129, 141, 281`).
* The search for cycles starts at the root and follows bindings with a consumer only:
  cycles elsewhere, and consumers that are no components, are accepted (`plan.rs:254`).
* Nothing calls the checks of `limits.rs`, `max_graph_depth` among them, so the depth of
  the recursion of has_cycle is bounded by the plan alone.

## 7. Not modelled

Cryptography (attestation, trust backends) is pure; of hashes and tags only injectivity
is used. wac, wac-graph and wasm-compose are third-party and external; of the wac tool, which plugs plugs
into each other as well (`emit.rs:272-277`), only the wiring of the root is judged. Of the fetcher's
sources only success, failure and the bytes matter. Of CBOR, floats and characters are
left out (a float is rounded, a character is a text of length one); of RDF, the text
of Turtle and typed literals; in the run, the capabilities of a plan have distinct names, so the
stability of a sort is not looked at. A memory limit only denies a guest growth. HTTP
serving, the command line, the browser page, stubs and conformance tests keep no state that
calls share. metrics and events are single critical sections; the PKCS#11 signer is one call
under a mutex. The table of provider instances of a guest is used by one thread.
Random numbers, PIN changes and queries touch no state of the adapter. `PROJECT.json`
has the reason for each component.

## 8. Plan

Done: SecretManager with TokenStore; BlobStore with ContentStore; ExecPipeline; TrustStore;
CompileCache; Fetcher; Sandbox and CborValues; PlanValidation, RdfPlans and EmitWiring;
Pkcs11Sessions, Pkcs11Tokens, Pkcs11Backend and ProviderRegistry; both refinements and
every safety property of the passing runs proved, but for `ReadsBack`.

Left, in the order of what it would add:

1. ExecPipeline composed with TrustStore and BlobStore in place of its own accounts of them
   (trust is one set there, and gets and the puts of other clients' blobs are shorter).
2. The table of provider instances of the dynlink bridge, and the forwarding of handles.
3. enforce_limits with a lemma that the enforced limit never exceeds the host's.
4. Audit streams per tenant with rotation.
