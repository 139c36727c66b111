---------------------------- MODULE MCTrustStore ----------------------------
EXTENDS TrustStore, CompileCache, Fetcher, TLC
CONSTANTS good, bad, dev, sig, h1, a1
\* The dev backend takes any bytes of the digest, the other a genuine signature.
MCAccepts == {a \in {dev, sig} \X {good} \X Inputs :
                a[1] \in Backends /\ (a[1] = sig => a[3] = "genuine")}
\* Threads fetch as well, and the same model values are the keys of the compile cache
\* (in other behaviours); of the bad artifact the fetcher's cache keeps nothing.
Symmetry == Permutations(Threads) \cup Permutations(Secrets)

\* One host stores one artifact beside the other users of the backend, who leave room
\* for at most three aliases.
OneHost ==
    /\ CacheNext
    /\ Cardinality(aliases') <= 3
    /\ \A h \in Hosts \ {h1} : access'[h] = access[h] /\ loaded'[h] = loaded[h] /\ secret'[h] = secret[h]
    /\ \A h \in Hosts : access'[h].frame # Missing => access'[h].frame.artifact = a1
\* All hosts store and load artifacts under one key, and nobody else uses the backend.
AllHosts ==
    \E h \in Hosts, k \in Keys :
        /\ \A g \in Hosts : access[g].key \in {k, Missing}
        /\ \A f \in frames : f.key = k
        /\ \/ StoreFrame(h) \/ StoreAlias(h) \/ LoadAlias(h, k) \/ LoadFrame(h) \/ HostRestarts(h)
           \/ \E a \in Artifacts : Store(h, k, a)

\* A behaviour is about the trust store, the compile cache or the fetcher's cache.
VARIABLE part
mcVars == <<part, vars, cacheVars, fetchVars>>
MCInit == part \in {"trust", "compile", "stores", "fetch"} /\ Init /\ CacheInit /\ FetchInit
MCNext ==
    /\ UNCHANGED part
    /\ \/ part = "trust" /\ UNCHANGED <<cacheVars, fetchVars>> /\ Next
       \/ part = "compile" /\ UNCHANGED <<vars, fetchVars>> /\ OneHost
       \/ part = "stores" /\ UNCHANGED <<vars, fetchVars>> /\ AllHosts
       \/ part = "fetch" /\ UNCHANGED <<vars, cacheVars>> /\ FetchNext /\ temp'[bad] = Absent
MCSpec == MCInit /\ [][MCNext]_mcVars
MCFetchSpec == MCInit /\ part = "fetch" /\ [][MCNext]_mcVars
=============================================================================
