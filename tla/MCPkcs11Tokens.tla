---------------------------- MODULE MCPkcs11Tokens ----------------------------
EXTENDS Pkcs11Backend, ProviderRegistry, TLC
Symmetry == Permutations(Handles) \cup Permutations(Resources) \cup Permutations(Guests)

\* A behaviour is about the guests, about the backend, about the sessions and logins of
\* both, which leave the objects alone, or about the registry; the label
\* of an object, and what the token holds at first, matter to the backend only; guests
\* make private token objects and public session objects.
\* Careless guests make nothing any more, and the backend needs two session numbers.
VARIABLE part
CONSTANT guestLabel
mcVars == <<vars, backendVars, registryVars, part>>

Plain == \A n \in Numbers : objects[n] # None =>
    objects[n].label = guestLabel /\ (objects[n].private <=> objects[n].session = None)
Careful == careless =>
    /\ UNCHANGED touched
    /\ \A n \in Numbers : objects[n] = None => objects'[n] = None
    /\ \A o \in Resources : res[o] = None => res'[o] = None

TwoNumbers == Cardinality(issued) <= 2

MCInit ==
    /\ part \in {"guests", "backend", "both", "registry"}
    /\ Init /\ BackendInit /\ RegistryInit
    /\ part # "backend" => pin = TRUE /\ objects = [n \in Numbers |-> None]

MCNext ==
    /\ UNCHANGED part
    /\ \/ /\ part = "guests" /\ UNCHANGED <<backendVars, registryVars>>
          /\ GuestNext /\ Plain' /\ Careful
       \/ /\ part = "backend" /\ UNCHANGED registryVars
          /\ BackendNext /\ TwoNumbers'
       \/ /\ part = "both" /\ UNCHANGED <<registryVars, objects, res>>
          /\ SharedNext
       \/ /\ part = "registry" /\ UNCHANGED <<vars, backendVars>>
          /\ RegistryNext

MCSpec == MCInit /\ [][MCNext]_mcVars
=============================================================================
