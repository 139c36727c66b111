\* Two threads over every lock order; the token table and the values handed out.
\* The program can really stop here (see secrets_deadlock.cfg).
SPECIFICATION FairSpec
CHECK_DEADLOCK FALSE
INVARIANTS RevokedStaysRevoked PoisonSpreadsFromBackends
PROPERTIES NoValueAfterExpiry LocksAreReleased ValueNeedsLiveToken ImplementsTokenStore
CONSTANTS
    Threads = {t1, t2}
    SecretIds = {a}
    Schemes = {dev}
    Tokens = {k1, k2}
    Ttls = {1, 3}
    Never = Never
    TimeModulus = 4
    MaxClock = 2
    Free = Free
    None = None
