SPECIFICATION StronglyFairSpec
CHECK_DEADLOCK FALSE
PROPERTY ResolveReturns
CONSTANTS
    Threads = {t1, t2}
    SecretIds = {a}
    Schemes = {dev}
    Tokens = {k1, k2}
    Ttls = {1}
    Never = Never
    TimeModulus = 4
    MaxClock = 2
    Free = Free
    None = None
