SPECIFICATION MCSpec
SYMMETRY Symmetry
INVARIANTS TenantIsolation AuditTellsTheTruth CachedArtifactIsStored ProvidersVouched
CONSTANTS
    root = root  dep = dep  guest = guest  composed = composed
    s1 = s1  s2 = s2  e = e  drv = drv  t1 = t1  t2 = t2
    cli = cli  res = res  inv = inv  h1 = h1  h2 = h2  None = None  NoFile = NoFile  Torn = Torn
    Workers = {w1, w2}
    Plans = {s1, s2, e, drv}
    Components = {root, dep, guest}
    Digests = {root, dep, guest, composed}
    Tenants = {t1, t2}
    Caps = {cli, res, inv}
    Hosts = {h1, h2}
    Args = {x}
    Resolve = res
    Invoke = inv
    Runtime = {e, drv}
    Strict = {}
    Drives = {guest}
    Root <- MCRoot
    Parts <- MCParts
    Bound <- MCBound
    Artifact <- MCArtifact
    Tenant <- MCTenant
    Declares <- MCDeclares
    Needs <- MCNeeds
    Allows <- MCAllows
    FaultyDisk = TRUE
    Deletable = {dep}
