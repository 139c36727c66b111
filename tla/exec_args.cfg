SPECIFICATION MCSpec
INVARIANT ArgsReachTheRoot
CONSTANTS
    root = root  dep = dep  guest = guest  composed = composed
    s1 = s1  s2 = s2  e = e  drv = drv  t1 = t1  t2 = t2
    cli = cli  res = res  inv = inv  h1 = h1  h2 = h2  None = None  NoFile = NoFile  Torn = Torn
    Workers = {w1}
    Plans = {s1}
    Components = {root, dep}
    Digests = {root, dep, composed}
    Tenants = {t1, t2}
    Caps = {cli, res, inv}
    Hosts = {h1}
    Args = {x, y}
    Resolve = res
    Invoke = inv
    Runtime = {}
    Strict = {}
    Drives = {}
    Root <- MCRoot
    Parts <- MCParts
    Bound <- MCBound
    Artifact <- MCArtifact
    Tenant <- MCTenant
    Declares <- MCDeclares
    Needs <- MCNeeds
    Allows <- MCAllows
    FaultyDisk = FALSE
    Deletable = {}
