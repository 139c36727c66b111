\* A verdict, a result and the last tick of the clock end a behaviour.
SPECIFICATION MCSpec
CHECK_DEADLOCK FALSE
INVARIANTS AcceptedCanBeOrdered CyclesAreFound ReadsBack CompositionIsRight ValuesKeepTheirTypes
PROPERTIES ValidationEnds NotTooEarly FuelIsBudget RunsOnTime SpinnersStop
CONSTANTS
    None = None
    Ids = {a, b, c}
    Plans <- MCPlans
    Nil = Nil
    Refused = Refused
    GivenPlans <- MCGivenPlans
    Undone = Undone
    Jobs <- MCJobs
    Ranges <- MCRanges
    Texts <- MCTexts
    Types <- MCTypes
    Depth = 3
    Exports <- MCExports
    Sent <- MCSent
    Yielded <- MCYielded
    Unset = Unset
    Handles = {h1}
    Tick = 2
    Late = 1
    FuelPerMs = 2
    W = 32
    Timeouts = {Unset, 3, 31}
    CpuLimits = {Unset, 1, 17}
    MaxTime = 8
    MaxSpent = 3
