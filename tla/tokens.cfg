SPECIFICATION MCSpec
SYMMETRY Symmetry
INVARIANTS NoLoginWithoutGuest OwnObjectsOnly OnlyErrorsLeak NotFoundIsTrue IdsStandForOneName
CONSTANTS
    None = None
    Guests = {g1, g2}
    Handles = {n1, n2, n3}
    Numbers = {1, 2}
    Resources = {o1, o2}
    Labels = {a, b}
    guestLabel = a
    Host = Host
    Pin = {TRUE, FALSE}
    Keys = {k1, k2, k3}
    Spellings = {upper, lower}
    Paths = {p1}
    MaxId = 5
    NoProvider = NoProvider
