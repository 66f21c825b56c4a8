SPECIFICATION Spec
CONSTANTS
    Calls = {c1, c2}
    Places = {p1, p2, p3}
    MaxAddresses = 2
    MaxAttempts = 3
    MaxPicks = 2
    MaxPages = 2
    MaxSubmits = 3
    Mixes <- MCMixes
    None = None
SYMMETRY Symmetry
CHECK_DEADLOCK FALSE
INVARIANTS
    OrdersAreAsPicked
    AddressBookIsSound
