SPECIFICATION Spec
CONSTANTS
    Calls = {c1, c2}
    Phones = {p1, p2}
    Subjects = {s1}
    PhoneLimit = 1
    DeviceLimit = 2
    MaxAttempts = 2
    MaxUsers = 2
    MaxStates = 1
    MaxBindings = 2
    MaxEdits = 1
    Mixes <- OfferedMixes
    None = None
SYMMETRY Symmetry
CHECK_DEADLOCK FALSE
INVARIANTS
    AccountsAreSound
PROPERTIES
    LinksAreSound
