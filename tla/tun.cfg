SPECIFICATION Spec
CONSTANTS
    a = a
    b = b
    Devs = {d1, d2}
    Fixed = {a, b}
    Template = t
    LongName = long
    RenameTo = {a, b, long}
    Asks = {"address", "up"}
    TunAttrs = {"persist"}
    Flags = {"UP"}
    Platforms = {"linux", "macos"}
    Utun <- UtunNames
    AdminMay = {"flags", "rename", "delete"}
    MaxFds = 3
    MaxIfs = 2
SYMMETRY SymmetryOfDevices
INVARIANTS
    TypeOK
    Ownership
    NothingLeftBehind
PROPERTIES
    StalenessComesFromOutside
    OnlyOwnInterface
