SPECIFICATION Spec
CONSTANTS
    a = a
    b = b
    Devs = {d1, d2}
    Fixed = {a, b}
    Template = t
    LongName = long
    RenameTo = {a, b, t, long}
    Asks = {"mtu", "up"}
    TunAttrs = {"persist"}
    Flags = {"UP"}
    Platforms = {"linux"}
    Utun <- NoUtunNames
    AdminMay = {}
    MaxFds = 4
    MaxIfs = 2
SYMMETRY SymmetryOnLinux
INVARIANT
    NameIsCurrent
