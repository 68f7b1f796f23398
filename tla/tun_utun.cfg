SPECIFICATION Spec
CONSTANTS
    a = a
    b = b
    Devs = {d1}
    Fixed = {a, b}
    Template = t
    LongName = long
    RenameTo = {a}
    Asks = {"mtu", "up"}
    TunAttrs = {"persist"}
    Flags = {"UP"}
    Platforms = {"macos"}
    Utun <- UtunNames
    AdminMay = {}
    MaxFds = 2
    MaxIfs = 2
PROPERTIES
    NameAsConfigured
