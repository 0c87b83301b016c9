CONSTANTS
    Ids = {i1, i2, i3}
    UserNames = {web}
    RandomNames = {r1}
    Drivers = {aufs}
    NoName = NoName
    Aliases = {db}
    MaxBoots = 1
SPECIFICATION Spec
INVARIANT DistinctNames
CHECK_DEADLOCK FALSE
