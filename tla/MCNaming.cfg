CONSTANTS
    Ids = {i1, i2, i3}
    UserNames = {web}
    RandomNames = {r1}
    Drivers = {aufs, vfs}
    NoName = NoName
    Aliases = {db}
    MaxBoots = 3
SPECIFICATION Spec
INVARIANT TypeOK
 
CHECK_DEADLOCK FALSE
