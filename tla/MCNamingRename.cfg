CONSTANTS
    Ids = {i1, i2}
    UserNames = {web}
    RandomNames = {r1}
    Drivers = {aufs, vfs}
    NoName = NoName
    Aliases = {db}
    MaxBoots = 4
SPECIFICATION Spec
CONSTRAINT OneCreateAtATime
PROPERTY NameKeptAcrossRestart
CHECK_DEADLOCK FALSE
