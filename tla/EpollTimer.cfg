CONSTANTS
    Users = {u1, u2}
    Loop = loop
    FDs = {3, 4, 5}
    Blks = {b1, b2}
    TableSize = 193
    MaxNodes = 1
    NoOne = none
    Roles <- MCRoles
SPECIFICATION FairSpec
INVARIANTS SelfStopsLive HashOwnsBlocks
PROPERTIES  OneShotStops CallsReturn
CHECK_DEADLOCK FALSE
