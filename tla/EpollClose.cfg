CONSTANTS
    Users = {u1, u2}
    Loop = loop
    FDs = {3, 4}
    Blks = {b1, b2}
    TableSize = 193
    MaxNodes = 1
    NoOne = none
    Roles <- ClosingRoles
SPECIFICATION Spec
SYMMETRY UserSymmetry
INVARIANTS DispatchedLive
CHECK_DEADLOCK FALSE
