SPECIFICATION Spec
CONSTANTS
    travel = travel
    travel_bot = travel_bot
    Networks = {travel, travel_bot}
    Contents = {old, new}
    NoRow = NoRow
    Archived = Archived
    NoFile = NoFile
    Torn = Torn
    Requests = {r1, r2}
    MaxNetworks = 2
    FileNamed <- Distinct
    Named <- Distinct
SYMMETRY Symmetry
INVARIANTS
    RegistryFollowsRows
    LineHasFile
CHECK_DEADLOCK FALSE
