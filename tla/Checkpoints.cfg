SPECIFICATION FairSpec
CONSTANTS
    None = None
    IDs = {"c1", "c2"}
    RetainLatest = 1
    DeleteOnClose = TRUE
    MaxEpoch = 2
    MaxDamaged = 1
INVARIANTS
    CheckpointSound
    PointerNamesRow
    NewestSurvives
PROPERTIES
    RestoresNewest
    RestoredUnlessDamaged
    EndedLeavesNothing
    OrphansAreSwept
CHECK_DEADLOCK FALSE
