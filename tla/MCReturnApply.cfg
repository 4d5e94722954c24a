SPECIFICATION FairSpec
CONSTANTS
    MaxEdits = 2
    MaxCrashes = 2
    MaxFaults = 2
INVARIANTS
    EditsKept
    JournalCoversMove
    RecordMatchesDisk
PROPERTIES
    BaselineReleasedOnlyByApply
    
    FolderComesBack
    ApplyingEnds
CHECK_DEADLOCK FALSE
