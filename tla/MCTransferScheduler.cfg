SPECIFICATION LiveSpec
CONSTANTS
    Items = {1, 2, 3}
    Batches = {"first"}
    Size <- TinyBesideBulk
    Room <- OneRoom
    BatchOf <- OneBatch
    Path <- Paths
    Disks <- CopiesOrTooLarge
    GlobalWindowBudget = 3
    ActiveTransferCap = 2
    GroupMode = "fixed"
    Unprepared = {3}
    MaxManaged = 1
INVARIANTS
    TypeOK
    CapacityRespected
    
    PlanIsSound
    GroupAccountsForChildren
PROPERTIES
    QueueDrains
CHECK_DEADLOCK FALSE
