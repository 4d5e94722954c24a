SPECIFICATION Spec
CONSTANTS
    MaxEdits = 1
    MaxCrashes = 1
    MaxFaults = 0
PROPERTIES
    CompletedIsFinal
CHECK_DEADLOCK FALSE
