SPECIFICATION FairSpec
CONSTANTS
    MaxContainers = 3
INVARIANTS
    MarkerMeansStopped
    LaunchPrepared
    MarkerTellsEnd
PROPERTIES
    ShutdownAnnounced
CHECK_DEADLOCK FALSE
