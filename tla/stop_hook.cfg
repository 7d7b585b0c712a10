CONSTANTS
    None = None
    PathOrder <- ByteOrder
    Tracked <- InTheIndex
    Versions <- AllVersions
    Saves <- SomeSaves
    Origins <- Projects
SPECIFICATION StopHookSpec
INVARIANTS
    SnapshotOfOneMoment
    EveryChangeIsSeen
    ScheduleIsRight
    NothingAdoptedOutlives
    SilenceIsTruthful
PROPERTY EndpointAnswers
CHECK_DEADLOCK FALSE
