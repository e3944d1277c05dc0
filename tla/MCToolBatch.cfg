\* Every mix of three serial, parallel and unknown tools over two slots.
SPECIFICATION FairSpec
CONSTANTS
    CallCount = 3
    ParallelTools = 2
    ProgressBuffer = 1
    MaxReports = 2
INVARIANTS
    TypeOK
    EveryCallAnswered
PROPERTIES
    AnnouncedResultIsFinal
    ImplementsTurn
    BatchEnds
