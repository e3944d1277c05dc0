\* A parallel tool reports progress and finishes.
SPECIFICATION FairSpec
CONSTANTS
    CallCount = 2
    ParallelTools = 2
    ProgressBuffer = 2
    MaxReports = 1
PROPERTIES
    UpdatesBeforeCompletion
