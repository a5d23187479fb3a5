SPECIFICATION FairSpec
CONSTANTS
    c1 = c1
    c2 = c2
    dds = dds
    console = console
    NoCommand = NoCommand
    Commands <- MCCommands
    Submitters <- MCSubmitters
    MaxHistory = 1
    MaxUndo = 1
INVARIANTS
    TypeOK
    UndoableIsApplied
    StacksBounded
    UrgentWakesUp
PROPERTIES
    EnqueuedIsTaken
    ImplementsCommandLog
