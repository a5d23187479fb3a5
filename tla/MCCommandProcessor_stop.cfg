SPECIFICATION FairSpec
CONSTANTS
    c1 = c1
    c2 = c2
    dds = dds
    console = console
    NoCommand = NoCommand
    Commands <- MCCommands
    Submitters <- MCOneSubmitter
    MaxHistory = 1
    MaxUndo = 1
PROPERTIES
    StopCompletes
