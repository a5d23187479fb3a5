CONSTANTS
    p1 = p1
    Tubes <- MCTubes
    Points <- MCPoints
    Messages <- MCMessages
    Issued <- MCIssued
    Direct <- MCDirect
    MaxUndo = 1
    Overlapping = FALSE
SPECIFICATION Spec
INVARIANTS TypeOK EmergencyStopIsComplete
PROPERTIES UndoRestores UndoNeverLaunches
