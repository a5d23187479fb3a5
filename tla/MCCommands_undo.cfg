CONSTANTS
    p1 = p1
    Tubes <- MCOneTube
    Points <- MCPoints
    Messages <- MCMessages
    Issued <- MCIssuedToOne
    Direct <- MCDirectToOne
    MaxUndo = 1
    Overlapping = TRUE
SPECIFICATION Spec
PROPERTY UndoNeverLaunches
