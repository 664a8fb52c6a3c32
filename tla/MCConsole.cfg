SPECIFICATION Spec
CONSTANTS
    Cols = 5
    Rows = 3
    BackLines = 2
    Spots <- MCSpots
    Typed <- MCTyped
    MaxCmd = 8
    HistCount = 2
    HistLen = 3
    ClearWidth = 6
    MaxMatches = 2
    TabMargin = 1
    BootRow = 1
    Commands <- MCCommands
    Listings <- MCListings
    Texts <- MCTexts
    EditLine <- MCEditLine
    MaxText = 5
    EditCols = 2
    EditRows = 2
    MaxKeys = 5
    MaxEdits = 3
    MaxBoth = 5
INVARIANT ShowsLine
INVARIANT CtrlIsHeld
PROPERTY LiveScreenKept
PROPERTY EditorIsText
PROPERTY MovesByRows
