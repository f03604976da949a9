CONSTANTS
    Rows = 3
    Cols = 2
    Byte = 4
    Letters = {a, b}
    Enter = enter
    Backspace = backspace
    Nul = nul
    Arrows = {"left"}
    Modifiers = {}
    PromptLens <- MCPromptLens
    UserSize = 2
    MaxDown = 2
    MaxScan = 2

SPECIFICATION MCSpec
INVARIANT CursorFollowsLine
PROPERTIES ImplementsLineEditor EndedLineReachesShell
CHECK_DEADLOCK FALSE
