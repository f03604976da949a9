CONSTANTS
    Rows = 2
    Cols = 2
    Byte = 3
    Letters = {a}
    Enter = enter
    Backspace = backspace
    Nul = nul
    Arrows = {}
    Modifiers = {shift}
    PromptLens <- MCPromptLens
    UserSize = 2
    MaxDown = 1
    MaxScan = 2

SPECIFICATION TypingSpec
PROPERTY WaitsEnd
CHECK_DEADLOCK FALSE
