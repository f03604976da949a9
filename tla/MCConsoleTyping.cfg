CONSTANTS
    Rows = 2
    Cols = 2
    Byte = 4
    Letters = {a}
    Enter = enter
    Backspace = backspace
    Nul = nul
    Arrows = {"left", "right"}
    Modifiers = {shift}
    PromptLens <- MCPromptLens
    UserSize = 2
    MaxDown = 1
    MaxScan = 2

SPECIFICATION TypingSpec
INVARIANT TypeOK
PROPERTY WaitsEndUnlessStuck
CHECK_DEADLOCK FALSE
