CONSTANTS
    Width = 4
    Height = 5
    Word16 = 32
    Letters = {"x", "y"}
    BufSize = 4
    ArgSize = 3
    MaxLines = 3
    MaxRow = 6
    MaxOthers = 1
SPECIFICATION ShellSpec
VIEW ShellView
INVARIANTS
    ShellTypeOK
    ArgvIsTyped
    LineAsShown
    CursorInLine
CHECK_DEADLOCK FALSE
