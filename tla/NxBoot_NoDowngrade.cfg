SPECIFICATION Spec
CONSTANTS
    a = a
    b = b
    x = x
    Images = {a, b}
    Native = {a, b}
    Erased = Erased
    NBlocks = 3
    EBlocks = 2
    Size <- MCSize
    Version <- MCVersion
    PreventDowngrade = TRUE
    SwResetOnly = FALSE
    WriteErrors = FALSE
INVARIANTS
    NoDowngrade
