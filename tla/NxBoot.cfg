SPECIFICATION FairSpec
CONSTANTS
    a = a
    b = b
    x = x
    Images = {a, b, x}
    Native = {a, b}
    Erased = Erased
    NBlocks = 2
    EBlocks = 1
    Size <- MCSize
    Version <- MCVersion
    PreventDowngrade = TRUE
    SwResetOnly = TRUE
    WriteErrors = FALSE
INVARIANTS
    EndsWithValidImage Recoverable ConfirmAgree RevertIsTrusted
PROPERTIES AtomicSwitch BootCompletes NoUpdateLoop InstallCompletes
