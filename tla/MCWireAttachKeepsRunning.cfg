SPECIFICATION Spec
CONSTANTS
    e1 = e1
    e2 = e2
    e3 = e3
    Executable <- MCExecutable
    SymbolsOf <- MCSymbolsOf
INVARIANT
    KeepsRunning
CHECK_DEADLOCK FALSE
