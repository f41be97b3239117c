SPECIFICATION FairSpec
CONSTANTS
    e1 = e1
    e2 = e2
    e3 = e3
    Executable <- MCExecutable
    SymbolsOf <- MCSymbolsOf
INVARIANTS
    TypeOK
    LinksAreKnown
PROPERTIES
    AttachedInTheEnd
CHECK_DEADLOCK FALSE
