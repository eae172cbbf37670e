\* Every crafted reply and one with a TXT answer of rdlength 0: the
\* parser must not crash on any of them.
CONSTANTS
    Messages <- MCMessagesTxt
    Fills <- MCFills
SPECIFICATION Spec
INVARIANT
    NoCrash
CHECK_DEADLOCK FALSE
