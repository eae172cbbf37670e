\* The reply parser over crafted replies, each with either content of the
\* bytes past the datagram.  The walk of one reply ends: no deadlock check.
CONSTANTS
    Messages <- MCMessages
    Fills <- MCFills
SPECIFICATION Spec
INVARIANTS
    TypeOK
    NoAssertFailure
    NameWithinBuffer
    NamesDecodeAsRFC
CHECK_DEADLOCK FALSE
