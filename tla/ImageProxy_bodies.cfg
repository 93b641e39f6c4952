\* Every body of up to three pieces, wherever the parser stops in it.
SPECIFICATION FairSpec
CONSTANTS
    MaxPieces = 3
INVARIANTS
    TypeOK
    AuditWhole
    NothingUnseen
PROPERTIES
    BothEnd
