SPECIFICATION Spec
INVARIANTS
    TypeOK
    PublishedIsWhole
    BackedUpStays
PROPERTIES
    ForeignKept
    PublishedAtOnce
