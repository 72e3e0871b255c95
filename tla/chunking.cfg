SPECIFICATION FairSpec
CONSTANTS
    MaxLength = 6
    MaxSize = 4
    Separators = 5
    Texts <- MCTexts
    Sizes <- MCSizes
INVARIANTS TypeOK WindowsTile ChunksOverlap RoundTrip ShortTextIsOneChunk CutsAreNatural AnotherPiece
PROPERTIES EveryStepCounts Ends
CHECK_DEADLOCK FALSE
