CONSTANTS
    MaxBatch = 3
    MaxPieces = 6
    Labels <- MCLabels
    Invalid <- MCInvalid
    Within <- MCWithin
    Texts <- MCTexts
    Pieces <- MCPieces
SPECIFICATION ParsersSpec
INVARIANTS
    ReadsUpToDamage
    CoverageIsHonest
CHECK_DEADLOCK FALSE
