SPECIFICATION Spec
CONSTANTS
    LittleEndian = TRUE
    Classes = {"address_v6"}
    Tokens <- MCTokens
    OddTokens <- MCOddTokens
    MaxTokens <- MCMaxTokens
    Specs <- MCSpecs
INVARIANTS GapStandsForZeros
CHECK_DEADLOCK FALSE
