SPECIFICATION Spec
CONSTANTS
    LittleEndian = TRUE
    Classes <- MCClasses
    Tokens <- MCTokens
    OddTokens <- MCOddTokens
    MaxTokens <- MCMaxTokens
    Specs <- MCSpecs
INVARIANTS
    TypeOK
    MeansItsText
    ReadsBack
    UncheckAgrees
    LongestGap
    MappedV4
CHECK_DEADLOCK FALSE
