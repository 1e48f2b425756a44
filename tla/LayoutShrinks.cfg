SPECIFICATION Spec
CONSTANTS
    NumPages = 4
    PageSize = 8
    IntSize = 1
    StrSize = 3
    Word = 65536
    RangeSets <- ShrinkingApplication
    Amounts <- FewAmounts
    Chars <- Letters
    IntNames <- NineNames
    StrNames <- FiveNames
    Queries <- SomeQueries
    NUL = NUL
    NULL = NULL
INVARIANT WritesApart
