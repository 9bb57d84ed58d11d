SPECIFICATION Spec
CONSTANTS
    Ids = {1, 2, 3, 4}
    Words = {"a", "b"}
    MaxChanges = 2
    Reads <- MCReads
INVARIANTS
    TypeOK
    FoundIsNamed
    AnswerIsUnique
    MissingMeansAbsent
    ListIsComplete
    PagesDoNotMatter
PROPERTY
    ReadEnds
CHECK_DEADLOCK FALSE
