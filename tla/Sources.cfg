SPECIFICATION FairSpec
CONSTANTS
    f1 = f1
    f2 = f2
    A = A
    B = B
    Files = {f1}
    Texts = {A, B}
    Nothing = Nothing
    Gone = Gone
    EDITS = 2
    RESTARTS = 1
INVARIANTS
    CopiesAreLists
    NothingMissed
PROPERTIES
    EndsInPlace
    EndsFetched
