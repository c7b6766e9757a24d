SPECIFICATION Spec
CONSTANTS
    Ids = {r1, r2, r3}
    Fields <- MCFields
    Values = {v}
    Optional = {"channel"}
    Unlisted = other
    NULL = NULL
    MaxIndex = 4
INVARIANTS
    
    LastMatchDecides
    InsertedWhereAsked

    
