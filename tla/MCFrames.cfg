SPECIFICATION Spec
CONSTANTS
    Map <- MCMap
    Available = 1
    PageSize = 4
    PerPage = 2
    KEnd = 18
    Top = 60
    FirstPage = 8
INVARIANTS
    TypeOK
    OneUse
    StackPresent
CHECK_DEADLOCK TRUE
