SPECIFICATION Spec
CONSTANTS
    Names <- MCNames
    Words <- MCWords
    Opaques <- MCOpaques
    Statuses <- MCStatuses
INVARIANTS
    TypeOK
    ReadsWhatWasPacked
    WholeMessageUnpacks
    PanicsOnlyWhenCut
CHECK_DEADLOCK FALSE
