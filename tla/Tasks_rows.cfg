SPECIFICATION Spec
CONSTANTS
    Polls <- MCPolls
    Caps <- MCCaps
    Polled = {1}
INVARIANTS
    TypeOK
    TimeLeftInBounds
PROPERTIES
    RowsDoNotDance
    ExpansionSurvives
    ActsOnWhatWasChosen
