SPECIFICATION TaskSpec
CONSTANTS
    Texts <- MCTexts
    Rounds = {0, 3}
    MaxEdits = 2
INVARIANTS
    SpecsSound
    TasksSound
CHECK_DEADLOCK FALSE
