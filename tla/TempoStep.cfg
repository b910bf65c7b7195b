SPECIFICATION StepSpec
CONSTANTS
    Kinds <- AllKinds
INVARIANTS
    StepTypeOK
    VerdictIsReal
    PiContained
PROPERTIES
    StepEnds
CHECK_DEADLOCK FALSE
