SPECIFICATION YieldSpec
CONSTANTS
    NoName = NoName
    PythonOnly = {"set"}
    Survivors <- ThreeTwo
    NPrompts = 3
    Target <- Targets
    Said <- WithSets
    Samples = 2
    Weights <- ThreeTwo
    Proceed = 7000
    Cautious = 6000
    PerStep = 1
    StepLimit = 2
    MaxRedo = 2
    MaxLines = 5
    MaxFaults = 1
INVARIANT
    GenerationsNeverRefuse
CHECK_DEADLOCK FALSE
