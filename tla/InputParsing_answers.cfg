CONSTANTS
    MaxRows = 2
    MaxCols = 2
    Inputs <- MCInputs
SPECIFICATION Spec
INVARIANT BadInputIs400
