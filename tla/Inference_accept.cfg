CONSTANTS
    MaxRows = 2
    MaxCols = 2
    Inputs <- MCServed
SPECIFICATION InferenceSpec
INVARIANT AcceptHonoured
