CONSTANTS
    MaxRows = 2
    MaxCols = 2
    Inputs <- MCServed
SPECIFICATION InferenceSpec
INVARIANTS InferenceTypeOK OneRowPerRecord IdsSplitFromFeatures RecordsBounded TensorsAligned AnswerPerRecord OutputsKeepTheirNames
