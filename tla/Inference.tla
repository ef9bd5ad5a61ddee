------------------------------ MODULE Inference ------------------------------
(***************************************************************************)
(* A request from its body to its response: the adapter is constructed on  *)
(* first use, the body is parsed as in InputParsing, the adapter of the    *)
(* configured type feeds the model and takes its outputs, and the          *)
(* predictions are formatted as the client, or else the settings, ask.     *)
(*                                                                         *)
(* The model is whatever its artifact makes of it: a prediction stands for *)
(* itself by its output, its place in the row and the values it was made   *)
(* from.  Outputs have one value or one row of values for each record, or  *)
(* one value for the whole batch.  MCInference enumerates what is served.  *)
(***************************************************************************)
EXTENDS InputParsing

VARIABLES loaded,      (* an adapter has been constructed                     *)
          predictions, (* what the adapter's predict has returned             *)
          response     (* the status, and the body and its media type         *)

served == <<loaded, predictions, response>>
inferenceVars == <<vars, served>>

Unset == ""
NoPredictions == [kind |-> "none"]
NoResponse == [status |-> 0]
NoOutputMap == [kind |-> "none"]
OutputMap(pairs) == [kind |-> "object", pairs |-> pairs]

(* A model has outputs, each of some shape; the keys of a JSON object      *)
(* differ.                                                                 *)
IsModel(m) ==
    /\ IsSequence(m.inputs)
    /\ IsSequence(m.outputs) /\ m.outputs # <<>>
    /\ \A o \in ToSet(m.outputs) : m.shape[o] \in {"value", "row", "whole"}
    /\ m.returns \in {"tensor", "tuple", "dict"}
IsOutputMap(m) ==
    \/ m \in {NoOutputMap, Malformed}
    \/ /\ m.kind = "object"
       /\ IsSequence(m.pairs)
       /\ \A k, l \in DOMAIN m.pairs : m.pairs[k].key = m.pairs[l].key => k = l

ASSUME ServedAssumption ==
    \A f \in Inputs : \A s \in f.settings :
        IsModel(s.model) /\ IsOutputMap(s.outputMap) /\ s.outputIndex \in Int

InferenceInit ==
    /\ Init
    /\ loaded = FALSE
    /\ predictions = NoPredictions
    /\ response = NoResponse

(* The transports answer a ValueError with 400 or INVALID_ARGUMENT, any    *)
(* other exception with 500 or INTERNAL.                                   *)
Refuse(exception) ==
    response' = [status |-> IF exception = "ValueError" THEN 400 ELSE 500]

(* The adapter's constructor.  Of the ways it can fail, AdapterSelection   *)
(* has the missing files; ONNX_OUTPUT_MAP_JSON may be no JSON object.      *)
LoadAdapter ==
    /\ ~loaded
    /\ response = NoResponse
    /\ \/ /\ settings.type = "onnx" /\ settings.outputMap = Malformed
          /\ Refuse("ValueError")
          /\ UNCHANGED loaded
       \/ /\ ~(settings.type = "onnx" /\ settings.outputMap = Malformed)
          /\ loaded' = TRUE
          /\ UNCHANGED response
    /\ UNCHANGED <<vars, predictions>>

Parse ==
    /\ loaded
    /\ Next
    /\ UNCHANGED served

RefuseBody ==
    /\ outcome \in {"bad_request", "internal_error"}
    /\ response = NoResponse
    /\ Refuse(IF outcome = "bad_request" THEN "ValueError" ELSE "TypeError")
    /\ UNCHANGED <<vars, loaded, predictions>>

------------------------------------------------------------------------------
(* What the adapters make of a ParsedInput.  The multi-input path names    *)
(* its tensors; a tensor with a word in it is an array of text.            *)

WithType(a, dtype) ==
    [ndim |-> a.ndim, rows |-> a.rows, cols |-> a.cols, dtype |-> dtype]
IsText(a) == \E i \in DOMAIN a.rows : ~IsNumeric(a.rows[i])

X == WithType(array, settings.dtype)

(* _infer_default_onnx_dtype, of the numbers as the client has written     *)
(* them: body.integers has the keys whose values are all integers.         *)
InferredDtype(key) == IF key \in body.integers THEN "int64" ELSE "float32"

Tensor(key) ==
    WithType(tensors[key], IF IsText(tensors[key]) THEN "text"
                           ELSE IF settings.dtypes THEN settings.dtype
                           ELSE InferredDtype(key))

(* OnnxAdapter._coerce *)
Coerce(a) ==
    CASE a.dtype \in {"float32", "float64"} -> [a EXCEPT !.dtype = "float32"]
      [] a.dtype \in {"int32", "int64"}     -> [a EXCEPT !.dtype = "int64"]
      [] OTHER                              -> a

BuildFeed ==
    IF tensors # <<>> THEN [key \in InputKeys |-> Coerce(Tensor(key))]
    ELSE LET name == IF settings.inputName # Unset THEN settings.inputName
                     ELSE settings.model.inputs[1]
         IN  [n \in {name} |-> Coerce(X)]

(* Mutant: every array becomes one row, without the test of ndim. *)
FeaturesAsOneRow ==
    LET a == IF tensors # <<>> THEN Tensor("a") ELSE X
        cells == FlattenSeq(a.rows)
    IN  [a EXCEPT !.ndim = 2, !.rows = <<cells>>, !.cols = Len(cells)]

(* The other adapters take X, or the first tensor only, and make a vector  *)
(* one row.                                                                *)
Features ==
    LET a == IF tensors # <<>> THEN Tensor("a") ELSE X
    IN  IF a.ndim = 1 THEN [a EXCEPT !.ndim = 2] ELSE a

(* astype(float32); torch casts floating point tensors only. *)
ToFloat32(a) == [a EXCEPT !.dtype = "float32"]
FloatsToFloat32(a) == IF a.dtype = "float64" THEN ToFloat32(a) ELSE a

------------------------------------------------------------------------------
(* The model.  settings.model has the names of its inputs and outputs, the *)
(* shape of each output, the width of its rows (0: any) and the dtype of   *)
(* its inputs, and what a call returns.                                    *)

Entries(a) == IF a.ndim = 1 THEN [i \in 1..a.cols |-> <<a.rows[1][i]>>] ELSE a.rows

Prediction(output, from, place) ==
    [kind |-> "prediction", output |-> output, from |-> from, at |-> place]

OutputOf(output, arrays) ==
    LET names == DOMAIN arrays
        batch == Len(Entries(arrays[CHOOSE n \in names : TRUE]))
        cells(i) == UNION {ToSet(Entries(arrays[n])[i]) : n \in names}
        shape == settings.model.shape[output]
    IN  CASE shape = "value" ->
                 List([i \in 1..batch |-> Prediction(output, cells(i), 1)])
          [] shape = "row" ->
                 List([i \in 1..batch |->
                          List([k \in 1..2 |-> Prediction(output, cells(i), k)])])
          [] shape = "whole" ->
                 Prediction(output, UNION {cells(i) : i \in 1..batch}, 1)

Fits(a) == settings.model.width \in {0, a.cols} \/ a.ndim = 1
OfDtype(a) == a.dtype = settings.model.dtype

(* onnxruntime reports missing inputs itself, with ValueError; of unknown  *)
(* names and arrays that do not fit its runtime complains.                 *)
RunSession(names, arrays) ==
    LET inputs == ToSet(settings.model.inputs)
    IN  IF ~ inputs \subseteq DOMAIN arrays THEN Failure("ValueError")
        ELSE IF \/ DOMAIN arrays # inputs
                \/ ~ ToSet(names) \subseteq ToSet(settings.model.outputs)
                \/ \E n \in inputs : ~(Fits(arrays[n]) /\ OfDtype(arrays[n]))
        THEN Failure("InvalidArgument")
        ELSE [outputs |-> [k \in DOMAIN names |-> OutputOf(names[k], arrays)]]

(* A tensor, a tuple of tensors or a dict of them. *)
Call(a) ==
    LET outputs == settings.model.outputs
        value(o) == OutputOf(o, [x |-> a])
    IN  CASE settings.model.returns = "tensor" -> value(outputs[1])
          [] settings.model.returns = "tuple"  ->
                 List([k \in DOMAIN outputs |-> value(outputs[k])])
          [] settings.model.returns = "dict"   ->
                 Object([o \in ToSet(outputs) |-> value(o)])

------------------------------------------------------------------------------
(* The adapters *)

(* if self._output_map: an empty object is as good as none. *)
HasOutputMap ==
    settings.outputMap # NoOutputMap /\ settings.outputMap.pairs # <<>>

Predicting(type) ==
    /\ settings.type = type
    /\ outcome = "predict"
    /\ predictions = NoPredictions
    /\ response = NoResponse

Return(value) ==
    /\ predictions' = value
    /\ UNCHANGED <<vars, loaded, response>>

Except(exception) ==
    /\ Refuse(exception)
    /\ UNCHANGED <<vars, loaded, predictions>>

Clamp(i, n) == Upper(0, Lower(i, n - 1))

(* Mutant: the session is asked for its outputs in its own order. *)
RequestedInOrder ==
    LET outputs == settings.model.outputs
    IN  IF HasOutputMap
        THEN SelectSeq(outputs, LAMBDA o : \E k \in DOMAIN settings.outputMap.pairs :
                                               settings.outputMap.pairs[k].name = o)
        ELSE IF settings.outputName # Unset THEN <<settings.outputName>>
        ELSE <<outputs[Clamp(settings.outputIndex, Len(outputs)) + 1]>>

(* The outputs of an output map, the output that is configured, or the one *)
(* at an index that is pushed back into the range.                         *)
Requested ==
    LET outputs == settings.model.outputs
    IN  IF HasOutputMap
        THEN [k \in DOMAIN settings.outputMap.pairs |-> settings.outputMap.pairs[k].name]
        ELSE IF settings.outputName # Unset THEN <<settings.outputName>>
        ELSE <<outputs[Clamp(settings.outputIndex, Len(outputs)) + 1]>>

(* zip: the k-th key of the map gets the k-th output. *)
Mapped(outputs) ==
    LET map == settings.outputMap.pairs
        keys == {map[k].key : k \in DOMAIN map}
    IN  Object([key \in keys |->
                   outputs[CHOOSE k \in DOMAIN map : map[k].key = key]])

PredictOnnx ==
    /\ Predicting("onnx")
    /\ LET result == RunSession(Requested, BuildFeed)
       IN  IF Raised(result) THEN Except(result.raises)
           ELSE IF HasOutputMap
           THEN Return(Mapped(result.outputs))
           ELSE Return(result.outputs[1])

(* scikit-learn has one output and refuses text and other widths with      *)
(* ValueError.                                                             *)
PredictSklearn ==
    /\ Predicting("sklearn")
    /\ IF Features.dtype = "text" \/ ~Fits(Features)
       THEN Except("ValueError")
       ELSE Return(Call(Features))

(* torch knows no text, and wants the dtype and width of its weights. *)
PredictPytorch ==
    /\ Predicting("pytorch")
    /\ LET a == FloatsToFloat32(Features)
       IN  IF a.dtype = "text" THEN Except("TypeError")
           ELSE IF ~(Fits(a) /\ OfDtype(a)) THEN Except("RuntimeError")
           ELSE Return(Call(a))

(* astype refuses text, Keras refuses other widths. *)
PredictTensorflow ==
    /\ Predicting("tensorflow")
    /\ LET a == ToFloat32(Features)
       IN  IF Features.dtype = "text" \/ ~Fits(a) THEN Except("ValueError")
           ELSE Return(Call(a))

------------------------------------------------------------------------------
(* format_output.  A media range is a type with or without parameters. *)

AcceptHeader ==
    IF body.accept # <<>> THEN body.accept
    ELSE IF body.sagemakerAccept # <<>> THEN body.sagemakerAccept
    ELSE settings.defaultAccept

(* Only the first media range counts, and only without parameters. *)
WantsCsv == Head(AcceptHeader) = [type |-> "csv", parameters |-> FALSE]

(* A list of lists is a table; anything else has a line for each item.     *)
TableLines ==
    LET items == ValuesOf(predictions)
        table == /\ predictions.kind = "list"
                 /\ items # <<>>
                 /\ \A i \in DOMAIN items : items[i].kind = "list"
    IN  [i \in DOMAIN items |-> IF table THEN items[i].items ELSE <<items[i]>>]

Json(value) == [status |-> 200, media |-> "json", value |-> value]
Csv(lines) == [status |-> 200, media |-> "csv", lines |-> lines]

FormatOutput ==
    /\ predictions # NoPredictions
    /\ response = NoResponse
    /\ response' =
         IF predictions.kind = "object" THEN Json(predictions)
         ELSE IF WantsCsv THEN Csv(TableLines)
         ELSE IF settings.predictionsOnly THEN Json(predictions)
         ELSE Json(Object([predictions |-> predictions]))
    /\ UNCHANGED <<vars, loaded, predictions>>

Answered == response # NoResponse /\ UNCHANGED inferenceVars

InferenceNext ==
    \/ LoadAdapter \/ Parse \/ RefuseBody
    \/ PredictOnnx \/ PredictSklearn \/ PredictPytorch \/ PredictTensorflow
    \/ FormatOutput
    \/ Answered

InferenceSpec == InferenceInit /\ [][InferenceNext]_inferenceVars

------------------------------------------------------------------------------
(* Properties *)

(* Every variable keeps its type, and nothing is predicted or answered     *)
(* with 200 before the body is parsed.                                     *)
InferenceTypeOK ==
    /\ TypeOK
    /\ loaded \in BOOLEAN
    /\ predictions.kind \in {"none", "prediction", "list", "object"}
    /\ response.status \in {0, 200, 400, 500}
    /\ response.status = 200 => predictions # NoPredictions
    /\ predictions # NoPredictions => outcome = "predict"

Leaves(value) ==
    UNION {ToSet(ValuesOf(ValuesOf(value)[i])) : i \in DOMAIN ValuesOf(value)}

(* The lists of predictions that a client finds in the response. *)
Lists ==
    IF response.media = "csv"
    THEN {[i \in DOMAIN response.lines |-> List(response.lines[i])]}
    ELSE IF response.value.kind = "object"
    THEN {ValuesOf(response.value.fields[key]) : key \in DOMAIN response.value.fields}
    ELSE {ValuesOf(response.value)}

PerRecord ==
    /\ \A o \in ToSet(settings.model.outputs) : settings.model.shape[o] # "whole"
    /\ settings.model.returns # "tuple"
    /\ settings.type # "onnx" /\ MultiInput => tensors["a"].ndim = 2

(* Where a model predicts record by record, every list of the response has *)
(* one item for each record of the body, in their order, made from that    *)
(* record alone.  (A framework other than ONNX takes a tensor of scalars   *)
(* for one row.)                                                           *)
AnswerPerRecord ==
    response.status = 200 /\ (MultiInput \/ Clear) /\ PerRecord =>
        LET count == IF MultiInput THEN Len(InputRecords) ELSE Len(Records)
            isOf(cell, i) == IF MultiInput THEN cell.at[1] = i
                             ELSE cell \in ToSet(Records[i])
        IN  \A list \in Lists :
                /\ Len(list) = count
                /\ \A i \in 1..count : \A p \in ToSet(ValuesOf(list[i])) :
                       \A cell \in p.from : isOf(cell, i)

(* No output is passed off as another one: a key of the response carries   *)
(* the output that ONNX_OUTPUT_MAP_JSON or the model gives that name, and  *)
(* a response without keys the one that the settings select.               *)
OutputsKeepTheirNames ==
    response.status = 200 =>
        LET outputs == settings.model.outputs
            isFrom(value, o) == \A p \in Leaves(value) : p.output = o
        IN  CASE settings.type = "onnx" /\ HasOutputMap ->
                     \A k \in DOMAIN settings.outputMap.pairs :
                         isFrom(response.value.fields[settings.outputMap.pairs[k].key],
                                settings.outputMap.pairs[k].name)
              [] settings.type = "onnx" /\ ~HasOutputMap ->
                     \A list \in Lists : \A i \in DOMAIN list :
                         \A p \in ToSet(ValuesOf(list[i])) :
                             IF settings.outputName # Unset
                             THEN p.output = settings.outputName
                             ELSE settings.outputIndex + 1 \in DOMAIN outputs =>
                                      p.output = outputs[settings.outputIndex + 1]
              [] settings.type # "onnx" /\ predictions.kind = "object" ->
                     \A o \in DOMAIN response.value.fields :
                         isFrom(response.value.fields[o], o)
              [] OTHER -> TRUE

(* README.md:28: predictions are formatted as JSON or CSV, honouring the   *)
(* Accept header.  A client whose first choice is CSV gets CSV.            *)
AcceptHonoured ==
    /\ response.status = 200
    /\ predictions.kind # "object"
    /\ body.accept # <<>>
    /\ Head(body.accept).type = "csv"
    => response.media = "csv"
==============================================================================
