----------------------------- MODULE MCInference -----------------------------
(* What TLC serves with Inference: all the bodies of MCInputParsing with one  *)
(* model that takes everything, and a few bodies with every adapter, kind of  *)
(* model, choice of outputs and Accept header.                                *)
EXTENDS Inference, MCInputParsing

Media(type, parameters) == [type |-> type, parameters |-> parameters]
AcceptCsv == <<Media("csv", FALSE)>>
AcceptJson == <<Media("json", FALSE)>>

(* Bodies that come without headers, and settings of a service. *)
Bare(bodies) ==
    {b @@ [accept |-> <<>>, sagemakerAccept |-> <<>>, integers |-> {}] :
        b \in bodies}
Written(bodies) ==
    {[b EXCEPT !.integers = keys] :
        b \in Bare(bodies), keys \in {{}, {"a"}, InputKeys}}
Service ==
    [type |-> "onnx", dtype |-> "float32", inputName |-> Unset,
     outputName |-> Unset, outputIndex |-> 0, outputMap |-> NoOutputMap,
     predictionsOnly |-> TRUE, defaultAccept |-> AcceptJson]

OneInput ==
    [inputs |-> <<"x">>, outputs |-> <<"label", "scores">>, width |-> 0,
     dtype |-> "float32", shape |-> [label |-> "value", scores |-> "row"],
     returns |-> "tensor"]
TwoInputs == [OneInput EXCEPT !.inputs = <<"a", "b">>]

Serving(model, choices) ==
    {s @@ [model |-> model] @@ Service : s \in choices}

(* A few bodies, with the headers that clients send. *)
Row(i) == List(RowCells(i, 2, "number"))
SomeTables ==
    {[format |-> "csv", header |-> FALSE,
      lines |-> <<RowCells(1, 2, "number"), RowCells(2, 2, "number")>>],
     [format |-> "json", value |-> List(<<Row(1), Row(2)>>)],
     [format |-> "json", value |-> List(<<Cell("number", 1, 1)>>)],
     [format |-> "jsonl", lines |-> <<Row(1), Row(2)>>]}
Named(i, value) == Object([a |-> value, b |-> value])
SomeTensors ==
    {[format |-> "json", value |-> List(<<Named(1, Row(1)), Named(2, Row(2))>>)],
     [format |-> "jsonl", lines |-> <<Named(1, Cell("number", 1, 1)),
                                      Named(2, Cell("number", 2, 1))>>],
     [format |-> "json", value |-> Named(1, Cell("word", 1, 1))]}
Headers ==
    {<<>>, AcceptCsv, AcceptJson, <<Media("csv", TRUE)>>, <<Media("any", FALSE)>>,
     <<Media("json", TRUE), Media("csv", FALSE)>>}
Asked(bodies) ==
    {b @@ [accept |-> a, sagemakerAccept |-> s, integers |-> {}] :
        b \in bodies, a \in Headers, s \in {<<>>, AcceptCsv}}

(* Every kind of model. *)
Models ==
    {[OneInput EXCEPT !.inputs = i, !.width = w, !.dtype = d, !.shape = s,
                      !.returns = r] :
        i \in {<<"x">>, <<"a", "b">>}, w \in {0, 2}, d \in {"float32", "int64"},
        s \in {OneInput.shape, [label |-> "row", scores |-> "whole"]},
        r \in {"tensor", "tuple", "dict"}}
OnnxChoices ==
    LET map(k, o) == [key |-> k, name |-> o]
    IN  {[Service EXCEPT !.inputName = "x"], [Service EXCEPT !.inputName = "y"],
         [Service EXCEPT !.outputName = "scores"],
         [Service EXCEPT !.outputName = "nothing"],
         [Service EXCEPT !.outputMap = OutputMap(<<map("p", "scores"),
                                                        map("q", "label")>>)],
         [Service EXCEPT !.outputMap = OutputMap(<<map("p", "label")>>)],
         [Service EXCEPT !.outputMap = OutputMap(<<>>)],
         [Service EXCEPT !.outputMap = Malformed]}
        \cup {[Service EXCEPT !.outputIndex = i] : i \in {-1, 0, 1, 2}}
Adapters ==
    OnnxChoices
    \cup {[Service EXCEPT !.type = t] : t \in {"sklearn", "pytorch", "tensorflow"}}
(* scikit-learn's predict returns one array; only ONNX names its inputs. *)
Deployments(plain) ==
    LET all == {plain @@ [model |-> m] @@ [c EXCEPT !.dtype = d, !.defaultAccept = a] :
                   m \in Models, c \in Adapters, d \in {"float64", "int32"},
                   a \in {AcceptJson, AcceptCsv}}
    IN  {d \in all :
            /\ d.type \in {"onnx", "sklearn"} => d.model.returns = "tensor"
            /\ d.type # "onnx" => d.model.inputs = <<"x">>}

(* Every way to ask for a format, of a value, a table, a tuple and a dict. *)
Formats ==
    {Plain @@ [model |-> [OneInput EXCEPT !.returns = r, !.outputs = o]] @@
         [Service EXCEPT !.type = "pytorch", !.predictionsOnly = p,
                         !.defaultAccept = a] :
        r \in {"tensor", "tuple", "dict"}, p \in BOOLEAN,
        o \in {<<"label", "scores">>, <<"scores">>}, a \in {AcceptJson, AcceptCsv}}

MCServed ==
    {[bodies |-> Bare(CsvBodies), settings |-> Serving(OneInput, CsvSettings)],
     [bodies |-> Bare(JsonBodies \cup JsonlBodies \cup OtherBodies),
      settings |-> Serving(OneInput, TableSettings)],
     [bodies |-> Bare(MultiBodies \cup CsvBodies),
      settings |-> Serving(TwoInputs, MultiSettings)],
     [bodies |-> Bare(SomeTables), settings |-> Deployments(Plain)],
     [bodies |-> Asked(SomeTables), settings |-> Formats],
     [bodies |-> Written(SomeTensors),
      settings |-> UNION {Deployments([Plain EXCEPT !.inputMap = TRUE, !.dtypes = t]) :
                              t \in BOOLEAN}]}
==============================================================================
