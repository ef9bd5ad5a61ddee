--------------------------- MODULE MCInputParsing ---------------------------
(* The bodies and settings on which TLC checks InputParsing: all bodies of at *)
(* most MaxRows records of at most MaxCols values, words, objects, missing    *)
(* keys and blank lines among them.                                           *)
EXTENDS InputParsing

CONSTANTS MaxRows, MaxCols

(* Row i of the body, with w cells: the first is a word or a number. *)
RowCells(i, w, kind) ==
    [j \in 1..w |-> Cell(IF j = 1 THEN kind ELSE "number", i, j)]
RowChoices(i, widths) ==
    {RowCells(i, w, kind) : w \in widths, kind \in {"number", "word"}}

(* Sequences of at most n elements, the i-th out of Options(i). *)
SeqsUpTo(n, Options(_)) ==
    UNION {{s \in [1..k -> UNION {Options(i) : i \in 1..k}] :
               \A i \in 1..k : s[i] \in Options(i)} : k \in 0..n}

CsvLines(i) == {<<>>} \cup RowChoices(i, 1..MaxCols)
CsvBodies ==
    {[format |-> "csv", header |-> h, lines |-> l] :
        h \in BOOLEAN, l \in SeqsUpTo(MaxRows + 1, CsvLines)}

Rows(i) == {List(c) : c \in RowChoices(i, 0..MaxCols)}
FeatureRecords(i) == {Object([features |-> r]) : r \in Rows(i)}
Others(i) == {Cell("number", i, 1), Object([a |-> Cell("number", i, 1)])}

Values ==
    LET lists == {List(s) : s \in SeqsUpTo(MaxRows, Rows)}
                 \cup {List(s) : s \in SeqsUpTo(MaxRows, FeatureRecords)}
                 \cup {List(s) : s \in SeqsUpTo(MaxRows, Others)}
        plain == Rows(1) \cup FeatureRecords(1) \cup Others(1) \cup lists
    IN  plain \cup {Object([instances |-> v]) : v \in plain}

JsonBodies == {[format |-> "json", value |-> v] : v \in Values \cup {Malformed}}

JsonlLines(i) == Rows(i) \cup FeatureRecords(i) \cup Others(i) \cup {Malformed}
JsonlBodies ==
    {[format |-> "jsonl", lines |-> l] : l \in SeqsUpTo(MaxRows, JsonlLines)}

(* Records of named inputs, some without a key. *)
InputValues(i) ==
    {Cell("number", i, 1), Cell("word", i, 1), List(RowCells(i, 2, "number"))}
NamedRecords(i) ==
    UNION {{Object(f) : f \in [keys -> InputValues(i)]} : keys \in SUBSET InputKeys}
MultiBodies ==
    LET records == SeqsUpTo(MaxRows, NamedRecords)
    IN  {[format |-> "jsonl", lines |-> l] : l \in records}
        \cup {[format |-> "json", value |-> List(l)] : l \in records}
        \cup {[format |-> "json", value |-> v] : v \in NamedRecords(1) \cup Rows(1)}

OtherBodies == {[format |-> "unsupported"]}

IdSelectors == {NoSelector, Indexes(<<0>>), Indexes(<<-1>>), Slice(0, 1),
                Slice(-1, 1), BadSelector}
FeatureSelectors == {NoSelector, Indexes(<<1>>), Slice(1, MaxCols + 1)}

Plain == [inputMap |-> FALSE, hasHeader |-> "auto", skipBlank |-> TRUE,
          ids |-> NoSelector, features |-> NoSelector, numFeatures |-> 0,
          maxRecords |-> MaxRows, dynamicBatch |-> FALSE, dtypes |-> FALSE]

TableSettings ==
    {[Plain EXCEPT !.ids = i, !.features = f, !.numFeatures = n, !.maxRecords = m] :
        i \in IdSelectors, f \in FeatureSelectors, n \in {0, 1},
        m \in {1, MaxRows}}
CsvSettings ==
    {[Plain EXCEPT !.hasHeader = h, !.skipBlank = s, !.ids = i, !.maxRecords = m] :
        h \in {"auto", "true", "false", "yes"}, s \in BOOLEAN,
        i \in IdSelectors \ {BadSelector}, m \in {1, MaxRows}}
MultiSettings ==
    {[Plain EXCEPT !.inputMap = TRUE, !.dynamicBatch = d, !.dtypes = t,
                   !.maxRecords = m] : d, t \in BOOLEAN, m \in {1, MaxRows}}

MCInputs ==
    {[bodies |-> CsvBodies, settings |-> CsvSettings],
     [bodies |-> JsonBodies \cup JsonlBodies \cup OtherBodies,
      settings |-> TableSettings],
     [bodies |-> MultiBodies \cup CsvBodies, settings |-> MultiSettings]}
==============================================================================
