---------------------------- MODULE InputParsing ----------------------------
(***************************************************************************)
(* From the body of a request to the input of the model: parse_payload,    *)
(* with its CSV, JSON, JSON Lines and ONNX multi-input paths, the batch    *)
(* limit that follows it, and the status a client sees when a stage        *)
(* raises (400 for a ValueError, 500 for anything else).  Both transports  *)
(* run this pipeline.                                                      *)
(*                                                                         *)
(* A number stands for itself by its place in the body; what it is worth   *)
(* is left out.  A word is text that float() refuses.  One action is one   *)
(* stage of the pipeline; MCInputParsing enumerates the bodies.            *)
(***************************************************************************)
EXTENDS Integers, Sequences, FiniteSets, SequencesExt

CONSTANT Inputs        (* families of bodies, and the settings they meet      *)

VARIABLES body,        (* what the client has sent                            *)
          settings,    (* the settings the parser reads                       *)
          stage,       (* the stage that comes next                           *)
          array,       (* the table: number of dimensions, rows, columns      *)
          ids,         (* the identifier columns of each row                  *)
          tensors,     (* the named inputs of the multi-input path            *)
          outcome      (* "predict" once the adapter is called, or the error  *)

vars == <<body, settings, stage, array, ids, tensors, outcome>>

------------------------------------------------------------------------------
(* JSON values.  A CSV cell is a number or a word. *)

Cell(kind, i, j) == [kind |-> kind, at |-> <<i, j>>]
List(items) == [kind |-> "list", items |-> items]
Object(fields) == [kind |-> "object", fields |-> fields]
Malformed == [kind |-> "malformed"]

HasKey(value, key) == value.kind = "object" /\ key \in DOMAIN value.fields
At(value, key) == IF HasKey(value, key) THEN value.fields[key] ELSE value

------------------------------------------------------------------------------
(* The bodies and settings that are modelled.  The cells of the i-th line  *)
(* or record know their place in it; no value nests deeper than a table.   *)

Cells == [kind : {"number", "word"}, at : Nat \X Nat]
IsSequence(s) == s \in Seq(ToSet(s))

IsRow(s, i) == s \in Seq(Cells) /\ \A j \in DOMAIN s : s[j].at = <<i, j>>
IsField(v, i) ==
    \/ v \in Cells /\ v.at = <<i, 1>>
    \/ v.kind = "list" /\ IsRow(v.items, i)
IsRecord(v, i) ==
    \/ IsField(v, i)
    \/ v.kind = "object" /\ \A key \in DOMAIN v.fields : IsField(v.fields[key], i)
IsValue(v) ==
    \/ IsRecord(v, 1)
    \/ /\ v.kind = "list"
       /\ IsSequence(v.items)
       /\ \A i \in DOMAIN v.items : IsRecord(v.items[i], i)

IsBody(b) ==
    \/ /\ b.format = "csv"
       /\ b.header \in BOOLEAN
       /\ IsSequence(b.lines)
       /\ \A i \in DOMAIN b.lines : IsRow(b.lines[i], i)
    \/ /\ b.format = "json"
       /\ b.value = Malformed \/ IsValue(At(b.value, "instances"))
    \/ /\ b.format = "jsonl"
       /\ IsSequence(b.lines)
       /\ \A i \in DOMAIN b.lines :
              b.lines[i] = Malformed \/ IsRecord(b.lines[i], i)
    \/ b.format = "unsupported"

------------------------------------------------------------------------------
(* numpy *)

NoArray == [ndim |-> 0, rows |-> <<>>, cols |-> 0]
Failure(exception) == [raises |-> exception]
Raised(result) == "raises" \in DOMAIN result

(* np_asarray: a scalar, a vector (its one row), or a matrix.  Lists of     *)
(* different lengths, or beside scalars, raise ValueError.                  *)
AsArray(value) ==
    IF value.kind # "list"
    THEN [ndim |-> 0, rows |-> << <<value>> >>, cols |-> 1]
    ELSE LET items == value.items
             lists == {i \in DOMAIN items : items[i].kind = "list"}
             widths == {Len(items[i].items) : i \in lists}
         IN  IF lists = {}
             THEN [ndim |-> 1, rows |-> <<items>>, cols |-> Len(items)]
             ELSE IF lists = DOMAIN items /\ Cardinality(widths) = 1
             THEN [ndim |-> 2, rows |-> [i \in lists |-> items[i].items],
                   cols |-> CHOOSE w \in widths : TRUE]
             ELSE Failure("ValueError")

BatchOf(a) == IF a.ndim = 1 THEN a.cols ELSE Len(a.rows)

(* astype: the first cell that is no number decides. *)
AsType(a) ==
    LET cells == UNION {{i} \X DOMAIN a.rows[i] : i \in DOMAIN a.rows}
        bad == {c \in cells : a.rows[c[1]][c[2]].kind # "number"}
        first == CHOOSE c \in bad : \A d \in bad :
                     c[1] < d[1] \/ (c[1] = d[1] /\ c[2] <= d[2])
    IN  IF bad = {} THEN a
        ELSE Failure(IF a.rows[first[1]][first[2]].kind = "word"
                     THEN "ValueError" ELSE "TypeError")

(* Mutant: the width is still that of the whole table. *)
ColumnsOfWholeWidth(a, indexes) ==
    IF \E k \in DOMAIN indexes : indexes[k] \notin (-a.cols)..(a.cols - 1)
    THEN Failure("IndexError")
    ELSE [ndim |-> 2, cols |-> a.cols,
          rows |-> [i \in DOMAIN a.rows |->
                       [k \in DOMAIN indexes |->
                           a.rows[i][(indexes[k] % a.cols) + 1]]]]

(* data[:, indexes], which counts negative indexes from the end. *)
Columns(a, indexes) ==
    IF \E k \in DOMAIN indexes : indexes[k] \notin (-a.cols)..(a.cols - 1)
    THEN Failure("IndexError")
    ELSE [ndim |-> 2, cols |-> Len(indexes),
          rows |-> [i \in DOMAIN a.rows |->
                       [k \in DOMAIN indexes |->
                           a.rows[i][(indexes[k] % a.cols) + 1]]]]

------------------------------------------------------------------------------
(* Column selectors: "", "1:", "0,-1", or something int() refuses. *)

NoSelector == [form |-> "none"]
Slice(from, to) == [form |-> "slice", from |-> from, to |-> to]
Indexes(s) == [form |-> "indexes", indexes |-> s]
BadSelector == [form |-> "malformed"]

Selectors ==
    {NoSelector, BadSelector}
    \cup [form : {"slice"}, from : Int, to : Int]
    \cup [form : {"indexes"}, indexes : Seq(Int)]

Lower(a, b) == IF a < b THEN a ELSE b
Upper(a, b) == IF a < b THEN b ELSE a

(* The members of a finite set of integers, in ascending order. *)
Ascending(I) ==
    CHOOSE h \in [1..Cardinality(I) -> I] :
        \A k, l \in DOMAIN h : k < l => h[k] < h[l]

UpTo(from, to) == [k \in 1..Upper(0, to - from) |-> from + k - 1]

ParseColSelector(selector, n) ==
    CASE selector.form = "none"    -> UpTo(0, n)
      [] selector.form = "slice"   ->
             UpTo(Upper(0, selector.from), Lower(n, selector.to))
      [] selector.form = "indexes" -> selector.indexes

(* Mutant: the id columns stay among the features. *)
FeatureColumnsWithIds ==
    LET used == IF settings.features # NoSelector
                THEN settings.features ELSE settings.ids
    IN  IF used = BadSelector THEN Failure("ValueError")
        ELSE Columns(array, ParseColSelector(settings.features, array.cols))

(* The features are the selected columns, or all but the id columns. *)
FeatureColumns ==
    LET n == array.cols
        used == IF settings.features # NoSelector
                THEN settings.features ELSE settings.ids
        idIdx == IF settings.ids = NoSelector THEN {}
                 ELSE ToSet(ParseColSelector(settings.ids, n))
    IN  IF used = BadSelector THEN Failure("ValueError")
        ELSE IF settings.features # NoSelector
        THEN Columns(array, ParseColSelector(settings.features, n))
        ELSE Columns(array, Ascending((0..(n - 1)) \ idIdx))

IdColumns ==
    IF settings.ids = NoSelector THEN NoArray
    ELSE IF settings.ids = BadSelector THEN Failure("ValueError")
    ELSE Columns(array, ParseColSelector(settings.ids, array.cols))

------------------------------------------------------------------------------
IsSettings(s) ==
    /\ {s.inputMap, s.skipBlank, s.dynamicBatch, s.dtypes} \subseteq BOOLEAN
    /\ {s.ids, s.features} \subseteq Selectors
    /\ {s.numFeatures, s.maxRecords} \subseteq Int

ASSUME InputsAssumption ==
    \A f \in Inputs : /\ \A b \in f.bodies : IsBody(b)
                      /\ \A s \in f.settings : IsSettings(s)

Init ==
    /\ \E f \in Inputs : body \in f.bodies /\ settings \in f.settings
    /\ stage = "load"
    /\ array = NoArray
    /\ ids = <<>>
    /\ tensors = <<>>
    /\ outcome = "none"

------------------------------------------------------------------------------
(* The stages.  An exception ends the request. *)

Raise(exception) ==
    /\ stage' = "done"
    /\ outcome' = IF exception = "ValueError"
                  THEN "bad_request" ELSE "internal_error"
    /\ UNCHANGED <<body, settings, array, ids, tensors>>

Store(result, next) ==
    IF Raised(result) THEN Raise(result.raises)
    ELSE /\ array' = result
         /\ stage' = next
         /\ UNCHANGED <<body, settings, ids, tensors, outcome>>

(* The multi-input path is for JSON and JSON Lines only. *)
MultiInput == settings.inputMap /\ body.format \in {"json", "jsonl"}

IsNumeric(line) == \A j \in DOMAIN line : line[j].kind = "number"
Filled(lines) == {i \in DOMAIN lines : lines[i] # <<>>}
NonBlank(lines) ==
    LET places == Ascending(Filled(lines))
    IN  [k \in DOMAIN places |-> lines[places[k]]]
Stripped(lines) ==
    LET full == Filled(lines)
    IN  IF full = {} THEN <<>>
        ELSE SubSeq(lines, CHOOSE i \in full : \A k \in full : i <= k,
                           CHOOSE i \in full : \A k \in full : i >= k)

(* Mutant: the header is looked for, and dropped, in every mode. *)
CsvRowsDropping(lines) ==
    LET kept == IF settings.skipBlank THEN NonBlank(Stripped(lines))
                ELSE Stripped(lines)
    IN  IF ~IsNumeric(kept[1]) \/ settings.hasHeader = "true"
        THEN Tail(kept) ELSE kept

(* The lines of a CSV body that are read as rows. *)
CsvRows(lines) ==
    LET kept == IF settings.skipBlank THEN NonBlank(Stripped(lines))
                ELSE Stripped(lines)
        dropHeader == \/ settings.hasHeader = "true"
                      \/ settings.hasHeader = "auto" /\ ~IsNumeric(kept[1])
    IN  IF dropHeader THEN Tail(kept) ELSE kept

(* _parse_csv: float() refuses blank cells and words. *)
LoadCsv ==
    /\ stage = "load"
    /\ body.format = "csv"
    /\ IF \/ Stripped(body.lines) = <<>>
          \/ settings.hasHeader \notin {"auto", "true", "false"}
          \/ \E i \in DOMAIN CsvRows(body.lines) :
                 LET line == CsvRows(body.lines)[i]
                 IN  line = <<>> \/ ~IsNumeric(line)
       THEN Raise("ValueError")
       ELSE Store(AsArray(List([i \in DOMAIN CsvRows(body.lines) |->
                                    List(CsvRows(body.lines)[i])])), "cast")

(* A single object may hold its features under a key. *)
LoadJson ==
    /\ stage = "load"
    /\ body.format = "json"
    /\ ~MultiInput
    /\ LET value == At(body.value, "instances")
       IN  IF value = Malformed THEN Raise("ValueError")
           ELSE Store(AsArray(IF HasKey(value, "features")
                              THEN List(<<value.fields["features"]>>)
                              ELSE value), "cast")

LoadJsonl ==
    /\ stage = "load"
    /\ body.format = "jsonl"
    /\ ~MultiInput
    /\ IF Malformed \in ToSet(body.lines) THEN Raise("ValueError")
       ELSE Store(AsArray(List([i \in DOMAIN body.lines |->
                                    At(body.lines[i], "features")])), "cast")

LoadUnsupported ==
    /\ stage = "load"
    /\ body.format = "unsupported"
    /\ Raise("ValueError")

(* A vector becomes one row. *)
Cast ==
    /\ stage = "cast"
    /\ Store(AsType(IF array.ndim = 1 THEN [array EXCEPT !.ndim = 2] ELSE array),
             "split")

(* _split_ids_and_features *)
Split ==
    /\ stage = "split"
    /\ IF array.ndim # 2 THEN Raise("ValueError")
       ELSE IF Raised(FeatureColumns) THEN Raise(FeatureColumns.raises)
       ELSE IF Raised(IdColumns) THEN Raise(IdColumns.raises)
       ELSE /\ array' = FeatureColumns
            /\ ids' = IdColumns.rows
            /\ stage' = "count"
            /\ UNCHANGED <<body, settings, tensors, outcome>>

ValidateFeatureCount ==
    /\ stage = "count"
    /\ IF settings.numFeatures > 0 /\ array.cols # settings.numFeatures
       THEN Raise("ValueError")
       ELSE /\ stage' = "limit"
            /\ UNCHANGED <<body, settings, array, ids, tensors, outcome>>

(* The keys of the input map, in its order. *)
InputKeys == {"a", "b"}

(* The records of the multi-input path; a single object is one record. *)
RawRecords ==
    IF body.format = "jsonl"
    THEN IF Malformed \in ToSet(body.lines) THEN Malformed ELSE List(body.lines)
    ELSE At(body.value, "instances")
InputRecords ==
    IF RawRecords.kind = "object" THEN <<RawRecords>>
    ELSE IF RawRecords.kind = "list" THEN RawRecords.items ELSE <<>>

(* Mutant: records without the key are passed over. *)
TensorOfPresent(key) ==
    LET present == SelectSeq(InputRecords, LAMBDA r : HasKey(r, key))
        tensor == AsArray(List([i \in DOMAIN present |-> present[i].fields[key]]))
    IN  IF ~Raised(tensor) /\ settings.dtypes THEN AsType(tensor) ELSE tensor

(* _build_tensor_for_input: without a configured dtype anything goes. *)
TensorOf(key) ==
    LET tensor == AsArray(List([i \in DOMAIN InputRecords |->
                                    InputRecords[i].fields[key]]))
    IN  IF \E i \in DOMAIN InputRecords : ~HasKey(InputRecords[i], key)
        THEN Failure("ValueError")
        ELSE IF ~Raised(tensor) /\ settings.dtypes THEN AsType(tensor) ELSE tensor

(* _parse_onnx_multi_input_payload *)
LoadMultiInput ==
    /\ stage = "load"
    /\ MultiInput
    /\ IF \/ InputRecords = <<>>
          \/ \E i \in DOMAIN InputRecords : InputRecords[i].kind # "object"
       THEN Raise("ValueError")
       ELSE LET failed == {key \in InputKeys : Raised(TensorOf(key))}
                sizes == {BatchOf(TensorOf(key)) : key \in InputKeys \ failed}
            IN  IF failed # {}
                THEN Raise(TensorOf(IF "a" \in failed THEN "a" ELSE "b").raises)
                ELSE IF settings.dynamicBatch
                          /\ (Cardinality(sizes) # 1 \/ \E n \in sizes : n <= 0)
                THEN Raise("ValueError")
                ELSE /\ tensors' = [key \in InputKeys |-> TensorOf(key)]
                     /\ stage' = "limit"
                     /\ UNCHANGED <<body, settings, array, ids, outcome>>

(* Mutant: the number of columns is compared. *)
LimitColumns ==
    /\ stage = "limit"
    /\ IF (IF tensors = <<>> THEN array.cols ELSE BatchOf(tensors["a"]))
              > settings.maxRecords
       THEN Raise("ValueError")
       ELSE /\ stage' = "done"
            /\ outcome' = "predict"
            /\ UNCHANGED <<body, settings, array, ids, tensors>>

(* batch_size looks at X, or at the first of the tensors; within the limit *)
(* the adapter is called.                                                  *)
LimitBatch ==
    /\ stage = "limit"
    /\ IF (IF tensors = <<>> THEN BatchOf(array) ELSE BatchOf(tensors["a"]))
              > settings.maxRecords
       THEN Raise("ValueError")
       ELSE /\ stage' = "done"
            /\ outcome' = "predict"
            /\ UNCHANGED <<body, settings, array, ids, tensors>>

Done == stage = "done" /\ UNCHANGED vars

Next ==
    \/ LoadCsv \/ LoadJson \/ LoadJsonl \/ LoadUnsupported \/ LoadMultiInput
    \/ Cast \/ Split \/ ValidateFeatureCount \/ LimitBatch
    \/ Done

Spec == Init /\ [][Next]_vars

------------------------------------------------------------------------------
(* Properties *)

(* Every variable keeps its type; past the split there is a matrix of      *)
(* numbers as wide as it says.                                             *)
TypeOK ==
    /\ stage \in {"load", "cast", "split", "count", "limit", "done"}
    /\ outcome \in {"none", "predict", "bad_request", "internal_error"}
    /\ stage = "done" <=> outcome # "none"
    /\ array.ndim \in 0..2
    /\ \A i \in DOMAIN array.rows : Len(array.rows[i]) = array.cols
    /\ stage = "count" => array.ndim = 2

(* What a client means by its body, whatever the parser does: the records, *)
(* each a sequence of values.                                              *)
ValuesOf(v) == IF v.kind = "list" THEN v.items ELSE <<v>>
Records ==
    CASE body.format = "csv" ->
             LET full == NonBlank(body.lines)
             IN  IF body.header /\ full # <<>> THEN Tail(full) ELSE full
      [] body.format = "json" ->
             LET value == At(At(body.value, "instances"), "features")
                 rows == ValuesOf(value)
             IN  IF \E i \in DOMAIN rows : rows[i].kind = "list"
                 THEN [i \in DOMAIN rows |-> ValuesOf(rows[i])]
                 ELSE <<rows>>
      [] body.format = "jsonl" ->
             [i \in DOMAIN body.lines |-> ValuesOf(At(body.lines[i], "features"))]
      [] OTHER -> <<>>

(* A CSV header can be told from the rows by CSV_HAS_HEADER or, if that is *)
(* "auto", because the first line is not numeric; there is a line of JSON  *)
(* Lines, and none is a number or an object with one for features.  Of     *)
(* other bodies the parser makes other records than the client meant.  (A  *)
(* JSON list without lists is one record.)                                 *)
Clear ==
    CASE body.format = "csv" ->
             LET full == NonBlank(body.lines)
             IN  /\ full # <<>>
                 /\ body.header <=> \/ settings.hasHeader = "true"
                                    \/ settings.hasHeader = "auto"
                                       /\ ~IsNumeric(full[1])
                 /\ Records # <<>>
      [] body.format = "jsonl" ->
             /\ body.lines # <<>>
             /\ \A i \in DOMAIN body.lines :
                    At(body.lines[i], "features").kind # "number"
      [] OTHER -> TRUE

Predicts == outcome = "predict" /\ ~MultiInput /\ Clear

(* The model gets one row for each record of the body, in the order of the *)
(* records, and every row only has values of its own record.               *)
OneRowPerRecord ==
    Predicts =>
        /\ Len(array.rows) = Len(Records)
        /\ \A i \in DOMAIN Records : ToSet(array.rows[i]) \subseteq ToSet(Records[i])

(* TABULAR_ID_COLUMNS alone, with indexes that are not negative, splits    *)
(* every record: its identifiers stay beside it and are not among its      *)
(* features, and no other value is lost.                                   *)
IdsSplitFromFeatures ==
    /\ Predicts
    /\ settings.ids # NoSelector
    /\ settings.features = NoSelector
    /\ settings.ids.form = "indexes" =>
           \A k \in DOMAIN settings.ids.indexes : settings.ids.indexes[k] >= 0
    => \A i \in DOMAIN Records :
           /\ ToSet(ids[i]) \cap ToSet(array.rows[i]) = {}
           /\ ToSet(ids[i]) \cup ToSet(array.rows[i]) = ToSet(Records[i])

(* No model sees more than MAX_RECORDS records of one request.             *)
RecordsBounded ==
    /\ Predicts => Len(Records) <= settings.maxRecords
    /\ outcome = "predict" /\ MultiInput =>
           Len(InputRecords) <= settings.maxRecords

(* Every named input has one entry for each record, in their order: the    *)
(* batch size, which looks at the first input only, is that of them all,   *)
(* ONNX_DYNAMIC_BATCH or not.                                              *)
TensorsAligned ==
    outcome = "predict" /\ MultiInput =>
        \A key \in InputKeys :
            LET t == tensors[key]
            IN  /\ BatchOf(t) = Len(InputRecords)
                /\ \A i \in DOMAIN InputRecords :
                       IF t.ndim = 1 THEN t.rows[1][i].at[1] = i
                       ELSE \A k \in DOMAIN t.rows[i] : t.rows[i][k].at[1] = i

(* README.md: 400 on bad input.  No body ends with 500.                    *)
BadInputIs400 == outcome # "internal_error"
==============================================================================
