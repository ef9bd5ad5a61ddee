--------------------------- MODULE AdapterSelection ---------------------------
(***************************************************************************)
(* load_adapter after the registry: which adapter is built for MODEL_TYPE, *)
(* MODEL_FILENAME and the files of the model directory, and which file     *)
(* that adapter opens.  The type is chosen first and the file is opened    *)
(* later; files may be deployed in between and between two attempts, since *)
(* every probe and invocation tries again until a load succeeds.           *)
(*                                                                         *)
(* Names stand for classes of names with the same suffix; a file that is   *)
(* there can be opened; case and white space of settings are left out.     *)
(***************************************************************************)
EXTENDS Naturals

CONSTANTS Deployable,    \* the files that may be in the model directory
          Filenames      \* the values MODEL_FILENAME may have

Types == {"onnx", "sklearn", "pytorch", "tensorflow"}
Unset == ""

Names == {"model.onnx", "model.joblib", "model.pkl", "model.pt", "model.keras",
          "saved_model", "custom.onnx", "custom.pt", "weights.bin",
          "sub/model.onnx"}

ASSUME NamesAssumption ==
    Deployable \subseteq Names /\ Filenames \subseteq Names \cup {Unset}

VARIABLES modelType,     (* MODEL_TYPE                                        *)
          modelFilename, (* MODEL_FILENAME                                    *)
          extras,        (* the frameworks that are installed                 *)
          files,         (* the files of the model directory                  *)
          chosen,        (* the type chosen by the attempt under way          *)
          adapter,       (* the type of the loaded adapter, or Unset          *)
          opened,        (* the file it was loaded from, or Unset             *)
          failure        (* how the last failed attempt ended                 *)

settings == <<modelType, modelFilename, extras>>
vars == <<settings, files, chosen, adapter, opened, failure>>

Failures == {"none", "unknown_type", "no_artifact", "not_found",
             "missing_extra", "cannot_load"}

Init ==
    /\ modelType \in Types \cup {Unset, "xgboost"}
    /\ modelFilename \in Filenames
    /\ extras \in {Types, {}}
    /\ files \in SUBSET Deployable
    /\ chosen = Unset
    /\ adapter = Unset
    /\ opened = Unset
    /\ failure = "none"

------------------------------------------------------------------------------
(* _infer_model_type_from_filename and _infer_model_type_from_defaults *)

(* The type that the suffix of a name, or the content of a directory, says. *)
TypeOfName(f) ==
    CASE f \in {"model.onnx", "custom.onnx", "sub/model.onnx"} -> "onnx"
      [] f \in {"model.joblib", "model.pkl"} -> "sklearn"
      [] f \in {"model.pt", "custom.pt"} -> "pytorch"
      [] f \in {"model.keras", "saved_model"} -> "tensorflow"
      [] OTHER -> Unset

FromFilename == IF modelFilename \in files THEN TypeOfName(modelFilename) ELSE Unset

FromDefaults ==
    CASE "model.onnx" \in files -> "onnx"
      [] "model.onnx" \notin files
            /\ files \cap {"model.joblib", "model.pkl"} # {} -> "sklearn"
      [] files \cap {"model.onnx", "model.joblib", "model.pkl"} = {}
            /\ "model.pt" \in files -> "pytorch"
      [] files \cap {"model.onnx", "model.joblib", "model.pkl", "model.pt"} = {}
            /\ files \cap {"model.keras", "saved_model"} # {} -> "tensorflow"
      [] OTHER -> Unset

(* Mutant: what is found in the directory comes before MODEL_TYPE. *)
InferenceFirst ==
    IF FromDefaults # Unset THEN FromDefaults ELSE modelType

(* Mutant: the defaults come before MODEL_FILENAME. *)
DefaultsBeforeFilename ==
    IF modelType # Unset THEN modelType
    ELSE IF FromDefaults # Unset THEN FromDefaults
    ELSE FromFilename

(* An explicit type comes before MODEL_FILENAME, that before the defaults. *)
ChosenType ==
    IF modelType # Unset THEN modelType
    ELSE IF FromFilename # Unset THEN FromFilename
    ELSE FromDefaults

------------------------------------------------------------------------------
(* The adapters' constructors *)

DefaultName(type) ==
    CASE type = "onnx" -> "model.onnx"
      [] type = "sklearn" -> "model.joblib"
      [] type = "pytorch" -> "model.pt"
      [] type = "tensorflow" -> "model.keras"

BaseName(f) == IF f = "sub/model.onnx" THEN "model.onnx" ELSE f

(* Mutant: a MODEL_FILENAME that is not there is ignored. *)
PathIfThere(type) ==
    IF modelFilename \in files THEN modelFilename ELSE DefaultName(type)

(* The ONNX adapter drops the directories of MODEL_FILENAME. *)
PathOf(type) ==
    IF modelFilename = Unset THEN DefaultName(type)
    ELSE IF type = "onnx" THEN BaseName(modelFilename)
    ELSE modelFilename

------------------------------------------------------------------------------

(* Mutant: MODEL_TYPE is not validated. *)
ChooseUnvalidated ==
    /\ adapter = Unset
    /\ chosen = Unset
    /\ chosen' = ChosenType
    /\ UNCHANGED <<settings, files, adapter, opened, failure>>

(* A probe or an invocation needs an adapter and there is none. *)
Choose ==
    /\ adapter = Unset
    /\ chosen = Unset
    /\ \/ /\ ChosenType \in Types
          /\ chosen' = ChosenType
          /\ UNCHANGED failure
       \/ /\ ChosenType = Unset
          /\ failure' = "no_artifact"
          /\ UNCHANGED chosen
       \/ /\ ChosenType \notin Types \cup {Unset}
          /\ failure' = "unknown_type"
          /\ UNCHANGED chosen
    /\ UNCHANGED <<settings, files, adapter, opened>>

(* A framework refuses a file of another framework. *)
Opens(type, f) == f \in files /\ TypeOfName(f) \in {type, Unset}

(* The ONNX adapter imports its framework before it looks for the file,    *)
(* the others look for the file first.                                     *)
OnnxFailure ==
    CASE "onnx" \notin extras          -> "missing_extra"
      [] "onnx" \in extras /\ PathOf("onnx") \notin files -> "not_found"
      [] OTHER                         -> "cannot_load"

FileFirstFailure(type) ==
    CASE PathOf(type) \notin files     -> "not_found"
      [] PathOf(type) \in files /\ type \notin extras -> "missing_extra"
      [] OTHER                         -> "cannot_load"

FailureOf(type) ==
    IF type = "onnx" THEN OnnxFailure ELSE FileFirstFailure(type)

Build ==
    /\ chosen # Unset
    /\ \/ /\ chosen \in extras /\ Opens(chosen, PathOf(chosen))
          /\ adapter' = chosen
          /\ opened' = PathOf(chosen)
          /\ UNCHANGED failure
       \/ /\ ~(chosen \in extras /\ Opens(chosen, PathOf(chosen)))
          /\ failure' = FailureOf(chosen)
          /\ UNCHANGED <<adapter, opened>>
    /\ chosen' = Unset
    /\ UNCHANGED <<settings, files>>

(* Somebody puts a file into the model directory. *)
Deploy(f) ==
    /\ f \notin files
    /\ files' = files \cup {f}
    /\ UNCHANGED <<settings, chosen, adapter, opened, failure>>

(* The adapter is never loaded again. *)
Loaded ==
    /\ adapter # Unset
    /\ UNCHANGED vars

Next == Choose \/ Build \/ Loaded \/ \E f \in Deployable : Deploy(f)

Spec == Init /\ [][Next]_vars

(* Probes keep coming, and an attempt that has begun ends. *)
FairSpec == Spec /\ WF_vars(Choose) /\ WF_vars(Build)

------------------------------------------------------------------------------
(* Properties *)

(* Every variable keeps its type. *)
TypeOK ==
    /\ files \subseteq Deployable
    /\ chosen \in Types \cup {Unset}
    /\ adapter \in Types \cup {Unset}
    /\ opened \in Names \cup {Unset}
    /\ failure \in Failures

(* A MODEL_FILENAME that is wrong, or not deployed yet, never makes the    *)
(* service load an artifact of another name that lies beside it, although  *)
(* the type may have been inferred from that one.                          *)
NeverAnotherName ==
    adapter # Unset /\ modelFilename # Unset => opened = BaseName(modelFilename)

(* What lies in the directory never overrides MODEL_TYPE. *)
ExplicitTypeObeyed == adapter # Unset /\ modelType # Unset => adapter = modelType

(* An artifact deployed after the service has started is picked up without *)
(* a restart, by the adapter of its suffix, whatever failed before.        *)
DeployHeals ==
    (/\ modelFilename # Unset
     /\ modelFilename = BaseName(modelFilename)
     /\ modelFilename \in files
     /\ TypeOfName(modelFilename) # Unset
     /\ modelType \in {Unset, TypeOfName(modelFilename)}
     /\ extras = Types)
    ~> (adapter = TypeOfName(modelFilename) /\ opened = modelFilename)

(* README.md:20 lists the known default names from which the type is       *)
(* inferred when nothing is configured; such an artifact is found.         *)
KnownDefaultServes ==
    modelType = Unset /\ modelFilename = Unset => failure # "not_found"
==============================================================================
