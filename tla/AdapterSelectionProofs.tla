------------------------ MODULE AdapterSelectionProofs ------------------------
(***************************************************************************)
(* Theorems about AdapterSelection, for any names that are deployed or     *)
(* configured, whatever is deployed when.                                  *)
(***************************************************************************)
EXTENDS AdapterSelection, TLAPS

(* The settings never change, and a type that is chosen is the configured  *)
(* one if there is one.                                                    *)
IInv ==
    /\ TypeOK
    /\ NeverAnotherName
    /\ ExplicitTypeObeyed
    /\ modelFilename \in Filenames
    /\ chosen # Unset /\ modelType # Unset => chosen = modelType

(* What PathOf names is a name, and where it can be opened it is the       *)
(* configured one without its directories.                                 *)
LEMMA PathIsAName ==
  ASSUME modelFilename \in Filenames, NEW type \in Types
  PROVE  PathOf(type) \in Names
  <1>1. CASE modelFilename = Unset
    BY <1>1 DEF PathOf, DefaultName, Types, Names
  <1>2. CASE modelFilename # Unset
    BY <1>2, NamesAssumption DEF PathOf, BaseName, Names
  <1>3. QED
    BY <1>1, <1>2

LEMMA OpenedIsConfigured ==
  ASSUME modelFilename \in Filenames, modelFilename # Unset,
         NEW type \in Types, Opens(type, PathOf(type))
  PROVE  PathOf(type) = BaseName(modelFilename)
  <1>1. CASE type = "onnx"
    BY <1>1 DEF PathOf
  <1>2. CASE type # "onnx"
    <2>1. PathOf(type) = modelFilename
      BY <1>2 DEF PathOf
    <2>2. modelFilename # "sub/model.onnx"
      BY <1>2, <2>1 DEF Opens, TypeOfName, Types, Unset
    <2>3. QED
      BY <2>1, <2>2 DEF BaseName
  <1>3. QED
    BY <1>1, <1>2

LEMMA ExplicitChosen == modelType # Unset => ChosenType = modelType
  BY DEF ChosenType

LEMMA FailuresNamed == \A type : FailureOf(type) \in Failures
  BY DEF FailureOf, OnnxFailure, FileFirstFailure, Failures

LEMMA InitIInv == Init => IInv
  BY DEF Init, IInv, TypeOK, NeverAnotherName, ExplicitTypeObeyed, Failures

LEMMA NextIInv == IInv /\ [Next]_vars => IInv'
  <1> SUFFICES ASSUME IInv, [Next]_vars PROVE IInv'
    OBVIOUS
  <1> USE DEF IInv, TypeOK, NeverAnotherName, ExplicitTypeObeyed, settings
  <1>1. CASE Choose
    <2>1. UNCHANGED <<settings, files, adapter, opened>> /\ adapter = Unset
      BY <1>1 DEF Choose
    <2>2. /\ chosen' \in Types \cup {Unset}
          /\ chosen' # Unset => chosen' = ChosenType
      BY <1>1 DEF Choose
    <2>3. failure' \in Failures
      BY <1>1 DEF Choose, Failures
    <2>4. QED
      BY <2>1, <2>2, <2>3, ExplicitChosen
  <1>2. CASE Build
    <2>1. UNCHANGED <<settings, files>> /\ chosen' = Unset /\ chosen \in Types
      BY <1>2 DEF Build
    <2>2. CASE UNCHANGED <<adapter, opened>>
      <3>1. failure' \in Failures
        BY <1>2, FailuresNamed DEF Build
      <3>2. QED
        BY <2>1, <2>2, <3>1
    <2>3. CASE /\ Opens(chosen, PathOf(chosen))
               /\ adapter' = chosen
               /\ opened' = PathOf(chosen)
               /\ UNCHANGED failure
      <3>1. opened' \in Names
        BY <2>1, <2>3, PathIsAName
      <3>2. modelFilename # Unset => opened' = BaseName(modelFilename)
        BY <2>1, <2>3, OpenedIsConfigured
      <3>3. BaseName(modelFilename)' = BaseName(modelFilename)
        BY <2>1 DEF BaseName
      <3>4. QED
        BY <2>1, <2>3, <3>1, <3>2, <3>3
    <2>4. QED
      BY <1>2, <2>2, <2>3 DEF Build
  <1>3. ASSUME NEW f \in Deployable, Deploy(f) PROVE IInv'
    BY <1>3 DEF Deploy
  <1>4. CASE Loaded \/ UNCHANGED vars
    BY <1>4 DEF Loaded, vars
  <1>5. QED
    BY <1>1, <1>2, <1>3, <1>4 DEF Next

THEOREM SelectionInvariant == Spec => []IInv
  BY InitIInv, NextIInv, PTL DEF Spec

(* Every variable keeps its type: only known adapters are ever built, and  *)
(* every failure is one of the listed.                                     *)
THEOREM TypeCorrect == Spec => []TypeOK
  <1>1. IInv => TypeOK
    BY DEF IInv
  <1>2. QED
    BY SelectionInvariant, <1>1, PTL

(* A configured MODEL_FILENAME is served or nothing is, whatever else lies *)
(* in the model directory.                                                 *)
THEOREM ConfiguredNameServed == Spec => []NeverAnotherName
  <1>1. IInv => NeverAnotherName
    BY DEF IInv
  <1>2. QED
    BY SelectionInvariant, <1>1, PTL

(* A configured MODEL_TYPE is served or nothing is. *)
THEOREM ConfiguredTypeServed == Spec => []ExplicitTypeObeyed
  <1>1. IInv => ExplicitTypeObeyed
    BY DEF IInv
  <1>2. QED
    BY SelectionInvariant, <1>1, PTL
==============================================================================
