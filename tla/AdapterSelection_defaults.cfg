SPECIFICATION Spec
CONSTANTS
  Deployable = {"model.onnx", "model.joblib", "model.pkl", "model.pt", "model.keras", "saved_model"}
  Filenames = {""}
INVARIANTS
  KnownDefaultServes
