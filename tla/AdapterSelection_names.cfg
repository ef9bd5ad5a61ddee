SPECIFICATION FairSpec
CONSTANTS
  Deployable = {"model.onnx", "model.pkl", "model.pt", "saved_model", "custom.pt", "weights.bin", "sub/model.onnx"}
  Filenames = {"", "model.onnx", "model.joblib", "model.pkl", "model.pt", "model.keras", "saved_model", "custom.onnx", "custom.pt", "weights.bin", "sub/model.onnx"}
INVARIANTS
  TypeOK
  NeverAnotherName
  ExplicitTypeObeyed
PROPERTIES
  DeployHeals
