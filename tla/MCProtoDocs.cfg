SPECIFICATION Spec
CONSTANTS
  Creator = "create"
  JsonPuts = {"json", "again"}
  ProtoPuts = {"proto"}
  Envelopes = {"env"}
  Deletes = {"del"}
  Gets = {"get"}
  AttEdits = {"att"}
  NoIds = {"noid"}
  Payload <- MCPayload
  SchemaDocs <- MCSchemaDocs
  SetOf <- MCSetOf
  Uploads <- MCUploads
  MaxSeq = 2
  MaxSchemaSeq = 2
  Mixes <- MCMixes
INVARIANTS FlagIsHeeded RegistryIsCurrent
CHECK_DEADLOCK FALSE
