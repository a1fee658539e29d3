CONSTANTS
  Issuer1 = issuer1
  Issuer2 = issuer2
  Attester = attester
  Wallet = {issuer1, issuer2}
  Squatter = {issuer2}
  NullKey = nullKey
  Name <- OneName
  Nonce = {nonce1}
  MaxVersion = 1
  LamportsPerByte = 0
  MaxDataIncrease = 10240
  SignerList <- Issuer2Lists
  Description <- OneDescription
  Layout <- OneLayout
  FieldNames <- OneField
  Data <- OneDatum
  Expiry = {0}
  InitialLamports = 4
  TransferAmount = {}
  Payee = {issuer1}
  Issuer = {issuer1, issuer2}
  MaxInstructions = 2
  MaxClock = 1
  MaxIssued = 1
SPECIFICATION Spec
INVARIANTS
  PdaBinding
  Lineage
PROPERTIES
  OnlyAuthorisedChanges
  PausedSchemasFrozen
