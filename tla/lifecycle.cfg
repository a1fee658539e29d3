CONSTANTS
  Issuer1 = issuer1
  Issuer2 = issuer2
  Attester = attester
  Wallet = {issuer1, attester}
  Squatter = {}
  NullKey = nullKey
  Name <- OneName
  Nonce = {nonce1}
  MaxVersion = 2
  LamportsPerByte = 0
  MaxDataIncrease = 10240
  SignerList <- AttesterLists
  Description <- OneDescription
  Layout <- LayoutsAndInvalid
  FieldNames <- OneField
  Data <- TwoData
  Expiry = {0, 1}
  InitialLamports = 4
  TransferAmount = {}
  Payee <- AttesterPayee
  Issuer = {issuer1}
  MaxInstructions = 1
  MaxClock = 2
  MaxIssued = 1
SPECIFICATION Spec
INVARIANTS
  TypeOK
  PdaBinding
  VersionsContiguous
  AttestationsConform
PROPERTIES
  SchemasPermanent
