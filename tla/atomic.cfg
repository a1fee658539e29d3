CONSTANTS
  Issuer1 = issuer1
  Issuer2 = issuer2
  Attester = attester
  Wallet = {issuer1}
  Squatter = {}
  NullKey = nullKey
  Name <- OneName
  Nonce = {nonce1, nonce2}
  MaxVersion = 1
  LamportsPerByte = 0
  MaxDataIncrease = 10240
  SignerList <- OneList
  Description <- OneDescription
  Layout <- OneLayout
  FieldNames <- OneField
  Data <- OneDatum
  Expiry = {0, 1}
  InitialLamports = 6
  TransferAmount = {1}
  Payee <- AttestationAndIssuer
  Issuer = {issuer1}
  MaxInstructions = 3
  MaxClock = 2
  MaxIssued = 3
SPECIFICATION Spec
INVARIANTS
  EventAccounting
PROPERTIES
  FundsSafe
  ImplementsRegistry
