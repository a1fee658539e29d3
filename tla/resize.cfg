CONSTANTS
  Issuer1 = issuer1
  Issuer2 = issuer2
  Attester = attester
  Wallet = {issuer1}
  Squatter = {}
  NullKey = nullKey
  Name <- OneName
  Nonce = {}
  MaxVersion = 1
  LamportsPerByte = 1
  MaxDataIncrease = 10240
  SignerList <- ListsUpTo2
  Description <- Descriptions
  Layout <- OneLayout
  FieldNames <- OneField
  Data = {}
  Expiry = {}
  InitialLamports = 1200
  TransferAmount = {170, 202}
  Payee <- CredentialAndSchema
  Issuer = {issuer1}
  MaxInstructions = 1
  MaxClock = 1
  MaxIssued = 1
SPECIFICATION Spec
INVARIANTS
  DataFitsAccount
  RentExempt
  LamportsConserved
