CONSTANTS
  Issuer1 = issuer1
  Holder = holder
  Wallet = {issuer1}
  Squatter = {}
  NullKey = nullKey
  Name <- OneName
  Nonce = {nonce1}
  MaxVersion = 1
  LamportsPerByte = 1
  MaxDataIncrease = 10240
  SignerList <- OneList
  Description <- OneDescription
  Layout <- OneLayout
  FieldNames <- OneField
  Data <- OneDatum
  Expiry = {0}
  InitialLamports = 2700
  TransferAmount = {}
  Payee = {issuer1}
  Issuer = {issuer1}
  MaxInstructions = 1
  MaxClock = 1
  MaxIssued = 2
  MaxSize = {1}
  MetadataLen = {200}
  MintSpace = {0, 653, 654}
  Recipient = {issuer1}
  TokenPayment = {170}
SPECIFICATION TokenizedSpec
INVARIANTS
  TokenAccountsExempt
  TokenLamportsConserved
