CONSTANTS
  Issuer1 = issuer1
  Holder = holder
  Wallet = {issuer1, holder}
  Squatter = {}
  NullKey = nullKey
  Name <- OneName
  Nonce = {nonce1, nonce2}
  MaxVersion = 1
  LamportsPerByte = 0
  MaxDataIncrease = 10240
  SignerList <- OneList
  Description <- OneDescription
  Layout <- OneLayout
  FieldNames <- OneField
  Data <- OneDatum
  Expiry = {0}
  InitialLamports = 6
  TransferAmount = {}
  Payee = {issuer1}
  Issuer = {issuer1}
  MaxInstructions = 2
  MaxClock = 1
  MaxIssued = 2
  MaxSize = {1, 2}
  MetadataLen = {200}
  MintSpace = {654}
  Recipient = {holder}
  TokenPayment = {}
SYMMETRY NonceSymmetry
SPECIFICATION TokenizedSpec
INVARIANTS
  TokensTypeOK
  MintsMatchAttestations
  SupplyAtTokenAccount
  MembersDistinct
PROPERTIES
  BurnedForGood
  PlacesUsedOnce
