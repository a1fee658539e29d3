CONSTANTS
  payer = payer
  issuer = issuer
  signer1 = user
  user = user
  Payer = payer
  Authority = issuer
  Signer1 = user
  Signer2 = issuer
  TestUser = user
  RandomUser = random
  Wallet = {payer, issuer, user}
  Squatter = {}
  NullKey = nullKey
  Name <- Names
  DemoName <- Organization
  DemoData <- NameAgeCountry
  DemoLayout <- StringU8String
  DemoFields <- ThreeFields
  DemoText <- Basics
  Lifetime = 1
  Drift <- Drifts
  AddressLen = {44}
  PlaceholderLen = {40}
  MaxOthers = 1
  Airdrop = 143678
  Nonce = {user, random}
  MaxVersion = 1
  LamportsPerByte = 1
  MaxDataIncrease = 10240
  SignerList <- Lists
  Description <- Descriptions
  Layout <- Layouts
  FieldNames <- AllFields
  Data <- AllData
  Expiry = {0, 1, 2, 3, 4, 5}
  InitialLamports = 0
  TransferAmount = {}
  Payee = {payer, issuer}
  Issuer = {issuer}
  MaxInstructions = 3
  MaxClock = 2
  MaxIssued = 2
  MaxSize = {234}
  MetadataLen = {257}
  MintSpace = {711}
  Recipient = {user}
  TokenPayment = {128}
SPECIFICATION FairDemoSpec
INVARIANTS
  DemoTypeOK
  EffectsInOrder
  OutcomeExplained
  RentReturned
PROPERTIES
  VerdictsRight
  PanicExplained
  Ends
CHECK_DEADLOCK FALSE
