------------------------- MODULE TokenizationProofs -------------------------
(***************************************************************************)
(* Theorems about Tokenization, for every value of its constants: what     *)
(* AttestationServiceProofs shows of the program holds with the token      *)
(* instructions too, and the invariants of mints, groups and tokens.       *)
(***************************************************************************)
EXTENDS Tokenization, AttestationServiceProofs

-----------------------------------------------------------------------------
(* The invariants of the token accounts, of the ledger as it is and of the *)
(* one last committed.                                                     *)

TokenizedIn(ledger, a) ==
  /\ HeldIn(ledger, a, "attestation")
  /\ ledger[a].data.token_account # NoToken

AmountIn(toks, h) ==
  IF toks[h].data.kind = "holding" THEN toks[h].data.amount ELSE 0

MintsMatchIn(ledger, toks) ==
  \A a \in AttestationAddress :
    LET mint == toks[AttestationMintPda(a)].data
    IN  /\ mint.kind = "mint" <=> TokenizedIn(ledger, a)
        /\ mint.kind = "mint" =>
             /\ mint.group = SchemaMintPda(ledger[a].data.schema)
             /\ mint.additional_metadata = Metadata(a, ledger[a].data.schema)
             /\ toks[mint.group].data.kind = "group"

SupplyIn(ledger, toks) ==
  \A h \in HoldingAddress :
    LET a == h.mint.attestation
    IN  AmountIn(toks, h) =
          IF TokenizedIn(ledger, a) /\ ledger[a].data.token_account = h
            THEN toks[h.mint].data.supply
            ELSE 0

MemberOf(toks, m, g) ==
  toks[m].data.kind = "mint" /\ toks[m].data.group = g

MembersIn(toks) ==
  \A g \in SchemaMintAddress :
    LET group == toks[g].data
    IN  /\ group.kind = "group" => group.size <= group.max_size
        /\ \A m \in AttestationMintAddress : MemberOf(toks, m, g) =>
             /\ toks[m].data.member_number \in 1 .. group.size
             /\ \A n \in AttestationMintAddress \ {m} : MemberOf(toks, n, g) =>
                  toks[m].data.member_number # toks[n].data.member_number

(* What is not set up is empty, what is set up is not forgotten for want   *)
(* of lamports, and groups and token accounts have the rent of their size. *)
RecordGood(record) ==
  /\ record \in TokenRecord
  /\ record.owner = "system" => record.data = NoData
  /\ record.data # NoData => record.lamports > 0
  /\ record.data.kind \in {"group", "holding"} =>
       record.lamports >= RequiredLamports(record.space)

RecordsGood(toks) ==
  /\ toks \in [TokenAddress -> TokenRecord]
  /\ \A t \in TokenAddress : RecordGood(toks[t])

TokensGood(ledger, toks) ==
  /\ RecordsGood(toks)
  /\ MintsMatchIn(ledger, toks)
  /\ SupplyIn(ledger, toks)
  /\ MembersIn(toks)

(* What the running transaction may have changed of the committed state.   *)
BurnedSince ==
  \A a \in AttestationAddress :
    LET mint == AttestationMintPda(a)
    IN  savedTokens[mint].data.kind = "mint"
          /\ savedTokens[mint].data.supply = 0
        => /\ tokens[mint].data = savedTokens[mint].data
           /\ accounts[a].data = saved.accounts[a].data

GroupsKeptSince ==
  \A g \in SchemaMintAddress :
    savedTokens[g].data.kind = "group" =>
      /\ tokens[g].data.kind = "group"
      /\ tokens[g].data.max_size = savedTokens[g].data.max_size
      /\ tokens[g].data.size >= savedTokens[g].data.size

(* A mint with another number than it had was counted since.               *)
NumberedSince ==
  \A m \in AttestationMintAddress :
    /\ tokens[m].data.kind = "mint"
    /\ savedTokens[m].data.kind = "mint" =>
         savedTokens[m].data.member_number # tokens[m].data.member_number
    => LET g == tokens[m].data.group
       IN  savedTokens[g].data.kind = "group" =>
             tokens[m].data.member_number > savedTokens[g].data.size

(* The inductive invariant of the composed system.                         *)
TokenizedInv ==
  /\ ServiceInv
  /\ TokensGood(accounts, tokens)
  /\ TokensGood(saved.accounts, savedTokens)
  /\ BurnedSince
  /\ GroupsKeptSince
  /\ NumberedSince

-----------------------------------------------------------------------------
(* The token instructions are instructions like the others: what they do   *)
(* to the accounts of the program is a payment, or an effect of the        *)
(* attestation instruction they contain.                                   *)

TokensTyped == tokens \in [TokenAddress -> TokenRecord]

LEMMA TokenAddresses ==
  /\ \A s \in SchemaAddress : SchemaMintPda(s) \in SchemaMintAddress
  /\ \A a \in AttestationAddress :
       /\ AttestationMintPda(a) \in AttestationMintAddress
       /\ AttestationMintPda(a).attestation = a
  /\ \A m \in AttestationMintAddress :
       /\ m.attestation \in AttestationAddress
       /\ m = AttestationMintPda(m.attestation)
  /\ \A w \in Wallet, m \in AttestationMintAddress :
       HoldingPda(w, m) \in HoldingAddress /\ HoldingPda(w, m).mint = m
  /\ \A h \in HoldingAddress :
       h.wallet \in Wallet /\ h.mint \in AttestationMintAddress
  /\ SchemaMintAddress \subseteq TokenAddress
  /\ AttestationMintAddress \subseteq TokenAddress
  /\ HoldingAddress \subseteq TokenAddress
BY DEF SchemaMintAddress, AttestationMintAddress, HoldingAddress, TokenAddress,
       SchemaMintPda, AttestationMintPda, HoldingPda

LEMMA TokenKindsApart ==
  /\ \A g \in SchemaMintAddress :
       g \notin AttestationMintAddress /\ g \notin HoldingAddress
  /\ \A m \in AttestationMintAddress :
       m \notin SchemaMintAddress /\ m \notin HoldingAddress
  /\ \A h \in HoldingAddress :
       h \notin SchemaMintAddress /\ h \notin AttestationMintAddress
BY DEF SchemaMintAddress, AttestationMintAddress, HoldingAddress

(* What the payer adds covers the rent, however much is there already.     *)
LEMMA TokenCostEnough ==
  ASSUME TokensTyped, NEW t \in TokenAddress, NEW space \in Nat
  PROVE  /\ TokenCost(t, space) \in Nat
         /\ tokens[t].lamports \in Nat
         /\ tokens[t].lamports + TokenCost(t, space) >= RequiredLamports(space)
<1>1. tokens[t].lamports \in Nat
  BY DEF TokensTyped, TokenRecord
<1>2. RequiredLamports(space) \in Nat
  BY RequiredLamportsType
<1> QED BY <1>1, <1>2 DEF TokenCost, TopUp, SaturatingSub

LEMMA HoldingCostType ==
  ASSUME TokensTyped, NEW h \in HoldingAddress
  PROVE  HoldingCost(h) \in Nat
<1>1. h \in TokenAddress /\ HoldingSpace \in Nat
  BY TokenAddresses DEF HoldingSpace
<1>2. TokenCost(h, HoldingSpace) \in Nat
  BY <1>1, TokenCostEnough
<1> QED BY <1>2 DEF HoldingCost

LEMMA SpaceTypes ==
  /\ GroupRentSpace \in Nat /\ GroupRentSpace >= GroupSpace
  /\ GroupSpace \in Nat
  /\ HoldingSpace \in Nat
  /\ \A n \in MintSpace : MintRentSpace(n) \in Nat
  /\ \A n \in MetadataLen : MintSpaceCreated + n + MemberSpace \in Nat
BY TokenAssumption
   DEF GroupRentSpace, GroupSpaceCreated, GroupSpace, HoldingSpace,
       MintRentSpace, MintSpaceCreated, MemberSpace

LEMMA DebitGood ==
  ASSUME NEW ledger, AccountsGood(ledger), NEW payer \in Wallet,
         NEW amount \in Nat, CanPay(ledger, signers, payer, amount)
  PROVE  /\ AccountsGood(Debit(ledger, payer, amount))
         /\ SameContents(ledger, Debit(ledger, payer, amount))
         /\ PaidBy(ledger, Debit(ledger, payer, amount), signers)
<1>1. payer \in Address
  BY AddressKinds
<1> QED BY <1>1, DebitUpdates, KeepInv DEF AccountsGood

LEMMA PaymentStep ==
  ASSUME InOrder, Instruction, NEW payer \in Wallet, NEW amount \in Nat,
         CanPay(accounts, signers, payer, amount),
         accounts' = Debit(accounts, payer, amount),
         UNCHANGED <<events, issued>>
  PROVE  GoodStep
<1>1. /\ AccountsGood(accounts') /\ SameContents(accounts, accounts')
      /\ PaidBy(accounts, accounts', signers)
  BY DebitGood DEF InOrder
<1>2. LamportsOnly
  BY <1>1 DEF SameContents, LamportsOnly
<1> QED BY <1>1, <1>2 DEF GoodStep, InOrder, Effect, Funded, PaidBy

LEMMA CreditGood ==
  ASSUME NEW ledger, AccountsGood(ledger), NEW to \in Address, NEW amount \in Nat
  PROVE  /\ AccountsGood(Credit(ledger, to, amount))
         /\ SameContents(ledger, Credit(ledger, to, amount))
         /\ \A x \in Address :
              Credit(ledger, to, amount)[x].lamports >= ledger[x].lamports
BY CreditUpdates, KeepInv DEF AccountsGood, NoLoss

LEMMA ReceiptStep ==
  ASSUME InOrder, Instruction, NEW to \in Address, NEW amount \in Nat,
         accounts' = Credit(accounts, to, amount),
         UNCHANGED <<events, issued>>
  PROVE  GoodStep
<1>1. /\ AccountsGood(accounts') /\ SameContents(accounts, accounts')
      /\ \A x \in Address : accounts'[x].lamports >= accounts[x].lamports
  BY CreditGood DEF InOrder
<1>2. LamportsOnly
  BY <1>1 DEF SameContents, LamportsOnly
<1>3. \A x \in Address : /\ accounts[x].lamports \in Nat
                         /\ accounts'[x].lamports \in Nat
  BY <1>1, References DEF InOrder, AccountsGood
<1>4. Funded
  BY <1>1, <1>3 DEF Funded
<1> QED BY <1>1, <1>2, <1>4 DEF GoodStep, InOrder, Effect

LEMMA CreateTokenizedStep ==
  ASSUME InOrder, TokensTyped, NEW signer \in Wallet, NEW c \in CredentialKey,
         NEW s \in SchemaAddress, NEW nonce \in Nonce, NEW data \in Data,
         NEW expiry \in Expiry, NEW payer \in Wallet,
         NEW recipient \in Wallet, NEW metadataLen \in MetadataLen,
         NEW mintSpace \in MintSpace,
         CreateTokenizedAttestation(signer, c, s, nonce, data, expiry, payer,
                                    recipient, metadataLen, mintSpace)
  PROVE  LET a == AttestationPda(c, s, nonce)
             holding == HoldingPda(recipient, AttestationMintPda(a))
         IN  /\ GoodStep
             /\ a \in AttestationAddress /\ holding \in HoldingAddress
             /\ AttestationIssued(a, signer, data, expiry, holding)
<1> DEFINE a == AttestationPda(c, s, nonce)
           mint == AttestationMintPda(a)
           holding == HoldingPda(recipient, mint)
           mintCost == TokenCost(mint, MintRentSpace(mintSpace))
           holdingCost == HoldingCost(holding)
           created == AttestationCreated(signer, c, s, nonce, data, expiry,
                                         payer, holding)
           minted == Debit(created, payer, mintCost)
<1>1. /\ Instruction
      /\ CanCreateAttestation(signer, c, s, nonce, data, expiry, payer)
      /\ CanPay(created, signers, payer, mintCost)
      /\ CanPay(minted, signers, payer, holdingCost)
      /\ accounts' = Debit(minted, payer, holdingCost)
      /\ Issue(s, data)
  BY DEF CreateTokenizedAttestation
<1>2. a \in AttestationAddress
  BY DEF AttestationPda, AttestationAddress
<1>3. mint \in TokenAddress /\ holding \in HoldingAddress
  BY <1>2, TokenAddresses
<1>4. mintCost \in Nat /\ holdingCost \in Nat
  BY <1>3, TokenCostEnough, HoldingCostType, SpaceTypes
<1>5. AccountsGood(created)
  BY <1>1, <1>3, AttestationCreatedGood DEF InOrder
<1> HIDE DEF created, mintCost, holdingCost
<1>6. /\ AccountsGood(minted) /\ SameContents(created, minted)
      /\ PaidBy(created, minted, signers)
  BY <1>1, <1>4, <1>5, DebitGood
<1> HIDE DEF minted
<1>7. /\ AccountsGood(accounts') /\ SameContents(minted, accounts')
      /\ PaidBy(minted, accounts', signers)
  BY <1>1, <1>4, <1>6, DebitGood
<1>8. SameContents(created, accounts')
  BY <1>6, <1>7 DEF SameContents
<1>9. PaidBy(created, accounts', signers)
  <2>1. \A x \in Address : /\ created[x].lamports \in Nat
                           /\ minted[x].lamports \in Nat
                           /\ accounts'[x].lamports \in Nat
    BY <1>5, <1>6, <1>7, References DEF AccountsGood
  <2> QED BY <1>6, <1>7, <2>1 DEF PaidBy
<1>10. /\ AttestationIssued(a, signer, data, expiry, holding)
       /\ Funded
  <2>1. accounts' \in [Address -> Account]
    BY <1>7 DEF AccountsGood
  <2> HIDE DEF a, holding
  <2>2. /\ \E x \in AttestationAddress :
             /\ x = AttestationPda(c, s, nonce)
             /\ AttestationIssued(x, signer, data, expiry, holding)
        /\ Funded
    BY <1>1, <1>3, <1>8, <1>9, <2>1, AttestationIssuedEffect
       DEF InOrder, created
  <2> QED BY <2>2 DEF a
<1>11. events' \in [Event -> Nat] /\ issued' \in [Event -> Nat]
  BY <1>1, IssueType DEF InOrder
<1>12. Effect
  <2> HIDE DEF a, holding
  <2> QED BY <1>2, <1>3, <1>10 DEF Effect
<1> QED BY <1>1, <1>2, <1>3, <1>7, <1>10, <1>11, <1>12 DEF GoodStep

LEMMA CloseTokenizedStep ==
  ASSUME InOrder, TokensTyped, NEW signer \in Wallet, NEW c \in CredentialKey,
         NEW a \in AttestationAddress, NEW holding \in HoldingAddress,
         NEW payee \in Address,
         CloseTokenizedAttestation(signer, c, a, holding, payee)
  PROVE  GoodStep /\ AttestationClosed(a, signer)
<1> DEFINE amount == tokens[AttestationMintPda(a)].lamports
           mid == Credit(accounts, payee, amount)
<1>1. /\ Instruction
      /\ CanCloseAttestation(signer, c, a, payee, holding)
      /\ accounts' = Close(mid, a, payee)
      /\ EmitClose(a)
  BY DEF CloseTokenizedAttestation
<1>2. amount \in Nat
  BY TokenAddresses DEF TokensTyped, TokenRecord
<1> HIDE DEF amount
<1>3. /\ AccountsGood(mid) /\ SameContents(accounts, mid)
      /\ \A x \in Address : mid[x].lamports >= accounts[x].lamports
  BY <1>2, CreditGood DEF InOrder
<1> HIDE DEF mid
<1>4. /\ HeldIn(accounts, a, "attestation") /\ payee # a
  BY <1>1 DEF CanCloseAttestation, Holds
<1>5. HeldIn(mid, a, "attestation")
  BY <1>3, <1>4, AddressKinds DEF SameContents, HeldIn
<1>6. AccountsGood(accounts')
  BY <1>1, <1>3, <1>4, <1>5, AddressKinds, CloseInv DEF AccountsGood
<1>7. AttestationClosed(a, signer) /\ Funded
  <2>1. mid \in [Address -> Account]
    BY <1>3 DEF AccountsGood
  <2> QED BY <1>1, <1>3, <2>1, AttestationClosedEffect DEF InOrder
<1>8. events' \in [Event -> Nat] /\ issued' \in [Event -> Nat]
  BY <1>1, <1>4, EmitCloseType DEF InOrder
<1> QED BY <1>1, <1>6, <1>7, <1>8 DEF GoodStep, Effect

LEMMA TokenizedStep ==
  ASSUME IInv, TokensTyped, [TokenizedNext]_allVars
  PROVE  ServiceStep
<1>1. InOrder
  BY DEF IInv, TypeOK, InOrder, AccountsGood
<1>2. ASSUME NEW c \in CredentialKey, NEW s \in SchemaAddress,
             NEW payer \in Wallet, NEW maxSize \in MaxSize,
             TokenizeSchema(c, s, maxSize, payer)
      PROVE  GoodStep
  <2>1. TokenCost(SchemaMintPda(s), GroupRentSpace) \in Nat
    BY TokenAddresses, SpaceTypes, TokenCostEnough
  <2> QED BY <1>1, <1>2, <2>1, PaymentStep DEF TokenizeSchema
<1>3. ASSUME NEW h \in HoldingAddress, BurnToken(h)
      PROVE  GoodStep
  <2>1. \A x \in Address : accounts[x].lamports \in Nat
    BY <1>1, References DEF InOrder, AccountsGood
  <2>2. LamportsOnly /\ Funded
    BY <1>3, <2>1 DEF BurnToken, LamportsOnly, Funded
  <2> QED BY <1>1, <1>3, <2>2 DEF BurnToken, GoodStep, InOrder, Effect
<1>4. ASSUME NEW h \in HoldingAddress, CloseHolding(h)
      PROVE  GoodStep
  <2>1. h.wallet \in Address /\ tokens[h].lamports \in Nat
    BY TokenAddresses, AddressKinds DEF TokensTyped, TokenRecord
  <2> QED BY <1>1, <1>4, <2>1, ReceiptStep DEF CloseHolding
<1>5. ASSUME NEW h \in HoldingAddress, NEW payer \in Wallet,
             CreateHolding(h, payer)
      PROVE  GoodStep
  BY <1>1, <1>5, HoldingCostType, PaymentStep DEF CreateHolding
<1>6. ASSUME NEW from \in Wallet, NEW to \in TokenAddress,
             NEW amount \in TokenPayment, FundToken(from, to, amount)
      PROVE  GoodStep
  <2>1. amount \in Nat
    BY TokenAssumption
  <2> QED BY <1>1, <1>6, <2>1, PaymentStep DEF FundToken
<1>7. CASE TokenizationNext
  BY <1>1, <1>2, <1>7, CreateTokenizedStep, CloseTokenizedStep,
     TokenAssumption, BoundAssumption DEF TokenizationNext, ServiceStep
<1>8. CASE HolderNext
  BY <1>3, <1>4, <1>5, <1>6, <1>8 DEF HolderNext, ServiceStep
<1>9. CASE OtherNext
  BY <1>9, NextIsServiceStep DEF OtherNext, Next
<1>10. CASE CommitTokens \/ AbortTokens
  BY <1>10 DEF CommitTokens, AbortTokens, ServiceStep
<1>11. CASE UNCHANGED allVars
  BY <1>11 DEF allVars, ServiceStep
<1> QED BY <1>7, <1>8, <1>9, <1>10, <1>11 DEF TokenizedNext

-----------------------------------------------------------------------------
(* Lemmas about the records of token accounts.                             *)

LEMMA TokenKindType ==
  ASSUME NEW d \in TokenData
  PROVE  /\ d.kind \in {"none", "group", "mint", "holding"}
         /\ d.kind = "none" => d = NoData
         /\ d.kind = "group" =>
              d \in [kind : {"group"}, size : Nat, max_size : MaxSize]
         /\ d.kind = "mint" =>
              d \in [kind : {"mint"}, group : SchemaMintAddress,
                     member_number : Nat, supply : {0, 1},
                     additional_metadata : AdditionalMetadata]
         /\ d.kind = "holding" => d \in [kind : {"holding"}, amount : {0, 1}]
BY DEF TokenData, NoData

LEMMA TokenTypes ==
  ASSUME NEW toks, RecordsGood(toks), NEW t \in TokenAddress
  PROVE  /\ RecordGood(toks[t])
         /\ toks[t].data \in TokenData
         /\ toks[t].lamports \in Nat /\ toks[t].space \in Nat
         /\ toks[t].owner \in {"system", "token"}
         /\ AmountIn(toks, t) \in {0, 1}
         /\ toks[t].data.kind = "group" =>
              toks[t].data.size \in Nat /\ toks[t].data.max_size \in Nat
         /\ toks[t].data.kind = "mint" =>
              /\ toks[t].data.group \in SchemaMintAddress
              /\ toks[t].data.member_number \in Nat
              /\ toks[t].data.supply \in {0, 1}
<1>1. RecordGood(toks[t]) /\ toks[t] \in TokenRecord
  BY DEF RecordsGood
<1>2. /\ toks[t].data \in TokenData
      /\ toks[t].lamports \in Nat /\ toks[t].space \in Nat
      /\ toks[t].owner \in {"system", "token"}
  BY <1>1 DEF TokenRecord
<1> QED BY <1>1, <1>2, TokenKindType, TokenAssumption DEF AmountIn

LEMMA VacantGood == RecordGood(Vacant)
BY DEF RecordGood, Vacant, TokenRecord, TokenData, NoData

(* A record whose data changes within its kind.                            *)
LEMMA RewrittenGood ==
  ASSUME NEW record, RecordGood(record), NEW d \in TokenData,
         d.kind = record.data.kind, d.kind # "none"
  PROVE  RecordGood([record EXCEPT !.data = d])
<1>1. record.data # NoData
  BY DEF NoData
<1> QED BY <1>1 DEF RecordGood, TokenRecord

(* Lamports that arrive do no harm.                                        *)
LEMMA FundedGood ==
  ASSUME NEW record, RecordGood(record), NEW amount \in Nat
  PROVE  RecordGood([record EXCEPT !.lamports = @ + amount])
<1> DEFINE r == [record EXCEPT !.lamports = @ + amount]
<1>1. /\ record.lamports \in Nat /\ record.space \in Nat
      /\ record.data \in TokenData /\ record \in TokenRecord
  BY DEF RecordGood, TokenRecord
<1>2. /\ r.owner = record.owner /\ r.space = record.space
      /\ r.data = record.data /\ r.lamports = record.lamports + amount
      /\ r \in TokenRecord
  BY <1>1 DEF TokenRecord
<1>3. RequiredLamports(record.space) \in Nat
  BY <1>1, RequiredLamportsType
<1> HIDE DEF r
<1>4. RecordGood(r)
  BY <1>1, <1>2, <1>3 DEF RecordGood
<1> QED BY <1>4 DEF r

LEMMA SetUpGood ==
  ASSUME RecordsGood(tokens), NEW t \in TokenAddress,
         NEW rentSpace \in Nat, NEW space \in Nat, NEW d \in TokenData,
         d.kind \in {"group", "holding"} =>
           RequiredLamports(rentSpace) >= RequiredLamports(space)
  PROVE  RecordGood(SetUp(t, rentSpace, space, d))
<1> DEFINE r == SetUp(t, rentSpace, space, d)
           lamports == tokens[t].lamports + TokenCost(t, rentSpace)
<1>1. /\ RequiredLamports(rentSpace) \in Nat \ {0}
      /\ RequiredLamports(space) \in Nat
  BY RequiredLamportsType
<1>2. lamports \in Nat /\ lamports >= RequiredLamports(rentSpace)
  BY TokenCostEnough DEF RecordsGood, TokensTyped
<1>3. /\ r.owner = "token" /\ r.space = space /\ r.data = d
      /\ r.lamports = lamports
  BY DEF SetUp
<1> HIDE DEF lamports
<1>4. r \in TokenRecord
  BY <1>2 DEF SetUp, TokenRecord, lamports
<1> HIDE DEF r
<1>5. RecordGood(r)
  BY <1>1, <1>2, <1>3, <1>4 DEF RecordGood
<1> QED BY <1>5 DEF r

LEMMA NewGroupGood ==
  ASSUME RecordsGood(tokens), NEW g \in SchemaMintAddress,
         NEW maxSize \in MaxSize
  PROVE  RecordGood(SetUp(g, GroupRentSpace, GroupSpace, Group(maxSize)))
<1>1. Group(maxSize) \in TokenData
  BY DEF Group, TokenData
<1>2. RequiredLamports(GroupRentSpace) >= RequiredLamports(GroupSpace)
  BY SpaceTypes, RentMonotone, RequiredLamportsType
<1> QED BY <1>1, <1>2, SpaceTypes, TokenAddresses, SetUpGood

LEMMA NewMintGood ==
  ASSUME RecordsGood(tokens), NEW m \in AttestationMintAddress,
         NEW g \in SchemaMintAddress, NEW number \in Nat,
         NEW metadata \in AdditionalMetadata, NEW mintSpace \in MintSpace, NEW metadataLen \in MetadataLen
  PROVE  RecordGood(SetUp(m, MintRentSpace(mintSpace),
                          MintSpaceCreated + metadataLen + MemberSpace,
                          Mint(g, number, metadata)))
<1>1. /\ Mint(g, number, metadata) \in TokenData
      /\ Mint(g, number, metadata).kind = "mint"
  BY DEF Mint, TokenData
<1> QED BY <1>1, SpaceTypes, TokenAddresses, SetUpGood

(* The token account after it has received n more tokens than none.        *)
LEMMA HoldingOfGood ==
  ASSUME RecordsGood(tokens), NEW h \in HoldingAddress, HoldingReady(h),
         AmountIn(tokens, h) = 0, NEW n \in {0, 1}
  PROVE  /\ RecordGood(HoldingOf(h, n))
         /\ HoldingOf(h, n).data.kind = "holding"
         /\ HoldingOf(h, n).data.amount = n
<1>1. h \in TokenAddress
  BY TokenAddresses
<1>2. CASE IsA(h, "holding")
  <2> DEFINE d == [tokens[h].data EXCEPT !.amount = @ + n]
  <2>1. /\ tokens[h].data \in [kind : {"holding"}, amount : {0, 1}]
        /\ tokens[h].data.amount = 0
    BY <1>1, <1>2, TokenTypes, TokenKindType DEF IsA, AmountIn
  <2>2. d \in TokenData /\ d.kind = "holding" /\ d.amount = n
    BY <2>1 DEF TokenData
  <2>3. HoldingOf(h, n) = [tokens[h] EXCEPT !.data = d]
    BY <1>2 DEF HoldingOf
  <2>4. RecordGood(tokens[h]) /\ tokens[h] \in TokenRecord
    BY <1>1 DEF RecordsGood
  <2> HIDE DEF d
  <2>5. RecordGood([tokens[h] EXCEPT !.data = d])
    BY <1>2, <2>2, <2>4, RewrittenGood DEF IsA
  <2>6. [tokens[h] EXCEPT !.data = d].data = d
    BY <2>4 DEF TokenRecord
  <2> QED BY <2>2, <2>3, <2>5, <2>6
<1>3. CASE ~IsA(h, "holding")
  <2>1. HoldingOf(h, n) = SetUp(h, HoldingSpace, HoldingSpace, Holding(n))
    BY <1>3 DEF HoldingOf
  <2>2. /\ Holding(n) \in TokenData /\ Holding(n).kind = "holding"
        /\ Holding(n).amount = n
    BY DEF Holding, TokenData
  <2>3. RequiredLamports(HoldingSpace) >= RequiredLamports(HoldingSpace)
    BY SpaceTypes, RequiredLamportsType
  <2>4. RecordGood(SetUp(h, HoldingSpace, HoldingSpace, Holding(n)))
    BY <1>1, <2>2, <2>3, SpaceTypes, SetUpGood
  <2> QED BY <2>1, <2>2, <2>4 DEF SetUp
<1> QED BY <1>2, <1>3

-----------------------------------------------------------------------------
(* What an instruction does to the token accounts.                         *)

(* The tokenized attestations of two ledgers are the same.                 *)
SameTokenized(l1, l2) ==
  \A a \in AttestationAddress :
    /\ TokenizedIn(l2, a) <=> TokenizedIn(l1, a)
    /\ TokenizedIn(l1, a) => l2[a].data = l1[a].data

(* Mints and balances stay, and at most empty groups are new.              *)
SameTokens(t1, t2) ==
  /\ \A m \in AttestationMintAddress : t2[m].data = t1[m].data
  /\ \A h \in HoldingAddress : AmountIn(t2, h) = AmountIn(t1, h)
  /\ \A g \in SchemaMintAddress :
       \/ t2[g].data = t1[g].data
       \/ /\ t1[g].data.kind # "group"
          /\ t2[g].data.kind = "group"
          /\ t2[g].data.size <= t2[g].data.max_size

(* No step touches a burned mint or its attestation, takes a group away,   *)
(* or gives a mint a number that its group has used.                       *)
BurnedStay ==
  \A a \in AttestationAddress :
    LET mint == AttestationMintPda(a)
    IN  tokens[mint].data.kind = "mint" /\ tokens[mint].data.supply = 0
        => /\ tokens'[mint].data = tokens[mint].data
           /\ accounts'[a].data = accounts[a].data

GroupsStay ==
  \A g \in SchemaMintAddress :
    tokens[g].data.kind = "group" =>
      /\ tokens'[g].data.kind = "group"
      /\ tokens'[g].data.max_size = tokens[g].data.max_size
      /\ tokens'[g].data.size >= tokens[g].data.size

NumbersFresh ==
  \A m \in AttestationMintAddress :
    tokens'[m].data.kind = "mint" =>
      \/ tokens[m].data = tokens'[m].data
      \/ /\ tokens[m].data.kind = "mint"
         /\ tokens[m].data.group = tokens'[m].data.group
         /\ tokens[m].data.member_number = tokens'[m].data.member_number
      \/ /\ tokens[tokens'[m].data.group].data.kind = "group"
         /\ tokens'[m].data.member_number
              > tokens[tokens'[m].data.group].data.size

TokenStep ==
  /\ TokensGood(accounts', tokens')
  /\ BurnedStay
  /\ GroupsStay
  /\ NumbersFresh

LEMMA SameTokensGood ==
  ASSUME NEW l1, NEW t1, TokensGood(l1, t1), NEW l2, NEW t2, RecordsGood(t2),
         SameTokenized(l1, l2), SameTokens(t1, t2)
  PROVE  TokensGood(l2, t2)
<1>1. MintsMatchIn(l2, t2)
  <2> SUFFICES ASSUME NEW a \in AttestationAddress
      PROVE  LET mint == t2[AttestationMintPda(a)].data
             IN  /\ mint.kind = "mint" <=> TokenizedIn(l2, a)
                 /\ mint.kind = "mint" =>
                      /\ mint.group = SchemaMintPda(l2[a].data.schema)
                      /\ mint.additional_metadata
                           = Metadata(a, l2[a].data.schema)
                      /\ t2[mint.group].data.kind = "group"
    BY DEF MintsMatchIn
  <2> DEFINE m == AttestationMintPda(a)
  <2>1. m \in AttestationMintAddress /\ m \in TokenAddress
    BY TokenAddresses
  <2>2. t2[m].data = t1[m].data
    BY <2>1 DEF SameTokens
  <2>3. /\ t1[m].data.kind = "mint" <=> TokenizedIn(l1, a)
        /\ t1[m].data.kind = "mint" =>
             /\ t1[m].data.group = SchemaMintPda(l1[a].data.schema)
             /\ t1[m].data.additional_metadata = Metadata(a, l1[a].data.schema)
             /\ t1[t1[m].data.group].data.kind = "group"
    BY DEF TokensGood, MintsMatchIn
  <2>4. t1[m].data.kind = "mint" => t1[m].data.group \in SchemaMintAddress
    BY <2>1, TokenTypes DEF TokensGood
  <2> HIDE DEF m
  <2>5. t2[m].data.kind = "mint" => t2[t2[m].data.group].data.kind = "group"
    BY <2>2, <2>3, <2>4 DEF SameTokens
  <2> QED BY <2>2, <2>3, <2>5 DEF SameTokenized, m
<1>2. SupplyIn(l2, t2)
  <2> SUFFICES ASSUME NEW h \in HoldingAddress
      PROVE  LET a == h.mint.attestation
             IN  AmountIn(t2, h) =
                   IF TokenizedIn(l2, a) /\ l2[a].data.token_account = h
                     THEN t2[h.mint].data.supply ELSE 0
    BY DEF SupplyIn
  <2> DEFINE a == h.mint.attestation
  <2>1. h.mint \in AttestationMintAddress /\ a \in AttestationAddress
    BY TokenAddresses
  <2>2. AmountIn(t1, h) =
          IF TokenizedIn(l1, a) /\ l1[a].data.token_account = h
            THEN t1[h.mint].data.supply ELSE 0
    BY DEF TokensGood, SupplyIn
  <2>3. /\ AmountIn(t2, h) = AmountIn(t1, h)
        /\ t2[h.mint].data = t1[h.mint].data
    BY <2>1 DEF SameTokens
  <2>4. /\ TokenizedIn(l2, a) <=> TokenizedIn(l1, a)
        /\ TokenizedIn(l1, a) => l2[a].data = l1[a].data
    BY <2>1 DEF SameTokenized
  <2> HIDE DEF a
  <2>5. AmountIn(t2, h) =
          IF TokenizedIn(l2, a) /\ l2[a].data.token_account = h
            THEN t2[h.mint].data.supply ELSE 0
    BY <2>2, <2>3, <2>4
  <2> QED BY <2>5 DEF a
<1>3. MembersIn(t2)
  <2>1. ASSUME NEW m \in AttestationMintAddress, NEW g \in SchemaMintAddress,
               MemberOf(t2, m, g)
        PROVE  MemberOf(t1, m, g) /\ t2[g].data = t1[g].data
    <3>1. MemberOf(t1, m, g)
      BY <2>1 DEF MemberOf, SameTokens
    <3>2. m = AttestationMintPda(m.attestation)
          /\ m.attestation \in AttestationAddress
      BY TokenAddresses
    <3>3. t1[g].data.kind = "group"
      BY <3>1, <3>2 DEF TokensGood, MintsMatchIn, MemberOf
    <3> QED BY <3>1, <3>3 DEF SameTokens
  <2>2. \A g \in SchemaMintAddress :
          t2[g].data.kind = "group" => t2[g].data.size <= t2[g].data.max_size
    BY DEF TokensGood, MembersIn, SameTokens
  <2> QED BY <2>1, <2>2 DEF MembersIn, SameTokens, TokensGood
<1> QED BY <1>1, <1>2, <1>3 DEF TokensGood

(* So nothing happens to mints when nothing is issued or closed.           *)
LEMMA SameTokensStep ==
  ASSUME TokensGood(accounts, tokens), RecordsGood(tokens'),
         SameTokenized(accounts, accounts'), SameTokens(tokens, tokens')
  PROVE  TokenStep
<1>1. TokensGood(accounts', tokens')
  BY SameTokensGood
<1>2. BurnedStay
  BY TokenAddresses
     DEF BurnedStay, TokensGood, MintsMatchIn, SameTokens, SameTokenized
<1>3. GroupsStay
  <2>1. \A g \in SchemaMintAddress :
          tokens[g].data.kind = "group" => tokens[g].data.size \in Nat
    BY TokenAddresses, TokenTypes DEF TokensGood
  <2> QED BY <2>1 DEF GroupsStay, SameTokens
<1>4. NumbersFresh
  BY DEF NumbersFresh, SameTokens
<1> QED BY <1>1, <1>2, <1>3, <1>4 DEF TokenStep

(* An account whose holder's balance and kind do not matter to a mint.     *)
LEMMA UnchangedTokens ==
  ASSUME RecordsGood(tokens), NEW t \in TokenAddress, NEW r, RecordGood(r),
         tokens' = [tokens EXCEPT ![t] = r]
  PROVE  /\ RecordsGood(tokens')
         /\ tokens'[t] = r
         /\ \A x \in TokenAddress \ {t} : tokens'[x] = tokens[x]
<1>1. r \in TokenRecord
  BY DEF RecordGood
<1> QED BY <1>1 DEF RecordsGood

(* Without an attestation issued or closed, the attestations are the same. *)
LEMMA QuietAttestations ==
  ASSUME InOrder, Effect, UNCHANGED <<events, issued>>,
         NEW b \in AttestationAddress
  PROVE  /\ accounts'[b].owner = accounts[b].owner
         /\ accounts'[b].data = accounts[b].data
<1>1. b \in Address
  BY AddressKinds
<1>2. ASSUME NEW a \in AttestationAddress, NEW signer \in Wallet,
             NEW data \in Data, NEW expiry \in Expiry,
             NEW token \in HoldingAddress \cup {NoToken},
             AttestationIssued(a, signer, data, expiry, token)
      PROVE  FALSE
  <2> DEFINE e == [schema |-> a.schema, data |-> data]
  <2>1. e \in Event
    BY DEF Event, AttestationAddress
  <2>2. issued' = [issued EXCEPT ![e] = @ + 1] /\ issued[e] \in Nat
    BY <1>2, <2>1 DEF AttestationIssued, Issue, InOrder
  <2> HIDE DEF e
  <2>3. issued'[e] = issued[e] + 1
    BY <2>1, <2>2 DEF InOrder
  <2> QED BY <2>2, <2>3
<1>3. ASSUME NEW a \in AttestationAddress, NEW signer \in Wallet,
             AttestationClosed(a, signer)
      PROVE  FALSE
  <2> DEFINE e == [schema |-> accounts[a].data.schema,
                   data |-> accounts[a].data.data]
  <2>1. accounts[a].data \in AttestationData
    BY <1>3, AttestationUnder DEF AttestationClosed, InOrder
  <2>2. e \in Event
    BY <2>1 DEF AttestationData, Event
  <2>3. events' = [events EXCEPT ![e] = @ + 1]
    BY <1>3 DEF AttestationClosed, EmitClose
  <2> HIDE DEF e
  <2>4. events'[e] = events[e] + 1 /\ events[e] \in Nat
    BY <2>2, <2>3 DEF InOrder
  <2> QED BY <2>4
<1>4. ASSUME NEW a, a \notin AttestationAddress, NEW owner, NEW d,
             Rewritten(a, owner, d)
      PROVE  /\ accounts'[b].owner = accounts[b].owner
             /\ accounts'[b].data = accounts[b].data
  BY <1>1, <1>4 DEF Rewritten
<1>5. CASE LamportsOnly
  BY <1>1, <1>5 DEF LamportsOnly
<1>6. \A c \in CredentialKey : c \notin AttestationAddress
  BY AddressesDisjoint, WalletAssumption DEF CredentialKey
<1>7. \A w \in Squatter : w \notin AttestationAddress
  BY AddressesDisjoint, WalletAssumption
<1> QED BY <1>2, <1>3, <1>4, <1>5, <1>6, <1>7, AddressesDisjoint
     DEF Effect, CredentialCreated, SignersChanged, SchemaCreated,
         StatusChanged, DescriptionChanged, WalletAssigned

LEMMA QuietEffect ==
  ASSUME InOrder, Effect, UNCHANGED <<events, issued>>
  PROVE  SameTokenized(accounts, accounts')
BY QuietAttestations DEF SameTokenized, TokenizedIn, HeldIn

-----------------------------------------------------------------------------
(* The steps of an instruction, one by one.                                *)

LEMMA TokenizeSchemaTokens ==
  ASSUME TokensGood(accounts, tokens), SameTokenized(accounts, accounts'),
         NEW c, NEW s \in SchemaAddress, NEW payer, NEW maxSize \in MaxSize,
         TokenizeSchema(c, s, maxSize, payer)
  PROVE  TokenStep
<1> DEFINE g == SchemaMintPda(s)
           r == SetUp(g, GroupRentSpace, GroupSpace, Group(maxSize))
<1>1. g \in SchemaMintAddress /\ g \in TokenAddress
  BY TokenAddresses
<1>2. RecordGood(r)
  BY <1>1, NewGroupGood DEF TokensGood
<1>3. tokens' = [tokens EXCEPT ![g] = r] /\ IsVacant(tokens, g)
  BY DEF TokenizeSchema
<1>4. tokens[g].data.kind # "group"
  BY <1>1, <1>3 DEF IsVacant, TokensGood, RecordsGood, RecordGood, NoData
<1>5. /\ r.data.kind = "group" /\ r.data.size = 0
      /\ r.data.max_size = maxSize /\ maxSize \in Nat
  BY TokenAssumption DEF SetUp, Group
<1> HIDE DEF g, r
<1>6. /\ RecordsGood(tokens') /\ tokens'[g] = r
      /\ \A x \in TokenAddress \ {g} : tokens'[x] = tokens[x]
  BY <1>1, <1>2, <1>3, UnchangedTokens DEF TokensGood
<1>7. SameTokens(tokens, tokens')
  BY <1>1, <1>4, <1>5, <1>6, TokenAddresses, TokenKindsApart
     DEF SameTokens, AmountIn
<1> QED BY <1>6, <1>7, SameTokensStep

LEMMA HoldingTokens ==
  ASSUME TokensGood(accounts, tokens), SameTokenized(accounts, accounts'),
         NEW h \in HoldingAddress, NEW r, RecordGood(r),
         tokens' = [tokens EXCEPT ![h] = r],
         AmountIn(tokens, h) = 0,
         r.data.kind = "holding" => r.data.amount = 0
  PROVE  TokenStep
<1>1. h \in TokenAddress
  BY TokenAddresses
<1>2. /\ RecordsGood(tokens') /\ tokens'[h] = r
      /\ \A x \in TokenAddress \ {h} : tokens'[x] = tokens[x]
  BY <1>1, UnchangedTokens DEF TokensGood
<1>3. AmountIn(tokens', h) = 0
  BY <1>2 DEF AmountIn
<1>4. \A x \in HoldingAddress : AmountIn(tokens', x) = AmountIn(tokens, x)
  BY <1>2, <1>3, TokenAddresses DEF AmountIn
<1>5. /\ \A x \in AttestationMintAddress : x \in TokenAddress \ {h}
      /\ \A x \in SchemaMintAddress : x \in TokenAddress \ {h}
  BY TokenAddresses, TokenKindsApart
<1>6. SameTokens(tokens, tokens')
  BY <1>2, <1>4, <1>5 DEF SameTokens
<1> QED BY <1>2, <1>6, SameTokensStep

LEMMA CloseHoldingTokens ==
  ASSUME TokensGood(accounts, tokens), SameTokenized(accounts, accounts'),
         NEW h \in HoldingAddress, CloseHolding(h)
  PROVE  TokenStep
<1>1. AmountIn(tokens, h) = 0 /\ tokens' = [tokens EXCEPT ![h] = Vacant]
  BY DEF CloseHolding, Amount, IsA, AmountIn
<1>2. Vacant.data.kind # "holding"
  BY DEF Vacant, NoData
<1> QED BY <1>1, <1>2, VacantGood, HoldingTokens

LEMMA CreateHoldingTokens ==
  ASSUME TokensGood(accounts, tokens), SameTokenized(accounts, accounts'),
         NEW h \in HoldingAddress, NEW payer, CreateHolding(h, payer)
  PROVE  TokenStep
<1>1. /\ tokens' = [tokens EXCEPT ![h] = HoldingOf(h, 0)]
      /\ IsVacant(tokens, h)
  BY DEF CreateHolding
<1>2. AmountIn(tokens, h) = 0
  BY <1>1, TokenAddresses
     DEF IsVacant, TokensGood, RecordsGood, RecordGood, AmountIn, NoData
<1>3. /\ RecordGood(HoldingOf(h, 0))
      /\ HoldingOf(h, 0).data.amount = 0
  BY <1>1, <1>2, HoldingOfGood DEF HoldingReady, TokensGood
<1> QED BY <1>1, <1>2, <1>3, HoldingTokens

LEMMA FundTokenTokens ==
  ASSUME TokensGood(accounts, tokens), SameTokenized(accounts, accounts'),
         NEW from, NEW to \in TokenAddress, NEW amount \in TokenPayment,
         FundToken(from, to, amount)
  PROVE  TokenStep
<1> DEFINE r == [tokens[to] EXCEPT !.lamports = @ + amount]
<1>1. tokens' = [tokens EXCEPT ![to] = r]
  BY DEF FundToken, Credit
<1>2. RecordGood(r) /\ r.data = tokens[to].data
  <2>1. RecordGood(tokens[to]) /\ amount \in Nat
    BY TokenAssumption DEF TokensGood, RecordsGood
  <2>2. tokens[to] \in TokenRecord
    BY <2>1 DEF RecordGood
  <2> QED BY <2>1, <2>2, FundedGood DEF TokenRecord
<1> HIDE DEF r
<1>3. /\ RecordsGood(tokens') /\ tokens'[to] = r
      /\ \A x \in TokenAddress \ {to} : tokens'[x] = tokens[x]
  BY <1>1, <1>2, UnchangedTokens DEF TokensGood
<1>4. \A x \in TokenAddress : tokens'[x].data = tokens[x].data
  BY <1>2, <1>3
<1>5. SameTokens(tokens, tokens')
  BY <1>4, TokenAddresses DEF SameTokens, AmountIn
<1> QED BY <1>3, <1>5, SameTokensStep

(* The holder burns the supply: the mint stays, with nothing left.         *)
LEMMA BurnTokenTokens ==
  ASSUME TokensGood(accounts, tokens), NEW h \in HoldingAddress, BurnToken(h)
  PROVE  TokenStep
<1> DEFINE m == h.mint
           a == m.attestation
           d == tokens[m].data
           dh == [tokens[h].data EXCEPT !.amount = @ - 1]
           dm == [d EXCEPT !.supply = @ - 1]
<1>1. /\ h \in TokenAddress /\ m \in AttestationMintAddress
      /\ m \in TokenAddress /\ a \in AttestationAddress
      /\ m = AttestationMintPda(a) /\ h # m
  BY TokenAddresses, TokenKindsApart
<1>2. /\ AmountIn(tokens, h) >= 1 /\ d.kind = "mint"
      /\ tokens' = [tokens EXCEPT ![h].data.amount = @ - 1,
                                  ![m].data.supply = @ - 1]
      /\ accounts' = accounts
  BY DEF BurnToken, Amount, IsA, AmountIn
<1>3. /\ tokens[h].data.kind = "holding" /\ tokens[h].data.amount = 1
      /\ TokenizedIn(accounts, a) /\ accounts[a].data.token_account = h
      /\ d.supply = 1
  <2>1. AmountIn(tokens, h) \in {0, 1} /\ d.supply \in {0, 1}
    BY <1>1, <1>2, TokenTypes DEF TokensGood
  <2>2. AmountIn(tokens, h) =
          IF TokenizedIn(accounts, a) /\ accounts[a].data.token_account = h
            THEN d.supply ELSE 0
    BY DEF TokensGood, SupplyIn
  <2> HIDE DEF a, d
  <2>3. AmountIn(tokens, h) = 1
    BY <1>2, <2>1
  <2> QED BY <2>2, <2>3 DEF AmountIn
<1>4. /\ tokens \in [TokenAddress -> TokenRecord]
      /\ RecordGood(tokens[h]) /\ RecordGood(tokens[m])
      /\ tokens[h] \in TokenRecord /\ tokens[m] \in TokenRecord
  BY <1>1 DEF TokensGood, RecordsGood
<1>5. /\ tokens[h].data \in [kind : {"holding"}, amount : {0, 1}]
      /\ d \in [kind : {"mint"}, group : SchemaMintAddress,
                member_number : Nat, supply : {0, 1},
                additional_metadata : AdditionalMetadata]
  BY <1>1, <1>2, <1>3, TokenTypes, TokenKindType DEF TokensGood
<1>6. /\ dh \in TokenData /\ dh.kind = "holding" /\ dh.amount = 0
      /\ dm \in TokenData /\ dm.kind = "mint" /\ dm.supply = 0
      /\ dm.group = d.group /\ dm.member_number = d.member_number
      /\ dm.additional_metadata = d.additional_metadata
  <2>1. dh = [kind |-> "holding", amount |-> 0]
    BY <1>3, <1>5
  <2>2. dm = [kind |-> "mint", group |-> d.group,
              member_number |-> d.member_number, supply |-> 0,
              additional_metadata |-> d.additional_metadata]
    BY <1>3, <1>5
  <2> QED BY <1>5, <2>1, <2>2 DEF TokenData
<1>7. tokens' = [tokens EXCEPT ![h] = [tokens[h] EXCEPT !.data = dh],
                               ![m] = [tokens[m] EXCEPT !.data = dm]]
  BY <1>1, <1>2, <1>4
<1> HIDE DEF dh, dm
<1>8. /\ RecordGood([tokens[h] EXCEPT !.data = dh])
      /\ RecordGood([tokens[m] EXCEPT !.data = dm])
  BY <1>2, <1>3, <1>4, <1>6, RewrittenGood
<1>9. /\ tokens'[h] = [tokens[h] EXCEPT !.data = dh]
      /\ tokens'[m] = [tokens[m] EXCEPT !.data = dm]
      /\ \A x \in TokenAddress \ {h, m} : tokens'[x] = tokens[x]
      /\ tokens' \in [TokenAddress -> TokenRecord]
  BY <1>1, <1>4, <1>7, <1>8 DEF RecordGood
<1>10. /\ tokens'[h].data = dh /\ tokens'[m].data = dm
       /\ \A x \in TokenAddress \ {h, m} : tokens'[x].data = tokens[x].data
  BY <1>4, <1>9 DEF TokenRecord
<1>11. RecordsGood(tokens')
  BY <1>8, <1>9 DEF RecordsGood, TokensGood
<1> HIDE DEF m, a, d
<1>12. /\ \A x \in AttestationMintAddress :
            /\ tokens'[x].data.kind = tokens[x].data.kind
            /\ tokens[x].data.kind = "mint" =>
                 /\ tokens'[x].data.group = tokens[x].data.group
                 /\ tokens'[x].data.member_number = tokens[x].data.member_number
                 /\ tokens'[x].data.additional_metadata
                      = tokens[x].data.additional_metadata
       /\ \A x \in SchemaMintAddress : tokens'[x].data = tokens[x].data
  <2>1. /\ \A x \in AttestationMintAddress :
             x = m \/ x \in TokenAddress \ {h, m}
        /\ \A x \in SchemaMintAddress : x \in TokenAddress \ {h, m}
    BY <1>1, TokenAddresses, TokenKindsApart
  <2> QED BY <1>2, <1>6, <1>10, <2>1 DEF d
<1>13. \A x \in AttestationMintAddress : tokens[x].data.kind = "mint" =>
         tokens[x].data.group \in SchemaMintAddress
  BY TokenAddresses, TokenTypes DEF TokensGood
<1>14. MintsMatchIn(accounts', tokens')
  <2> SUFFICES ASSUME NEW b \in AttestationAddress
      PROVE  LET mint == tokens'[AttestationMintPda(b)].data
             IN  /\ mint.kind = "mint" <=> TokenizedIn(accounts', b)
                 /\ mint.kind = "mint" =>
                      /\ mint.group = SchemaMintPda(accounts'[b].data.schema)
                      /\ mint.additional_metadata
                           = Metadata(b, accounts'[b].data.schema)
                      /\ tokens'[mint.group].data.kind = "group"
    BY DEF MintsMatchIn
  <2> DEFINE old == tokens[AttestationMintPda(b)].data
             new == tokens'[AttestationMintPda(b)].data
  <2>1. /\ new.kind = old.kind
        /\ old.kind = "mint" =>
             /\ new.group = old.group /\ old.group \in SchemaMintAddress
             /\ new.additional_metadata = old.additional_metadata
    BY <1>12, <1>13, TokenAddresses
  <2>2. /\ old.kind = "mint" <=> TokenizedIn(accounts, b)
        /\ old.kind = "mint" =>
             /\ old.group = SchemaMintPda(accounts[b].data.schema)
             /\ old.additional_metadata = Metadata(b, accounts[b].data.schema)
             /\ tokens[old.group].data.kind = "group"
    BY DEF TokensGood, MintsMatchIn
  <2> HIDE DEF old
  <2>3. old.kind = "mint" => tokens'[old.group].data.kind = "group"
    BY <1>12, <2>1, <2>2
  <2> QED BY <1>2, <2>1, <2>2, <2>3
<1>15. SupplyIn(accounts', tokens')
  <2> SUFFICES ASSUME NEW k \in HoldingAddress
      PROVE  LET b == k.mint.attestation
             IN  AmountIn(tokens', k) =
                   IF TokenizedIn(accounts', b)
                        /\ accounts'[b].data.token_account = k
                     THEN tokens'[k.mint].data.supply ELSE 0
    BY DEF SupplyIn
  <2> DEFINE b == k.mint.attestation
  <2>1. /\ AmountIn(tokens, k) =
             IF TokenizedIn(accounts, b) /\ accounts[b].data.token_account = k
               THEN tokens[k.mint].data.supply ELSE 0
        /\ k \in TokenAddress /\ k.mint \in AttestationMintAddress
        /\ k.mint = AttestationMintPda(b) /\ k.mint \in TokenAddress
    BY TokenAddresses DEF TokensGood, SupplyIn
  <2>2. CASE k = h
    <3>1. AmountIn(tokens', h) = 0 /\ b = a /\ k.mint = m
      BY <1>6, <1>10, <2>2 DEF AmountIn, a, m
    <3> HIDE DEF b
    <3>2. AmountIn(tokens', k) =
            IF TokenizedIn(accounts, b) /\ accounts[b].data.token_account = k
              THEN tokens'[k.mint].data.supply ELSE 0
      BY <1>6, <1>10, <2>2, <3>1
    <3> QED BY <1>2, <3>2 DEF b
  <2>3. CASE k # h
    <3>1. AmountIn(tokens', k) = AmountIn(tokens, k)
      BY <1>1, <1>10, <2>1, <2>3, TokenKindsApart DEF AmountIn
    <3>2. CASE k.mint = m
      <4>1. b = a /\ accounts[b].data.token_account # k
        BY <1>3, <2>3, <3>2 DEF a
      <4> HIDE DEF b
      <4>2. AmountIn(tokens', k) =
              IF TokenizedIn(accounts, b) /\ accounts[b].data.token_account = k
                THEN tokens'[k.mint].data.supply ELSE 0
        BY <2>1, <3>1, <4>1
      <4> QED BY <1>2, <4>2 DEF b
    <3>3. CASE k.mint # m
      <4>1. tokens'[k.mint].data = tokens[k.mint].data
        BY <1>10, <2>1, <3>3, TokenKindsApart
      <4> HIDE DEF b
      <4>2. AmountIn(tokens', k) =
              IF TokenizedIn(accounts, b) /\ accounts[b].data.token_account = k
                THEN tokens'[k.mint].data.supply ELSE 0
        BY <2>1, <3>1, <4>1
      <4> QED BY <1>2, <4>2 DEF b
    <3> QED BY <3>2, <3>3
  <2> QED BY <2>2, <2>3
<1>16. MembersIn(tokens')
  BY <1>12 DEF TokensGood, MembersIn, MemberOf
<1>17. BurnedStay
  <2> SUFFICES ASSUME NEW b \in AttestationAddress,
                      tokens[AttestationMintPda(b)].data.supply = 0
               PROVE  tokens'[AttestationMintPda(b)].data
                        = tokens[AttestationMintPda(b)].data
    BY <1>2 DEF BurnedStay
  <2> QED BY <1>1, <1>3, <1>10, TokenAddresses, TokenKindsApart DEF d
<1>18. GroupsStay
  <2>1. \A g \in SchemaMintAddress :
          tokens[g].data.kind = "group" => tokens[g].data.size \in Nat
    BY TokenAddresses, TokenTypes DEF TokensGood
  <2> QED BY <1>12, <2>1 DEF GroupsStay
<1>19. NumbersFresh
  BY <1>12 DEF NumbersFresh
<1> QED BY <1>11, <1>14, <1>15, <1>16, <1>17, <1>18, <1>19
     DEF TokenStep, TokensGood

(* The other attestations, mints and token accounts than those of a        *)
(* tokenized attestation at a stay.                                        *)
OthersSame(a, h) ==
  /\ \A b \in AttestationAddress \ {a} :
       /\ TokenizedIn(accounts', b) <=> TokenizedIn(accounts, b)
       /\ accounts'[b].data = accounts[b].data
  /\ \A m \in AttestationMintAddress \ {AttestationMintPda(a)} :
       tokens'[m].data = tokens[m].data
  /\ \A k \in HoldingAddress \ {h} : AmountIn(tokens', k) = AmountIn(tokens, k)

(* The attestation at a, its mint in the group g and its token at h.       *)
MintAdded(a, g, h) ==
  LET mint == AttestationMintPda(a)
  IN  /\ ~TokenizedIn(accounts, a) /\ TokenizedIn(accounts', a)
      /\ g = SchemaMintPda(accounts'[a].data.schema)
      /\ h.mint = mint /\ accounts'[a].data.token_account = h
      /\ tokens'[mint].data
           = Mint(g, tokens[g].data.size + 1,
                  Metadata(a, accounts'[a].data.schema))
      /\ AmountIn(tokens', h) = 1
      /\ tokens[g].data.kind = "group"
      /\ tokens[g].data.size < tokens[g].data.max_size
      /\ tokens'[g].data = [tokens[g].data EXCEPT !.size = @ + 1]
      /\ \A x \in SchemaMintAddress \ {g} : tokens'[x].data = tokens[x].data
      /\ OthersSame(a, h)

LEMMA MintAddedTokens ==
  ASSUME TokensGood(accounts, tokens), RecordsGood(tokens'),
         NEW a \in AttestationAddress, NEW g \in SchemaMintAddress,
         NEW h \in HoldingAddress, MintAdded(a, g, h)
  PROVE  TokenStep
<1> DEFINE mint == AttestationMintPda(a)
           G == tokens[g].data
           n == G.size + 1
<1>1. /\ mint \in AttestationMintAddress /\ mint \in TokenAddress
      /\ g \in TokenAddress /\ h \in TokenAddress
  BY TokenAddresses
<1>2. /\ G \in [kind : {"group"}, size : Nat, max_size : MaxSize]
      /\ G.size \in Nat /\ G.max_size \in Nat /\ G.size < G.max_size
      /\ n \in Nat /\ n = G.size + 1
  <2>1. G.kind = "group" /\ G.size < G.max_size
    BY DEF MintAdded
  <2>2. G \in TokenData
    BY <1>1, TokenTypes DEF TokensGood
  <2>3. G \in [kind : {"group"}, size : Nat, max_size : MaxSize]
    BY <2>1, <2>2, TokenKindType
  <2>4. G.size \in Nat /\ G.max_size \in Nat
    <3> HIDE DEF G
    <3> QED BY <2>3, TokenAssumption
  <2>5. n \in Nat /\ n = G.size + 1
    BY <2>4
  <2> QED BY <2>1, <2>3, <2>4, <2>5
<1>3. /\ tokens'[g].data.kind = "group" /\ tokens'[g].data.size = n
      /\ tokens'[g].data.max_size = G.max_size
  <2>1. tokens'[g].data = [G EXCEPT !.size = @ + 1]
    BY DEF MintAdded
  <2> HIDE DEF G
  <2> QED BY <1>2, <2>1
<1>4. /\ tokens'[mint].data.kind = "mint" /\ tokens'[mint].data.group = g
      /\ tokens'[mint].data.member_number = n /\ tokens'[mint].data.supply = 1
      /\ tokens'[mint].data.additional_metadata
           = Metadata(a, accounts'[a].data.schema)
  BY DEF MintAdded, Mint
<1>5. /\ ~TokenizedIn(accounts, a) /\ TokenizedIn(accounts', a)
      /\ g = SchemaMintPda(accounts'[a].data.schema)
      /\ h.mint = mint /\ accounts'[a].data.token_account = h
      /\ AmountIn(tokens', h) = 1
  BY DEF MintAdded
<1>6. /\ \A b \in AttestationAddress \ {a} :
           /\ TokenizedIn(accounts', b) <=> TokenizedIn(accounts, b)
           /\ accounts'[b].data = accounts[b].data
      /\ \A m \in AttestationMintAddress \ {mint} :
           tokens'[m].data = tokens[m].data
      /\ \A k \in HoldingAddress \ {h} :
           AmountIn(tokens', k) = AmountIn(tokens, k)
      /\ \A x \in SchemaMintAddress \ {g} : tokens'[x].data = tokens[x].data
  BY DEF MintAdded, OthersSame
<1>7. tokens[mint].data.kind # "mint"
  BY <1>5 DEF TokensGood, MintsMatchIn
<1>8. G.kind = "group"
  BY <1>2
<1> HIDE DEF n
<1>9. MintsMatchIn(accounts', tokens')
  <2> SUFFICES ASSUME NEW b \in AttestationAddress
      PROVE  LET m == tokens'[AttestationMintPda(b)].data
             IN  /\ m.kind = "mint" <=> TokenizedIn(accounts', b)
                 /\ m.kind = "mint" =>
                      /\ m.group = SchemaMintPda(accounts'[b].data.schema)
                      /\ m.additional_metadata
                           = Metadata(b, accounts'[b].data.schema)
                      /\ tokens'[m.group].data.kind = "group"
    BY DEF MintsMatchIn
  <2>1. CASE b = a
    BY <1>3, <1>4, <1>5, <2>1
  <2>2. CASE b # a
    <3> DEFINE old == tokens[AttestationMintPda(b)].data
               new == tokens'[AttestationMintPda(b)].data
    <3>1. AttestationMintPda(b) \in AttestationMintAddress \ {mint}
          /\ AttestationMintPda(b) \in TokenAddress
      BY <2>2, TokenAddresses
    <3>2. /\ old.kind = "mint" <=> TokenizedIn(accounts, b)
          /\ old.kind = "mint" =>
               /\ old.group = SchemaMintPda(accounts[b].data.schema)
               /\ old.additional_metadata
                    = Metadata(b, accounts[b].data.schema)
               /\ tokens[old.group].data.kind = "group"
               /\ old.group \in SchemaMintAddress
      BY <3>1, TokenTypes DEF TokensGood, MintsMatchIn
    <3>3. new = old
      BY <1>6, <3>1
    <3> HIDE DEF old
    <3>4. old.kind = "mint" => tokens'[old.group].data.kind = "group"
      BY <1>3, <1>6, <3>2
    <3> QED BY <1>6, <2>2, <3>2, <3>3, <3>4
  <2> QED BY <2>1, <2>2
<1>10. SupplyIn(accounts', tokens')
  <2> SUFFICES ASSUME NEW k \in HoldingAddress
      PROVE  LET b == k.mint.attestation
             IN  AmountIn(tokens', k) =
                   IF TokenizedIn(accounts', b)
                        /\ accounts'[b].data.token_account = k
                     THEN tokens'[k.mint].data.supply ELSE 0
    BY DEF SupplyIn
  <2> DEFINE b == k.mint.attestation
             supplied == TokenizedIn(accounts', b)
                           /\ accounts'[b].data.token_account = k
  <2>1. /\ AmountIn(tokens, k) =
             IF TokenizedIn(accounts, b) /\ accounts[b].data.token_account = k
               THEN tokens[k.mint].data.supply ELSE 0
        /\ k.mint \in AttestationMintAddress /\ b \in AttestationAddress
        /\ k.mint = AttestationMintPda(b)
    BY TokenAddresses DEF TokensGood, SupplyIn
  <2>2. AmountIn(tokens', k) = IF supplied THEN tokens'[k.mint].data.supply
                               ELSE 0
    <3>1. CASE k = h
      <4>1. b = a /\ k.mint = mint
        BY <1>5, <3>1, TokenAddresses
      <4> HIDE DEF b, mint
      <4> QED BY <1>4, <1>5, <3>1, <4>1
    <3>2. CASE k # h /\ b = a
      <4> HIDE DEF b
      <4>1. AmountIn(tokens', k) = 0
        BY <1>5, <1>6, <2>1, <3>2
      <4>2. ~supplied
        BY <1>5, <3>2
      <4> QED BY <4>1, <4>2
    <3>3. CASE k # h /\ b # a
      <4>1. k.mint # mint
        BY <3>3, TokenAddresses
      <4>2. tokens'[k.mint].data = tokens[k.mint].data
        BY <1>6, <2>1, <4>1
      <4>3. AmountIn(tokens', k) = AmountIn(tokens, k)
        BY <1>6, <3>3
      <4> HIDE DEF b, mint
      <4> QED BY <1>6, <2>1, <3>3, <4>2, <4>3
    <3> QED BY <3>1, <3>2, <3>3
  <2> QED BY <2>2
<1>11. MembersIn(tokens')
  <2> SUFFICES ASSUME NEW x \in SchemaMintAddress
      PROVE  /\ tokens'[x].data.kind = "group" =>
                  tokens'[x].data.size <= tokens'[x].data.max_size
             /\ \A m \in AttestationMintAddress : MemberOf(tokens', m, x) =>
                  /\ tokens'[m].data.member_number \in 1 .. tokens'[x].data.size
                  /\ \A k \in AttestationMintAddress \ {m} :
                       MemberOf(tokens', k, x) =>
                         tokens'[m].data.member_number
                           # tokens'[k].data.member_number
    BY DEF MembersIn
  <2>1. \A m \in AttestationMintAddress : MemberOf(tokens, m, x) =>
          /\ tokens[m].data.member_number \in 1 .. tokens[x].data.size
          /\ \A k \in AttestationMintAddress \ {m} : MemberOf(tokens, k, x) =>
               tokens[m].data.member_number # tokens[k].data.member_number
    BY DEF TokensGood, MembersIn
  <2>2. \A m \in AttestationMintAddress \ {mint} :
          /\ MemberOf(tokens', m, x) <=> MemberOf(tokens, m, x)
          /\ tokens'[m].data.member_number = tokens[m].data.member_number
    BY <1>6 DEF MemberOf
  <2>3. CASE x = g
    <3>1. \A m \in AttestationMintAddress \ {mint} : MemberOf(tokens', m, g) =>
            /\ tokens'[m].data.member_number \in 1 .. n
            /\ tokens'[m].data.member_number # n
      <4>1. \A i \in 1 .. G.size : i \in 1 .. n /\ i # n
        BY <1>2
      <4> HIDE DEF mint
      <4> QED BY <2>1, <2>2, <2>3, <4>1
    <3>2. n \in 1 .. n /\ n <= G.max_size
      BY <1>2
    <3>3. \A m \in AttestationMintAddress \ {mint},
             k \in AttestationMintAddress \ {mint} :
            m # k /\ MemberOf(tokens', m, g) /\ MemberOf(tokens', k, g) =>
              tokens'[m].data.member_number # tokens'[k].data.member_number
      <4> HIDE DEF mint
      <4> QED BY <2>1, <2>2, <2>3
    <3> HIDE DEF mint, G
    <3> QED BY <1>3, <1>4, <2>3, <3>1, <3>2, <3>3
  <2>4. CASE x # g
    <3>1. ~MemberOf(tokens', mint, x)
      BY <1>4, <2>4 DEF MemberOf
    <3>2. tokens'[x].data = tokens[x].data
      BY <1>6, <2>4
    <3>3. tokens[x].data.kind = "group" =>
            tokens[x].data.size <= tokens[x].data.max_size
      BY DEF TokensGood, MembersIn
    <3> HIDE DEF mint
    <3> QED BY <2>1, <2>2, <3>1, <3>2, <3>3
  <2> QED BY <2>3, <2>4
<1>12. BurnedStay
  <2> SUFFICES ASSUME NEW b \in AttestationAddress,
                      tokens[AttestationMintPda(b)].data.kind = "mint"
               PROVE  /\ tokens'[AttestationMintPda(b)].data
                           = tokens[AttestationMintPda(b)].data
                      /\ accounts'[b].data = accounts[b].data
    BY DEF BurnedStay
  <2>1. b # a
    BY <1>7
  <2>2. AttestationMintPda(b) \in AttestationMintAddress \ {mint}
    BY <2>1, TokenAddresses
  <2> QED BY <1>6, <2>1, <2>2
<1>13. GroupsStay
  <2>1. \A x \in SchemaMintAddress :
          tokens[x].data.kind = "group" => tokens[x].data.size \in Nat
    BY TokenAddresses, TokenTypes DEF TokensGood
  <2>2. n >= G.size
    BY <1>2
  <2> QED BY <1>3, <1>6, <2>1, <2>2 DEF GroupsStay
<1>14. NumbersFresh
  <2>1. n > G.size
    BY <1>2
  <2> QED BY <1>4, <1>6, <1>8, <2>1 DEF NumbersFresh
<1> QED BY <1>9, <1>10, <1>11, <1>12, <1>13, <1>14 DEF TokenStep, TokensGood

LEMMA CreateTokenizedTokens ==
  ASSUME InOrder, TokensGood(accounts, tokens),
         NEW signer \in Wallet, NEW c \in CredentialKey,
         NEW s \in SchemaAddress, NEW nonce \in Nonce, NEW data \in Data,
         NEW expiry \in Expiry, NEW payer \in Wallet,
         NEW recipient \in Wallet, NEW metadataLen \in MetadataLen,
         NEW mintSpace \in MintSpace,
         CreateTokenizedAttestation(signer, c, s, nonce, data, expiry, payer,
                                    recipient, metadataLen, mintSpace)
  PROVE  TokenStep
<1> DEFINE a == AttestationPda(c, s, nonce)
           mint == AttestationMintPda(a)
           h == HoldingPda(recipient, mint)
           g == SchemaMintPda(s)
           G == tokens[g].data
           newGroup == [tokens[g] EXCEPT !.data = Joined(G)]
           newMint == SetUp(mint, MintRentSpace(mintSpace),
                            MintSpaceCreated + metadataLen + MemberSpace,
                            Mint(g, G.size + 1, Metadata(a, s)))
           newHolding == HoldingOf(h, 1)
<1>1. /\ IsVacant(tokens, mint) /\ HasRoom(G) /\ HoldingReady(h)
      /\ tokens' = [tokens EXCEPT ![g].data = Joined(@), ![mint] = newMint,
                                  ![h] = newHolding]
  BY DEF CreateTokenizedAttestation
<1>2. /\ a \in AttestationAddress /\ h \in HoldingAddress
      /\ AttestationIssued(a, signer, data, expiry, h)
  BY CreateTokenizedStep DEF TokensTyped, TokensGood, RecordsGood
<1>3. /\ g \in SchemaMintAddress /\ mint \in AttestationMintAddress
      /\ g \in TokenAddress /\ mint \in TokenAddress /\ h \in TokenAddress
      /\ g # mint /\ g # h /\ mint # h /\ h.mint = mint
      /\ mint.attestation = a
  BY <1>2, TokenAddresses, TokenKindsApart
<1>4. a.schema = s
  BY DEF AttestationPda
<1> HIDE DEF a
<1>5. /\ ~TokenizedIn(accounts, a) /\ TokenizedIn(accounts', a)
      /\ accounts'[a].data.schema = s /\ accounts'[a].data.token_account = h
      /\ \A b \in AttestationAddress \ {a} :
           /\ TokenizedIn(accounts', b) <=> TokenizedIn(accounts, b)
           /\ accounts'[b].data = accounts[b].data
  <2>1. h # NoToken
    BY <1>2, AddressAssumption DEF NoToken
  <2>2. /\ accounts[a].owner = "system" /\ accounts'[a].owner = "sas"
        /\ accounts'[a].data = Attestation(a.nonce, a.credential, a.schema,
                                           data, signer, expiry, h)
        /\ \A b \in AttestationAddress \ {a} :
             /\ accounts'[b].owner = accounts[b].owner
             /\ accounts'[b].data = accounts[b].data
    BY <1>2, AddressKinds DEF AttestationIssued, Rewritten
  <2> HIDE DEF h
  <2> QED BY <1>4, <2>1, <2>2 DEF TokenizedIn, HeldIn, Attestation
<1>6. AmountIn(tokens, h) = 0
  <2> HIDE DEF h
  <2> QED BY <1>2, <1>3, <1>5 DEF TokensGood, SupplyIn
<1>7. /\ G.kind = "group" /\ G.size < G.max_size
      /\ G \in [kind : {"group"}, size : Nat, max_size : MaxSize]
      /\ G.size \in Nat
  <2>1. G \in TokenData
    BY <1>3, TokenTypes DEF TokensGood
  <2>2. G.kind = "group" /\ G.size < G.max_size
    BY <1>1 DEF HasRoom
  <2>3. G \in [kind : {"group"}, size : Nat, max_size : MaxSize]
    BY <2>1, <2>2, TokenKindType
  <2> HIDE DEF G
  <2> QED BY <2>2, <2>3
<1>8. RecordGood(newGroup) /\ newGroup.data = [G EXCEPT !.size = @ + 1]
  <2>1. RecordGood(tokens[g]) /\ tokens[g] \in TokenRecord
    BY <1>3 DEF TokensGood, RecordsGood
  <2>2. Joined(G) \in TokenData /\ Joined(G).kind = "group"
    <3> HIDE DEF G
    <3> QED BY <1>7 DEF Joined, TokenData
  <2>3. RecordGood(newGroup)
    BY <1>7, <2>1, <2>2, RewrittenGood
  <2>4. newGroup.data = Joined(G)
    BY <2>1 DEF TokenRecord
  <2> QED BY <2>3, <2>4 DEF Joined
<1>9. /\ RecordGood(newMint)
      /\ newMint.data = Mint(g, G.size + 1, Metadata(a, s))
  <2>1. G.size + 1 \in Nat
    BY <1>7
  <2>2. newMint.data = Mint(g, G.size + 1, Metadata(a, s))
    BY DEF SetUp
  <2>3. Metadata(a, s) \in AdditionalMetadata
    BY <1>2 DEF AdditionalMetadata
  <2> HIDE DEF G, g, mint
  <2> QED BY <1>3, <2>1, <2>2, <2>3, NewMintGood DEF TokensGood
<1>10. /\ RecordGood(newHolding) /\ newHolding.data.kind = "holding"
       /\ newHolding.data.amount = 1
  <2> HIDE DEF h
  <2> QED BY <1>1, <1>2, <1>6, HoldingOfGood DEF TokensGood
<1>11. tokens' = [tokens EXCEPT ![g] = newGroup, ![mint] = newMint,
                                ![h] = newHolding]
  BY <1>1
<1> HIDE DEF newGroup, newMint, newHolding, mint, h, g, G
<1>12. /\ tokens'[g] = newGroup /\ tokens'[mint] = newMint
       /\ tokens'[h] = newHolding
       /\ \A x \in TokenAddress \ {g, mint, h} : tokens'[x] = tokens[x]
       /\ tokens' \in [TokenAddress -> TokenRecord]
  BY <1>3, <1>8, <1>9, <1>10, <1>11 DEF TokensGood, RecordsGood, RecordGood
<1>13. RecordsGood(tokens')
  BY <1>8, <1>9, <1>10, <1>12 DEF TokensGood, RecordsGood
<1>14. /\ \A m \in AttestationMintAddress \ {mint} :
            m \in TokenAddress \ {g, mint, h}
       /\ \A k \in HoldingAddress \ {h} : k \in TokenAddress \ {g, mint, h}
       /\ \A x \in SchemaMintAddress \ {g} : x \in TokenAddress \ {g, mint, h}
  BY <1>2, <1>3, TokenAddresses, TokenKindsApart
<1>15. /\ OthersSame(a, h)
       /\ \A x \in SchemaMintAddress \ {g} : tokens'[x].data = tokens[x].data
  BY <1>5, <1>12, <1>14 DEF OthersSame, AmountIn, mint
<1>16. AmountIn(tokens', h) = 1
  BY <1>10, <1>12 DEF AmountIn
<1>17. MintAdded(a, g, h)
  BY <1>3, <1>5, <1>7, <1>8, <1>9, <1>12, <1>15, <1>16
     DEF MintAdded, mint, G, g
<1> QED BY <1>2, <1>3, <1>13, <1>17, MintAddedTokens

(* The attestation at a is gone, and with it its mint and the token at h.  *)
MintRemoved(a, h) ==
  LET mint == AttestationMintPda(a)
  IN  /\ TokenizedIn(accounts, a) /\ ~TokenizedIn(accounts', a)
      /\ h.mint = mint /\ accounts[a].data.token_account = h
      /\ tokens[mint].data.supply = 1
      /\ tokens'[mint].data = NoData
      /\ AmountIn(tokens', h) = 0
      /\ \A x \in SchemaMintAddress : tokens'[x].data = tokens[x].data
      /\ OthersSame(a, h)

LEMMA MintRemovedTokens ==
  ASSUME TokensGood(accounts, tokens), RecordsGood(tokens'),
         NEW a \in AttestationAddress, NEW h \in HoldingAddress,
         MintRemoved(a, h)
  PROVE  TokenStep
<1> DEFINE mint == AttestationMintPda(a)
<1>1. mint \in AttestationMintAddress /\ mint \in TokenAddress
  BY TokenAddresses
<1>2. /\ TokenizedIn(accounts, a) /\ ~TokenizedIn(accounts', a)
      /\ h.mint = mint /\ accounts[a].data.token_account = h
      /\ tokens[mint].data.supply = 1
      /\ tokens'[mint].data.kind = "none"
      /\ AmountIn(tokens', h) = 0
      /\ \A x \in SchemaMintAddress : tokens'[x].data = tokens[x].data
  BY DEF MintRemoved, NoData
<1>3. /\ \A b \in AttestationAddress \ {a} :
           /\ TokenizedIn(accounts', b) <=> TokenizedIn(accounts, b)
           /\ accounts'[b].data = accounts[b].data
      /\ \A m \in AttestationMintAddress \ {mint} :
           tokens'[m].data = tokens[m].data
      /\ \A k \in HoldingAddress \ {h} :
           AmountIn(tokens', k) = AmountIn(tokens, k)
  BY DEF MintRemoved, OthersSame
<1>4. MintsMatchIn(accounts', tokens')
  <2> SUFFICES ASSUME NEW b \in AttestationAddress
      PROVE  LET m == tokens'[AttestationMintPda(b)].data
             IN  /\ m.kind = "mint" <=> TokenizedIn(accounts', b)
                 /\ m.kind = "mint" =>
                      /\ m.group = SchemaMintPda(accounts'[b].data.schema)
                      /\ m.additional_metadata
                           = Metadata(b, accounts'[b].data.schema)
                      /\ tokens'[m.group].data.kind = "group"
    BY DEF MintsMatchIn
  <2>1. CASE b = a
    BY <1>2, <2>1
  <2>2. CASE b # a
    <3> DEFINE old == tokens[AttestationMintPda(b)].data
               new == tokens'[AttestationMintPda(b)].data
    <3>1. AttestationMintPda(b) \in AttestationMintAddress \ {mint}
          /\ AttestationMintPda(b) \in TokenAddress
      BY <2>2, TokenAddresses
    <3>2. /\ old.kind = "mint" <=> TokenizedIn(accounts, b)
          /\ old.kind = "mint" =>
               /\ old.group = SchemaMintPda(accounts[b].data.schema)
               /\ old.additional_metadata
                    = Metadata(b, accounts[b].data.schema)
               /\ tokens[old.group].data.kind = "group"
               /\ old.group \in SchemaMintAddress
      BY <3>1, TokenTypes DEF TokensGood, MintsMatchIn
    <3>3. new = old
      BY <1>3, <3>1
    <3> HIDE DEF old
    <3>4. old.kind = "mint" => tokens'[old.group].data.kind = "group"
      BY <1>2, <3>2
    <3> QED BY <1>3, <2>2, <3>2, <3>3, <3>4
  <2> QED BY <2>1, <2>2
<1>5. SupplyIn(accounts', tokens')
  <2> SUFFICES ASSUME NEW k \in HoldingAddress
      PROVE  LET b == k.mint.attestation
             IN  AmountIn(tokens', k) =
                   IF TokenizedIn(accounts', b)
                        /\ accounts'[b].data.token_account = k
                     THEN tokens'[k.mint].data.supply ELSE 0
    BY DEF SupplyIn
  <2> DEFINE b == k.mint.attestation
             supplied == TokenizedIn(accounts', b)
                           /\ accounts'[b].data.token_account = k
  <2>1. /\ AmountIn(tokens, k) =
             IF TokenizedIn(accounts, b) /\ accounts[b].data.token_account = k
               THEN tokens[k.mint].data.supply ELSE 0
        /\ k.mint \in AttestationMintAddress /\ b \in AttestationAddress
        /\ k.mint = AttestationMintPda(b)
    BY TokenAddresses DEF TokensGood, SupplyIn
  <2>2. AmountIn(tokens, h) # 0 /\ h.mint.attestation = a
    <3>1. h.mint.attestation = a
      BY <1>2, TokenAddresses
    <3>2. AmountIn(tokens, h) = tokens[mint].data.supply
      BY <1>2, <3>1 DEF TokensGood, SupplyIn
    <3> QED BY <1>2, <3>1, <3>2
  <2>3. CASE b = a
    <3>1. AmountIn(tokens', k) = 0
      <4> HIDE DEF b
      <4> QED BY <1>2, <1>3, <2>1, <2>3
    <3>2. ~supplied
      <4> HIDE DEF b
      <4> QED BY <1>2, <2>3
    <3> QED BY <3>1, <3>2
  <2>4. CASE b # a
    <3>1. k.mint # mint /\ k # h
      BY <2>2, <2>4, TokenAddresses
    <3> HIDE DEF b, mint
    <3>2. AmountIn(tokens', k) = IF supplied THEN tokens'[k.mint].data.supply
                                 ELSE 0
      BY <1>3, <2>1, <2>4, <3>1
    <3> QED BY <3>2 DEF b
  <2> QED BY <2>3, <2>4
<1>6. MembersIn(tokens')
  <2>1. \A m \in AttestationMintAddress, x \in SchemaMintAddress :
          MemberOf(tokens', m, x) =>
            MemberOf(tokens, m, x) /\ tokens'[m].data = tokens[m].data
    <3> HIDE DEF mint
    <3> QED BY <1>2, <1>3 DEF MemberOf
  <2> QED BY <1>2, <2>1 DEF MembersIn, TokensGood
<1>7. BurnedStay
  <2> SUFFICES ASSUME NEW b \in AttestationAddress,
                      tokens[AttestationMintPda(b)].data.supply = 0
               PROVE  /\ tokens'[AttestationMintPda(b)].data
                           = tokens[AttestationMintPda(b)].data
                      /\ accounts'[b].data = accounts[b].data
    BY DEF BurnedStay
  <2>1. b # a
    BY <1>2
  <2>2. AttestationMintPda(b) \in AttestationMintAddress \ {mint}
    BY <2>1, TokenAddresses
  <2> QED BY <1>3, <2>1, <2>2
<1>8. GroupsStay
  <2>1. \A x \in SchemaMintAddress :
          tokens[x].data.kind = "group" => tokens[x].data.size \in Nat
    BY TokenAddresses, TokenTypes DEF TokensGood
  <2> QED BY <1>2, <2>1 DEF GroupsStay
<1>9. NumbersFresh
  <2> HIDE DEF mint
  <2> QED BY <1>2, <1>3 DEF NumbersFresh
<1> QED BY <1>4, <1>5, <1>6, <1>7, <1>8, <1>9 DEF TokenStep, TokensGood

LEMMA CloseTokenizedTokens ==
  ASSUME InOrder, TokensGood(accounts, tokens),
         NEW signer \in Wallet, NEW c \in CredentialKey,
         NEW a \in AttestationAddress, NEW h \in HoldingAddress,
         NEW payee \in Address,
         CloseTokenizedAttestation(signer, c, a, h, payee)
  PROVE  TokenStep
<1> DEFINE mint == AttestationMintPda(a)
           d == Holding(Amount(h) - 1)
           newHolding == [tokens[h] EXCEPT !.data = d]
<1>1. /\ h.mint = mint /\ IsA(mint, "mint") /\ CanBurnAndClose(mint, h)
      /\ accounts[a].data.token_account = h
      /\ tokens' = [tokens EXCEPT ![mint] = Vacant, ![h].data = d]
  BY DEF CloseTokenizedAttestation, CanCloseAttestation
<1>2. AttestationClosed(a, signer)
  BY CloseTokenizedStep DEF TokensTyped, TokensGood, RecordsGood
<1>3. /\ mint \in AttestationMintAddress /\ mint \in TokenAddress
      /\ h \in TokenAddress /\ mint # h
  BY TokenAddresses, TokenKindsApart
<1>4. /\ TokenizedIn(accounts, a) /\ ~TokenizedIn(accounts', a)
      /\ \A b \in AttestationAddress \ {a} :
           /\ TokenizedIn(accounts', b) <=> TokenizedIn(accounts, b)
           /\ accounts'[b].data = accounts[b].data
  <2>1. h # NoToken
    BY AddressAssumption DEF NoToken
  <2> QED BY <1>1, <1>2, <2>1, AddressKinds
       DEF AttestationClosed, Rewritten, TokenizedIn, HeldIn, Holds
<1>5. /\ Amount(h) = AmountIn(tokens, h) /\ Amount(h) = 1
      /\ tokens[h].data.kind = "holding" /\ tokens[mint].data.supply = 1
  <2>1. Amount(h) = AmountIn(tokens, h)
    BY DEF Amount, AmountIn, IsA
  <2>2. /\ AmountIn(tokens, h) \in {0, 1}
        /\ tokens[mint].data.supply \in {0, 1}
    BY <1>1, <1>3, TokenTypes DEF TokensGood, IsA
  <2>3. Amount(h) >= 1 /\ tokens[mint].data.supply - 1 = 0
    BY <1>1 DEF CanBurnAndClose
  <2> QED BY <2>1, <2>2, <2>3 DEF AmountIn
<1>6. RecordGood(newHolding) /\ newHolding.data = d /\ d = Holding(0)
  <2>1. d = Holding(0)
    BY <1>5
  <2>2. Holding(0) \in TokenData /\ Holding(0).kind = "holding"
    BY DEF Holding, TokenData
  <2>3. RecordGood(tokens[h]) /\ tokens[h] \in TokenRecord
    BY <1>3 DEF TokensGood, RecordsGood
  <2> HIDE DEF d
  <2>4. RecordGood(newHolding)
    BY <1>5, <2>1, <2>2, <2>3, RewrittenGood
  <2>5. newHolding.data = d
    BY <2>3 DEF TokenRecord
  <2> QED BY <2>1, <2>4, <2>5
<1>7. tokens' = [tokens EXCEPT ![mint] = Vacant, ![h] = newHolding]
  BY <1>1, <1>3
<1> HIDE DEF newHolding, d, mint
<1>8. /\ tokens'[mint] = Vacant /\ tokens'[h] = newHolding
      /\ \A x \in TokenAddress \ {mint, h} : tokens'[x] = tokens[x]
      /\ tokens' \in [TokenAddress -> TokenRecord]
  BY <1>3, <1>6, <1>7, VacantGood DEF TokensGood, RecordsGood, RecordGood
<1>9. RecordsGood(tokens')
  BY <1>6, <1>8, VacantGood DEF TokensGood, RecordsGood
<1>10. /\ \A m \in AttestationMintAddress \ {mint} :
            m \in TokenAddress \ {mint, h}
       /\ \A k \in HoldingAddress \ {h} : k \in TokenAddress \ {mint, h}
       /\ \A x \in SchemaMintAddress : x \in TokenAddress \ {mint, h}
  BY <1>3, TokenAddresses, TokenKindsApart
<1>11. OthersSame(a, h)
  BY <1>4, <1>8, <1>10 DEF OthersSame, AmountIn, mint
<1>12. AmountIn(tokens', h) = 0
  BY <1>6, <1>8 DEF AmountIn, Holding
<1>13. MintRemoved(a, h)
  <2>1. /\ tokens'[mint].data = NoData
        /\ \A x \in SchemaMintAddress : tokens'[x].data = tokens[x].data
    BY <1>8, <1>10 DEF Vacant
  <2> QED BY <1>1, <1>4, <1>5, <1>11, <1>12, <2>1 DEF MintRemoved, mint
<1> QED BY <1>9, <1>13, MintRemovedTokens

(* The instructions on credentials, schemas and plain attestations, which  *)
(* do not know of the token accounts.                                      *)
LEMMA UntouchedTokens ==
  ASSUME TokensGood(accounts, tokens), SameTokenized(accounts, accounts'),
         tokens' = tokens
  PROVE  TokenStep
<1>1. RecordsGood(tokens')
  BY DEF TokensGood
<1>2. SameTokens(tokens, tokens')
  BY DEF SameTokens
<1> QED BY <1>1, <1>2, SameTokensStep

LEMMA CreateAttestationTokens ==
  ASSUME InOrder, TokensGood(accounts, tokens), tokens' = tokens,
         NEW signer \in Wallet, NEW c \in CredentialKey,
         NEW s \in SchemaAddress, NEW nonce \in Nonce, NEW data \in Data,
         NEW expiry \in Expiry, NEW payer \in Wallet,
         CreateAttestation(signer, c, s, nonce, data, expiry, payer)
  PROVE  TokenStep
<1>1. PICK a \in AttestationAddress :
        AttestationIssued(a, signer, data, expiry, NoToken)
  BY CreateAttestationEffect DEF InOrder
<1>2. /\ accounts[a].owner = "system"
      /\ accounts'[a].data.token_account = NoToken
      /\ \A b \in AttestationAddress \ {a} :
           /\ accounts'[b].owner = accounts[b].owner
           /\ accounts'[b].data = accounts[b].data
  BY <1>1, AddressKinds DEF AttestationIssued, Rewritten, Attestation
<1>3. SameTokenized(accounts, accounts')
  BY <1>2 DEF SameTokenized, TokenizedIn, HeldIn
<1> QED BY <1>3, UntouchedTokens

LEMMA CloseAttestationTokens ==
  ASSUME InOrder, TokensGood(accounts, tokens), tokens' = tokens,
         NEW signer \in Wallet, NEW c \in CredentialKey,
         NEW a \in AttestationAddress, NEW payee \in Address,
         CloseAttestation(signer, c, a, payee)
  PROVE  TokenStep
<1>1. /\ AttestationClosed(a, signer)
      /\ accounts[a].data.token_account = NoToken
  BY CloseAttestationEffect DEF InOrder
<1>2. /\ accounts'[a].owner = "system"
      /\ \A b \in AttestationAddress \ {a} :
           /\ accounts'[b].owner = accounts[b].owner
           /\ accounts'[b].data = accounts[b].data
  BY <1>1, AddressKinds DEF AttestationClosed, Rewritten
<1>3. SameTokenized(accounts, accounts')
  BY <1>1, <1>2 DEF SameTokenized, TokenizedIn, HeldIn
<1> QED BY <1>3, UntouchedTokens

LEMMA PlainTokens ==
  ASSUME InOrder, TokensGood(accounts, tokens), tokens' = tokens,
         CredentialNext \/ SchemaNext \/ AttestationNext \/ SystemNext
  PROVE  TokenStep
<1>1. CASE CredentialNext
  <2>1. UNCHANGED <<events, issued>>
    BY <1>1 DEF CredentialNext, CreateCredential, ChangeAuthorizedSigners
  <2> QED BY <1>1, <2>1, CredentialStep, QuietEffect, UntouchedTokens
       DEF GoodStep
<1>2. CASE SchemaNext
  <2>1. UNCHANGED <<events, issued>>
    <3>1. ASSUME NEW c, NEW s, NEW payer, NEW layout, NEW fieldNames,
                 \/ \E name, description :
                      CreateSchema(c, name, description, layout, fieldNames,
                                   payer)
                 \/ ChangeSchemaVersion(c, s, layout, fieldNames, payer)
          PROVE  UNCHANGED <<events, issued>>
      BY <3>1 DEF CreateSchema, ChangeSchemaVersion, NewSchema
    <3>2. ASSUME NEW c, NEW s,
                 \/ \E paused : ChangeSchemaStatus(c, s, paused)
                 \/ \E payer, description :
                      ChangeSchemaDescription(c, s, description, payer)
          PROVE  UNCHANGED <<events, issued>>
      BY <3>2 DEF ChangeSchemaStatus, ChangeSchemaDescription
    <3> QED BY <1>2, <3>1, <3>2 DEF SchemaNext
  <2> QED BY <1>2, <2>1, SchemaStep, QuietEffect, UntouchedTokens
       DEF GoodStep
<1>3. CASE SystemNext
  <2>1. UNCHANGED <<events, issued>>
    BY <1>3 DEF SystemNext, SendLamports, AssignWallet
  <2> QED BY <1>3, <2>1, SystemStep, QuietEffect, UntouchedTokens
       DEF GoodStep
<1>4. CASE AttestationNext
  BY <1>4, CreateAttestationTokens, CloseAttestationTokens, BoundAssumption
     DEF AttestationNext
<1> QED BY <1>1, <1>2, <1>3, <1>4

(* The token instructions and the steps of holders.                        *)
LEMMA TokenizationTokens ==
  ASSUME InOrder, TokensGood(accounts, tokens), TokenizationNext
  PROVE  TokenStep
<1>1. ASSUME NEW c \in CredentialKey, NEW s \in SchemaAddress,
             NEW payer \in Wallet, NEW maxSize \in MaxSize,
             TokenizeSchema(c, s, maxSize, payer)
      PROVE  TokenStep
  <2>1. TokenCost(SchemaMintPda(s), GroupRentSpace) \in Nat
    BY TokenAddresses, SpaceTypes, TokenCostEnough
       DEF TokensTyped, TokensGood, RecordsGood
  <2>2. Effect /\ UNCHANGED <<events, issued>>
    BY <1>1, <2>1, PaymentStep DEF TokenizeSchema, GoodStep
  <2> QED BY <1>1, <2>2, QuietEffect, TokenizeSchemaTokens
<1> QED BY <1>1, CreateTokenizedTokens, CloseTokenizedTokens,
           TokenAssumption, BoundAssumption DEF TokenizationNext

LEMMA HolderTokens ==
  ASSUME InOrder, TokensGood(accounts, tokens), HolderNext
  PROVE  TokenStep
<1>1. TokensTyped
  BY DEF TokensTyped, TokensGood, RecordsGood
<1>2. ASSUME NEW h \in HoldingAddress, CloseHolding(h)
      PROVE  TokenStep
  <2>1. h.wallet \in Address /\ tokens[h].lamports \in Nat
    BY <1>1, TokenAddresses, AddressKinds DEF TokensTyped, TokenRecord
  <2>2. Effect /\ UNCHANGED <<events, issued>>
    BY <1>2, <2>1, ReceiptStep DEF CloseHolding, GoodStep
  <2> QED BY <1>2, <2>2, QuietEffect, CloseHoldingTokens
<1>3. ASSUME NEW h \in HoldingAddress, NEW payer \in Wallet,
             CreateHolding(h, payer)
      PROVE  TokenStep
  <2>1. Effect /\ UNCHANGED <<events, issued>>
    BY <1>1, <1>3, HoldingCostType, PaymentStep DEF CreateHolding, GoodStep
  <2> QED BY <1>3, <2>1, QuietEffect, CreateHoldingTokens
<1>4. ASSUME NEW from \in Wallet, NEW to \in TokenAddress,
             NEW amount \in TokenPayment, FundToken(from, to, amount)
      PROVE  TokenStep
  <2>1. amount \in Nat
    BY TokenAssumption
  <2>2. Effect /\ UNCHANGED <<events, issued>>
    BY <1>4, <2>1, PaymentStep DEF FundToken, GoodStep
  <2> QED BY <1>4, <2>2, QuietEffect, FundTokenTokens
<1> QED BY <1>2, <1>3, <1>4, BurnTokenTokens DEF HolderNext

-----------------------------------------------------------------------------
(* The inductive invariant holds at the start and through every step.      *)

LEMMA InitTokenizedInv == TokenizedInit => TokenizedInv
<1> SUFFICES ASSUME TokenizedInit PROVE TokenizedInv
  OBVIOUS
<1>1. ServiceInv
  BY InitServiceInv DEF TokenizedInit
<1>2. tokens = [t \in TokenAddress |-> Vacant] /\ savedTokens = tokens
      /\ saved.accounts = accounts
  BY DEF TokenizedInit, Init, Chain
<1>3. \A t \in TokenAddress : tokens[t].data.kind = "none"
  BY <1>2 DEF Vacant, NoData
<1>4. \A a \in AttestationAddress : ~TokenizedIn(accounts, a)
  BY AddressKinds DEF TokenizedInit, Init, Vacant, TokenizedIn, HeldIn
<1>5. RecordsGood(tokens)
  BY <1>2, VacantGood DEF RecordsGood, RecordGood
<1>6. MintsMatchIn(accounts, tokens) /\ MembersIn(tokens)
  BY <1>3, <1>4, TokenAddresses DEF MintsMatchIn, MembersIn, MemberOf
<1>7. SupplyIn(accounts, tokens)
  BY <1>3, <1>4, TokenAddresses DEF SupplyIn, AmountIn
<1>8. BurnedSince /\ GroupsKeptSince /\ NumberedSince
  BY <1>2, <1>3, TokenAddresses DEF BurnedSince, GroupsKeptSince, NumberedSince
<1> QED BY <1>1, <1>2, <1>5, <1>6, <1>7, <1>8 DEF TokenizedInv, TokensGood

(* An instruction: what is so since the last commit stays so.              *)
LEMMA InstructionTokens ==
  ASSUME TokenizedInv, GoodStep, TokenStep, savedTokens' = savedTokens
  PROVE  TokenizedInv'
<1>1. ServiceInv'
  BY StepServiceInv DEF TokenizedInv, ServiceStep
<1>2. saved' = saved
  BY DEF GoodStep, Instruction
<1>3. TokensGood(accounts, tokens)' /\ TokensGood(saved.accounts, savedTokens)'
  BY <1>2 DEF TokenStep, TokenizedInv
<1>4. BurnedSince'
  BY <1>2 DEF BurnedSince, BurnedStay, TokenStep, TokenizedInv
<1>5. \A g \in SchemaMintAddress :
        /\ savedTokens[g].data.kind = "group" => savedTokens[g].data.size \in Nat
        /\ tokens[g].data.kind = "group" => tokens[g].data.size \in Nat
        /\ tokens'[g].data.kind = "group" => tokens'[g].data.size \in Nat
  <2>1. RecordsGood(savedTokens) /\ RecordsGood(tokens) /\ RecordsGood(tokens')
    BY DEF TokenStep, TokenizedInv, TokensGood
  <2> QED BY <2>1, TokenAddresses, TokenTypes
<1>6. GroupsKeptSince'
  <2> SUFFICES ASSUME NEW g \in SchemaMintAddress,
                      savedTokens[g].data.kind = "group"
               PROVE  /\ tokens'[g].data.kind = "group"
                      /\ tokens'[g].data.max_size = savedTokens[g].data.max_size
                      /\ tokens'[g].data.size >= savedTokens[g].data.size
    BY DEF GroupsKeptSince
  <2>1. /\ tokens[g].data.kind = "group"
        /\ tokens[g].data.max_size = savedTokens[g].data.max_size
        /\ tokens[g].data.size >= savedTokens[g].data.size
    BY DEF TokenizedInv, GroupsKeptSince
  <2>2. /\ tokens'[g].data.kind = "group"
        /\ tokens'[g].data.max_size = tokens[g].data.max_size
        /\ tokens'[g].data.size >= tokens[g].data.size
    BY <2>1 DEF TokenStep, GroupsStay
  <2> QED BY <1>5, <2>1, <2>2
<1>7. NumberedSince'
  <2> SUFFICES ASSUME NEW m \in AttestationMintAddress,
                      tokens'[m].data.kind = "mint",
                      savedTokens[m].data.kind = "mint" =>
                        savedTokens[m].data.member_number
                          # tokens'[m].data.member_number,
                      savedTokens[tokens'[m].data.group].data.kind = "group"
               PROVE  tokens'[m].data.member_number
                        > savedTokens[tokens'[m].data.group].data.size
    BY DEF NumberedSince
  <2> DEFINE g == tokens'[m].data.group
             number == tokens'[m].data.member_number
  <2>1. g \in SchemaMintAddress /\ number \in Nat
    BY TokenAddresses, TokenTypes DEF TokenStep, TokensGood
  <2>2. \/ /\ tokens[m].data.kind = "mint" /\ tokens[m].data.group = g
           /\ tokens[m].data.member_number = number
        \/ /\ tokens[g].data.kind = "group"
           /\ number > tokens[g].data.size
    BY DEF TokenStep, NumbersFresh
  <2>3. CASE /\ tokens[m].data.kind = "mint" /\ tokens[m].data.group = g
             /\ tokens[m].data.member_number = number
    BY <2>3 DEF TokenizedInv, NumberedSince
  <2>4. CASE tokens[g].data.kind = "group" /\ number > tokens[g].data.size
    <3>1. tokens[g].data.size >= savedTokens[g].data.size
      BY <2>1 DEF TokenizedInv, GroupsKeptSince
    <3> HIDE DEF g, number
    <3>2. number > savedTokens[g].data.size
      BY <1>5, <2>1, <2>4, <3>1 DEF g
    <3> QED BY <3>2 DEF g, number
  <2> QED BY <2>2, <2>3, <2>4
<1> QED BY <1>1, <1>3, <1>4, <1>6, <1>7 DEF TokenizedInv

(* Where the ledger is the last commit nothing has changed since.          *)
LEMMA NothingSince ==
  ASSUME RecordsGood(tokens'), savedTokens' = tokens',
         saved'.accounts = accounts'
  PROVE  BurnedSince' /\ GroupsKeptSince' /\ NumberedSince'
<1>1. \A g \in SchemaMintAddress :
        tokens'[g].data.kind = "group" => tokens'[g].data.size \in Nat
  BY TokenAddresses, TokenTypes
<1>2. GroupsKeptSince'
  BY <1>1 DEF GroupsKeptSince
<1> QED BY <1>2 DEF BurnedSince, NumberedSince

(* A commit keeps what the token accounts hold, for none that holds        *)
(* anything is without lamports.                                           *)
LEMMA TokensCommitted ==
  ASSUME RecordsGood(tokens), CommitTokens
  PROVE  /\ RecordsGood(tokens')
         /\ savedTokens' = tokens'
         /\ \A t \in TokenAddress : tokens'[t].data = tokens[t].data
<1>1. tokens' = Purge(tokens) /\ savedTokens' = tokens'
  BY DEF CommitTokens
<1>2. tokens' = [t \in TokenAddress |->
                   IF tokens[t].lamports = 0 THEN Vacant ELSE tokens[t]]
  BY <1>1 DEF Purge, RecordsGood
<1>3. \A t \in TokenAddress : RecordGood(tokens[t])
  BY DEF RecordsGood
<1>4. RecordsGood(tokens')
  BY <1>2, <1>3, VacantGood DEF RecordsGood, RecordGood
<1>5. \A t \in TokenAddress : tokens'[t].data = tokens[t].data
  BY <1>2, <1>3 DEF RecordGood, TokenRecord, Vacant
<1> QED BY <1>1, <1>4, <1>5

LEMMA CommitTokensInv ==
  ASSUME TokenizedInv, CommitTokens
  PROVE  TokenizedInv'
<1>1. Commit /\ ServiceInv
  BY DEF CommitTokens, TokenizedInv
<1>2. ServiceInv'
  BY <1>1, CommitInv
<1>3. /\ \A x \in Address : /\ accounts'[x].owner = accounts[x].owner
                            /\ accounts'[x].data = accounts[x].data
      /\ saved'.accounts = accounts'
  BY <1>1, Committed DEF ServiceInv
<1>4. /\ RecordsGood(tokens') /\ savedTokens' = tokens'
      /\ \A t \in TokenAddress : tokens'[t].data = tokens[t].data
  BY TokensCommitted DEF TokenizedInv, TokensGood
<1>5. SameTokenized(accounts, accounts')
  BY <1>3, AddressKinds DEF SameTokenized, TokenizedIn, HeldIn
<1>6. SameTokens(tokens, tokens')
  BY <1>4, TokenAddresses DEF SameTokens, AmountIn
<1>7. TokensGood(accounts', tokens')
  BY <1>4, <1>5, <1>6, SameTokensGood DEF TokenizedInv
<1>8. TokensGood(accounts, tokens)' /\ TokensGood(saved.accounts, savedTokens)'
  BY <1>3, <1>4, <1>7
<1> QED BY <1>2, <1>3, <1>4, <1>8, NothingSince DEF TokenizedInv

LEMMA AbortTokensInv ==
  ASSUME TokenizedInv, AbortTokens
  PROVE  TokenizedInv'
<1>1. ServiceInv'
  BY AbortInv DEF AbortTokens, TokenizedInv
<1>2. /\ accounts' = saved.accounts /\ saved' = saved
      /\ tokens' = savedTokens /\ savedTokens' = savedTokens
  BY DEF AbortTokens, Abort
<1>3. TokensGood(accounts, tokens)' /\ TokensGood(saved.accounts, savedTokens)'
  BY <1>2 DEF TokenizedInv
<1>4. RecordsGood(tokens')
  BY <1>3 DEF TokensGood
<1> QED BY <1>1, <1>2, <1>3, <1>4, NothingSince DEF TokenizedInv

(* Steps that leave the accounts alone.                                    *)
LEMMA IdleTokensInv ==
  ASSUME TokenizedInv, ServiceStep,
         UNCHANGED <<accounts, saved, tokens, savedTokens>>
  PROVE  TokenizedInv'
<1>1. ServiceInv'
  BY StepServiceInv DEF TokenizedInv
<1> QED BY <1>1
     DEF TokenizedInv, BurnedSince, GroupsKeptSince, NumberedSince

LEMMA StepTokenizedInv ==
  ASSUME TokenizedInv, [TokenizedNext]_allVars
  PROVE  TokenizedInv'
<1>1. /\ IInv /\ TokensTyped /\ TokensGood(accounts, tokens)
  BY DEF TokenizedInv, ServiceInv, TokensGood, RecordsGood, TokensTyped
<1>2. InOrder
  BY <1>1 DEF IInv, TypeOK, InOrder, AccountsGood
<1>3. ServiceStep
  BY <1>1, TokenizedStep
<1>4. ASSUME Instruction
      PROVE  GoodStep
  <2>1. signers # {} /\ signers' = signers /\ ixs' = ixs + 1
    BY <1>4 DEF Instruction
  <2>2. ixs \in Nat
    BY <1>1, BoundAssumption DEF IInv, TypeOK
  <2>3. ixs' # ixs
    BY <2>1, <2>2
  <2> QED BY <1>3, <2>1, <2>3
       DEF ServiceStep, Begin, Commit, Abort, Tick, vars
<1>5. CASE TokenizationNext
  <2>1. Instruction /\ savedTokens' = savedTokens
    BY <1>5 DEF TokenizationNext, TokenizeSchema, CreateTokenizedAttestation,
                CloseTokenizedAttestation
  <2> QED BY <1>1, <1>2, <1>4, <1>5, <2>1, TokenizationTokens,
             InstructionTokens
<1>6. CASE HolderNext
  <2>1. Instruction /\ savedTokens' = savedTokens
    BY <1>6 DEF HolderNext, BurnToken, CloseHolding, CreateHolding, FundToken
  <2> QED BY <1>1, <1>2, <1>4, <1>6, <2>1, HolderTokens, InstructionTokens
<1>7. CASE OtherNext
  <2>1. tokens' = tokens /\ savedTokens' = savedTokens
    BY <1>7 DEF OtherNext, tokenVars
  <2>2. CASE CredentialNext \/ SchemaNext \/ AttestationNext \/ SystemNext
    <3>1. GoodStep
      BY <1>2, <2>2, CredentialStep, SchemaStep, AttestationStep, SystemStep
    <3> QED BY <1>1, <1>2, <2>1, <2>2, <3>1, PlainTokens, InstructionTokens
  <2>3. CASE (\E signed \in (SUBSET Wallet) \ {{}} : Begin(signed)) \/ Tick
    <3>1. UNCHANGED <<accounts, saved>>
      BY <2>3 DEF Begin, Tick
    <3> QED BY <1>3, <2>1, <3>1, IdleTokensInv
  <2> QED BY <1>7, <2>2, <2>3 DEF OtherNext
<1>8. CASE CommitTokens \/ AbortTokens
  BY <1>8, CommitTokensInv, AbortTokensInv
<1>9. CASE UNCHANGED allVars
  BY <1>3, <1>9, IdleTokensInv DEF allVars, tokenVars, vars
<1> QED BY <1>5, <1>6, <1>7, <1>8, <1>9 DEF TokenizedNext

-----------------------------------------------------------------------------
(* What holds of every reachable state.                                    *)

(* The inductive invariant holds in every reachable state.                 *)
THEOREM TokenizedInvariantHolds == TokenizedSpec => []TokenizedInv
<1> QED BY InitTokenizedInv, StepTokenizedInv, PTL DEF TokenizedSpec

(* What the invariant says of the accounts of the Token-2022 program.      *)
LEMMA TokenGuarantees ==
  ASSUME TokenizedInv
  PROVE  /\ TokensTypeOK /\ MintsMatchAttestations /\ SupplyAtTokenAccount
         /\ MembersDistinct /\ TokenAccountsExempt
<1>1. TokensTypeOK
  BY DEF TokenizedInv, TokensGood, RecordsGood, TokensTypeOK
<1>2. MintsMatchAttestations
  <2>1. ASSUME MintsMatchIn(accounts, tokens) PROVE MintsMatchAttestations
    BY <2>1 DEF MintsMatchIn, MintsMatchAttestations, IsA, Tokenized,
                TokenizedIn, Holds
  <2> QED BY <2>1 DEF TokenizedInv, TokensGood
<1>3. SupplyAtTokenAccount
  <2>1. ASSUME SupplyIn(accounts, tokens) PROVE SupplyAtTokenAccount
    BY <2>1 DEF SupplyIn, SupplyAtTokenAccount, Amount, AmountIn, IsA,
                Tokenized, TokenizedIn, Holds
  <2> QED BY <2>1 DEF TokenizedInv, TokensGood
<1>4. MembersDistinct
  <2>1. ASSUME MembersIn(tokens) PROVE MembersDistinct
    BY <2>1 DEF MembersIn, MembersDistinct, MemberOf, MintsOf, IsA
  <2> QED BY <2>1 DEF TokenizedInv, TokensGood
<1>5. TokenAccountsExempt
  BY DEF TokenizedInv, TokensGood, RecordsGood, RecordGood,
         TokenAccountsExempt, IsA
<1> QED BY <1>1, <1>2, <1>3, <1>4, <1>5

(* The accounts of the Token-2022 program keep their types: no token       *)
(* account ever holds two tokens, no supply leaves {0, 1}.                 *)
THEOREM TokenTypesCorrect == TokenizedSpec => []TokensTypeOK
<1> QED BY TokenGuarantees, TokenizedInvariantHolds, PTL

(* A mint exists exactly as long as its tokenized attestation, in the      *)
(* group of the attestation's schema, whatever mix of plain and tokenized  *)
(* instructions and of the holder's own steps runs.                        *)
THEOREM MintsMatch == TokenizedSpec => []MintsMatchAttestations
<1> QED BY TokenGuarantees, TokenizedInvariantHolds, PTL

(* The supply of a mint lies in the token account its attestation names    *)
(* and nowhere else.                                                       *)
THEOREM SupplyStays == TokenizedSpec => []SupplyAtTokenAccount
<1> QED BY TokenGuarantees, TokenizedInvariantHolds, PTL

(* Member numbers of a group are distinct and within its size, which never *)
(* passes the maximum.                                                     *)
THEOREM MembersTold == TokenizedSpec => []MembersDistinct
<1> QED BY TokenGuarantees, TokenizedInvariantHolds, PTL

(* Groups and token accounts have the rent of their final size, whatever   *)
(* was sent to their addresses before.                                     *)
THEOREM TokensRentExempt == TokenizedSpec => []TokenAccountsExempt
<1> QED BY TokenGuarantees, TokenizedInvariantHolds, PTL

-----------------------------------------------------------------------------
(* What a commit may do to the token accounts everyone else sees.          *)

LEMMA OnlyCommitSavesTokens ==
  ASSUME [TokenizedNext]_allVars, savedTokens' # savedTokens
  PROVE  CommitTokens
<1>1. ~TokenizationNext
  BY DEF TokenizationNext, TokenizeSchema, CreateTokenizedAttestation,
         CloseTokenizedAttestation
<1>2. ~HolderNext
  BY DEF HolderNext, BurnToken, CloseHolding, CreateHolding, FundToken
<1>3. ~OtherNext /\ ~AbortTokens /\ ~UNCHANGED allVars
  BY DEF OtherNext, tokenVars, AbortTokens, allVars
<1> QED BY <1>1, <1>2, <1>3 DEF TokenizedNext

LEMMA CommitKeepsBurns ==
  ASSUME TokenizedInv, CommitTokens
  PROVE  BurnsKept
<1>1. \A t \in TokenAddress : TokenAfter(t).data = tokens[t].data
  BY TokensCommitted DEF TokenizedInv, TokensGood, TokenAfter
<1>2. \A x \in Address : After(x).data = accounts[x].data
  BY Committed DEF CommitTokens, TokenizedInv, ServiceInv, After
<1> QED BY <1>1, <1>2, TokenAddresses, AddressKinds
     DEF BurnsKept, TokenBefore, Before, TokenizedInv, BurnedSince

LEMMA CommitCountsPlaces ==
  ASSUME TokenizedInv, CommitTokens
  PROVE  PlacesCounted
<1>1. \A t \in TokenAddress : TokenAfter(t).data = tokens[t].data
  BY TokensCommitted DEF TokenizedInv, TokensGood, TokenAfter
<1>2. ASSUME NEW g \in SchemaMintAddress, TokenBefore(g).data.kind = "group"
      PROVE  /\ TokenAfter(g).data.kind = "group"
             /\ TokenAfter(g).data.max_size = TokenBefore(g).data.max_size
             /\ TokenAfter(g).data.size >= TokenBefore(g).data.size
  BY <1>1, <1>2, TokenAddresses
     DEF TokenBefore, TokenizedInv, GroupsKeptSince
<1>3. ASSUME NEW m \in AttestationMintAddress,
             TokenAfter(m).data.kind = "mint",
             TokenBefore(m).data.kind = "mint" =>
               TokenBefore(m).data.member_number
                 # TokenAfter(m).data.member_number
      PROVE  LET g == TokenAfter(m).data.group
                 number == TokenAfter(m).data.member_number
             IN  /\ number <= TokenAfter(g).data.size
                 /\ TokenBefore(g).data.kind = "group" =>
                      number > TokenBefore(g).data.size
  <2> DEFINE g == tokens[m].data.group
             number == tokens[m].data.member_number
  <2>1. /\ m \in TokenAddress /\ TokenAfter(m).data = tokens[m].data
        /\ tokens[m].data.kind = "mint"
    BY <1>1, <1>3, TokenAddresses
  <2>2. g \in SchemaMintAddress /\ g \in TokenAddress
    BY <2>1, TokenTypes, TokenAddresses DEF TokenizedInv, TokensGood
  <2>3. number \in 1 .. tokens[g].data.size
    BY <2>1, <2>2 DEF TokenizedInv, TokensGood, MembersIn, MemberOf
  <2>4. savedTokens[g].data.kind = "group" =>
          number > savedTokens[g].data.size
    BY <1>3, <2>1 DEF TokenizedInv, NumberedSince, TokenBefore
  <2>5. TokenAfter(g).data.size = tokens[g].data.size
    BY <1>1, <2>2
  <2> HIDE DEF g, number
  <2>6. /\ number <= TokenAfter(g).data.size
        /\ TokenBefore(g).data.kind = "group" =>
             number > TokenBefore(g).data.size
    BY <2>3, <2>4, <2>5 DEF TokenBefore
  <2> QED BY <2>1, <2>6 DEF g, number
<1> QED BY <1>2, <1>3 DEF PlacesCounted

(* A burned attestation, its mint and its number are there for good.       *)
THEOREM BurnsAreForGood == TokenizedSpec => BurnedForGood
<1>1. TokenizedInv /\ [TokenizedNext]_allVars => [BurnsKept]_savedTokens
  BY OnlyCommitSavesTokens, CommitKeepsBurns
<1> QED BY <1>1, TokenizedInvariantHolds, PTL DEF TokenizedSpec, BurnedForGood

(* A place in a group is never given out twice, although members come and  *)
(* go: groups keep their maximum, and a new mint has a number the group    *)
(* had not counted to before.                                              *)
THEOREM PlacesAreUsedOnce == TokenizedSpec => PlacesUsedOnce
<1>1. TokenizedInv /\ [TokenizedNext]_allVars => [PlacesCounted]_savedTokens
  BY OnlyCommitSavesTokens, CommitCountsPlaces
<1> QED BY <1>1, TokenizedInvariantHolds, PTL DEF TokenizedSpec, PlacesUsedOnce

(* What the invariant of the program says of its accounts.                 *)
LEMMA ServiceGuarantees ==
  ASSUME ServiceInv
  PROVE  /\ TypeOK /\ PdaBinding /\ Lineage /\ VersionsContiguous
         /\ AttestationsConform /\ DataFitsAccount /\ RentExempt
         /\ EventAccounting
<1>1. /\ TypeOK /\ PdaBinding /\ Lineage /\ VersionsContiguous
      /\ AttestationsConform /\ DataFitsAccount /\ RentExempt
  BY DEF ServiceInv, IInv, LedgerInv, PdaBinding, Lineage,
         VersionsContiguous, AttestationsConform, DataFitsAccount, RentExempt
<1>2. EventAccounting
  <2>1. \A e : LiveAttestations(e) = LiveIn(accounts, e)
    BY DEF LiveAttestations, LiveIn, Holds
  <2> QED BY <2>1 DEF ServiceInv, AccountedIn, Chain, EventAccounting
<1> QED BY <1>1, <1>2

(* What the program guarantees of its own accounts it guarantees with the  *)
(* token instructions too: closing a tokenized attestation announces it    *)
(* once, no group or mint leaves an orphan, every account stays exempt.    *)
THEOREM InvariantsWithTokens ==
  TokenizedSpec => [](/\ TypeOK /\ PdaBinding /\ Lineage
                      /\ VersionsContiguous /\ AttestationsConform
                      /\ DataFitsAccount /\ RentExempt /\ EventAccounting)
<1>1. TokenizedInv => ServiceInv
  BY DEF TokenizedInv
<1> QED BY <1>1, ServiceGuarantees, TokenizedInvariantHolds, PTL

LEMMA TokenizedStepSafe ==
  ASSUME TokenizedInv, [TokenizedNext]_allVars
  PROVE  /\ [SchemasKept]_saved
         /\ [ChangesAuthorised]_saved
         /\ [PauseRespected]_saved
         /\ [FundsKept]_saved
<1>1. ServiceInv /\ IInv /\ TokensTyped
  BY DEF TokenizedInv, ServiceInv, TokensGood, RecordsGood, TokensTyped
<1>2. ServiceStep
  BY <1>1, TokenizedStep
<1> QED BY <1>1, <1>2, StepSafe

(* Nor do the token instructions and the holders of tokens open a way      *)
(* around what a transaction may do: the permanent delegate of the mints   *)
(* and the program's own signatures take lamports from nobody else, issue  *)
(* nothing under a paused schema and change nothing unsigned for.          *)
THEOREM TransactionsWithTokens ==
  TokenizedSpec => /\ SchemasPermanent /\ OnlyAuthorisedChanges
                   /\ PausedSchemasFrozen /\ FundsSafe
<1>1. TokenizedInv /\ [TokenizedNext]_allVars =>
        [SchemasKept]_saved
  BY TokenizedStepSafe
<1>2. TokenizedInv /\ [TokenizedNext]_allVars => [ChangesAuthorised]_saved
  BY TokenizedStepSafe
<1>3. TokenizedInv /\ [TokenizedNext]_allVars => [PauseRespected]_saved
  BY TokenizedStepSafe
<1>4. TokenizedInv /\ [TokenizedNext]_allVars => [FundsKept]_saved
  BY TokenizedStepSafe
<1> QED BY <1>1, <1>2, <1>3, <1>4, TokenizedInvariantHolds, PTL
     DEF TokenizedSpec, SchemasPermanent, OnlyAuthorisedChanges,
         PausedSchemasFrozen, FundsSafe

-----------------------------------------------------------------------------
(* Lamports in all, on both parts of the ledger: what a token instruction  *)
(* takes from one it brings to the other.                                  *)

TotalsKept ==
  TotalLamports(accounts') + TotalLamports(tokens')
    = TotalLamports(accounts) + TotalLamports(tokens)

LEMMA TokenBalances ==
  ASSUME NEW toks \in [TokenAddress -> TokenRecord]
  PROVE  /\ IsFiniteSet(TokenAddress)
         /\ DOMAIN toks = TokenAddress
         /\ \A t \in TokenAddress :
              toks[t].lamports \in Nat /\ toks[t].lamports \in Int
BY TokenFinitenessAssumption DEF TokenRecord

LEMMA TokensShift ==
  ASSUME TokensTyped, TokensTyped', NEW t \in TokenAddress, NEW d \in Int,
         tokens'[t].lamports = tokens[t].lamports + d,
         \A x \in TokenAddress \ {t} : tokens'[x].lamports = tokens[x].lamports,
         TotalLamports(accounts) \in Int,
         TotalLamports(accounts') = TotalLamports(accounts) - d
  PROVE  TotalsKept
<1>1. /\ TotalLamports(tokens) \in Int
      /\ TotalLamports(tokens') = TotalLamports(tokens) + d
  <2>1. tokens' \in [TokenAddress -> TokenRecord]
    BY DEF TokensTyped
  <2>2. /\ DOMAIN tokens' = TokenAddress
        /\ \A x \in TokenAddress : tokens'[x].lamports \in Int
    BY <2>1, TokenBalances
  <2>3. /\ IsFiniteSet(TokenAddress) /\ DOMAIN tokens = TokenAddress
        /\ \A x \in TokenAddress : tokens[x].lamports \in Int
    BY TokenBalances DEF TokensTyped
  <2> QED BY <2>2, <2>3, TotalChanged
<1> QED BY <1>1 DEF TotalsKept

(* A payer makes or funds one token account.                               *)
LEMMA PaymentTotal ==
  ASSUME InOrder, TokensTyped, TokensTyped', NEW payer \in Wallet,
         NEW t \in TokenAddress, NEW amount \in Nat,
         CanPay(accounts, signers, payer, amount),
         accounts' = Debit(accounts, payer, amount),
         tokens'[t].lamports = tokens[t].lamports + amount,
         \A x \in TokenAddress \ {t} : tokens'[x].lamports = tokens[x].lamports
  PROVE  TotalsKept
<1>1. payer \in Address /\ accounts \in [Address -> Account]
  BY AddressKinds DEF InOrder, AccountsGood
<1>2. /\ TotalLamports(accounts) \in Int
      /\ TotalLamports(accounts') = TotalLamports(accounts) - amount
  BY <1>1, DebitTotal
<1> QED BY <1>2, TokensShift

LEMMA TokenizeSchemaTotal ==
  ASSUME InOrder, TokensTyped, TokensTyped', NEW c \in CredentialKey,
         NEW s \in SchemaAddress, NEW maxSize \in MaxSize, NEW payer \in Wallet,
         TokenizeSchema(c, s, maxSize, payer)
  PROVE  TotalsKept
<1> DEFINE group == SchemaMintPda(s)
           cost == TokenCost(group, GroupRentSpace)
<1>1. group \in TokenAddress
  BY TokenAddresses
<1>2. cost \in Nat
  BY <1>1, SpaceTypes, TokenCostEnough
<1>3. /\ CanPay(accounts, signers, payer, cost)
      /\ accounts' = Debit(accounts, payer, cost)
      /\ tokens' = [tokens EXCEPT
           ![group] = SetUp(group, GroupRentSpace, GroupSpace, Group(maxSize))]
  BY DEF TokenizeSchema
<1>4. tokens'[group].lamports = tokens[group].lamports + cost
  BY <1>1, <1>3 DEF TokensTyped, SetUp
<1>5. \A x \in TokenAddress \ {group} : tokens'[x].lamports = tokens[x].lamports
  BY <1>3 DEF TokensTyped
<1> HIDE DEF cost, group
<1> QED BY <1>1, <1>2, <1>3, <1>4, <1>5, PaymentTotal

(* The token account that was there costs nothing, a new one its rent.     *)
LEMMA HoldingLamports ==
  ASSUME TokensTyped, NEW h \in HoldingAddress, NEW amount \in {0, 1}
  PROVE  HoldingOf(h, amount).lamports = tokens[h].lamports + HoldingCost(h)
<1>1. h \in TokenAddress
  BY TokenAddresses
<1>2. tokens[h] \in TokenRecord /\ tokens[h].lamports \in Nat
  BY <1>1 DEF TokensTyped, TokenRecord
<1>3. CASE IsA(h, "holding")
  <2>1. HoldingOf(h, amount) = [tokens[h] EXCEPT !.data.amount = @ + amount]
    BY <1>3 DEF HoldingOf
  <2>2. HoldingOf(h, amount).lamports = tokens[h].lamports
    BY <1>2, <2>1 DEF TokenRecord
  <2> QED BY <1>2, <1>3, <2>2 DEF HoldingCost
<1>4. CASE ~IsA(h, "holding")
  BY <1>4 DEF HoldingOf, HoldingCost, SetUp
<1> QED BY <1>3, <1>4

LEMMA CreateTokenizedTotal ==
  ASSUME InOrder, TokensTyped, TokensTyped', NEW signer \in Wallet,
         NEW c \in CredentialKey, NEW s \in SchemaAddress, NEW nonce \in Nonce,
         NEW data \in Data, NEW expiry \in Expiry, NEW payer \in Wallet,
         NEW recipient \in Wallet, NEW metadataLen \in MetadataLen,
         NEW mintSpace \in MintSpace,
         CreateTokenizedAttestation(signer, c, s, nonce, data, expiry, payer,
                                    recipient, metadataLen, mintSpace)
  PROVE  TotalsKept
<1> DEFINE a == AttestationPda(c, s, nonce)
           group == SchemaMintPda(s)
           mint == AttestationMintPda(a)
           holding == HoldingPda(recipient, mint)
           space == MintSpaceCreated + metadataLen + MemberSpace
           mintCost == TokenCost(mint, MintRentSpace(mintSpace))
           holdingCost == HoldingCost(holding)
           created == AttestationCreated(signer, c, s, nonce, data, expiry,
                                         payer, holding)
           minted == Debit(created, payer, mintCost)
           new == SetUp(mint, MintRentSpace(mintSpace), space,
                        Mint(group, tokens[group].data.size + 1,
                             Metadata(a, s)))
           mid == [tokens EXCEPT ![mint] = new]
<1>1. /\ CanCreateAttestation(signer, c, s, nonce, data, expiry, payer)
      /\ CanPay(created, signers, payer, mintCost)
      /\ CanPay(minted, signers, payer, holdingCost)
      /\ accounts' = Debit(minted, payer, holdingCost)
      /\ tokens' = [tokens EXCEPT ![group].data = Joined(@),
                                  ![mint] = new,
                                  ![holding] = HoldingOf(holding, 1)]
  BY DEF CreateTokenizedAttestation
<1>2. a \in AttestationAddress
  BY DEF AttestationPda, AttestationAddress
<1>3. /\ group \in TokenAddress /\ mint \in TokenAddress
      /\ holding \in TokenAddress /\ holding \in HoldingAddress
      /\ group # mint /\ group # holding /\ mint # holding
  <2> HIDE DEF a
  <2>1. group \in SchemaMintAddress /\ mint \in AttestationMintAddress
    BY <1>2, TokenAddresses
  <2>2. holding \in HoldingAddress
    BY <2>1, TokenAddresses
  <2> HIDE DEF group, mint, holding
  <2> QED BY <2>1, <2>2, TokenAddresses, TokenKindsApart
<1>4. mintCost \in Nat /\ holdingCost \in Nat
  BY <1>3, TokenCostEnough, HoldingCostType, SpaceTypes
<1>5. /\ AccountsGood(created)
      /\ TotalLamports(created) = TotalLamports(accounts)
  BY <1>1, <1>3, AttestationCreatedGood, AttestationCreatedTotal DEF InOrder
<1>6. new.lamports = tokens[mint].lamports + mintCost
  BY DEF SetUp
<1>7. HoldingOf(holding, 1).lamports = tokens[holding].lamports + holdingCost
  BY <1>3, HoldingLamports
<1>8. payer \in Address
  BY AddressKinds
<1> HIDE DEF created, mintCost, holdingCost, new, group, mint, holding
<1>9. /\ AccountsGood(minted)
      /\ TotalLamports(created) \in Int
      /\ TotalLamports(minted) = TotalLamports(created) - mintCost
  BY <1>1, <1>4, <1>5, <1>8, DebitGood, DebitTotal DEF AccountsGood
<1> HIDE DEF minted
<1>10. TotalLamports(accounts') = TotalLamports(minted) - holdingCost
  BY <1>1, <1>4, <1>8, <1>9, DebitTotal DEF AccountsGood
<1>11. /\ DOMAIN tokens = TokenAddress /\ IsFiniteSet(TokenAddress)
       /\ \A t \in TokenAddress : tokens[t].lamports \in Int
  BY TokenBalances DEF TokensTyped
<1>12. /\ DOMAIN tokens' = TokenAddress
       /\ \A t \in TokenAddress : tokens'[t].lamports \in Int
  <2>1. tokens' \in [TokenAddress -> TokenRecord]
    BY DEF TokensTyped
  <2> QED BY <2>1, TokenBalances
<1>13. /\ DOMAIN mid = TokenAddress
       /\ mid[mint].lamports = tokens[mint].lamports + mintCost
       /\ \A t \in TokenAddress \ {mint} : mid[t].lamports = tokens[t].lamports
  BY <1>3, <1>6, <1>11
<1>14. \A t \in TokenAddress : mid[t].lamports \in Int
  BY <1>3, <1>4, <1>11, <1>13
<1>15. /\ tokens'[holding].lamports = mid[holding].lamports + holdingCost
       /\ \A t \in TokenAddress \ {holding} :
            tokens'[t].lamports = mid[t].lamports
  <2>1. tokens' \in [TokenAddress -> TokenRecord]
    BY DEF TokensTyped
  <2>2. tokens'[holding] = HoldingOf(holding, 1)
    BY <1>1, <1>3, <1>11
  <2>3. tokens'[mint] = new
    BY <1>1, <1>3, <1>11
  <2>4. tokens'[group] = [tokens[group] EXCEPT
                            !.data = Joined(tokens[group].data)]
    BY <1>1, <1>3, <1>11
  <2>5. tokens'[group].lamports = tokens[group].lamports
    <3>1. tokens[group] \in TokenRecord
      BY <1>3 DEF TokensTyped
    <3> QED BY <2>4, <3>1 DEF TokenRecord
  <2>6. \A t \in TokenAddress \ {group, mint, holding} :
          tokens'[t] = tokens[t]
    BY <1>1, <1>3, <1>11
  <2> QED BY <1>3, <1>6, <1>7, <1>13, <2>2, <2>3, <2>5, <2>6
<1> HIDE DEF mid
<1>16. /\ TotalLamports(tokens) \in Int
       /\ TotalLamports(mid) = TotalLamports(tokens) + mintCost
  <2>1. mintCost \in Int
    BY <1>4
  <2> QED BY <1>3, <1>11, <1>13, <1>14, <2>1, TotalChanged
<1>17. TotalLamports(tokens') = TotalLamports(mid) + holdingCost
  <2>1. /\ holdingCost \in Int /\ holding \in TokenAddress
        /\ IsFiniteSet(TokenAddress) /\ DOMAIN mid = TokenAddress
    BY <1>3, <1>4, <1>11, <1>13
  <2> QED BY ONLY <1>12, <1>14, <1>15, <2>1, TotalChanged
<1> QED BY <1>4, <1>5, <1>9, <1>10, <1>16, <1>17 DEF TotalsKept

(* Who closes a token account or a mint gets what it held.                 *)
LEMMA CloseTokenizedTotal ==
  ASSUME InOrder, TokensTyped, TokensTyped', NEW signer \in Wallet,
         NEW c \in CredentialKey, NEW a \in AttestationAddress,
         NEW holding \in HoldingAddress, NEW payee \in Address,
         CloseTokenizedAttestation(signer, c, a, holding, payee)
  PROVE  TotalsKept
<1> DEFINE mint == AttestationMintPda(a)
           amount == tokens[mint].lamports
           mid == Credit(accounts, payee, amount)
           empty == Holding(Amount(holding) - 1)
<1>1. /\ payee # a
      /\ accounts' = Close(mid, a, payee)
      /\ tokens' = [tokens EXCEPT ![mint] = Vacant, ![holding].data = empty]
  BY DEF CloseTokenizedAttestation, CanCloseAttestation
<1>2. /\ mint \in TokenAddress /\ holding \in TokenAddress /\ mint # holding
      /\ a \in Address
  BY TokenAddresses, TokenKindsApart, AddressKinds
<1>3. amount \in Nat
  BY <1>2, TokenBalances DEF TokensTyped
<1>4. accounts \in [Address -> Account]
  BY DEF InOrder, AccountsGood
<1>5. tokens[holding] \in TokenRecord
  BY <1>2 DEF TokensTyped
<1> HIDE DEF empty, mint
<1>6. /\ tokens'[mint].lamports = amount + (0 - amount)
      /\ \A x \in TokenAddress \ {mint} :
           tokens'[x].lamports = tokens[x].lamports
  <2>1. tokens'[mint] = Vacant
    BY <1>1, <1>2 DEF TokensTyped
  <2>2. tokens'[holding] = [tokens[holding] EXCEPT !.data = empty]
    BY <1>1, <1>2 DEF TokensTyped
  <2>3. tokens'[holding].lamports = tokens[holding].lamports
    BY <1>5, <2>2 DEF TokenRecord
  <2>4. \A x \in TokenAddress \ {mint, holding} : tokens'[x] = tokens[x]
    BY <1>1, <1>2 DEF TokensTyped
  <2> QED BY <1>3, <2>1, <2>3, <2>4 DEF Vacant
<1>7. /\ mid \in [Address -> Account]
      /\ TotalLamports(accounts) \in Int
      /\ TotalLamports(mid) = TotalLamports(accounts) + amount
  BY <1>3, <1>4, CreditUpdates, CreditTotal
<1> HIDE DEF mid, amount
<1>8. TotalLamports(accounts') = TotalLamports(mid)
  BY <1>1, <1>2, <1>7, CloseTotal
<1>9. /\ 0 - amount \in Int
      /\ TotalLamports(accounts') = TotalLamports(accounts) - (0 - amount)
  BY <1>3, <1>7, <1>8
<1> QED BY <1>2, <1>6, <1>7, <1>9, TokensShift DEF amount

LEMMA CloseHoldingTotal ==
  ASSUME InOrder, TokensTyped, TokensTyped', NEW h \in HoldingAddress,
         CloseHolding(h)
  PROVE  TotalsKept
<1> DEFINE amount == tokens[h].lamports
<1>1. /\ accounts' = Credit(accounts, h.wallet, amount)
      /\ tokens' = [tokens EXCEPT ![h] = Vacant]
  BY DEF CloseHolding
<1>2. h \in TokenAddress /\ h.wallet \in Address
  BY TokenAddresses, AddressKinds
<1>3. amount \in Nat /\ 0 - amount \in Int
  BY <1>2, TokenBalances DEF TokensTyped
<1>4. /\ tokens'[h].lamports = amount + (0 - amount)
      /\ \A x \in TokenAddress \ {h} : tokens'[x].lamports = tokens[x].lamports
  BY <1>1, <1>2, <1>3 DEF TokensTyped, Vacant
<1> HIDE DEF amount
<1>5. /\ TotalLamports(accounts) \in Int
      /\ TotalLamports(accounts') = TotalLamports(accounts) + amount
  BY <1>1, <1>2, <1>3, CreditTotal DEF InOrder, AccountsGood
<1>6. TotalLamports(accounts') = TotalLamports(accounts) - (0 - amount)
  BY <1>3, <1>5
<1> QED BY <1>2, <1>3, <1>4, <1>5, <1>6, TokensShift DEF amount

LEMMA HolderTotal ==
  ASSUME InOrder, TokensTyped, TokensTyped', HolderNext
  PROVE  TotalsKept
<1>1. ASSUME NEW h \in HoldingAddress, BurnToken(h)
      PROVE  TotalsKept
  <2>1. h \in TokenAddress /\ h.mint \in TokenAddress /\ h # h.mint
    BY TokenAddresses, TokenKindsApart
  <2>2. /\ accounts' = accounts
        /\ tokens' = [tokens EXCEPT ![h].data.amount = @ - 1,
                                    ![h.mint].data.supply = @ - 1]
    BY <1>1 DEF BurnToken
  <2>3. \A x \in TokenAddress : tokens[x] \in TokenRecord
    BY DEF TokensTyped
  <2>4. /\ tokens'[h].lamports = tokens[h].lamports
        /\ tokens'[h.mint].lamports = tokens[h.mint].lamports
        /\ \A x \in TokenAddress \ {h, h.mint} : tokens'[x] = tokens[x]
    BY <2>1, <2>2, <2>3 DEF TokensTyped, TokenRecord
  <2>5. DOMAIN tokens' = TokenAddress
    BY <2>2 DEF TokensTyped
  <2>6. TotalLamports(tokens') = TotalLamports(tokens)
    BY <2>4, <2>5, TokenBalances, TotalSame DEF TokensTyped
  <2> QED BY <2>2, <2>6 DEF TotalsKept
<1>2. ASSUME NEW h \in HoldingAddress, NEW payer \in Wallet,
             CreateHolding(h, payer)
      PROVE  TotalsKept
  <2>1. h \in TokenAddress /\ HoldingCost(h) \in Nat
    BY TokenAddresses, HoldingCostType
  <2>2. /\ CanPay(accounts, signers, payer, HoldingCost(h))
        /\ accounts' = Debit(accounts, payer, HoldingCost(h))
        /\ tokens' = [tokens EXCEPT ![h] = HoldingOf(h, 0)]
    BY <1>2 DEF CreateHolding
  <2>3. HoldingOf(h, 0).lamports = tokens[h].lamports + HoldingCost(h)
    BY HoldingLamports
  <2>4. /\ tokens'[h].lamports = tokens[h].lamports + HoldingCost(h)
        /\ \A x \in TokenAddress \ {h} :
             tokens'[x].lamports = tokens[x].lamports
    BY <2>1, <2>2, <2>3 DEF TokensTyped
  <2> QED BY <2>1, <2>2, <2>4, PaymentTotal
<1>3. ASSUME NEW from \in Wallet, NEW to \in TokenAddress,
             NEW amount \in TokenPayment, FundToken(from, to, amount)
      PROVE  TotalsKept
  <2>1. amount \in Nat
    BY TokenAssumption
  <2>2. /\ CanPay(accounts, signers, from, amount)
        /\ accounts' = Debit(accounts, from, amount)
        /\ tokens' = [tokens EXCEPT ![to].lamports = @ + amount]
    BY <1>3 DEF FundToken, Credit
  <2>3. /\ tokens'[to].lamports = tokens[to].lamports + amount
        /\ \A x \in TokenAddress \ {to} :
             tokens'[x].lamports = tokens[x].lamports
    BY <2>2 DEF TokensTyped, TokenRecord
  <2> QED BY <2>1, <2>2, <2>3, PaymentTotal
<1> QED BY <1>1, <1>2, <1>3, CloseHoldingTotal DEF HolderNext

(* The two parts of a commit, too, add up to the lamports of the wallets.  *)
TokensConserved(ledger, toks) ==
  TotalLamports(ledger) + TotalLamports(toks)
    = InitialLamports * Cardinality(Wallet)

TokensConservedInv ==
  /\ TokensConserved(accounts, tokens)
  /\ TokensConserved(saved.accounts, savedTokens)

LEMMA InitTokensConserved == TokenizedInit => TokensConservedInv
<1> SUFFICES ASSUME TokenizedInit
             PROVE  TokensConservedInv
  OBVIOUS
<1>1. TotalLamports(accounts) = InitialLamports * Cardinality(Wallet)
  BY InitTotal DEF TokenizedInit, Init
<1>2. TotalLamports(tokens) = 0
  <2> DEFINE f == [t \in TokenAddress |-> tokens[t].lamports]
  <2>1. /\ DOMAIN tokens = TokenAddress
        /\ \A t \in TokenAddress : tokens[t].lamports = 0
    BY DEF TokenizedInit, Vacant
  <2>2. f \in [TokenAddress -> Int] /\ \A t \in TokenAddress : f[t] = 0
    BY <2>1
  <2>3. PICK g : SumsUp(g, f, TokenAddress)
                   /\ TotalLamports(tokens) = g[TokenAddress]
    BY ONLY <2>1, TokenFinitenessAssumption, TotalIsSum
  <2>4. {} \in SUBSET TokenAddress
        /\ \A t \in TokenAddress : f[t] = IF t \in {} THEN 0 ELSE 0
    BY <2>2
  <2> HIDE DEF f
  <2>5. g[TokenAddress] = 0 * Cardinality({})
    BY <2>2, <2>3, <2>4, TokenFinitenessAssumption, SumOfEqual
  <2> QED BY <2>3, <2>5, FS_EmptySet
<1>3. saved.accounts = accounts /\ savedTokens = tokens
  BY DEF TokenizedInit, Init, Chain
<1>4. InitialLamports * Cardinality(Wallet) \in Int
  <2>1. IsFiniteSet(Wallet)
    BY FinitenessAssumption, FS_Subset, AddressKinds
  <2>2. Cardinality(Wallet) \in Nat
    BY <2>1, FS_CardinalityType
  <2> QED BY <2>2, BoundAssumption
<1> QED BY <1>1, <1>2, <1>3, <1>4 DEF TokensConservedInv, TokensConserved

TotalsSaved ==
  TotalLamports(saved'.accounts) + TotalLamports(savedTokens')
    = TotalLamports(accounts) + TotalLamports(tokens)

(* Instructions move lamports, a commit makes what there is of them what   *)
(* everyone sees, an abort takes back what the transaction did.            *)
StepTotals ==
  \/ TotalsKept /\ saved' = saved /\ savedTokens' = savedTokens
  \/ TotalsKept /\ TotalsSaved
  \/ AbortTokens

LEMMA CommitTotals ==
  ASSUME TokenizedInv, CommitTokens
  PROVE  TotalsKept /\ TotalsSaved
<1>1. TokensTyped /\ InOrder
  BY DEF TokenizedInv, ServiceInv, TokensGood, RecordsGood, TokensTyped, IInv,
         TypeOK, InOrder, AccountsGood
<1>2. /\ accounts' = Purge(accounts) /\ saved'.accounts = Purge(accounts)
      /\ tokens' = Purge(tokens) /\ savedTokens' = Purge(tokens)
  BY DEF CommitTokens, Commit, Chain
<1>3. TotalLamports(Purge(accounts)) = TotalLamports(accounts)
  BY <1>1, BalanceType, PurgeTotal DEF InOrder, AccountsGood
<1>4. TotalLamports(Purge(tokens)) = TotalLamports(tokens)
  BY <1>1, TokenBalances, PurgeTotal DEF TokensTyped
<1> QED BY <1>2, <1>3, <1>4 DEF TotalsKept, TotalsSaved

LEMMA TokenizedStepTotals ==
  ASSUME TokenizedInv, [TokenizedNext]_allVars
  PROVE  StepTotals
<1>1. TokensTyped /\ InOrder
  BY DEF TokenizedInv, ServiceInv, TokensGood, RecordsGood, TokensTyped, IInv,
         TypeOK, InOrder, AccountsGood
<1>2. TokensTyped'
  BY StepTokenizedInv DEF TokenizedInv, TokensGood, RecordsGood, TokensTyped
<1>4. CASE TokenizationNext
  <2>1. saved' = saved /\ savedTokens' = savedTokens
    BY <1>4 DEF TokenizationNext, TokenizeSchema, CreateTokenizedAttestation,
                CloseTokenizedAttestation, Instruction
  <2>2. TotalsKept
    BY <1>1, <1>2, <1>4, TokenizeSchemaTotal, CreateTokenizedTotal,
       CloseTokenizedTotal, TokenAssumption, BoundAssumption
       DEF TokenizationNext
  <2> QED BY <2>1, <2>2 DEF StepTotals
<1>5. CASE HolderNext
  <2>1. saved' = saved /\ savedTokens' = savedTokens
    BY <1>5 DEF HolderNext, BurnToken, CloseHolding, CreateHolding, FundToken,
                Instruction
  <2> QED BY <1>1, <1>2, <1>5, <2>1, HolderTotal DEF StepTotals
<1>6. CASE OtherNext
  <2>1. tokens' = tokens /\ savedTokens' = savedTokens
    BY <1>6 DEF OtherNext, tokenVars
  <2>2. CASE CredentialNext \/ SchemaNext \/ AttestationNext \/ SystemNext
    <3>1. saved' = saved
      BY <1>1, <2>2, CredentialStep, SchemaStep, AttestationStep, SystemStep
         DEF GoodStep, Instruction
    <3>2. Balanced
      BY <1>1, <2>2, CredentialBalanced, SchemaBalanced, AttestationBalanced,
         SystemBalanced
    <3> QED BY <2>1, <3>1, <3>2 DEF Balanced, TotalsKept, StepTotals
  <2>3. CASE (\E signed \in (SUBSET Wallet) \ {{}} : Begin(signed)) \/ Tick
    <3>1. accounts' = accounts /\ saved' = saved
      BY <2>3 DEF Begin, Tick
    <3> QED BY <2>1, <3>1 DEF TotalsKept, StepTotals
  <2> QED BY <1>6, <2>2, <2>3 DEF OtherNext
<1>7. CASE CommitTokens
  BY <1>7, CommitTotals DEF StepTotals
<1>8. CASE AbortTokens
  BY <1>8 DEF StepTotals
<1>9. CASE UNCHANGED allVars
  BY <1>9 DEF allVars, tokenVars, vars, TotalsKept, StepTotals
<1> QED BY <1>4, <1>5, <1>6, <1>7, <1>8, <1>9 DEF TokenizedNext

LEMMA StepTokensConserved ==
  ASSUME TokenizedInv, TokensConservedInv, [TokenizedNext]_allVars
  PROVE  TokensConservedInv'
<1>1. StepTotals
  BY TokenizedStepTotals
<1>2. CASE AbortTokens
  BY <1>2 DEF AbortTokens, Abort, TokensConservedInv, TokensConserved
<1> QED BY <1>1, <1>2
     DEF StepTotals, TotalsKept, TotalsSaved, TokensConservedInv,
         TokensConserved

(* No token instruction, and nothing a holder does, makes or loses         *)
(* lamports: rent of mints and token accounts comes from the payer and     *)
(* goes to whoever closes them.                                            *)
THEOREM NothingLostWithTokens == TokenizedSpec => []TokenLamportsConserved
<1>1. TokenizedInv /\ TokensConservedInv /\ [TokenizedNext]_allVars =>
        TokensConservedInv'
  BY StepTokensConserved
<1>2. TokensConservedInv => TokenLamportsConserved
  BY DEF TokensConservedInv, TokensConserved, TokenLamportsConserved
<1> QED BY InitTokensConserved, <1>1, <1>2, TokenizedInvariantHolds, PTL
     DEF TokenizedSpec

=============================================================================
