---------------------------- MODULE Tokenization ----------------------------
(***************************************************************************)
(* The tokenized attestations of the program: a schema that has a group    *)
(* mint, attestations that have a mint in the group of their schema, and   *)
(* the token that the recipient of such an attestation holds.              *)
(*                                                                         *)
(* The instructions run in the same transactions as those of               *)
(* AttestationService, and build on them: creating a tokenized attestation *)
(* begins with process_create_attestation and closing one ends with        *)
(* process_close_attestation.  Mints and token accounts belong to the      *)
(* Token-2022 program, which is modelled by what the handlers make it do   *)
(* and by what the holder of a token may do on its own: burn the token and *)
(* close the empty account.  The mints are not transferable, so a token    *)
(* stays in the account it was minted to.                                  *)
(***************************************************************************)
EXTENDS AttestationService

CONSTANTS
  MaxSize,        \* max_size of groups, u64
  MetadataLen,    \* bytes that metadata adds to a mint
  MintSpace,      \* mint_account_space as the issuer computes it, u16
  Recipient,      \* bound: the wallets attestations are tokenized for
  TokenPayment    \* bound: amounts sent to addresses of mints and tokens

ASSUME TokenAssumption ==
  /\ MaxSize \subseteq Nat
  /\ MetadataLen \subseteq Nat
  /\ MintSpace \subseteq Nat
  /\ Recipient \subseteq Wallet
  /\ TokenPayment \subseteq Nat \ {0}

TokenAddress == SchemaMintAddress \cup AttestationMintAddress \cup HoldingAddress

ASSUME TokenFinitenessAssumption == IsFiniteSet(TokenAddress)

VARIABLES
  tokens,      \* the accounts at the addresses of mints and token accounts
  savedTokens  \* those accounts at the last commit

tokenVars == <<tokens, savedTokens>>
allVars == <<vars, tokenVars>>

-----------------------------------------------------------------------------
(* What the accounts of the Token-2022 program hold.                       *)

Group(maxSize) == [kind |-> "group", size |-> 0, max_size |-> maxSize]
Holding(amount) == [kind |-> "holding", amount |-> amount]

\* Fault: the two calls of UpdateField in the other order.
SchemaFirst(a, s) == <<<<"schema", s>>, <<"attestation", a>>>>

(* What UpdateField adds to the metadata of a mint: keys and values.       *)
Metadata(a, s) == <<<<"attestation", a>>, <<"schema", s>>>>
AdditionalMetadata ==
  {Metadata(a, s) : a \in AttestationAddress, s \in SchemaAddress}

Mint(group, number, metadata) ==
  [kind |-> "mint", group |-> group, member_number |-> number, supply |-> 1,
   additional_metadata |-> metadata]

TokenData ==
  {NoData}
    \cup [kind : {"group"}, size : Nat, max_size : MaxSize]
    \cup [kind : {"mint"}, group : SchemaMintAddress, member_number : Nat,
          supply : {0, 1},
          additional_metadata : AdditionalMetadata]
    \cup [kind : {"holding"}, amount : {0, 1}]

TokenRecord ==
  [owner : {"system", "token"}, lamports : Nat, space : Nat, data : TokenData]

IsA(a, kind) == tokens[a].data.kind = kind

(* Tokens in the account at a.                                             *)
Amount(a) == IF IsA(a, "holding") THEN tokens[a].data.amount ELSE 0

(* Sizes of the accounts: as they are created, and as they are once the    *)
(* Token-2022 program has added what goes into their tail.                 *)
GroupSpaceCreated == 234
GroupSpace == 318
MintSpaceCreated == 378
MemberSpace == 76
HoldingSpace == 174

\* Fault: the group is paid for as it is created.
GroupRentSpaceCreated == GroupSpaceCreated

(* The space create_pda_account takes rent for: the larger of the space it *)
(* allocates and min_rent_space.                                           *)
GroupRentSpace ==
  IF GroupSpaceCreated > GroupSpace THEN GroupSpaceCreated ELSE GroupSpace
MintRentSpace(mintSpace) ==
  IF MintSpaceCreated > mintSpace THEN MintSpaceCreated ELSE mintSpace

(* What the payer adds for a token account that has rent for that space.   *)
TokenCost(a, rentSpace) == TopUp(tokens, a, RequiredLamports(rentSpace))

\* Fault: the lamports already there are overwritten.
SetUpIgnoringPrefund(a, rentSpace, space, data) ==
  [owner |-> "token", space |-> space, data |-> data,
   lamports |-> RequiredLamports(rentSpace)]

(* The account at a once the top-up has arrived and it has been set up.    *)
SetUp(a, rentSpace, space, data) ==
  [owner |-> "token", space |-> space, data |-> data,
   lamports |-> tokens[a].lamports + TokenCost(a, rentSpace)]

-----------------------------------------------------------------------------
(* Instructions.                                                           *)

(* process_tokenize_schema.  The status of the schema does not matter; a   *)
(* schema is tokenized once, for its mint is never closed.                 *)
TokenizeSchema(c, s, maxSize, payer) ==
  LET group == SchemaMintPda(s)
      cost == TokenCost(group, GroupRentSpace)
  IN  /\ Instruction
      /\ AuthoritySigned(c)
      /\ SchemaOf(s, c)
      /\ IsVacant(tokens, group)
      /\ CanPay(accounts, signers, payer, cost)
      /\ accounts' = Debit(accounts, payer, cost)
      /\ tokens' = [tokens EXCEPT
           ![group] = SetUp(group, GroupRentSpace, GroupSpace, Group(maxSize))]
      /\ UNCHANGED <<events, issued, savedTokens>>

\* Fault: the size of the group stays.
JoinedUncounted(group) == group

(* InitializeMember: the group has room, and counts one member more.       *)
HasRoom(group) == group.kind = "group" /\ group.size < group.max_size
Joined(group) == [group EXCEPT !.size = @ + 1]

(* CreateIdempotent: the token account of the recipient may be there since *)
(* an earlier attestation at the same address.                             *)
HoldingCost(h) == IF IsA(h, "holding") THEN 0 ELSE TokenCost(h, HoldingSpace)
HoldingReady(h) == IsA(h, "holding") \/ IsVacant(tokens, h)
HoldingOf(h, amount) ==
  IF IsA(h, "holding") THEN [tokens[h] EXCEPT !.data.amount = @ + amount]
  ELSE SetUp(h, HoldingSpace, HoldingSpace, Holding(amount))

(* process_create_tokenized_attestation: the attestation, then its mint    *)
(* and membership, then the token account and the token, each paid for by  *)
(* what the ones before left to the payer.  Only the end of the            *)
(* transaction tells whether mintSpace was enough for the metadata.        *)
CreateTokenizedAttestation(signer, c, s, nonce, data, expiry, payer, recipient, metadataLen, mintSpace) ==
  LET a == AttestationPda(c, s, nonce)
      group == SchemaMintPda(s)
      mint == AttestationMintPda(a)
      holding == HoldingPda(recipient, mint)
      space == MintSpaceCreated + metadataLen + MemberSpace
      mintCost == TokenCost(mint, MintRentSpace(mintSpace))
      created == AttestationCreated(signer, c, s, nonce, data, expiry, payer,
                                    holding)
      minted == Debit(created, payer, mintCost)
  IN  /\ Instruction
      /\ CanCreateAttestation(signer, c, s, nonce, data, expiry, payer)
      /\ IsVacant(tokens, mint)
      /\ space <= MaxDataIncrease
      /\ CanPay(created, signers, payer, mintCost)
      /\ HasRoom(tokens[group].data)
      /\ HoldingReady(holding)
      /\ CanPay(minted, signers, payer, HoldingCost(holding))
      /\ accounts' = Debit(minted, payer, HoldingCost(holding))
      /\ tokens' = [tokens EXCEPT
           ![group].data = Joined(@),
           ![mint] = SetUp(mint, MintRentSpace(mintSpace), space,
                           Mint(group, tokens[group].data.size + 1,
                                Metadata(a, s))),
           ![holding] = HoldingOf(holding, 1)]
      /\ Issue(s, data)
      /\ UNCHANGED savedTokens

\* Fault: nothing is burned when the holder has nothing left.
CanCloseBurned(mint, holding) ==
  IsA(holding, "holding") /\ Amount(holding) = tokens[mint].data.supply

(* BurnChecked by the permanent delegate, then CloseAccount by the close   *)
(* authority, which asks that nothing be left of the supply.               *)
CanBurnAndClose(mint, holding) ==
  Amount(holding) >= 1 /\ tokens[mint].data.supply - 1 = 0

(* process_close_tokenized_attestation: the token is burned and its mint   *)
(* closed, then the attestation is.  The token account stays, and so does  *)
(* the size of the group.                                                  *)
CloseTokenizedAttestation(signer, c, a, holding, payee) ==
  LET mint == AttestationMintPda(a)
  IN  /\ Instruction
      /\ holding.mint = mint
      /\ IsA(mint, "mint")
      /\ CanBurnAndClose(mint, holding)
      /\ CanCloseAttestation(signer, c, a, payee, holding)
      /\ accounts' = Close(Credit(accounts, payee, tokens[mint].lamports),
                           a, payee)
      /\ tokens' = [tokens EXCEPT ![mint] = Vacant,
                                  ![holding].data = Holding(Amount(holding) - 1)]
      /\ EmitClose(a)
      /\ UNCHANGED savedTokens

-----------------------------------------------------------------------------
(* What holders and others do with the Token-2022 program themselves.      *)

(* The holder burns the token.                                             *)
BurnToken(h) ==
  /\ Instruction
  /\ h.wallet \in signers
  /\ Amount(h) >= 1
  /\ IsA(h.mint, "mint")
  /\ tokens' = [tokens EXCEPT ![h].data.amount = @ - 1,
                              ![h.mint].data.supply = @ - 1]
  /\ UNCHANGED <<accounts, events, issued, savedTokens>>

(* The holder closes the empty token account, its mint being there or not. *)
CloseHolding(h) ==
  /\ Instruction
  /\ h.wallet \in signers
  /\ IsA(h, "holding")
  /\ Amount(h) = 0
  /\ accounts' = Credit(accounts, h.wallet, tokens[h].lamports)
  /\ tokens' = [tokens EXCEPT ![h] = Vacant]
  /\ UNCHANGED <<events, issued, savedTokens>>

(* Anyone makes the token account of any wallet for a mint that exists.    *)
CreateHolding(h, payer) ==
  /\ Instruction
  /\ IsA(h.mint, "mint")
  /\ IsVacant(tokens, h)
  /\ CanPay(accounts, signers, payer, HoldingCost(h))
  /\ accounts' = Debit(accounts, payer, HoldingCost(h))
  /\ tokens' = [tokens EXCEPT ![h] = HoldingOf(h, 0)]
  /\ UNCHANGED <<events, issued, savedTokens>>

(* Anyone sends lamports to the address of a mint or token account.        *)
FundToken(from, to, amount) ==
  /\ Instruction
  /\ CanPay(accounts, signers, from, amount)
  /\ accounts' = Debit(accounts, from, amount)
  /\ tokens' = Credit(tokens, to, amount)
  /\ UNCHANGED <<events, issued, savedTokens>>

-----------------------------------------------------------------------------
(* Transactions.                                                           *)

CommitTokens ==
  /\ Commit
  /\ RentStateOk(tokens)
  /\ tokens' = Purge(tokens)
  /\ savedTokens' = Purge(tokens)

AbortTokens ==
  /\ Abort
  /\ tokens' = savedTokens
  /\ UNCHANGED savedTokens

TokenizedInit ==
  /\ Init
  /\ tokens = [a \in TokenAddress |-> Vacant]
  /\ savedTokens = tokens

TokenizationNext ==
  \/ \E c \in CredentialKey, s \in SchemaAddress, payer \in Wallet :
       \/ \E maxSize \in MaxSize : TokenizeSchema(c, s, maxSize, payer)
       \/ \E signer \in Wallet, nonce \in Nonce, data \in Data,
             expiry \in Expiry, recipient \in Recipient,
             metadataLen \in MetadataLen, mintSpace \in MintSpace :
            CreateTokenizedAttestation(signer, c, s, nonce, data, expiry,
              payer, recipient, metadataLen, mintSpace)
  \/ \E signer \in Wallet, c \in CredentialKey, a \in AttestationAddress,
        holding \in HoldingAddress, payee \in Payee :
       CloseTokenizedAttestation(signer, c, a, holding, payee)

HolderNext ==
  \/ \E h \in HoldingAddress :
       \/ BurnToken(h)
       \/ CloseHolding(h)
       \/ \E payer \in Wallet : CreateHolding(h, payer)
  \/ \E from \in Wallet, to \in TokenAddress, amount \in TokenPayment :
       FundToken(from, to, amount)

(* Steps of the rest of the system, which leave the token accounts alone.  *)
OtherNext ==
  /\ \/ CredentialNext
     \/ SchemaNext
     \/ AttestationNext
     \/ SystemNext
     \/ \E signed \in (SUBSET Wallet) \ {{}} : Begin(signed)
     \/ Tick
  /\ UNCHANGED tokenVars

TokenizedNext ==
  \/ TokenizationNext
  \/ HolderNext
  \/ OtherNext
  \/ CommitTokens
  \/ AbortTokens

TokenizedSpec == TokenizedInit /\ [][TokenizedNext]_allVars

-----------------------------------------------------------------------------
(* Properties.                                                             *)

(* Types of the accounts of the Token-2022 program: in particular no       *)
(* token account ever holds two tokens.                                    *)
TokensTypeOK ==
  /\ tokens \in [TokenAddress -> TokenRecord]
  /\ savedTokens \in [TokenAddress -> TokenRecord]

(* The attestation at a is live and has a token account.                   *)
Tokenized(a) ==
  Holds(a, "attestation") /\ accounts[a].data.token_account # NoToken

(* A mint exists exactly as long as the tokenized attestation it belongs   *)
(* to: no order of plain and tokenized creation and closing, of aborts and *)
(* of the holder's own steps leaves one without the other.  The mint is in *)
(* the group of the attestation's schema, and its metadata names both.     *)
MintsMatchAttestations ==
  \A a \in AttestationAddress :
    LET mint == AttestationMintPda(a)
    IN  /\ IsA(mint, "mint") <=> Tokenized(a)
        /\ IsA(mint, "mint") =>
             /\ tokens[mint].data.group = SchemaMintPda(accounts[a].data.schema)
             /\ tokens[mint].data.additional_metadata
                  = Metadata(a, accounts[a].data.schema)
             /\ IsA(tokens[mint].data.group, "group")

(* The supply of a mint lies in the token account the attestation names,   *)
(* and no other account, an empty one of an earlier attestation at the     *)
(* same address or one made by somebody else, holds a token of it.  What   *)
(* is left of a closed mint holds nothing.                                 *)
SupplyAtTokenAccount ==
  \A h \in HoldingAddress :
    LET a == h.mint.attestation
    IN  Amount(h) =
          IF Tokenized(a) /\ accounts[a].data.token_account = h
            THEN tokens[h.mint].data.supply
            ELSE 0

(* Member numbers tell the mints of a group apart, although closing leaves *)
(* gaps and the size only grows; the size never passes the maximum.        *)
MintsOf(group) ==
  {m \in AttestationMintAddress : IsA(m, "mint") /\ tokens[m].data.group = group}

MembersDistinct ==
  \A g \in SchemaMintAddress :
    LET group == tokens[g].data
    IN  /\ IsA(g, "group") => group.size <= group.max_size
        /\ \A m \in MintsOf(g) :
             /\ tokens[m].data.member_number \in 1 .. group.size
             /\ \A n \in MintsOf(g) \ {m} :
                  tokens[m].data.member_number # tokens[n].data.member_number

(* A group and a token account hold the rent of their final size from the  *)
(* instruction that makes them on, however little was sent there before.   *)
TokenAccountsExempt ==
  \A t \in TokenAddress :
    IsA(t, "group") \/ IsA(t, "holding") =>
      tokens[t].lamports >= RequiredLamports(tokens[t].space)

(* No lamports are created or destroyed among wallets, program accounts,   *)
(* mints and token accounts.                                               *)
TokenLamportsConserved ==
  TotalLamports(accounts) + TotalLamports(tokens)
    = InitialLamports * Cardinality(Wallet)

-----------------------------------------------------------------------------
(* Properties of what a transaction may do to the committed state.         *)

TokenBefore(a) == savedTokens[a]
TokenAfter(a) == savedTokens'[a]

(* Once the holder has burned the token, the attestation is there for      *)
(* good: neither closing instruction works on it, and its mint can be      *)
(* neither closed nor minted again.                                        *)
BurnsKept ==
  \A a \in AttestationAddress :
    LET mint == AttestationMintPda(a)
    IN  TokenBefore(mint).data.kind = "mint"
          /\ TokenBefore(mint).data.supply = 0
        => /\ TokenAfter(mint).data = TokenBefore(mint).data
           /\ After(a).data = Before(a).data

BurnedForGood == [][BurnsKept]_savedTokens

(* A place in a group is used up by the attestation that takes it: the     *)
(* group stays with its maximum, its size never goes down, and a mint that *)
(* is new in a transaction has a number of those the group has counted in  *)
(* it, which no mint of the group ever had.                                *)
PlacesCounted ==
  /\ \A g \in SchemaMintAddress :
       TokenBefore(g).data.kind = "group" =>
         /\ TokenAfter(g).data.kind = "group"
         /\ TokenAfter(g).data.max_size = TokenBefore(g).data.max_size
         /\ TokenAfter(g).data.size >= TokenBefore(g).data.size
  /\ \A m \in AttestationMintAddress :
       /\ TokenAfter(m).data.kind = "mint"
       /\ TokenBefore(m).data.kind = "mint" =>
            TokenBefore(m).data.member_number
              # TokenAfter(m).data.member_number
       => LET g == TokenAfter(m).data.group
              number == TokenAfter(m).data.member_number
          IN  /\ number <= TokenAfter(g).data.size
              /\ TokenBefore(g).data.kind = "group" =>
                   number > TokenBefore(g).data.size

PlacesUsedOnce == [][PlacesCounted]_savedTokens

=============================================================================
