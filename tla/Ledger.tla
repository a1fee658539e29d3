------------------------------- MODULE Ledger -------------------------------
(***************************************************************************)
(* The part of the Solana runtime the attestation service builds on:       *)
(* addresses, accounts, rent, the System program's transfers and the       *)
(* program-derived accounts of processor/shared/pda_utils.rs.              *)
(*                                                                         *)
(* A ledger is a function from addresses to accounts, and each operation   *)
(* is an operator from one ledger to the next.  An address nobody has used *)
(* maps to Vacant.                                                         *)
(***************************************************************************)
EXTENDS Integers, Sequences, FiniteSetsExt

CONSTANTS
  Wallet,          \* keypair addresses: the only keys that sign
  Squatter,        \* the wallets whose owner may hand them to the program
  NullKey,         \* Pubkey::default(), also the System program's address
  Name,            \* names of credentials and schemas, sequences of bytes
  Nonce,           \* nonces of attestations
  MaxVersion,      \* u8::MAX (255) in the code
  LamportsPerByte, \* rent: lamports per byte for an exempt account
  MaxDataIncrease  \* bytes one instruction may add to an account (10240)

ASSUME WalletAssumption ==
  /\ Squatter \subseteq Wallet
  /\ NullKey \notin Wallet
ASSUME NameAssumption == Name \subseteq Seq(0 .. 255)
ASSUME LimitAssumption ==
  /\ MaxVersion \in Nat \ {0}
  /\ LamportsPerByte \in Nat
  /\ MaxDataIncrease \in Nat

-----------------------------------------------------------------------------
(* Addresses.  find_program_address is a hash of its seeds: two different  *)
(* seed tuples never give the same address, and no key signs for one.      *)

CredentialPda(authority, name) ==
  [seed |-> "credential", authority |-> authority, name |-> name]
SchemaPda(credential, name, version) ==
  [seed |-> "schema", credential |-> credential, name |-> name,
   version |-> version]
AttestationPda(credential, schema, nonce) ==
  [seed |-> "attestation", credential |-> credential, schema |-> schema,
   nonce |-> nonce]

CredentialAddress ==
  [seed : {"credential"}, authority : Wallet, name : Name]

(* Where an account that parses as a Credential may lie: a wallet handed   *)
(* to the program is zeroed, and 0 is the discriminator of Credential.     *)
CredentialKey == CredentialAddress \cup Squatter

SchemaAddress ==
  [seed : {"schema"}, credential : CredentialKey, name : Name,
   version : 1 .. MaxVersion]
AttestationAddress ==
  [seed : {"attestation"}, credential : CredentialKey,
   schema : SchemaAddress, nonce : Nonce]

Address ==
  Wallet \cup CredentialAddress \cup SchemaAddress \cup AttestationAddress

(* The mints of tokenized schemas and attestations, and the associated     *)
(* token account of a wallet for the mint of an attestation.               *)
SchemaMintPda(schema) == [seed |-> "schemaMint", schema |-> schema]
AttestationMintPda(attestation) ==
  [seed |-> "attestationMint", attestation |-> attestation]
HoldingPda(wallet, mint) ==
  [seed |-> "holding", wallet |-> wallet, mint |-> mint]

SchemaMintAddress == [seed : {"schemaMint"}, schema : SchemaAddress]
AttestationMintAddress ==
  [seed : {"attestationMint"}, attestation : AttestationAddress]
HoldingAddress ==
  [seed : {"holding"}, wallet : Wallet, mint : AttestationMintAddress]

(* A derived address is off the ed25519 curve, a wallet on it; the null    *)
(* key, which no seeds give, is nobody's token account.                    *)
ASSUME AddressAssumption ==
  /\ Wallet \cap (CredentialAddress \cup SchemaAddress \cup AttestationAddress)
       = {}
  /\ NullKey \notin HoldingAddress

(* An address has 32 bytes.                                                *)
ASSUME FinitenessAssumption == IsFiniteSet(Address)

(* A seed longer than 32 bytes makes find_program_address panic.           *)
MaxSeedLen == 32
ValidSeed(name) == Len(name) <= MaxSeedLen

-----------------------------------------------------------------------------
(* Accounts.  "data" is what the bytes of the account parse to; its "kind" *)
(* is the discriminator byte.                                              *)

NoData == [kind |-> "none"]

Vacant == [owner |-> "system", lamports |-> 0, space |-> 0, data |-> NoData]

\* Fault: an account in use is created again.
IsVacantUnchecked(ledger, a) == TRUE

(* verify_system_account: owned by the System program and empty.           *)
IsVacant(ledger, a) ==
  /\ ledger[a].owner = "system"
  /\ ledger[a].space = 0

\* Fault: the subtraction does not saturate.
WrappingSub(x, y) == x - y

(* usize::saturating_sub *)
SaturatingSub(x, y) == IF x > y THEN x - y ELSE 0

MinimumBalance(space) == (128 + space) * LamportsPerByte

(* A new account holds at least one lamport even when rent is free.        *)
RequiredLamports(space) ==
  IF MinimumBalance(space) > 1 THEN MinimumBalance(space) ELSE 1

(* What the payer adds for an account to reach a balance.                  *)
TopUp(ledger, a, required) == SaturatingSub(required, ledger[a].lamports)

\* Fault: nobody looks at the balance of the payer.
CanPayOverdraft(ledger, signed, payer, lamports) ==
  lamports > 0 => payer \in signed

(* The System program moves lamports only out of an account that signed    *)
(* and that it owns; the code makes no transfer of zero lamports.          *)
CanPay(ledger, signed, payer, lamports) ==
  lamports > 0 =>
    /\ payer \in signed
    /\ ledger[payer].owner = "system"
    /\ ledger[payer].lamports >= lamports

Debit(ledger, a, lamports) == [ledger EXCEPT ![a].lamports = @ - lamports]
Credit(ledger, a, lamports) == [ledger EXCEPT ![a].lamports = @ + lamports]
Transfer(ledger, from, to, lamports) ==
  Credit(Debit(ledger, from, lamports), to, lamports)

(* All there is on a ledger.                                               *)
TotalLamports(ledger) ==
  MapThenSumSet(LAMBDA a : ledger[a].lamports, DOMAIN ledger)

-----------------------------------------------------------------------------
(* create_pda_account, both branches: an address that already holds        *)
(* lamports is topped up, allocated and assigned, any other one goes       *)
(* through CreateAccount.  Either way the System program refuses an        *)
(* account that is not vacant, and the runtime one that grows too much.    *)

CreationCost(ledger, a, space) == TopUp(ledger, a, RequiredLamports(space))

CanCreate(ledger, signed, payer, a, space) ==
  /\ IsVacant(ledger, a)
  /\ space <= MaxDataIncrease
  /\ CanPay(ledger, signed, payer, CreationCost(ledger, a, space))

\* Fault: the lamports already there are overwritten.
CreateIgnoringPrefund(ledger, payer, a, space, data) ==
  [Debit(ledger, payer, RequiredLamports(space)) EXCEPT
     ![a] = [owner |-> "sas", lamports |-> RequiredLamports(space),
             space |-> space, data |-> data]]

Create(ledger, payer, a, space, data) ==
  [Transfer(ledger, payer, a, CreationCost(ledger, a, space)) EXCEPT
     ![a] = [owner |-> "sas", lamports |-> @.lamports,
             space |-> space, data |-> data]]

(* The resizing common to change_authorized_signers and                    *)
(* change_schema_description: growth is paid for, shrinking leaves the     *)
(* lamports where they are.                                                *)

\* Fault: the rent is that of the size before the change.
ResizeCostStale(ledger, a, space) ==
  TopUp(ledger, a, MinimumBalance(ledger[a].space))

ResizeCost(ledger, a, space) ==
  IF space > ledger[a].space THEN TopUp(ledger, a, MinimumBalance(space))
  ELSE 0

CanResize(ledger, signed, payer, a, space) ==
  /\ space <= ledger[a].space + MaxDataIncrease
  /\ CanPay(ledger, signed, payer, ResizeCost(ledger, a, space))

Resize(ledger, payer, a, space, data) ==
  [Transfer(ledger, payer, a, ResizeCost(ledger, a, space)) EXCEPT
     ![a] = [owner |-> @.owner, lamports |-> @.lamports,
             space |-> space, data |-> data]]

\* Fault: owner and data of the closed account stay.
CloseDrainOnly(ledger, a, payee) ==
  [Credit(ledger, payee, ledger[a].lamports) EXCEPT ![a].lamports = 0]

\* Fault: the rent is not handed out.
CloseKeepingRent(ledger, a, payee) == [ledger EXCEPT ![a] = Vacant]

(* close_attestation empties the account into the payee; the account goes  *)
(* back to the System program.  The runtime fails an instruction that      *)
(* names one account twice and so destroys lamports.                       *)
Close(ledger, a, payee) ==
  [Credit(ledger, payee, ledger[a].lamports) EXCEPT ![a] = Vacant]

(* The runtime lets a transaction commit only if it leaves every account   *)
(* rent exempt or without lamports.                                        *)
RentStateOk(ledger) ==
  \A a \in DOMAIN ledger :
    ledger[a].lamports > 0 =>
      ledger[a].lamports >= MinimumBalance(ledger[a].space)

(* At the end of a transaction an account without lamports is forgotten.   *)
Purge(ledger) ==
  [a \in DOMAIN ledger |-> IF ledger[a].lamports = 0 THEN Vacant ELSE ledger[a]]

=============================================================================
